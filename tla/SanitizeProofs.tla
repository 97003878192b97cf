--------------------------- MODULE SanitizeProofs ---------------------------
(***************************************************************************)
(* What is proved of Sanitize: what cuts, trims and encodings do to any    *)
(* text, and from that every property of the module.                       *)
(***************************************************************************)
EXTENDS Sanitize, OrderingProofs, SequenceTheorems

Text == Seq(Letters)

-----------------------------------------------------------------------------
(* Cutting a text *)

\* The place strings.Cut looks for is there when the letter is.
LEMMA FirstPlace ==
  ASSUME NEW s \in Text, NEW c, Has(s, c)
  PROVE  /\ First(s, c) \in 1..Len(s)
         /\ s[First(s, c)] = c
         /\ \A j \in 1..First(s, c) - 1 : s[j] # c
<1> DEFINE places == {i \in DOMAIN s : s[i] = c}
<1>1. DOMAIN s = 1..Len(s) /\ Len(s) \in Nat
  BY DEF Text
<1>2. PICK i \in places : \A j \in places : i <= j
  <2>1. places \subseteq Nat /\ places # {}
    BY <1>1 DEF Has
  <2> HIDE DEF places
  <2> QED
    BY <2>1, LeastNatural
<1>3. \A j \in 1..i - 1 : s[j] # c
  <2> SUFFICES ASSUME NEW j \in 1..i - 1, s[j] = c PROVE FALSE
    OBVIOUS
  <2>1. j \in places
    BY <1>1, <1>2
  <2> QED
    BY <1>1, <1>2, <2>1
<1>4. \E k \in DOMAIN s : s[k] = c /\ \A j \in 1..k - 1 : s[j] # c
  BY <1>2, <1>3
<1>5. First(s, c) = CHOOSE k \in DOMAIN s : s[k] = c /\ \A j \in 1..k - 1 : s[j] # c
  BY DEF First
<1> QED
  BY <1>1, <1>4, <1>5

\* And it is the only such place.
LEMMA OnlyFirst ==
  ASSUME NEW s \in Text, NEW c, NEW i \in 1..Len(s), s[i] = c, \A j \in 1..i - 1 : s[j] # c
  PROVE  Has(s, c) /\ First(s, c) = i
<1>1. DOMAIN s = 1..Len(s) /\ Len(s) \in Nat
  BY DEF Text
<1>2. Has(s, c)
  BY <1>1 DEF Has
<1>3. /\ First(s, c) \in 1..Len(s)
      /\ s[First(s, c)] = c
      /\ \A j \in 1..First(s, c) - 1 : s[j] # c
  BY <1>2, FirstPlace
<1>4. ~(First(s, c) < i) /\ ~(i < First(s, c))
  BY <1>1, <1>3
<1> QED
  BY <1>1, <1>2, <1>3, <1>4

\* What Cut gives where the letter is.
LEMMA CutFound ==
  ASSUME NEW s \in Text, NEW c, Has(s, c)
  PROVE  LET f == First(s, c)
         IN  /\ f \in 1..Len(s)
             /\ Before(s, c) \in Text /\ Len(Before(s, c)) = f - 1
             /\ \A j \in 1..f - 1 : Before(s, c)[j] = s[j]
             /\ After(s, c) \in Text /\ Len(After(s, c)) = Len(s) - f
             /\ \A j \in 1..Len(s) - f : After(s, c)[j] = s[f + j]
<1> DEFINE f == First(s, c)
<1>1. f \in 1..Len(s) /\ Len(s) \in Nat
  BY FirstPlace DEF Text
<1>2. Before(s, c) = SubSeq(s, 1, f - 1) /\ After(s, c) = SubSeq(s, f + 1, Len(s))
  BY DEF Before, After
<1> HIDE DEF f
<1>3. /\ SubSeq(s, 1, f - 1) \in Text
      /\ Len(SubSeq(s, 1, f - 1)) = IF 1 <= f - 1 THEN (f - 1) - 1 + 1 ELSE 0
      /\ \A j \in 1..(f - 1) - 1 + 1 : SubSeq(s, 1, f - 1)[j] = s[1 + j - 1]
  <2>1. 1 \in 1..Len(s) + 1 /\ f - 1 \in 0..Len(s)
    BY <1>1
  <2> QED
    BY <2>1, SubSeqProperties DEF Text
<1>4. /\ SubSeq(s, f + 1, Len(s)) \in Text
      /\ Len(SubSeq(s, f + 1, Len(s))) = IF f + 1 <= Len(s) THEN Len(s) - (f + 1) + 1 ELSE 0
      /\ \A j \in 1..Len(s) - (f + 1) + 1 : SubSeq(s, f + 1, Len(s))[j] = s[f + 1 + j - 1]
  <2>1. f + 1 \in 1..Len(s) + 1 /\ Len(s) \in 0..Len(s)
    BY <1>1
  <2> QED
    BY <2>1, SubSeqProperties DEF Text
<1>5. /\ Len(Before(s, c)) = f - 1
      /\ \A j \in 1..f - 1 : Before(s, c)[j] = s[j]
  BY <1>1, <1>2, <1>3
<1>6. /\ Len(After(s, c)) = Len(s) - f
      /\ \A j \in 1..Len(s) - f : After(s, c)[j] = s[f + j]
  BY <1>1, <1>2, <1>4
<1> QED
  BY <1>1, <1>2, <1>3, <1>4, <1>5, <1>6 DEF f

LEMMA CutMissing ==
  ASSUME NEW s, NEW c, ~Has(s, c)
  PROVE  Before(s, c) = s /\ After(s, c) = <<>>
BY DEF Before, After

LEMMA EmptyText == <<>> \in Text /\ Len(<<>>) = 0
BY DEF Text

LEMMA CutTypes ==
  ASSUME NEW s \in Text, NEW c
  PROVE  /\ Before(s, c) \in Text /\ After(s, c) \in Text
         /\ Len(Before(s, c)) <= Len(s)
         /\ ~Has(Before(s, c), c)
<1>1. Len(s) \in Nat
  BY DEF Text
<1>2. CASE ~Has(s, c)
  BY <1>1, <1>2, CutMissing, EmptyText
<1>3. CASE Has(s, c)
  <2> DEFINE f == First(s, c)
  <2>1. /\ f \in 1..Len(s)
        /\ Before(s, c) \in Text /\ Len(Before(s, c)) = f - 1
        /\ \A j \in 1..f - 1 : Before(s, c)[j] = s[j]
        /\ After(s, c) \in Text
    BY <1>3, CutFound
  <2>2. \A j \in 1..f - 1 : s[j] # c
    BY <1>3, FirstPlace
  <2>3. DOMAIN Before(s, c) = 1..f - 1
    BY <2>1 DEF Text
  <2> HIDE DEF f
  <2> QED
    BY <1>1, <2>1, <2>2, <2>3 DEF Has
<1> QED
  BY <1>2, <1>3

\* a is how b begins.
Begins(a, b) == Len(a) <= Len(b) /\ \A i \in 1..Len(a) : a[i] = b[i]

LEMMA BeginsAll ==
  ASSUME NEW a \in Text, NEW b \in Text, Begins(a, b), Len(a) >= Len(b)
  PROVE  a = b
<1>1. Len(a) \in Nat /\ Len(b) \in Nat
  BY DEF Text
<1>2. Len(a) = Len(b) /\ \A i \in 1..Len(a) : a[i] = b[i]
  BY <1>1 DEF Begins
<1> QED
  BY <1>2, SeqEqual DEF Text

\* The beginning of a text is cut as the text is, as far as it goes.
LEMMA CutBeginning ==
  ASSUME NEW a \in Text, NEW s \in Text, Begins(a, s), NEW c
  PROVE  /\ Begins(Before(a, c), Before(s, c)) /\ Begins(After(a, c), After(s, c))
         /\ Len(a) >= Len(Before(s, c)) => Before(a, c) = Before(s, c)
<1> DEFINE la == Len(a)
           ls == Len(s)
<1>1. /\ la \in Nat /\ ls \in Nat /\ la <= ls /\ DOMAIN a = 1..la /\ DOMAIN s = 1..ls
      /\ \A i \in 1..la : a[i] = s[i]
  BY DEF Text, Begins
<1>2. /\ Before(a, c) \in Text /\ Before(s, c) \in Text
      /\ After(a, c) \in Text /\ After(s, c) \in Text
  BY CutTypes
<1>3. /\ Begins(Before(a, c), Before(s, c)) /\ Begins(After(a, c), After(s, c))
      /\ la >= Len(Before(s, c)) => Len(Before(a, c)) >= Len(Before(s, c))
  <2>1. CASE ~Has(s, c)
    <3>1. ~Has(a, c)
      BY <1>1, <2>1 DEF Has
    <3>2. /\ Before(a, c) = a /\ After(a, c) = <<>>
          /\ Before(s, c) = s /\ After(s, c) = <<>>
      BY <2>1, <3>1, CutMissing
    <3>3. Begins(<<>>, <<>>)
      BY EmptyText DEF Begins
    <3> QED
      BY <3>2, <3>3
  <2>2. ASSUME Has(s, c), First(s, c) <= la
        PROVE  /\ Begins(Before(a, c), Before(s, c)) /\ Begins(After(a, c), After(s, c))
               /\ Len(Before(a, c)) >= Len(Before(s, c))
    <3> DEFINE f == First(s, c)
    <3>1. /\ f \in 1..ls
          /\ Len(Before(s, c)) = f - 1
          /\ \A j \in 1..f - 1 : Before(s, c)[j] = s[j]
          /\ Len(After(s, c)) = ls - f
          /\ \A j \in 1..ls - f : After(s, c)[j] = s[f + j]
      BY <2>2, CutFound
    <3>2. f \in 1..la /\ s[f] = c /\ \A j \in 1..f - 1 : s[j] # c
      BY <1>1, <2>2, <3>1, FirstPlace
    <3> HIDE DEF f
    <3>3. a[f] = c /\ \A j \in 1..f - 1 : a[j] # c
      BY <1>1, <3>2
    <3>4. Has(a, c) /\ First(a, c) = f
      BY <3>2, <3>3, OnlyFirst
    <3>5. /\ Len(Before(a, c)) = f - 1
          /\ \A j \in 1..f - 1 : Before(a, c)[j] = a[j]
          /\ Len(After(a, c)) = la - f
          /\ \A j \in 1..la - f : After(a, c)[j] = a[f + j]
      BY <3>4, CutFound
    <3>6. Begins(Before(a, c), Before(s, c)) /\ Len(Before(a, c)) >= Len(Before(s, c))
      BY <1>1, <3>1, <3>2, <3>5 DEF Begins
    <3>7. Begins(After(a, c), After(s, c))
      <4>1. \A j \in 1..la - f : f + j \in 1..la /\ j \in 1..ls - f
        BY <1>1, <3>2
      <4>2. \A j \in 1..la - f : After(a, c)[j] = After(s, c)[j]
        BY <1>1, <3>1, <3>5, <4>1
      <4> QED
        BY <1>1, <3>1, <3>2, <3>5, <4>2 DEF Begins
    <3> QED
      BY <3>6, <3>7
  <2>3. CASE Has(s, c) /\ ~(First(s, c) <= la)
    <3> DEFINE f == First(s, c)
    <3>1. /\ f \in 1..ls
          /\ Len(Before(s, c)) = f - 1
          /\ \A j \in 1..f - 1 : Before(s, c)[j] = s[j]
          /\ Len(After(s, c)) \in Nat
      BY <1>2, <2>3, CutFound DEF Text
    <3>2. \A j \in 1..f - 1 : s[j] # c
      BY <2>3, FirstPlace
    <3>3. ~(f <= la)
      BY <2>3
    <3> HIDE DEF f
    <3>4. ~Has(a, c)
      BY <1>1, <3>1, <3>2, <3>3 DEF Has
    <3>5. Before(a, c) = a /\ After(a, c) = <<>>
      BY <3>4, CutMissing
    <3>6. Begins(Before(a, c), Before(s, c))
      BY <1>1, <3>1, <3>3, <3>5 DEF Begins
    <3>7. Begins(After(a, c), After(s, c))
      BY <3>1, <3>5, EmptyText DEF Begins
    <3> QED
      BY <1>1, <3>1, <3>5, <3>6, <3>7
  <2> QED
    BY <2>1, <2>2, <2>3
<1> QED
  BY <1>2, <1>3, BeginsAll

\* truncateRunes keeps a beginning, all of it or as much as the bound.
LEMMA TruncatedText ==
  ASSUME NEW s \in Text, NEW bound \in Int
  PROVE  LET t == Truncated(s, bound)
         IN  /\ t \in Text /\ Begins(t, s)
             /\ t = s \/ Len(t) = bound
             /\ bound > 0 => Len(t) <= bound
<1>1. Len(s) \in Nat
  BY DEF Text
<1>2. CASE bound <= 0 \/ Len(s) <= bound
  <2>1. Truncated(s, bound) = s
    BY <1>2 DEF Truncated
  <2> QED
    BY <1>1, <1>2, <2>1 DEF Begins
<1>3. CASE ~(bound <= 0 \/ Len(s) <= bound)
  <2>1. Truncated(s, bound) = SubSeq(s, 1, bound)
    BY <1>3 DEF Truncated
  <2>2. 1 \in 1..Len(s) + 1 /\ bound \in 0..Len(s)
    BY <1>1, <1>3
  <2>3. /\ SubSeq(s, 1, bound) \in Text
        /\ Len(SubSeq(s, 1, bound)) = IF 1 <= bound THEN bound - 1 + 1 ELSE 0
        /\ \A i \in 1..bound - 1 + 1 : SubSeq(s, 1, bound)[i] = s[1 + i - 1]
    BY <2>2, SubSeqProperties DEF Text
  <2>4. Len(SubSeq(s, 1, bound)) = bound /\ \A i \in 1..bound : SubSeq(s, 1, bound)[i] = s[i]
    BY <1>1, <1>3, <2>3
  <2> QED
    BY <1>1, <1>3, <2>1, <2>3, <2>4 DEF Begins
<1> QED
  BY <1>2, <1>3

\* The parts of a parsed text.
LEMMA ParsedParts ==
  ASSUME NEW s \in Text
  PROVE  LET url == Parsed(s)
             main == Before(s, "#")
         IN  /\ main \in Text
             /\ url.path = Before(main, "?") /\ url.path \in Text
             /\ url.query = After(main, "?") /\ url.query \in Text
             /\ url.fragment = After(s, "#") /\ url.fragment \in Text
             /\ url.forced \in BOOLEAN /\ url.ok \in BOOLEAN
<1>1. Before(s, "#") \in Text /\ After(s, "#") \in Text
  BY CutTypes
<1>2. Before(Before(s, "#"), "?") \in Text /\ After(Before(s, "#"), "?") \in Text
  BY <1>1, CutTypes
<1> QED
  BY <1>1, <1>2 DEF Parsed

\* A text cut short is read as far as it goes.
LEMMA ParsedBeginning ==
  ASSUME NEW a \in Text, NEW s \in Text, Begins(a, s)
  PROVE  /\ Begins(Parsed(a).query, Parsed(s).query)
         /\ Begins(Parsed(a).fragment, Parsed(s).fragment)
         /\ Len(a) >= Len(Before(s, "#"))
            => Parsed(a).path = Parsed(s).path /\ Parsed(a).query = Parsed(s).query
<1> DEFINE m == Before(s, "#")
           n == Before(a, "#")
<1>1. /\ m \in Text /\ Parsed(s).path = Before(m, "?") /\ Parsed(s).query = After(m, "?")
      /\ Parsed(s).fragment = After(s, "#")
  BY ParsedParts
<1>2. /\ n \in Text /\ Parsed(a).path = Before(n, "?") /\ Parsed(a).query = After(n, "?")
      /\ Parsed(a).fragment = After(a, "#")
  BY ParsedParts
<1>3. Begins(n, m) /\ Begins(After(a, "#"), After(s, "#")) /\ (Len(a) >= Len(m) => n = m)
  BY CutBeginning
<1> HIDE DEF m, n
<1>4. Begins(After(n, "?"), After(m, "?"))
  BY <1>1, <1>2, <1>3, CutBeginning
<1> QED
  BY <1>1, <1>2, <1>3, <1>4 DEF m

Joined(s, p, c, q) ==
  /\ s \in Text /\ Len(s) = Len(p) + 1 + Len(q)
  /\ \A i \in 1..Len(p) : s[i] = p[i]
  /\ s[Len(p) + 1] = c
  /\ \A i \in 1..Len(q) : s[Len(p) + 1 + i] = q[i]

LEMMA JoinedText ==
  ASSUME NEW p \in Text, NEW q \in Text, NEW c \in Letters
  PROVE  Joined(p \o <<c>> \o q, p, c, q)
<1> DEFINE mark == <<c>>
           head == p \o mark
           s == p \o <<c>> \o q
<1>1. mark \in Text /\ Len(mark) = 1 /\ mark[1] = c
  BY DEF Text
<1>2. Len(p) \in Nat /\ Len(q) \in Nat
  BY DEF Text
<1>3. s = head \o q
  OBVIOUS
<1> HIDE DEF mark, s
<1>4. /\ head \in Text /\ Len(head) = Len(p) + Len(mark)
      /\ \A i \in 1..Len(p) + Len(mark) :
           head[i] = IF i <= Len(p) THEN p[i] ELSE mark[i - Len(p)]
  BY <1>1, ConcatProperties DEF Text
<1> HIDE DEF head
<1>5. /\ s \in Text /\ Len(s) = Len(head) + Len(q)
      /\ \A i \in 1..Len(head) + Len(q) :
           s[i] = IF i <= Len(head) THEN head[i] ELSE q[i - Len(head)]
  <2>1. head \in Seq(Letters) /\ q \in Seq(Letters)
    BY <1>4 DEF Text
  <2>2. /\ head \o q \in Seq(Letters) /\ Len(head \o q) = Len(head) + Len(q)
        /\ \A i \in 1..Len(head) + Len(q) :
             (head \o q)[i] = IF i <= Len(head) THEN head[i] ELSE q[i - Len(head)]
    BY <2>1, ConcatProperties
  <2> QED
    BY <1>3, <2>2 DEF Text
<1>6. /\ Len(head) = Len(p) + 1 /\ \A i \in 1..Len(p) : head[i] = p[i]
      /\ head[Len(p) + 1] = c
  BY <1>1, <1>2, <1>4
<1>7. \A i \in 1..Len(q) : s[Len(p) + 1 + i] = q[i]
  <2> TAKE i \in 1..Len(q)
  <2>1. /\ Len(p) + 1 + i \in 1..Len(head) + Len(q) /\ ~(Len(p) + 1 + i <= Len(head))
        /\ Len(p) + 1 + i - Len(head) = i
    BY <1>2, <1>6
  <2> QED
    BY <1>5, <2>1
<1>8. \A i \in 1..Len(p) : s[i] = p[i]
  BY <1>2, <1>5, <1>6
<1>9. s[Len(p) + 1] = c
  BY <1>2, <1>5, <1>6
<1> QED
  BY <1>2, <1>5, <1>6, <1>7, <1>8, <1>9 DEF s, Joined

\* What URL.String puts together is taken apart the same way.
LEMMA AssembledParsed ==
  ASSUME NEW url, url.path \in Text, NEW q \in Text,
         ~Has(url.path, "#"), ~Has(url.path, "?"), ~Has(q, "#")
  PROVE  LET s == Assembled(url, q)
         IN  /\ s \in Text /\ ~Has(s, "#")
             /\ Parsed(s).path = url.path /\ Parsed(s).query = q
             /\ Len(s) <= Len(url.path) + 1 + Len(q)
<1> DEFINE p == url.path
           s == Assembled(url, q)
<1>0. p \in Text /\ ~Has(p, "#") /\ ~Has(p, "?")
  OBVIOUS
<1>1. Len(p) \in Nat /\ Len(q) \in Nat /\ DOMAIN p = 1..Len(p) /\ DOMAIN q = 1..Len(q)
  BY <1>0 DEF Text
<1>2. CASE ~(q # <<>> \/ url.forced)
  <2>1. s = p /\ q = <<>>
    BY <1>2 DEF Assembled
  <2> HIDE DEF s, p
  <2>2. Before(p, "#") = p /\ Before(p, "?") = p /\ After(p, "?") = <<>>
    BY <1>0, CutMissing
  <2>3. Parsed(p).path = p /\ Parsed(p).query = <<>>
    BY <1>0, <2>2, ParsedParts
  <2> QED
    BY <1>0, <1>1, <2>1, <2>3 DEF s, p
<1>3. CASE q # <<>> \/ url.forced
  <2>0. PICK c \in Letters : c = "?"
    BY TablesAssumption
  <2>1. s = p \o <<c>> \o q
    BY <1>3, <2>0 DEF Assembled
  <2> HIDE DEF s, p
  <2>2. /\ s \in Text /\ Len(s) = Len(p) + 1 + Len(q)
        /\ \A i \in 1..Len(p) : s[i] = p[i]
        /\ s[Len(p) + 1] = c
        /\ \A i \in 1..Len(q) : s[Len(p) + 1 + i] = q[i]
    <3>1. Joined(p \o <<c>> \o q, p, c, q)
      BY <1>0, <2>0, JoinedText
    <3> QED
      BY <2>1, <3>1 DEF Joined
  <2>3. \A i \in 1..Len(p) : s[i] # "#" /\ s[i] # c
    BY <1>0, <1>1, <2>0, <2>2 DEF Has
  <2>4. DOMAIN s = 1..Len(s)
    BY <2>2 DEF Text
  <2>5. ASSUME NEW i \in DOMAIN s PROVE s[i] # "#"
    <3>1. CASE i <= Len(p)
      BY <1>1, <2>2, <2>3, <2>4, <3>1
    <3>2. CASE i = Len(p) + 1
      BY <2>0, <2>2, <3>2
    <3>3. CASE i > Len(p) + 1
      <4>0. i \in 1..Len(p) + 1 + Len(q)
        BY <2>2, <2>4
      <4>1. i - Len(p) - 1 \in 1..Len(q) /\ Len(p) + 1 + (i - Len(p) - 1) = i
        BY <1>1, <3>3, <4>0
      <4>2. s[i] = q[i - Len(p) - 1]
        BY <2>2, <4>1
      <4> QED
        BY <1>1, <4>1, <4>2 DEF Has
    <3> QED
      BY <1>1, <2>2, <2>4, <3>1, <3>2, <3>3
  <2>6. ~Has(s, "#") /\ Before(s, "#") = s
    BY <2>5, CutMissing DEF Has
  <2>7. Has(s, c) /\ First(s, c) = Len(p) + 1
    <3>1. PICK m \in 1..Len(s) : m = Len(p) + 1
      BY <1>1, <2>2
    <3>2. s \in Text /\ s[m] = c
      BY <2>2, <3>1
    <3>3. \A j \in 1..m - 1 : s[j] # c
      BY <1>1, <2>3, <3>1
    <3>4. Has(s, c) /\ First(s, c) = m
      BY <3>2, <3>3, OnlyFirst
    <3> QED
      BY <3>1, <3>4
  <2>8. /\ Before(s, c) \in Text /\ Len(Before(s, c)) = Len(p) + 1 - 1
        /\ \A j \in 1..Len(p) + 1 - 1 : Before(s, c)[j] = s[j]
        /\ After(s, c) \in Text /\ Len(After(s, c)) = Len(s) - (Len(p) + 1)
        /\ \A j \in 1..Len(s) - (Len(p) + 1) : After(s, c)[j] = s[Len(p) + 1 + j]
    <3>1. s \in Text /\ Has(s, c)
      BY <2>2, <2>7
    <3>2. LET f == First(s, c)
          IN  /\ f \in 1..Len(s)
              /\ Before(s, c) \in Text /\ Len(Before(s, c)) = f - 1
              /\ \A j \in 1..f - 1 : Before(s, c)[j] = s[j]
              /\ After(s, c) \in Text /\ Len(After(s, c)) = Len(s) - f
              /\ \A j \in 1..Len(s) - f : After(s, c)[j] = s[f + j]
      BY <3>1, CutFound
    <3> QED
      BY <2>7, <3>2
  <2>9. Len(Before(s, c)) = Len(p) /\ \A j \in 1..Len(p) : Before(s, c)[j] = p[j]
    BY <1>1, <2>2, <2>8
  <2>10. Len(After(s, c)) = Len(q) /\ \A j \in 1..Len(q) : After(s, c)[j] = q[j]
    BY <1>1, <2>2, <2>8
  <2>11. Before(s, c) = p
    BY <1>0, <2>8, <2>9, SeqEqual DEF Text
  <2>12. After(s, c) = q
    BY <2>8, <2>10, SeqEqual DEF Text
  <2>13. Parsed(s).path = p /\ Parsed(s).query = q
    BY <2>0, <2>2, <2>6, <2>11, <2>12, ParsedParts
  <2> QED
    BY <1>1, <2>2, <2>6, <2>13 DEF s, p
<1> QED
  BY <1>2, <1>3

LEMMA TrimmedText ==
  ASSUME NEW s \in Text
  PROVE  TrimSpace(s) \in Text
<1> DEFINE marks == {i \in DOMAIN s : s[i] # " "}
<1>1. Len(s) \in Nat /\ DOMAIN s = 1..Len(s)
  BY DEF Text
<1>2. CASE marks = {}
  BY <1>2, EmptyText DEF TrimSpace
<1>3. CASE marks # {}
  <2>0. \A i \in marks : i \in 1..Len(s)
    BY <1>1
  <2>2. TrimSpace(s) = SubSeq(s, Min(marks), Max(marks))
    BY <1>3 DEF TrimSpace
  <2> HIDE DEF marks
  <2>1. marks \subseteq Nat /\ marks \subseteq 0..Len(s)
    BY <1>1, <2>0
  <2>3. Min(marks) \in marks
    <3>1. \E x \in marks : \A y \in marks : x <= y
      BY <1>3, <2>1, LeastNatural
    <3> QED
      BY <3>1 DEF Min
  <2>4. Max(marks) \in marks
    <3>1. \E x \in marks : \A y \in marks : y <= x
      BY <1>1, <1>3, <2>1, GreatestNatural
    <3>2. \E x \in marks : \A y \in marks : x >= y
      BY <2>1, <3>1
    <3> QED
      BY <3>2 DEF Max
  <2>5. Min(marks) \in 1..Len(s) + 1 /\ Max(marks) \in 0..Len(s)
    <3>1. Min(marks) \in 1..Len(s) /\ Max(marks) \in 1..Len(s)
      BY <2>0, <2>3, <2>4
    <3> QED
      BY <1>1, <3>1
  <2> QED
    BY <2>2, <2>5, SubSeqProperties DEF Text
<1> QED
  BY <1>2, <1>3

-----------------------------------------------------------------------------
(* Encoding a query *)

\* What is on the list by its decoded name is what the loop deletes.
LEMMA Listed ==
  ASSUME NEW p \in Parameters
  PROVE  Sensitive(Name[p]) <=> MustGo(p) \/ (p \in Broken /\ Sensitive(Name[p]))
<1>1. Name[p] \in DOMAIN Folded
  BY TablesAssumption
<1>2. \A n \in Configured : Folded[Trimmed[n]] = Blank <=> Trimmed[n] = Blank
  BY TablesAssumption
<1>3. Sensitive(Name[p]) <=>
        \/ Folded[Name[p]] \in Builtin
        \/ \E n \in Configured : Trimmed[n] # Blank /\ Folded[Trimmed[n]] = Folded[Name[p]]
  BY <1>2 DEF Sensitive, Denylist
<1> QED
  BY <1>3 DEF MustGo, OnList

Benign(q) == {i \in Decodable(q) : ~MustGo(q[i])}

\* What Encode writes are the parameters at the places kept, each once, by name
\* and within a name in their order.
Ordered(e, q, kept, n) ==
  /\ e \in [1..n -> kept]
  /\ \A i \in kept : \E j \in 1..n : e[j] = i
  /\ \A i, j \in 1..n :
       i <= j <=> \/ Rank[Name[q[e[i]]]] < Rank[Name[q[e[j]]]]
                  \/ Rank[Name[q[e[i]]]] = Rank[Name[q[e[j]]]] /\ e[i] <= e[j]

Spelling(e, q, n) == [j \in 1..n |-> Canonical[q[e[j]]]]

IsSpelling(w, q, kept) ==
  /\ Cardinality(kept) \in Nat
  /\ \E e : Ordered(e, q, kept, Cardinality(kept)) /\ w = Spelling(e, q, Cardinality(kept))

Places(values) == UNION {values[n] : n \in DOMAIN values}

LEMMA Encoded ==
  ASSUME NEW q \in Text, ToSet(q) \subseteq Parameters,
         NEW values, Places(values) \subseteq DOMAIN q
  PROVE  IsSpelling(Encode(q, values), q, Places(values))
<1> DEFINE kept == Places(values)
           Key(i) == Rank[Name[q[i]]]
           order == {p \in kept \X kept : \/ Key(p[1]) < Key(p[2])
                                          \/ (Key(p[1]) = Key(p[2]) /\ p[1] <= p[2])}
           n == Cardinality(kept)
           e == Enumerated(kept, order)
<1>1. Len(q) \in Nat /\ DOMAIN q = 1..Len(q)
  BY DEF Text
<1>2. IsFiniteSet(kept) /\ n \in Nat
  <2>1. IsFiniteSet(1..Len(q)) /\ kept \subseteq 1..Len(q)
    BY <1>1, FS_Interval
  <2> HIDE DEF kept
  <2>2. IsFiniteSet(kept)
    BY <2>1, FS_Subset
  <2> QED
    BY <2>2, FS_CardinalityType
<1>3. \A i \in kept : i \in Int /\ Key(i) \in Int
  <2> TAKE i \in kept
  <2>1. i \in DOMAIN q /\ q[i] \in Parameters
    BY DEF ToSet
  <2> QED
    <3>1. Rank[Name[q[i]]] \in Int
      BY <2>1, TablesAssumption
    <3> QED
      BY <1>1, <2>1, <3>1
<1>4. \A i, j \in kept :
        <<i, j>> \in order <=> Key(i) < Key(j) \/ (Key(i) = Key(j) /\ i <= j)
  OBVIOUS
<1>5. Encode(q, values) = Spelling(e, q, n)
  BY DEF Encode, Spelling, Places
<1> HIDE DEF Key, order, kept
<1>6. TotalOrder(order, kept)
  BY <1>3, <1>4 DEF TotalOrder
<1>7. /\ e \in [1..n -> kept]
      /\ \A x \in kept : \E j \in 1..n : e[j] = x
      /\ \A i, j \in 1..n : i <= j <=> <<e[i], e[j]>> \in order
  <2>1. InOrder(Enumerated(kept, order), Cardinality(kept), kept, order)
    BY <1>2, <1>6, Enumeration
  <2> QED
    BY <2>1 DEF InOrder
<1> HIDE DEF e
<1>8. \A i, j \in 1..n : i <= j <=> Key(e[i]) < Key(e[j]) \/ (Key(e[i]) = Key(e[j]) /\ e[i] <= e[j])
  BY <1>4, <1>7
<1>9. Ordered(e, q, kept, n)
  BY <1>7, <1>8 DEF Ordered, Key
<1> QED
  BY <1>2, <1>5, <1>9 DEF IsSpelling, kept

-----------------------------------------------------------------------------
(* The invariant *)

\* The parameters of the query as the loop finds them, by name.
Asked == IF Parsed(Subject).ok THEN Values(Parsed(Subject).query) ELSE <<>>

Types ==
  /\ pc \in {"idle", "called", "stripping", "done", "judged"}
  /\ raw \in Text /\ limit \in Limits \union {0}
  /\ pc \in {"called", "stripping", "done"} => raw \in Texts
  /\ removed \in BOOLEAN /\ (pc \in {"idle", "called"} => removed = FALSE)
  /\ unvisited \subseteq {Name[p] : p \in Parameters}
  /\ pc # "done" => answer = NoAnswer
  /\ pc # "judged" => decimal = NoDecimal

\* What is left is what was not looked at and what is not on the list, and
\* removed says whether anything is gone.
Ranged ==
  pc \in {"stripping", "done"} =>
    /\ unvisited \subseteq DOMAIN Asked
    /\ DOMAIN query = {n \in DOMAIN Asked : n \in unvisited \/ ~Sensitive(n)}
    /\ \A n \in DOMAIN query : query[n] = Asked[n]
    /\ removed <=> \E n \in DOMAIN Asked \ unvisited : Sensitive(n)

Finished ==
  pc = "done" =>
    /\ unvisited = {}
    /\ answer = [out |-> Truncated(Stripped.text, limit),
                 stripped |-> Stripped.changed,
                 truncated |-> Truncated(Stripped.text, limit) # Stripped.text]

Ruled ==
  pc = "judged" =>
    /\ decimal.literal \in Literals /\ decimal.column \in Columns
    /\ decimal.fits = FitsDecimal(decimal.literal, decimal.column)

IInv == Types /\ Ranged /\ Finished /\ Ruled

\* The loop starts with names of parameters.
LEMMA AskedNames ==
  ASSUME raw \in Texts
  PROVE  DOMAIN Asked \subseteq {Name[p] : p \in Parameters}
<1> DEFINE q == Parsed(Subject).query
<1>1. CASE ~Parsed(Subject).ok
  BY <1>1 DEF Asked
<1>2. CASE Parsed(Subject).ok
  <2>1. ToSet(q) \subseteq Parameters
    BY <1>2, TextsAssumption DEF Subject
  <2>2. \A i \in Decodable(q) : q[i] \in Parameters
    BY <2>1 DEF ToSet, Decodable
  <2>3. DOMAIN Asked = {Name[q[i]] : i \in Decodable(q)}
    BY <1>2 DEF Asked, Values
  <2> HIDE DEF q
  <2> QED
    BY <2>2, <2>3
<1> QED
  BY <1>1, <1>2

LEMMA InitIInv == Init => IInv
<1> SUFFICES ASSUME Init PROVE IInv
  OBVIOUS
<1>1. Types
  BY EmptyText DEF Init, Types
<1>2. Ranged /\ Finished /\ Ruled
  BY DEF Init, Ranged, Finished, Ruled
<1> QED
  BY <1>1, <1>2 DEF IInv

LEMMA SameSubject ==
  ASSUME raw' = raw
  PROVE  Subject' = Subject /\ Asked' = Asked
<1>1. Subject' = Subject
  BY DEF Subject
<1> QED
  BY <1>1 DEF Asked

LEMMA CallStep ==
  ASSUME IInv, Call
  PROVE  IInv'
<1>1. /\ pc = "idle" /\ pc' = "called" /\ raw' \in Texts /\ limit' \in Limits
      /\ removed' = removed /\ unvisited' = unvisited
      /\ answer' = answer /\ decimal' = decimal
  BY DEF Call
<1>2. raw' \in Text
  BY <1>1, TextsAssumption DEF Text
<1>3. Types'
  BY <1>1, <1>2 DEF IInv, Types
<1>4. Ranged' /\ Finished' /\ Ruled'
  BY <1>1 DEF Ranged, Finished, Ruled
<1> QED
  BY <1>3, <1>4 DEF IInv

LEMMA ParseStep ==
  ASSUME IInv, Parse
  PROVE  IInv'
<1>1. /\ pc = "called" /\ pc' = "stripping"
      /\ query' = Asked /\ unvisited' = DOMAIN query'
      /\ raw' = raw /\ limit' = limit /\ removed' = removed
      /\ answer' = answer /\ decimal' = decimal
  BY DEF Parse, Asked
<1>2. raw \in Texts /\ removed = FALSE
  BY <1>1 DEF IInv, Types
<1>3. unvisited' \subseteq {Name[p] : p \in Parameters}
  BY <1>1, <1>2, AskedNames
<1>4. Types'
  BY <1>1, <1>2, <1>3 DEF IInv, Types
<1>5. Asked' = Asked
  BY <1>1, SameSubject
<1>6. Ranged'
  BY <1>1, <1>2, <1>5 DEF Ranged
<1>7. Finished' /\ Ruled'
  BY <1>1 DEF Finished, Ruled
<1> QED
  BY <1>4, <1>6, <1>7 DEF IInv

LEMMA VisitStep ==
  ASSUME IInv, NEW name \in unvisited, Visit(name)
  PROVE  IInv'
<1>1. /\ pc = "stripping" /\ pc' = "stripping"
      /\ unvisited' = unvisited \ {name}
      /\ raw' = raw /\ limit' = limit /\ answer' = answer /\ decimal' = decimal
  BY DEF Visit
<1>2. \/ /\ Sensitive(name) /\ removed' = TRUE
         /\ query' = [n \in DOMAIN query \ {name} |-> query[n]]
      \/ ~Sensitive(name) /\ query' = query /\ removed' = removed
  BY DEF Visit, Restrict
<1>3. /\ unvisited \subseteq DOMAIN Asked
      /\ DOMAIN query = {n \in DOMAIN Asked : n \in unvisited \/ ~Sensitive(n)}
      /\ \A n \in DOMAIN query : query[n] = Asked[n]
      /\ removed <=> \E n \in DOMAIN Asked \ unvisited : Sensitive(n)
  BY <1>1 DEF IInv, Ranged
<1>4. Types'
  BY <1>1, <1>2 DEF IInv, Types
<1>5. Asked' = Asked
  BY <1>1, SameSubject
<1>6. /\ DOMAIN query' = {n \in DOMAIN Asked : n \in unvisited' \/ ~Sensitive(n)}
      /\ \A n \in DOMAIN query' : query'[n] = Asked[n]
      /\ removed' <=> \E n \in DOMAIN Asked \ unvisited' : Sensitive(n)
  <2>1. CASE Sensitive(name)
    <3>1. removed' = TRUE /\ query' = [n \in DOMAIN query \ {name} |-> query[n]]
      BY <1>2, <2>1
    <3>2. DOMAIN query' = DOMAIN query \ {name} /\ \A n \in DOMAIN query' : query'[n] = query[n]
      BY <3>1
    <3> QED
      BY <1>1, <1>3, <2>1, <3>1, <3>2
  <2>2. CASE ~Sensitive(name)
    <3>1. removed' = removed /\ query' = query
      BY <1>2, <2>2
    <3> QED
      BY <1>1, <1>3, <2>2, <3>1
  <2> QED
    BY <2>1, <2>2
<1>7. Ranged'
  BY <1>1, <1>3, <1>5, <1>6 DEF Ranged
<1>8. Finished' /\ Ruled'
  BY <1>1 DEF Finished, Ruled
<1> QED
  BY <1>4, <1>7, <1>8 DEF IInv

LEMMA SameStripped ==
  ASSUME raw' = raw, query' = query, removed' = removed
  PROVE  Stripped' = Stripped
<1>1. Subject' = Subject
  BY SameSubject
<1> QED
  BY <1>1 DEF Stripped

LEMMA ReturnStep ==
  ASSUME IInv, Return
  PROVE  IInv'
<1>1. /\ pc = "stripping" /\ pc' = "done" /\ unvisited = {} /\ unvisited' = unvisited
      /\ answer' = [out |-> Truncated(Stripped.text, limit),
                    stripped |-> Stripped.changed,
                    truncated |-> Truncated(Stripped.text, limit) # Stripped.text]
      /\ raw' = raw /\ limit' = limit /\ query' = query /\ removed' = removed
      /\ decimal' = decimal
  BY DEF Return
<1>2. Types'
  BY <1>1 DEF IInv, Types
<1>3. Asked' = Asked /\ Stripped' = Stripped
  BY <1>1, SameSubject, SameStripped
<1>4. Ranged'
  BY <1>1, <1>3 DEF IInv, Ranged
<1>5. Finished'
  BY <1>1, <1>3 DEF Finished
<1>6. Ruled'
  BY <1>1 DEF Ruled
<1> QED
  BY <1>2, <1>4, <1>5, <1>6 DEF IInv

LEMMA JudgeStep ==
  ASSUME IInv, Judge
  PROVE  IInv'
<1>1. /\ pc = "idle" /\ pc' = "judged"
      /\ raw' = raw /\ limit' = limit /\ query' = query /\ unvisited' = unvisited
      /\ removed' = removed /\ answer' = answer
  BY DEF Judge
<1>2. PICK literal \in Literals, column \in Columns :
        decimal' = [literal |-> literal, column |-> column, fits |-> FitsDecimal(literal, column)]
  BY DEF Judge
<1>3. Types'
  BY <1>1 DEF IInv, Types
<1>4. Ranged' /\ Finished'
  BY <1>1 DEF Ranged, Finished
<1>5. Ruled'
  BY <1>2 DEF Ruled
<1> QED
  BY <1>3, <1>4, <1>5 DEF IInv

LEMMA StutterStep ==
  ASSUME IInv, UNCHANGED vars
  PROVE  IInv'
<1>1. /\ pc' = pc /\ raw' = raw /\ limit' = limit /\ query' = query /\ unvisited' = unvisited
      /\ removed' = removed /\ answer' = answer /\ decimal' = decimal
  BY DEF vars
<1>2. Asked' = Asked /\ Stripped' = Stripped
  BY <1>1, SameSubject, SameStripped
<1>3. Types'
  BY <1>1 DEF IInv, Types
<1>4. Ranged' /\ Finished' /\ Ruled'
  BY <1>1, <1>2 DEF IInv, Ranged, Finished, Ruled
<1> QED
  BY <1>3, <1>4 DEF IInv

\* The invariant holds of every call of Sanitize and of every form it parses, in
\* whatever order the names of the query are looked at.
THEOREM Invariance == Spec => []IInv
<1>1. IInv /\ [Next]_vars => IInv'
  <2> SUFFICES ASSUME IInv, [Next]_vars PROVE IInv'
    OBVIOUS
  <2>1. CASE Call
    BY <2>1, CallStep
  <2>2. CASE Parse
    BY <2>2, ParseStep
  <2>3. CASE Return
    BY <2>3, ReturnStep
  <2>4. CASE Judge
    BY <2>4, JudgeStep
  <2>5. CASE Returned
    BY <2>5, StutterStep DEF Returned
  <2>6. CASE \E name \in unvisited : Visit(name)
    BY <2>6, VisitStep
  <2>7. CASE UNCHANGED vars
    BY <2>7, StutterStep
  <2> QED
    BY <2>1, <2>2, <2>3, <2>4, <2>5, <2>6, <2>7 DEF Next
<1> QED
  BY <1>1, InitIInv, PTL DEF Spec

-----------------------------------------------------------------------------
(* What is answered *)

LEMMA Answers ==
  ASSUME IInv, pc = "done"
  PROVE  /\ raw \in Texts /\ Subject \in Text /\ Sent = Parsed(Subject) /\ limit \in Int
         /\ answer.out = Truncated(Stripped.text, limit)
         /\ answer.stripped = Stripped.changed
         /\ answer.truncated = (Truncated(Stripped.text, limit) # Stripped.text)
<1>1. raw \in Texts /\ raw \in Text /\ limit \in Limits \union {0}
  BY DEF IInv, Types
<1>2. Subject \in Text
  BY <1>1, TrimmedText DEF Subject
<1>3. limit \in Int
  BY <1>1, TextsAssumption
<1>4. answer = [out |-> Truncated(Stripped.text, limit),
                stripped |-> Stripped.changed,
                truncated |-> Truncated(Stripped.text, limit) # Stripped.text]
  BY DEF IInv, Finished
<1> QED
  BY <1>1, <1>2, <1>3, <1>4 DEF Sent, Subject

\* Of a URL, the parts that are on no list are left, and removed says whether
\* there was another.
LEMMA Spared ==
  ASSUME IInv, pc = "done", Sent.ok
  PROVE  LET q == Sent.query
         IN  /\ q \in Text /\ ToSet(q) \subseteq Parameters
             /\ Places(query) = Benign(q)
             /\ removed <=> \E i \in DOMAIN q : MustGo(q[i])
<1> DEFINE q == Sent.query
<1>1. raw \in Texts /\ Subject \in Text /\ Sent = Parsed(Subject)
  BY Answers
<1>2. q \in Text
  BY <1>1, ParsedParts
<1>3. ToSet(q) \subseteq Parameters
  BY <1>1, TextsAssumption DEF Subject
<1>4. Asked = Values(q)
  BY <1>1 DEF Asked
<1>5. /\ DOMAIN query = {n \in DOMAIN Asked : ~Sensitive(n)}
      /\ \A n \in DOMAIN query : query[n] = Asked[n]
      /\ removed <=> \E n \in DOMAIN Asked : Sensitive(n)
  BY DEF IInv, Ranged, Finished
<1> HIDE DEF q
<1>6. /\ DOMAIN Asked = {Name[q[i]] : i \in Decodable(q)}
      /\ \A n \in DOMAIN Asked : Asked[n] = {i \in Decodable(q) : Name[q[i]] = n}
  BY <1>4 DEF Values
<1>7. \A i \in DOMAIN q : q[i] \in Parameters
  BY <1>3 DEF ToSet
<1>8. \A i \in DOMAIN q : i \in Decodable(q) <=> q[i] \notin Broken
  BY DEF Decodable
<1>9. \A i \in Decodable(q) : i \in DOMAIN q /\ (Sensitive(Name[q[i]]) <=> MustGo(q[i]))
  <2> TAKE i \in Decodable(q)
  <2>1. i \in DOMAIN q /\ q[i] \in Parameters /\ q[i] \notin Broken
    BY <1>7 DEF Decodable
  <2> QED
    BY <2>1, Listed
<1>10. ASSUME NEW i PROVE i \in UNION {query[n] : n \in DOMAIN query} <=> i \in Benign(q)
  <2>1. i \in UNION {query[n] : n \in DOMAIN query} <=> \E n \in DOMAIN query : i \in query[n]
    OBVIOUS
  <2>2. (\E n \in DOMAIN query : i \in query[n])
        <=> i \in Decodable(q) /\ ~Sensitive(Name[q[i]])
    BY <1>5, <1>6
  <2> QED
    BY <1>9, <2>1, <2>2 DEF Benign
<1>11. removed <=> \E i \in DOMAIN q : MustGo(q[i])
  <2>1. (\E n \in DOMAIN Asked : Sensitive(n)) <=> \E i \in Decodable(q) : Sensitive(Name[q[i]])
    BY <1>6
  <2>2. \A i \in DOMAIN q : MustGo(q[i]) => i \in Decodable(q)
    BY <1>8 DEF MustGo
  <2> QED
    BY <1>5, <1>9, <2>1, <2>2
<1>12. Places(query) = Benign(q)
  BY <1>10 DEF Places
<1> QED
  BY <1>2, <1>3, <1>11, <1>12 DEF q

\* The query that is stored, before the bound.
Wording == IF removed THEN Encode(Sent.query, query) ELSE Sent.query

Faithful(w, e, q, kept, n) ==
  /\ w \in Text /\ Len(w) = n /\ ToSet(w) \subseteq Parameters
  /\ \A j \in 1..n : /\ e[j] \in kept /\ q[e[j]] \in Parameters
                     /\ w[j] \notin Broken /\ Name[w[j]] = Name[q[e[j]]]
                     /\ Canonical[w[j]] = w[j] /\ w[j] = Canonical[q[e[j]]]

LEMMA Spelled ==
  ASSUME NEW q \in Text, ToSet(q) \subseteq Parameters,
         NEW kept, kept \subseteq Decodable(q), NEW n \in Nat,
         NEW e, Ordered(e, q, kept, n), NEW w, w = Spelling(e, q, n)
  PROVE  Faithful(w, e, q, kept, n)
<1>1. e \in [1..n -> kept]
  BY DEF Ordered
<1>2. \A i \in kept : q[i] \in Parameters /\ q[i] \notin Broken
  BY DEF Decodable, ToSet
<1>3. \A p \in Parameters :
        /\ Canonical[p] \in Parameters /\ Name[Canonical[p]] = Name[p]
        /\ Canonical[Canonical[p]] = Canonical[p]
        /\ p \notin Broken => Canonical[p] \notin Broken
  BY TablesAssumption
<1>4. ASSUME NEW j \in 1..n
      PROVE  /\ e[j] \in kept /\ q[e[j]] \in Parameters /\ w[j] \in Parameters
             /\ w[j] \notin Broken /\ Name[w[j]] = Name[q[e[j]]]
             /\ Canonical[w[j]] = w[j] /\ w[j] = Canonical[q[e[j]]]
  <2>1. e[j] \in kept /\ w[j] = Canonical[q[e[j]]]
    BY <1>1 DEF Spelling
  <2> QED
    BY <1>2, <1>3, <2>1
<1>5. w \in [1..n -> Parameters]
  BY <1>4 DEF Spelling
<1>6. w \in Seq(Parameters) /\ Len(w) = n
  BY <1>5
<1>7. Parameters \subseteq Letters
  BY TablesAssumption
<1>8. w \in Text
  BY <1>5, <1>6, <1>7 DEF Text
<1> QED
  BY <1>4, <1>6, <1>8 DEF ToSet, Faithful

\* When a name was deleted, the rest is written by Encode.
LEMMA Rewritten ==
  ASSUME IInv, pc = "done", Sent.ok, removed
  PROVE  IsSpelling(Wording, Sent.query, Benign(Sent.query))
<1> DEFINE q == Sent.query
<1>1. q \in Text /\ ToSet(q) \subseteq Parameters /\ Places(query) = Benign(q)
  BY Spared
<1>2. Benign(q) \subseteq DOMAIN q
  BY DEF Benign, Decodable
<1>3. Wording = Encode(q, query)
  BY DEF Wording
<1> HIDE DEF q
<1>4. IsSpelling(Encode(q, query), q, Places(query))
  BY <1>1, <1>2, Encoded
<1> QED
  BY <1>1, <1>3, <1>4 DEF q

\* Nothing on the list is in what is written.
LEMMA Clean ==
  ASSUME IInv, pc = "done", Sent.ok
  PROVE  /\ Wording \in Text /\ ToSet(Wording) \subseteq Parameters
         /\ \A i \in DOMAIN Wording : ~MustGo(Wording[i])
<1> DEFINE q == Sent.query
<1>1. /\ q \in Text /\ ToSet(q) \subseteq Parameters
      /\ removed <=> \E i \in DOMAIN q : MustGo(q[i])
  BY Spared
<1>2. CASE ~removed
  <2>1. Wording = q
    BY <1>2 DEF Wording
  <2> QED
    BY <1>1, <1>2, <2>1
<1>3. CASE removed
  <2> DEFINE n == Cardinality(Benign(q))
  <2>0. IsSpelling(Wording, q, Benign(q))
    BY <1>3, Rewritten
  <2>1. n \in Nat
    BY <2>0 DEF IsSpelling
  <2>2. PICK e : Ordered(e, q, Benign(q), n) /\ Wording = Spelling(e, q, n)
    BY <2>0 DEF IsSpelling
  <2>3. Benign(q) \subseteq Decodable(q)
    BY DEF Benign
  <2> HIDE DEF n, q
  <2>4. /\ Wording \in Text /\ Len(Wording) = n /\ ToSet(Wording) \subseteq Parameters
        /\ \A j \in 1..n : e[j] \in Benign(q) /\ Name[Wording[j]] = Name[q[e[j]]]
    <3>1. Faithful(Wording, e, q, Benign(q), n)
      BY <1>1, <2>1, <2>2, <2>3, Spelled
    <3> QED
      BY <3>1 DEF Faithful
  <2>5. DOMAIN Wording = 1..n
    BY <2>4 DEF Text
  <2>6. \A i \in Benign(q) : q[i] \notin Broken /\ ~MustGo(q[i])
    BY DEF Benign, Decodable
  <2>7. \A j \in 1..n : ~MustGo(Wording[j])
    BY <2>4, <2>6 DEF MustGo, OnList
  <2> QED
    BY <2>4, <2>5, <2>7
<1> QED
  BY <1>2, <1>3

LEMMA NoSuchLetter ==
  ASSUME NEW q, ToSet(q) \subseteq Parameters
  PROVE  ~Has(q, "#")
<1>1. "#" \notin Parameters
  BY TablesAssumption
<1> QED
  BY <1>1 DEF Has, ToSet

\* A path has neither of the marks it was cut at.
LEMMA PathUnmarked ==
  ASSUME NEW s \in Text
  PROVE  ~Has(Parsed(s).path, "#") /\ ~Has(Parsed(s).path, "?")
<1> DEFINE m == Before(s, "#")
           p == Parsed(s).path
<1>1. m \in Text /\ p = Before(m, "?") /\ ~Has(m, "#")
  BY ParsedParts, CutTypes
<1> HIDE DEF m, p
<1>2. ~Has(p, "?")
  BY <1>1, CutTypes
<1>3. ~Has(p, "#")
  <2>1. Begins(p, m)
    <3>1. CASE ~Has(m, "?")
      BY <1>1, <3>1, CutMissing DEF Begins, Text
    <3>2. CASE Has(m, "?")
      <4>1. /\ First(m, "?") \in 1..Len(m) /\ Len(p) = First(m, "?") - 1
            /\ \A j \in 1..First(m, "?") - 1 : p[j] = m[j]
        BY <1>1, <3>2, CutFound
      <4>2. Len(m) \in Nat
        BY <1>1 DEF Text
      <4> QED
        BY <4>1, <4>2 DEF Begins
    <3> QED
      BY <3>1, <3>2
  <2>2. p \in Text
    BY <1>1, CutTypes
  <2>3. /\ DOMAIN p = 1..Len(p) /\ DOMAIN m = 1..Len(m)
        /\ Len(p) \in Nat /\ Len(m) \in Nat
    BY <1>1, <2>2 DEF Text
  <2> QED
    BY <1>1, <2>1, <2>3 DEF Has, Begins
<1> QED
  BY <1>2, <1>3 DEF p

\* A text that was a URL is stored as one, with its path and the query as it is
\* written.
LEMMA StoredUrl ==
  ASSUME IInv, pc = "done", Sent.ok
  PROVE  LET text == Stripped.text
         IN  /\ text \in Text /\ After(text, "#") = <<>>
             /\ Parsed(text).path = Sent.path /\ Parsed(text).query = Wording
             /\ Stripped.changed <=> Sent.fragment # <<>> \/ removed
             /\ ~Stripped.changed => text = Subject
<1> DEFINE changed == Sent.fragment # <<>> \/ removed
<1>1. Subject \in Text /\ Sent = Parsed(Subject)
  BY Answers
<1>2. Stripped = [text |-> IF changed THEN Assembled(Sent, Wording) ELSE Subject,
                  changed |-> changed]
  BY <1>1 DEF Stripped, Wording
<1>3. /\ Stripped.changed <=> changed
      /\ Stripped.text = IF changed THEN Assembled(Sent, Wording) ELSE Subject
  BY <1>2
<1>4. CASE ~changed
  <2>1. Stripped.text = Subject
    BY <1>3, <1>4
  <2>2. Wording = Sent.query
    BY <1>4 DEF Wording
  <2>3. After(Subject, "#") = <<>>
    BY <1>1, <1>4, ParsedParts
  <2> QED
    BY <1>1, <1>3, <1>4, <2>1, <2>2, <2>3
<1>5. CASE changed
  <2> DEFINE text == Stripped.text
  <2>1. text = Assembled(Sent, Wording)
    BY <1>3, <1>5
  <2>2. Wording \in Text /\ ~Has(Wording, "#")
    BY Clean, NoSuchLetter
  <2>3. Sent.path \in Text /\ ~Has(Sent.path, "#") /\ ~Has(Sent.path, "?")
    BY <1>1, ParsedParts, PathUnmarked
  <2> HIDE DEF text
  <2>4. /\ text \in Text /\ ~Has(text, "#")
        /\ Parsed(text).path = Sent.path /\ Parsed(text).query = Wording
    BY <2>1, <2>2, <2>3, AssembledParsed
  <2>5. After(text, "#") = <<>>
    BY <2>4, CutMissing
  <2> QED
    BY <1>3, <1>5, <2>4, <2>5 DEF text
<1> QED
  BY <1>4, <1>5

\* Any other loses its fragment.
LEMMA StoredOther ==
  ASSUME IInv, pc = "done", ~Sent.ok
  PROVE  /\ Stripped.text = Before(Subject, "#")
         /\ Stripped.changed <=> Has(Subject, "#")
<1>1. Sent = Parsed(Subject)
  BY Answers
<1>2. Stripped = [text |-> IF Has(Subject, "#") THEN Before(Subject, "#") ELSE Subject,
                  changed |-> Has(Subject, "#")]
  BY <1>1 DEF Stripped
<1>3. ~Has(Subject, "#") => Before(Subject, "#") = Subject
  BY CutMissing
<1> QED
  BY <1>2, <1>3

\* What is answered is how the text that is left begins, and no fragment.
LEMMA AnsweredText ==
  ASSUME IInv, pc = "done"
  PROVE  /\ Stripped.text \in Text /\ After(Stripped.text, "#") = <<>>
         /\ answer.out \in Text /\ Begins(answer.out, Stripped.text)
         /\ answer.out = Stripped.text \/ Len(answer.out) = limit
         /\ limit > 0 => Len(answer.out) <= limit
         /\ After(answer.out, "#") = <<>>
<1> DEFINE text == Stripped.text
<1>1. /\ Subject \in Text /\ limit \in Int /\ answer.out = Truncated(text, limit)
  BY Answers
<1>2. text \in Text /\ After(text, "#") = <<>>
  <2>1. CASE Sent.ok
    BY <2>1, StoredUrl
  <2>2. CASE ~Sent.ok
    <3>1. text = Before(Subject, "#")
      BY <2>2, StoredOther
    <3>2. text \in Text /\ ~Has(text, "#")
      BY <1>1, <3>1, CutTypes
    <3> QED
      BY <3>2, CutMissing
  <2> QED
    BY <2>1, <2>2
<1> HIDE DEF text
<1>3. LET t == Truncated(text, limit)
      IN  /\ t \in Text /\ Begins(t, text)
          /\ t = text \/ Len(t) = limit
          /\ limit > 0 => Len(t) <= limit
  BY <1>1, <1>2, TruncatedText
<1>4. answer.out \in Text /\ Begins(answer.out, text)
  BY <1>1, <1>3
<1>5. Begins(After(answer.out, "#"), After(text, "#"))
  BY <1>2, <1>4, CutBeginning
<1>6. After(answer.out, "#") \in Text
  BY <1>4, CutTypes
<1>7. Len(After(answer.out, "#")) >= 0
  BY <1>6 DEF Text
<1>8. After(answer.out, "#") = <<>>
  BY <1>2, <1>5, <1>6, <1>7, EmptyText, BeginsAll
<1> QED
  BY <1>1, <1>2, <1>3, <1>4, <1>8 DEF text

LEMMA LettersOf ==
  ASSUME NEW s \in Text
  PROVE  ToSet(s) \subseteq Letters
BY DEF Text, ToSet

\* TypeOK: besides the types, an answer is no longer than its bound, and exactly
\* as long when truncateRunes says that it cut.
THEOREM TypeCorrect == Spec => []TypeOK
<1>1. IInv => TypeOK
  <2> SUFFICES ASSUME IInv PROVE TypeOK
    OBVIOUS
  <2>1. /\ pc \in {"idle", "called", "stripping", "done", "judged"}
        /\ raw \in Text /\ limit \in Limits \union {0} /\ removed \in BOOLEAN
        /\ unvisited \subseteq {Name[p] : p \in Parameters}
        /\ pc # "done" => answer = NoAnswer
        /\ pc # "judged" => decimal = NoDecimal
    BY DEF IInv, Types
  <2>2. /\ answer.out \in Text
        /\ answer.stripped \in BOOLEAN /\ answer.truncated \in BOOLEAN
        /\ limit > 0 => Len(answer.out) <= limit
        /\ answer.truncated => Len(answer.out) = limit
    <3>1. CASE pc = "done"
      <4>1. /\ answer.out = Truncated(Stripped.text, limit)
            /\ answer.truncated = (Truncated(Stripped.text, limit) # Stripped.text)
            /\ answer.stripped = Stripped.changed
        BY <3>1, Answers
      <4>2. /\ answer.out \in Text
            /\ answer.out = Stripped.text \/ Len(answer.out) = limit
            /\ limit > 0 => Len(answer.out) <= limit
        BY <3>1, AnsweredText
      <4>3. answer.stripped \in BOOLEAN
        <5>1. Stripped.changed = IF Parsed(Subject).ok
                                 THEN Parsed(Subject).fragment # <<>> \/ removed
                                 ELSE Has(Subject, "#")
          BY DEF Stripped
        <5>2. removed \in BOOLEAN
          BY <2>1
        <5> QED
          BY <4>1, <5>1, <5>2 DEF Has
      <4> QED
        BY <4>1, <4>2, <4>3
    <3>2. CASE pc # "done"
      <4>1. answer = NoAnswer
        BY <2>1, <3>2
      <4>2. answer.out = <<>> /\ answer.stripped = FALSE /\ answer.truncated = FALSE
        BY <4>1 DEF NoAnswer
      <4>3. limit \in Int
        <5>1. limit \in Limits \union {0}
          BY <2>1
        <5> QED
          BY <5>1, TextsAssumption
      <4>4. answer.out \in Text /\ Len(answer.out) = 0
        BY <4>2, EmptyText
      <4>5. limit > 0 => Len(answer.out) <= limit
        BY <4>3, <4>4
      <4>6. answer.stripped \in BOOLEAN /\ answer.truncated \in BOOLEAN /\ ~answer.truncated
        BY <4>2
      <4> QED
        BY <4>4, <4>5, <4>6
    <3> QED
      BY <3>1, <3>2
  <2>3. decimal.fits \in BOOLEAN
    <3>1. CASE pc = "judged"
      <4>1. decimal.fits = FitsDecimal(decimal.literal, decimal.column)
        BY <3>1 DEF IInv, Ruled
      <4> QED
        BY <4>1 DEF FitsDecimal
    <3>2. CASE pc # "judged"
      <4>1. decimal = NoDecimal
        BY <2>1, <3>2
      <4> QED
        BY <4>1 DEF NoDecimal
    <3> QED
      BY <3>1, <3>2
  <2>4. ToSet(raw) \union ToSet(answer.out) \subseteq Letters
    BY <2>1, <2>2, LettersOf
  <2>5. {removed, answer.stripped, answer.truncated, decimal.fits} \subseteq BOOLEAN
    BY <2>1, <2>2, <2>3
  <2> QED
    BY <2>1, <2>2, <2>4, <2>5 DEF TypeOK
<1> QED
  BY <1>1, Invariance, PTL

\* The query of what is answered begins the one that was written.
LEMMA KeptQuery ==
  ASSUME IInv, pc = "done", Sent.ok
  PROVE  /\ Kept.query \in Text /\ Wording \in Text
         /\ Begins(Kept.query, Wording)
         /\ DOMAIN Kept.query \subseteq DOMAIN Wording
         /\ \A i \in DOMAIN Kept.query : Kept.query[i] = Wording[i]
<1> DEFINE text == Stripped.text
<1>1. /\ text \in Text /\ answer.out \in Text /\ Begins(answer.out, text)
  BY AnsweredText
<1>2. Parsed(text).query = Wording /\ Wording \in Text
  BY StoredUrl, Clean
<1> HIDE DEF text
<1>3. Kept = Parsed(answer.out)
  BY DEF Kept
<1>4. Kept.query \in Text
  BY <1>1, <1>3, ParsedParts
<1>5. Begins(Kept.query, Wording)
  BY <1>1, <1>2, <1>3, ParsedBeginning
<1>6. /\ DOMAIN Kept.query = 1..Len(Kept.query) /\ DOMAIN Wording = 1..Len(Wording)
      /\ Len(Kept.query) \in Nat /\ Len(Wording) \in Nat
  BY <1>2, <1>4 DEF Text
<1> QED
  BY <1>2, <1>4, <1>5, <1>6 DEF Begins

\* NothingSensitiveLeft, for any list, any spelling of a name and any bound: of
\* a text that is a URL no parameter that can be decoded and is on the list is
\* in what sanitizeURL answers, and of no text any part of its fragment.  That
\* it can be decoded is needed: NeverReachesStorage leaves it out and is false.
THEOREM SensitiveGone == Spec => []NothingSensitiveLeft
<1>1. IInv => NothingSensitiveLeft
  <2> SUFFICES ASSUME IInv, pc = "done"
               PROVE  /\ After(answer.out, "#") = <<>>
                      /\ ~Sent.ok => ~Has(answer.out, "#")
                      /\ Sent.ok => \A i \in DOMAIN Kept.query : ~MustGo(Kept.query[i])
    BY DEF NothingSensitiveLeft, Answered
  <2>1. After(answer.out, "#") = <<>> /\ answer.out \in Text /\ Begins(answer.out, Stripped.text)
    BY AnsweredText
  <2>2. ASSUME ~Sent.ok PROVE ~Has(answer.out, "#")
    <3>1. Stripped.text = Before(Subject, "#") /\ Subject \in Text
      BY <2>2, StoredOther, Answers
    <3>2. Stripped.text \in Text /\ ~Has(Stripped.text, "#")
      BY <3>1, CutTypes
    <3>3. /\ DOMAIN answer.out = 1..Len(answer.out) /\ Len(answer.out) \in Nat
          /\ DOMAIN Stripped.text = 1..Len(Stripped.text) /\ Len(Stripped.text) \in Nat
      BY <2>1, <3>2 DEF Text
    <3> QED
      BY <2>1, <3>2, <3>3 DEF Has, Begins
  <2>3. ASSUME Sent.ok PROVE \A i \in DOMAIN Kept.query : ~MustGo(Kept.query[i])
    <3>1. /\ DOMAIN Kept.query \subseteq DOMAIN Wording
          /\ \A i \in DOMAIN Kept.query : Kept.query[i] = Wording[i]
      BY <2>3, KeptQuery
    <3>2. \A i \in DOMAIN Wording : ~MustGo(Wording[i])
      BY <2>3, Clean
    <3> QED
      BY <3>1, <3>2
  <2> QED
    BY <2>1, <2>2, <2>3
<1> QED
  BY <1>1, Invariance, PTL

\* VerbatimUnlessStripped: sanitizeURL reports exactly what had something to take
\* out, and any other text is stored as it came, up to the bound.
THEOREM Verbatim == Spec => []VerbatimUnlessStripped
<1>1. IInv => VerbatimUnlessStripped
  <2> SUFFICES ASSUME IInv, pc = "done"
               PROVE  /\ answer.stripped
                         <=> IF Sent.ok THEN \/ Sent.fragment # <<>>
                                             \/ \E i \in DOMAIN Sent.query : MustGo(Sent.query[i])
                             ELSE Has(TrimSpace(raw), "#")
                      /\ ~answer.stripped => answer.out = Truncated(TrimSpace(raw), limit)
    BY DEF VerbatimUnlessStripped, Answered
  <2>1. /\ answer.out = Truncated(Stripped.text, limit)
        /\ answer.stripped = Stripped.changed
        /\ Subject = TrimSpace(raw)
    BY Answers DEF Subject
  <2>2. CASE Sent.ok
    <3>1. /\ Stripped.changed <=> Sent.fragment # <<>> \/ removed
          /\ ~Stripped.changed => Stripped.text = Subject
      BY <2>2, StoredUrl
    <3>2. removed <=> \E i \in DOMAIN Sent.query : MustGo(Sent.query[i])
      BY <2>2, Spared
    <3> QED
      BY <2>1, <2>2, <3>1, <3>2
  <2>3. CASE ~Sent.ok
    <3>1. Stripped.text = Before(Subject, "#") /\ (Stripped.changed <=> Has(Subject, "#"))
      BY <2>3, StoredOther
    <3>2. ~Has(Subject, "#") => Stripped.text = Subject
      BY <3>1, CutMissing
    <3> QED
      BY <2>1, <2>3, <3>1, <3>2
  <2> QED
    BY <2>2, <2>3
<1> QED
  BY <1>1, Invariance, PTL

\* OneSpelling: what had to be written anew is in the order of the names and in
\* the spelling Encode uses, however it was sent, looked at and cut.
THEOREM SpelledOnce == Spec => []OneSpelling
<1>1. IInv => OneSpelling
  <2> DEFINE q == Sent.query
             n == Cardinality(Benign(q))
             stored == Kept.query
  <2> SUFFICES ASSUME IInv, pc = "done", Sent.ok, \E i \in DOMAIN q : MustGo(q[i])
               PROVE  /\ \A i \in DOMAIN stored : Canonical[stored[i]] = stored[i]
                      /\ \A i, j \in DOMAIN stored :
                           i <= j => Rank[Name[stored[i]]] <= Rank[Name[stored[j]]]
    BY DEF OneSpelling, Answered
  <2>1. removed /\ q \in Text /\ ToSet(q) \subseteq Parameters
    BY Spared
  <2>2. IsSpelling(Wording, q, Benign(q))
    BY <2>1, Rewritten
  <2>3. Benign(q) \subseteq Decodable(q)
    BY DEF Benign
  <2>4. /\ Wording \in Text /\ DOMAIN stored \subseteq DOMAIN Wording
        /\ \A i \in DOMAIN stored : stored[i] = Wording[i]
    BY KeptQuery
  <2> HIDE DEF q, n, stored
  <2>5. n \in Nat
    BY <2>2 DEF IsSpelling, n
  <2>6. PICK e : Ordered(e, q, Benign(q), n) /\ Wording = Spelling(e, q, n)
    BY <2>2 DEF IsSpelling, n
  <2>7. Faithful(Wording, e, q, Benign(q), n)
    BY <2>1, <2>3, <2>5, <2>6, Spelled
  <2>8. Len(Wording) = n
    BY <2>7 DEF Faithful
  <2>9. DOMAIN stored \subseteq 1..n
    BY <2>4, <2>8 DEF Text
  <2>10. \A i \in 1..n : /\ Canonical[Wording[i]] = Wording[i]
                         /\ Name[Wording[i]] = Name[q[e[i]]] /\ q[e[i]] \in Parameters
    BY <2>7 DEF Faithful
  <2>11. ASSUME NEW i \in 1..n, NEW j \in 1..n, i <= j
         PROVE  Rank[Name[Wording[i]]] <= Rank[Name[Wording[j]]]
    <3>1. \/ Rank[Name[q[e[i]]]] < Rank[Name[q[e[j]]]]
          \/ Rank[Name[q[e[i]]]] = Rank[Name[q[e[j]]]] /\ e[i] <= e[j]
      BY <2>6, <2>11 DEF Ordered
    <3>2. Rank[Name[q[e[i]]]] \in Int /\ Rank[Name[q[e[j]]]] \in Int
      BY <2>10, TablesAssumption
    <3>3. Rank[Name[q[e[i]]]] <= Rank[Name[q[e[j]]]]
      BY <3>1, <3>2
    <3> QED
      BY <2>10, <3>3
  <2> QED
    BY <2>4, <2>9, <2>10, <2>11
<1> QED
  BY <1>1, Invariance, PTL

\* Where each benign parameter of sent is in stored.
Settled(place, sent, stored) ==
  /\ place \in [Benign(sent) -> Decodable(stored)]
  /\ \A j \in Decodable(stored) : \E i \in Benign(sent) : place[i] = j
  /\ \A i \in Benign(sent) : Canonical[stored[place[i]]] = Canonical[sent[i]]
  /\ \A i, h \in Benign(sent) :
       i < h => /\ place[i] # place[h]
                /\ Name[sent[i]] = Name[sent[h]] => place[i] < place[h]

\* Each has its place in what is written, and nothing else that can be decoded.
LEMMA BenignPlaces ==
  ASSUME IInv, pc = "done", Sent.ok
  PROVE  \E place : Settled(place, Sent.query, Wording)
<1> DEFINE q == Sent.query
           kept == Benign(q)
<1>1. /\ q \in Text /\ ToSet(q) \subseteq Parameters
      /\ removed <=> \E i \in DOMAIN q : MustGo(q[i])
  BY Spared
<1>2. kept \subseteq Decodable(q) /\ Decodable(q) \subseteq DOMAIN q
  BY DEF Benign, Decodable
<1>3. DOMAIN q = 1..Len(q) /\ Len(q) \in Nat
  BY <1>1 DEF Text
<1>4. \A i \in kept : i \in Int
  BY <1>2, <1>3
<1>5. CASE ~removed
  <2> DEFINE place == [i \in kept |-> i]
  <2>1. Wording = q
    BY <1>5 DEF Wording
  <2>2. kept = Decodable(q)
    BY <1>1, <1>2, <1>5 DEF Benign
  <2>3. /\ place \in [kept -> Decodable(q)]
        /\ \A i \in kept : place[i] = i
    BY <2>2
  <2> HIDE DEF place, kept, q
  <2>4. Settled(place, q, q)
    BY <1>4, <2>2, <2>3 DEF Settled, kept
  <2> QED
    BY <2>1, <2>4 DEF q
<1>6. CASE removed
  <2> DEFINE n == Cardinality(kept)
  <2>1. IsSpelling(Wording, q, kept)
    BY <1>6, Rewritten
  <2> HIDE DEF q
  <2>2. n \in Nat
    BY <2>1 DEF IsSpelling
  <2>3. PICK e : Ordered(e, q, kept, n) /\ Wording = Spelling(e, q, n)
    BY <2>1 DEF IsSpelling
  <2> HIDE DEF n, kept
  <2>4. Faithful(Wording, e, q, kept, n)
    BY <1>1, <1>2, <2>2, <2>3, Spelled
  <2>5. Decodable(Wording) = 1..n
    <3>1. Wording \in Text /\ Len(Wording) = n /\ \A j \in 1..n : Wording[j] \notin Broken
      BY <2>4 DEF Faithful
    <3>2. DOMAIN Wording = 1..n
      BY <3>1 DEF Text
    <3> QED
      BY <3>1, <3>2 DEF Decodable
  <2>6. /\ e \in [1..n -> kept]
        /\ \A i \in kept : \E j \in 1..n : e[j] = i
    BY <2>3 DEF Ordered
  <2> DEFINE place == [i \in kept |-> CHOOSE j \in 1..n : e[j] = i]
  <2>7. \A i \in kept : place[i] \in 1..n /\ e[place[i]] = i
    <3> TAKE i \in kept
    <3>1. place[i] = CHOOSE j \in 1..n : e[j] = i
      OBVIOUS
    <3>2. \E j \in 1..n : e[j] = i
      BY <2>6
    <3> HIDE DEF place
    <3> QED
      BY <3>1, <3>2
  <2>8. place \in [kept -> 1..n]
    BY <2>7
  <2> HIDE DEF place
  <2>9. \A i, j \in 1..n : e[i] = e[j] => i = j
    <3> SUFFICES ASSUME NEW i \in 1..n, NEW j \in 1..n, e[i] = e[j] PROVE i = j
      OBVIOUS
    <3>1. e[i] \in Int /\ Rank[Name[q[e[i]]]] \in Int
      <4>1. e[i] \in kept /\ q[e[i]] \in Parameters
        BY <2>4 DEF Faithful
      <4> QED
        BY <1>4, <4>1, TablesAssumption
    <3>2. i <= j <=> \/ Rank[Name[q[e[i]]]] < Rank[Name[q[e[j]]]]
                     \/ Rank[Name[q[e[i]]]] = Rank[Name[q[e[j]]]] /\ e[i] <= e[j]
      BY <2>3 DEF Ordered
    <3>3. j <= i <=> \/ Rank[Name[q[e[j]]]] < Rank[Name[q[e[i]]]]
                     \/ Rank[Name[q[e[j]]]] = Rank[Name[q[e[i]]]] /\ e[j] <= e[i]
      BY <2>3 DEF Ordered
    <3>4. e[i] <= e[j] /\ e[j] <= e[i]
      BY <3>1
    <3> QED
      BY <3>2, <3>3, <3>4
  <2>10. \A j \in 1..n : \E i \in kept : place[i] = j
    <3> TAKE j \in 1..n
    <3>1. e[j] \in kept
      BY <2>6
    <3>2. place[e[j]] = j
      BY <2>7, <2>9, <3>1
    <3> QED
      BY <3>1, <3>2
  <2>11. \A i \in kept : Canonical[Wording[place[i]]] = Canonical[q[i]]
    BY <2>4, <2>7 DEF Faithful
  <2>12. ASSUME NEW i \in kept, NEW h \in kept, i < h
         PROVE  /\ place[i] # place[h]
                /\ Name[q[i]] = Name[q[h]] => place[i] < place[h]
    <3>1. place[i] \in 1..n /\ place[h] \in 1..n /\ e[place[i]] = i /\ e[place[h]] = h
      BY <2>7
    <3>2. i \in Int /\ h \in Int
      BY <1>4
    <3>3. place[i] # place[h]
      BY <2>12, <3>1, <3>2
    <3>4. place[i] <= place[h] <=> \/ Rank[Name[q[i]]] < Rank[Name[q[h]]]
                                   \/ Rank[Name[q[i]]] = Rank[Name[q[h]]] /\ i <= h
      <4>1. place[i] <= place[h]
            <=> \/ Rank[Name[q[e[place[i]]]]] < Rank[Name[q[e[place[h]]]]]
                \/ /\ Rank[Name[q[e[place[i]]]]] = Rank[Name[q[e[place[h]]]]]
                   /\ e[place[i]] <= e[place[h]]
        BY <2>3, <3>1 DEF Ordered
      <4> QED
        BY <3>1, <4>1
    <3> QED
      BY <2>12, <3>1, <3>2, <3>3, <3>4
  <2>13. Settled(place, q, Wording)
    BY <2>5, <2>8, <2>10, <2>11, <2>12 DEF Settled, kept
  <2> QED
    BY <2>13 DEF q
<1> QED
  BY <1>5, <1>6

\* A text is no longer than its path, a mark and its query.
LEMMA MainLength ==
  ASSUME NEW m \in Text
  PROVE  Len(m) <= Len(Before(m, "?")) + 1 + Len(After(m, "?"))
<1>1. Len(m) \in Nat
  BY DEF Text
<1>2. CASE ~Has(m, "?")
  <2>1. Before(m, "?") = m /\ After(m, "?") = <<>>
    BY <1>2, CutMissing
  <2>2. Len(After(m, "?")) = 0
    BY <2>1, EmptyText
  <2> QED
    BY <1>1, <2>1, <2>2
<1>3. CASE Has(m, "?")
  <2>1. /\ First(m, "?") \in 1..Len(m) /\ Len(Before(m, "?")) = First(m, "?") - 1
        /\ Len(After(m, "?")) = Len(m) - First(m, "?")
    BY <1>3, CutFound
  <2> QED
    BY <1>1, <2>1
<1> QED
  BY <1>2, <1>3

Room(sent) == Len(sent.path) + 1 + Cardinality(Benign(sent.query))
              + Cardinality(DOMAIN sent.query \ Decodable(sent.query))

LEMMA WordingLength ==
  ASSUME IInv, pc = "done", Sent.ok
  PROVE  Len(Wording) <= Cardinality(Benign(Sent.query))
                         + Cardinality(DOMAIN Sent.query \ Decodable(Sent.query))
<1> DEFINE q == Sent.query
           kept == Benign(q)
           rest == DOMAIN q \ Decodable(q)
<1>1. /\ q \in Text /\ ToSet(q) \subseteq Parameters
      /\ removed <=> \E i \in DOMAIN q : MustGo(q[i])
  BY Spared
<1>2. kept \subseteq Decodable(q) /\ Decodable(q) \subseteq DOMAIN q
  BY DEF Benign, Decodable
<1>3. DOMAIN q = 1..Len(q) /\ Len(q) \in Nat
  BY <1>1 DEF Text
<1>4. IsFiniteSet(DOMAIN q) /\ Cardinality(DOMAIN q) = Len(q)
  BY <1>3, FS_Interval
<1>5. kept \subseteq DOMAIN q /\ rest \subseteq DOMAIN q
  BY <1>2
<1>6. ~removed => kept = Decodable(q)
  BY <1>1, <1>2 DEF Benign
<1>7. ~removed => Wording = q
  BY DEF Wording
<1>8. removed => IsSpelling(Wording, q, kept)
  BY Rewritten
<1>9. kept \intersect rest = {} /\ (kept = Decodable(q) => kept \union rest = DOMAIN q)
  BY <1>2
<1> HIDE DEF q, kept, rest
<1>10. IsFiniteSet(kept) /\ IsFiniteSet(rest)
  BY <1>4, <1>5, FS_Subset
<1>11. Cardinality(kept) \in Nat /\ Cardinality(rest) \in Nat
  BY <1>10, FS_CardinalityType
<1>12. Len(Wording) <= Cardinality(kept) + Cardinality(rest)
  <2>1. CASE ~removed
    <3>1. Cardinality(kept \union rest)
          = Cardinality(kept) + Cardinality(rest) - Cardinality(kept \intersect rest)
      BY <1>10, FS_Union
    <3>2. kept \union rest = DOMAIN q /\ Cardinality(kept \intersect rest) = 0
      BY <1>6, <1>9, <2>1, FS_EmptySet
    <3>3. Len(q) = Cardinality(kept) + Cardinality(rest)
      BY <1>4, <1>11, <3>1, <3>2
    <3>4. Len(Wording) = Len(q)
      BY <1>7, <2>1
    <3> QED
      BY <1>3, <3>3, <3>4
  <2>2. CASE removed
    <3> DEFINE n == Cardinality(kept)
    <3>1. IsSpelling(Wording, q, kept)
      BY <1>8, <2>2
    <3>2. PICK e : Ordered(e, q, kept, n) /\ Wording = Spelling(e, q, n)
      BY <3>1 DEF IsSpelling
    <3> HIDE DEF n
    <3>3. n \in Nat
      BY <1>11 DEF n
    <3>4. Faithful(Wording, e, q, kept, n)
      BY <1>1, <1>2, <3>2, <3>3, Spelled
    <3>5. Len(Wording) = n
      BY <3>4 DEF Faithful
    <3> QED
      BY <1>11, <3>5 DEF n
  <2> QED
    BY <2>1, <2>2
<1> QED
  BY <1>12 DEF q, kept, rest

\* With room for all of it, it is all stored.
LEMMA RoomEnough ==
  ASSUME IInv, pc = "done", Sent.ok, limit <= 0 \/ Room(Sent) <= limit
  PROVE  Kept.path = Sent.path /\ Kept.query = Wording
<1> DEFINE text == Stripped.text
           m == Before(text, "#")
           b == Cardinality(Benign(Sent.query))
           r == Cardinality(DOMAIN Sent.query \ Decodable(Sent.query))
<1>1. limit \in Int /\ answer.out = Truncated(text, limit)
  BY Answers
<1>2. /\ text \in Text /\ answer.out \in Text /\ Begins(answer.out, text)
      /\ answer.out = text \/ Len(answer.out) = limit
  BY AnsweredText
<1>3. Parsed(text).path = Sent.path /\ Parsed(text).query = Wording
  BY StoredUrl
<1>4. Len(Wording) <= b + r
  BY WordingLength
<1>5. Room(Sent) = Len(Sent.path) + 1 + b + r
  BY DEF Room
<1>6. b \in Nat /\ r \in Nat
  <2>1. Sent.query \in Text
    BY Spared
  <2>2. IsFiniteSet(DOMAIN Sent.query)
    <3>1. DOMAIN Sent.query = 1..Len(Sent.query) /\ Len(Sent.query) \in Nat
      BY <2>1 DEF Text
    <3> QED
      BY <3>1, FS_Interval
  <2>3. /\ Benign(Sent.query) \subseteq DOMAIN Sent.query
        /\ DOMAIN Sent.query \ Decodable(Sent.query) \subseteq DOMAIN Sent.query
    BY DEF Benign, Decodable
  <2>4. /\ IsFiniteSet(Benign(Sent.query))
        /\ IsFiniteSet(DOMAIN Sent.query \ Decodable(Sent.query))
    BY <2>2, <2>3, FS_Subset
  <2> QED
    BY <2>4, FS_CardinalityType
<1> HIDE DEF text, b, r
<1>7. m \in Text /\ Len(m) <= Len(text)
  BY <1>2, CutTypes
<1>8. Before(m, "?") = Sent.path /\ After(m, "?") = Wording
  BY <1>2, <1>3, ParsedParts
<1>9. Len(m) <= Len(Sent.path) + 1 + Len(Wording)
  BY <1>7, <1>8, MainLength
<1>10. Sent.path \in Text /\ Wording \in Text
  BY <1>7, <1>8, CutTypes
<1> HIDE DEF m
<1>11. Len(answer.out) >= Len(m)
  <2>1. /\ Len(m) \in Nat /\ Len(text) \in Nat /\ Len(Sent.path) \in Nat /\ Len(Wording) \in Nat
    BY <1>2, <1>7, <1>10 DEF Text
  <2>2. CASE answer.out = text
    BY <1>7, <2>1, <2>2
  <2>3. CASE answer.out # text
    <3>1. ~(limit <= 0) /\ Len(answer.out) = limit
      BY <1>1, <1>2, <2>3 DEF Truncated
    <3>2. Len(Sent.path) + 1 + b + r <= limit
      BY <1>5, <3>1
    <3> QED
      BY <1>1, <1>4, <1>6, <1>9, <2>1, <3>1, <3>2
  <2> QED
    BY <2>2, <2>3
<1>12. Parsed(answer.out).path = Parsed(text).path /\ Parsed(answer.out).query = Parsed(text).query
  BY <1>2, <1>11, ParsedBeginning DEF m
<1> QED
  BY <1>3, <1>12 DEF Kept

\* BenignSurvives: taking something out costs nothing else, since the bound is on
\* what is left, and the values of a name keep their order.
THEOREM BenignStays == Spec => []BenignSurvives
<1>1. IInv => BenignSurvives
  <2> SUFFICES ASSUME IInv, pc = "done", Sent.ok, limit <= 0 \/ Room(Sent) <= limit
               PROVE  /\ Kept.path = Sent.path
                      /\ \E place : Settled(place, Sent.query, Kept.query)
    BY DEF BenignSurvives, Answered, Room, Settled, Benign
  <2>1. Kept.path = Sent.path /\ Kept.query = Wording
    BY RoomEnough
  <2>2. \E place : Settled(place, Sent.query, Wording)
    BY BenignPlaces
  <2> QED
    BY <2>1, <2>2
<1> QED
  BY <1>1, Invariance, PTL

-----------------------------------------------------------------------------
(* Decimals *)

\* A sequence that takes ten times what it had, and a digit.
Grows(g, n, a, x) ==
  /\ DOMAIN g = 0..n /\ g[0] = a
  /\ \A i \in 1..n : g[i] = 10 * g[i - 1] + x[i]

LEMMA GrowthExists ==
  ASSUME NEW a \in Nat, NEW x, NEW n \in Nat, \A i \in 1..n : x[i] \in Nat
  PROVE  \E g : Grows(g, n, a, x)
<1> DEFINE T == {m \in 0..n : ~\E g : Grows(g, m, a, x)}
<1> SUFFICES ASSUME ~\E g : Grows(g, n, a, x) PROVE FALSE
  OBVIOUS
<1>1. T \subseteq Nat /\ n \in T
  OBVIOUS
<1>2. PICK m \in T : \A k \in T : m <= k
  <2> HIDE DEF T
  <2> QED
    BY <1>1, LeastNatural
<1>3. m \in 0..n /\ ~\E g : Grows(g, m, a, x)
  BY <1>2
<1>4. CASE m = 0
  <2> DEFINE g == [i \in 0..0 |-> a]
  <2>1. DOMAIN g = 0..0 /\ g[0] = a /\ \A i \in 1..0 : FALSE
    OBVIOUS
  <2>2. Grows(g, 0, a, x)
    <3> HIDE DEF g
    <3> QED
      BY <2>1 DEF Grows
  <2> QED
    BY <1>3, <1>4, <2>2
<1>5. CASE m # 0
  <2>1. m - 1 \in 0..n /\ ~(m <= m - 1) /\ m \in 1..n
    BY <1>3, <1>5
  <2>2. m - 1 \notin T
    BY <1>2, <2>1
  <2>3. PICK h : Grows(h, m - 1, a, x)
    BY <2>1, <2>2
  <2> DEFINE g == [i \in 0..m |-> IF i = m THEN 10 * h[m - 1] + x[m] ELSE h[i]]
  <2>4. /\ DOMAIN g = 0..m
        /\ \A i \in 0..m - 1 : g[i] = h[i]
        /\ g[m] = 10 * h[m - 1] + x[m]
    BY <2>1
  <2> HIDE DEF g
  <2>5. h[0] = a /\ \A i \in 1..m - 1 : h[i] = 10 * h[i - 1] + x[i]
    BY <2>3 DEF Grows
  <2>6. g[0] = a
    BY <2>1, <2>4, <2>5
  <2>7. ASSUME NEW i \in 1..m PROVE g[i] = 10 * g[i - 1] + x[i]
    <3>1. CASE i = m
      <4>1. g[m - 1] = h[m - 1]
        BY <2>1, <2>4
      <4> QED
        BY <2>4, <3>1, <4>1
    <3>2. CASE i # m
      <4>1. i \in 1..m - 1 /\ i \in 0..m - 1 /\ i - 1 \in 0..m - 1
        BY <2>1, <3>2
      <4> QED
        BY <2>4, <2>5, <4>1
    <3> QED
      BY <3>1, <3>2
  <2>8. Grows(g, m, a, x)
    BY <2>4, <2>6, <2>7 DEF Grows
  <2> QED
    BY <1>3, <2>8
<1> QED
  BY <1>4, <1>5

LEMMA GrowthType ==
  ASSUME NEW a \in Nat, NEW x, NEW n \in Nat, \A i \in 1..n : x[i] \in Nat,
         NEW g, Grows(g, n, a, x)
  PROVE  \A i \in 0..n : g[i] \in Nat /\ g[i] >= a
<1> DEFINE T == {m \in 0..n : ~(g[m] \in Nat /\ g[m] >= a)}
<1> SUFFICES ASSUME T # {} PROVE FALSE
  OBVIOUS
<1>1. T \subseteq Nat
  OBVIOUS
<1>2. PICK m \in T : \A k \in T : m <= k
  <2> HIDE DEF T
  <2> QED
    BY <1>1, LeastNatural
<1>3. m \in 0..n /\ ~(g[m] \in Nat /\ g[m] >= a)
  BY <1>2
<1>4. g[0] = a /\ \A i \in 1..n : g[i] = 10 * g[i - 1] + x[i]
  BY DEF Grows
<1>5. m # 0
  BY <1>3, <1>4
<1>6. m \in 1..n /\ m - 1 \in 0..n /\ ~(m <= m - 1)
  BY <1>3, <1>5
<1>7. m - 1 \notin T
  BY <1>2, <1>6
<1>8. g[m - 1] \in Nat /\ g[m - 1] >= a
  BY <1>6, <1>7
<1>9. g[m] = 10 * g[m - 1] + x[m] /\ x[m] \in Nat
  BY <1>4, <1>6
<1> QED
  BY <1>3, <1>8, <1>9

\* A number of i digits is below the q-th power of ten just when the digits
\* before the last q are zeros.
Powers(t, p) ==
  /\ \A q \in 0..p : t[q] \in Nat /\ t[q] >= 1
  /\ t[0] = 1 /\ \A q \in 1..p : t[q] = 10 * t[q - 1]

LEMMA BelowPower ==
  ASSUME NEW n \in Nat, NEW x, \A i \in 1..n : x[i] \in 0..9, NEW v, Grows(v, n, 0, x),
         NEW p \in Nat, NEW t, Powers(t, p)
  PROVE  v[n] < t[p] <=> \A j \in 1..n - p : x[j] = 0
<1> DEFINE Bound(i, q) == v[i] < t[q] <=> \A j \in 1..i - q : x[j] = 0
           T == {i \in 0..n : ~\A q \in 0..p : Bound(i, q)}
<1>1. /\ \A i \in 0..n : v[i] \in Nat
      /\ v[0] = 0 /\ \A i \in 1..n : v[i] = 10 * v[i - 1] + x[i]
  <2>1. \A i \in 1..n : x[i] \in Nat
    OBVIOUS
  <2>2. \A i \in 0..n : v[i] \in Nat /\ v[i] >= 0
    BY <2>1, GrowthType
  <2> QED
    BY <2>2 DEF Grows
<1>2. /\ \A q \in 0..p : t[q] \in Nat /\ t[q] >= 1
      /\ t[0] = 1 /\ \A q \in 1..p : t[q] = 10 * t[q - 1]
  BY DEF Powers
<1>3. ASSUME T # {} PROVE FALSE
  <2>1. T \subseteq Nat
    OBVIOUS
  <2>2. PICK m \in T : \A k \in T : m <= k
    <3> HIDE DEF T
    <3> QED
      BY <1>3, <2>1, LeastNatural
  <2>3. m \in 0..n /\ ~\A q \in 0..p : Bound(m, q)
    BY <2>2
  <2>4. PICK q \in 0..p : ~Bound(m, q)
    BY <2>3
  <2>5. CASE m = 0
    <3>1. v[m] < t[q]
      BY <1>1, <1>2, <2>5
    <3>2. \A j \in 1..m - q : FALSE
      BY <2>5
    <3> QED
      BY <2>4, <3>1, <3>2
  <2>6. CASE m # 0
    <3>1. m \in 1..n /\ m - 1 \in 0..n /\ ~(m <= m - 1)
      BY <2>3, <2>6
    <3>2. m - 1 \notin T
      BY <2>2, <3>1
    <3>3. \A r \in 0..p : Bound(m - 1, r)
      BY <3>1, <3>2
    <3>4. v[m] = 10 * v[m - 1] + x[m] /\ v[m - 1] \in Nat /\ v[m] \in Nat /\ x[m] \in 0..9
      BY <1>1, <3>1
    <3>5. CASE q = 0
      <4>1. v[m - 1] < t[0] <=> \A j \in 1..m - 1 - 0 : x[j] = 0
        BY <3>3, <3>5
      <4>2. v[m] < t[0] <=> v[m - 1] < t[0] /\ x[m] = 0
        BY <1>2, <3>4
      <4>3. (\A j \in 1..m - 0 : x[j] = 0) <=> (\A j \in 1..m - 1 - 0 : x[j] = 0) /\ x[m] = 0
        BY <3>1
      <4> QED
        BY <2>4, <3>5, <4>1, <4>2, <4>3
    <3>6. CASE q # 0
      <4>1. q \in 1..p /\ q - 1 \in 0..p
        BY <3>6
      <4>2. v[m - 1] < t[q - 1] <=> \A j \in 1..m - 1 - (q - 1) : x[j] = 0
        BY <3>3, <4>1
      <4>3. t[q] = 10 * t[q - 1] /\ t[q - 1] \in Nat
        BY <1>2, <4>1
      <4>4. v[m] < t[q] <=> v[m - 1] < t[q - 1]
        BY <3>4, <4>3
      <4>5. m - 1 - (q - 1) = m - q
        BY <3>1, <4>1
      <4> QED
        BY <2>4, <4>2, <4>4, <4>5
    <3> QED
      BY <3>5, <3>6
  <2> QED
    BY <2>5, <2>6
<1>4. n \in 0..n /\ p \in 0..p
  OBVIOUS
<1> QED
  BY <1>3, <1>4

LEMMA DigitValues ==
  ASSUME NEW d \in DOMAIN Digits
  PROVE  Digits[d] \in 0..9 /\ (Digits[d] = 0 <=> d = "0")
BY DEF Digits

DigitsOf(s) == [i \in 1..Len(s) |-> Digits[s[i]]]

LEMMA NumberGrows ==
  ASSUME NEW s \in Text, \A i \in DOMAIN s : s[i] \in DOMAIN Digits
  PROVE  /\ \A i \in 1..Len(s) : DigitsOf(s)[i] \in 0..9 /\ (DigitsOf(s)[i] = 0 <=> s[i] = "0")
         /\ \E v : Grows(v, Len(s), 0, DigitsOf(s)) /\ v[Len(s)] = Number(s)
<1> DEFINE n == Len(s)
           x == DigitsOf(s)
           value == CHOOSE value :
             value = [i \in 0..n |-> IF i = 0 THEN 0 ELSE 10 * value[i - 1] + Digits[s[i]]]
<1>1. n \in Nat /\ DOMAIN s = 1..n
  BY DEF Text
<1>2. \A i \in 1..n : x[i] = Digits[s[i]]
  BY DEF DigitsOf
<1>3. Number(s) = value[n]
  BY DEF Number
<1> HIDE DEF x, n
<1>4. \A i \in 1..n : x[i] \in 0..9 /\ (x[i] = 0 <=> s[i] = "0")
  BY <1>1, <1>2, DigitValues
<1>5. \A i \in 1..n : x[i] \in Nat
  BY <1>4
<1>6. PICK g : Grows(g, n, 0, x)
  BY <1>1, <1>5, GrowthExists
<1> DEFINE h == [i \in 0..n |-> g[i]]
<1>7. g[0] = 0 /\ \A i \in 1..n : g[i] = 10 * g[i - 1] + x[i]
  BY <1>6 DEF Grows
<1>8. \A i \in 0..n : h[i] = IF i = 0 THEN 0 ELSE 10 * h[i - 1] + Digits[s[i]]
  <2> TAKE i \in 0..n
  <2>1. CASE i = 0
    BY <1>7, <2>1
  <2>2. CASE i # 0
    <3>1. i \in 1..n /\ i - 1 \in 0..n
      BY <1>1, <2>2
    <3>2. h[i] = g[i] /\ h[i - 1] = g[i - 1]
      BY <3>1
    <3> HIDE DEF h
    <3> QED
      BY <1>2, <1>7, <2>2, <3>1, <3>2
  <2> QED
    BY <2>1, <2>2
<1>9. h = [i \in 0..n |-> IF i = 0 THEN 0 ELSE 10 * h[i - 1] + Digits[s[i]]]
  BY <1>8
<1> HIDE DEF h
<1>10. value = [i \in 0..n |-> IF i = 0 THEN 0 ELSE 10 * value[i - 1] + Digits[s[i]]]
  BY <1>9
<1> HIDE DEF value
<1>11. Grows(value, n, 0, x)
  <2>1. DOMAIN value = 0..n
    BY <1>10
  <2>2. \A i \in 0..n : value[i] = IF i = 0 THEN 0 ELSE 10 * value[i - 1] + Digits[s[i]]
    BY <1>10
  <2>3. 0 \in 0..n /\ \A i \in 1..n : i \in 0..n /\ i # 0
    BY <1>1
  <2> QED
    BY <1>2, <2>1, <2>2, <2>3 DEF Grows
<1> QED
  BY <1>3, <1>4, <1>11 DEF n, x

LEMMA PowersOfTen ==
  ASSUME NEW n \in Nat
  PROVE  \E t : Powers(t, n) /\ t[n] = TenTo(n)
<1> DEFINE x == [i \in 1..n |-> 0]
           power == CHOOSE power :
             power = [i \in 0..n |-> IF i = 0 THEN 1 ELSE 10 * power[i - 1]]
<1>1. TenTo(n) = power[n]
  BY DEF TenTo
<1>2. \A i \in 1..n : x[i] = 0 /\ x[i] \in Nat
  OBVIOUS
<1> HIDE DEF x
<1>3. PICK g : Grows(g, n, 1, x)
  BY <1>2, GrowthExists
<1>4. \A i \in 0..n : g[i] \in Nat
  BY <1>2, <1>3, GrowthType
<1> DEFINE h == [i \in 0..n |-> g[i]]
<1>5. g[0] = 1 /\ \A i \in 1..n : g[i] = 10 * g[i - 1] + x[i]
  BY <1>3 DEF Grows
<1>6. \A i \in 0..n : h[i] = IF i = 0 THEN 1 ELSE 10 * h[i - 1]
  <2> TAKE i \in 0..n
  <2>1. CASE i = 0
    BY <1>5, <2>1
  <2>2. CASE i # 0
    <3>1. i \in 1..n /\ i - 1 \in 0..n
      BY <2>2
    <3>2. h[i] = g[i] /\ h[i - 1] = g[i - 1] /\ g[i - 1] \in Nat
      BY <1>4, <3>1
    <3> HIDE DEF h
    <3>3. g[i] = 10 * g[i - 1]
      BY <1>2, <1>5, <3>1, <3>2
    <3> QED
      BY <2>2, <3>2, <3>3
  <2> QED
    BY <2>1, <2>2
<1>7. h = [i \in 0..n |-> IF i = 0 THEN 1 ELSE 10 * h[i - 1]]
  BY <1>6
<1> HIDE DEF h
<1>8. power = [i \in 0..n |-> IF i = 0 THEN 1 ELSE 10 * power[i - 1]]
  BY <1>7
<1> HIDE DEF power
<1>9. power[0] = 1 /\ \A i \in 1..n : power[i] = 10 * power[i - 1]
  <2>1. \A i \in 0..n : power[i] = IF i = 0 THEN 1 ELSE 10 * power[i - 1]
    BY <1>8
  <2>2. 0 \in 0..n /\ \A i \in 1..n : i \in 0..n /\ i # 0
    OBVIOUS
  <2> QED
    BY <2>1, <2>2
<1> DEFINE T == {i \in 0..n : ~(power[i] \in Nat /\ power[i] >= 1)}
<1>10. ASSUME T # {} PROVE FALSE
  <2>1. T \subseteq Nat
    OBVIOUS
  <2>2. PICK m \in T : \A k \in T : m <= k
    <3> HIDE DEF T
    <3> QED
      BY <1>10, <2>1, LeastNatural
  <2>3. m \in 0..n /\ ~(power[m] \in Nat /\ power[m] >= 1)
    BY <2>2
  <2>4. m \in 1..n /\ m - 1 \in 0..n /\ ~(m <= m - 1)
    BY <1>9, <2>3
  <2>5. m - 1 \notin T
    BY <2>2, <2>4
  <2>6. power[m - 1] \in Nat /\ power[m - 1] >= 1
    BY <2>4, <2>5
  <2>7. power[m] = 10 * power[m - 1]
    BY <1>9, <2>4
  <2> QED
    BY <2>3, <2>6, <2>7
<1>11. Powers(power, n)
  BY <1>9, <1>10 DEF Powers
<1> QED
  BY <1>1, <1>11

-----------------------------------------------------------------------------
(* What fitsDecimal lets through *)

LEMMA UnsignedText ==
  ASSUME NEW s \in Text
  PROVE  Unsigned(s) \in Text
<1>1. CASE s # <<>> /\ s[1] = "-"
  <2>1. s \in Seq(Letters) /\ s # <<>>
    BY <1>1 DEF Text
  <2>2. Tail(s) \in Seq(Letters)
    BY <2>1
  <2> QED
    BY <1>1, <2>2 DEF Unsigned, Text
<1>2. CASE ~(s # <<>> /\ s[1] = "-")
  BY <1>2 DEF Unsigned
<1> QED
  BY <1>1, <1>2

\* Digits on both sides of a point, and no other letter.
WellFormed(s) ==
  /\ s # <<>>
  /\ \A i \in DOMAIN s : s[i] \in DOMAIN Digits \/ (s[i] = "." /\ i \notin {1, Len(s)})
  /\ \A i, j \in DOMAIN s : s[i] = "." /\ s[j] = "." => i = j

LEMMA DigitsOfText ==
  ASSUME NEW s \in Text
  PROVE  IsDigits(s) <=> Len(s) # 0 /\ \A i \in 1..Len(s) : s[i] \in DOMAIN Digits
<1>1. DOMAIN s = 1..Len(s) /\ Len(s) \in Nat
  BY DEF Text
<1>2. ToSet(s) \subseteq DOMAIN Digits <=> \A i \in 1..Len(s) : s[i] \in DOMAIN Digits
  BY <1>1 DEF ToSet
<1>3. s = <<>> <=> Len(s) = 0
  BY DEF Text
<1> QED
  BY <1>2, <1>3 DEF IsDigits

LEMMA WellFormedParts ==
  ASSUME NEW s \in Text
  PROVE  WellFormed(s) <=> IsDigits(Before(s, ".")) /\ (Has(s, ".") => IsDigits(After(s, ".")))
<1>1. DOMAIN s = 1..Len(s) /\ Len(s) \in Nat /\ (s = <<>> <=> Len(s) = 0)
  BY DEF Text
<1>2. "." \notin DOMAIN Digits
  BY DEF Digits
<1> DEFINE int == Before(s, ".")
           frac == After(s, ".")
<1>3. int \in Text /\ frac \in Text
  BY CutTypes
<1>4. CASE ~Has(s, ".")
  <2>1. int = s
    BY <1>4, CutMissing
  <2>2. \A i \in 1..Len(s) : s[i] # "."
    BY <1>1, <1>4 DEF Has
  <2>3. WellFormed(s) <=> Len(s) # 0 /\ \A i \in 1..Len(s) : s[i] \in DOMAIN Digits
    BY <1>1, <2>2 DEF WellFormed
  <2> QED
    BY <1>4, <2>1, <2>3, DigitsOfText
<1>5. CASE Has(s, ".")
  <2> DEFINE f == First(s, ".")
  <2>1. /\ f \in 1..Len(s)
        /\ Len(int) = f - 1 /\ \A j \in 1..f - 1 : int[j] = s[j]
        /\ Len(frac) = Len(s) - f /\ \A j \in 1..Len(s) - f : frac[j] = s[f + j]
    BY <1>5, CutFound
  <2>2. s[f] = "." /\ \A j \in 1..f - 1 : s[j] # "."
    BY <1>5, FirstPlace
  <2>3. IsDigits(int) <=> Len(int) # 0 /\ \A i \in 1..Len(int) : int[i] \in DOMAIN Digits
    BY <1>3, DigitsOfText
  <2>4. IsDigits(frac) <=> Len(frac) # 0 /\ \A i \in 1..Len(frac) : frac[i] \in DOMAIN Digits
    BY <1>3, DigitsOfText
  <2> HIDE DEF f, int, frac
  <2>0. (Len(int) # 0 <=> f # 1) /\ (Len(frac) # 0 <=> f # Len(s))
    <3>1. f \in 1..Len(s) /\ Len(int) = f - 1 /\ Len(frac) = Len(s) - f
      BY <2>1
    <3> QED
      BY <1>1, <3>1
  <2>5. ASSUME WellFormed(s) PROVE IsDigits(int) /\ IsDigits(frac)
    <3>1. /\ \A i \in 1..Len(s) : s[i] \in DOMAIN Digits \/ (s[i] = "." /\ i \notin {1, Len(s)})
          /\ \A i \in 1..Len(s) : s[i] = "." => i = f
      BY <1>1, <2>1, <2>2, <2>5 DEF WellFormed
    <3>2. f # 1 /\ f # Len(s)
      BY <1>2, <2>1, <2>2, <3>1
    <3>3. ASSUME NEW j \in 1..f - 1 PROVE int[j] \in DOMAIN Digits
      <4>1. j \in 1..Len(s) /\ s[j] # "."
        BY <1>1, <2>1, <2>2
      <4> QED
        BY <2>1, <3>1, <4>1
    <3>4. ASSUME NEW j \in 1..Len(s) - f PROVE frac[j] \in DOMAIN Digits
      <4>1. f + j \in 1..Len(s) /\ f + j # f
        BY <1>1, <2>1
      <4> QED
        BY <2>1, <3>1, <4>1
    <3>5. Len(int) # 0 /\ Len(frac) # 0
      BY <2>0, <3>2
    <3>6. /\ \A i \in 1..Len(int) : int[i] \in DOMAIN Digits
          /\ \A i \in 1..Len(frac) : frac[i] \in DOMAIN Digits
      BY <2>1, <3>3, <3>4
    <3> QED
      BY <2>3, <2>4, <3>5, <3>6
  <2>6. ASSUME IsDigits(int), IsDigits(frac) PROVE WellFormed(s)
    <3>1. /\ f # 1 /\ f # Len(s)
          /\ \A j \in 1..f - 1 : int[j] \in DOMAIN Digits
          /\ \A j \in 1..Len(s) - f : frac[j] \in DOMAIN Digits
      BY <2>0, <2>1, <2>3, <2>4, <2>6
    <3>2. ASSUME NEW i \in 1..Len(s), i # f PROVE s[i] \in DOMAIN Digits
      <4>1. CASE i < f
        BY <2>1, <3>1, <4>1
      <4>2. CASE i > f
        <5>1. i - f \in 1..Len(s) - f /\ f + (i - f) = i
          BY <1>1, <2>1, <4>2
        <5>2. frac[i - f] = s[i]
          BY <2>1, <5>1
        <5> QED
          BY <3>1, <5>1, <5>2
      <4> QED
        BY <2>1, <3>2, <4>1, <4>2
    <3>3. \A i \in 1..Len(s) : s[i] = "." => i = f
      BY <1>2, <3>2
    <3>4. \A i \in DOMAIN s : s[i] \in DOMAIN Digits \/ (s[i] = "." /\ i \notin {1, Len(s)})
      BY <1>1, <2>2, <3>1, <3>2
    <3>5. s # <<>> /\ \A i, j \in DOMAIN s : s[i] = "." /\ s[j] = "." => i = j
      BY <1>1, <2>1, <3>3
    <3> QED
      BY <3>4, <3>5 DEF WellFormed
  <2> QED
    BY <1>5, <2>5, <2>6 DEF int, frac
<1> QED
  BY <1>4, <1>5

LEMMA ZerosText ==
  ASSUME NEW n \in Nat
  PROVE  Zeros(n) \in Text /\ Len(Zeros(n)) = n /\ \A i \in 1..n : Zeros(n)[i] = "0"
<1>1. PICK c \in Letters : c = "0"
  BY LiteralsAssumption DEF Digits
<1>2. Zeros(n) = [i \in 1..n |-> c]
  BY <1>1 DEF Zeros
<1>3. Zeros(n) \in [1..n -> Letters]
  BY <1>2
<1> QED
  BY <1>1, <1>2, <1>3 DEF Text

\* The leading zeros are as many as the first digits that are zeros.
LEMMA WithoutZerosLength ==
  ASSUME NEW s \in Text, NEW k \in Nat
  PROVE  /\ Len(WithoutLeadingZeros(s)) \in Nat
         /\ Len(WithoutLeadingZeros(s)) <= k
            <=> \A i \in 1..Len(s) : i <= Len(s) - k => s[i] = "0"
<1> DEFINE digits == {i \in DOMAIN s : s[i] # "0"}
           l == Len(s)
<1>1. DOMAIN s = 1..l /\ l \in Nat
  BY DEF Text
<1>2. CASE digits = {}
  <2>1. WithoutLeadingZeros(s) = <<>>
    BY <1>2 DEF WithoutLeadingZeros
  <2>2. Len(WithoutLeadingZeros(s)) = 0
    BY <2>1, EmptyText
  <2>3. \A i \in 1..l : s[i] = "0"
    BY <1>1, <1>2
  <2> QED
    BY <2>2, <2>3
<1>3. CASE digits # {}
  <2> DEFINE m == Min(digits)
  <2>0. WithoutLeadingZeros(s) = SubSeq(s, m, Len(s))
    BY <1>3 DEF WithoutLeadingZeros
  <2>1. \A i \in digits : i \in 1..l /\ s[i] # "0"
    BY <1>1
  <2>2. \A i \in 1..l : i \notin digits => s[i] = "0"
    BY <1>1
  <2> HIDE DEF digits
  <2>3. m \in digits /\ \A i \in digits : m <= i
    <3>1. digits \subseteq Nat
      BY <1>1, <2>1
    <3>2. \E x \in digits : \A y \in digits : x <= y
      BY <1>3, <3>1, LeastNatural
    <3> QED
      BY <3>2 DEF Min
  <2> HIDE DEF m, l
  <2>4. m \in 1..l /\ s[m] # "0"
    BY <2>1, <2>3
  <2>5. \A i \in 1..l : i < m => s[i] = "0"
    <3> SUFFICES ASSUME NEW i \in 1..l, i < m, i \in digits PROVE FALSE
      BY <2>2
    <3>1. m <= i
      BY <2>3
    <3> QED
      BY <1>1, <2>4, <3>1
  <2>6. Len(WithoutLeadingZeros(s)) = l - m + 1
    <3>1. m \in 1..Len(s) + 1 /\ Len(s) \in 0..Len(s)
      BY <1>1, <2>4 DEF l
    <3>2. Len(SubSeq(s, m, Len(s))) = IF m <= Len(s) THEN Len(s) - m + 1 ELSE 0
      BY <3>1, SubSeqProperties DEF Text
    <3> QED
      BY <1>1, <2>0, <2>4, <3>2 DEF l
  <2>7. Len(WithoutLeadingZeros(s)) <= k <=> l - k < m
    BY <1>1, <2>4, <2>6
  <2>8. ASSUME l - k < m, NEW i \in 1..l, i <= l - k PROVE s[i] = "0"
    <3>1. i < m
      BY <1>1, <2>4, <2>8
    <3> QED
      BY <2>5, <3>1
  <2>9. ASSUME \A i \in 1..l : i <= l - k => s[i] = "0" PROVE l - k < m
    <3>1. ~(m <= l - k)
      BY <2>4, <2>9
    <3> QED
      BY <1>1, <2>4, <3>1
  <2>10. Len(WithoutLeadingZeros(s)) \in Nat
    BY <1>1, <2>4, <2>6
  <2> QED
    BY <2>7, <2>8, <2>9, <2>10 DEF l
<1> QED
  BY <1>2, <1>3

\* The digits of a number in units of the last decimal the column has.
Units(int, frac, scale) == int \o frac \o Zeros(scale - Len(frac))

LEMMA UnitsText ==
  ASSUME NEW int \in Text, NEW frac \in Text, NEW scale \in Nat, Len(frac) <= scale,
         \A i \in 1..Len(int) : int[i] \in DOMAIN Digits,
         \A i \in 1..Len(frac) : frac[i] \in DOMAIN Digits
  PROVE  LET u == Units(int, frac, scale)
         IN  /\ u \in Text /\ Len(u) = Len(int) + scale
             /\ \A i \in 1..Len(int) : u[i] = int[i]
             /\ \A i \in DOMAIN u : u[i] \in DOMAIN Digits
<1> DEFINE z == Zeros(scale - Len(frac))
           h == int \o frac
           u == h \o z
<1>1. Len(int) \in Nat /\ Len(frac) \in Nat /\ scale - Len(frac) \in Nat
  BY DEF Text
<1>2. z \in Text /\ Len(z) = scale - Len(frac) /\ \A i \in 1..Len(z) : z[i] = "0"
  BY <1>1, ZerosText
<1>3. Units(int, frac, scale) = u
  BY DEF Units
<1> HIDE DEF z
<1>4. /\ h \in Text /\ Len(h) = Len(int) + Len(frac)
      /\ \A i \in 1..Len(int) + Len(frac) :
           h[i] = IF i <= Len(int) THEN int[i] ELSE frac[i - Len(int)]
  BY ConcatProperties DEF Text
<1> HIDE DEF h
<1>5. /\ u \in Text /\ Len(u) = Len(h) + Len(z)
      /\ \A i \in 1..Len(h) + Len(z) : u[i] = IF i <= Len(h) THEN h[i] ELSE z[i - Len(h)]
  <2>1. h \in Seq(Letters) /\ z \in Seq(Letters)
    BY <1>2, <1>4 DEF Text
  <2>2. /\ h \o z \in Seq(Letters) /\ Len(h \o z) = Len(h) + Len(z)
        /\ \A i \in 1..Len(h) + Len(z) :
             (h \o z)[i] = IF i <= Len(h) THEN h[i] ELSE z[i - Len(h)]
    BY <2>1, ConcatProperties
  <2> QED
    BY <2>2 DEF Text
<1> HIDE DEF u
<1>6. "0" \in DOMAIN Digits
  BY DEF Digits
<1>7. ASSUME NEW i \in 1..Len(h) PROVE h[i] \in DOMAIN Digits
  <2>1. CASE i <= Len(int)
    BY <1>1, <1>4, <2>1
  <2>2. CASE ~(i <= Len(int))
    <3>1. i - Len(int) \in 1..Len(frac) /\ h[i] = frac[i - Len(int)]
      BY <1>1, <1>4, <2>2
    <3> QED
      BY <3>1
  <2> QED
    BY <2>1, <2>2
<1>8. ASSUME NEW i \in 1..Len(u) PROVE u[i] \in DOMAIN Digits
  <2>0. Len(h) \in Nat /\ Len(z) \in Nat
    BY <1>1, <1>2, <1>4
  <2>1. CASE i <= Len(h)
    BY <1>5, <1>7, <2>0, <2>1
  <2>2. CASE ~(i <= Len(h))
    <3>1. i - Len(h) \in 1..Len(z) /\ u[i] = z[i - Len(h)]
      BY <1>5, <2>0, <2>2
    <3> QED
      BY <1>2, <1>6, <3>1
  <2> QED
    BY <2>1, <2>2
<1>9. Len(u) = Len(int) + scale
  BY <1>1, <1>2, <1>4, <1>5
<1>10. \A i \in 1..Len(int) : u[i] = int[i]
  BY <1>1, <1>2, <1>4, <1>5
<1>11. DOMAIN u = 1..Len(u)
  BY <1>5 DEF Text
<1> QED
  BY <1>3, <1>5, <1>8, <1>9, <1>10, <1>11

\* The digits a column of precision p leaves to the left of the point are enough
\* just when the number is below the power of ten it holds.
LEMMA BelowMeansFits ==
  ASSUME NEW int \in Text, NEW frac \in Text, NEW scale \in Nat, NEW p \in Nat,
         scale <= p, Len(frac) <= scale,
         \A i \in 1..Len(int) : int[i] \in DOMAIN Digits,
         \A i \in 1..Len(frac) : frac[i] \in DOMAIN Digits
  PROVE  Number(Units(int, frac, scale)) < TenTo(p)
         <=> Len(WithoutLeadingZeros(int)) + scale <= p
<1> DEFINE u == Units(int, frac, scale)
           n == Len(u)
           l == Len(int)
           x == DigitsOf(u)
<1>1. /\ u \in Text /\ n = l + scale /\ l \in Nat /\ n \in Nat
      /\ \A i \in 1..l : u[i] = int[i]
      /\ \A i \in DOMAIN u : u[i] \in DOMAIN Digits
  BY UnitsText DEF Text
<1> HIDE DEF u, l
<1>2. /\ \A i \in 1..n : x[i] \in 0..9 /\ (x[i] = 0 <=> u[i] = "0")
      /\ \E v : Grows(v, n, 0, x) /\ v[n] = Number(u)
  BY <1>1, NumberGrows
<1> HIDE DEF n, x
<1>3. PICK v : Grows(v, n, 0, x) /\ v[n] = Number(u)
  BY <1>2
<1>4. PICK t : Powers(t, p) /\ t[p] = TenTo(p)
  BY PowersOfTen
<1>5. v[n] < t[p] <=> \A j \in 1..n - p : x[j] = 0
  <2>1. \A i \in 1..n : x[i] \in 0..9
    BY <1>2
  <2>2. Grows(v, n, 0, x) /\ Powers(t, p)
    BY <1>3, <1>4
  <2>3. n \in Nat
    BY <1>1
  <2> QED
    BY <2>1, <2>2, <2>3, BelowPower
<1>6. p - scale \in Nat /\ n - p = l - (p - scale)
  BY <1>1
<1>7. (\A j \in 1..n - p : x[j] = 0) <=> \A i \in 1..l : i <= l - (p - scale) => int[i] = "0"
  <2>1. ASSUME NEW j \in 1..n - p PROVE j \in 1..l /\ j \in 1..n /\ j <= l - (p - scale)
    BY <1>1, <1>6
  <2>2. ASSUME NEW i \in 1..l, i <= l - (p - scale) PROVE i \in 1..n - p
    BY <1>1, <1>6, <2>2
  <2>3. \A j \in 1..n - p : x[j] = 0 <=> int[j] = "0"
    BY <1>1, <1>2, <2>1
  <2> QED
    BY <2>1, <2>2, <2>3
<1>8. Len(WithoutLeadingZeros(int)) <= p - scale
      <=> \A i \in 1..l : i <= l - (p - scale) => int[i] = "0"
  BY <1>6, WithoutZerosLength DEF l
<1>9. Len(WithoutLeadingZeros(int)) <= p - scale <=> Len(WithoutLeadingZeros(int)) + scale <= p
  <2>1. Len(WithoutLeadingZeros(int)) \in Nat
    BY WithoutZerosLength
  <2> QED
    BY <2>1
<1> QED
  BY <1>3, <1>4, <1>5, <1>7, <1>8, <1>9 DEF u

\* fitsDecimal answers yes just for a number the column stores without loss.
LEMMA FitsStorable ==
  ASSUME NEW literal \in Text, NEW column, column.precision \in Nat,
         column.scale \in 0..column.precision
  PROVE  FitsDecimal(literal, column)
         <=> LET s == Unsigned(literal)
                 int == Before(s, ".")
                 frac == After(s, ".")
             IN  /\ WellFormed(s)
                 /\ Len(frac) <= column.scale
                 /\ Number(Units(int, frac, column.scale)) < TenTo(column.precision)
<1> DEFINE s == Unsigned(literal)
           int == Before(s, ".")
           frac == After(s, ".")
           scale == column.scale
           p == column.precision
           Enough == Len(WithoutLeadingZeros(int)) + scale <= p
           Below == Number(Units(int, frac, scale)) < TenTo(p)
<1>1. s \in Text
  BY UnsignedText
<1>2. FitsDecimal(literal, column)
      <=> /\ IsDigits(int) /\ (Has(s, ".") => IsDigits(frac))
          /\ Len(frac) <= scale /\ Enough
  BY DEF FitsDecimal
<1> HIDE DEF s
<1>3. WellFormed(s) <=> IsDigits(int) /\ (Has(s, ".") => IsDigits(frac))
  BY <1>1, WellFormedParts
<1>4. int \in Text /\ frac \in Text
  BY <1>1, CutTypes
<1>5. ~Has(s, ".") => frac = <<>>
  BY <1>1, CutMissing
<1> HIDE DEF int, frac
<1>6. ASSUME IsDigits(int), Has(s, ".") => IsDigits(frac), Len(frac) <= scale
      PROVE  Below <=> Enough
  <2>1. \A i \in 1..Len(int) : int[i] \in DOMAIN Digits
    BY <1>4, <1>6, DigitsOfText
  <2>2. \A i \in 1..Len(frac) : frac[i] \in DOMAIN Digits
    <3>1. CASE Has(s, ".")
      BY <1>4, <1>6, <3>1, DigitsOfText
    <3>2. CASE ~Has(s, ".")
      BY <1>5, <3>2, EmptyText
    <3> QED
      BY <3>1, <3>2
  <2>3. scale \in Nat /\ p \in Nat /\ scale <= p
    OBVIOUS
  <2> HIDE DEF scale, p
  <2> QED
    BY <1>4, <1>6, <2>1, <2>2, <2>3, BelowMeansFits
<1> HIDE DEF Enough, Below, scale
<1>7. FitsDecimal(literal, column) <=> WellFormed(s) /\ Len(frac) <= scale /\ Below
  BY <1>2, <1>3, <1>6
<1> QED
  BY <1>7 DEF Below, s, int, frac, scale, p

\* FitsMeansStorable: an event is refused for a decimal just when its column would
\* not store it without loss.
THEOREM FitsExactly == Spec => []FitsMeansStorable
<1>1. IInv => FitsMeansStorable
  <2> SUFFICES ASSUME IInv, pc = "judged" PROVE FitsMeansStorable
    BY DEF FitsMeansStorable
  <2>1. /\ decimal.literal \in Literals /\ decimal.column \in Columns
        /\ decimal.fits = FitsDecimal(decimal.literal, decimal.column)
    BY DEF IInv, Ruled
  <2>2. /\ decimal.literal \in Text
        /\ decimal.column.precision \in Nat
        /\ decimal.column.scale \in 0..decimal.column.precision
    BY <2>1, LiteralsAssumption DEF Text
  <2> QED
    BY <2>1, <2>2, FitsStorable DEF FitsMeansStorable, WellFormed, Units
<1> QED
  BY <1>1, Invariance, PTL

=============================================================================
