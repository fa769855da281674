---------------------- MODULE ConnectionPipelineProofs ----------------------
(***************************************************************************)
(* The connection implements Pipeline, its liveness aside: whatever        *)
(* arrives in whatever portions, the responses that reach the socket are   *)
(* the ones owed for the requests, in their order, and none follows the    *)
(* last.  The argument follows the bytes: what is in the buffer and in the *)
(* kernel is what the client wrote after the request answered last, so     *)
(* each parse yields the next request, whole.                              *)
(***************************************************************************)
EXTENDS ConnectionProofs

-----------------------------------------------------------------------------
(* Slices *)

\* The first g elements.
LEMMA Taken ==
    ASSUME NEW S, NEW s \in Seq(S), NEW g \in 0..Len(s)
    PROVE  /\ SubSeq(s, 1, g) \in Seq(S) /\ Len(SubSeq(s, 1, g)) = g
           /\ \A k \in 1..g : SubSeq(s, 1, g)[k] = s[k]
<1>1. Len(s) \in Nat /\ g \in Nat /\ \A k \in 1..g : s[k] \in S
  BY LenProperties, ElementOfSeq
<1> QED BY <1>1, SubSeqProperties

Drop(s, g) == SubSeq(s, g + 1, Len(s))

\* What is left after the first g elements.
LEMMA Dropped ==
    ASSUME NEW S, NEW s \in Seq(S), NEW g \in 0..Len(s)
    PROVE  /\ Drop(s, g) \in Seq(S) /\ Len(Drop(s, g)) = Len(s) - g
           /\ \A k \in 1..Len(s) - g : Drop(s, g)[k] = s[g + k]
           /\ DOMAIN Drop(s, g) = 1..Len(s) - g
<1>1. Len(s) \in Nat /\ g \in Nat /\ \A k \in g + 1..Len(s) : s[k] \in S
  BY LenProperties, ElementOfSeq
<1>2. /\ Drop(s, g) \in Seq(S) /\ Len(Drop(s, g)) = Len(s) - g
  BY <1>1, Slice DEF Drop
<1>3. \A k \in 1..Len(s) - g : Drop(s, g)[k] = s[g + k]
  <2> TAKE k \in 1..Len(s) - g
  <2>1. Drop(s, g)[k] = s[(g + 1) + k - 1]
    BY <1>1, SubSeqProperties DEF Drop
  <2>2. (g + 1) + k - 1 = g + k
    BY <1>1
  <2> QED BY <2>1, <2>2
<1> QED BY <1>2, <1>3, LenProperties

\* Concatenation under a name of its own, which keeps its law first-order.
Cat(a, b) == a \o b

LEMMA CatAssociative ==
    ASSUME NEW S, NEW a \in Seq(S), NEW b \in Seq(S), NEW c \in Seq(S)
    PROVE  Cat(Cat(a, b), c) = Cat(a, Cat(b, c))
BY ConcatAssociative DEF Cat

\* Dropping from the front leaves what follows where it is.
LEMMA DropConcat ==
    ASSUME NEW S, NEW a \in Seq(S), NEW b \in Seq(S), NEW g \in 0..Len(a)
    PROVE  Drop(a, g) \o b = Drop(a \o b, g)
<1>1. PICK c \in Seq(S) : c = a \o b
  BY ConcatProperties
<1>2. PICK t \in Seq(S) : t = SubSeq(a, 1, g)
  BY Taken
<1>3. PICK d \in Seq(S) : d = Drop(a, g)
  BY Dropped
<1>4. Len(a) \in Nat /\ Len(b) \in Nat /\ Len(c) = Len(a) + Len(b)
  BY <1>1, LenProperties, ConcatProperties
<1>5. PICK r \in Seq(S) : r = Drop(c, g)
  BY <1>4, g \in 0..Len(c), Dropped
<1>6. t \o d = a
  <2>1. 1 \in 1..Len(a) + 1 /\ g \in 1 - 1..Len(a) /\ Len(a) \in g..Len(a)
    BY <1>4
  <2> QED BY <1>2, <1>3, <2>1, ConcatAdjacentSubSeq, SubSeqFull DEF Drop
<1>7. SubSeq(c, 1, g) = t
  <2>1. CASE g = 0
    BY <1>2, <2>1, SubSeqEmpty
  <2>2. CASE g # 0
    <3>1. 1 \in 1..Len(a) /\ g \in 1..Len(a)
      BY <1>4, <2>2
    <3> QED BY <1>1, <1>2, <3>1, SubSeqOfConcat1
  <2> QED BY <2>1, <2>2
<1>8. t \o r = c
  <2>1. 1 \in 1..Len(c) + 1 /\ g \in 1 - 1..Len(c) /\ Len(c) \in g..Len(c)
    BY <1>4
  <2> QED BY <1>5, <1>7, <2>1, ConcatAdjacentSubSeq, SubSeqFull DEF Drop
<1>9. t \o (d \o b) = t \o r
  <2>1. (t \o d) \o b = t \o (d \o b)
    <3>1. Cat(Cat(t, d), b) = Cat(t, Cat(d, b))
      BY CatAssociative
    <3> QED BY <3>1 DEF Cat
  <2> QED BY <1>1, <1>6, <1>8, <2>1
<1>10. d \o b \in Seq(S)
  BY ConcatProperties
<1>11. d \o b = r
  <2> PICK e \in Seq(S) : e = d \o b
    BY <1>10
  <2>1. t \o e = t \o r
    BY <1>9
  <2> QED BY <2>1, ConcatSimplifications
<1> QED BY <1>1, <1>3, <1>5, <1>11

-----------------------------------------------------------------------------
(* Units *)

Bodies(i) == {[req |-> i, part |-> k] : k \in Nat}

\* What the client writes of a request.
LEMMA UnitsOf ==
    ASSUME NEW i, NEW n \in Nat
    PROVE  /\ Units(i, n) \in Seq(Bodies(i)) /\ Len(Units(i, n)) = n + 1
           /\ Units(i, n) # <<>>
           /\ \A k \in 1..n + 1 : Units(i, n)[k] = [req |-> i, part |-> k - 1]
<1> DEFINE e(k) == [req |-> i, part |-> k - 1]
<1>1. n + 1 \in Nat /\ \A k \in 1..n + 1 : e(k) \in Bodies(i)
  <2>1. \A k \in 1..n + 1 : k - 1 \in Nat
    OBVIOUS
  <2> QED BY <2>1 DEF Bodies
<1>2. Units(i, n) = [k \in 1..n + 1 |-> e(k)]
  BY DEF Units
<1>3. \A k \in 1..n + 1 : Units(i, n)[k] = e(k)
  BY DEF Units
<1>4. DOMAIN Units(i, n) = 1..n + 1
  BY DEF Units
<1> HIDE DEF e
<1>5. Units(i, n) \in Seq(Bodies(i))
  BY <1>1, <1>2, IsASeq
<1>6. Len(Units(i, n)) = n + 1
  BY <1>4, <1>5, LenProperties
<1>7. Units(i, n) # <<>>
  BY <1>5, <1>6, EmptySeq
<1> QED BY <1>3, <1>5, <1>6, <1>7 DEF e

\* The body of a request is its units but the first.
LEMMA TailUnits ==
    ASSUME NEW i, NEW n \in Nat
    PROVE  /\ Tail(Units(i, n)) \in Seq(Bodies(i)) /\ Len(Tail(Units(i, n))) = n
           /\ \A k \in 1..n : Tail(Units(i, n))[k] = [req |-> i, part |-> k]
<1>1. PICK u \in Seq(Bodies(i)) : u = Units(i, n)
  BY UnitsOf
<1>2. u # <<>> /\ Len(u) = n + 1
  BY <1>1, UnitsOf
<1>3. /\ Tail(u) \in Seq(Bodies(i)) /\ Len(Tail(u)) = Len(u) - 1
      /\ \A k \in 1..Len(Tail(u)) : Tail(u)[k] = u[k + 1]
  BY <1>2, HeadTailProperties
<1>4. Len(Tail(u)) = n
  BY <1>2, <1>3
<1>5. ASSUME NEW k \in 1..n PROVE Tail(u)[k] = [req |-> i, part |-> k]
  <2>1. k + 1 \in 1..n + 1 /\ (k + 1) - 1 = k
    OBVIOUS
  <2>2. u[k + 1] = [req |-> i, part |-> (k + 1) - 1]
    BY <1>1, <2>1, UnitsOf
  <2> QED BY <1>3, <1>4, <2>1, <2>2
<1> QED BY <1>1, <1>3, <1>4, <1>5

\* A body grows by the units that follow it.
LEMMA BodyGrows ==
    ASSUME NEW i, NEW q \in Nat, NEW g \in Nat,
           NEW S, Bodies(i) \subseteq S, NEW t \in Seq(S),
           Len(t) = g, \A k \in 1..g : t[k] = [req |-> i, part |-> q + k]
    PROVE  Tail(Units(i, q)) \o t = Tail(Units(i, q + g))
<1>1. PICK a \in Seq(S) : a = Tail(Units(i, q))
  BY TailUnits, SeqMonotonic
<1>2. q + g \in Nat
  OBVIOUS
<1>3. PICK b \in Seq(S) : b = Tail(Units(i, q + g))
  BY <1>2, TailUnits, SeqMonotonic
<1>4. Len(a) = q /\ \A k \in 1..q : a[k] = [req |-> i, part |-> k]
  BY <1>1, TailUnits
<1>5. Len(b) = q + g /\ \A k \in 1..q + g : b[k] = [req |-> i, part |-> k]
  BY <1>2, <1>3, TailUnits
<1>6. PICK c \in Seq(S) : c = a \o t
  BY ConcatProperties
<1>7. Len(c) = q + g /\ \A k \in 1..q + g : c[k] = IF k <= q THEN a[k] ELSE t[k - q]
  <2>1. /\ Len(a \o t) = Len(a) + Len(t)
        /\ \A k \in 1..Len(a) + Len(t) :
               (a \o t)[k] = IF k <= Len(a) THEN a[k] ELSE t[k - Len(a)]
    BY ConcatProperties
  <2>2. Len(a) = q /\ Len(t) = g
    BY <1>4
  <2> QED BY <1>6, <2>1, <2>2
<1>8. ASSUME NEW k \in 1..q + g PROVE c[k] = b[k]
  <2>1. CASE k <= q
    <3>1. k \in 1..q
      BY <2>1
    <3>2. a[k] = b[k]
      BY <1>4, <1>5, <3>1
    <3> QED BY <1>7, <2>1, <3>2
  <2>2. CASE ~ (k <= q)
    <3>1. k - q \in 1..g /\ q + (k - q) = k
      BY <2>2
    <3>2. t[k - q] = [req |-> i, part |-> q + (k - q)]
      BY <3>1
    <3>3. c[k] = t[k - q]
      BY <1>7, <2>2
    <3>4. b[k] = [req |-> i, part |-> k]
      BY <1>5
    <3> QED BY <3>1, <3>2, <3>3, <3>4
  <2> QED BY <2>1, <2>2
<1>9. c = b
  BY <1>5, <1>7, <1>8, SeqEqual
<1> QED BY <1>1, <1>3, <1>6, <1>9

-----------------------------------------------------------------------------
(* What is left to read *)

\* Blocks are what they are declared to be, and sent is a sequence of requests.
LEMMA SentFacts ==
    ASSUME TypeOK
    PROVE  /\ Len(sent) \in Nat /\ DOMAIN sent = 1..Len(sent)
           /\ \A i \in 1..Len(sent) :
                  /\ sent[i].pieces \in Nat /\ Block(i) \in BlockType
                  /\ Block(i).content_length \in Nat
<1>1. sent \in Seq([block : Blocks, pieces : Nat])
  BY DEF TypeOK
<1>2. Len(sent) \in Nat /\ DOMAIN sent = 1..Len(sent)
  BY <1>1, LenProperties
<1>3. ASSUME NEW i \in 1..Len(sent)
      PROVE  /\ sent[i].pieces \in Nat /\ Block(i) \in BlockType
             /\ Block(i).content_length \in Nat
  <2>1. sent[i] \in [block : Blocks, pieces : Nat]
    BY <1>1, <1>3, ElementOfSeq
  <2>2. Block(i) \in BlockType
    BY <2>1, ConnectionAssumption DEF Block
  <2> QED BY <2>1, <2>2 DEF BlockType
<1> QED BY <1>2, <1>3

\* What Whole says of one unit.
LEMMA WholeAt ==
    ASSUME TypeOK, NEW s \in Seq(Known), Whole(s),
           NEW j \in 1..Len(s), NEW i, i = s[j].req, NEW q, q = s[j].part
    PROVE  /\ i \in 1..Len(sent) /\ q <= sent[i].pieces
           /\ q \in Nat /\ sent[i].pieces \in Nat
           /\ \A k \in 0..sent[i].pieces - q :
                  j + k \in 1..Len(s) /\ s[j + k] = [req |-> i, part |-> q + k]
           /\ q = sent[i].pieces =>
                  IF j = Len(s) THEN i = Len(sent)
                                ELSE s[j + 1] = [req |-> i + 1, part |-> 0]
<1>1. DOMAIN s = 1..Len(s)
  BY LenProperties
<1>2. s[j] \in Known
  BY ElementOfSeq
<1>3. q \in Nat
  BY <1>2 DEF Known
<1>4. /\ i \in 1..Len(sent) /\ q <= sent[i].pieces
      /\ \A k \in 0..sent[i].pieces - q :
             j + k \in 1..Len(s) /\ s[j + k] = [req |-> i, part |-> q + k]
      /\ q = sent[i].pieces =>
             IF j = Len(s) THEN i = Len(sent)
                           ELSE s[j + 1] = [req |-> i + 1, part |-> 0]
  BY <1>1 DEF Whole
<1> QED BY <1>3, <1>4, SentFacts

\* Whoever reads whole requests goes on reading whole requests.
LEMMA WholeDropped ==
    ASSUME TypeOK, NEW s \in Seq(Known), Whole(s), NEW g \in 0..Len(s)
    PROVE  Whole(Drop(s, g))
<1>1. PICK r \in Seq(Known) : r = Drop(s, g)
  BY Dropped
<1>2. /\ Len(s) \in Nat /\ g \in Nat /\ Len(r) = Len(s) - g
      /\ DOMAIN r = 1..Len(s) - g /\ DOMAIN s = 1..Len(s)
      /\ \A k \in 1..Len(s) - g : r[k] = s[g + k]
  <2>1. Len(s) \in Nat /\ g \in Nat /\ DOMAIN s = 1..Len(s)
    BY LenProperties
  <2>2. /\ Len(r) = Len(s) - g /\ DOMAIN r = 1..Len(s) - g
        /\ \A k \in 1..Len(s) - g : r[k] = s[g + k]
    BY <1>1, Dropped
  <2> QED BY <2>1, <2>2
<1>3. ASSUME NEW j \in DOMAIN r
      PROVE  LET i == r[j].req
                 q == r[j].part
             IN  /\ i \in 1..Len(sent) /\ q <= sent[i].pieces
                 /\ \A k \in 0..sent[i].pieces - q :
                        j + k \in DOMAIN r /\ r[j + k] = [req |-> i, part |-> q + k]
                 /\ q = sent[i].pieces =>
                        IF j = Len(r) THEN i = Len(sent)
                                      ELSE r[j + 1] = [req |-> i + 1, part |-> 0]
  <2> DEFINE i == r[j].req
             q == r[j].part
  <2>1. g + j \in 1..Len(s) /\ r[j] = s[g + j]
    BY <1>2, <1>3
  <2> HIDE DEF i, q
  <2>2. /\ i \in 1..Len(sent) /\ q <= sent[i].pieces
        /\ q \in Nat /\ sent[i].pieces \in Nat
        /\ \A k \in 0..sent[i].pieces - q :
               (g + j) + k \in 1..Len(s) /\ s[(g + j) + k] = [req |-> i, part |-> q + k]
        /\ q = sent[i].pieces =>
               IF g + j = Len(s) THEN i = Len(sent)
                                 ELSE s[(g + j) + 1] = [req |-> i + 1, part |-> 0]
    <3>1. PICK n \in 1..Len(s) : n = g + j
      BY <2>1
    <3>2. i = s[n].req /\ q = s[n].part
      BY <2>1, <3>1 DEF i, q
    <3>3. /\ i \in 1..Len(sent) /\ q <= sent[i].pieces
          /\ q \in Nat /\ sent[i].pieces \in Nat
          /\ \A k \in 0..sent[i].pieces - q :
                 n + k \in 1..Len(s) /\ s[n + k] = [req |-> i, part |-> q + k]
          /\ q = sent[i].pieces =>
                 IF n = Len(s) THEN i = Len(sent)
                               ELSE s[n + 1] = [req |-> i + 1, part |-> 0]
      BY ONLY TypeOK, s \in Seq(Known), Whole(s), n \in 1..Len(s), <3>2, WholeAt,
         SMTT(30)
    <3> QED BY <3>1, <3>3
  <2>4. ASSUME NEW k \in 0..sent[i].pieces - q
        PROVE  j + k \in DOMAIN r /\ r[j + k] = [req |-> i, part |-> q + k]
    <3>1. (g + j) + k \in 1..Len(s) /\ s[(g + j) + k] = [req |-> i, part |-> q + k]
      BY <2>2
    <3>2. j + k \in 1..Len(s) - g /\ g + (j + k) = (g + j) + k
      <4>1. j \in 1..Len(s) - g /\ k \in Nat
        BY <1>2, <1>3, <2>2
      <4> QED BY <1>2, <3>1, <4>1
    <3> QED BY <1>2, <3>1, <3>2
  <2>5. ASSUME q = sent[i].pieces
        PROVE  IF j = Len(r) THEN i = Len(sent)
                             ELSE r[j + 1] = [req |-> i + 1, part |-> 0]
    <3>1. CASE j = Len(r)
      BY <1>2, <1>3, <2>2, <2>5, <3>1
    <3>2. CASE j # Len(r)
      <4>1. s[(g + j) + 1] = [req |-> i + 1, part |-> 0]
        BY <1>2, <1>3, <2>2, <2>5, <3>2
      <4>2. j + 1 \in 1..Len(s) - g /\ g + (j + 1) = (g + j) + 1
        BY <1>2, <1>3, <3>2
      <4> QED BY <1>2, <3>2, <4>1, <4>2
    <3> QED BY <3>1, <3>2
  <2> QED BY <2>2, <2>4, <2>5 DEF i, q
<1> QED BY <1>1, <1>3 DEF Whole

\* Behind a unit the reader stands where the next one is expected.
LEMMA Behind ==
    ASSUME TypeOK, NEW s \in Seq(Known), Whole(s),
           NEW g \in 1..Len(s), NEW i, i = s[g].req, NEW q, q = s[g].part
    PROVE  NextIsPart(Drop(s, g), i, q)
<1>1. PICK n \in Nat : n = Len(s)
  BY LenProperties
<1>2. g \in Nat /\ g \in 1..n
  BY <1>1
<1>3. /\ i \in 1..Len(sent) /\ q <= sent[i].pieces
      /\ q \in Nat /\ sent[i].pieces \in Nat
      /\ \A k \in 0..sent[i].pieces - q :
             g + k \in 1..Len(s) /\ s[g + k] = [req |-> i, part |-> q + k]
      /\ q = sent[i].pieces =>
             IF g = Len(s) THEN i = Len(sent)
                           ELSE s[g + 1] = [req |-> i + 1, part |-> 0]
  <2>1. i = s[g].req /\ q = s[g].part
    OBVIOUS
  <2> QED BY <2>1, WholeAt, SMTT(30)
<1>4. PICK p \in Nat : p = sent[i].pieces
  BY <1>3
<1>5. /\ q \in Nat /\ q <= p
      /\ \A k \in 0..p - q : g + k \in 1..n /\ s[g + k] = [req |-> i, part |-> q + k]
      /\ q = p => IF g = n THEN i = Len(sent)
                           ELSE s[g + 1] = [req |-> i + 1, part |-> 0]
  BY <1>1, <1>3, <1>4
<1>6. g \in 0..Len(s)
  BY <1>1, <1>2
<1>7. PICK d \in Seq(Known) : d = Drop(s, g)
  BY <1>6, Dropped
<1>8. Len(d) = n - g /\ \A k \in 1..n - g : d[k] = s[g + k]
  BY <1>1, <1>6, <1>7, Dropped
<1>9. ASSUME g + 1 \in 1..n PROVE d # <<>> /\ d[1] = s[g + 1]
  <2>1. 1 \in 1..n - g
    BY <1>2, <1>9
  <2>2. Len(d) # 0
    BY <1>8, <2>1
  <2> QED BY <1>8, <2>1, <2>2, EmptySeq
<1>10. CASE q < p
  <2>1. 1 \in 0..p - q
    BY <1>5, <1>10
  <2>2. g + 1 \in 1..n /\ s[g + 1] = [req |-> i, part |-> q + 1]
    BY <1>5, <2>1
  <2> QED BY <1>4, <1>7, <1>9, <1>10, <2>2 DEF NextIsPart
<1>11. CASE q = p /\ g = n
  <2>1. Len(d) = 0
    BY <1>8, <1>11
  <2>2. d = <<>>
    BY <2>1, EmptySeq
  <2> QED BY <1>4, <1>5, <1>7, <1>11, <2>2 DEF NextIsPart, NextIsHead
<1>12. CASE q = p /\ g # n
  <2>1. g + 1 \in 1..n
    BY <1>2, <1>12
  <2>2. s[g + 1] = [req |-> i + 1, part |-> 0]
    BY <1>5, <1>12
  <2>3. i + 1 \in 1..Len(sent)
    <3>1. PICK j \in 1..Len(s) : j = g + 1
      BY <1>1, <2>1
    <3>2. s[j].req \in 1..Len(sent)
      BY WholeAt
    <3>3. s[j].req = i + 1
      BY <2>2, <3>1
    <3> QED BY <3>2, <3>3
  <2>4. i # Len(sent)
    BY <2>3, SentFacts
  <2> QED BY <1>4, <1>7, <1>9, <1>12, <2>1, <2>2, <2>4 DEF NextIsPart, NextIsHead
<1> QED BY <1>5, <1>10, <1>11, <1>12

\* The next pieces of a request come one by one, and the reader stands behind
\* those it took.
LEMMA NextRun ==
    ASSUME TypeOK, NEW s \in Seq(Known), Whole(s),
           NEW i \in 1..Len(sent), NEW q \in Nat, NextIsPart(s, i, q),
           NEW g \in Nat, q + g <= sent[i].pieces
    PROVE  /\ g <= Len(s)
           /\ \A k \in 1..g : s[k] = [req |-> i, part |-> q + k]
           /\ NextIsPart(Drop(s, g), i, q + g)
<1>1. PICK n \in Nat : n = Len(s)
  BY LenProperties
<1>2. PICK p \in Nat : p = sent[i].pieces
  BY SentFacts
<1>3. Len(sent) \in Nat
  BY SentFacts
<1>4. CASE g = 0
  <2>1. Drop(s, 0) = s /\ q + 0 = q
    BY SubSeqFull DEF Drop
  <2> QED BY <1>1, <1>4, <2>1
<1>5. CASE g # 0
  <2>1. q + 1 <= p
    BY <1>2, <1>5
  <2>2. s # <<>> /\ s[1] = [req |-> i, part |-> q + 1]
    BY <1>2, <2>1 DEF NextIsPart
  <2>3. 1 \in 1..Len(s)
    BY <2>2, EmptySeq
  <2>4. PICK q1 \in Nat : q1 = q + 1
    OBVIOUS
  <2>5. \A k \in 0..p - q1 : 1 + k \in 1..n /\ s[1 + k] = [req |-> i, part |-> q1 + k]
    <3>1. PICK j \in 1..Len(s) : j = 1
      BY <2>3
    <3>2. i = s[j].req /\ q1 = s[j].part
      BY <2>2, <2>4, <3>1
    <3>3. /\ \A k \in 0..sent[i].pieces - q1 :
                 j + k \in 1..Len(s) /\ s[j + k] = [req |-> i, part |-> q1 + k]
          /\ q1 = sent[i].pieces =>
                 IF j = Len(s) THEN i = Len(sent)
                               ELSE s[j + 1] = [req |-> i + 1, part |-> 0]
      BY <3>2, WholeAt
    <3> QED BY <1>1, <1>2, <3>1, <3>3
  <2>6. ASSUME NEW k \in 1..g
        PROVE  k \in 1..n /\ s[k] = [req |-> i, part |-> q + k]
    <3>1. k - 1 \in 0..p - q1 /\ 1 + (k - 1) = k /\ q1 + (k - 1) = q + k
      BY <1>2, <2>4
    <3>2. 1 + (k - 1) \in 1..n /\ s[1 + (k - 1)] = [req |-> i, part |-> q1 + (k - 1)]
      BY <2>5, <3>1
    <3> QED BY <3>1, <3>2
  <2>7. g \in 1..n /\ s[g] = [req |-> i, part |-> q + g]
    <3>1. g \in 1..g
      BY <1>5
    <3> QED BY <2>6, <3>1
  <2>8. g \in 1..n
    BY <2>7
  <2>9. PICK qg \in Nat : qg = q + g
    OBVIOUS
  <2>10. NextIsPart(Drop(s, g), i, qg)
    <3>1. i = s[g].req /\ qg = s[g].part
      BY <2>7, <2>9
    <3>2. g \in 1..Len(s)
      BY <1>1, <2>8
    <3> QED BY <3>1, <3>2, Behind
  <2> QED BY <1>1, <2>6, <2>8, <2>9, <2>10
<1> QED BY <1>4, <1>5

\* Behind the last request there is nothing but the rest of it.
LEMMA LastRun ==
    ASSUME TypeOK, NEW s \in Seq(Known), Whole(s),
           Len(sent) # 0, NEW q \in Nat, q <= sent[Len(sent)].pieces,
           NextIsPart(s, Len(sent), q)
    PROVE  Len(s) = sent[Len(sent)].pieces - q
<1>1. PICK i \in 1..Len(sent) : i = Len(sent)
  <2>1. Len(sent) \in Nat
    BY SentFacts
  <2> QED BY <2>1
<1>2. sent[i].pieces \in Nat /\ Len(s) \in Nat
  BY SentFacts, LenProperties
<1>3. PICK g \in Nat : g = sent[i].pieces - q
  BY <1>1, <1>2
<1>4. q + g = sent[i].pieces
  BY <1>2, <1>3
<1>5. g <= Len(s) /\ NextIsPart(Drop(s, g), i, q + g)
  BY <1>1, <1>2, <1>4, NextRun
<1>6. Drop(s, g) = <<>>
  BY <1>1, <1>2, <1>4, <1>5 DEF NextIsPart, NextIsHead
<1>7. Len(Drop(s, g)) = Len(s) - g
  BY <1>2, <1>5, g \in 0..Len(s), Dropped
<1>8. Len(s) - g = 0
  BY <1>6, <1>7, EmptySeq
<1> QED BY <1>1, <1>2, <1>3, <1>8

-----------------------------------------------------------------------------
(* Parsing *)

\* What the reader knows of the request it is reading: q pieces of the i-th
\* body have been taken, s is what follows them.
ReadSoFar(req, i, q, s) ==
    /\ req.head = i /\ req.body_bytes_read_ = q
    /\ q <= sent[i].pieces /\ req.body = Tail(Units(i, q))
    /\ Whole(s) /\ NextIsPart(s, i, q)

\* process_stream_again takes no unit of another request: either the body is
\* complete, or nothing behind it was sent.
LEMMA Portion ==
    ASSUME TypeOK, SentInv, NEW s \in Seq(Known), NEW buf \in Seq(Known),
           Len(buf) <= Len(s),
           NEW i \in 1..Len(sent), NEW q \in Nat, q <= sent[i].pieces,
           Whole(s), NextIsPart(s, i, q), NEW c \in Nat, c = Block(i).content_length
    PROVE  LET got == IF Len(buf) < c - q THEN Len(buf) ELSE c - q
           IN  got \in 0..Len(buf) /\ q + got <= sent[i].pieces /\ sent[i].pieces <= c
<1>1. PICK p \in Nat : p = sent[i].pieces
  BY SentFacts
<1>2. p <= c /\ (p < c => i = Len(sent))
  BY <1>1, SentFacts DEF SentInv, Block
<1>3. Len(buf) \in Nat /\ Len(s) \in Nat
  BY LenProperties
<1> DEFINE got == IF Len(buf) < c - q THEN Len(buf) ELSE c - q
<1>4. got \in 0..Len(buf) /\ q + got <= c
  BY <1>1, <1>2, <1>3, SMTT(30)
<1>5. q + got <= p
  <2>1. CASE p = c
    BY <1>4, <2>1
  <2>2. CASE p < c
    <3>1. i = Len(sent) /\ Len(sent) # 0
      <4>1. Len(sent) \in Nat /\ i \in 1..Len(sent)
        BY SentFacts
      <4> QED BY <1>2, <2>2, <4>1
    <3>2. Len(s) = p - q
      BY <1>1, <3>1, LastRun
    <3>3. PICK g, k, l \in Nat : g = got /\ g <= k /\ k = Len(buf) /\ l = Len(s)
      BY <1>3, <1>4
    <3>4. k <= l /\ l = p - q
      BY <3>2, <3>3
    <3>5. q + g <= p
      BY ONLY g \in Nat, k \in Nat, l \in Nat, p \in Nat, q \in Nat, <3>3, <3>4
    <3> QED BY <3>3, <3>5
  <2> QED BY <1>1, <1>2, <2>1, <2>2
<1> QED BY <1>1, <1>2, <1>4, <1>5

\* So a request grows by its own pieces, in their order.
LEMMA BodyRead ==
    ASSUME TypeOK, SentInv, NEW buf \in Seq(Known), NEW w \in Seq(Known),
           NEW req \in ParsedRequest, NEW i \in 1..Len(sent), NEW q \in Nat,
           ReadSoFar(req, i, q, buf \o w)
    PROVE  LET p == process_stream_again(req, buf)
           IN  /\ p.error = "none"
               /\ p.request.body_bytes_read_ \in Nat
               /\ ReadSoFar(p.request, i, p.request.body_bytes_read_, p.buffer \o w)
               /\ p.required = 0 =>
                      /\ p.request.body_bytes_read_ = Block(i).content_length
                      /\ sent[i].pieces = Block(i).content_length
<1>1. PICK s \in Seq(Known) : s = buf \o w
  BY ConcatProperties
<1>2. PICK c \in Nat : c = Block(i).content_length
  BY SentFacts
<1>3. Len(buf) \in Nat /\ Len(w) \in Nat /\ Len(s) = Len(buf) + Len(w)
  BY <1>1, LenProperties, ConcatProperties
<1>4. /\ req.head = i /\ req.body_bytes_read_ = q
      /\ q <= sent[i].pieces /\ req.body = Tail(Units(i, q))
      /\ Whole(s) /\ NextIsPart(s, i, q)
  BY <1>1 DEF ReadSoFar
<1>5. PICK got : got = IF Len(buf) < c - q THEN Len(buf) ELSE c - q
  OBVIOUS
<1>6. /\ got \in 0..Len(buf) /\ q + got <= sent[i].pieces /\ sent[i].pieces <= c
  <2>1. Len(buf) <= Len(s)
    BY <1>3
  <2> QED BY <1>2, <1>4, <1>5, <2>1, Portion
<1>7. got \in Nat /\ got <= Len(buf) /\ q + got \in Nat
  BY <1>3, <1>6
<1>8. /\ \A k \in 1..got : s[k] = [req |-> i, part |-> q + k]
      /\ NextIsPart(Drop(s, got), i, q + got)
  BY <1>4, <1>6, <1>7, NextRun
<1>9. Whole(Drop(s, got))
  <2>1. got \in 0..Len(s)
    BY <1>3, <1>7
  <2> QED BY <1>4, <2>1, WholeDropped
<1>10. Drop(buf, got) \o w = Drop(s, got)
  BY <1>1, <1>6, DropConcat
<1>11. PICK t \in Seq(Known) : t = SubSeq(buf, 1, got)
  BY <1>6, Taken
<1>12. Tail(Units(i, q)) \o t = Tail(Units(i, q + got))
  <2>1. Len(t) = got /\ \A k \in 1..got : t[k] = buf[k]
    BY <1>6, <1>11, Taken
  <2>2. \A k \in 1..got : t[k] = [req |-> i, part |-> q + k]
    <3> TAKE k \in 1..got
    <3>1. k \in 1..Len(buf) + Len(w) /\ k <= Len(buf)
      BY <1>3, <1>7
    <3>2. (buf \o w)[k] = buf[k]
      BY <3>1, ConcatProperties
    <3>3. s[k] = [req |-> i, part |-> q + k]
      BY <1>8
    <3> QED BY <1>1, <2>1, <3>2, <3>3
  <2>3. Bodies(i) \subseteq Known
    BY DEF Bodies, Known
  <2>4. got \in Nat /\ Len(t) = got
    BY <1>7, <2>1
  <2> QED BY ONLY q \in Nat, t \in Seq(Known), <2>2, <2>3, <2>4, BodyGrows,
              ZenonT(120)
<1>13. process_stream_again(req, buf) =
           [request  |-> [req EXCEPT !.body = Tail(Units(i, q)) \o t,
                                     !.body_bytes_read_ = q + got],
            buffer   |-> Drop(buf, got),
            required |-> (c - q) - got,
            error    |-> "none"]
  BY <1>2, <1>4, <1>5, <1>11 DEF process_stream_again, Drop
<1>14. PICK r : r = [req EXCEPT !.body = Tail(Units(i, q)) \o t,
                                !.body_bytes_read_ = q + got]
  OBVIOUS
<1>15. r.head = i /\ r.body_bytes_read_ = q + got /\ r.body = Tail(Units(i, q + got))
  BY <1>4, <1>12, <1>14 DEF ParsedRequest
<1>16. ReadSoFar(r, i, q + got, Drop(buf, got) \o w)
  BY <1>6, <1>8, <1>9, <1>10, <1>15 DEF ReadSoFar
<1>17. (c - q) - got = 0 => q + got = c /\ sent[i].pieces = c
  <2>1. PICK p \in Nat : p = sent[i].pieces
    BY SentFacts
  <2>2. q + got <= p /\ p <= c
    BY <1>6, <2>1
  <2>3. (c - q) - got = 0 => q + got = c /\ p = c
    BY <1>7, <2>2
  <2> QED BY <2>1, <2>3
<1>18. PICK p : p = process_stream_again(req, buf)
  OBVIOUS
<1>19. /\ p.error = "none" /\ p.request = r /\ p.buffer = Drop(buf, got)
       /\ p.required = (c - q) - got
  BY <1>13, <1>14, <1>18
<1>20. /\ p.request.body_bytes_read_ \in Nat
       /\ ReadSoFar(p.request, i, p.request.body_bytes_read_, p.buffer \o w)
       /\ p.required = 0 => /\ p.request.body_bytes_read_ = Block(i).content_length
                            /\ sent[i].pieces = Block(i).content_length
  BY <1>2, <1>7, <1>15, <1>16, <1>17, <1>19
<1> QED BY <1>18, <1>19, <1>20

\* A header block at the front of the buffer is the one process_stream finds.
LEMMA FrontHead ==
    ASSUME NEW buf \in Seq(Known), buf # <<>>, buf[1].part = 0
    PROVE  Min(Heads(buf)) = 1
<1>1. DOMAIN buf = 1..Len(buf) /\ Len(buf) \in Nat \ {0}
  BY LenProperties, EmptySeq
<1>2. 1 \in Heads(buf) /\ Heads(buf) \subseteq Nat \ {0}
  BY <1>1 DEF Heads
<1>3. Min(Heads(buf)) \in Heads(buf) /\ Min(Heads(buf)) <= 1
  BY <1>2, MinOfNats
<1> QED BY <1>2, <1>3

\* What process_stream throws on a request at the front is what makes the
\* request unreadable, and is answered as HTTP has it.
LEMMA ErrorIsOwed ==
    ASSUME NEW b \in BlockType
    PROVE  /\ stream_error(b, 1) = "none" <=> ~Unreadable(b)
           /\ Unreadable(b) => error_status(stream_error(b, 1)) = Owed(b)
                               /\ Owed(b) # "response"
<1>1. /\ b.content_length \in Nat /\ b.post \in BOOLEAN /\ BodyLimit \in Nat
      /\ b.parse \in {"ok", "protocol_error", "unsupported_version"}
  BY ConnectionAssumption DEF BlockType, ParseErrors
<1> QED BY <1>1 DEF stream_error, Unreadable, Owed, error_status

\* The same for what the port check and the host throw.
LEMMA RefusalIsOwed ==
    ASSUME NEW b \in BlockType, ~Unreadable(b)
    PROVE  IF host_error(b) = "none" THEN Owed(b) = "response"
           ELSE error_status(host_error(b)) = Owed(b) /\ Owed(b) # "response"
<1>1. b.port_ok \in BOOLEAN /\ b.host \in {"response"} \cup HostErrors
  BY DEF BlockType
<1> QED BY <1>1 DEF host_error, Owed, error_status, HostErrors

\* A new request is begun at its header block.
LEMMA NewRequest ==
    ASSUME TypeOK, NEW buf \in Seq(Known), buf # <<>>, NEW w \in Seq(Known),
           Whole(buf \o w), NEW n \in 1..Len(sent), buf[1] = [req |-> n, part |-> 0],
           NEW req
    PROVE  /\ reset(req, n) \in ParsedRequest
           /\ ReadSoFar(reset(req, n), n, 0, Drop(buf, 1) \o w)
           /\ process_stream(req, buf) =
                  IF stream_error(Block(n), 1) = "none"
                  THEN process_stream_again(reset(req, n), Drop(buf, 1))
                  ELSE [request |-> reset(req, n), buffer |-> Drop(buf, 1),
                        required |-> 0, error |-> stream_error(Block(n), 1)]
<1>1. PICK s \in Seq(Known) : s = buf \o w
  BY ConcatProperties
<1>2. 1 \in 0..Len(buf) /\ 1 \in 1..Len(s) /\ 1 \in 0..Len(s) /\ s[1] = buf[1]
  <2>1. Len(buf) \in Nat \ {0} /\ Len(w) \in Nat
    BY LenProperties, EmptySeq
  <2>2. 1 \in 1..Len(buf) + Len(w) /\ 1 <= Len(buf)
    BY <2>1
  <2>3. Len(buf \o w) = Len(buf) + Len(w) /\ (buf \o w)[1] = buf[1]
    BY <2>2, ConcatProperties
  <2> QED BY <1>1, <2>1, <2>2, <2>3
<1>3. Whole(Drop(s, 1)) /\ NextIsPart(Drop(s, 1), n, 0)
  <2>1. n = s[1].req /\ 0 = s[1].part
    BY <1>2
  <2>2. NextIsPart(Drop(s, 1), n, 0)
    BY <1>1, <1>2, <2>1, Behind
  <2> QED BY <1>1, <1>2, <2>2, WholeDropped
<1>4. Drop(buf, 1) \o w = Drop(s, 1)
  BY <1>1, <1>2, DropConcat
<1>5. Tail(Units(n, 0)) = <<>>
  <2>1. Tail(Units(n, 0)) \in Seq(Bodies(n)) /\ Len(Tail(Units(n, 0))) = 0
    BY TailUnits
  <2> QED BY <2>1, EmptySeq
<1>6. sent[n].pieces \in Nat
  BY SentFacts
<1>7. /\ reset(req, n).head = n /\ reset(req, n).body = <<>>
      /\ reset(req, n).body_bytes_read_ = 0
  BY DEF reset
<1>8. reset(req, n) \in ParsedRequest
  BY EmptySeq DEF reset, ParsedRequest
<1>9. ReadSoFar(reset(req, n), n, 0, Drop(buf, 1) \o w)
  <2>1. PICK r : r = reset(req, n)
    OBVIOUS
  <2>2. r.head = n /\ r.body_bytes_read_ = 0 /\ 0 <= sent[n].pieces
        /\ r.body = Tail(Units(n, 0))
    <3>1. 0 <= sent[n].pieces
      BY <1>6
    <3>2. r.head = n /\ r.body_bytes_read_ = 0
      BY <1>7, <2>1
    <3>3. r.body = Tail(Units(n, 0))
      BY <1>5, <1>7, <2>1, Zenon
    <3> QED BY <3>1, <3>2, <3>3
  <2>3. Whole(Drop(buf, 1) \o w) /\ NextIsPart(Drop(buf, 1) \o w, n, 0)
    BY <1>3, <1>4
  <2> QED BY <2>1, <2>2, <2>3 DEF ReadSoFar
<1>10. Min(Heads(buf)) = 1
  BY FrontHead
<1>11. buf[Min(Heads(buf))].req = n
  BY <1>10
<1> QED BY <1>8, <1>9, <1>10, <1>11 DEF process_stream, Drop

\* The reader always comes to the request after the one answered last: it turns
\* it down for what makes it unreadable, or goes on with its body.
LEMMA ParsedNext ==
    ASSUME IInv, PipelineInv, ~broken, NEW i \in DOMAIN reads, ReadDone(i)
    PROVE  \E n \in 1..Len(sent), q \in Nat :
               LET r == Parsed.request
                   s == Parsed.buffer \o wire
               IN  /\ n = Answered + 1 /\ r.head = n
                   /\ Parsed.error # "none" =>
                          /\ Unreadable(Block(n)) /\ r.body = <<>>
                          /\ Parsed.error = stream_error(Block(n), 1)
                   /\ Parsed.error = "none" =>
                          /\ ~Unreadable(Block(n)) /\ ReadSoFar(r, n, q, s)
                          /\ Parsed.required = 0 =>
                                 /\ q = Block(n).content_length
                                 /\ sent[n].pieces = Block(n).content_length
<1>1. /\ TypeOK /\ SentInv /\ OwedInv /\ ListenInv
      /\ stream_buffer_ \in Seq(Known) /\ wire \in Seq(Known)
  BY DEF PipelineInv, IInv, ReaderInv
<1>2. reads # <<>>
  OBVIOUS
<1>3. Whole(stream_buffer_ \o wire)
  BY <1>1, <1>2 DEF ListenInv, Unread
<1>4. CASE processing_new_request_
  <2>1. Heads(stream_buffer_) # {}
    BY <1>1, <1>4 DEF IInv, ReaderInv, ReadDone, Satisfied
  <2>2. stream_buffer_ # <<>>
    BY <2>1 DEF Heads
  <2>3. PICK s \in Seq(Known) : s = stream_buffer_ \o wire
    BY <1>1, ConcatProperties
  <2>4. s # <<>> /\ s[1] = stream_buffer_[1] /\ 1 \in 1..Len(s)
    <3>1. Len(stream_buffer_) \in Nat \ {0} /\ Len(wire) \in Nat
      BY <1>1, <2>2, LenProperties, EmptySeq
    <3>2. 1 \in 1..Len(stream_buffer_) + Len(wire) /\ 1 <= Len(stream_buffer_)
      BY <3>1
    <3>3. Len(s) = Len(stream_buffer_) + Len(wire) /\ s[1] = stream_buffer_[1]
      BY <1>1, <2>3, <3>2, ConcatProperties
    <3>4. Len(s) # 0
      BY <3>1, <3>3
    <3> QED BY <3>2, <3>3, <3>4, EmptySeq
  <2>5. s[1] = [req |-> Answered + 1, part |-> 0]
    BY <1>1, <1>2, <1>4, <2>3, <2>4 DEF ListenInv, NextIsHead, Unread
  <2>6. PICK n \in 1..Len(sent) : n = Answered + 1
    <3>1. s[1] \in Known
      BY <2>4, ElementOfSeq
    <3> QED BY <2>5, <3>1 DEF Known
  <2>7. stream_buffer_[1] = [req |-> n, part |-> 0]
    BY <2>4, <2>5, <2>6
  <2> DEFINE new  == reset(request_, n)
             rest == Drop(stream_buffer_, 1)
             e    == stream_error(Block(n), 1)
  <2>8. /\ new \in ParsedRequest
        /\ ReadSoFar(new, n, 0, rest \o wire)
        /\ Parsed = IF e = "none" THEN process_stream_again(new, rest)
                    ELSE [request |-> new, buffer |-> rest, required |-> 0, error |-> e]
    BY <1>1, <1>3, <1>4, <2>2, <2>7, NewRequest DEF Parsed
  <2>9. e = "none" <=> ~Unreadable(Block(n))
    BY <1>1, SentFacts, ErrorIsOwed
  <2>10. rest \in Seq(Known)
    <3>1. 1 \in 0..Len(stream_buffer_)
      BY <1>1, <2>2, LenProperties, EmptySeq
    <3> QED BY <1>1, <3>1, Dropped
  <2>11. new.head = n /\ new.body = <<>>
    BY DEF reset
  <2> HIDE DEF new, rest, e
  <2>12. CASE e = "none"
    <3>1. Parsed = process_stream_again(new, rest)
      BY <2>8, <2>12
    <3>2. /\ Parsed.error = "none"
          /\ Parsed.request.body_bytes_read_ \in Nat
          /\ ReadSoFar(Parsed.request, n, Parsed.request.body_bytes_read_,
                       Parsed.buffer \o wire)
          /\ Parsed.required = 0 =>
                 /\ Parsed.request.body_bytes_read_ = Block(n).content_length
                 /\ sent[n].pieces = Block(n).content_length
      BY <1>1, <2>8, <2>10, <3>1, BodyRead
    <3>3. Parsed.request.head = n
      BY <3>2 DEF ReadSoFar
    <3> QED BY <2>6, <2>9, <2>12, <3>2, <3>3
  <2>13. CASE e # "none"
    <3>1. Parsed = [request |-> new, buffer |-> rest, required |-> 0, error |-> e]
      BY <2>8, <2>13
    <3>2. Parsed.request = new /\ Parsed.error = e
      BY <3>1
    <3> QED BY <2>6, <2>9, <2>11, <2>13, <3>2 DEF e
  <2> QED BY <2>12, <2>13
<1>5. CASE ~processing_new_request_
  <2> DEFINE n == request_.head
             q == request_.body_bytes_read_
  <2>1. /\ n = Answered + 1 /\ ~Unreadable(Block(n))
        /\ q <= sent[n].pieces /\ request_.body = Tail(Units(n, q))
        /\ NextIsPart(stream_buffer_ \o wire, n, q)
    BY <1>1, <1>2, <1>5 DEF ListenInv, Unread
  <2>2. n \in 1..Len(sent) /\ q \in Nat /\ request_ \in ParsedRequest
    <3>1. n \in 0..MaxRequests /\ n # 0 /\ n <= Len(sent)
      BY <1>1, <1>5 DEF TypeOK, IInv, ReaderInv
    <3>2. n \in 1..Len(sent)
      BY <3>1, ConnectionAssumption
    <3> QED BY <1>1, <3>2 DEF TypeOK, ParsedRequest
  <2>3. ReadSoFar(request_, n, q, stream_buffer_ \o wire)
    BY <1>3, <2>1 DEF ReadSoFar
  <2>4. Parsed = process_stream_again(request_, stream_buffer_)
    BY <1>5 DEF Parsed
  <2> HIDE DEF n, q
  <2>5. /\ Parsed.error = "none"
        /\ Parsed.request.body_bytes_read_ \in Nat
        /\ ReadSoFar(Parsed.request, n, Parsed.request.body_bytes_read_,
                     Parsed.buffer \o wire)
        /\ Parsed.required = 0 =>
               /\ Parsed.request.body_bytes_read_ = Block(n).content_length
               /\ sent[n].pieces = Block(n).content_length
    BY <1>1, <2>2, <2>3, <2>4, BodyRead
  <2>6. Parsed.request.head = n
    BY <2>5 DEF ReadSoFar
  <2> QED BY <2>1, <2>2, <2>5, <2>6
<1> QED BY <1>4, <1>5

-----------------------------------------------------------------------------
(* Responses not yet delivered *)

\* The queue without the response whose write is over.
LEMMA WaitingType ==
    ASSUME IInv
    PROVE  /\ Waiting \in Seq(Response) /\ delivered \in Seq(Response)
           /\ Len(Waiting) \in Nat /\ Len(delivered) \in Nat /\ Answered \in Nat
           /\ DOMAIN Waiting = 1..Len(Waiting)
<1>1. responses_queue_ \in Seq(Response) /\ delivered \in Seq(Response)
  BY DEF IInv, TypeOK
<1>2. writes # <<>> => responses_queue_ # <<>>
  BY DEF IInv, WriterInv, FrontIsBeingSent
<1>3. Waiting \in Seq(Response)
  BY <1>1, <1>2, HeadTailProperties DEF Waiting
<1> QED BY <1>1, <1>3, LenProperties DEF Answered

\* A response is queued behind those that wait.
LEMMA QueuedWaiting ==
    ASSUME IInv, NEW resp \in Response, send_response(resp)
    PROVE  Waiting' = Append(Waiting, resp)
<1>1. PICK queue : queue = Append(responses_queue_, resp)
  OBVIOUS
<1>2. /\ responses_queue_ \in Seq(Response)
      /\ responses_queue_' = queue /\ add_response_handler(queue, sending_, writes)
  BY <1>1 DEF send_response, IInv, TypeOK
<1>3. queue # <<>>
  BY <1>1, <1>2, Appended
<1>4. CASE sending_
  <2>1. writes' = writes /\ responses_queue_ # <<>>
    BY <1>2, <1>4 DEF add_response_handler, IInv, WriterInv, FrontIsBeingSent
  <2>2. Tail(queue) = Append(Tail(responses_queue_), resp)
    BY <1>1, <1>2, <2>1, HeadTailAppend
  <2> QED BY <1>1, <1>2, <2>1, <2>2 DEF Waiting
<1>5. CASE ~sending_
  <2> DEFINE w == [resp |-> Head(queue), done |-> "no"]
  <2>1. writes = <<>> /\ writes' = Append(writes, w)
    BY <1>2, <1>3, <1>5 DEF add_response_handler, IInv, WriterInv, FrontIsBeingSent
  <2>2. w.done = "no"
    OBVIOUS
  <2> HIDE DEF w
  <2>3. writes'[1] = w
    BY <2>1
  <2>4. Waiting = responses_queue_
    BY <2>1 DEF Waiting
  <2>5. Waiting' = responses_queue_'
    BY <2>2, <2>3 DEF Waiting
  <2> QED BY <1>1, <1>2, <2>4, <2>5
<1> QED BY <1>4, <1>5

\* Queueing the response owed next keeps the account.
LEMMA QueuedOwed ==
    ASSUME IInv, OwedInv, NEW n \in 1..Len(sent), n = Answered + 1,
           NEW resp \in Response, resp = OwedReply(sent[n], n), send_response(resp),
           Arrived(sent[n]), LastAsked(sent[n]) => reads' = <<>>,
           reads # <<>>, UNCHANGED <<sent, delivered>>
    PROVE  OwedInv' /\ Answered' = n
<1>1. PICK l \in Nat : l = Len(Waiting)
  BY WaitingType
<1>2. PICK d \in Nat : d = Len(delivered)
  BY WaitingType
<1>3. PICK w \in Seq(Response) : w = Waiting
  BY WaitingType
<1>4. Waiting' = Append(w, resp)
  BY <1>3, QueuedWaiting
<1>5. /\ Len(Waiting') = l + 1 /\ DOMAIN Waiting' = 1..l + 1
      /\ \A k \in 1..l : Waiting'[k] = Waiting[k]
      /\ Waiting'[l + 1] = resp
  <2>1. Len(w) = l
    BY <1>1, <1>3
  <2>2. /\ Append(w, resp) \in Seq(Response) /\ Len(Append(w, resp)) = l + 1
        /\ \A k \in 1..l : Append(w, resp)[k] = w[k]
        /\ Append(w, resp)[l + 1] = resp
    BY <2>1, AppendProperties
  <2>3. DOMAIN Append(w, resp) = 1..l + 1
    BY <2>2, LenProperties
  <2> QED BY <1>3, <1>4, <2>2, <2>3
<1>6. Answered = d + l /\ n = d + (l + 1) /\ Len(sent) \in Nat
  BY <1>1, <1>2, SentFacts DEF Answered, IInv
<1>7. Answered' = n
  BY <1>2, <1>5, <1>6 DEF Answered
<1>8. n <= Len(sent)
  BY <1>6
<1>9. ASSUME NEW k \in 1..l + 1
      PROVE  Waiting'[k] = OwedReply(sent[d + k], d + k)
  <2>1. CASE k = l + 1
    BY <1>5, <1>6, <2>1
  <2>2. CASE k # l + 1
    <3>1. k \in 1..l /\ k \in DOMAIN Waiting
      BY <1>1, <2>2, WaitingType
    <3>2. Waiting[k] = OwedReply(sent[d + k], d + k)
      BY <1>2, <3>1 DEF OwedInv
    <3> QED BY <1>5, <3>1, <3>2
  <2> QED BY <2>1, <2>2
<1>10. ASSUME NEW i \in 1..n
       PROVE  Arrived(sent[i]) /\ (LastAsked(sent[i]) => i = n /\ reads' = <<>>)
  <2>1. CASE i = n
    BY <2>1
  <2>2. CASE i # n
    <3>1. i \in 1..Answered
      BY <1>6, <2>2
    <3> QED BY <3>1 DEF OwedInv
  <2> QED BY <2>1, <2>2
<1>11. OwedInv'
  <2>1. UNCHANGED <<sent, delivered>>
    OBVIOUS
  <2>2. DOMAIN Waiting' = 1..l + 1 /\ d = Len(delivered)
    BY <1>2, <1>5
  <2> HIDE DEF Waiting, Answered, OwedReply, Arrived, LastAsked
  <2> QED BY <1>7, <1>8, <1>9, <1>10, <2>1, <2>2 DEF OwedInv
<1> QED BY <1>7, <1>11

-----------------------------------------------------------------------------
(* The reader's steps *)

\* Reading a header next.
LEMMA ListensNew ==
    ASSUME UNCHANGED sent, processing_new_request_' = TRUE,
           Whole(Unread'), NextIsHead(Unread', Answered')
    PROVE  ListenInv'
<1> HIDE DEF Unread, Answered
<1> QED BY DEF ListenInv, Whole, NextIsHead

\* Reading the rest of a body next.
LEMMA ListensOn ==
    ASSUME UNCHANGED sent, processing_new_request_' = FALSE,
           NEW i, NEW q, i = Answered' + 1, ~Unreadable(Block(i)),
           ReadSoFar(request_', i, q, Unread')
    PROVE  ListenInv'
<1> HIDE DEF Unread, Answered
<1> QED BY DEF ListenInv, Whole, NextIsPart, NextIsHead, ReadSoFar, Block, Units

\* More of the body is needed: no answer, and the reader stays in the request.
LEMMA ContinuePipeline ==
    ASSUME IInv, PipelineInv, NEW i \in DOMAIN reads, ReadDone(i), ContinueReading(i, Parsed)
    PROVE  PipelineInv'
<1> SUFFICES ASSUME ~broken' PROVE SentInv' /\ OwedInv' /\ ListenInv'
  BY DEF PipelineInv
<1>1. /\ UNCHANGED <<sent, closed, broken, wire, writes, responses_queue_, delivered>>
      /\ ReadDone(i) /\ Parsed.required > 0
      /\ stream_buffer_' = Parsed.buffer /\ request_' = Parsed.request
      /\ processing_new_request_' = FALSE
  BY DEF ContinueReading, input, output
<1>2. ~broken /\ SentInv /\ OwedInv
  BY <1>1 DEF PipelineInv
<1>3. Parsed.error = "none"
  <2>1. Parsed.error # "none" => Parsed.required = 0
    BY <1>1, ParsedOK DEF IInv
  <2> QED BY <1>1, <2>1
<1>4. PICK n \in 1..Len(sent), q \in Nat :
          /\ n = Answered + 1 /\ ~Unreadable(Block(n))
          /\ ReadSoFar(Parsed.request, n, q, Parsed.buffer \o wire)
  BY <1>1, <1>2, <1>3, ParsedNext
<1>5. Waiting' = Waiting /\ Answered' = Answered /\ Unread' = Parsed.buffer \o wire
  BY <1>1 DEF Waiting, Answered, Unread
<1>6. SentInv'
  BY <1>1, <1>2 DEF SentInv
<1>7. OwedInv'
  <2>1. \A k \in 1..Answered : ~LastAsked(sent[k])
    BY <1>2 DEF OwedInv
  <2> HIDE DEF Waiting, Answered
  <2> QED BY <1>1, <1>2, <1>5, <2>1 DEF OwedInv
<1>8. ListenInv'
  <2>1. n = Answered' + 1 /\ ReadSoFar(request_', n, q, Unread')
    BY <1>1, <1>4, <1>5
  <2> QED BY <1>1, <1>4, <2>1, ListensOn
<1> QED BY <1>6, <1>7, <1>8

\* A response is owed for every request the reader has come to.
LEMMA OwedNext ==
    ASSUME IInv, PipelineInv, ~broken, NEW i \in DOMAIN reads, ReadDone(i),
           NEW n \in 1..Len(sent), n = Answered + 1,
           NEW resp \in Response, resp = OwedReply(sent[n], n), send_response(resp),
           Arrived(sent[n]), LastAsked(sent[n]) => reads' = <<>>,
           UNCHANGED <<sent, closed, broken, wire, delivered>>,
           reads' # <<>> => /\ processing_new_request_' = TRUE
                            /\ Whole(Unread') /\ NextIsHead(Unread', n)
    PROVE  PipelineInv'
<1>1. reads # <<>> /\ SentInv /\ OwedInv
  BY DEF PipelineInv
<1>2. SentInv'
  BY <1>1 DEF SentInv
<1>3. OwedInv' /\ Answered' = n
  BY <1>1, QueuedOwed
<1>4. ListenInv'
  <2>1. CASE reads' = <<>>
    BY <2>1 DEF ListenInv
  <2>2. CASE reads' # <<>>
    BY <1>3, <2>2, ListensNew
  <2> QED BY <2>1, <2>2
<1> QED BY <1>2, <1>3, <1>4 DEF PipelineInv

\* Reading throws: the request is unreadable, and nothing is read behind it.
LEMMA RejectPipeline ==
    ASSUME IInv, PipelineInv, NEW i \in DOMAIN reads, ReadDone(i), RejectRequest(i, Parsed)
    PROVE  PipelineInv'
<1> SUFFICES ASSUME ~broken' PROVE PipelineInv'
  BY DEF PipelineInv
<1> DEFINE resp == [req |-> Parsed.request.head,
                    status |-> error_status(Parsed.error),
                    body |-> Parsed.request.body]
<1>1. /\ UNCHANGED <<sent, closed, broken, wire, delivered>>
      /\ ReadDone(i) /\ Parsed.error # "none" /\ send_response(resp)
      /\ reads' = RemoveAt(reads, i)
  BY DEF RejectRequest, handle_error, input
<1>2. ~broken
  BY <1>1
<1>3. PICK n \in 1..Len(sent) :
          /\ n = Answered + 1 /\ Parsed.request.head = n
          /\ Unreadable(Block(n)) /\ Parsed.request.body = <<>>
          /\ Parsed.error = stream_error(Block(n), 1)
  BY <1>1, <1>2, ParsedNext
<1>4. resp \in Response
  <2>1. Parsed.error \in Exceptions
    BY <1>1, ParsedOK DEF IInv
  <2>2. Parsed.request \in ParsedRequest /\ error_status(Parsed.error) \in Statuses
    BY <1>1, <2>1, StatusOfError, ParsedOK DEF IInv
  <2> QED BY <2>2, ResponseType DEF IInv
<1>5. Block(n) \in BlockType
  BY SentFacts DEF IInv
<1>6. error_status(Parsed.error) = Owed(Block(n)) /\ Owed(Block(n)) # "response"
  BY <1>3, <1>5, ErrorIsOwed
<1>7. resp = OwedReply(sent[n], n)
  BY <1>3, <1>6 DEF OwedReply, Block
<1>8. Arrived(sent[n])
  BY <1>3 DEF Arrived, Block
<1>9. reads' = <<>>
  BY <1>1, ReadsAfter, UntilSeparator \in Read DEF UntilSeparator, Read
<1> HIDE DEF resp
<1> QED BY <1>1, <1>2, <1>3, <1>4, <1>7, <1>8, <1>9, OwedNext

\* A request read whole is answered, by its host or by the refusal of it.
LEMMA CompletePipeline ==
    ASSUME IInv, PipelineInv, ~broken, NEW i \in DOMAIN reads, ReadDone(i),
           Parsed.error = "none", Parsed.required = 0,
           NEW b, b = Block(Parsed.request.head), NEW status \in Statuses,
           status = IF host_error(b) = "none" THEN "response"
                                              ELSE error_status(host_error(b)),
           send_response([req |-> Parsed.request.head, status |-> status,
                          body |-> Parsed.request.body]),
           processing_new_request_' = TRUE, stream_buffer_' = Parsed.buffer,
           UNCHANGED <<sent, closed, broken, wire, delivered>>,
           host_error(b) # "none" \/ ~b.keep_alive => reads' = <<>>
    PROVE  PipelineInv'
<1>1. PICK n \in 1..Len(sent), q \in Nat :
          /\ n = Answered + 1 /\ Parsed.request.head = n
          /\ ~Unreadable(Block(n))
          /\ ReadSoFar(Parsed.request, n, q, Parsed.buffer \o wire)
          /\ q = Block(n).content_length
          /\ sent[n].pieces = Block(n).content_length
  BY ParsedNext
<1>2. PICK resp : resp = [req |-> Parsed.request.head, status |-> status,
                          body |-> Parsed.request.body]
  OBVIOUS
<1>3. resp \in Response /\ send_response(resp)
  <2>1. Parsed.request \in ParsedRequest
    BY ParsedOK DEF IInv
  <2> QED BY <1>2, <2>1, ResponseType DEF IInv
<1>4. b = Block(n) /\ Block(n) \in BlockType
  BY <1>1, SentFacts DEF IInv
<1>5. Owed(b) = status /\ (Owed(b) = "response" <=> host_error(b) = "none")
  <2>1. IF host_error(b) = "none" THEN Owed(b) = "response"
        ELSE error_status(host_error(b)) = Owed(b) /\ Owed(b) # "response"
    BY <1>1, <1>4, RefusalIsOwed
  <2> QED BY <2>1
<1>6. Parsed.request.body = Tail(Units(n, Block(n).content_length))
  BY <1>1, Zenon DEF ReadSoFar
<1>7. resp = OwedReply(sent[n], n)
  <2>1. sent[n].block = b
    BY <1>4 DEF Block
  <2>2. OwedReply(sent[n], n) = [req |-> n, status |-> status,
                                 body |-> Parsed.request.body]
    BY <1>1, <1>4, <1>5, <1>6, <2>1, Zenon DEF OwedReply
  <2> QED BY <1>1, <1>2, <2>2, Zenon
<1>8. Arrived(sent[n])
  BY <1>1 DEF Arrived, Block
<1>9. LastAsked(sent[n]) => reads' = <<>>
  BY <1>4, <1>5 DEF LastAsked, Block
<1>10. Whole(Unread') /\ NextIsHead(Unread', n)
  <2>1. Unread' = Parsed.buffer \o wire
    BY DEF Unread
  <2>2. Whole(Unread') /\ NextIsPart(Unread', n, q)
    BY <1>1, <2>1 DEF ReadSoFar
  <2> QED BY <1>1, <2>2, SentFacts DEF NextIsPart, IInv
<1> QED BY <1>1, <1>3, <1>7, <1>8, <1>9, <1>10, OwedNext

\* The host answers.
LEMMA AnswerPipeline ==
    ASSUME IInv, PipelineInv, NEW i \in DOMAIN reads, ReadDone(i), AnswerRequest(i, Parsed)
    PROVE  PipelineInv'
<1> SUFFICES ASSUME ~broken' PROVE PipelineInv'
  BY DEF PipelineInv
<1>1. PICK b : b = Block(Parsed.request.head)
  OBVIOUS
<1>2. /\ UNCHANGED <<sent, closed, broken, wire, delivered>>
      /\ ReadDone(i) /\ Parsed.error = "none" /\ Parsed.required = 0
      /\ host_error(b) = "none"
      /\ processing_new_request_' = TRUE /\ stream_buffer_' = Parsed.buffer
      /\ send_response([req |-> Parsed.request.head, status |-> "response",
                        body |-> Parsed.request.body])
      /\ ~b.keep_alive => reads' = RemoveAt(reads, i)
  BY <1>1 DEF AnswerRequest, input
<1>3. RemoveAt(reads, i) = <<>>
  BY ReadsAfter, UntilSeparator \in Read DEF UntilSeparator, Read
<1>4. "response" \in Statuses
  BY DEF Statuses
<1>5. PICK status \in Statuses : status = "response"
  BY <1>4
<1> QED BY <1>1, <1>2, <1>3, <1>5, CompletePipeline

\* The port check or the host throws.
LEMMA RefusePipeline ==
    ASSUME IInv, PipelineInv, NEW i \in DOMAIN reads, ReadDone(i), RefuseRequest(i, Parsed)
    PROVE  PipelineInv'
<1> SUFFICES ASSUME ~broken' PROVE PipelineInv'
  BY DEF PipelineInv
<1>1. PICK b : b = Block(Parsed.request.head)
  OBVIOUS
<1>2. PICK status \in Statuses : status = error_status(host_error(b))
  BY <1>1, RefusedByHost, StatusOfError
<1>3. /\ UNCHANGED <<sent, closed, broken, wire, delivered>>
      /\ ReadDone(i) /\ Parsed.error = "none" /\ Parsed.required = 0
      /\ host_error(b) # "none"
      /\ processing_new_request_' = TRUE /\ stream_buffer_' = Parsed.buffer
      /\ send_response([req |-> Parsed.request.head, status |-> status,
                        body |-> Parsed.request.body])
      /\ reads' = RemoveAt(reads, i)
  BY <1>1, <1>2 DEF RefuseRequest, handle_error, input
<1>4. RemoveAt(reads, i) = <<>>
  BY ReadsAfter, UntilSeparator \in Read DEF UntilSeparator, Read
<1> QED BY <1>1, <1>2, <1>3, <1>4, CompletePipeline

\* The client is gone: the session listens no more.
LEMMA ReadFailsPipeline ==
    ASSUME IInv, PipelineInv, NEW i \in DOMAIN reads, ReadFails(i)
    PROVE  PipelineInv'
<1>1. UNCHANGED <<sent, closed, broken, writes, responses_queue_, delivered>>
  BY DEF ReadFails, input, output
<1>2. reads' = <<>>
  BY ReadsAfter, UntilSeparator \in Read DEF ReadFails, UntilSeparator, Read
<1>3. Waiting' = Waiting /\ Answered' = Answered
  BY <1>1 DEF Waiting, Answered
<1> HIDE DEF Waiting, Answered
<1> QED BY <1>1, <1>2, <1>3 DEF PipelineInv, SentInv, OwedInv, ListenInv

\* Bytes change places, from the kernel's buffer to the session's.
LEMMA ReceivePipeline ==
    ASSUME IInv, PipelineInv, NEW i \in DOMAIN reads, NEW k \in 1..Len(wire), Receive(i, k)
    PROVE  PipelineInv'
<1> SUFFICES ASSUME ~broken' PROVE SentInv' /\ OwedInv' /\ ListenInv'
  BY DEF PipelineInv
<1>1. /\ UNCHANGED <<sent, closed, broken, request_, processing_new_request_,
                     writes, responses_queue_, delivered>>
      /\ stream_buffer_' = stream_buffer_ \o SubSeq(wire, 1, k)
      /\ wire' = SubSeq(wire, k + 1, Len(wire))
  BY DEF Receive, output
<1>2. ~broken /\ SentInv /\ OwedInv /\ ListenInv
  BY <1>1 DEF PipelineInv
<1>3. Unread' = Unread
  <2>1. PICK w \in Seq(Known) : w = wire
    BY DEF IInv, ReaderInv
  <2>2. PICK b \in Seq(Known) : b = stream_buffer_
    BY DEF IInv, ReaderInv
  <2>3. k \in 0..Len(w) /\ 1 \in 1..Len(w) + 1 /\ k \in 1 - 1..Len(w)
        /\ Len(w) \in k..Len(w)
    BY <2>1, LenProperties
  <2>4. PICK t \in Seq(Known) : t = SubSeq(w, 1, k)
    BY <2>3, Taken
  <2>5. PICK d \in Seq(Known) : d = SubSeq(w, k + 1, Len(w))
    BY <2>3, Dropped DEF Drop
  <2>6. t \o d = w
    BY <2>3, <2>4, <2>5, ConcatAdjacentSubSeq, SubSeqFull
  <2>7. (b \o t) \o d = b \o (t \o d)
    BY ConcatAssociative
  <2>8. Unread' = (b \o t) \o d /\ Unread = b \o w
    BY <1>1, <2>1, <2>2, <2>4, <2>5 DEF Unread
  <2> QED BY <2>6, <2>7, <2>8
<1>4. Waiting' = Waiting /\ Answered' = Answered
  BY <1>1 DEF Waiting, Answered
<1>5. reads # <<>>
  OBVIOUS
<1>6. SentInv' /\ OwedInv'
  <2>1. \A j \in 1..Answered : ~LastAsked(sent[j])
    BY <1>2, <1>5 DEF OwedInv
  <2> HIDE DEF Waiting, Answered
  <2> QED BY <1>1, <1>2, <1>4, <2>1 DEF SentInv, OwedInv
<1>7. ListenInv'
  <2> HIDE DEF Unread, Waiting, Answered
  <2>1. CASE processing_new_request_
    <3>1. Whole(Unread') /\ NextIsHead(Unread', Answered')
      BY <1>2, <1>3, <1>4, <1>5, <2>1 DEF ListenInv
    <3> QED BY <1>1, <2>1, <3>1, ListensNew DEF IInv, TypeOK
  <2>2. CASE ~processing_new_request_
    <3>1. PICK n, q :
              /\ n = Answered + 1 /\ ~Unreadable(Block(n))
              /\ n = request_.head /\ q = request_.body_bytes_read_
              /\ q <= sent[n].pieces /\ request_.body = Tail(Units(n, q))
              /\ Whole(Unread) /\ NextIsPart(Unread, n, q)
      BY <1>2, <1>5, <2>2 DEF ListenInv
    <3>2. n = Answered' + 1 /\ ReadSoFar(request_', n, q, Unread')
      BY <1>1, <1>3, <1>4, <3>1, Zenon DEF ReadSoFar
    <3>3. processing_new_request_' = FALSE
      BY <1>1, <2>2 DEF IInv, TypeOK
    <3> QED BY <1>1, <3>1, <3>2, <3>3, ListensOn
  <2> QED BY <2>1, <2>2
<1> QED BY <1>6, <1>7

-----------------------------------------------------------------------------
(* The writer's steps *)

\* A step that moves responses on, each in its place, keeps the account.
LEMMA Moved ==
    ASSUME PipelineInv, NEW d \in Nat, d = Len(delivered'), Answered' = Answered,
           \A k \in DOMAIN Waiting' : Waiting'[k] = OwedReply(sent[d + k], d + k),
           UNCHANGED <<sent, closed, broken, reads, wire, stream_buffer_, request_,
                       processing_new_request_>>
    PROVE  PipelineInv'
<1>1. Unread' = Unread
  BY DEF Unread
<1> HIDE DEF Waiting, Answered, Unread, OwedReply, Arrived, LastAsked
<1>2. SentInv => SentInv'
  BY DEF SentInv
<1>3. OwedInv => OwedInv'
  BY DEF OwedInv
<1>4. ListenInv => ListenInv'
  BY <1>1 DEF ListenInv, Whole, NextIsHead, NextIsPart, Block
<1> QED BY <1>2, <1>3, <1>4 DEF PipelineInv

\* The response that reaches the socket is the one owed next.
LEMMA KernelWritePipeline ==
    ASSUME IInv, PipelineInv, NEW i \in DOMAIN writes, KernelWrite(i)
    PROVE  PipelineInv' /\ (P!Answer \/ UNCHANGED <<sent, delivered, broken>>)
<1>1. /\ i = 1 /\ Len(writes) = 1 /\ writes \in Seq(Write) /\ writes[1] \in Write
      /\ responses_queue_ # <<>> /\ writes[1].resp = Head(responses_queue_)
  BY OnlyWrite
<1>2. /\ UNCHANGED <<sent, closed, broken, reads, wire, stream_buffer_, request_,
                     processing_new_request_, responses_queue_>>
      /\ writes[1].done = "no"
      /\ writes' = [writes EXCEPT ![1].done = IF broken THEN "error" ELSE "ok"]
      /\ delivered' = IF broken THEN delivered ELSE Append(delivered, writes[1].resp)
  BY <1>1 DEF KernelWrite, input
<1>3. CASE broken
  BY <1>2, <1>3 DEF PipelineInv
<1>4. CASE ~broken
  <2>1. OwedInv
    BY <1>4 DEF PipelineInv
  <2>2. PICK queue \in Seq(Response) : queue = responses_queue_
    BY DEF IInv, TypeOK
  <2>3. PICK d \in Nat : d = Len(delivered)
    BY WaitingType
  <2>4. PICK l \in Nat : l = Len(queue)
    BY LenProperties
  <2>5. Waiting = queue /\ DOMAIN queue = 1..l /\ l # 0
    BY <1>1, <1>2, <2>2, <2>4, LenProperties, EmptySeq DEF Waiting
  <2>6. PICK resp \in Response : resp = writes[1].resp
    BY <1>1 DEF Write
  <2>7. delivered' = Append(delivered, resp) /\ Len(delivered') = d + 1
    <3>1. delivered \in Seq(Response)
      BY DEF IInv, TypeOK
    <3>2. Len(Append(delivered, resp)) = d + 1
      BY <2>3, <3>1, AppendProperties
    <3> QED BY <1>2, <1>4, <2>6, <3>2
  <2>8. Waiting' = Tail(queue)
    <3>1. writes'[1].done = "ok"
      <4>1. 1 \in DOMAIN writes
        BY <1>1, LenProperties
      <4> QED BY <1>1, <1>2, <1>4, <4>1 DEF Write
    <3>2. writes' # <<>>
      <4>1. 1 \in DOMAIN writes
        BY <1>1, LenProperties
      <4>2. DOMAIN writes' = DOMAIN writes
        BY <1>2
      <4>3. DOMAIN <<>> = {}
        OBVIOUS
      <4> QED BY <4>1, <4>2, <4>3
    <3> QED BY <1>2, <2>2, <3>1, <3>2 DEF Waiting
  <2>9. /\ Tail(queue) \in Seq(Response) /\ Len(Tail(queue)) = l - 1
        /\ DOMAIN Tail(queue) = 1..l - 1
        /\ \A k \in 1..l - 1 : Tail(queue)[k] = queue[k + 1]
    <3>1. queue # <<>>
      BY <1>1, <2>2
    <3>2. /\ Tail(queue) \in Seq(Response) /\ Len(Tail(queue)) = l - 1
          /\ \A k \in 1..Len(Tail(queue)) : Tail(queue)[k] = queue[k + 1]
      BY <2>4, <3>1, HeadTailProperties
    <3> QED BY <3>2, LenProperties
  <2>10. Answered = d + l /\ Answered' = d + l
    BY <2>3, <2>4, <2>5, <2>7, <2>8, <2>9 DEF Answered
  <2>11. \A k \in 1..l : queue[k] = OwedReply(sent[d + k], d + k)
    BY <2>1, <2>3, <2>5 DEF OwedInv
  <2>12. PICK d1 \in Nat : d1 = d + 1
    OBVIOUS
  <2>13. PipelineInv'
    <3>1. ASSUME NEW k \in DOMAIN Waiting'
          PROVE  Waiting'[k] = OwedReply(sent[d1 + k], d1 + k)
      <4>1. k \in 1..l - 1 /\ k + 1 \in 1..l /\ d + (k + 1) = d1 + k
        BY <2>8, <2>9, <2>12
      <4>2. Waiting'[k] = queue[k + 1]
        BY <2>8, <2>9, <4>1
      <4>3. queue[k + 1] = OwedReply(sent[d + (k + 1)], d + (k + 1))
        BY <2>11, <4>1
      <4> QED BY <4>1, <4>2, <4>3
    <3>2. d1 = Len(delivered') /\ Answered' = Answered
      BY <2>7, <2>10, <2>12
    <3> QED BY <1>2, <3>1, <3>2, Moved
  <2>14. P!Answer
    <3>1. resp = OwedReply(sent[d1], d1)
      <4>1. 1 \in 1..l
        BY <2>5
      <4>2. queue[1] = OwedReply(sent[d1], d1)
        BY <2>11, <2>12, <4>1
      <4>3. Head(queue) = queue[1]
        BY <1>1, <2>2
      <4> QED BY <1>1, <2>2, <2>6, <4>2, <4>3
    <3>2. d1 \in 1..Answered /\ d1 <= Len(sent)
      <4>1. Answered <= Len(sent) /\ Len(sent) \in Nat
        BY <2>1, SentFacts DEF OwedInv, IInv
      <4> QED BY <2>5, <2>10, <2>12, <4>1
    <3>3. Arrived(sent[d1])
      BY <2>1, <3>2 DEF OwedInv
    <3>4. ASSUME NEW j \in 1..d1 - 1 PROVE ~LastAsked(sent[j])
      <4>1. j \in 1..Answered /\ j # Answered
        BY <2>10, <2>12, <3>2
      <4> QED BY <2>1, <4>1 DEF OwedInv
    <3>5. Len(delivered) + 1 = d1
      BY <2>3, <2>12
    <3> HIDE DEF OwedReply, Arrived, LastAsked
    <3> QED BY <1>2, <1>4, <2>7, <3>1, <3>2, <3>3, <3>4, <3>5 DEF P!Answer
  <2> QED BY <2>13, <2>14
<1> QED BY <1>3, <1>4

\* The handler pops what was delivered; the rest waits as before.
LEMMA ResponsePipeline ==
    ASSUME IInv, PipelineInv, NEW i \in DOMAIN writes, response_handler(i)
    PROVE  PipelineInv'
<1> DEFINE queue == Tail(responses_queue_)
<1>1. /\ i = 1 /\ Len(writes) = 1 /\ writes \in Seq(Write) /\ writes[1] \in Write
      /\ responses_queue_ # <<>>
  BY OnlyWrite
<1>2. RemoveAt(writes, i) = <<>> /\ writes # <<>> /\ 1 \in DOMAIN writes
  BY <1>1, RemovedOnly, LenProperties
<1>3. /\ UNCHANGED <<sent, closed, broken, reads, wire, stream_buffer_, request_,
                     processing_new_request_, delivered>>
      /\ responses_queue_' = queue /\ writes[1].done # "no"
      /\ IF writes[1].done = "ok" THEN add_response_handler(queue, FALSE, <<>>)
                                  ELSE sending_' = FALSE /\ writes' = <<>>
  BY <1>1, <1>2 DEF response_handler, input
<1>4. CASE broken
  BY <1>3, <1>4 DEF PipelineInv
<1>5. CASE ~broken
  <2>1. writes[1].done = "ok"
    BY <1>1, <1>2, <1>3, <1>5 DEF IInv, WriterInv, WriteFailsOnlyBroken, Write
  <2>2. Waiting = queue
    BY <1>2, <2>1 DEF Waiting
  <2> HIDE DEF queue
  <2> DEFINE w == [resp |-> Head(queue), done |-> "no"]
  <2>3. writes' = <<>> \/ writes' = Append(<<>>, w)
    BY <1>3, <2>1 DEF add_response_handler
  <2>4. w.done # "ok"
    OBVIOUS
  <2> HIDE DEF w
  <2>5. writes' = <<>> \/ writes'[1] = w
    BY <2>3
  <2>6. Waiting' = queue
    BY <1>3, <2>4, <2>5 DEF Waiting
  <2>7. PICK d \in Nat : d = Len(delivered')
    BY <1>3, WaitingType
  <2>8. \A k \in DOMAIN Waiting' : Waiting'[k] = OwedReply(sent[d + k], d + k)
    BY <1>3, <1>5, <2>2, <2>6, <2>7 DEF PipelineInv, OwedInv
  <2>9. Answered' = Answered
    BY <1>3, <2>2, <2>6 DEF Answered
  <2> QED BY <1>3, <2>7, <2>8, <2>9, Moved
<1> QED BY <1>4, <1>5

-----------------------------------------------------------------------------
(* The client's steps *)

\* t is s with request i and its n pieces behind it.
Lengthened(t, s, i, n) ==
    /\ Len(t) = Len(s) + (n + 1) /\ DOMAIN t = 1..Len(s) + (n + 1)
    /\ t # <<>>
    /\ \A j \in 1..Len(s) : t[j] = s[j]
    /\ \A k \in 0..n : t[Len(s) + 1 + k] = [req |-> i, part |-> k]

\* What a request adds to the stream.
LEMMA Written ==
    ASSUME TypeOK, NEW s \in Seq(Known), NEW n \in Nat, NEW i \in Nat,
           NEW t, t = s \o Units(i, n)
    PROVE  Lengthened(t, s, i, n)
<1> DEFINE U == [req : Nat, part : Nat]
<1>1. s \in Seq(U) /\ Len(s) \in Nat
  <2>1. Known \subseteq U
    BY SentFacts DEF Known
  <2> QED BY <2>1, SeqMonotonic, LenProperties
<1>2. Units(i, n) \in Seq(U)
  <2>1. Bodies(i) \subseteq U
    BY DEF Bodies
  <2>2. Units(i, n) \in Seq(Bodies(i))
    BY UnitsOf
  <2> HIDE DEF U
  <2> QED BY <2>1, <2>2, SeqMonotonic
<1> HIDE DEF U
<1>3. PICK u \in Seq(U) : u = Units(i, n)
  BY <1>2
<1>4. Len(u) = n + 1 /\ \A k \in 1..n + 1 : u[k] = [req |-> i, part |-> k - 1]
  BY <1>3, UnitsOf
<1>5. /\ s \o u \in Seq(U) /\ Len(s \o u) = Len(s) + Len(u)
      /\ \A j \in 1..Len(s) + Len(u) :
             (s \o u)[j] = IF j <= Len(s) THEN s[j] ELSE u[j - Len(s)]
  BY <1>1, ConcatProperties
<1>6. PICK l \in Nat : l = Len(s)
  BY <1>1
<1>7. /\ t \in Seq(U) /\ Len(t) = l + (n + 1)
      /\ \A j \in 1..l + (n + 1) : t[j] = IF j <= l THEN s[j] ELSE u[j - l]
  BY <1>3, <1>4, <1>5, <1>6
<1>8. DOMAIN t = 1..l + (n + 1)
  BY <1>7, LenProperties
<1>9. t # <<>>
  BY <1>7, EmptySeq
<1>10. \A j \in 1..l : t[j] = s[j]
  <2> TAKE j \in 1..l
  <2>1. j \in 1..l + (n + 1) /\ j <= l
    OBVIOUS
  <2> QED BY <1>7, <2>1
<1>11. ASSUME NEW k \in 0..n PROVE t[l + 1 + k] = [req |-> i, part |-> k]
  <2>1. /\ l + 1 + k \in 1..l + (n + 1) /\ ~ (l + 1 + k <= l)
        /\ (l + 1 + k) - l = k + 1 /\ k + 1 \in 1..n + 1 /\ (k + 1) - 1 = k
    OBVIOUS
  <2>2. t[l + 1 + k] = u[(l + 1 + k) - l]
    BY <1>7, <2>1
  <2>3. u[k + 1] = [req |-> i, part |-> (k + 1) - 1]
    BY <1>4, <2>1
  <2> QED BY <2>1, <2>2, <2>3
<1> QED BY <1>6, <1>7, <1>8, <1>9, <1>10, <1>11 DEF Lengthened

\* Another request comes whole behind those that are there.
LEMMA WholeWritten ==
    ASSUME TypeOK, NEW s \in Seq(Known), Whole(s), NEW n \in Nat, NEW t,
           t = s \o Units(Len(sent) + 1, n),
           Len(sent') = Len(sent) + 1,
           \A i \in 1..Len(sent) : sent'[i] = sent[i],
           sent'[Len(sent) + 1].pieces = n
    PROVE  Whole(t)'
<1>1. PICK m \in Nat : m = Len(sent)
  BY SentFacts
<1>2. PICK l \in Nat : l = Len(s)
  BY LenProperties
<1>3. PICK m1 \in Nat : m1 = m + 1
  OBVIOUS
<1>4. /\ Len(t) = l + (n + 1) /\ DOMAIN t = 1..l + (n + 1)
      /\ \A j \in 1..l : t[j] = s[j]
      /\ \A k \in 0..n : t[l + 1 + k] = [req |-> m1, part |-> k]
  <2>1. /\ Len(t) = Len(s) + (n + 1) /\ DOMAIN t = 1..Len(s) + (n + 1)
        /\ \A j \in 1..Len(s) : t[j] = s[j]
        /\ \A k \in 0..n : t[Len(s) + 1 + k] = [req |-> m1, part |-> k]
    <3>1. t = s \o Units(m1, n)
      BY <1>1, <1>3
    <3>2. Lengthened(t, s, m1, n)
      BY <3>1, Written
    <3> QED BY ONLY <3>2 DEF Lengthened
  <2> QED BY <1>2, <2>1
<1>5. Len(sent') = m1 /\ sent'[m1].pieces = n /\ \A i \in 1..m : sent'[i] = sent[i]
  BY <1>1, <1>3
<1>6. PICK f : f = sent'
  OBVIOUS
<1>7. ASSUME NEW j \in DOMAIN t
      PROVE  LET i == t[j].req
                 q == t[j].part
             IN  /\ i \in 1..Len(f) /\ q <= f[i].pieces
                 /\ \A k \in 0..f[i].pieces - q :
                        j + k \in DOMAIN t /\ t[j + k] = [req |-> i, part |-> q + k]
                 /\ q = f[i].pieces =>
                        IF j = Len(t) THEN i = Len(f)
                                      ELSE t[j + 1] = [req |-> i + 1, part |-> 0]
  <2>1. PICK i : i = t[j].req
    OBVIOUS
  <2>2. PICK q : q = t[j].part
    OBVIOUS
  <2>3. j \in 1..l + (n + 1)
    BY <1>4
  <2>4. SUFFICES
            /\ i \in 1..m1 /\ q <= sent'[i].pieces
            /\ \A k \in 0..sent'[i].pieces - q :
                   j + k \in 1..l + (n + 1) /\ t[j + k] = [req |-> i, part |-> q + k]
            /\ q = sent'[i].pieces =>
                   IF j = l + (n + 1) THEN i = m1
                                      ELSE t[j + 1] = [req |-> i + 1, part |-> 0]
    BY <1>4, <1>5, <1>6, <2>1, <2>2
  <2>5. CASE j \in 1..l
    <3>1. j \in 1..Len(s) /\ i = s[j].req /\ q = s[j].part
      BY <1>2, <1>4, <2>1, <2>2, <2>5
    <3>2. /\ i \in 1..Len(sent) /\ q <= sent[i].pieces
          /\ q \in Nat /\ sent[i].pieces \in Nat
          /\ \A k \in 0..sent[i].pieces - q :
                 j + k \in 1..Len(s) /\ s[j + k] = [req |-> i, part |-> q + k]
          /\ q = sent[i].pieces =>
                 IF j = Len(s) THEN i = Len(sent)
                               ELSE s[j + 1] = [req |-> i + 1, part |-> 0]
      <4>1. PICK g \in 1..Len(s) : g = j
        BY <3>1
      <4>2. i = s[g].req /\ q = s[g].part
        BY <3>1, <4>1
      <4>3. /\ i \in 1..Len(sent) /\ q <= sent[i].pieces
            /\ q \in Nat /\ sent[i].pieces \in Nat
            /\ \A k \in 0..sent[i].pieces - q :
                   g + k \in 1..Len(s) /\ s[g + k] = [req |-> i, part |-> q + k]
            /\ q = sent[i].pieces =>
                   IF g = Len(s) THEN i = Len(sent)
                                 ELSE s[g + 1] = [req |-> i + 1, part |-> 0]
        BY ONLY TypeOK, s \in Seq(Known), Whole(s), g \in 1..Len(s), <4>2, WholeAt
      <4> QED BY <4>1, <4>3
    <3>3. i \in 1..m /\ i \in 1..m1 /\ sent'[i] = sent[i]
      BY <1>1, <1>3, <1>5, <3>2
    <3>4. ASSUME NEW k \in 0..sent[i].pieces - q
          PROVE  j + k \in 1..l + (n + 1) /\ t[j + k] = [req |-> i, part |-> q + k]
      <4>1. j + k \in 1..l /\ s[j + k] = [req |-> i, part |-> q + k]
        BY <1>2, <3>2
      <4>2. j + k \in 1..l + (n + 1)
        BY <4>1
      <4>3. t[j + k] = s[j + k]
        BY <1>4, <4>1
      <4> QED BY <4>1, <4>2, <4>3
    <3>5. ASSUME q = sent[i].pieces
          PROVE  j # l + (n + 1) /\ t[j + 1] = [req |-> i + 1, part |-> 0]
      <4>1. CASE j = l
        <5>1. i = m
          BY <1>1, <1>2, <3>2, <3>5, <4>1
        <5>2. 0 \in 0..n /\ l + 1 + 0 = l + 1
          OBVIOUS
        <5>3. t[l + 1 + 0] = [req |-> m1, part |-> 0]
          BY <1>4, <5>2
        <5>4. j + 1 = l + 1 + 0 /\ i + 1 = m1 /\ j # l + (n + 1)
          BY <1>3, <4>1, <5>1
        <5> QED BY <5>3, <5>4
      <4>2. CASE j # l
        <5>1. s[j + 1] = [req |-> i + 1, part |-> 0]
          BY <1>2, <3>2, <3>5, <4>2
        <5>2. j + 1 \in 1..l
          BY <2>5, <4>2
        <5>3. t[j + 1] = s[j + 1]
          BY <1>4, <5>2
        <5>4. j # l + (n + 1)
          BY <2>5
        <5> QED BY <5>1, <5>3, <5>4
      <4> QED BY <4>1, <4>2
    <3> QED BY <3>2, <3>3, <3>4, <3>5
  <2>6. CASE j \notin 1..l
    <3>1. PICK p \in 0..n : j = l + 1 + p
      <4>1. j - (l + 1) \in 0..n /\ j = l + 1 + (j - (l + 1))
        BY <2>3, <2>6
      <4> QED BY <4>1
    <3>2. t[j] = [req |-> m1, part |-> p]
      BY <1>4, <3>1
    <3>3. i = m1 /\ q = p
      <4>1. i = t[j].req /\ q = t[j].part
        BY <2>1, <2>2
      <4> QED BY <3>2, <4>1
    <3>4. i \in 1..m1
      BY <1>3, <3>3
    <3>5. sent'[i].pieces = n
      BY <1>5, <3>3
    <3>6. ASSUME NEW k \in 0..n - q
          PROVE  j + k \in 1..l + (n + 1) /\ t[j + k] = [req |-> i, part |-> q + k]
      <4>0. k \in 0..n - p
        BY <3>3
      <4>1. p + k \in 0..n /\ j + k = l + 1 + (p + k) /\ j + k \in 1..l + (n + 1)
        BY ONLY l \in Nat, n \in Nat, p \in 0..n, <3>1, <4>0
      <4>2. t[l + 1 + (p + k)] = [req |-> m1, part |-> p + k]
        BY <1>4, <4>1
      <4>3. t[j + k] = t[l + 1 + (p + k)]
        BY <4>1
      <4> QED BY <3>3, <4>1, <4>2, <4>3
    <3>7. q = n => j = l + (n + 1)
      BY <3>1, <3>3
    <3>8. q <= n
      BY <3>1, <3>3
    <3> QED BY <3>3, <3>4, <3>5, <3>6, <3>7, <3>8
  <2> QED BY <2>5, <2>6
<1> QED BY <1>6, <1>7, ZenonT(120) DEF Whole

\* A client that stands before a request goes on standing there.
LEMMA HeadWritten ==
    ASSUME TypeOK, NEW s \in Seq(Known), NEW n \in Nat, NEW t,
           t = s \o Units(Len(sent) + 1, n), Len(sent') = Len(sent) + 1,
           NEW a \in 0..Len(sent), NextIsHead(s, a)
    PROVE  NextIsHead(t, a)'
<1>1. PICK m \in Nat : m = Len(sent)
  BY SentFacts
<1>2. PICK l \in Nat : l = Len(s)
  BY LenProperties
<1>3. /\ t # <<>> /\ \A j \in 1..l : t[j] = s[j]
      /\ \A k \in 0..n : t[l + 1 + k] = [req |-> m + 1, part |-> k]
  <2>1. /\ t # <<>> /\ \A j \in 1..Len(s) : t[j] = s[j]
        /\ \A k \in 0..n : t[Len(s) + 1 + k] = [req |-> m + 1, part |-> k]
    <3>1. PICK m1 \in Nat : m1 = m + 1
      OBVIOUS
    <3>2. t = s \o Units(m1, n)
      BY <1>1, <3>1
    <3>3. /\ t # <<>> /\ \A j \in 1..Len(s) : t[j] = s[j]
          /\ \A k \in 0..n : t[Len(s) + 1 + k] = [req |-> m1, part |-> k]
      <4>1. Lengthened(t, s, m1, n)
        BY <3>2, Written
      <4> QED BY ONLY <4>1 DEF Lengthened
    <3> QED BY <3>1, <3>3
  <2> QED BY <1>2, <2>1
<1>4. a # Len(sent')
  BY <1>1
<1>5. t[1] = [req |-> a + 1, part |-> 0]
  <2>1. CASE a = m
    <3>1. l = 0
      BY <1>1, <1>2, <2>1, EmptySeq DEF NextIsHead
    <3>2. 0 \in 0..n /\ l + 1 + 0 = 1
      BY <3>1
    <3>3. t[l + 1 + 0] = [req |-> m + 1, part |-> 0]
      BY <1>3, <3>2
    <3> QED BY <2>1, <3>2, <3>3
  <2>2. CASE a # m
    <3>1. s # <<>> /\ s[1] = [req |-> a + 1, part |-> 0]
      BY <1>1, <2>2 DEF NextIsHead
    <3>2. 1 \in 1..l
      BY <1>2, <3>1, EmptySeq
    <3> QED BY <1>3, <3>1, <3>2
  <2> QED BY <2>1, <2>2
<1> QED BY <1>3, <1>4, <1>5 DEF NextIsHead

\* And so does one in the middle of a body.
LEMMA PartWritten ==
    ASSUME TypeOK, NEW s \in Seq(Known), NEW n \in Nat, NEW t,
           t = s \o Units(Len(sent) + 1, n), Len(sent') = Len(sent) + 1,
           NEW a \in 1..Len(sent), sent'[a] = sent[a], NEW q, NextIsPart(s, a, q)
    PROVE  NextIsPart(t, a, q)'
<1>1. CASE q < sent[a].pieces
  <2>1. s # <<>> /\ s[1] = [req |-> a, part |-> q + 1]
    BY <1>1 DEF NextIsPart
  <2>2. PICK l \in Nat : l = Len(s)
    BY LenProperties
  <2>3. 1 \in 1..l
    BY <2>1, <2>2, EmptySeq
  <2>4. t # <<>> /\ \A j \in 1..Len(s) : t[j] = s[j]
    <3>1. PICK m1 \in Nat : m1 = Len(sent) + 1
      BY SentFacts
    <3>2. t = s \o Units(m1, n)
      BY <3>1
    <3>3. Lengthened(t, s, m1, n)
      BY <3>2, Written
    <3> QED BY ONLY <3>3 DEF Lengthened
  <2>5. t # <<>> /\ t[1] = s[1]
    BY <2>2, <2>3, <2>4
  <2> QED BY <1>1, <2>1, <2>5 DEF NextIsPart
<1>2. CASE ~ (q < sent[a].pieces)
  <2>1. NextIsHead(s, a) /\ a \in 0..Len(sent)
    BY <1>2, SentFacts DEF NextIsPart
  <2>2. NextIsHead(t, a)'
    BY <2>1, HeadWritten
  <2> QED BY <1>2, <2>2 DEF NextIsPart, NextIsHead
<1> QED BY <1>1, <1>2

\* A request more, behind those that are there.
LEMMA SendPipeline ==
    ASSUME IInv, PipelineInv, NEW b \in Blocks, NEW n \in 0..b.content_length,
           ClientSend(b, n)
    PROVE  PipelineInv' /\ P!Ask
<1>1. PICK m \in Nat : m = Len(sent)
  BY SentFacts DEF IInv
<1>2. PICK new : new = [block |-> b, pieces |-> n]
  OBVIOUS
<1>3. /\ ~closed /\ ~broken /\ broken' = broken
      /\ sent' = Append(sent, new)
      /\ wire' = wire \o Units(Len(sent) + 1, n)
      /\ closed' = (n < b.content_length)
      /\ UNCHANGED <<stream_buffer_, request_, processing_new_request_, reads,
                     writes, responses_queue_, delivered>>
  BY <1>2 DEF ClientSend, output
<1>4. /\ Len(sent') = m + 1 /\ DOMAIN sent' = 1..m + 1 /\ sent'[m + 1] = new
      /\ \A i \in 1..m : sent'[i] = sent[i]
      /\ SubSeq(sent', 1, m) = sent
  <2>1. b \in BlockType /\ n \in Nat
    BY ConnectionAssumption DEF BlockType
  <2>2. PICK S : S = [block : Blocks, pieces : Nat]
    OBVIOUS
  <2>3. new \in S /\ sent \in Seq(S)
    BY <1>2, <2>1, <2>2 DEF IInv, TypeOK
  <2>4. /\ Append(sent, new) \in Seq(S)
        /\ Len(Append(sent, new)) = Len(sent) + 1
        /\ \A i \in 1..Len(sent) : Append(sent, new)[i] = sent[i]
        /\ Append(sent, new)[Len(sent) + 1] = new
    BY <2>3, AppendProperties
  <2>5. PICK f \in Seq(S) : f = Append(sent, new)
    BY <2>4
  <2>6. /\ f \in Seq(S) /\ Len(f) = m + 1 /\ f[m + 1] = new
        /\ \A i \in 1..m : f[i] = sent[i]
    BY <1>1, <2>4, <2>5
  <2>7. DOMAIN f = 1..m + 1
    BY <2>6, LenProperties
  <2>8. SubSeq(f, 1, m) = sent
    <3>1. SubSeq(f, 1, m) \in Seq(S) /\ Len(SubSeq(f, 1, m)) = m
          /\ \A k \in 1..m : SubSeq(f, 1, m)[k] = f[k]
      BY <2>6, m \in 0..Len(f), Taken
    <3> QED BY <1>1, <2>3, <2>6, <3>1, SeqEqual
  <2> QED BY <1>3, <2>5, <2>6, <2>7, <2>8
<1>5. P!Ask
  BY <1>1, <1>3, <1>4 DEF P!Ask
<1>6. SentInv /\ OwedInv /\ ListenInv
  BY <1>3 DEF PipelineInv
<1>7. n \in Nat /\ b.content_length \in Nat /\ n <= b.content_length
  BY ConnectionAssumption DEF BlockType
<1>8. SentInv'
  <2>1. ASSUME NEW i \in 1..m + 1
        PROVE  /\ sent'[i].pieces <= sent'[i].block.content_length
               /\ sent'[i].pieces < sent'[i].block.content_length =>
                      closed' /\ i = m + 1
    <3>1. CASE i = m + 1
      <4>1. sent'[i] = new /\ new.pieces = n /\ new.block = b
        BY <1>2, <1>4, <3>1
      <4> QED BY <1>3, <1>7, <3>1, <4>1
    <3>2. CASE i # m + 1
      <4>1. i \in 1..m /\ i \in DOMAIN sent /\ sent'[i] = sent[i]
        BY <1>1, <1>4, <3>2, SentFacts DEF IInv
      <4>2. /\ sent[i].pieces <= sent[i].block.content_length
            /\ sent[i].pieces < sent[i].block.content_length => closed
        BY <1>6, <4>1 DEF SentInv
      <4> QED BY <1>3, <4>1, <4>2
    <3> QED BY <3>1, <3>2
  <2> QED BY <1>4, <2>1 DEF SentInv
<1>9. Waiting' = Waiting /\ Answered' = Answered
  BY <1>3 DEF Waiting, Answered
<1>10. PICK a \in Nat : a = Answered
  BY WaitingType
<1>11. a <= m
  BY <1>1, <1>6, <1>10 DEF OwedInv
<1>12. OwedInv'
  <2>1. PICK d \in Nat : d = Len(delivered)
    BY WaitingType
  <2>2. PICK l \in Nat : l = Len(Waiting)
    BY WaitingType
  <2>3. a = d + l /\ DOMAIN Waiting = 1..l
    BY <1>10, <2>1, <2>2, WaitingType DEF Answered
  <2>4. ASSUME NEW k \in 1..l
        PROVE  Waiting[k] = OwedReply(sent'[d + k], d + k)
    <3>1. d + k \in 1..m
      BY <1>11, <2>3
    <3>2. Waiting[k] = OwedReply(sent[d + k], d + k)
      BY <1>6, <2>1, <2>3 DEF OwedInv
    <3>3. sent'[d + k] = sent[d + k]
      BY <1>4, <3>1
    <3> QED BY <3>2, <3>3
  <2>5. ASSUME NEW i \in 1..a
        PROVE  /\ Arrived(sent'[i])
               /\ LastAsked(sent'[i]) => i = a /\ reads = <<>>
    <3>1. sent'[i] = sent[i]
      BY <1>4, <1>11
    <3>2. Arrived(sent[i]) /\ (LastAsked(sent[i]) => i = a /\ reads = <<>>)
      BY <1>6, <1>10 DEF OwedInv
    <3> QED BY <3>1, <3>2
  <2>6. a <= Len(sent')
    BY <1>4, <1>11
  <2>7. reads' = reads /\ delivered' = delivered
    BY <1>3
  <2> HIDE DEF Waiting, Answered, OwedReply, Arrived, LastAsked
  <2> QED BY <1>9, <1>10, <2>1, <2>3, <2>4, <2>5, <2>6, <2>7 DEF OwedInv
<1>13. PICK s \in Seq(Known) : s = Unread
  BY ConcatProperties DEF Unread, IInv, ReaderInv
<1>14. PICK t : t = Unread'
  OBVIOUS
<1>15. t = s \o Units(Len(sent) + 1, n)
  <2>1. PICK w \in Seq(Known) : w = wire
    BY DEF IInv, ReaderInv
  <2>2. PICK c \in Seq(Known) : c = stream_buffer_
    BY DEF IInv, ReaderInv
  <2>3. Known \subseteq Known \cup Bodies(m + 1) /\ Bodies(m + 1) \subseteq Known \cup Bodies(m + 1)
    OBVIOUS
  <2>4. PICK V : V = Known \cup Bodies(m + 1)
    OBVIOUS
  <2>5. w \in Seq(V) /\ c \in Seq(V)
    BY <2>3, <2>4, SeqMonotonic
  <2>6. PICK u \in Seq(V) : u = Units(m + 1, n)
    <3>1. Units(m + 1, n) \in Seq(Bodies(m + 1))
      BY <1>7, UnitsOf
    <3> QED BY <2>3, <2>4, <3>1, SeqMonotonic
  <2>7. (c \o w) \o u = c \o (w \o u)
    <3>1. Cat(Cat(c, w), u) = Cat(c, Cat(w, u))
      BY <2>5, <2>6, CatAssociative
    <3> QED BY <3>1 DEF Cat
  <2>8. s = c \o w
    BY <1>13, <2>1, <2>2 DEF Unread
  <2>9. t = c \o (w \o u)
    BY <1>1, <1>3, <1>14, <2>1, <2>2, <2>6 DEF Unread
  <2> QED BY <1>1, <2>6, <2>7, <2>8, <2>9
<1>16. ListenInv'
  <2>1. SUFFICES ASSUME reads # <<>> PROVE ListenInv'
    BY <1>3 DEF ListenInv
  <2>2. /\ Len(sent') = Len(sent) + 1 /\ sent'[Len(sent) + 1].pieces = n
        /\ \A i \in 1..Len(sent) : sent'[i] = sent[i]
    BY <1>1, <1>2, <1>4
  <2>3. Whole(s)
    BY <1>6, <1>13, <2>1 DEF ListenInv
  <2>4. TypeOK
    BY DEF IInv
  <2>5. Whole(t)'
    BY <1>7, <1>15, <2>2, <2>3, <2>4, WholeWritten
  <2>6. processing_new_request_' = processing_new_request_ /\ request_' = request_
    BY <1>3
  <2>7. CASE processing_new_request_
    <3>1. NextIsHead(s, a)
      BY <1>6, <1>10, <1>13, <2>1, <2>7 DEF ListenInv
    <3>2. a \in 0..Len(sent)
      BY <1>1, <1>11
    <3>3. NextIsHead(t, a)'
      BY <1>7, <1>15, <2>2, <2>4, <3>1, <3>2, HeadWritten
    <3> HIDE DEF Unread, Answered
    <3> QED BY <1>9, <1>10, <1>14, <2>5, <2>6, <2>7, <3>3
            DEF ListenInv, Whole, NextIsHead
  <2>8. CASE ~processing_new_request_
    <3>1. PICK i, q :
              /\ i = request_.head /\ q = request_.body_bytes_read_
              /\ i = a + 1 /\ ~Unreadable(Block(i))
              /\ q <= sent[i].pieces /\ request_.body = Tail(Units(i, q))
              /\ NextIsPart(s, i, q)
      BY <1>6, <1>10, <1>13, <2>1, <2>8 DEF ListenInv
    <3>2. i \in 1..Len(sent)
      BY <1>1, <1>10, <2>8, <3>1 DEF IInv, ReaderInv
    <3>3. sent'[i] = sent[i]
      BY <2>2, <3>2
    <3>4. NextIsPart(t, i, q)'
      BY <1>7, <1>15, <2>2, <2>4, <3>1, <3>2, <3>3, PartWritten
    <3>5. ~Unreadable(sent'[i].block) /\ q <= sent'[i].pieces
      BY <3>1, <3>3 DEF Block
    <3> HIDE DEF Unread, Answered, Unreadable
    <3> QED BY <1>9, <1>10, <1>14, <2>5, <2>6, <2>8, <3>1, <3>4, <3>5
            DEF ListenInv, Whole, NextIsPart, NextIsHead, Block
  <2> QED BY <2>7, <2>8
<1> QED BY <1>5, <1>8, <1>12, <1>16 DEF PipelineInv

\* Once the client has left nothing more is asked.
LEMMA ClosePipeline ==
    ASSUME PipelineInv, ClientClose
    PROVE  PipelineInv'
<1>1. /\ UNCHANGED <<sent, wire, broken, stream_buffer_, request_,
                     processing_new_request_, reads, writes, responses_queue_,
                     delivered>>
      /\ closed' = TRUE
  BY DEF ClientClose, output
<1>2. Unread' = Unread /\ Waiting' = Waiting /\ Answered' = Answered
  BY <1>1 DEF Unread, Waiting, Answered
<1> HIDE DEF Waiting, Answered, Unread, OwedReply, Arrived, LastAsked
<1>3. SentInv => SentInv'
  BY <1>1 DEF SentInv
<1>4. OwedInv => OwedInv'
  BY <1>1, <1>2 DEF OwedInv
<1>5. ListenInv => ListenInv'
  BY <1>1, <1>2 DEF ListenInv, Whole, NextIsHead, NextIsPart, Block
<1> QED BY <1>1, <1>3, <1>4, <1>5 DEF PipelineInv

\* A broken connection promises nothing.
LEMMA ResetPipeline ==
    ASSUME ClientReset
    PROVE  PipelineInv' /\ P!Cut
BY DEF ClientReset, PipelineInv, P!Cut

-----------------------------------------------------------------------------
(* The refinement *)

\* A new connection starts before its first request.
LEMMA InitPipeline == ASSUME Init PROVE PipelineInv /\ P!Init
<1>1. /\ sent = <<>> /\ wire = <<>> /\ stream_buffer_ = <<>> /\ broken = FALSE
      /\ processing_new_request_ = TRUE
      /\ responses_queue_ = <<>> /\ writes = <<>> /\ delivered = <<>>
  BY DEF Init
<1>2. PICK e \in Seq({}) : e = <<>>
  BY EmptySeq
<1>3. e \o e = e /\ Len(e) = 0 /\ DOMAIN e = {}
  BY <1>2, EmptySeq, ConcatSimplifications
<1>4. Waiting = <<>> /\ Answered = 0 /\ Unread = <<>>
  BY <1>1, <1>2, <1>3 DEF Waiting, Answered, Unread
<1>5. SentInv
  BY <1>1, <1>2, <1>3 DEF SentInv
<1>6. OwedInv
  <2> HIDE DEF Answered, Waiting
  <2> QED BY <1>1, <1>2, <1>3, <1>4 DEF OwedInv
<1>7. ListenInv
  <2> HIDE DEF Answered, Unread
  <2> QED BY <1>1, <1>2, <1>3, <1>4 DEF ListenInv, Whole, NextIsHead
<1>8. P!Init
  BY <1>1 DEF P!Init
<1> QED BY <1>5, <1>6, <1>7, <1>8 DEF PipelineInv

\* Every step keeps the invariant and is a step of the pipeline, or none.
LEMMA StepPipeline ==
    ASSUME IInv, PipelineInv, [Next]_vars
    PROVE  PipelineInv' /\ [P!Next]_(P!vars)
<1>1. CASE UNCHANGED vars
  <2>1. /\ UNCHANGED <<sent, wire, closed, broken, stream_buffer_, request_,
                       processing_new_request_, reads, writes, responses_queue_,
                       delivered>>
    BY <1>1 DEF vars, input, output
  <2>2. PICK d \in Nat : d = Len(delivered)
    BY WaitingType
  <2>3. Waiting' = Waiting /\ Answered' = Answered
    BY <2>1 DEF Waiting, Answered
  <2>4. PipelineInv'
    BY <2>1, <2>3 DEF PipelineInv, SentInv, OwedInv, ListenInv, Unread, Waiting,
       Answered, Whole, NextIsHead, NextIsPart, Block
  <2> QED BY <2>1, <2>4 DEF P!vars
<1>2. CASE Client
  <2>1. CASE \E b \in Blocks : \E n \in 0..b.content_length : ClientSend(b, n)
    BY <2>1, SendPipeline DEF P!Next
  <2>2. CASE ClientClose
    <3>1. UNCHANGED <<sent, delivered, broken>>
      BY <2>2 DEF ClientClose
    <3> QED BY <2>2, <3>1, ClosePipeline DEF P!vars
  <2>3. CASE ClientReset
    BY <2>3, ResetPipeline DEF P!Next
  <2> QED BY <1>2, <2>1, <2>2, <2>3 DEF Client
<1>3. ASSUME NEW i \in DOMAIN reads, Read_(i)
      PROVE  PipelineInv' /\ [P!Next]_(P!vars)
  <2>1. UNCHANGED <<sent, delivered, broken>>
    BY <1>3, Outcomes DEF ContinueReading, RejectRequest, AnswerRequest, RefuseRequest,
                ReadFails, Receive, input, output
  <2>2. PipelineInv'
    BY <1>3, Outcomes, ContinuePipeline, RejectPipeline, AnswerPipeline, RefusePipeline,
       ReadFailsPipeline, ReceivePipeline
  <2> QED BY <2>1, <2>2 DEF P!vars
<1>4. ASSUME NEW i \in DOMAIN writes, Write_(i)
      PROVE  PipelineInv' /\ [P!Next]_(P!vars)
  <2>1. CASE KernelWrite(i)
    <3>1. PipelineInv' /\ (P!Answer \/ UNCHANGED <<sent, delivered, broken>>)
      BY <2>1, KernelWritePipeline
    <3> QED BY <3>1 DEF P!Next, P!vars
  <2>2. CASE response_handler(i)
    <3>1. UNCHANGED <<sent, delivered, broken>>
      BY <2>2 DEF response_handler, input
    <3> QED BY <2>2, <3>1, ResponsePipeline DEF P!vars
  <2> QED BY <1>4, <2>1, <2>2 DEF Write_
<1>5. Destroyed => UNCHANGED vars
  BY DEF Destroyed
<1> QED BY <1>1, <1>2, <1>3, <1>4, <1>5 DEF Next

\* What is buffered is what was written after the last request answered, and
\* the responses under way are those owed.
THEOREM PipelineSafe == Spec => []PipelineInv
<1>1. Init => PipelineInv
  BY InitPipeline
<1>2. IInv /\ PipelineInv /\ [Next]_vars => PipelineInv'
  BY StepPipeline
<1> QED BY <1>1, <1>2, Invariant, PTL DEF Spec

\* session.cpp: the responses a client receives are those owed for its
\* requests, in the order of the requests, each made of the request's own body,
\* and none follows the one that ends the conversation.
THEOREM AnswersOrdered == Spec => AnswersInOrder
<1>1. Init => P!Init
  BY InitPipeline
<1>2. IInv /\ PipelineInv /\ [Next]_vars => [P!Next]_(P!vars)
  BY StepPipeline
<1>3. Spec => P!Safety
  BY <1>1, <1>2, Invariant, PipelineSafe, PTL DEF Spec, P!Safety
<1> QED BY <1>3 DEF AnswersInOrder
=============================================================================
