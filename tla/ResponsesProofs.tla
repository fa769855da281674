--------------------------- MODULE ResponsesProofs ---------------------------
(***************************************************************************)
(* Proofs about Responses and Templates, for any paths, contents, rules    *)
(* and models, any number of responses under way, of changes of the disk   *)
(* and of clears.                                                          *)
(*                                                                         *)
(* First the data: what the loop of page::load and page::generate make of  *)
(* a template, item by item, is the page the template asks for (PageTrue), *)
(* and every buffer of a page has an owner.  Then the responses the hosts  *)
(* make (Made).  Last the worker: the invariant IInv says what the disk,   *)
(* the caches, the request and the queue know of each other, and each      *)
(* theorem is one part of it.                                              *)
(***************************************************************************)
EXTENDS Responses, SequenceTheorems, WellFoundedInduction, TLAPS

\* Induction over a set of naturals.
LEMMA AllNats ==
    ASSUME NEW T, 0 \in T, \A n \in Nat : n \in T => n + 1 \in T
    PROVE  \A n \in Nat : n \in T
<1> SUFFICES ASSUME NEW x \in Nat, x \notin T PROVE FALSE
  OBVIOUS
<1> DEFINE S == {n \in Nat : n \notin T}
<1>1. PICK m \in S : \A n \in S : ~ (<<n, m>> \in OpToRel(<, Nat))
  BY NatLessThanWellFounded, WFMin
<1>2. m \in Nat /\ m \notin T /\ m # 0
  BY <1>1
<1>3. m - 1 \in Nat /\ m - 1 < m /\ (m - 1) + 1 = m
  BY <1>2
<1>4. m - 1 \notin S
  BY <1>1, <1>3, <<m - 1, m>> \in Nat \X Nat DEF OpToRel
<1> QED BY <1>2, <1>3, <1>4

\* What holds at first and with each step holds all along 0..n.
LEMMA AllAlong ==
    ASSUME NEW n \in Nat, NEW T, 0 \in T, \A i \in 1..n : i - 1 \in T => i \in T
    PROVE  \A i \in 0..n : i \in T
<1> DEFINE U == {i \in Nat : i \in T \/ i > n}
<1>1. 0 \in U
  OBVIOUS
<1>2. ASSUME NEW i \in Nat, i \in U PROVE i + 1 \in U
  <2>1. CASE i + 1 \in 1..n
    <3>1. i \in T /\ (i + 1) - 1 = i
      BY <1>2, <2>1
    <3> QED BY <2>1, <3>1
  <2>2. CASE i + 1 \notin 1..n
    BY <2>2
  <2> QED BY <2>1, <2>2
<1>3. \A i \in Nat : i \in U
  <2> HIDE DEF U
  <2> QED BY <1>1, <1>2, AllNats
<1> QED BY <1>3

\* What holds of the empty sequence, and of a sequence with one more element, holds
\* of every sequence.
LEMMA AllSeqs ==
    ASSUME NEW S, NEW T, <<>> \in T, \A s \in Seq(S) : \A x \in S : s \in T => Append(s, x) \in T
    PROVE  \A s \in Seq(S) : s \in T
<1> DEFINE U == {n \in Nat : \A s \in Seq(S) : Len(s) = n => s \in T}
<1>1. 0 \in U
  <2>1. \A s \in Seq(S) : Len(s) = 0 => s = <<>>
    BY EmptySeq
  <2> QED BY <2>1
<1>2. ASSUME NEW n \in Nat, n \in U PROVE n + 1 \in U
  <2> SUFFICES ASSUME NEW s \in Seq(S), Len(s) = n + 1 PROVE s \in T
    OBVIOUS
  <2>1. s # <<>>
    BY EmptySeq
  <2>2. PICK t \in Seq(S), x \in S : s = Append(t, x)
    BY <2>1, SequenceEmptyOrAppend
  <2>3. Len(t) \in Nat /\ Len(s) = Len(t) + 1
    BY <2>2, AppendProperties, LenProperties
  <2>4. Len(t) = n
    BY <2>3
  <2>5. t \in T
    BY <1>2, <2>4
  <2> QED BY <2>2, <2>5
<1>3. \A n \in Nat : n \in U
  <2> HIDE DEF U
  <2> QED BY <1>1, <1>2, AllNats
<1> QED BY <1>3, LenProperties

-----------------------------------------------------------------------------
(* Lengths *)

LEMMA TotalExists ==
    ASSUME NEW s, NEW n \in Nat
    PROVE  \E f : f = [i \in 0..n |-> IF i = 0 THEN 0 ELSE f[i - 1] + s[i].len]
<1> DEFINE Following(f, i) == IF i = 0 THEN 0 ELSE f[i - 1] + s[i].len
           T == {m \in Nat : \E f : f = [i \in 0..m |-> Following(f, i)]}
<1>1. 0 \in T
  <2> DEFINE f == [i \in 0..0 |-> 0]
  <2>1. f = [i \in 0..0 |-> Following(f, i)]
    OBVIOUS
  <2> QED BY <2>1
<1>2. ASSUME NEW m \in Nat, m \in T PROVE m + 1 \in T
  <2>1. PICK g : g = [i \in 0..m |-> Following(g, i)]
    BY <1>2
  <2> DEFINE h == [i \in 0..m + 1 |-> IF i = m + 1 THEN g[m] + s[m + 1].len ELSE g[i]]
  <2>2. ASSUME NEW i \in 0..m + 1 PROVE h[i] = Following(h, i)
    <3>1. CASE i = 0
      BY <2>1, <3>1
    <3>2. CASE i \in 1..m
      <4>1. i # m + 1 /\ i - 1 # m + 1 /\ i \in 0..m /\ i - 1 \in 0..m + 1 /\ i # 0
        BY <3>2
      <4>2. h[i] = g[i] /\ h[i - 1] = g[i - 1]
        BY <4>1
      <4>3. g[i] = Following(g, i)
        BY <2>1, <4>1
      <4> QED BY <4>1, <4>2, <4>3
    <3>3. CASE i = m + 1
      <4>1. i - 1 = m /\ i - 1 \in 0..m + 1 /\ i # 0 /\ m # m + 1
        BY <3>3
      <4> QED BY <3>3, <4>1
    <3> QED BY <3>1, <3>2, <3>3
  <2>3. h = [i \in 0..m + 1 |-> Following(h, i)]
    BY <2>2
  <2> HIDE DEF h
  <2> QED BY <2>3
<1>3. n \in T
  <2> HIDE DEF T
  <2> QED BY <1>1, <1>2, AllNats
<1> QED BY <1>3

\* The total of the first elements of a sequence.
LEMMA LengthSteps ==
    ASSUME NEW s, NEW n \in Nat, n = Len(s)
    PROVE  \E f : /\ Length(s) = f[n] /\ f[0] = 0
                  /\ \A i \in 1..n : f[i] = f[i - 1] + s[i].len
<1> DEFINE P(f) == f = [i \in 0..n |-> IF i = 0 THEN 0 ELSE f[i - 1] + s[i].len]
<1>1. \E f : P(f)
  BY TotalExists
<1>2. PICK f : f = CHOOSE g : P(g)
  OBVIOUS
<1>3. P(f)
  <2> HIDE DEF P
  <2> QED BY <1>1, <1>2
<1>4. Length(s) = f[n]
  BY <1>2 DEF Length
<1> QED BY <1>3, <1>4

LEMMA LengthEmpty == Length(<<>>) = 0
<1>1. Len(<<>>) = 0
  BY EmptySeq
<1> QED BY <1>1, LengthSteps

Sized(S) == \A x \in S : x.len \in Nat

LEMMA LengthAppend ==
    ASSUME NEW S, Sized(S), NEW s \in Seq(S), NEW x \in S
    PROVE  Length(Append(s, x)) = Length(s) + x.len
<1>1. PICK n \in Nat : n = Len(s)
  BY LenProperties
<1> DEFINE t == Append(s, x)
<1>2. Len(t) = n + 1 /\ (\A i \in 1..n : t[i] = s[i]) /\ t[n + 1] = x
  BY <1>1, AppendProperties
<1> HIDE DEF t
<1>3. PICK f : Length(s) = f[n] /\ f[0] = 0 /\ \A i \in 1..n : f[i] = f[i - 1] + s[i].len
  BY <1>1, LengthSteps
<1>4. PICK g : Length(t) = g[n + 1] /\ g[0] = 0 /\ \A i \in 1..n + 1 : g[i] = g[i - 1] + t[i].len
  BY <1>2, LengthSteps
<1> DEFINE T == {i \in 0..n : f[i] = g[i]}
<1>5. \A i \in 0..n : i \in T
  <2>1. 0 \in T
    BY <1>3, <1>4
  <2>2. ASSUME NEW i \in 1..n, i - 1 \in T PROVE i \in T
    <3>1. i \in 0..n /\ i \in 1..n + 1
      OBVIOUS
    <3> QED BY <1>2, <1>3, <1>4, <2>2, <3>1
  <2> HIDE DEF T
  <2> QED BY <2>1, <2>2, AllAlong
<1>6. f[n] = g[n] /\ n + 1 \in 1..n + 1 /\ (n + 1) - 1 = n
  BY <1>5
<1>7. g[n + 1] = g[n] + t[n + 1].len
  BY <1>4, <1>6
<1> QED BY <1>2, <1>3, <1>4, <1>6, <1>7 DEF t

LEMMA LengthNat ==
    ASSUME NEW S, Sized(S), NEW s \in Seq(S)
    PROVE  Length(s) \in Nat
<1> DEFINE T == {t \in Seq(S) : Length(t) \in Nat}
<1>1. <<>> \in T
  BY LengthEmpty
<1>2. ASSUME NEW t \in Seq(S), NEW x \in S, t \in T PROVE Append(t, x) \in T
  BY <1>2, LengthAppend DEF Sized
<1>3. s \in T
  <2> HIDE DEF T
  <2> QED BY <1>1, <1>2, AllSeqs
<1> QED BY <1>3

LEMMA ConcatAppend ==
    ASSUME NEW S, NEW s \in Seq(S), NEW t \in Seq(S), NEW x \in S
    PROVE  s \o Append(t, x) = Append(s \o t, x) /\ s \o t \in Seq(S)
BY AppendIsConcat, ConcatAssociative, ConcatProperties, <<x>> \in Seq(S)

LEMMA LengthConcat ==
    ASSUME NEW S, Sized(S), NEW s \in Seq(S), NEW t \in Seq(S)
    PROVE  Length(s \o t) = Length(s) + Length(t)
<1> DEFINE T == {u \in Seq(S) : Length(s \o u) = Length(s) + Length(u)}
<1>1. <<>> \in T
  BY LengthEmpty, LengthNat, ConcatEmptySeq
<1>2. ASSUME NEW u \in Seq(S), NEW x \in S, u \in T PROVE Append(u, x) \in T
  <2>1. s \o Append(u, x) = Append(s \o u, x) /\ s \o u \in Seq(S)
    BY ConcatAppend
  <2>2. Length(Append(s \o u, x)) = Length(s \o u) + x.len
    BY <2>1, LengthAppend
  <2>3. Length(Append(u, x)) = Length(u) + x.len
    BY LengthAppend
  <2>4. x.len \in Nat /\ Length(u) \in Nat /\ Length(s) \in Nat
    BY LengthNat DEF Sized
  <2>5. Length(s \o u) = Length(s) + Length(u)
    BY <1>2
  <2>6. Length(s \o Append(u, x)) = Length(s) + Length(Append(u, x))
    BY <2>1, <2>2, <2>3, <2>4, <2>5
  <2> QED BY <2>6, AppendProperties
<1>3. t \in T
  <2> HIDE DEF T
  <2> QED BY <1>1, <1>2, AllSeqs
<1> QED BY <1>3

-----------------------------------------------------------------------------
(* Sequences of sequences *)

LEMMA FlattenExists ==
    ASSUME NEW s, NEW n \in Nat
    PROVE  \E f : f = [i \in 1..n |-> IF i = 1 THEN s[i] ELSE f[i - 1] \o s[i]]
<1> DEFINE Following(f, i) == IF i = 1 THEN s[i] ELSE f[i - 1] \o s[i]
           T == {m \in Nat : \E f : f = [i \in 1..m |-> Following(f, i)]}
<1>1. 0 \in T
  <2> DEFINE f == [i \in 1..0 |-> 0]
  <2>1. f = [i \in 1..0 |-> Following(f, i)]
    OBVIOUS
  <2> QED BY <2>1
<1>2. ASSUME NEW m \in Nat, m \in T PROVE m + 1 \in T
  <2>1. PICK g : g = [i \in 1..m |-> Following(g, i)]
    BY <1>2
  <2> DEFINE h == [i \in 1..m + 1 |-> IF i = m + 1 THEN Following(g, m + 1) ELSE g[i]]
  <2>2. ASSUME NEW i \in 1..m + 1 PROVE h[i] = Following(h, i)
    <3>1. CASE i \in 1..m
      <4>1. i # m + 1 /\ i - 1 # m + 1 /\ (i # 1 => i - 1 \in 1..m + 1)
        BY <3>1
      <4>2. h[i] = g[i] /\ (i # 1 => h[i - 1] = g[i - 1])
        BY <4>1
      <4>3. g[i] = Following(g, i)
        BY <2>1, <3>1
      <4> QED BY <4>1, <4>2, <4>3
    <3>2. CASE i = m + 1
      <4>1. i - 1 = m /\ (i # 1 => i - 1 \in 1..m + 1) /\ m # m + 1
        BY <3>2
      <4> QED BY <3>2, <4>1
    <3> QED BY <3>1, <3>2
  <2>3. h = [i \in 1..m + 1 |-> Following(h, i)]
    BY <2>2
  <2> HIDE DEF h
  <2>4. \E f : f = [i \in 1..m + 1 |-> Following(f, i)]
    BY <2>3
  <2> HIDE DEF Following
  <2> QED BY <2>4
<1>3. n \in T
  <2> HIDE DEF T
  <2> QED BY <1>1, <1>2, AllNats
<1> QED BY <1>3

\* What has been put together of the first sequences.
LEMMA FlattenSteps ==
    ASSUME NEW s, NEW n \in Nat \ {0}, n = Len(s)
    PROVE  \E f : /\ FlattenSeq(s) = f[n] /\ f[1] = s[1]
                  /\ \A i \in 2..n : f[i] = f[i - 1] \o s[i]
<1> DEFINE P(f) == f = [i \in 1..n |-> IF i = 1 THEN s[i] ELSE f[i - 1] \o s[i]]
<1>1. \E f : P(f)
  BY FlattenExists
<1>2. PICK f : f = CHOOSE g : P(g)
  OBVIOUS
<1>3. P(f)
  <2> HIDE DEF P
  <2> QED BY <1>1, <1>2
<1>4. FlattenSeq(s) = (CHOOSE g : P(g))[n]
  BY DEF FlattenSeq
<1>5. FlattenSeq(s) = f[n]
  <2> HIDE DEF P
  <2> QED BY <1>2, <1>4
<1>6. f[1] = s[1]
  BY <1>3, 1 \in 1..n
<1>7. ASSUME NEW i \in 2..n PROVE f[i] = f[i - 1] \o s[i]
  BY <1>3, i \in 1..n, i # 1
<1> QED BY <1>5, <1>6, <1>7

LEMMA FlattenEmpty == FlattenSeq(<<>>) = <<>>
<1>1. Len(<<>>) = 0
  BY EmptySeq
<1> QED BY <1>1 DEF FlattenSeq

LEMMA FlattenAppend ==
    ASSUME NEW S, NEW s \in Seq(Seq(S)), NEW x \in Seq(S)
    PROVE  FlattenSeq(Append(s, x)) = FlattenSeq(s) \o x
<1>1. PICK n \in Nat : n = Len(s)
  BY LenProperties
<1> DEFINE t == Append(s, x)
<1>2. Len(t) = n + 1 /\ (\A i \in 1..n : t[i] = s[i]) /\ t[n + 1] = x
  BY <1>1, AppendProperties
<1> HIDE DEF t
<1>3. PICK g : /\ FlattenSeq(t) = g[n + 1] /\ g[1] = t[1]
               /\ \A i \in 2..n + 1 : g[i] = g[i - 1] \o t[i]
  BY <1>2, n + 1 \in Nat \ {0}, FlattenSteps
<1>4. CASE n = 0
  <2>1. s = <<>>
    BY <1>1, <1>4, EmptySeq
  <2>2. FlattenSeq(t) = x
    BY <1>2, <1>3, <1>4
  <2> QED BY <2>1, <2>2, FlattenEmpty, ConcatEmptySeq DEF t
<1>5. CASE n # 0
  <2>1. PICK f : /\ FlattenSeq(s) = f[n] /\ f[1] = s[1]
                 /\ \A i \in 2..n : f[i] = f[i - 1] \o s[i]
    BY <1>1, <1>5, n \in Nat \ {0}, FlattenSteps
  <2> DEFINE T == {i \in 0..n : i # 0 => f[i] = g[i]}
  <2>2. \A i \in 0..n : i \in T
    <3>1. 0 \in T
      OBVIOUS
    <3>2. ASSUME NEW i \in 1..n, i - 1 \in T PROVE i \in T
      <4>1. CASE i = 1
        BY <1>2, <1>3, <2>1, <4>1
      <4>2. CASE i # 1
        <5>1. i \in 2..n /\ i \in 2..n + 1 /\ i - 1 # 0
          BY <4>2
        <5>2. f[i - 1] = g[i - 1]
          BY <3>2, <5>1
        <5>3. f[i] = f[i - 1] \o s[i] /\ g[i] = g[i - 1] \o t[i] /\ t[i] = s[i]
          BY <1>2, <1>3, <2>1, <5>1
        <5>4. f[i] = g[i]
          BY <5>2, <5>3
        <5> QED BY <5>4
      <4> QED BY <4>1, <4>2
    <3> HIDE DEF T
    <3> QED BY <3>1, <3>2, AllAlong
  <2>3. f[n] = g[n]
    BY <1>5, <2>2
  <2>4. n + 1 \in 2..n + 1 /\ (n + 1) - 1 = n
    BY <1>5
  <2>5. g[n + 1] = g[n] \o t[n + 1]
    BY <1>3, <2>4
  <2> QED BY <1>2, <1>3, <2>1, <2>3, <2>5 DEF t
<1> QED BY <1>4, <1>5

LEMMA FlattenSeqs ==
    ASSUME NEW S, NEW s \in Seq(Seq(S))
    PROVE  FlattenSeq(s) \in Seq(S)
<1> DEFINE T == {t \in Seq(Seq(S)) : FlattenSeq(t) \in Seq(S)}
<1>1. <<>> \in T
  BY FlattenEmpty, EmptySeq
<1>2. ASSUME NEW t \in Seq(Seq(S)), NEW x \in Seq(S), t \in T PROVE Append(t, x) \in T
  BY <1>2, FlattenAppend, ConcatProperties, AppendProperties
<1>3. s \in T
  <2> HIDE DEF T
  <2> QED BY <1>1, <1>2, AllSeqs
<1> QED BY <1>3

-----------------------------------------------------------------------------
(* Pieces: what shows of them *)

\* A sequence with one more element.
LEMMA Extended ==
    ASSUME NEW T, NEW a \in Seq(T), NEW n \in Nat, n = Len(a), NEW y \in T,
           NEW b, b \in [1..n + 1 -> T], \A i \in 1..n : b[i] = a[i], b[n + 1] = y
    PROVE  b = Append(a, y)
<1>1. b \in Seq(T) /\ Len(b) = n + 1
  OBVIOUS
<1>2. /\ Append(a, y) \in Seq(T) /\ Len(Append(a, y)) = n + 1
      /\ \A i \in 1..n : Append(a, y)[i] = a[i]
      /\ Append(a, y)[n + 1] = y
  BY AppendProperties
<1>3. \A i \in 1..n + 1 : b[i] = Append(a, y)[i]
  <2> SUFFICES ASSUME NEW i \in 1..n + 1 PROVE b[i] = Append(a, y)[i]
    OBVIOUS
  <2>1. i \in 1..n \/ i = n + 1
    OBVIOUS
  <2> QED BY <1>2, <2>1
<1> QED BY <1>1, <1>2, <1>3, SeqEqual

\* What is made of each element of a sequence, when it gets one more.
LEMMA MapAppend ==
    ASSUME NEW S, NEW s \in Seq(S), NEW x \in S, NEW T,
           NEW a \in [DOMAIN s -> T], NEW b \in [DOMAIN Append(s, x) -> T],
           \A i \in DOMAIN s : b[i] = a[i]
    PROVE  a \in Seq(T) /\ b = Append(a, b[Len(s) + 1]) /\ b[Len(s) + 1] \in T
<1>1. PICK n \in Nat : n = Len(s) /\ DOMAIN s = 1..n
  BY LenProperties
<1>2. DOMAIN Append(s, x) = 1..n + 1
  BY <1>1, AppendProperties, LenProperties
<1>3. a \in Seq(T) /\ Len(a) = n
  BY <1>1
<1>4. b \in [1..n + 1 -> T] /\ b[n + 1] \in T
  BY <1>2
<1>5. b = Append(a, b[n + 1])
  BY <1>1, <1>3, <1>4, Extended
<1> QED BY <1>1, <1>3, <1>4, <1>5

Shown(x) == IF x.len > 0 THEN <<x>> ELSE <<>>

\* Concatenation under a name of its own, which keeps its law first-order.
Cat(a, b) == a \o b

LEMMA CatAssociative ==
    ASSUME NEW S, NEW a \in Seq(S), NEW b \in Seq(S), NEW c \in Seq(S)
    PROVE  Cat(Cat(a, b), c) = Cat(a, Cat(b, c))
BY ConcatAssociative DEF Cat

LEMMA VisibleEmpty == Visible(<<>>) = <<>>
<1>1. [i \in DOMAIN <<>> |-> IF <<>>[i].len > 0 THEN <<<<>>[i]>> ELSE <<>>] = <<>>
  OBVIOUS
<1> QED BY <1>1, FlattenEmpty DEF Visible

LEMMA VisibleAppend ==
    ASSUME NEW S, NEW s \in Seq(S), NEW x \in S
    PROVE  Visible(Append(s, x)) = Visible(s) \o Shown(x)
<1> DEFINE all(t) == [i \in DOMAIN t |-> IF t[i].len > 0 THEN <<t[i]>> ELSE <<>>]
           a == all(s)
           b == all(Append(s, x))
<1>1. Visible(s) = FlattenSeq(a) /\ Visible(Append(s, x)) = FlattenSeq(b)
  BY DEF Visible
<1>2. PICK n \in Nat : n = Len(s) /\ DOMAIN s = 1..n
  BY LenProperties
<1>3. /\ Append(s, x) \in Seq(S) /\ DOMAIN Append(s, x) = 1..n + 1
      /\ \A i \in 1..n : Append(s, x)[i] = s[i]
      /\ Append(s, x)[n + 1] = x
  BY <1>2, AppendProperties, LenProperties
<1>4. \A t \in Seq(S) : all(t) \in [DOMAIN t -> Seq(S)]
  <2> SUFFICES ASSUME NEW t \in Seq(S), NEW i \in DOMAIN t
               PROVE  (IF t[i].len > 0 THEN <<t[i]>> ELSE <<>>) \in Seq(S)
    OBVIOUS
  <2>1. t[i] \in S
    OBVIOUS
  <2> QED BY <2>1, EmptySeq
<1>5. a \in [DOMAIN s -> Seq(S)] /\ b \in [DOMAIN Append(s, x) -> Seq(S)]
  BY <1>3, <1>4
<1>6. \A i \in DOMAIN s : b[i] = a[i]
  BY <1>2, <1>3
<1>7. b[n + 1] = Shown(x)
  BY <1>3 DEF Shown
<1> HIDE DEF a, b
<1>8. a \in Seq(Seq(S)) /\ b = Append(a, Shown(x)) /\ Shown(x) \in Seq(S)
  <2>1. a \in Seq(Seq(S)) /\ b = Append(a, b[Len(s) + 1]) /\ b[Len(s) + 1] \in Seq(S)
    BY ONLY s \in Seq(S), x \in S, <1>5, <1>6, MapAppend, ZenonT(120)
  <2>2. b[Len(s) + 1] = Shown(x)
    BY ONLY <1>2, <1>7
  <2> QED BY ONLY <2>1, <2>2
<1>9. FlattenSeq(Append(a, Shown(x))) = FlattenSeq(a) \o Shown(x)
  BY <1>8, FlattenAppend
<1>10. FlattenSeq(b) = FlattenSeq(Append(a, Shown(x)))
  BY <1>8
<1> QED BY ONLY <1>1, <1>9, <1>10

LEMMA VisibleSeq ==
    ASSUME NEW S, NEW s \in Seq(S)
    PROVE  Visible(s) \in Seq(S)
<1> DEFINE T == {t \in Seq(S) : Visible(t) \in Seq(S)}
<1>1. <<>> \in T
  BY VisibleEmpty, EmptySeq
<1>2. ASSUME NEW t \in Seq(S), NEW x \in S, t \in T PROVE Append(t, x) \in T
  <2>1. Shown(x) \in Seq(S)
    BY EmptySeq DEF Shown
  <2>2. Visible(Append(t, x)) \in Seq(S)
    BY <1>2, <2>1, VisibleAppend, ConcatProperties
  <2> QED BY <2>2
<1>3. s \in T
  <2> HIDE DEF T
  <2> QED BY <1>1, <1>2, AllSeqs
<1> QED BY <1>3

LEMMA VisibleConcat ==
    ASSUME NEW S, NEW s \in Seq(S), NEW t \in Seq(S)
    PROVE  Visible(s \o t) = Visible(s) \o Visible(t)
<1> DEFINE T == {u \in Seq(S) : Visible(s \o u) = Visible(s) \o Visible(u)}
<1>1. <<>> \in T
  BY VisibleEmpty, VisibleSeq, ConcatEmptySeq, EmptySeq
<1>2. ASSUME NEW u \in Seq(S), NEW x \in S, u \in T PROVE Append(u, x) \in T
  <2>1. s \o Append(u, x) = Append(s \o u, x) /\ s \o u \in Seq(S)
    BY ConcatAppend
  <2>2. Visible(Append(s \o u, x)) = Visible(s \o u) \o Shown(x)
    BY <2>1, VisibleAppend
  <2>3. Visible(Append(u, x)) = Visible(u) \o Shown(x)
    BY VisibleAppend
  <2>4. Visible(s) \in Seq(S) /\ Visible(u) \in Seq(S) /\ Shown(x) \in Seq(S)
    BY VisibleSeq, EmptySeq DEF Shown
  <2>5. Visible(s \o u) = Visible(s) \o Visible(u)
    BY <1>2
  <2>6. (Visible(s) \o Visible(u)) \o Shown(x) = Visible(s) \o (Visible(u) \o Shown(x))
    <3>1. Cat(Cat(Visible(s), Visible(u)), Shown(x)) = Cat(Visible(s), Cat(Visible(u), Shown(x)))
      BY <2>4, CatAssociative
    <3> QED BY <3>1 DEF Cat
  <2>7. Visible(s \o Append(u, x)) = Visible(s) \o Visible(Append(u, x))
    BY <2>1, <2>2, <2>3, <2>5, <2>6
  <2>8. Append(u, x) \in Seq(S)
    BY AppendProperties
  <2> QED BY <2>7, <2>8
<1>3. t \in T
  <2> HIDE DEF T
  <2> QED BY <1>1, <1>2, AllSeqs
<1> QED BY <1>3

\* What does not show has no length.
LEMMA VisibleLength ==
    ASSUME NEW S, Sized(S), NEW s \in Seq(S)
    PROVE  Length(Visible(s)) = Length(s)
<1> DEFINE T == {t \in Seq(S) : Length(Visible(t)) = Length(t)}
<1>1. <<>> \in T
  BY VisibleEmpty, EmptySeq
<1>2. ASSUME NEW t \in Seq(S), NEW x \in S, t \in T PROVE Append(t, x) \in T
  <2>1. Length(Append(t, x)) = Length(t) + x.len /\ Length(t) \in Nat /\ x.len \in Nat
    BY LengthAppend, LengthNat DEF Sized
  <2>2. Visible(Append(t, x)) = Visible(t) \o Shown(x) /\ Visible(t) \in Seq(S)
    BY VisibleAppend, VisibleSeq
  <2>3. Length(Visible(t)) = Length(t)
    BY <1>2
  <2>4. CASE x.len > 0
    <3>1. Shown(x) = <<x>>
      BY <2>4 DEF Shown
    <3>2. Visible(Append(t, x)) = Append(Visible(t), x)
      BY <2>2, <3>1, AppendIsConcat
    <3>3. Length(Append(Visible(t), x)) = Length(Visible(t)) + x.len
      BY <2>2, LengthAppend
    <3>4. Length(Visible(Append(t, x))) = Length(Append(t, x))
      BY <2>1, <2>3, <3>2, <3>3
    <3> QED BY <3>4, AppendProperties
  <2>5. CASE ~ (x.len > 0)
    <3>1. Shown(x) = <<>>
      BY <2>5 DEF Shown
    <3>2. Visible(Append(t, x)) = Visible(t)
      BY <2>2, <3>1, ConcatEmptySeq
    <3>3. Length(Visible(Append(t, x))) = Length(Append(t, x))
      BY <2>1, <2>3, <2>5, <3>2
    <3> QED BY <3>3, AppendProperties
  <2> QED BY <2>4, <2>5
<1>3. s \in T
  <2> HIDE DEF T
  <2> QED BY <1>1, <1>2, AllSeqs
<1> QED BY <1>3

-----------------------------------------------------------------------------
(* Buffers *)

Shows      == (Commands \cup {"raw", "body", "headers"}) \X Words \X Nat
PieceType  == [shows : Shows, len : Nat]
BufferType == [owner : {"headers", "static", "strings", "object", "model", "temporary"},
               shows : Shows, len : Nat]
ChunkType  == [cmd : Commands \cup {"raw"}, arg : Words, pos : Nat, len : Nat]

Shape(x) == [shows |-> x.shows, len |-> x.len]

LEMMA SizedTypes == Sized(PieceType) /\ Sized(BufferType) /\ Sized(Item)
BY DEF Sized, PieceType, BufferType, Item

LEMMA BareEmpty == Bare(<<>>) = <<>>
BY DEF Bare

LEMMA BareAppend ==
    ASSUME NEW s \in Seq(BufferType), NEW x \in BufferType
    PROVE  /\ Bare(s) \in Seq(PieceType) /\ Shape(x) \in PieceType
           /\ Bare(Append(s, x)) = Append(Bare(s), Shape(x))
<1>1. \A t \in Seq(BufferType) : Bare(t) \in [DOMAIN t -> PieceType]
  <2> SUFFICES ASSUME NEW t \in Seq(BufferType), NEW k \in DOMAIN t
               PROVE  [shows |-> t[k].shows, len |-> t[k].len] \in PieceType
    BY DEF Bare
  <2>1. t[k] \in BufferType
    OBVIOUS
  <2> QED BY <2>1 DEF BufferType, PieceType
<1>2. PICK n \in Nat : n = Len(s) /\ DOMAIN s = 1..n
  BY LenProperties
<1>3. /\ Append(s, x) \in Seq(BufferType) /\ DOMAIN Append(s, x) = 1..n + 1
      /\ \A i \in 1..n : Append(s, x)[i] = s[i]
      /\ Append(s, x)[n + 1] = x
  BY <1>2, AppendProperties, LenProperties
<1>4. PICK a, b : a = Bare(s) /\ b = Bare(Append(s, x))
  OBVIOUS
<1>5. a \in [DOMAIN s -> PieceType] /\ b \in [DOMAIN Append(s, x) -> PieceType]
  BY <1>1, <1>3, <1>4
<1>6. \A i \in DOMAIN s : b[i] = a[i]
  BY <1>2, <1>3, <1>4 DEF Bare
<1>7. b[n + 1] = Shape(x)
  BY <1>3, <1>4 DEF Bare, Shape
<1>8. a \in Seq(PieceType) /\ b = Append(a, Shape(x)) /\ Shape(x) \in PieceType
  BY <1>2, <1>5, <1>6, <1>7, MapAppend
<1> QED BY <1>4, <1>8

LEMMA BareSeq == ASSUME NEW s \in Seq(BufferType) PROVE Bare(s) \in Seq(PieceType)
<1> DEFINE T == {t \in Seq(BufferType) : Bare(t) \in Seq(PieceType)}
<1>1. <<>> \in T
  BY BareEmpty, EmptySeq
<1>2. ASSUME NEW t \in Seq(BufferType), NEW x \in BufferType, t \in T PROVE Append(t, x) \in T
  <2>1. Bare(Append(t, x)) \in Seq(PieceType) /\ Append(t, x) \in Seq(BufferType)
    BY BareAppend, AppendProperties
  <2> QED BY <2>1
<1>3. s \in T
  <2> HIDE DEF T
  <2> QED BY <1>1, <1>2, AllSeqs
<1> QED BY <1>3

LEMMA BareConcat ==
    ASSUME NEW s \in Seq(BufferType), NEW t \in Seq(BufferType)
    PROVE  Bare(s \o t) = Bare(s) \o Bare(t)
<1> DEFINE T == {u \in Seq(BufferType) : Bare(s \o u) = Bare(s) \o Bare(u)}
<1>1. <<>> \in T
  BY BareEmpty, BareSeq, ConcatEmptySeq, EmptySeq
<1>2. ASSUME NEW u \in Seq(BufferType), NEW x \in BufferType, u \in T PROVE Append(u, x) \in T
  <2>1. s \o Append(u, x) = Append(s \o u, x) /\ s \o u \in Seq(BufferType)
    BY ConcatAppend
  <2>2. Bare(Append(s \o u, x)) = Append(Bare(s \o u), Shape(x))
    BY <2>1, BareAppend
  <2>3. Bare(Append(u, x)) = Append(Bare(u), Shape(x)) /\ Shape(x) \in PieceType
    BY BareAppend
  <2>4. Bare(s) \in Seq(PieceType) /\ Bare(u) \in Seq(PieceType)
    BY BareSeq
  <2>5. Append(Bare(s) \o Bare(u), Shape(x)) = Bare(s) \o Append(Bare(u), Shape(x))
    <3>1. PICK a, b, y : a = Bare(s) /\ b = Bare(u) /\ y = Shape(x)
      OBVIOUS
    <3>2. a \in Seq(PieceType) /\ b \in Seq(PieceType) /\ y \in PieceType
      BY <2>3, <2>4, <3>1
    <3>3. a \o Append(b, y) = Append(a \o b, y)
      BY ONLY <3>2, ConcatAppend
    <3> QED BY <3>1, <3>3
  <2>6. Bare(s \o u) = Bare(s) \o Bare(u)
    BY <1>2
  <2>7. Bare(s \o Append(u, x)) = Bare(s) \o Bare(Append(u, x))
    BY <2>1, <2>2, <2>3, <2>5, <2>6
  <2>8. Append(u, x) \in Seq(BufferType)
    BY AppendProperties
  <2> QED BY <2>7, <2>8
<1>3. t \in T
  <2> HIDE DEF T
  <2> QED BY <1>1, <1>2, AllSeqs
<1> QED BY <1>3

\* It does not matter which comes first.
LEMMA BareVisible ==
    ASSUME NEW s \in Seq(BufferType)
    PROVE  Bare(Visible(s)) = Visible(Bare(s))
<1> DEFINE T == {t \in Seq(BufferType) : Bare(Visible(t)) = Visible(Bare(t))}
<1>1. <<>> \in T
  BY BareEmpty, VisibleEmpty, EmptySeq
<1>2. ASSUME NEW t \in Seq(BufferType), NEW x \in BufferType, t \in T PROVE Append(t, x) \in T
  <2>1. Visible(t) \in Seq(BufferType) /\ Bare(t) \in Seq(PieceType) /\ Shape(x) \in PieceType
    BY VisibleSeq, BareAppend
  <2>2. Bare(Append(t, x)) = Append(Bare(t), Shape(x))
    BY BareAppend
  <2>3. Visible(Append(Bare(t), Shape(x))) = Visible(Bare(t)) \o Shown(Shape(x))
    BY <2>1, VisibleAppend
  <2>4. Visible(Append(t, x)) = Visible(t) \o Shown(x) /\ Shown(x) \in Seq(BufferType)
    BY VisibleAppend, EmptySeq DEF Shown
  <2>5. Bare(Visible(t) \o Shown(x)) = Bare(Visible(t)) \o Bare(Shown(x))
    BY <2>1, <2>4, BareConcat
  <2>6. Bare(Shown(x)) = Shown(Shape(x))
    <3>1. Shape(x).len = x.len
      BY DEF Shape
    <3>2. Bare(<<x>>) = <<Shape(x)>>
      <4>1. <<x>> = Append(<<>>, x) /\ <<Shape(x)>> = Append(<<>>, Shape(x))
        OBVIOUS
      <4>2. Bare(Append(<<>>, x)) = Append(Bare(<<>>), Shape(x))
        BY BareAppend, EmptySeq
      <4> QED BY <4>1, <4>2, BareEmpty
    <3> QED BY <3>1, <3>2, BareEmpty DEF Shown
  <2>7. Bare(Visible(t)) = Visible(Bare(t))
    BY <1>2
  <2>8. Bare(Visible(Append(t, x))) = Visible(Bare(Append(t, x)))
    BY <2>2, <2>3, <2>4, <2>5, <2>6, <2>7
  <2>9. Append(t, x) \in Seq(BufferType)
    BY AppendProperties
  <2> QED BY <2>8, <2>9
<1>3. s \in T
  <2> HIDE DEF T
  <2> QED BY <1>1, <1>2, AllSeqs
<1> QED BY <1>3

-----------------------------------------------------------------------------
(* page::generate *)

\* The model has all that the chunks ask for.
Complete(chunks, model) == \A i \in DOMAIN chunks : Generates(chunks[i], model)

\* Who owns the bytes of what a chunk generates.
OwnedBuffer(b, model) ==
    /\ b.owner # "headers"
    /\ b.owner = "model" => b.shows[2] \in DOMAIN model
    /\ b.owner = "temporary" => b.shows[1] = "debug"

LEMMA GenerateOwned ==
    ASSUME NEW c \in ChunkType, NEW model \in Models, Generates(c, model)
    PROVE  /\ Generate(c, model) \in Seq(BufferType)
           /\ \A k \in DOMAIN Generate(c, model) : OwnedBuffer(Generate(c, model)[k], model)
<1>0. /\ c.cmd \in Commands \cup {"raw"} /\ c.arg \in Words /\ c.pos \in Nat /\ c.len \in Nat
      /\ NoText \in Words
      /\ c.cmd \in Asking => c.arg \in DOMAIN model /\ model[c.arg] \in Nat
  BY ResponsesAssumption DEF ChunkType, Generates, Words
<1> DEFINE Single(b) == b \in BufferType /\ OwnedBuffer(b, model)
<1>1. ASSUME NEW b, Single(b), Generate(c, model) = <<b>>
      PROVE  /\ Generate(c, model) \in Seq(BufferType)
             /\ \A k \in DOMAIN Generate(c, model) : OwnedBuffer(Generate(c, model)[k], model)
  BY <1>1
<1>2. CASE c.cmd = "raw"
  <2>1. Generate(c, model) = <<Buffer("object", <<"raw", NoText, c.pos>>, c.len)>>
    BY <1>2 DEF Generate, raw_chunk
  <2>2. Single(Buffer("object", <<"raw", NoText, c.pos>>, c.len))
    BY <1>0 DEF Buffer, BufferType, Shows, OwnedBuffer
  <2> QED BY <1>1, <2>1, <2>2
<1>3. CASE c.cmd \in {"var", "toupper", "tolower"}
  <2>1. PICK owner \in {"model", "strings"} :
           Generate(c, model) = <<Buffer(owner, <<c.cmd, c.arg, 0>>, model[c.arg])>>
    BY <1>3 DEF Generate, var_chunk, toupper_chunk, tolower_chunk, Value
  <2>2. Single(Buffer(owner, <<c.cmd, c.arg, 0>>, model[c.arg]))
    BY <1>0, <1>3 DEF Buffer, BufferType, Shows, OwnedBuffer, Asking, Commands
  <2> QED BY <1>1, <2>1, <2>2
<1>4. CASE c.cmd \in {"time", "date"}
  <2>1. PICK len \in Nat : Generate(c, model) = <<Buffer("strings", <<c.cmd, c.arg, 0>>, len)>>
    BY <1>4 DEF Generate, time_chunk, date_chunk, Part
  <2>2. Single(Buffer("strings", <<c.cmd, c.arg, 0>>, len))
    BY <1>0, <1>4 DEF Buffer, BufferType, Shows, OwnedBuffer, Commands
  <2> QED BY <1>1, <2>1, <2>2
<1>5. CASE c.cmd = "debug"
  <2>1. Generate(c, model) = debug_chunk(c, model)
    BY <1>5 DEF Generate
  <2>2. \A owner \in {"temporary", "strings", "model"} : \A k, len \in Nat :
           Single(Part(owner, c, k, len))
    BY <1>0, <1>5 DEF Part, Buffer, BufferType, Shows, OwnedBuffer, Asking, Commands
  <2>3. model[c.arg] \in Nat
    BY <1>0, <1>5 DEF Asking
  <2>4. PICK b1, b2, b3, b4, b5 :
           /\ Single(b1) /\ Single(b2) /\ Single(b3) /\ Single(b4) /\ Single(b5)
           /\ debug_chunk(c, model) = <<b1, b2, b3, b4, b5>>
    <3>1. /\ Single(Part("temporary", c, 1, 16)) /\ Single(Part("strings", c, 2, 1))
          /\ Single(Part("temporary", c, 3, 4)) /\ Single(Part("model", c, 4, model[c.arg]))
          /\ Single(Part("temporary", c, 5, 1))
      BY <2>2, <2>3
    <3> HIDE DEF Single
    <3> QED BY <3>1 DEF debug_chunk
  <2>5. <<b1, b2, b3, b4, b5>> \in Seq(BufferType)
    BY <2>4
  <2>6. \A k \in 1..5 : OwnedBuffer(<<b1, b2, b3, b4, b5>>[k], model)
    BY <2>4
  <2> QED BY <2>1, <2>4, <2>5, <2>6
<1> QED BY <1>0, <1>2, <1>3, <1>4, <1>5 DEF Commands

LEMMA PageEmpty == ASSUME NEW model PROVE GeneratePage(<<>>, model) = <<>>
<1>1. [i \in DOMAIN <<>> |-> Generate(<<>>[i], model)] = <<>>
  OBVIOUS
<1> QED BY <1>1, FlattenEmpty DEF GeneratePage

LEMMA PageAppend ==
    ASSUME NEW model \in Models, NEW s \in Seq(ChunkType), NEW x \in ChunkType,
           Complete(s, model), Generates(x, model)
    PROVE  GeneratePage(Append(s, x), model) = GeneratePage(s, model) \o Generate(x, model)
<1>1. PICK n \in Nat : n = Len(s) /\ DOMAIN s = 1..n
  BY LenProperties
<1>2. /\ Append(s, x) \in Seq(ChunkType) /\ DOMAIN Append(s, x) = 1..n + 1
      /\ \A i \in 1..n : Append(s, x)[i] = s[i]
      /\ Append(s, x)[n + 1] = x
  BY <1>1, AppendProperties, LenProperties
<1> DEFINE all(t) == [i \in DOMAIN t |-> Generate(t[i], model)]
<1>3. PICK a, b : a = all(s) /\ b = all(Append(s, x))
  OBVIOUS
<1>4. GeneratePage(s, model) = FlattenSeq(a) /\ GeneratePage(Append(s, x), model) = FlattenSeq(b)
  BY <1>3 DEF GeneratePage
<1>5. \A i \in 1..n : Generate(s[i], model) \in Seq(BufferType)
  BY <1>1, GenerateOwned DEF Complete
<1>6. Generate(x, model) \in Seq(BufferType)
  BY GenerateOwned
<1>7. a \in [DOMAIN s -> Seq(BufferType)]
  BY <1>1, <1>3, <1>5
<1>8. \A i \in DOMAIN s : b[i] = a[i]
  BY <1>1, <1>2, <1>3
<1>9. b[n + 1] = Generate(x, model)
  BY <1>2, <1>3
<1>10. b \in [DOMAIN Append(s, x) -> Seq(BufferType)]
  <2>1. ASSUME NEW i \in 1..n + 1 PROVE b[i] \in Seq(BufferType)
    <3>1. i \in 1..n \/ i = n + 1
      OBVIOUS
    <3> QED BY <1>1, <1>6, <1>7, <1>8, <1>9, <3>1
  <2>2. b = [i \in 1..n + 1 |-> b[i]]
    BY <1>2, <1>3
  <2> QED BY <1>2, <2>1, <2>2
<1>11. a \in Seq(Seq(BufferType)) /\ b = Append(a, Generate(x, model))
  <2>1. a \in Seq(Seq(BufferType)) /\ b = Append(a, b[Len(s) + 1])
    BY ONLY s \in Seq(ChunkType), x \in ChunkType, <1>7, <1>8, <1>10, MapAppend
  <2> QED BY <1>1, <1>9, <2>1
<1> QED BY <1>4, <1>6, <1>11, FlattenAppend

\* The buffers of a page.
LEMMA PageOwned ==
    ASSUME NEW model \in Models, NEW s \in Seq(ChunkType), Complete(s, model)
    PROVE  /\ GeneratePage(s, model) \in Seq(BufferType)
           /\ \A k \in DOMAIN GeneratePage(s, model) : OwnedBuffer(GeneratePage(s, model)[k], model)
<1> DEFINE Owned(p) == p \in Seq(BufferType) /\ \A k \in DOMAIN p : OwnedBuffer(p[k], model)
           T == {t \in Seq(ChunkType) : Complete(t, model) => Owned(GeneratePage(t, model))}
<1>1. <<>> \in T
  <2>1. Owned(<<>>)
    BY EmptySeq
  <2>2. GeneratePage(<<>>, model) = <<>> /\ <<>> \in Seq(ChunkType)
    BY PageEmpty, EmptySeq
  <2> HIDE DEF Owned
  <2> QED BY <2>1, <2>2
<1>2. ASSUME NEW t \in Seq(ChunkType), NEW x \in ChunkType, t \in T PROVE Append(t, x) \in T
  <2>1. Append(t, x) \in Seq(ChunkType)
    BY AppendProperties
  <2> SUFFICES ASSUME Complete(Append(t, x), model)
               PROVE  Owned(GeneratePage(Append(t, x), model))
    BY <2>1
  <2>2. Complete(t, model) /\ Generates(x, model)
    <3>1. PICK n \in Nat : n = Len(t) /\ DOMAIN t = 1..n
      BY LenProperties
    <3>2. /\ DOMAIN Append(t, x) = 1..n + 1 /\ Append(t, x)[n + 1] = x
          /\ \A i \in 1..n : Append(t, x)[i] = t[i]
      BY <3>1, <2>1, AppendProperties, LenProperties
    <3>3. n + 1 \in 1..n + 1 /\ \A i \in 1..n : i \in 1..n + 1
      OBVIOUS
    <3> QED BY <3>1, <3>2, <3>3 DEF Complete
  <2>3. PICK p, q : p = GeneratePage(t, model) /\ q = Generate(x, model)
    OBVIOUS
  <2>4. GeneratePage(Append(t, x), model) = p \o q
    BY <2>2, <2>3, PageAppend
  <2>5. Owned(p) /\ Owned(q)
    BY <1>2, <2>2, <2>3, GenerateOwned
  <2>6. Owned(p \o q)
    <3>1. PICK m, n \in Nat : m = Len(p) /\ n = Len(q)
      BY <2>5, LenProperties
    <3>2. /\ p \o q \in Seq(BufferType) /\ DOMAIN (p \o q) = 1..m + n
          /\ \A i \in 1..m + n : (p \o q)[i] = IF i <= m THEN p[i] ELSE q[i - m]
      BY <2>5, <3>1, ConcatProperties, LenProperties
    <3>3. DOMAIN p = 1..m /\ DOMAIN q = 1..n
      BY <2>5, <3>1, LenProperties
    <3>4. ASSUME NEW i \in 1..m + n PROVE OwnedBuffer((p \o q)[i], model)
      <4>1. CASE i <= m
        BY <2>5, <3>2, <3>3, <4>1, i \in 1..m
      <4>2. CASE ~ (i <= m)
        BY <2>5, <3>2, <3>3, <4>2, i - m \in 1..n
      <4> QED BY <4>1, <4>2
    <3> QED BY <3>2, <3>4
  <2> QED BY <2>4, <2>6
<1>3. s \in T
  <2> HIDE DEF T
  <2> QED BY <1>1, <1>2, AllSeqs
<1> QED BY <1>3

-----------------------------------------------------------------------------
(* page::load *)

\* The loop of page::load: a function on 0..n is made of its first value and of
\* each next one.
Loading(src, so_far, i) == IF IsMatch(src, i) THEN LoadMatch(src, so_far, i) ELSE so_far

LEMMA LoadExists ==
    ASSUME NEW src, NEW n \in Nat
    PROVE  \E f : f = [i \in 0..n |-> IF i = 0 THEN NothingLoaded ELSE Loading(src, f[i - 1], i)]
<1> DEFINE Following(f, i) == IF i = 0 THEN NothingLoaded ELSE Loading(src, f[i - 1], i)
           T == {m \in Nat : \E f : f = [i \in 0..m |-> Following(f, i)]}
<1>1. 0 \in T
  <2> DEFINE f == [i \in 0..0 |-> NothingLoaded]
  <2>1. f = [i \in 0..0 |-> Following(f, i)]
    OBVIOUS
  <2> QED BY <2>1
<1>2. ASSUME NEW m \in Nat, m \in T PROVE m + 1 \in T
  <2>1. PICK g : g = [i \in 0..m |-> Following(g, i)]
    BY <1>2
  <2> DEFINE h == [i \in 0..m + 1 |-> IF i = m + 1 THEN Loading(src, g[m], m + 1) ELSE g[i]]
  <2>2. ASSUME NEW i \in 0..m + 1 PROVE h[i] = Following(h, i)
    <3>1. CASE i = 0
      BY <2>1, <3>1
    <3>2. CASE i \in 1..m
      <4>1. i # m + 1 /\ i - 1 # m + 1 /\ i \in 0..m /\ i - 1 \in 0..m + 1 /\ i # 0
        BY <3>2
      <4>2. h[i] = g[i] /\ h[i - 1] = g[i - 1]
        BY <4>1
      <4>3. g[i] = Following(g, i)
        BY <2>1, <4>1
      <4> QED BY <4>1, <4>2, <4>3
    <3>3. CASE i = m + 1
      <4>1. i - 1 = m /\ i - 1 \in 0..m + 1 /\ i # 0 /\ m # m + 1
        BY <3>3
      <4> QED BY <3>3, <4>1
    <3> QED BY <3>1, <3>2, <3>3
  <2>3. h = [i \in 0..m + 1 |-> Following(h, i)]
    BY <2>2
  <2> HIDE DEF h
  <2> QED BY <2>3
<1>3. n \in T
  <2> HIDE DEF T
  <2> QED BY <1>1, <1>2, AllNats
<1> QED BY <1>3

LEMMA LoadSteps ==
    ASSUME NEW src, NEW n \in Nat, n = Len(src)
    PROVE  /\ LoadMatches(src)[0] = NothingLoaded
           /\ \A i \in 1..n : LoadMatches(src)[i] = Loading(src, LoadMatches(src)[i - 1], i)
<1> DEFINE P(f) == f = [i \in 0..n |-> IF i = 0 THEN NothingLoaded
                                       ELSE Loading(src, f[i - 1], i)]
<1>1. \E f : P(f)
  BY LoadExists, ZenonT(120)
<1>2. LoadMatches(src) = CHOOSE f : P(f)
  BY DEF LoadMatches, Loading
<1>3. P(LoadMatches(src))
  <2> HIDE DEF P
  <2> QED BY <1>1, <1>2
<1> HIDE DEF LoadMatches
<1> QED BY <1>3

\* What is loaded of a sequence of items.
LoadedOf(s) == LoadMatches(s)[Len(s)]

LEMMA LoadEmpty == LoadedOf(<<>>) = NothingLoaded
<1>1. Len(<<>>) = 0
  BY EmptySeq
<1> QED BY <1>1, LoadSteps DEF LoadedOf

\* Where the items begin does not depend on those that come after.
LEMMA PositionAppend ==
    ASSUME NEW s \in Seq(Item), NEW x \in Item, NEW n \in Nat, n = Len(s)
    PROVE  /\ \A i \in 1..n : Position(Append(s, x), i) = Position(s, i)
           /\ Position(Append(s, x), n + 1) = Length(s)
<1>1. /\ Append(s, x) \in Seq(Item) /\ Len(Append(s, x)) = n + 1
      /\ \A i \in 1..n : Append(s, x)[i] = s[i]
  BY AppendProperties
<1>2. ASSUME NEW k \in 0..n PROVE SubSeq(Append(s, x), 1, k) = SubSeq(s, 1, k)
  <2>1. \A i \in 1..k : s[i] \in Item /\ Append(s, x)[i] = s[i]
    BY <1>1, ElementOfSeq
  <2>2. /\ SubSeq(s, 1, k) \in Seq(Item) /\ SubSeq(Append(s, x), 1, k) \in Seq(Item)
        /\ Len(SubSeq(s, 1, k)) = k /\ Len(SubSeq(Append(s, x), 1, k)) = k
        /\ \A i \in 1..k : SubSeq(s, 1, k)[i] = s[i]
        /\ \A i \in 1..k : SubSeq(Append(s, x), 1, k)[i] = Append(s, x)[i]
    BY <2>1, SubSeqProperties
  <2> QED BY <2>1, <2>2, SeqEqual
<1>3. ASSUME NEW i \in 1..n PROVE Position(Append(s, x), i) = Position(s, i)
  BY <1>2, i - 1 \in 0..n DEF Position
<1>4. SubSeq(Append(s, x), 1, n) = s
  BY <1>2, n \in 0..n, SubSeqFull
<1>5. (n + 1) - 1 = n
  OBVIOUS
<1> QED BY <1>3, <1>4, <1>5 DEF Position

LEMMA LoadAppend ==
    ASSUME NEW s \in Seq(Item), NEW x \in Item, NEW n \in Nat, n = Len(s)
    PROVE  LoadedOf(Append(s, x)) =
              IF x.is # "text" THEN LoadMatch(Append(s, x), LoadedOf(s), n + 1) ELSE LoadedOf(s)
<1> DEFINE t == Append(s, x)
<1>1. Len(t) = n + 1 /\ (\A i \in 1..n : t[i] = s[i]) /\ t[n + 1] = x
  BY AppendProperties
<1>2. \A i \in 1..n : Position(t, i) = Position(s, i)
  BY PositionAppend
<1> HIDE DEF t
<1>3. PICK f : /\ f = LoadMatches(s) /\ f[0] = NothingLoaded
               /\ \A i \in 1..n : f[i] = Loading(s, f[i - 1], i)
  BY LoadSteps
<1>4. PICK g : /\ g = LoadMatches(t) /\ g[0] = NothingLoaded
               /\ \A i \in 1..n + 1 : g[i] = Loading(t, g[i - 1], i)
  BY <1>1, LoadSteps
<1>5. \A i \in 1..n : \A v : Loading(t, v, i) = Loading(s, v, i)
  <2> SUFFICES ASSUME NEW i \in 1..n, NEW v PROVE Loading(t, v, i) = Loading(s, v, i)
    OBVIOUS
  <2>1. t[i] = s[i] /\ Position(t, i) = Position(s, i)
    BY <1>1, <1>2
  <2> QED BY ONLY <2>1 DEF Loading, LoadMatch, IsMatch
<1> DEFINE T == {i \in 0..n : f[i] = g[i]}
<1>6. \A i \in 0..n : i \in T
  <2>1. 0 \in T
    BY <1>3, <1>4
  <2>2. ASSUME NEW i \in 1..n, i - 1 \in T PROVE i \in T
    <3>1. f[i] = Loading(s, f[i - 1], i) /\ g[i] = Loading(t, g[i - 1], i)
      BY <1>3, <1>4, i \in 1..n + 1
    <3>2. f[i - 1] = g[i - 1]
      BY <2>2
    <3>3. f[i] = g[i]
      BY <1>5, <3>1, <3>2
    <3> QED BY <3>3
  <2> HIDE DEF T
  <2> QED BY <2>1, <2>2, AllAlong
<1>7. f[n] = g[n]
  BY <1>6
<1>8. g[n + 1] = Loading(t, g[n], n + 1)
  BY <1>4, n + 1 \in 1..n + 1, (n + 1) - 1 = n
<1>9. LoadedOf(s) = f[n] /\ LoadedOf(t) = g[n + 1]
  BY <1>1, <1>3, <1>4 DEF LoadedOf
<1> QED BY <1>1, <1>7, <1>8, <1>9 DEF Loading, IsMatch, t

\* What the items should show.
Items(s, model) == [i \in DOMAIN s |-> RenderedItem(s, i, model)]

LEMMA RenderAppend ==
    ASSUME NEW s \in Seq(Item), NEW x \in Item, NEW n \in Nat, n = Len(s), NEW model,
           Items(s, model) \in Seq(Seq(PieceType)),
           NEW last \in Seq(PieceType), last = RenderedItem(Append(s, x), n + 1, model)
    PROVE  /\ Items(Append(s, x), model) \in Seq(Seq(PieceType))
           /\ Rendered(Append(s, x), model) = Rendered(s, model) \o Visible(last)
           /\ Rendered(s, model) \in Seq(PieceType)
<1> DEFINE t == Append(s, x)
<1>1. Len(t) = n + 1 /\ t \in Seq(Item) /\ (\A i \in 1..n : t[i] = s[i]) /\ t[n + 1] = x
  BY AppendProperties
<1>2. \A i \in 1..n : Position(t, i) = Position(s, i)
  BY PositionAppend
<1> HIDE DEF t
<1>3. DOMAIN s = 1..n /\ DOMAIN t = 1..n + 1
  BY <1>1, LenProperties
<1>4. PICK a, b : a = Items(s, model) /\ b = Items(t, model)
  OBVIOUS
<1>5. a \in Seq(Seq(PieceType)) /\ Len(a) = n
  BY <1>3, <1>4, LenProperties DEF Items
<1>6. \A i \in 1..n : RenderedItem(t, i, model) = RenderedItem(s, i, model)
  <2> SUFFICES ASSUME NEW i \in 1..n PROVE RenderedItem(t, i, model) = RenderedItem(s, i, model)
    OBVIOUS
  <2>1. t[i] = s[i] /\ Position(t, i) = Position(s, i)
    BY <1>1, <1>2
  <2> QED BY ONLY <2>1 DEF RenderedItem
<1>7. (\A i \in 1..n : b[i] = a[i]) /\ b[n + 1] = last
  BY <1>3, <1>4, <1>6 DEF Items, t
<1>8. b \in [1..n + 1 -> Seq(PieceType)]
  <2>1. ASSUME NEW i \in 1..n + 1 PROVE b[i] \in Seq(PieceType)
    <3>1. i \in 1..n \/ i = n + 1
      OBVIOUS
    <3>2. \A k \in 1..n : a[k] \in Seq(PieceType)
      BY <1>5, ElementOfSeq
    <3> QED BY <1>7, <3>1, <3>2
  <2>2. b = [i \in 1..n + 1 |-> b[i]]
    BY <1>3, <1>4 DEF Items
  <2> QED BY <2>1, <2>2
<1>9. b = Append(a, last) /\ b \in Seq(Seq(PieceType))
  <2>1. b = Append(a, last)
    BY ONLY <1>5, <1>7, <1>8, last \in Seq(PieceType), n \in Nat, Extended
  <2> QED BY <1>5, <2>1, AppendProperties
<1>10. FlattenSeq(b) = FlattenSeq(a) \o last /\ FlattenSeq(a) \in Seq(PieceType)
  BY <1>5, <1>9, FlattenAppend, FlattenSeqs
<1>11. Rendered(s, model) = Visible(FlattenSeq(a)) /\ Rendered(t, model) = Visible(FlattenSeq(b))
  BY <1>4 DEF Rendered, Items
<1>12. /\ Visible(FlattenSeq(a) \o last) = Visible(FlattenSeq(a)) \o Visible(last)
       /\ Visible(FlattenSeq(a)) \in Seq(PieceType)
  BY <1>10, VisibleConcat, VisibleSeq
<1>13. /\ Items(t, model) \in Seq(Seq(PieceType))
       /\ Rendered(t, model) = Rendered(s, model) \o Visible(last)
       /\ Rendered(s, model) \in Seq(PieceType)
  BY ONLY <1>4, <1>9, <1>10, <1>11, <1>12
<1> QED BY <1>13 DEF t

-----------------------------------------------------------------------------
(* The page is what the template asks for *)

\* What the buffers of some chunks show.
Body(chunks, model) == Visible(Bare(GeneratePage(chunks, model)))

LEMMA BodyAppend ==
    ASSUME NEW model \in Models, NEW s \in Seq(ChunkType), NEW x \in ChunkType,
           Complete(s, model), Generates(x, model)
    PROVE  /\ Body(s, model) \in Seq(PieceType)
           /\ Visible(Bare(Generate(x, model))) \in Seq(PieceType)
           /\ Body(Append(s, x), model) = Body(s, model) \o Visible(Bare(Generate(x, model)))
<1>1. PICK p, q : p = GeneratePage(s, model) /\ q = Generate(x, model)
  OBVIOUS
<1>2. p \in Seq(BufferType) /\ q \in Seq(BufferType)
  BY <1>1, PageOwned, GenerateOwned
<1>3. GeneratePage(Append(s, x), model) = p \o q
  BY <1>1, PageAppend
<1>4. Bare(p \o q) = Bare(p) \o Bare(q) /\ Bare(p) \in Seq(PieceType) /\ Bare(q) \in Seq(PieceType)
  BY <1>2, BareConcat, BareSeq
<1>5. Visible(Bare(p) \o Bare(q)) = Visible(Bare(p)) \o Visible(Bare(q))
  BY <1>4, VisibleConcat
<1>6. Visible(Bare(p)) \in Seq(PieceType) /\ Visible(Bare(q)) \in Seq(PieceType)
  BY <1>4, VisibleSeq
<1> QED BY <1>1, <1>3, <1>4, <1>5, <1>6 DEF Body

LEMMA CompleteAppend ==
    ASSUME NEW model, NEW s \in Seq(ChunkType), NEW x \in ChunkType, Complete(Append(s, x), model)
    PROVE  Complete(s, model) /\ Generates(x, model)
<1>1. PICK n \in Nat : n = Len(s) /\ DOMAIN s = 1..n
  BY LenProperties
<1>2. /\ DOMAIN Append(s, x) = 1..n + 1 /\ Append(s, x)[n + 1] = x
      /\ \A i \in 1..n : Append(s, x)[i] = s[i]
  BY <1>1, AppendProperties, LenProperties
<1>3. n + 1 \in 1..n + 1 /\ \A i \in 1..n : i \in 1..n + 1
  OBVIOUS
<1> QED BY <1>1, <1>2, <1>3 DEF Complete

\* Text from one place to another.
Rest(from, to) == IF from < to THEN <<[shows |-> <<"raw", NoText, from>>, len |-> to - from]>> ELSE <<>>

\* One piece.
LEMMA VisibleOne == ASSUME NEW x PROVE Visible(<<x>>) = Shown(x)
<1>1. PICK S : x \in S
  BY x \in {x}
<1>2. <<x>> = Append(<<>>, x) /\ <<>> \in Seq(S) /\ Shown(x) \in Seq(S)
  BY <1>1, EmptySeq DEF Shown
<1>3. Visible(Append(<<>>, x)) = Visible(<<>>) \o Shown(x)
  BY <1>1, <1>2, VisibleAppend
<1> QED BY <1>2, <1>3, VisibleEmpty, ConcatEmptySeq

LEMMA BareOne == ASSUME NEW x PROVE Bare(<<x>>) = <<Shape(x)>>
BY DEF Bare, Shape

\* The buffers of the debug command.
LEMMA BareFive ==
    ASSUME NEW v, NEW w, NEW x, NEW y, NEW z
    PROVE  Bare(<<v, w, x, y, z>>) = <<Shape(v), Shape(w), Shape(x), Shape(y), Shape(z)>>
BY DEF Bare, Shape

\* A raw chunk shows its text.
LEMMA RawBody ==
    ASSUME NEW model \in Models, NEW from \in Nat, NEW to \in Nat, from <= to
    PROVE  /\ Raw(from, to - from) \in ChunkType /\ Generates(Raw(from, to - from), model)
           /\ Visible(Bare(Generate(Raw(from, to - from), model))) = Rest(from, to)
<1> DEFINE c == Raw(from, to - from)
           b == Buffer("object", <<"raw", NoText, from>>, to - from)
<1>1. to - from \in Nat
  OBVIOUS
<1>2. c \in ChunkType /\ Generates(c, model)
  BY <1>1 DEF Raw, ChunkType, Words, Generates, Asking
<1>3. Generate(c, model) = <<b>>
  BY DEF Generate, raw_chunk, Raw
<1>4. Shape(b) = [shows |-> <<"raw", NoText, from>>, len |-> to - from]
  BY DEF Shape, Buffer
<1>5. Visible(Bare(<<b>>)) = Shown(Shape(b))
  BY BareOne, VisibleOne
<1>6. Shown(Shape(b)) = Rest(from, to)
  BY <1>1, <1>4 DEF Shown, Rest
<1> QED BY <1>2, <1>3, <1>5, <1>6

\* A command shows what it should.
CommandOf(item) == IF item.cmd = NoText THEN "var" ELSE item.cmd

LEMMA CommandBody ==
    ASSUME NEW model \in Models, NEW s, NEW i, s[i] \in Item, s[i].is # "text",
           HasModule(CommandOf(s[i])), NEW c, c = ModuleChunk(CommandOf(s[i]), s[i].arg)
    PROVE  /\ c \in ChunkType
           /\ Generates(c, model) => /\ RenderedItem(s, i, model) \in Seq(PieceType)
                                     /\ Bare(Generate(c, model)) = RenderedItem(s, i, model)
<1>1. PICK x : x = s[i] /\ x \in Item /\ x.is # "text"
  OBVIOUS
<1>2. CommandOf(x) = IF x.is = "short" THEN "var" ELSE x.cmd
  BY <1>1 DEF Item, CommandOf
<1>3. CommandOf(x) \in Commands /\ x.arg \in Words
  BY <1>1 DEF HasModule, Item, Words
<1>4. /\ c \in ChunkType /\ c.cmd = CommandOf(x) /\ c.arg = x.arg
  BY <1>1, <1>3 DEF ModuleChunk, ChunkType, Words
<1> SUFFICES ASSUME Generates(c, model)
             PROVE  /\ RenderedItem(s, i, model) \in Seq(PieceType)
                    /\ Bare(Generate(c, model)) = RenderedItem(s, i, model)
  BY <1>4
<1>5. Generate(c, model) \in Seq(BufferType)
  BY <1>4, GenerateOwned
<1>6. Bare(Generate(c, model)) \in Seq(PieceType)
  BY <1>5, BareSeq
<1>7. Bare(Generate(c, model)) = RenderedItem(s, i, model)
  <2>1. CASE c.cmd \in {"var", "toupper", "tolower"}
    <3>1. PICK owner : Generate(c, model) = <<Buffer(owner, <<c.cmd, c.arg, 0>>, model[c.arg])>>
      BY <2>1 DEF Generate, var_chunk, toupper_chunk, tolower_chunk, Value
    <3>2. Bare(Generate(c, model)) = <<[shows |-> <<c.cmd, c.arg, 0>>, len |-> model[c.arg]]>>
      BY <3>1, BareOne DEF Shape, Buffer
    <3>3. RenderedItem(s, i, model) = <<[shows |-> <<c.cmd, c.arg, 0>>, len |-> model[c.arg]]>>
      BY <1>1, <1>2, <1>4, <2>1 DEF RenderedItem
    <3> QED BY <3>2, <3>3
  <2>2. CASE c.cmd = "time"
    <3>1. Bare(Generate(c, model)) = <<[shows |-> <<c.cmd, c.arg, 0>>, len |-> 5]>>
      BY <2>2, BareOne DEF Generate, time_chunk, Part, Shape, Buffer
    <3>2. RenderedItem(s, i, model) = <<[shows |-> <<c.cmd, c.arg, 0>>, len |-> 5]>>
      BY <1>1, <1>2, <1>4, <2>2 DEF RenderedItem
    <3> QED BY <3>1, <3>2
  <2>3. CASE c.cmd = "date"
    <3>1. Bare(Generate(c, model)) = <<[shows |-> <<c.cmd, c.arg, 0>>, len |-> 10]>>
      BY <2>3, BareOne DEF Generate, date_chunk, Part, Shape, Buffer
    <3>2. RenderedItem(s, i, model) = <<[shows |-> <<c.cmd, c.arg, 0>>, len |-> 10]>>
      BY <1>1, <1>2, <1>4, <2>3 DEF RenderedItem
    <3> QED BY <3>1, <3>2
  <2>4. CASE c.cmd = "debug"
    <3> DEFINE S(k, len) == [shows |-> <<c.cmd, c.arg, k>>, len |-> len]
    <3>1. Generate(c, model) = debug_chunk(c, model)
      BY <2>4 DEF Generate
    <3>2. Bare(debug_chunk(c, model))
             = <<S(1, 16), S(2, 1), S(3, 4), S(4, model[c.arg]), S(5, 1)>>
      <4>1. PICK o1, o2, o3, o4, o5 :
               debug_chunk(c, model) = <<Part(o1, c, 1, 16), Part(o2, c, 2, 1), Part(o3, c, 3, 4),
                                         Part(o4, c, 4, model[c.arg]), Part(o5, c, 5, 1)>>
        BY DEF debug_chunk
      <4>2. \A o, k, len : Shape(Part(o, c, k, len)) = S(k, len)
        BY DEF Shape, Part, Buffer
      <4> HIDE DEF S
      <4> QED BY ONLY <4>1, <4>2, BareFive
    <3>3. RenderedItem(s, i, model)
             = <<S(1, 16), S(2, 1), S(3, 4), S(4, model[c.arg]), S(5, 1)>>
      BY <1>1, <1>2, <1>4, <2>4 DEF RenderedItem
    <3> QED BY <3>1, <3>2, <3>3
  <2> QED BY <1>3, <1>4, <2>1, <2>2, <2>3, <2>4 DEF Commands
<1> QED BY <1>6, <1>7

\* What has been loaded of the first items, and the text since, show what they should.
Behind(s) == IF s # <<>> /\ s[Len(s)].is = "text" THEN s[Len(s)].len ELSE 0
LoadedWell(s) ==
    /\ LoadedOf(s) \in [state : {"ok"}, old_pos : Nat, chunks : Seq(ChunkType)]
    /\ LoadedOf(s).old_pos + Behind(s) = Length(s)
    /\ \A model \in Models : Complete(LoadedOf(s).chunks, model) =>
          /\ Items(s, model) \in Seq(Seq(PieceType))
          /\ Body(LoadedOf(s).chunks, model) \o Rest(LoadedOf(s).old_pos, Length(s))
                = Rendered(s, model)

LEMMA LoadedWellEmpty == LoadedWell(<<>>)
<1>1. /\ LoadedOf(<<>>).chunks = <<>> /\ LoadedOf(<<>>).old_pos = 0 /\ Length(<<>>) = 0
      /\ Behind(<<>>) = 0 /\ LoadedOf(<<>>) = NothingLoaded
  BY LoadEmpty, LengthEmpty DEF NothingLoaded, Behind
<1>2. ASSUME NEW model \in Models
      PROVE  /\ Items(<<>>, model) = <<>> /\ Rendered(<<>>, model) = <<>>
             /\ Body(<<>>, model) = <<>> /\ Rest(0, 0) = <<>>
  <2>1. Items(<<>>, model) = <<>>
    BY DEF Items
  <2>2. Rendered(<<>>, model) = Visible(FlattenSeq(Items(<<>>, model)))
    BY DEF Rendered, Items
  <2> QED BY <2>1, <2>2, FlattenEmpty, VisibleEmpty, PageEmpty, BareEmpty DEF Body, Rest
<1>3. <<>> \in Seq(ChunkType) /\ <<>> \in Seq(Seq(PieceType)) /\ <<>> \o <<>> = <<>>
  BY EmptySeq, ConcatEmptySeq
<1>4. PICK l : l = LoadedOf(<<>>) /\ l.chunks = <<>> /\ l.old_pos = 0
  BY <1>1
<1>5. \A model \in Models :
         /\ Items(<<>>, model) \in Seq(Seq(PieceType))
         /\ Body(l.chunks, model) \o Rest(l.old_pos, Length(<<>>)) = Rendered(<<>>, model)
  BY <1>1, <1>2, <1>3, <1>4
<1>6. /\ l \in [state : {"ok"}, old_pos : Nat, chunks : Seq(ChunkType)]
      /\ l.old_pos + Behind(<<>>) = Length(<<>>)
  <2>1. l.old_pos + Behind(<<>>) = Length(<<>>)
    BY ONLY <1>1, <1>4
  <2>2. l \in [state : {"ok"}, old_pos : Nat, chunks : Seq(ChunkType)]
    <3>1. l = [state |-> "ok", old_pos |-> 0, chunks |-> <<>>] /\ <<>> \in Seq(ChunkType)
      BY <1>1, <1>3, <1>4 DEF NothingLoaded
    <3> QED BY ONLY <3>1
  <2> QED BY <2>1, <2>2
<1> QED BY <1>4, <1>5, <1>6 DEF LoadedWell

LEMMA TemplateAppend ==
    ASSUME NEW s \in Seq(Item), NEW x \in Item, IsTemplate(Append(s, x))
    PROVE  IsTemplate(s) /\ (x.is = "text" => Behind(s) = 0)
<1>1. PICK n \in Nat : n = Len(s)
  BY LenProperties
<1>2. /\ Len(Append(s, x)) = n + 1 /\ Append(s, x)[n + 1] = x
      /\ \A i \in 1..n : Append(s, x)[i] = s[i]
  BY <1>1, AppendProperties
<1>3. IsTemplate(s)
  <2> SUFFICES ASSUME NEW i \in 2..n, s[i - 1].is = "text" PROVE s[i].is # "text"
    BY <1>1 DEF IsTemplate
  <2>1. i \in 2..n + 1 /\ i \in 1..n /\ i - 1 \in 1..n
    OBVIOUS
  <2> QED BY <1>2, <2>1 DEF IsTemplate
<1>4. ASSUME x.is = "text", s # <<>> PROVE s[n].is # "text"
  <2>1. n # 0
    BY <1>1, <1>4, EmptySeq
  <2>2. n + 1 \in 2..n + 1 /\ n \in 1..n /\ (n + 1) - 1 = n
    BY <2>1
  <2> QED BY <1>2, <1>4, <2>2 DEF IsTemplate
<1> QED BY <1>1, <1>3, <1>4 DEF Behind

LEMMA LoadedWellText ==
    ASSUME NEW s \in Seq(Item), NEW x \in Item, x.is = "text", Behind(s) = 0, LoadedWell(s)
    PROVE  LoadedWell(Append(s, x))
<1>1. PICK n \in Nat : n = Len(s)
  BY LenProperties
<1> DEFINE t == Append(s, x)
<1>2. t # <<>> /\ Len(t) = n + 1 /\ t[n + 1] = x
  BY <1>1, AppendProperties
<1>3. LoadedOf(t) = LoadedOf(s)
  BY <1>1, LoadAppend
<1>4. Length(t) = Length(s) + x.len /\ x.len \in Nat \ {0} /\ Length(s) \in Nat
  BY SizedTypes, LengthAppend, LengthNat DEF Item
<1>5. Behind(t) = x.len
  BY <1>2 DEF Behind
<1>6. LoadedOf(s).old_pos = Length(s) /\ LoadedOf(s).chunks \in Seq(ChunkType)
  BY <1>4 DEF LoadedWell
<1>7. Position(t, n + 1) = Length(s)
  BY <1>1, PositionAppend
<1> HIDE DEF t
<1>8. ASSUME NEW model \in Models, Complete(LoadedOf(s).chunks, model)
      PROVE  /\ Items(t, model) \in Seq(Seq(PieceType))
             /\ Body(LoadedOf(s).chunks, model) \o Rest(Length(s), Length(t)) = Rendered(t, model)
  <2>1. PICK y : y = [shows |-> <<"raw", NoText, Length(s)>>, len |-> x.len]
    OBVIOUS
  <2>2. y \in PieceType /\ <<y>> \in Seq(PieceType)
    BY <1>4, <2>1 DEF PieceType, Shows, Words
  <2>3. RenderedItem(t, n + 1, model) = <<y>>
    <3>1. x.cmd = NoText
      BY DEF Item
    <3> QED BY <1>2, <1>7, <2>1, <3>1 DEF RenderedItem, NoText
  <2>4. Items(s, model) \in Seq(Seq(PieceType))
    BY <1>8 DEF LoadedWell
  <2>5. /\ Items(t, model) \in Seq(Seq(PieceType))
        /\ Rendered(t, model) = Rendered(s, model) \o Visible(<<y>>)
        /\ Rendered(s, model) \in Seq(PieceType)
    BY <1>1, <2>2, <2>3, <2>4, RenderAppend DEF t
  <2>6. Visible(<<y>>) = <<y>> /\ Rest(Length(s), Length(t)) = <<y>>
    <3>1. y.len > 0 /\ Length(s) < Length(t) /\ Length(t) - Length(s) = x.len
      BY <1>4, <2>1
    <3> QED BY <2>1, <3>1, VisibleOne DEF Shown, Rest
  <2>7. Body(LoadedOf(s).chunks, model) = Rendered(s, model)
    <3>1. Rest(Length(s), Length(s)) = <<>>
      BY <1>4 DEF Rest
    <3>2. Body(LoadedOf(s).chunks, model) \o <<>> = Rendered(s, model)
      BY <1>6, <1>8, <3>1 DEF LoadedWell
    <3>3. Body(LoadedOf(s).chunks, model) \in Seq(PieceType)
      BY <1>6, <1>8, PageOwned, BareSeq, VisibleSeq DEF Body
    <3> QED BY <3>2, <3>3, ConcatEmptySeq
  <2> QED BY <2>5, <2>6, <2>7
<1>9. LoadedOf(t).old_pos + Behind(t) = Length(t)
  BY <1>3, <1>4, <1>5, <1>6
<1>10. LoadedWell(t)
  BY <1>3, <1>4, <1>6, <1>8, <1>9 DEF LoadedWell
<1> QED BY <1>10 DEF t

\* A match: the text since the last one, and the command.
LEMMA LoadedWellMatch ==
    ASSUME NEW s \in Seq(Item), NEW x \in Item, x.is # "text", LoadedWell(s),
           LoadedOf(s).state = "ok", LoadedOf(Append(s, x)).state = "ok"
    PROVE  LoadedWell(Append(s, x))
<1>1. PICK n \in Nat : n = Len(s)
  BY LenProperties
<1> DEFINE t == Append(s, x)
<1>2. t # <<>> /\ Len(t) = n + 1 /\ t[n + 1] = x
  BY <1>1, AppendProperties
<1>3. LoadedOf(t) = LoadMatch(t, LoadedOf(s), n + 1)
  BY <1>1, LoadAppend
<1>4. Position(t, n + 1) = Length(s)
  BY <1>1, PositionAppend
<1>5. Length(t) = Length(s) + x.len /\ x.len \in Nat \ {0} /\ Length(s) \in Nat
  BY SizedTypes, LengthAppend, LengthNat DEF Item
<1> HIDE DEF t
<1>6. PICK l, pos : l = LoadedOf(s) /\ pos = Length(s)
  OBVIOUS
<1>7. l.chunks \in Seq(ChunkType) /\ l.old_pos \in Nat /\ l.old_pos <= pos /\ pos \in Nat
  <2>1. Behind(s) \in Nat
    <3>1. s # <<>> => s[Len(s)] \in Item
      BY ElementOfSeq, EmptySeq
    <3> QED BY <3>1 DEF Behind, Item
  <2>2. /\ l.chunks \in Seq(ChunkType) /\ l.old_pos \in Nat
        /\ l.old_pos + Behind(s) = pos
    BY <1>6 DEF LoadedWell
  <2> QED BY <1>5, <1>6, <2>1, <2>2
<1>8. PICK raw, cmd : /\ raw = Raw(l.old_pos, pos - l.old_pos)
                      /\ cmd = ModuleChunk(CommandOf(x), x.arg)
  OBVIOUS
<1>9. /\ HasModule(CommandOf(x))
      /\ LoadedOf(t) = [state |-> "ok", old_pos |-> pos + x.len,
                        chunks |-> l.chunks \o <<raw>> \o <<cmd>>]
  <2>1. pos >= l.old_pos /\ <<raw>> # <<>>
    BY <1>7
  <2>2. LoadedOf(t) = LoadMatch(t, l, n + 1) /\ l.state = "ok" /\ LoadedOf(t).state = "ok"
    BY <1>3, <1>6 DEF t
  <2>3. HasModule(CommandOf(x))
    <3> SUFFICES ASSUME ~HasModule(CommandOf(x)) PROVE FALSE
      OBVIOUS
    <3>1. LoadMatch(t, l, n + 1) = [l EXCEPT !.state = "parse_error"]
      BY <1>2, <2>2 DEF LoadMatch, CommandOf
    <3>2. "state" \in DOMAIN l
      BY <1>6 DEF LoadedWell
    <3> QED BY <2>2, <3>1, <3>2
  <2>4. LoadMatch(t, l, n + 1)
           = [state |-> "ok", old_pos |-> pos + x.len, chunks |-> l.chunks \o <<raw>> \o <<cmd>>]
    BY <1>2, <1>4, <1>6, <1>8, <2>1, <2>2, <2>3 DEF LoadMatch, CommandOf
  <2> QED BY <2>2, <2>3, <2>4
<1>10. raw \in ChunkType /\ cmd \in ChunkType
  BY <1>2, <1>7, <1>8, <1>9 DEF Raw, ModuleChunk, ChunkType, HasModule, Item, Words
<1>11. PICK a, b : /\ a = Append(l.chunks, raw) /\ b = Append(a, cmd)
                   /\ a \in Seq(ChunkType) /\ b \in Seq(ChunkType)
  <2>1. Append(l.chunks, raw) \in Seq(ChunkType)
    BY <1>7, <1>10, AppendProperties
  <2>2. Append(Append(l.chunks, raw), cmd) \in Seq(ChunkType)
    BY <1>10, <2>1, AppendProperties
  <2> QED BY <2>1, <2>2
<1>12. LoadedOf(t) = [state |-> "ok", old_pos |-> pos + x.len, chunks |-> b]
  <2>1. l.chunks \o <<raw>> \o <<cmd>> = b
    BY <1>7, <1>10, <1>11, AppendIsConcat
  <2> QED BY <1>9, <2>1
<1>13. ASSUME NEW model \in Models, Complete(b, model)
       PROVE  /\ Items(t, model) \in Seq(Seq(PieceType))
              /\ Body(b, model) \o Rest(Length(t), Length(t)) = Rendered(t, model)
  <2>1. Complete(a, model) /\ Generates(cmd, model)
    BY <1>10, <1>11, <1>13, CompleteAppend
  <2>2. Complete(l.chunks, model)
    BY <1>7, <1>10, <1>11, <2>1, CompleteAppend
  <2>3. /\ Items(s, model) \in Seq(Seq(PieceType))
        /\ Body(l.chunks, model) \o Rest(l.old_pos, pos) = Rendered(s, model)
    BY <1>6, <2>2 DEF LoadedWell
  <2>4. Generates(raw, model) /\ Visible(Bare(Generate(raw, model))) = Rest(l.old_pos, pos)
    BY <1>7, <1>8, RawBody
  <2>5. Body(a, model) = Body(l.chunks, model) \o Visible(Bare(Generate(raw, model)))
    BY <1>7, <1>10, <1>11, <2>2, <2>4, BodyAppend
  <2>6. Body(a, model) = Rendered(s, model)
    BY <2>3, <2>4, <2>5
  <2>7. PICK y : /\ y = RenderedItem(t, n + 1, model) /\ y \in Seq(PieceType)
                 /\ Bare(Generate(cmd, model)) = y
    <3>1. t[n + 1] \in Item /\ t[n + 1].is # "text" /\ HasModule(CommandOf(t[n + 1]))
      BY <1>2, <1>9
    <3>2. cmd = ModuleChunk(CommandOf(t[n + 1]), t[n + 1].arg)
      BY <1>2, <1>8
    <3> QED BY <2>1, <3>1, <3>2, CommandBody
  <2>8. /\ Body(b, model) = Body(a, model) \o Visible(y)
        /\ Body(b, model) \in Seq(PieceType)
    <3>1. Body(b, model) = Body(a, model) \o Visible(y)
      BY <1>10, <1>11, <2>1, <2>7, BodyAppend
    <3>2. Body(b, model) \in Seq(PieceType)
      BY <1>11, <1>13, PageOwned, BareSeq, VisibleSeq DEF Body
    <3> QED BY <3>1, <3>2
  <2>9. /\ Items(t, model) \in Seq(Seq(PieceType))
        /\ Rendered(t, model) = Rendered(s, model) \o Visible(y)
    <3>1. y = RenderedItem(Append(s, x), n + 1, model)
      BY <2>7 DEF t
    <3>2. /\ Items(Append(s, x), model) \in Seq(Seq(PieceType))
          /\ Rendered(Append(s, x), model) = Rendered(s, model) \o Visible(y)
          /\ Rendered(s, model) \in Seq(PieceType)
      <4>1. n \in Nat /\ n = Len(s) /\ y \in Seq(PieceType)
        BY <1>1, <2>7
      <4>2. Items(s, model) \in Seq(Seq(PieceType))
        BY <2>3
      <4>3. \A last \in Seq(PieceType) : last = RenderedItem(Append(s, x), n + 1, model) =>
               /\ Items(Append(s, x), model) \in Seq(Seq(PieceType))
               /\ Rendered(Append(s, x), model) = Rendered(s, model) \o Visible(last)
               /\ Rendered(s, model) \in Seq(PieceType)
        BY <4>1, <4>2, RenderAppend
      <4> QED BY <3>1, <4>1, <4>3
    <3> QED BY <3>2 DEF t
  <2>10. Rest(Length(t), Length(t)) = <<>>
    BY <1>5 DEF Rest, t
  <2>11. Body(b, model) \o <<>> = Body(b, model)
    BY <2>8, ConcatEmptySeq
  <2> QED BY <2>6, <2>8, <2>9, <2>10, <2>11
<1>14. Length(t) \in Nat /\ Length(t) = pos + x.len /\ Behind(t) = 0
  BY <1>2, <1>5, <1>6 DEF Behind, t
<1>15. LoadedWell(t)
  <2>1. LoadedOf(t) \in [state : {"ok"}, old_pos : Nat, chunks : Seq(ChunkType)]
    BY <1>11, <1>12, <1>14
  <2>2. LoadedOf(t).chunks = b /\ LoadedOf(t).old_pos = Length(t)
    BY <1>12, <1>14
  <2>3. LoadedOf(t).old_pos + Behind(t) = Length(t)
    BY <1>14, <2>2
  <2> QED BY <1>13, <2>1, <2>2, <2>3 DEF LoadedWell
<1> QED BY <1>15 DEF t

\* As long as nothing has failed.
LEMMA LoadedTrue ==
    ASSUME NEW src, IsTemplate(src), LoadedOf(src).state = "ok"
    PROVE  LoadedWell(src)
<1> DEFINE T == {s \in Seq(Item) : IsTemplate(s) /\ LoadedOf(s).state = "ok" => LoadedWell(s)}
<1>1. <<>> \in T
  BY LoadedWellEmpty, EmptySeq
<1>2. ASSUME NEW s \in Seq(Item), NEW x \in Item, s \in T PROVE Append(s, x) \in T
  <2>1. Append(s, x) \in Seq(Item)
    BY AppendProperties
  <2> SUFFICES ASSUME IsTemplate(Append(s, x)), LoadedOf(Append(s, x)).state = "ok"
               PROVE  LoadedWell(Append(s, x))
    BY <2>1
  <2>2. IsTemplate(s) /\ (x.is = "text" => Behind(s) = 0)
    BY TemplateAppend
  <2>3. PICK n \in Nat : n = Len(s)
    BY LenProperties
  <2>4. CASE x.is = "text"
    <3>1. LoadedOf(Append(s, x)) = LoadedOf(s)
      BY <2>3, <2>4, LoadAppend
    <3>2. LoadedWell(s)
      BY <1>2, <2>2, <3>1
    <3> QED BY <2>2, <2>4, <3>2, LoadedWellText
  <2>5. CASE x.is # "text"
    <3>1. LoadedOf(Append(s, x)) = LoadMatch(Append(s, x), LoadedOf(s), n + 1)
      BY <2>3, <2>5, LoadAppend
    <3>2. LoadedOf(s).state = "ok"
      BY <3>1 DEF LoadMatch
    <3>3. LoadedWell(s)
      BY <1>2, <2>2, <3>2
    <3> QED BY <2>5, <3>2, <3>3, LoadedWellMatch
  <2> QED BY <2>4, <2>5
<1>3. src \in T
  <2> HIDE DEF T
  <2>1. src \in Seq(Item)
    BY DEF IsTemplate
  <2> QED BY <1>1, <1>2, <2>1, AllSeqs
<1> QED BY <1>3

\* page::load and page::generate together give the page the template asks for.
THEOREM PageTrue ==
    ASSUME NEW src, IsTemplate(src), NEW chunks, chunks = Load(src).chunks
    PROVE  /\ chunks \in Seq(ChunkType)
           /\ Load(src).state = "ok" => \A model \in Models : Complete(chunks, model) =>
                 Visible(Bare(GeneratePage(chunks, model))) = Rendered(src, model)
<1>1. Load(src) = [state |-> LoadedOf(src).state,
                   chunks |-> IF LoadedOf(src).state = "ok" THEN LoadTail(src, LoadedOf(src)) ELSE <<>>]
  BY DEF Load, LoadedOf
<1>2. CASE LoadedOf(src).state # "ok"
  BY <1>1, <1>2, EmptySeq
<1>3. CASE LoadedOf(src).state = "ok"
  <2>1. LoadedWell(src)
    BY <1>3, LoadedTrue
  <2>2. chunks = LoadTail(src, LoadedOf(src))
    BY <1>1, <1>3
  <2>3. PICK l, to : l = LoadedOf(src) /\ to = Length(src)
    OBVIOUS
  <2>4. l.chunks \in Seq(ChunkType) /\ l.old_pos \in Nat /\ to \in Nat /\ l.old_pos <= to
    <3>1. to \in Nat
      BY <2>3, SizedTypes, LengthNat DEF IsTemplate
    <3>2. Behind(src) \in Nat
      <4>1. src # <<>> => src[Len(src)] \in Item
        BY ElementOfSeq, EmptySeq DEF IsTemplate
      <4> QED BY <4>1 DEF Behind, Item
    <3>3. l.chunks \in Seq(ChunkType) /\ l.old_pos \in Nat /\ l.old_pos + Behind(src) = to
      BY <2>1, <2>3 DEF LoadedWell
    <3> QED BY <3>1, <3>2, <3>3
  <2>5. \A model \in Models : Complete(l.chunks, model) =>
           Body(l.chunks, model) \o Rest(l.old_pos, to) = Rendered(src, model)
    BY <2>1, <2>3 DEF LoadedWell
  <2>6. CASE l.old_pos < to
    <3>1. PICK raw : raw = Raw(l.old_pos, to - l.old_pos)
      OBVIOUS
    <3>2. chunks = Append(l.chunks, raw)
      BY <2>2, <2>3, <2>6, <3>1 DEF LoadTail
    <3>3. raw \in ChunkType
      BY <2>4, <3>1 DEF Raw, ChunkType, Words
    <3>4. chunks \in Seq(ChunkType)
      BY <2>4, <3>2, <3>3, AppendProperties
    <3>5. ASSUME NEW model \in Models, Complete(chunks, model)
          PROVE  Body(chunks, model) = Rendered(src, model)
      <4>1. Complete(l.chunks, model)
        BY <2>4, <3>2, <3>3, <3>5, CompleteAppend
      <4>2. Generates(raw, model) /\ Visible(Bare(Generate(raw, model))) = Rest(l.old_pos, to)
        BY <2>4, <3>1, RawBody
      <4>3. Body(chunks, model) = Body(l.chunks, model) \o Visible(Bare(Generate(raw, model)))
        BY <2>4, <3>2, <3>3, <4>1, <4>2, BodyAppend
      <4> QED BY <2>5, <4>1, <4>2, <4>3
    <3> QED BY <3>4, <3>5 DEF Body
  <2>7. CASE ~ (l.old_pos < to)
    <3>1. chunks = l.chunks
      BY <2>2, <2>3, <2>7 DEF LoadTail
    <3>2. ASSUME NEW model \in Models, Complete(chunks, model)
          PROVE  Body(chunks, model) = Rendered(src, model)
      <4>1. Rest(l.old_pos, to) = <<>>
        BY <2>7 DEF Rest
      <4>2. Body(chunks, model) \in Seq(PieceType)
        BY <2>4, <3>1, <3>2, PageOwned, BareSeq, VisibleSeq DEF Body
      <4>3. Body(chunks, model) \o <<>> = Rendered(src, model)
        BY <2>5, <3>1, <3>2, <4>1
      <4> QED BY <4>2, <4>3, ConcatEmptySeq
    <3> QED BY <2>4, <3>1, <3>2 DEF Body
  <2> QED BY <2>6, <2>7
<1> QED BY <1>2, <1>3

-----------------------------------------------------------------------------
(* Responses in the making *)

ResponseFields == {"status", "method", "path", "headers", "length", "buffers", "holds", "model",
                   "what", "of", "asked", "floor", "seen"}

\* A response: to what (status, method and path), what it keeps and is made of (holds, of
\* and model), what it tells (what and length), and the buffers of its body.
Draft(r, head, kept, told, body) ==
    /\ DOMAIN r = ResponseFields
    /\ <<r.status, r.method, r.path>> = head
    /\ <<r.holds, r.of, r.model>> = kept
    /\ <<r.what, r.length>> = told
    /\ r.headers \in Nat /\ body \in Seq(BufferType)
    /\ r.buffers = <<HeadersBuffer(r.headers)>> \o body

LEMMA HeadersType == ASSUME NEW n \in Nat PROVE HeadersBuffer(n) \in BufferType
BY DEF HeadersBuffer, Buffer, BufferType, Shows, Words

\* A buffer in front of others: another one takes its place.
LEMMA FrontExcept ==
    ASSUME NEW S, NEW x \in S, NEW y \in S, NEW b \in Seq(S)
    PROVE  [(<<x>> \o b) EXCEPT ![1] = y] = <<y>> \o b
<1>h. /\ <<x>> \in Seq(S) /\ Len(<<x>>) = 1 /\ <<x>>[1] = x
      /\ <<y>> \in Seq(S) /\ Len(<<y>>) = 1 /\ <<y>>[1] = y
  OBVIOUS
<1>1. PICK n \in Nat : n = Len(b)
  BY LenProperties
<1>2. PICK s : s = <<x>> \o b
  OBVIOUS
<1>3. /\ s \in Seq(S) /\ Len(s) = n + 1
      /\ \A i \in 1..n + 1 : s[i] = IF i = 1 THEN x ELSE b[i - 1]
  <2>1. /\ s \in Seq(S) /\ Len(s) = 1 + n
        /\ \A i \in 1..1 + n : s[i] = IF i <= 1 THEN <<x>>[i] ELSE b[i - 1]
    BY <1>1, <1>2, <1>h, ConcatProperties
  <2>2. 1 + n = n + 1 /\ \A i \in 1..n + 1 : i <= 1 <=> i = 1
    OBVIOUS
  <2> QED BY <1>h, <2>1, <2>2
<1>t. PICK t : t = <<y>> \o b
  OBVIOUS
<1>4. /\ t \in Seq(S) /\ Len(t) = n + 1
      /\ \A i \in 1..n + 1 : t[i] = IF i = 1 THEN y ELSE b[i - 1]
  <2>1. /\ t \in Seq(S) /\ Len(t) = 1 + n
        /\ \A i \in 1..1 + n : t[i] = IF i <= 1 THEN <<y>>[i] ELSE b[i - 1]
    BY <1>1, <1>t, <1>h, ConcatProperties
  <2>2. 1 + n = n + 1 /\ \A i \in 1..n + 1 : i <= 1 <=> i = 1
    OBVIOUS
  <2> QED BY <1>h, <2>1, <2>2
<1>5. 1 \in 1..Len(s)
  BY <1>3
<1>6. PICK e : e = [s EXCEPT ![1] = y]
  OBVIOUS
<1>7. e \in Seq(S) /\ Len(e) = n + 1 /\ \A i \in 1..n + 1 : e[i] = IF i = 1 THEN y ELSE s[i]
  <2>1. /\ [s EXCEPT ![1] = y] \in Seq(S) /\ Len([s EXCEPT ![1] = y]) = Len(s)
        /\ \A j \in 1..Len(s) : [s EXCEPT ![1] = y][j] = IF j = 1 THEN y ELSE s[j]
    BY <1>3, <1>5, ExceptSeq
  <2> QED BY <1>3, <1>6, <2>1
<1>8. \A i \in 1..n + 1 : e[i] = t[i]
  BY <1>3, <1>4, <1>7
<1>9. e = t
  BY <1>3, <1>4, <1>7, <1>8, SeqEqual
<1> QED BY <1>2, <1>t, <1>6, <1>9

\* One more at the end.
LEMMA FrontAppend ==
    ASSUME NEW S, NEW x \in S, NEW b \in Seq(S), NEW z \in S
    PROVE  Append(<<x>> \o b, z) = <<x>> \o Append(b, z)
<1>1. <<x>> \in Seq(S)
  OBVIOUS
<1> QED BY <1>1, ConcatAppend

\* More at the end.
LEMMA FrontConcat ==
    ASSUME NEW S, NEW x \in S, NEW b \in Seq(S), NEW c \in Seq(S)
    PROVE  (<<x>> \o b) \o c = <<x>> \o (b \o c)
<1>1. <<x>> \in Seq(S)
  OBVIOUS
<1> QED BY <1>1, ConcatAssociative

\* The first alone.
LEMMA FrontOnly ==
    ASSUME NEW S, NEW x \in S, NEW b \in Seq(S)
    PROVE  SubSeq(<<x>> \o b, 1, 1) = <<x>> \o <<>>
<1>h. <<x>> \in Seq(S) /\ Len(<<x>>) = 1 /\ <<x>>[1] = x
  OBVIOUS
<1>1. PICK n \in Nat : n = Len(b)
  BY LenProperties
<1>2. PICK s : s = <<x>> \o b
  OBVIOUS
<1>3. /\ s \in Seq(S) /\ Len(s) = n + 1
      /\ \A i \in 1..n + 1 : s[i] = IF i = 1 THEN x ELSE b[i - 1]
  <2>1. /\ s \in Seq(S) /\ Len(s) = 1 + n
        /\ \A i \in 1..1 + n : s[i] = IF i <= 1 THEN <<x>>[i] ELSE b[i - 1]
    BY <1>1, <1>2, <1>h, ConcatProperties
  <2>2. 1 + n = n + 1 /\ \A i \in 1..n + 1 : i <= 1 <=> i = 1
    OBVIOUS
  <2> QED BY <1>h, <2>1, <2>2
<1>4. \A i \in 1..1 : s[i] \in S
  BY <1>3
<1>5. /\ SubSeq(s, 1, 1) \in Seq(S) /\ Len(SubSeq(s, 1, 1)) = 1
      /\ \A i \in 1..1 : SubSeq(s, 1, 1)[i] = s[i]
  BY <1>4, SubSeqProperties
<1>6. <<x>> \in Seq(S) /\ Len(<<x>>) = 1 /\ <<x>>[1] = x
  OBVIOUS
<1>s. s[1] = x
  BY <1>3, 1 \in 1..n + 1
<1>7. \A i \in 1..1 : SubSeq(s, 1, 1)[i] = <<x>>[i]
  BY <1>s, <1>5, <1>6
<1>8. SubSeq(s, 1, 1) = <<x>>
  BY <1>5, <1>6, <1>7, SeqEqual
<1> QED BY <1>2, <1>6, <1>8, ConcatEmptySeq

\* All but the first.
LEMMA FrontTail ==
    ASSUME NEW S, NEW x \in S, NEW b \in Seq(S)
    PROVE  Tail(<<x>> \o b) = b
<1>h. <<x>> \in Seq(S) /\ Len(<<x>>) = 1 /\ <<x>>[1] = x
  OBVIOUS
<1>1. PICK n \in Nat : n = Len(b)
  BY LenProperties
<1>2. PICK s : s = <<x>> \o b
  OBVIOUS
<1>3. /\ s \in Seq(S) /\ Len(s) = n + 1
      /\ \A i \in 1..n + 1 : s[i] = IF i = 1 THEN x ELSE b[i - 1]
  <2>1. /\ s \in Seq(S) /\ Len(s) = 1 + n
        /\ \A i \in 1..1 + n : s[i] = IF i <= 1 THEN <<x>>[i] ELSE b[i - 1]
    BY <1>1, <1>2, <1>h, ConcatProperties
  <2>2. 1 + n = n + 1 /\ \A i \in 1..n + 1 : i <= 1 <=> i = 1
    OBVIOUS
  <2> QED BY <1>h, <2>1, <2>2
<1>4. s # <<>>
  BY <1>3, EmptySeq
<1>5. Tail(s) \in Seq(S) /\ Len(Tail(s)) = n /\ \A i \in 1..n : Tail(s)[i] = s[i + 1]
  BY <1>3, <1>4, HeadTailProperties
<1>6. \A i \in 1..n : s[i + 1] = b[i]
  <2>1. ASSUME NEW i \in 1..n PROVE s[i + 1] = b[i]
    <3>1. i + 1 \in 1..n + 1 /\ i + 1 # 1 /\ (i + 1) - 1 = i
      OBVIOUS
    <3> QED BY <1>3, <3>1
  <2> QED BY <2>1
<1> QED BY <1>1, <1>2, <1>5, <1>6, SeqEqual

LEMMA NewDraft ==
    ASSUME NEW status, NEW method, NEW path
    PROVE  Draft(Response(status, method, path), <<status, method, path>>,
                 <<NoObject, NoObject, NoModel>>, <<"nothing", 0>>, <<>>)
<1>1. <<HeadersBuffer(1)>> \o <<>> = <<HeadersBuffer(1)>> /\ <<>> \in Seq(BufferType)
  BY HeadersType, ConcatEmptySeq, EmptySeq, <<HeadersBuffer(1)>> \in Seq(BufferType)
<1> QED BY <1>1 DEF Draft, Response, ResponseFields

LEMMA HeaderDraft ==
    ASSUME NEW r, NEW head, NEW kept, NEW told, NEW body, Draft(r, head, kept, told, body)
    PROVE  Draft(add_header(r), head, kept, told, body)
<1>1. PICK n \in Nat : n = r.headers
  BY DEF Draft
<1>2. PICK b : b = [(<<HeadersBuffer(n)>> \o body) EXCEPT ![1] = HeadersBuffer(n + 1)]
  OBVIOUS
<1>3. b = <<HeadersBuffer(n + 1)>> \o body
  <2>1. HeadersBuffer(n) \in BufferType /\ HeadersBuffer(n + 1) \in BufferType
    BY HeadersType
  <2>2. body \in Seq(BufferType)
    BY DEF Draft
  <2>3. PICK x, y : x = HeadersBuffer(n) /\ y = HeadersBuffer(n + 1)
    OBVIOUS
  <2> QED BY <1>2, <2>1, <2>2, <2>3, FrontExcept
<1>4. add_header(r) = [r EXCEPT !.headers = n + 1, !.buffers = b]
  BY <1>1, <1>2 DEF add_header, Draft, ResponseFields
<1> QED BY <1>3, <1>4 DEF Draft, ResponseFields

LEMMA DecoratedDraft ==
    ASSUME NEW r, NEW head, NEW kept, NEW told, NEW body, Draft(r, head, kept, told, body), NEW typed
    PROVE  /\ Draft(reset_cookie(r), head, kept, told, body)
           /\ Draft(add_server_name(r), head, kept, told, body)
           /\ Draft(Typed(r, typed), head, kept, told, body)
BY HeaderDraft DEF reset_cookie, add_server_name, Typed

LEMMA LengthDraft ==
    ASSUME NEW r, NEW head, NEW kept, NEW told, NEW body, Draft(r, head, kept, told, body), NEW n
    PROVE  Draft(content_length(r, n), head, kept, <<told[1], n>>, body)
<1>1. PICK s : s = add_header(r) /\ Draft(s, head, kept, told, body)
  BY HeaderDraft
<1>2. content_length(r, n) = [s EXCEPT !.length = n]
  BY <1>1 DEF content_length
<1> QED BY <1>1, <1>2 DEF Draft, ResponseFields

LEMMA AddDraft ==
    ASSUME NEW r, NEW head, NEW kept, NEW told, NEW body, Draft(r, head, kept, told, body),
           NEW b \in BufferType
    PROVE  Draft(add_body(r, b), head, kept, told, Append(body, b))
<1>1. Append(r.buffers, b) = <<HeadersBuffer(r.headers)>> \o Append(body, b)
  <2>1. HeadersBuffer(r.headers) \in BufferType /\ body \in Seq(BufferType)
    BY HeadersType DEF Draft
  <2>2. r.buffers = <<HeadersBuffer(r.headers)>> \o body
    BY DEF Draft
  <2>3. PICK x : x = HeadersBuffer(r.headers)
    OBVIOUS
  <2> QED BY <2>1, <2>2, <2>3, FrontAppend
<1>2. Append(body, b) \in Seq(BufferType)
  BY AppendProperties DEF Draft
<1> QED BY <1>1, <1>2 DEF add_body, Draft, ResponseFields

LEMMA HoldDraft ==
    ASSUME NEW r, NEW head, NEW kept, NEW told, NEW body, Draft(r, head, kept, told, body),
           NEW object
    PROVE  Draft(Hold(r, object), head, <<object, kept[2], kept[3]>>, told, body)
BY DEF Hold, Draft, ResponseFields

-----------------------------------------------------------------------------
(* The responses the hosts make *)

None == <<NoObject, NoObject, NoModel>>

LEMMA BodyMade ==
    ASSUME NEW status, NEW method, NEW path, NEW need_cache \in BOOLEAN
    PROVE  \E b \in BufferType :
              /\ b = BodyBuffer(b.owner, BodyLength) /\ b.owner \in {"strings", "static"}
              /\ Draft(response_with_body(status, method, path, need_cache),
                       <<status, method, path>>, None, <<"body", BodyLength>>,
                       IF method = "HEAD" THEN <<>> ELSE <<b>>)
<1> DEFINE head == <<status, method, path>>
           r0 == Typed(add_server_name(Response(status, method, path)), TRUE)
           r == content_length(r0, BodyLength)
           s == [r EXCEPT !.what = "body"]
           b == BodyBuffer(IF need_cache THEN "strings" ELSE "static", BodyLength)
<1>1. Draft(r0, head, None, <<"nothing", 0>>, <<>>)
  BY NewDraft, DecoratedDraft DEF None
<1>2. response_with_body(status, method, path, need_cache) =
         IF method = "HEAD" THEN s ELSE add_body(s, b)
  BY DEF response_with_body
<1>3. b \in BufferType /\ b.owner \in {"strings", "static"} /\ b = BodyBuffer(b.owner, BodyLength)
  BY DEF BodyBuffer, Buffer, BufferType, Shows, Words, BodyLength
<1> HIDE DEF r0, b, head
<1>4. Draft(r, head, None, <<"nothing", BodyLength>>, <<>>)
  BY <1>1, LengthDraft
<1> HIDE DEF r
<1>5. Draft(s, head, None, <<"body", BodyLength>>, <<>>)
  BY <1>4 DEF Draft, ResponseFields
<1> HIDE DEF s
<1>6. Draft(add_body(s, b), head, None, <<"body", BodyLength>>, <<b>>)
  <2>1. Append(<<>>, b) = <<b>>
    OBVIOUS
  <2> QED BY <1>3, <1>5, <2>1, AddDraft
<1>7. Draft(response_with_body(status, method, path, need_cache), head, None, <<"body", BodyLength>>,
            IF method = "HEAD" THEN <<>> ELSE <<b>>)
  BY <1>2, <1>5, <1>6
<1> QED BY <1>3, <1>7 DEF head

LEMMA RedirectMade ==
    ASSUME NEW method, NEW path
    PROVE  Draft(redirect_response(method, path), <<"see_other", method, path>>, None,
                 <<"nothing", 0>>, <<>>)
<1> DEFINE r == add_header(add_server_name(Response("see_other", method, path)))
           head == <<"see_other", method, path>>
<1>1. Draft(r, head, None, <<"nothing", 0>>, <<>>)
  BY NewDraft, DecoratedDraft, HeaderDraft DEF None
<1>2. redirect_response(method, path) = content_length(r, 0)
  BY DEF redirect_response
<1> HIDE DEF r, head
<1>3. Draft(content_length(r, 0), head, None, <<"nothing", 0>>, <<>>)
  BY <1>1, LengthDraft
<1> QED BY <1>2, <1>3 DEF head

LEMMA FileMade ==
    ASSUME NEW method, NEW path, NEW object, Length(object.content) \in Nat
    PROVE  \E b \in BufferType :
              /\ b = Buffer("object", <<"raw", NoText, 0>>, Length(object.content))
              /\ Draft(files_only_response(method, path, object), <<"ok", method, path>>,
                       <<object, object, NoModel>>, <<"file", Length(object.content)>>,
                       IF method = "HEAD" THEN <<>> ELSE <<b>>)
<1> DEFINE head == <<"ok", method, path>>
           size == Length(object.content)
           r0 == Typed(add_server_name(Hold(Response("ok", method, path), object)), object.mime)
           r == content_length(r0, size)
           s == [r EXCEPT !.what = "file", !.of = object]
           b == Buffer("object", <<"raw", NoText, 0>>, size)
<1>1. Draft(r0, head, <<object, NoObject, NoModel>>, <<"nothing", 0>>, <<>>)
  <2>1. Draft(Response("ok", method, path), head, <<NoObject, NoObject, NoModel>>, <<"nothing", 0>>, <<>>)
    BY NewDraft
  <2>2. Draft(Hold(Response("ok", method, path), object), head, <<object, NoObject, NoModel>>,
              <<"nothing", 0>>, <<>>)
    BY <2>1, HoldDraft
  <2> QED BY <2>2, DecoratedDraft
<1>2. files_only_response(method, path, object) = IF method = "HEAD" THEN s ELSE add_body(s, b)
  BY DEF files_only_response
<1>3. b \in BufferType
  BY DEF Buffer, BufferType, Shows, Words
<1> HIDE DEF r0, b, head, size
<1>4. Draft(r, head, <<object, NoObject, NoModel>>, <<"nothing", size>>, <<>>)
  BY <1>1, LengthDraft
<1> HIDE DEF r
<1>5. Draft(s, head, <<object, object, NoModel>>, <<"file", size>>, <<>>)
  BY <1>4 DEF Draft, ResponseFields
<1> HIDE DEF s
<1>6. Draft(add_body(s, b), head, <<object, object, NoModel>>, <<"file", size>>, <<b>>)
  <2>1. Append(<<>>, b) = <<b>>
    OBVIOUS
  <2> QED BY <1>3, <1>5, <2>1, AddDraft
<1>7. Draft(files_only_response(method, path, object), head, <<object, object, NoModel>>,
            <<"file", size>>, IF method = "HEAD" THEN <<>> ELSE <<b>>)
  BY <1>2, <1>5, <1>6
<1> QED BY <1>3, <1>7 DEF head, size, b

LEMMA PageMade ==
    ASSUME NEW method, NEW path, NEW object, NEW model,
           NEW body \in Seq(BufferType), body = GeneratePage(object.chunks, model)
    PROVE  Draft(template_page_response(method, path, object, model), <<"ok", method, path>>,
                 <<object, object, model>>, <<"page", Length(body)>>,
                 IF method = "HEAD" THEN <<>> ELSE body)
<1> DEFINE head == <<"ok", method, path>>
           r == add_server_name(Hold(Response("ok", method, path), object))
           t == [r EXCEPT !.buffers = @ \o body]
           u == Typed(t, object.mime)
           s == content_length(u, Length(body))
           w == [s EXCEPT !.what = "page", !.of = object, !.model = model]
<1>1. Draft(r, head, <<object, NoObject, NoModel>>, <<"nothing", 0>>, <<>>)
  <2>1. Draft(Response("ok", method, path), head, <<NoObject, NoObject, NoModel>>, <<"nothing", 0>>, <<>>)
    BY NewDraft
  <2>2. Draft(Hold(Response("ok", method, path), object), head, <<object, NoObject, NoModel>>,
              <<"nothing", 0>>, <<>>)
    BY <2>1, HoldDraft
  <2> QED BY <2>2, DecoratedDraft
<1>2. template_page_response(method, path, object, model) = WithoutBody(w)
  BY DEF template_page_response
<1> HIDE DEF r, head
<1>3. Draft(t, head, <<object, NoObject, NoModel>>, <<"nothing", 0>>, body)
  <2>1. PICK x : x = HeadersBuffer(r.headers) /\ x \in BufferType
    BY <1>1, HeadersType DEF Draft
  <2>2. r.buffers = <<x>> \o <<>>
    BY <1>1, <2>1 DEF Draft
  <2>3. r.buffers = <<x>>
    <3>1. <<x>> \in Seq(BufferType)
      BY <2>1
    <3> QED BY <2>2, <3>1, ConcatEmptySeq
  <2>4. t.buffers = <<x>> \o body
    BY <1>1, <2>3 DEF Draft, ResponseFields
  <2> QED BY <1>1, <2>1, <2>4 DEF Draft, ResponseFields
<1> HIDE DEF t
<1>4. Draft(u, head, <<object, NoObject, NoModel>>, <<"nothing", 0>>, body)
  BY <1>3, DecoratedDraft
<1> HIDE DEF u
<1>5. Draft(s, head, <<object, NoObject, NoModel>>, <<"nothing", Length(body)>>, body)
  BY <1>4, LengthDraft
<1> HIDE DEF s
<1>6. Draft(w, head, <<object, object, model>>, <<"page", Length(body)>>, body)
  BY <1>5 DEF Draft, ResponseFields
<1> HIDE DEF w
<1>7. w.method = method
  BY <1>6 DEF Draft, head
<1>8. CASE method # "HEAD"
  BY <1>2, <1>6, <1>7, <1>8 DEF WithoutBody, head
<1>9. CASE method = "HEAD"
  <2>1. WithoutBody(w) = [w EXCEPT !.buffers = SubSeq(w.buffers, 1, 1)]
    BY <1>6, <1>7, <1>9 DEF WithoutBody, Draft, ResponseFields
  <2>2. PICK x : x = HeadersBuffer(w.headers) /\ x \in BufferType
    BY <1>6, HeadersType DEF Draft
  <2>3. SubSeq(w.buffers, 1, 1) = <<x>> \o <<>>
    <3>1. w.buffers = <<x>> \o body
      BY <1>6, <2>2 DEF Draft
    <3> QED BY <2>2, <3>1, FrontOnly
  <2>4. <<>> \in Seq(BufferType)
    BY EmptySeq
  <2>5. Draft(WithoutBody(w), head, <<object, object, model>>, <<"page", Length(body)>>, <<>>)
    BY <1>6, <2>1, <2>2, <2>3, <2>4 DEF Draft, ResponseFields
  <2> QED BY <1>2, <1>9, <2>5 DEF head
<1> QED BY <1>8, <1>9

-----------------------------------------------------------------------------
(* What the responses show, and who owns it *)

LEMMA BareLength == ASSUME NEW s \in Seq(BufferType) PROVE Length(Bare(s)) = Length(s)
<1> DEFINE T == {t \in Seq(BufferType) : Length(Bare(t)) = Length(t)}
<1>1. <<>> \in T
  BY BareEmpty, EmptySeq
<1>2. ASSUME NEW t \in Seq(BufferType), NEW x \in BufferType, t \in T PROVE Append(t, x) \in T
  <2>1. /\ Bare(t) \in Seq(PieceType) /\ Shape(x) \in PieceType
        /\ Bare(Append(t, x)) = Append(Bare(t), Shape(x))
    BY BareAppend
  <2>2. Length(Append(t, x)) = Length(t) + x.len
    BY SizedTypes, LengthAppend
  <2>3. PICK b, y : b = Bare(t) /\ y = Shape(x)
    OBVIOUS
  <2>4. Length(Append(b, y)) = Length(b) + y.len
    BY <2>1, <2>3, SizedTypes, LengthAppend
  <2>5. y.len = x.len
    BY <2>3 DEF Shape
  <2>6. Append(t, x) \in Seq(BufferType)
    BY AppendProperties
  <2> QED BY <1>2, <2>1, <2>2, <2>3, <2>4, <2>5, <2>6
<1>3. s \in T
  <2> HIDE DEF T
  <2> QED BY <1>1, <1>2, AllSeqs
<1> QED BY <1>3

LEMMA LengthOne == ASSUME NEW x \in PieceType PROVE Length(<<x>>) = x.len
<1>1. <<x>> = Append(<<>>, x) /\ <<>> \in Seq(PieceType) /\ x.len \in Nat
  BY EmptySeq DEF PieceType
<1>2. Length(Append(<<>>, x)) = Length(<<>>) + x.len
  BY <1>1, SizedTypes, LengthAppend
<1> QED BY <1>1, <1>2, LengthEmpty

\* BuffersOwned of one response: it holds itself what it is made of.
Owned(r) ==
    \A k \in DOMAIN r.buffers : LET b == r.buffers[k] IN
        /\ b.owner = "headers" => k = 1 /\ b.shows[3] = r.headers
        /\ b.owner = "object" => r.holds = r.of
        /\ b.owner = "model" => b.shows[2] \in DOMAIN r.model
        /\ b.owner = "temporary" => b.shows[1] = "debug"

\* BodyTrue of one response, as far as the worker is concerned.
TrueBody(r) ==
    /\ r.length = Length(ExpectedBody(r))
    /\ IF r.method = "HEAD" THEN Len(r.buffers) = 1
                          ELSE /\ Length(Visible(Tail(r.buffers))) = r.length
                               /\ Bare(Visible(Tail(r.buffers))) = ExpectedBody(r)

LEMMA OwnedDraft ==
    ASSUME NEW r, NEW status, NEW method, NEW path, NEW object, NEW model, NEW told,
           NEW body \in Seq(BufferType), \A k \in DOMAIN body : OwnedBuffer(body[k], model),
           Draft(r, <<status, method, path>>, <<object, object, model>>, told,
                 IF method = "HEAD" THEN <<>> ELSE body)
    PROVE  Owned(r)
<1>1. PICK b : b = (IF method = "HEAD" THEN <<>> ELSE body)
  OBVIOUS
<1>2. b \in Seq(BufferType) /\ \A k \in DOMAIN b : OwnedBuffer(b[k], model)
  BY <1>1, EmptySeq
<1>3. PICK x : x = HeadersBuffer(r.headers) /\ x \in BufferType
  BY HeadersType DEF Draft
<1>4. PICK n \in Nat : n = Len(b) /\ DOMAIN b = 1..n
  BY <1>2, LenProperties
<1>5. PICK s : s = r.buffers /\ s = <<x>> \o b
  BY <1>1, <1>3 DEF Draft
<1>6. r.holds = object /\ r.of = object /\ r.model = model
  BY DEF Draft
<1>7. /\ DOMAIN s = 1..1 + n
      /\ \A i \in 1..1 + n : s[i] = IF i <= 1 THEN <<x>>[i] ELSE b[i - 1]
  <2>1. <<x>> \in Seq(BufferType) /\ Len(<<x>>) = 1
    BY <1>3
  <2>2. /\ s \in Seq(BufferType) /\ Len(s) = 1 + n
        /\ \A i \in 1..1 + n : s[i] = IF i <= 1 THEN <<x>>[i] ELSE b[i - 1]
    BY <1>2, <1>4, <1>5, <2>1, ConcatProperties
  <2> QED BY <2>2, LenProperties
<1> DEFINE Well(k) == /\ s[k].owner = "headers" => k = 1 /\ s[k].shows[3] = r.headers
                      /\ s[k].owner = "object" => r.holds = r.of
                      /\ s[k].owner = "model" => s[k].shows[2] \in DOMAIN r.model
                      /\ s[k].owner = "temporary" => s[k].shows[1] = "debug"
<1>8. ASSUME NEW k \in 1..1 + n PROVE Well(k)
  <2>1. CASE k = 1
    <3>1. s[k] = x
      BY <1>7, <2>1
    <3>2. x.owner = "headers" /\ x.shows[3] = r.headers
      BY <1>3 DEF HeadersBuffer, Buffer
    <3> QED BY <2>1, <3>1, <3>2
  <2>2. CASE k # 1
    <3>1. k - 1 \in 1..n /\ ~ (k <= 1)
      BY <2>2
    <3>2. s[k] = b[k - 1]
      BY <1>7, <3>1
    <3>3. OwnedBuffer(s[k], model)
      BY <1>2, <1>4, <3>1, <3>2
    <3> QED BY <1>6, <3>3 DEF OwnedBuffer
  <2> QED BY <2>1, <2>2
<1> QED BY <1>5, <1>7, <1>8 DEF Owned

LEMMA TrueDraft ==
    ASSUME NEW r, NEW status, NEW method, NEW path, NEW kept, NEW what, NEW length,
           NEW body \in Seq(BufferType),
           Draft(r, <<status, method, path>>, kept, <<what, length>>,
                 IF method = "HEAD" THEN <<>> ELSE body),
           length = Length(ExpectedBody(r)), Bare(Visible(body)) = ExpectedBody(r)
    PROVE  TrueBody(r)
<1>1. PICK b : b = (IF method = "HEAD" THEN <<>> ELSE body)
  OBVIOUS
<1>2. b \in Seq(BufferType)
  BY <1>1, EmptySeq
<1>3. PICK x : x = HeadersBuffer(r.headers) /\ x \in BufferType
  BY HeadersType DEF Draft
<1>4. PICK s : s = r.buffers /\ s = <<x>> \o b
  BY <1>1, <1>3 DEF Draft
<1>5. r.length = length /\ r.method = method
  BY DEF Draft
<1>6. CASE method = "HEAD"
  <2>1. <<x>> \in Seq(BufferType) /\ Len(<<x>>) = 1
    BY <1>3
  <2>2. s = <<x>>
    BY <1>1, <1>4, <1>6, <2>1, ConcatEmptySeq
  <2> QED BY <1>4, <1>5, <1>6, <2>1, <2>2 DEF TrueBody
<1>7. CASE method # "HEAD"
  <2>1. Tail(s) = b
    BY <1>2, <1>3, <1>4, FrontTail
  <2>2. b = body
    BY <1>1, <1>7
  <2>3. Visible(body) \in Seq(BufferType)
    BY VisibleSeq
  <2>4. Length(Bare(Visible(body))) = Length(Visible(body))
    BY <2>3, BareLength
  <2>5. Length(Visible(body)) = length
    BY <2>4
  <2> QED BY <1>4, <1>5, <1>7, <2>1, <2>2, <2>5 DEF TrueBody
<1> QED BY <1>6, <1>7

\* Responses that differ in what the host was asked for and found.
LEMMA SameBody ==
    ASSUME NEW r, NEW e, e.method = r.method, e.of = r.of, e.holds = r.holds,
           e.buffers = r.buffers, e.headers = r.headers, e.model = r.model, e.what = r.what,
           e.length = r.length
    PROVE  (Owned(r) => Owned(e)) /\ (TrueBody(r) => TrueBody(e))
<1>1. ExpectedBody(e) = ExpectedBody(r)
  BY DEF ExpectedBody
<1> QED BY <1>1 DEF Owned, TrueBody

-----------------------------------------------------------------------------
(* The responses are sound *)

\* A response made of an object.
Made(r, status, method, path, object) ==
    /\ DOMAIN r = ResponseFields
    /\ r.status = status /\ r.method = method /\ r.path = path /\ r.of = object
    /\ Owned(r) /\ TrueBody(r)

LEMMA DraftMade ==
    ASSUME NEW r, NEW status, NEW method, NEW path, NEW object, NEW model, NEW what, NEW length,
           NEW body \in Seq(BufferType), \A k \in DOMAIN body : OwnedBuffer(body[k], model),
           Draft(r, <<status, method, path>>, <<object, object, model>>, <<what, length>>,
                 IF method = "HEAD" THEN <<>> ELSE body),
           length = Length(ExpectedBody(r)), Bare(Visible(body)) = ExpectedBody(r)
    PROVE  Made(r, status, method, path, object)
<1>1. Owned(r)
  BY OwnedDraft
<1>2. TrueBody(r)
  BY TrueDraft
<1>3. /\ DOMAIN r = ResponseFields
      /\ r.status = status /\ r.method = method /\ r.path = path /\ r.of = object
  BY DEF Draft
<1> QED BY <1>1, <1>2, <1>3 DEF Made

\* A piece that shows.
LEMMA OneShown ==
    ASSUME NEW b \in BufferType
    PROVE  /\ <<b>> \in Seq(BufferType)
           /\ Bare(Visible(<<b>>)) = Visible(<<Shape(b)>>)
           /\ Length(Visible(<<Shape(b)>>)) = b.len
           /\ b.len > 0 => Visible(<<Shape(b)>>) = <<Shape(b)>>
<1>1. <<b>> \in Seq(BufferType) /\ Shape(b) \in PieceType /\ Shape(b).len = b.len
  BY DEF BufferType, PieceType, Shape
<1>2. Bare(Visible(<<b>>)) = Visible(Bare(<<b>>))
  BY <1>1, BareVisible
<1>3. Bare(<<b>>) = <<Shape(b)>>
  BY BareOne
<1>4. PICK x : x = Shape(b) /\ x \in PieceType
  BY <1>1
<1>5. <<x>> \in Seq(PieceType)
  BY <1>4
<1>6. Length(Visible(<<x>>)) = x.len
  BY <1>4, <1>5, VisibleLength, LengthOne, SizedTypes
<1>7. Visible(<<x>>) = Shown(x)
  BY VisibleOne
<1> QED BY <1>1, <1>2, <1>3, <1>4, <1>6, <1>7 DEF Shown

LEMMA BodySound ==
    ASSUME NEW status, NEW method, NEW path, NEW need_cache \in BOOLEAN
    PROVE  /\ Made(response_with_body(status, method, path, need_cache), status, method, path, NoObject)
           /\ Made(reset_cookie(response_with_body(status, method, path, need_cache)),
                   status, method, path, NoObject)
<1>1. PICK r : r = response_with_body(status, method, path, need_cache)
  OBVIOUS
<1>2. PICK b \in BufferType :
         /\ b = BodyBuffer(b.owner, BodyLength) /\ b.owner \in {"strings", "static"}
         /\ Draft(r, <<status, method, path>>, None, <<"body", BodyLength>>,
                  IF method = "HEAD" THEN <<>> ELSE <<b>>)
  BY <1>1, BodyMade
<1>3. \A k \in DOMAIN <<b>> : OwnedBuffer(<<b>>[k], NoModel)
  BY <1>2 DEF OwnedBuffer
<1>4. b.len = BodyLength /\ b.shows = <<"body", NoText, 0>>
  BY <1>2 DEF BodyBuffer, Buffer
<1>5. /\ <<b>> \in Seq(BufferType) /\ Bare(Visible(<<b>>)) = <<Shape(b)>>
      /\ Length(<<Shape(b)>>) = BodyLength
  BY <1>4, OneShown DEF BodyLength
<1>6. ASSUME NEW s, Draft(s, <<status, method, path>>, None, <<"body", BodyLength>>,
                          IF method = "HEAD" THEN <<>> ELSE <<b>>)
      PROVE  Made(s, status, method, path, NoObject)
  <2>1. s.what = "body"
    BY <1>6 DEF Draft
  <2>2. ExpectedBody(s) = <<Shape(b)>>
    BY <1>4, <2>1 DEF ExpectedBody, Shape
  <2> QED BY <1>3, <1>5, <1>6, <2>2, DraftMade DEF None
<1>7. Draft(reset_cookie(r), <<status, method, path>>, None, <<"body", BodyLength>>,
            IF method = "HEAD" THEN <<>> ELSE <<b>>)
  BY <1>2, DecoratedDraft
<1> QED BY <1>1, <1>2, <1>6, <1>7

LEMMA RedirectSound ==
    ASSUME NEW method, NEW path
    PROVE  Made(redirect_response(method, path), "see_other", method, path, NoObject)
<1>1. PICK r : r = redirect_response(method, path)
  OBVIOUS
<1>2. Draft(r, <<"see_other", method, path>>, None, <<"nothing", 0>>, <<>>)
  BY <1>1, RedirectMade
<1>3. Draft(r, <<"see_other", method, path>>, None, <<"nothing", 0>>,
            IF method = "HEAD" THEN <<>> ELSE <<>>)
  BY <1>2
<1>4. ExpectedBody(r) = <<>>
  BY <1>2 DEF Draft, ExpectedBody
<1>5. Length(<<>>) = 0 /\ Bare(Visible(<<>>)) = <<>> /\ <<>> \in Seq(BufferType)
  BY LengthEmpty, VisibleEmpty, BareEmpty, EmptySeq
<1>6. \A k \in DOMAIN <<>> : OwnedBuffer(<<>>[k], NoModel)
  OBVIOUS
<1> QED BY <1>1, <1>3, <1>4, <1>5, <1>6, DraftMade DEF None

LEMMA FileSound ==
    ASSUME NEW method, NEW path, NEW object, object.content \in Seq(Item)
    PROVE  Made(files_only_response(method, path, object), "ok", method, path, object)
<1>1. PICK r : r = files_only_response(method, path, object)
  OBVIOUS
<1>2. Length(object.content) \in Nat
  BY LengthNat, SizedTypes
<1>3. PICK b \in BufferType :
         /\ b = Buffer("object", <<"raw", NoText, 0>>, Length(object.content))
         /\ Draft(r, <<"ok", method, path>>, <<object, object, NoModel>>,
                  <<"file", Length(object.content)>>, IF method = "HEAD" THEN <<>> ELSE <<b>>)
  BY <1>1, <1>2, FileMade
<1>4. b.owner = "object" /\ b.shows = <<"raw", NoText, 0>> /\ b.len = Length(object.content)
  BY <1>3 DEF Buffer
<1>5. \A k \in DOMAIN <<b>> : OwnedBuffer(<<b>>[k], NoModel)
  BY <1>4 DEF OwnedBuffer
<1>6. r.what = "file" /\ r.of = object
  BY <1>3 DEF Draft
<1>7. ExpectedBody(r) = Visible(<<Shape(b)>>)
  BY <1>4, <1>6 DEF ExpectedBody, Shape
<1>8. /\ <<b>> \in Seq(BufferType) /\ Bare(Visible(<<b>>)) = Visible(<<Shape(b)>>)
      /\ Length(Visible(<<Shape(b)>>)) = b.len
  BY OneShown
<1> QED BY <1>1, <1>3, <1>4, <1>5, <1>7, <1>8, DraftMade

LEMMA PageSound ==
    ASSUME NEW method, NEW path, NEW object, NEW model \in Models, IsTemplate(object.content),
           object.chunks = Load(object.content).chunks, Load(object.content).state = "ok",
           Complete(object.chunks, model)
    PROVE  Made(template_page_response(method, path, object, model), "ok", method, path, object)
<1>1. PICK r, src, chunks, body :
         /\ r = template_page_response(method, path, object, model)
         /\ src = object.content /\ chunks = object.chunks /\ body = GeneratePage(chunks, model)
  OBVIOUS
<1>2. /\ chunks \in Seq(ChunkType)
      /\ Load(src).state = "ok" => \A m \in Models : Complete(chunks, m) =>
            Visible(Bare(GeneratePage(chunks, m))) = Rendered(src, m)
  BY <1>1, PageTrue
<1>3. Visible(Bare(body)) = Rendered(src, model)
  BY <1>1, <1>2
<1>4. body \in Seq(BufferType) /\ \A k \in DOMAIN body : OwnedBuffer(body[k], model)
  BY <1>1, <1>2, PageOwned
<1>5. Draft(r, <<"ok", method, path>>, <<object, object, model>>, <<"page", Length(body)>>,
            IF method = "HEAD" THEN <<>> ELSE body)
  BY <1>1, <1>4, PageMade
<1>6. ExpectedBody(r) = Rendered(src, model)
  <2>1. r.what = "page" /\ r.of = object /\ r.model = model
    BY <1>5 DEF Draft
  <2> QED BY <1>1, <2>1 DEF ExpectedBody
<1>7. Bare(Visible(body)) = Visible(Bare(body))
  BY <1>4, BareVisible
<1>8. Length(Visible(Bare(body))) = Length(body)
  <2>1. PICK bare : bare = Bare(body) /\ bare \in Seq(PieceType) /\ Length(bare) = Length(body)
    BY <1>4, BareSeq, BareLength
  <2>2. Length(Visible(bare)) = Length(bare)
    BY <2>1, VisibleLength, SizedTypes
  <2> QED BY <2>1, <2>2
<1> QED BY <1>1, <1>3, <1>4, <1>5, <1>6, <1>7, <1>8, DraftMade

-----------------------------------------------------------------------------
(* The inductive invariant *)

\* What is on the disk was put there by one of the writes so far.
DiskInv ==
    /\ writes \in 1..MaxWrites /\ clears \in 0..MaxClears /\ floor \in [Paths -> Nat]
    /\ disk \in [Paths -> [kind : Kinds, inode : 1..MaxWrites, content : Contents]]
    /\ \A p \in Paths : /\ floor[p] <= writes /\ disk[p].inode <= writes
                        /\ disk[p].kind # "absent" => disk[p].inode >= floor[p]

\* An object for a path: new enough after the last clear, and made of its own content.
Kept(object, p) ==
    /\ object.inode \in 1..writes /\ object.inode >= floor[p] /\ object.epoch \in 0..clears
    /\ object.content \in Contents \cup {NoContent}
    /\ IsTemplatePage(p) => /\ Load(object.content).state = "ok"
                            /\ object.chunks = Load(object.content).chunks

CacheInv ==
    /\ DOMAIN cache = Handlers
    /\ \A h \in Handlers :
          /\ DOMAIN cache[h] = Paths
          /\ \A p \in Paths : cache[h][p] # NoObject =>
                (h = "template_pages_only") = IsTemplatePage(p) /\ Kept(cache[h][p], p)

Stages == {"idle", "resolve", "test", "index", "test_index", "handle", "test_file", "measure", "map"}
\* Those of mapped_file: nothing was cached.
Opening == {"test_file", "measure", "map"}

RequestType ==
    request \in [method : Methods, path : Paths \cup {NoPath}, asked : Paths \cup {NoPath},
                 seen : SUBSET (Kinds \cup {"empty"}), found : 0..writes]

\* A request knows what its path is now, and passed the validators before it went on.
RequestInv ==
    /\ RequestType /\ pc \in Stages
    /\ pc = "idle" => request = NoRequest
    /\ pc # "idle" => /\ request.path \in Paths /\ Seen(disk[request.path]) \in request.seen
                      /\ Len(queue) < MaxQueue
    /\ pc = "resolve" => request.asked = request.path
    /\ pc \notin {"idle", "resolve"} =>
          validate_method(request.method) /\ validate_path(request.asked)
    /\ pc \in Opening => Cached = NoObject
    /\ request.found > 0 => pc = "map" /\ request.found >= floor[request.path]

\* StatusTrue of one response.
Justified(status, method, asked, path, seen) ==
    /\ status = "not_found" => seen \cap Missing # {}
    /\ status = "forbidden" =>
          \/ ~validate_method(method) \/ ~validate_path(asked)
          \/ seen \cap {"denied", "directory", "unreadable", "empty", "no_parent", "broken"} # {}
    /\ status = "internal_server_error" =>
          IsTemplatePage(path) \/ seen \cap {"directory", "no_parent", "broken"} # {}

Good(r) ==
    /\ r.status \in Statuses /\ r.method \in Methods
    /\ r.of # NoObject => r.of.inode >= r.floor
    /\ Justified(r.status, r.method, r.asked, r.path, r.seen)
    /\ Owned(r) /\ TrueBody(r)

QueueInv ==
    /\ queue \in Seq(Responding) /\ Len(queue) <= MaxQueue
    /\ \A r \in Responding : Good(r)

\* SameUntilClear of one response: an object mapped since the last clear is kept.
Same(r, c) ==
    /\ r.of.epoch \in 0..clears /\ (r.of # NoObject => r.path \in Paths)
    /\ r.of # NoObject /\ r.of.epoch = clears => c[HandlerOf(r.path)][r.path] = r.of
SameInv == \A r \in Responding : Same(r, cache)

IInv == DiskInv /\ CacheInv /\ RequestInv /\ QueueInv /\ SameInv

-----------------------------------------------------------------------------
(* Answers *)

\* A good response joins the queue.
LEMMA QueueGrows ==
    ASSUME QueueInv, Len(queue) < MaxQueue, NEW e, queue' = Append(queue, e), Good(e)
    PROVE  QueueInv' /\ Responding' = Responding \cup {e}
<1>1. PICK n \in Nat : n = Len(queue) /\ DOMAIN queue = 1..n
  BY DEF QueueInv
<1>2. queue \in Seq(Responding \cup {e})
  BY DEF QueueInv
<1>3. /\ queue' \in Seq(Responding \cup {e}) /\ Len(queue') = n + 1 /\ DOMAIN queue' = 1..n + 1
      /\ queue'[n + 1] = e /\ \A i \in 1..n : queue'[i] = queue[i]
  BY <1>1, <1>2
<1>4. Responding' = Responding \cup {e}
  <2>1. Responding' = {queue'[i] : i \in 1..n + 1}
    BY <1>3 DEF Responding
  <2>2. \A i \in 1..n + 1 : i \in 1..n \/ i = n + 1
    OBVIOUS
  <2>3. \A i \in 1..n : i \in 1..n + 1
    OBVIOUS
  <2>4. n + 1 \in 1..n + 1
    OBVIOUS
  <2>5. Responding = {queue[i] : i \in 1..n}
    BY <1>1 DEF Responding
  <2>6. Responding' \subseteq Responding \cup {e}
    BY <1>3, <2>1, <2>2, <2>5
  <2>7. Responding \cup {e} \subseteq Responding'
    BY <1>3, <2>1, <2>3, <2>4, <2>5
  <2> QED BY <2>6, <2>7
<1>5. \A r \in Responding' : Good(r)
  BY <1>4 DEF QueueInv
<1>6. Len(queue') <= MaxQueue
  BY <1>1, <1>3, ResponsesAssumption
<1> QED BY <1>3, <1>4, <1>5, <1>6 DEF QueueInv

\* A response is made of nothing, or of an object that is new enough.
NewEnough(object, path) == object # NoObject => path \in Paths /\ object.inode >= floor[path]

\* ... and the caches keep it.
Shared(object, path) ==
    /\ object.epoch \in 0..clears
    /\ object # NoObject => cache'[HandlerOf(path)][path] = object

LEMMA SharedNothing == ASSUME IInv, NEW path PROVE Shared(NoObject, path)
<1>1. clears \in Nat
  BY ResponsesAssumption DEF IInv, DiskInv
<1> QED BY <1>1 DEF Shared, NoObject

\* What the caches keep stays what the responses show when the caches do not change.
LEMMA SameKept == ASSUME IInv, cache' = cache PROVE \A r \in Responding : Same(r, cache')
BY DEF IInv, SameInv

LEMMA AnswerStep ==
    ASSUME IInv, Len(queue) < MaxQueue, NEW r, NEW status \in Statuses, NEW method \in Methods,
           NEW path, NEW object, Made(r, status, method, path, object), NewEnough(object, path),
           Justified(status, method, request.asked, path, request.seen), Answer(r), CacheInv',
           Shared(object, path), \A q \in Responding : Same(q, cache')
    PROVE  IInv'
<1>1. request' = NoRequest /\ pc' = "idle" /\ UNCHANGED <<disk, writes, clears, floor>>
  BY DEF Answer
<1>2. DOMAIN r = ResponseFields /\ r.path = path
  BY DEF Made
<1>3. PICK f, s, a, e :
         /\ f = (IF path = NoPath THEN 0 ELSE floor[path]) /\ s = request.seen /\ a = request.asked
         /\ e = [r EXCEPT !.floor = f, !.seen = s, !.asked = a]
         /\ queue' = Append(queue, e)
  BY <1>2 DEF Answer
<1>4. /\ e.floor = f /\ e.seen = s /\ e.asked = a
      /\ e.status = r.status /\ e.method = r.method /\ e.path = r.path /\ e.of = r.of
      /\ e.holds = r.holds /\ e.buffers = r.buffers /\ e.headers = r.headers
      /\ e.model = r.model /\ e.what = r.what /\ e.length = r.length
  BY <1>2, <1>3 DEF ResponseFields
<1>o. Owned(e) /\ TrueBody(e)
  BY <1>4, SameBody DEF Made
<1>5. e.of # NoObject => e.of.inode >= e.floor
  BY <1>3, <1>4, ResponsesAssumption DEF NewEnough, Made
<1>6. Good(e)
  BY <1>3, <1>4, <1>5, <1>o DEF Good, Made
<1>7. QueueInv' /\ Responding' = Responding \cup {e}
  BY <1>3, <1>6, QueueGrows DEF IInv
<1>s. SameInv'
  <2>1. e.of = object /\ e.path = path
    BY <1>2, <1>4 DEF Made
  <2>2. Same(e, cache')
    BY <2>1 DEF Shared, NewEnough, Same
  <2>3. \A q \in Responding' : Same(q, cache')
    BY <1>7, <2>2
  <2>4. clears' = clears
    BY <1>1
  <2> QED BY <2>3, <2>4 DEF SameInv, Same
<1>8. DiskInv'
  BY <1>1 DEF IInv, DiskInv
<1>9. RequestInv'
  <2>1. writes' = writes /\ writes \in Nat
    BY <1>1, ResponsesAssumption DEF IInv, DiskInv
  <2>2. NoRequest \in [method : Methods, path : Paths \cup {NoPath}, asked : Paths \cup {NoPath},
                       seen : SUBSET (Kinds \cup {"empty"}), found : 0..writes]
    BY <2>1 DEF NoRequest, Methods
  <2>3. RequestType'
    BY <1>1, <2>1, <2>2 DEF RequestType
  <2>4. ~ (NoRequest.found > 0)
    BY DEF NoRequest
  <2> QED BY <1>1, <2>3, <2>4 DEF RequestInv, Stages, Opening
<1> QED BY <1>7, <1>8, <1>9, <1>s DEF IInv

\* An error shows no object.
LEMMA RefuseStep ==
    ASSUME IInv, pc # "idle", NEW status \in Statuses, Refuse(status),
           Justified(status, request.method, request.asked, request.path, request.seen)
    PROVE  IInv'
<1>1. PICK r : r = handle_error(status, request.method, request.path)
  OBVIOUS
<1>2. Made(r, status, request.method, request.path, NoObject)
  BY <1>1, BodySound DEF handle_error, phony_response
<1>3. Answer(r) /\ cache' = cache /\ floor' = floor /\ writes' = writes /\ clears' = clears
  BY <1>1 DEF Refuse, Answer
<1>4. CacheInv'
  BY <1>3 DEF IInv, CacheInv, Kept
<1>5. NewEnough(NoObject, request.path)
  BY DEF NewEnough
<1>6. request.method \in Methods /\ Len(queue) < MaxQueue
  BY DEF IInv, RequestInv, RequestType
<1> QED BY <1>2, <1>3, <1>4, <1>5, <1>6, AnswerStep, SharedNothing, SameKept

\* A host goes on with the request.
LEMMA GoOnStep ==
    ASSUME IInv, UNCHANGED <<disk, cache, queue, writes, clears, floor>>, RequestInv'
    PROVE  IInv'
<1>1. DiskInv' /\ CacheInv'
  BY DEF IInv, DiskInv, CacheInv, Kept
<1>2. QueueInv' /\ SameInv'
  BY DEF IInv, QueueInv, Responding, SameInv, Same
<1> QED BY <1>1, <1>2 DEF IInv

\* The file handlers answer with an object.
LEMMA AnswerWithStep ==
    ASSUME IInv, pc \in {"handle", "map"}, NEW object, Kept(object, request.path),
           AnswerWith(object), CacheInv', \A q \in Responding : Same(q, cache'),
           cache'[HandlerOf(request.path)][request.path] = object
    PROVE  IInv'
<1>1. /\ request.path \in Paths /\ request.method \in Methods /\ Len(queue) < MaxQueue
  BY DEF IInv, RequestInv, RequestType
<1>s. Shared(object, request.path) /\ Shared(NoObject, request.path)
  BY SharedNothing DEF Kept, Shared
<1>2. object.content \in Seq(Item) /\ IsTemplate(object.content)
  <2>1. IsTemplate(NoContent)
    BY EmptySeq DEF IsTemplate, NoContent
  <2>2. IsTemplate(object.content)
    BY <2>1, ResponsesAssumption DEF Kept
  <2> QED BY <2>2 DEF IsTemplate
<1>3. NewEnough(object, request.path) /\ NewEnough(NoObject, request.path)
  BY <1>1 DEF NewEnough, Kept
<1>4. Justified("ok", request.method, request.asked, request.path, request.seen)
  BY DEF Justified
<1>5. ASSUME Answer(files_only_response(request.method, request.path, object))
      PROVE  IInv'
  <2>1. PICK r : r = files_only_response(request.method, request.path, object)
    OBVIOUS
  <2>2. Made(r, "ok", request.method, request.path, object)
    BY <1>2, <2>1, FileSound
  <2> QED BY <1>1, <1>3, <1>4, <1>5, <1>s, <2>1, <2>2, AnswerStep DEF Statuses
<1>6. ASSUME NEW model \in Models, IsTemplatePage(request.path),
             \A i \in DOMAIN object.chunks : Generates(object.chunks[i], model),
             Answer(template_page_response(request.method, request.path, object, model))
      PROVE  IInv'
  <2>1. PICK r : r = template_page_response(request.method, request.path, object, model)
    OBVIOUS
  <2>2. /\ Load(object.content).state = "ok" /\ object.chunks = Load(object.content).chunks
        /\ Complete(object.chunks, model)
    BY <1>6 DEF Kept, Complete
  <2>3. Made(r, "ok", request.method, request.path, object)
    BY <1>2, <2>1, <2>2, PageSound
  <2> QED BY <1>1, <1>3, <1>4, <1>6, <1>s, <2>1, <2>3, AnswerStep DEF Statuses
<1>7. ASSUME IsTemplatePage(request.path),
             Answer(phony_response("internal_server_error", request.method, request.path))
      PROVE  IInv'
  <2>1. PICK r : r = phony_response("internal_server_error", request.method, request.path)
    OBVIOUS
  <2>2. Made(r, "internal_server_error", request.method, request.path, NoObject)
    BY <2>1, BodySound DEF phony_response
  <2>3. Justified("internal_server_error", request.method, request.asked, request.path, request.seen)
    BY <1>7 DEF Justified
  <2> QED BY <1>1, <1>3, <1>7, <1>s, <2>1, <2>2, <2>3, AnswerStep DEF Statuses
<1>8. \/ Answer(files_only_response(request.method, request.path, object))
      \/ /\ IsTemplatePage(request.path)
         /\ \E model \in Models :
            \/ /\ \A i \in DOMAIN object.chunks : Generates(object.chunks[i], model)
               /\ Answer(template_page_response(request.method, request.path, object, model))
            \/ Answer(phony_response("internal_server_error", request.method, request.path))
  BY DEF AnswerWith
<1> QED BY <1>5, <1>6, <1>7, <1>8

-----------------------------------------------------------------------------
(* The steps *)

\* The handlers are those of a request that has a path.
LEMMA HandlerIsOne ==
    \A path : HandlerOf(path) \in Handlers
              /\ (HandlerOf(path) = "template_pages_only") = IsTemplatePage(path)
BY DEF HandlerOf, Handlers, IsTemplatePage

LEMMA SeenType == \A entry : entry.kind \in Kinds => Seen(entry) \in Kinds \cup {"empty"}
BY DEF Seen

LEMMA RequestStep ==
    ASSUME IInv, NEW method \in Methods, NEW path \in Paths, Request(method, path)
    PROVE  IInv'
<1>1. /\ request' = [method |-> method, path |-> path, asked |-> path,
                     seen |-> {Seen(disk[path])}, found |-> 0]
      /\ pc' = "resolve" /\ UNCHANGED <<disk, cache, queue, writes, clears, floor>>
      /\ Len(queue) < MaxQueue
  BY DEF Request, NoRequest
<1>2. Seen(disk[path]) \in Kinds \cup {"empty"}
  BY SeenType DEF IInv, DiskInv
<1>3. 0 \in 0..writes
  BY ResponsesAssumption DEF IInv, DiskInv
<1>4. RequestType'
  BY <1>1, <1>2, <1>3 DEF RequestType
<1>5. RequestInv'
  BY <1>1, <1>4 DEF RequestInv, Stages, Opening
<1> QED BY <1>1, <1>5, GoOnStep

\* The request has come to its next stage.
LEMMA GoOnTo ==
    ASSUME IInv, pc \notin {"idle", "map"}, NEW next \in Stages \ {"idle", "resolve"}, GoOn(next),
           validate_method(request.method), validate_path(request.asked),
           next \in Opening => Cached = NoObject
    PROVE  IInv'
<1>1. pc' = next /\ UNCHANGED <<disk, cache, queue, request, writes, clears, floor>>
  BY DEF GoOn
<1>2. RequestType' /\ (Cached = NoObject => Cached' = NoObject)
  BY <1>1 DEF IInv, RequestInv, RequestType, Cached
<1>3. ~ (request'.found > 0)
  BY <1>1 DEF IInv, RequestInv
<1>4. RequestInv'
  BY <1>1, <1>2, <1>3 DEF IInv, RequestInv, Stages
<1> QED BY <1>1, <1>4, GoOnStep

\* What the file system says is true.
LEMMA ErrorStep ==
    ASSUME IInv, pc # "idle", NEW kind \in Missing \cup Failing, FilesystemError(kind),
           kind = "absent" => request.seen \cap Missing # {},
           kind # "absent" => kind \in request.seen
    PROVE  IInv'
<1>1. PICK status \in {"internal_server_error", "not_found", "forbidden"} :
         /\ Refuse(status)
         /\ status = "internal_server_error" => kind \in {"no_parent", "broken"}
         /\ status = "not_found" => kind = "absent"
         /\ status = "forbidden" => kind = "denied"
  BY DEF FilesystemError, Missing, Failing
<1>2. Justified(status, request.method, request.asked, request.path, request.seen)
  BY <1>1 DEF Justified
<1>3. status \in Statuses
  BY <1>1 DEF Statuses
<1> QED BY <1>1, <1>2, <1>3, RefuseStep

\* What a request meets is one of the things it has seen.
LEMMA Meets ==
    ASSUME IInv, pc # "idle"
    PROVE  /\ request.path \in Paths /\ disk[request.path].kind \in Kinds
           /\ disk[request.path].kind # "file" => disk[request.path].kind \in request.seen
           /\ disk[request.path].kind = "file" /\ disk[request.path].content = NoContent =>
                 "empty" \in request.seen
BY DEF IInv, RequestInv, DiskInv, Seen

LEMMA CanonicalStep ==
    ASSUME IInv, pc \in {"resolve", "index"}, NEW next \in {"test", "test_index"}, Canonical(next),
           validate_method(request.method), validate_path(request.asked)
    PROVE  IInv'
<1> DEFINE kind == disk[request.path].kind
<1>0. kind \in Kinds /\ (kind # "file" => kind \in request.seen)
  BY Meets
<1>1. CASE kind \in Missing /\ FilesystemError("absent")
  <2>1. request.seen \cap Missing # {} /\ "absent" \in Missing \cup Failing
    BY <1>0, <1>1 DEF Missing
  <2> QED BY <1>1, <2>1, ErrorStep
<1>2. CASE kind \in Failing /\ FilesystemError(kind)
  <2>1. kind # "file" /\ kind # "absent"
    BY <1>2 DEF Failing
  <2> QED BY <1>0, <1>2, <2>1, ErrorStep
<1>3. CASE GoOn(next)
  BY <1>3, GoOnTo DEF Stages, Opening
<1> QED BY <1>1, <1>2, <1>3 DEF Canonical

\* The two tests for a directory, and what each path of the code does with one.
LEMMA ResolveStep ==
    ASSUME IInv, Resolve \/ Test \/ ResolveIndex \/ TestIndex
    PROVE  IInv'
<1>0. /\ pc \in {"resolve", "test", "index", "test_index"} /\ pc # "idle"
  BY DEF Resolve, Test, ResolveIndex, TestIndex
<1> DEFINE kind == disk[request.path].kind
<1>a. kind \in Kinds /\ (kind # "file" => kind \in request.seen)
  BY <1>0, Meets
<1>b. pc # "resolve" => validate_method(request.method) /\ validate_path(request.asked)
  BY <1>0 DEF IInv, RequestInv
<1>1. ASSUME Refuse("forbidden"),
             \/ ~validate_method(request.method) \/ ~validate_path(request.asked)
             \/ "directory" \in request.seen
      PROVE  IInv'
  <2>1. Justified("forbidden", request.method, request.asked, request.path, request.seen)
    BY <1>1 DEF Justified
  <2> QED BY <1>0, <1>1, <2>1, RefuseStep DEF Statuses
<1>2. ASSUME kind \in Failing, FilesystemError(kind) PROVE IInv'
  <2>1. kind # "file" /\ kind # "absent"
    BY <1>2 DEF Failing
  <2> QED BY <1>0, <1>2, <1>a, <2>1, ErrorStep
<1>3. ASSUME IndexFile # NoPath, pc' = "index",
             validate_method(request.method), validate_path(request.asked),
             request' = [request EXCEPT !.path = IndexFile, !.seen = @ \cup {Seen(disk[IndexFile])}],
             UNCHANGED <<disk, cache, queue, writes, clears, floor>>
      PROVE  IInv'
  <2>1. IndexFile \in Paths
    BY <1>3, ResponsesAssumption
  <2>2. PICK seen : seen = request.seen \cup {Seen(disk[IndexFile])}
    OBVIOUS
  <2>3. Seen(disk[IndexFile]) \in Kinds \cup {"empty"}
    BY <2>1, SeenType DEF IInv, DiskInv
  <2>4. request' = [request EXCEPT !.path = IndexFile, !.seen = seen]
    BY <1>3, <2>2 DEF IInv, RequestInv, RequestType
  <2>5. seen \in SUBSET (Kinds \cup {"empty"}) /\ Seen(disk[IndexFile]) \in seen
    BY <2>2, <2>3 DEF IInv, RequestInv, RequestType
  <2>6. RequestType'
    BY <1>3, <2>1, <2>4, <2>5 DEF IInv, RequestInv, RequestType
  <2>7. /\ request'.path = IndexFile /\ request'.seen = seen /\ request'.asked = request.asked
        /\ request'.method = request.method /\ request'.found = request.found
    BY <2>4 DEF IInv, RequestInv, RequestType
  <2>8. ~ (request.found > 0) /\ Len(queue) < MaxQueue
    BY <1>0 DEF IInv, RequestInv
  <2>9. RequestInv'
    BY <1>3, <2>1, <2>5, <2>6, <2>7, <2>8 DEF RequestInv, Stages, Opening
  <2> QED BY <1>3, <2>9, GoOnStep
<1>4. ASSUME GoOn("handle"), pc # "resolve" PROVE IInv'
  BY <1>0, <1>4, <1>b, GoOnTo DEF Stages, Opening
<1>5. CASE Resolve
  <2>1. request.asked = request.path /\ pc = "resolve"
    BY <1>5 DEF Resolve, IInv, RequestInv
  <2>2. CASE (~validate_method(request.method) \/ ~validate_path(request.path)) /\ Refuse("forbidden")
    BY <1>1, <2>1, <2>2
  <2>3. CASE validate_method(request.method) /\ validate_path(request.path) /\ Canonical("test")
    BY <2>1, <2>3, CanonicalStep
  <2> QED BY <1>5, <2>2, <2>3 DEF Resolve
<1>6. CASE Test
  <2>1. pc # "resolve"
    BY <1>6 DEF Test
  <2>2. CASE kind = "directory" /\ Refuse("forbidden")
    BY <1>1, <1>a, <2>2
  <2> QED BY <1>2, <1>3, <1>4, <1>6, <1>b, <2>1, <2>2 DEF Test
<1>7. CASE ResolveIndex
  <2>1. pc = "index" /\ Canonical("test_index")
    BY <1>7 DEF ResolveIndex
  <2> QED BY <1>b, <2>1, CanonicalStep
<1>8. CASE TestIndex
  <2>1. pc # "resolve"
    BY <1>8 DEF TestIndex
  <2>2. CASE kind = "directory" /\ Refuse("forbidden")
    BY <1>1, <1>a, <2>2
  <2> QED BY <1>2, <1>4, <1>8, <2>1, <2>2 DEF TestIndex
<1> QED BY <1>5, <1>6, <1>7, <1>8

\* A failed mapping tells the truth.
LEMMA FailsStep ==
    ASSUME IInv, pc # "idle", NEW cause \in {"gone", "is_directory", "interprocess"},
           Fails(cause),
           cause = "gone" => request.seen \cap Missing # {},
           cause = "is_directory" => "directory" \in request.seen,
           cause = "interprocess" =>
              request.seen \cap {"denied", "directory", "unreadable", "empty", "no_parent", "broken"} # {}
    PROVE  IInv'
<1>1. PICK status \in {"internal_server_error", "not_found", "forbidden"} :
         /\ Refuse(status)
         /\ status = "internal_server_error" => IsTemplatePage(request.path) \/ cause = "is_directory"
         /\ status = "not_found" => cause = "gone"
         /\ status = "forbidden" => cause = "interprocess"
  BY DEF Fails
<1>2. Justified(status, request.method, request.asked, request.path, request.seen)
  BY <1>1 DEF Justified
<1>3. status \in Statuses
  BY <1>1 DEF Statuses
<1> QED BY <1>1, <1>2, <1>3, RefuseStep

\* What a handler has cached, or what it tests before it opens a file.
LEMMA HandleStep ==
    ASSUME IInv, Handle \/ TestFile
    PROVE  IInv'
<1>0. /\ pc \in {"handle", "test_file"} /\ pc # "idle"
      /\ validate_method(request.method) /\ validate_path(request.asked)
  BY DEF Handle, TestFile, IInv, RequestInv
<1> DEFINE kind == disk[request.path].kind
<1>a. request.path \in Paths /\ kind \in Kinds /\ (kind # "file" => kind \in request.seen)
  BY <1>0, Meets
<1>1. CASE pc = "handle" /\ Cached # NoObject /\ AnswerWith(Cached) /\ UNCHANGED cache
  <2>1. Kept(Cached, request.path)
    BY <1>1, <1>a, HandlerIsOne DEF Cached, IInv, CacheInv
  <2>2. floor' = floor /\ writes' = writes /\ clears' = clears
    BY <1>1 DEF AnswerWith, Answer
  <2>3. CacheInv'
    BY <1>1, <2>2 DEF IInv, CacheInv, Kept
  <2>4. cache'[HandlerOf(request.path)][request.path] = Cached
    BY <1>1 DEF Cached
  <2> QED BY <1>1, <2>1, <2>3, <2>4, AnswerWithStep, SameKept
<1>2. CASE kind \in Missing /\ Fails("gone")
  <2>1. request.seen \cap Missing # {}
    BY <1>2, <1>a DEF Missing
  <2> QED BY <1>0, <1>2, <2>1, FailsStep
<1>3. CASE kind = "directory" /\ Fails("is_directory")
  BY <1>0, <1>3, <1>a, FailsStep
<1>4. CASE kind \in Failing /\ FilesystemError(kind)
  <2>1. kind # "file" /\ kind # "absent"
    BY <1>4 DEF Failing
  <2> QED BY <1>0, <1>4, <1>a, <2>1, ErrorStep
<1>5. CASE Handle /\ Cached = NoObject /\ GoOn("test_file")
  BY <1>0, <1>5, GoOnTo DEF Stages
<1>6. CASE TestFile /\ GoOn("measure")
  <2>1. Cached = NoObject
    BY <1>6 DEF TestFile, IInv, RequestInv, Opening
  <2> QED BY <1>0, <1>6, <2>1, GoOnTo DEF Stages
<1> QED BY <1>1, <1>2, <1>3, <1>4, <1>5, <1>6 DEF Handle, TestFile

\* What was found empty is new enough.
LEMMA MeasureStep ==
    ASSUME IInv, Measure
    PROVE  IInv'
<1> DEFINE entry == disk[request.path]
<1>0. /\ pc = "measure" /\ request.path \in Paths /\ Cached = NoObject /\ Len(queue) < MaxQueue
      /\ validate_method(request.method) /\ validate_path(request.asked)
      /\ Seen(entry) \in request.seen
  BY DEF Measure, IInv, RequestInv, Opening
<1>a. entry.kind \in Kinds /\ (entry.kind # "file" => entry.kind \in request.seen)
  BY <1>0, Meets
<1>1. CASE entry.kind \in Missing \cup Failing /\ FilesystemError(entry.kind)
  <2>1. entry.kind \in request.seen
    BY <1>1, <1>a DEF Missing, Failing
  <2>2. entry.kind = "absent" => request.seen \cap Missing # {}
    BY <2>1 DEF Missing
  <2> QED BY <1>0, <1>1, <2>1, <2>2, ErrorStep
<1>2. ASSUME NEW found, found = entry.inode, entry.kind \in {"directory", "unreadable", "file"},
             request' = [request EXCEPT !.found = found],
             pc' = "map", UNCHANGED <<disk, cache, queue, writes, clears, floor>>
      PROVE  IInv'
  <2>1. found \in 1..MaxWrites /\ found <= writes /\ found >= floor[request.path]
    BY <1>0, <1>2 DEF IInv, DiskInv
  <2>2. writes \in Nat
    BY ResponsesAssumption DEF IInv, DiskInv
  <2>3. found \in 0..writes
    BY <2>1, <2>2, ResponsesAssumption
  <2>4. /\ request'.path = request.path /\ request'.asked = request.asked
        /\ request'.method = request.method /\ request'.seen = request.seen
        /\ request'.found = found
    BY <1>2 DEF IInv, RequestInv, RequestType
  <2>5. RequestType'
    BY <1>2, <2>3 DEF IInv, RequestInv, RequestType
  <2>6. Cached' = NoObject
    BY <1>0, <1>2, <2>4 DEF Cached
  <2>7. RequestInv'
    BY <1>0, <1>2, <2>1, <2>4, <2>5, <2>6 DEF RequestInv, Stages
  <2> QED BY <1>2, <2>7, GoOnStep
<1>3. CASE GoOn("map")
  BY <1>0, <1>3, GoOnTo DEF Stages
<1> QED BY <1>1, <1>2, <1>3 DEF Measure

\* What is mapped is new enough, to be answered with and to be kept, and it is cut
\* into the chunks of its own content.
LEMMA MapStep ==
    ASSUME IInv, Map
    PROVE  IInv'
<1> DEFINE entry   == disk[request.path]
           empty   == request.found > 0
           content == IF empty THEN NoContent ELSE entry.content
           inode   == IF empty THEN request.found ELSE entry.inode
<1>0. /\ pc = "map" /\ pc # "idle" /\ request.path \in Paths /\ request.found \in 0..writes
      /\ Seen(entry) \in request.seen /\ writes \in Nat /\ clears \in Nat /\ Cached = NoObject
      /\ empty => request.found >= floor[request.path]
      /\ entry.kind \in Kinds /\ entry.inode \in 1..MaxWrites /\ entry.content \in Contents
      /\ entry.inode <= writes
      /\ entry.kind # "absent" => entry.inode >= floor[request.path]
  BY ResponsesAssumption DEF Map, IInv, RequestInv, RequestType, DiskInv, Opening
<1>1. CASE entry.kind = "absent" /\ Fails("gone")
  <2>1. request.seen \cap Missing # {}
    BY <1>0, <1>1 DEF Seen, Missing
  <2> QED BY <1>0, <1>1, <2>1, FailsStep
<1>2. CASE /\ entry.kind # "file" \/ entry.content = NoContent
           /\ entry.kind # "absent"
           /\ Fails("interprocess")
  <2>1. Seen(entry) \in {"denied", "directory", "unreadable", "empty", "no_parent", "broken"}
    BY <1>0, <1>2 DEF Seen, Kinds
  <2>2. request.seen \cap {"denied", "directory", "unreadable", "empty", "no_parent", "broken"} # {}
    BY <1>0, <2>1
  <2> QED BY <1>0, <1>2, <2>2, FailsStep
<1>3. CASE IsTemplatePage(request.path) /\ Refuse("internal_server_error")
  <2>1. Justified("internal_server_error", request.method, request.asked, request.path, request.seen)
    BY <1>3 DEF Justified
  <2> QED BY <1>0, <1>3, <2>1, RefuseStep DEF Statuses
<1>4. ASSUME empty \/ (entry.kind = "file" /\ entry.content # NoContent)
      PROVE  /\ inode \in 1..writes /\ inode >= floor[request.path]
             /\ content \in Contents \cup {NoContent}
  BY <1>0, <1>4, ResponsesAssumption
<1> DEFINE Mapped(object) ==
              /\ object.inode = inode /\ object.content = content /\ object.epoch = clears
              /\ IsTemplatePage(request.path) => /\ Load(content).state = "ok"
                                                 /\ object.chunks = Load(content).chunks
<1>5. ASSUME empty \/ (entry.kind = "file" /\ entry.content # NoContent),
             NEW object, Mapped(object),
             cache' = [cache EXCEPT ![HandlerOf(request.path)][request.path] = object],
             AnswerWith(object)
      PROVE  IInv'
  <2>1. floor' = floor /\ writes' = writes /\ clears' = clears
    BY <1>5 DEF AnswerWith, Answer
  <2>2. Kept(object, request.path)
    BY <1>0, <1>4, <1>5 DEF Kept
  <2>3. CacheInv'
    <3>1. \A h \in Handlers : DOMAIN cache'[h] = Paths
      BY <1>0, <1>5, HandlerIsOne DEF IInv, CacheInv
    <3>2. DOMAIN cache' = Handlers
      BY <1>5 DEF IInv, CacheInv
    <3>3. ASSUME NEW h \in Handlers, NEW p \in Paths
          PROVE  \/ cache'[h][p] = cache[h][p]
                 \/ h = HandlerOf(request.path) /\ p = request.path /\ cache'[h][p] = object
      BY <1>0, <1>5, HandlerIsOne DEF IInv, CacheInv
    <3>4. \A o, p : Kept(o, p) <=> Kept(o, p)'
      BY <2>1 DEF Kept
    <3>5. ASSUME NEW h \in Handlers, NEW p \in Paths, cache'[h][p] # NoObject
          PROVE  (h = "template_pages_only") = IsTemplatePage(p) /\ Kept(cache'[h][p], p)
      <4>1. CASE cache'[h][p] = cache[h][p]
        BY <3>5, <4>1 DEF IInv, CacheInv
      <4>2. CASE h = HandlerOf(request.path) /\ p = request.path /\ cache'[h][p] = object
        BY <2>2, <4>2, HandlerIsOne
      <4> QED BY <3>3, <4>1, <4>2
    <3>6. ASSUME NEW h \in Handlers, NEW p \in Paths, cache'[h][p] # NoObject
          PROVE  (h = "template_pages_only") = IsTemplatePage(p) /\ Kept(cache[h][p], p)'
      <4>1. PICK o : o = cache'[h][p]
        OBVIOUS
      <4>2. (h = "template_pages_only") = IsTemplatePage(p) /\ Kept(o, p)
        BY <3>5, <3>6, <4>1
      <4> QED BY <2>1, <4>1, <4>2 DEF Kept
    <3> QED BY <3>1, <3>2, <3>6 DEF CacheInv
  <2>4. cache'[HandlerOf(request.path)][request.path] = object
    BY <1>0, <1>5, HandlerIsOne DEF IInv, CacheInv
  <2>5. ASSUME NEW q \in Responding PROVE Same(q, cache')
    <3>1. Same(q, cache)
      BY DEF IInv, SameInv
    <3>2. ASSUME q.of # NoObject, q.of.epoch = clears
          PROVE  cache'[HandlerOf(q.path)][q.path] = q.of
      <4>1. cache[HandlerOf(q.path)][q.path] = q.of /\ q.path \in Paths
        BY <3>1, <3>2 DEF Same
      <4>2. q.path # request.path
        BY <1>0, <3>2, <4>1 DEF Cached
      <4>3. PICK h : h = HandlerOf(q.path) /\ h \in Handlers
        BY HandlerIsOne
      <4>4. cache'[h][q.path] = cache[h][q.path]
        BY <1>0, <1>5, <4>1, <4>2, <4>3, HandlerIsOne DEF IInv, CacheInv
      <4> QED BY <4>1, <4>3, <4>4
    <3> QED BY <3>1, <3>2 DEF Same
  <2> QED BY <1>0, <1>5, <2>2, <2>3, <2>4, <2>5, AnswerWithStep
<1>6. \A mime : /\ load_page(inode, mime, content).inode = inode
                /\ load_page(inode, mime, content).content = content
                /\ load_page(inode, mime, content).chunks = Load(content).chunks
                /\ load_page(inode, mime, content).epoch = clears
                /\ load_file(inode, mime, content).inode = inode
                /\ load_file(inode, mime, content).content = content
                /\ load_file(inode, mime, content).epoch = clears
  BY DEF load_page, load_file, Object
<1>7. \/ entry.kind = "absent" /\ Fails("gone")
      \/ /\ entry.kind # "file" \/ entry.content = NoContent
         /\ entry.kind # "absent"
         /\ Fails("interprocess")
      \/ IsTemplatePage(request.path) /\ Refuse("internal_server_error")
      \/ /\ empty \/ (entry.kind = "file" /\ entry.content # NoContent)
         /\ ~ (IsTemplatePage(request.path) /\ Load(content).state # "ok")
         /\ \E mime \in BOOLEAN : \E object :
               /\ object = IF IsTemplatePage(request.path)
                           THEN load_page(inode, mime, content) ELSE load_file(inode, mime, content)
               /\ cache' = [cache EXCEPT ![HandlerOf(request.path)][request.path] = object]
               /\ AnswerWith(object)
  BY DEF Map, Keep
<1> HIDE DEF entry, empty, content, inode
<1>8. CASE /\ empty \/ (entry.kind = "file" /\ entry.content # NoContent)
           /\ ~ (IsTemplatePage(request.path) /\ Load(content).state # "ok")
           /\ \E mime \in BOOLEAN : \E object :
                 /\ object = IF IsTemplatePage(request.path)
                             THEN load_page(inode, mime, content) ELSE load_file(inode, mime, content)
                 /\ cache' = [cache EXCEPT ![HandlerOf(request.path)][request.path] = object]
                 /\ AnswerWith(object)
  <2>a. PICK mime \in BOOLEAN :
           \E object :
              /\ object = IF IsTemplatePage(request.path)
                          THEN load_page(inode, mime, content) ELSE load_file(inode, mime, content)
              /\ cache' = [cache EXCEPT ![HandlerOf(request.path)][request.path] = object]
              /\ AnswerWith(object)
    BY <1>8
  <2>1. PICK object :
           /\ object = IF IsTemplatePage(request.path)
                       THEN load_page(inode, mime, content) ELSE load_file(inode, mime, content)
           /\ cache' = [cache EXCEPT ![HandlerOf(request.path)][request.path] = object]
           /\ AnswerWith(object)
    BY <2>a
  <2>2. Mapped(object)
    BY <1>6, <1>8, <2>1
  <2> HIDE DEF Mapped
  <2> QED BY <1>5, <1>8, <2>1, <2>2
<1> QED BY <1>1, <1>2, <1>3, <1>7, <1>8

\* A logic host answers with no file.
LEMMA LogicStep ==
    ASSUME IInv, NEW method \in Methods, LogicAnswer(method)
    PROVE  IInv'
<1>1. /\ cache' = cache /\ floor' = floor /\ writes' = writes /\ clears' = clears
      /\ Len(queue) < MaxQueue
  BY DEF LogicAnswer, Answer
<1>2. CacheInv'
  BY <1>1 DEF IInv, CacheInv, Kept
<1>3. ASSUME NEW status \in {"ok", "see_other"}, NEW r,
             Made(r, status, method, NoPath, NoObject), Answer(r)
      PROVE IInv'
  <2>1. NewEnough(NoObject, NoPath)
    BY DEF NewEnough
  <2>2. Justified(status, method, request.asked, NoPath, request.seen) /\ status \in Statuses
    BY <1>3 DEF Justified, Statuses
  <2> QED BY <1>1, <1>2, <1>3, <2>1, <2>2, AnswerStep, SharedNothing, SameKept
<1>4. /\ \A need_cache \in BOOLEAN :
            Made(response_with_body("ok", method, NoPath, need_cache), "ok", method, NoPath, NoObject)
      /\ Made(redirect_response(method, NoPath), "see_other", method, NoPath, NoObject)
      /\ Made(reset_cookie(response_with_body("ok", method, NoPath, TRUE)), "ok", method, NoPath, NoObject)
  BY BodySound, RedirectSound
<1>5. \/ \E need_cache \in BOOLEAN : Answer(response_with_body("ok", method, NoPath, need_cache))
      \/ Answer(redirect_response(method, NoPath))
      \/ Answer(reset_cookie(response_with_body("ok", method, NoPath, TRUE)))
  BY DEF LogicAnswer
<1> QED BY <1>3, <1>4, <1>5

\* A response leaves the queue.
LEMMA SentStep ==
    ASSUME IInv, Sent
    PROVE  IInv'
<1>1. /\ queue # <<>> /\ queue' = Tail(queue) /\ pc = "idle"
      /\ UNCHANGED <<disk, cache, request, pc, writes, clears, floor>>
  BY DEF Sent
<1>2. PICK n \in Nat : n = Len(queue) /\ DOMAIN queue = 1..n
  BY DEF IInv, QueueInv
<1>3. /\ queue' \in Seq(Responding) /\ DOMAIN queue' = 1..n - 1 /\ Len(queue') = n - 1
      /\ \A i \in 1..n - 1 : queue'[i] = queue[i + 1]
  <2>1. n # 0
    BY <1>1, <1>2 DEF IInv, QueueInv
  <2> QED BY <1>1, <1>2, <2>1 DEF IInv, QueueInv
<1>4. Responding' \subseteq Responding
  BY <1>2, <1>3 DEF Responding
<1>5. QueueInv'
  <2>1. queue' \in Seq(Responding')
    BY <1>3 DEF Responding
  <2>2. Len(queue') <= MaxQueue
    BY <1>2, <1>3, ResponsesAssumption DEF IInv, QueueInv
  <2> QED BY <1>4, <2>1, <2>2 DEF IInv, QueueInv
<1>6. DiskInv' /\ CacheInv'
  BY <1>1 DEF IInv, DiskInv, CacheInv, Kept
<1>7. RequestInv'
  BY <1>1 DEF IInv, RequestInv, RequestType, Cached, NoRequest, Opening
<1>8. SameInv'
  BY <1>1, <1>4 DEF IInv, SameInv, Same
<1> QED BY <1>5, <1>6, <1>7, <1>8 DEF IInv

\* The caches are emptied: from now on what is on the disk counts.
LEMMA ClearStep ==
    ASSUME IInv, clear_cache
    PROVE  IInv'
<1>1. /\ pc = "idle" /\ cache' = [h \in Handlers |-> [p \in Paths |-> NoObject]]
      /\ floor' = [p \in Paths |-> IF disk[p].kind = "absent" THEN writes ELSE disk[p].inode]
      /\ clears < MaxClears /\ clears' = clears + 1
      /\ UNCHANGED <<disk, queue, request, pc, writes>>
  BY DEF clear_cache, ClearHandlers
<1>2. CacheInv'
  BY <1>1 DEF CacheInv
<1>3. RequestInv'
  BY <1>1 DEF IInv, RequestInv, RequestType, NoRequest, Opening
<1>4. QueueInv' /\ Responding' = Responding
  BY <1>1 DEF IInv, QueueInv, Responding
<1>s. SameInv'
  <2>1. clears \in Nat
    BY ResponsesAssumption DEF IInv, DiskInv
  <2>2. \A n : n \in 0..clears => n \in 0..clears + 1 /\ n # clears + 1
    BY <2>1
  <2>3. \A r \in Responding : /\ r.of.epoch \in 0..clears
                              /\ r.of # NoObject => r.path \in Paths
    BY DEF IInv, SameInv, Same
  <2> QED BY <1>1, <1>4, <2>2, <2>3 DEF SameInv, Same
<1>5. DiskInv'
  <2>1. /\ writes' \in 1..MaxWrites /\ writes' = writes /\ disk' = disk /\ writes \in Nat
        /\ disk' \in [Paths -> [kind : Kinds, inode : 1..MaxWrites, content : Contents]]
    BY <1>1, ResponsesAssumption DEF IInv, DiskInv
  <2>2. ASSUME NEW p \in Paths
        PROVE  /\ floor'[p] \in Nat /\ floor'[p] <= writes /\ disk[p].inode <= writes
               /\ disk[p].kind # "absent" => disk[p].inode >= floor'[p]
    <3>0. disk[p].inode \in 1..MaxWrites /\ disk[p].inode <= writes
      BY DEF IInv, DiskInv
    <3>1. CASE disk[p].kind = "absent"
      <4>1. floor'[p] = writes
        BY <1>1, <3>1
      <4> QED BY <2>1, <3>0, <3>1, <4>1
    <3>2. CASE disk[p].kind # "absent"
      <4>1. floor'[p] = disk[p].inode
        BY <1>1, <3>2
      <4> QED BY <3>0, <4>1
    <3> QED BY <3>1, <3>2
  <2>3. floor' \in [Paths -> Nat]
    BY <1>1, <2>2
  <2>4. \A p \in Paths :
           (/\ floor[p] <= writes /\ disk[p].inode <= writes
            /\ disk[p].kind # "absent" => disk[p].inode >= floor[p])'
    BY <2>1, <2>2
  <2>5. clears' \in 0..MaxClears
    BY <1>1, ResponsesAssumption DEF IInv, DiskInv
  <2> QED BY <2>1, <2>3, <2>4, <2>5 DEF DiskInv
<1> QED BY <1>2, <1>3, <1>4, <1>5, <1>s DEF IInv

\* What is put on the disk is no older than what was there; a request takes note of it.
LEMMA PutStep ==
    ASSUME IInv, NEW path \in Paths, NEW entry, Put(path, entry),
           writes < MaxWrites => entry \in [kind : Kinds, inode : 1..MaxWrites, content : Contents],
           entry.inode <= writes + 1, entry.kind # "absent" => entry.inode >= floor[path]
    PROVE  IInv'
<1>1. /\ disk' = [disk EXCEPT ![path] = entry]
      /\ request' = IF path = request.path
                    THEN [request EXCEPT !.seen = @ \cup {Seen(entry)}] ELSE request
      /\ writes < MaxWrites /\ writes' = writes + 1 /\ UNCHANGED <<cache, queue, pc, clears, floor>>
  BY DEF Put
<1>b. writes \in Nat /\ writes + 1 \in 1..MaxWrites /\ writes \in 1..MaxWrites
  BY <1>1, ResponsesAssumption DEF IInv, DiskInv
<1>2. entry \in [kind : Kinds, inode : 1..MaxWrites, content : Contents]
  BY <1>1
<1>c. /\ disk' = [disk EXCEPT ![path] = entry] /\ disk'[path] = entry
      /\ \A p \in Paths : p # path => disk'[p] = disk[p]
  BY <1>1 DEF IInv, DiskInv
<1>3. DiskInv'
  <2>1. disk' \in [Paths -> [kind : Kinds, inode : 1..MaxWrites, content : Contents]]
    BY <1>2, <1>c DEF IInv, DiskInv
  <2>2. ASSUME NEW p \in Paths
        PROVE  /\ floor[p] <= writes + 1 /\ disk'[p].inode <= writes + 1
               /\ disk'[p].kind # "absent" => disk'[p].inode >= floor[p]
    <3>1. /\ floor[p] \in Nat /\ floor[p] <= writes /\ disk[p].inode \in 1..MaxWrites
          /\ disk[p].inode <= writes
          /\ disk[p].kind # "absent" => disk[p].inode >= floor[p]
      BY DEF IInv, DiskInv
    <3>2. CASE p = path
      BY <1>2, <1>b, <1>c, <3>1, <3>2
    <3>3. CASE p # path
      <4>1. disk'[p] = disk[p]
        BY <1>c, <3>3
      <4>2. floor[p] <= writes + 1
        BY <1>b, <3>1
      <4>3. disk[p].inode <= writes + 1
        BY <1>b, <3>1, ResponsesAssumption
      <4>4. disk[p].kind # "absent" => disk[p].inode >= floor[p]
        BY <3>1
      <4> QED BY <4>1, <4>2, <4>3, <4>4
    <3> QED BY <3>2, <3>3
  <2>3. writes' \in 1..MaxWrites /\ clears' \in 0..MaxClears /\ floor' \in [Paths -> Nat]
    BY <1>1, <1>b DEF IInv, DiskInv
  <2> QED BY <1>1, <2>1, <2>2, <2>3 DEF DiskInv
<1>4. CacheInv'
  <2>1. \A o, p : Kept(o, p) => o.inode \in 1..writes + 1
    BY <1>b DEF Kept
  <2> QED BY <1>1, <2>1 DEF IInv, CacheInv, Kept
<1>5. RequestInv'
  <2>0. 0..writes \subseteq 0..writes'
    BY <1>1, <1>b
  <2>1. CASE path = request.path
    <3>1. PICK seen : seen = request.seen \cup {Seen(entry)}
      OBVIOUS
    <3>2. request' = [request EXCEPT !.seen = seen]
      BY <1>1, <2>1, <3>1 DEF IInv, RequestInv, RequestType
    <3>3. Seen(entry) \in Kinds \cup {"empty"}
      BY <1>2, SeenType
    <3>4. seen \in SUBSET (Kinds \cup {"empty"}) /\ Seen(disk'[path]) \in seen
      BY <1>c, <3>1, <3>3 DEF IInv, RequestInv, RequestType
    <3>5. /\ request'.path = request.path /\ request'.asked = request.asked
          /\ request'.method = request.method /\ request'.found = request.found
          /\ request'.seen = seen
      BY <3>2 DEF IInv, RequestInv, RequestType
    <3>6. RequestType'
      BY <2>0, <3>2, <3>4 DEF IInv, RequestInv, RequestType
    <3>7. pc # "idle"
      BY <2>1, ResponsesAssumption DEF IInv, RequestInv, NoRequest
    <3>8. Cached' = Cached
      BY <1>1, <3>5 DEF Cached
    <3> QED BY <1>1, <2>1, <3>4, <3>5, <3>6, <3>7, <3>8 DEF IInv, RequestInv
  <2>2. CASE path # request.path
    <3>1. request' = request
      BY <1>1, <2>2
    <3>2. pc # "idle" => disk'[request.path] = disk[request.path]
      BY <1>c, <2>2 DEF IInv, RequestInv
    <3>3. RequestType'
      BY <2>0, <3>1 DEF IInv, RequestInv, RequestType
    <3>5. Cached' = Cached
      BY <1>1, <3>1 DEF Cached
    <3>4. pc' # "idle" => Seen(disk'[request'.path]) \in request'.seen
      <4>1. ASSUME pc # "idle" PROVE Seen(disk'[request'.path]) \in request'.seen
        <5>1. disk'[request'.path] = disk[request.path] /\ Seen(disk[request.path]) \in request.seen
          BY <3>1, <3>2, <4>1 DEF IInv, RequestInv
        <5> QED BY <3>1, <5>1
      <4> QED BY <1>1, <4>1
    <3> QED BY <1>1, <3>1, <3>3, <3>4, <3>5 DEF IInv, RequestInv
  <2> QED BY <2>1, <2>2
<1>6. QueueInv' /\ SameInv'
  BY <1>1 DEF IInv, QueueInv, Responding, SameInv, Same
<1> QED BY <1>3, <1>4, <1>5, <1>6 DEF IInv

\* A new entry has a new inode, and what is written to keeps its own.
LEMMA WriteStep ==
    ASSUME IInv, NEW path \in Paths, Write(path) \/ Overwrite(path)
    PROVE  IInv'
<1>1. /\ writes \in Nat /\ writes <= MaxWrites /\ MaxWrites \in Nat /\ floor[path] \in Nat
      /\ floor[path] <= writes /\ disk[path].inode \in 1..MaxWrites /\ disk[path].inode <= writes
      /\ disk[path].kind # "absent" => disk[path].inode >= floor[path]
  BY ResponsesAssumption DEF IInv, DiskInv
<1>2. CASE Write(path)
  <2>1. PICK kind \in Kinds, content \in Contents : Put(path, Entry(kind, writes + 1, content))
    BY <1>2 DEF Write
  <2>2. PICK entry : entry = Entry(kind, writes + 1, content)
    OBVIOUS
  <2>3. /\ entry = [kind |-> kind, inode |-> writes + 1, content |-> content]
        /\ entry.inode = writes + 1
    BY <2>2 DEF Entry
  <2>4. writes + 1 >= floor[path] /\ writes + 1 <= writes + 1
        /\ (writes < MaxWrites => writes + 1 \in 1..MaxWrites)
    BY <1>1
  <2>5. writes < MaxWrites => entry \in [kind : Kinds, inode : 1..MaxWrites, content : Contents]
    BY <2>3, <2>4
  <2> QED BY <2>1, <2>2, <2>3, <2>4, <2>5, PutStep
<1>3. CASE Overwrite(path)
  <2>1. PICK content \in Contents : Put(path, Entry("file", disk[path].inode, content))
    BY <1>3 DEF Overwrite
  <2>2. PICK entry : entry = Entry("file", disk[path].inode, content)
    OBVIOUS
  <2>3. /\ entry = [kind |-> "file", inode |-> disk[path].inode, content |-> content]
        /\ entry.inode = disk[path].inode /\ disk[path].kind = "file"
    BY <1>3, <2>2 DEF Entry, Overwrite
  <2>4. disk[path].inode >= floor[path] /\ disk[path].inode <= writes + 1
    BY <1>1, <2>3
  <2>5. entry \in [kind : Kinds, inode : 1..MaxWrites, content : Contents]
    BY <1>1, <2>3 DEF Kinds
  <2> QED BY <2>1, <2>2, <2>3, <2>4, <2>5, PutStep
<1> QED BY <1>2, <1>3

-----------------------------------------------------------------------------
(* The theorems *)

\* Nothing is cached, nothing under way.
LEMMA InitInv == Init => IInv
<1> SUFFICES ASSUME Init PROVE IInv
  OBVIOUS
<1>1. PICK c \in Contents :
         /\ disk = [p \in Paths |-> Entry("file", 1, c)]
         /\ cache = [h \in Handlers |-> [p \in Paths |-> NoObject]]
         /\ queue = <<>> /\ request = NoRequest /\ pc = "idle" /\ writes = 1 /\ clears = 0
         /\ floor = [p \in Paths |-> 1]
  BY DEF Init
<1>2. 1 \in 1..MaxWrites /\ 0 \in 0..MaxClears
  BY ResponsesAssumption
<1>a. PICK entry : entry = Entry("file", 1, c)
  OBVIOUS
<1>3. /\ entry = Entry("file", 1, c) /\ entry.inode = 1 /\ entry.kind = "file"
      /\ entry \in [kind : Kinds, inode : 1..MaxWrites, content : Contents]
  BY <1>2, <1>a DEF Entry, Kinds
<1>4. DiskInv
  BY <1>1, <1>2, <1>3 DEF DiskInv
<1>5. CacheInv
  BY <1>1 DEF CacheInv
<1>6. RequestInv
  BY <1>1 DEF RequestInv, RequestType, NoRequest, Methods, Stages, Opening
<1>7. QueueInv /\ SameInv
  <2>1. queue \in Seq(Responding) /\ DOMAIN queue = {} /\ Len(queue) = 0
    BY <1>1
  <2>2. Responding = {}
    BY <2>1 DEF Responding
  <2> QED BY <2>1, <2>2, ResponsesAssumption DEF QueueInv, SameInv
<1> QED BY <1>4, <1>5, <1>6, <1>7 DEF IInv

\* Every step of the worker, the kernel and the disk preserves the invariant.
LEMMA StepInv == IInv /\ [Next]_vars => IInv'
<1> SUFFICES ASSUME IInv, [Next]_vars PROVE IInv'
  OBVIOUS
<1>1. CASE UNCHANGED vars
  <2>1. UNCHANGED <<disk, cache, queue, request, pc, writes, clears, floor>>
    BY <1>1 DEF vars
  <2>2. RequestInv'
    BY <2>1 DEF IInv, RequestInv, RequestType, Cached
  <2> QED BY <2>1, <2>2, GoOnStep
<1> QED BY <1>1, LogicStep, RequestStep, ResolveStep, HandleStep, MeasureStep, MapStep, SentStep,
           ClearStep, WriteStep DEF Next, LookedAt

\* The disk, the caches, the request and the queue agree on what is new enough, on
\* what was found, and on what is shown.
THEOREM Invariant == Spec => []IInv
BY InitInv, StepInv, PTL DEF Spec

\* Everything stays what it is, and no cache keeps what the other one should.
THEOREM TypeCorrect == Spec => []TypeOK
<1>1. IInv => TypeOK
  <2> SUFFICES ASSUME IInv PROVE TypeOK
    OBVIOUS
  <2>1. (pc = "idle") = (request = NoRequest)
    <3>1. request.path = NoPath => pc = "idle"
      BY ResponsesAssumption DEF IInv, RequestInv
    <3> QED BY <3>1 DEF IInv, RequestInv, NoRequest
  <2>2. \A h \in Handlers, p \in Paths :
           cache[h][p] # NoObject => /\ (h = "template_pages_only") = IsTemplatePage(p)
                                     /\ cache[h][p].inode \in 1..writes
    BY DEF IInv, CacheInv, Kept
  <2>3. request.path \in Paths \cup {NoPath} /\ pc \in Stages
    BY DEF IInv, RequestInv, RequestType
  <2>4. Len(queue) <= MaxQueue /\ \A r \in Responding : r.status \in Statuses /\ r.method \in Methods
    BY DEF IInv, QueueInv, Good
  <2> QED BY <2>1, <2>2, <2>3, <2>4 DEF TypeOK, IInv, DiskInv, Stages
<1> QED BY <1>1, Invariant, PTL

\* However responses, clears and changes of the disk interleave, also within one
\* request, what is answered after a clear was not replaced before it.
THEOREM FreshSafe == Spec => []FreshAfterClear
<1>1. IInv => FreshAfterClear
  BY DEF IInv, QueueInv, Good, FreshAfterClear
<1> QED BY <1>1, Invariant, PTL

\* No buffer that waits to be written points at bytes that have gone, whatever is
\* cleared or replaced meanwhile and in whatever order the chunks of a page come.
THEOREM OwnedSafe == Spec => []BuffersOwned
<1>1. IInv => BuffersOwned
  <2> SUFFICES ASSUME IInv, NEW r \in Responding, NEW k \in DOMAIN r.buffers
               PROVE  LET b == r.buffers[k] IN
                      /\ b.owner = "headers" => k = 1 /\ b.shows[3] = r.headers
                      /\ b.owner = "object" => Live(r.of)
                      /\ b.owner = "model" => b.shows[2] \in DOMAIN r.model
                      /\ b.owner = "temporary" => b.shows[1] = "debug"
    BY DEF BuffersOwned
  <2>1. Owned(r)
    BY DEF IInv, QueueInv, Good
  <2>2. r.holds = r.of => Live(r.of)
    BY DEF Live
  <2> QED BY <2>1, <2>2 DEF Owned
<1> QED BY <1>1, Invariant, PTL

\* For every template that a page is loaded from and every model that generates it,
\* and for every file and string, the body is what was asked for, Content-Length is
\* its length, and HEAD differs by the body alone.
THEOREM BodySafe == Spec => []BodyTrue
<1>1. IInv => BodyTrue
  BY DEF IInv, QueueInv, Good, TrueBody, BodyTrue
<1> QED BY <1>1, Invariant, PTL

\* However the disk changes under a request, the status of its answer can be
\* explained by what was asked for and by what the path was meanwhile.
THEOREM StatusSafe == Spec => []StatusTrue
<1>1. IInv => StatusTrue
  BY DEF IInv, QueueInv, Good, Justified, StatusTrue
<1> QED BY <1>1, Invariant, PTL

\* However often files are replaced between two clears, for whatever paths, rules and
\* order of requests, all responses made of a path meanwhile show one mapping.
THEOREM SameSafe == Spec => []SameUntilClear
<1>1. IInv => SameUntilClear
  BY DEF IInv, SameInv, Same, SameUntilClear
<1> QED BY <1>1, Invariant, PTL
=============================================================================
