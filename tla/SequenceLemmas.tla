-------------------------- MODULE SequenceLemmas --------------------------
(* Facts that the proofs of several components need: induction over the    *)
(* naturals, in a form that takes a set and not a predicate, and what      *)
(* concatenation, InsertAt and RemoveAt leave in place.                    *)
EXTENDS Integers, SequencesExt, SequenceTheorems, WellFoundedInduction, TLAPS

(* Every set of naturals has a least element. *)
LEMMA LeastElement ==
    ASSUME NEW T, T \subseteq Nat, T # {}
    PROVE  \E n \in T : \A m \in T : n <= m
<1> DEFINE R == {ss \in Nat \X Nat : ss[1] < ss[2]}
<1>0. R = OpToRel(<, Nat)
  BY DEF OpToRel
<1>1. IsWellFoundedOn(R, Nat)
  BY <1>0, NatLessThanWellFounded
<1>2. PICK n \in T : \A m \in T : <<m, n>> \notin R
  BY <1>1, WFMin
<1>3. ASSUME NEW m \in T PROVE n <= m
  <2>1. <<m, n>> \in R <=> m < n
    BY <1>3 DEF R
  <2>2. m \in Nat /\ n \in Nat
    OBVIOUS
  <2> HIDE DEF R
  <2> QED
    BY <1>2, <2>1, <2>2
<1> QED
  BY <1>3

(* Induction: what holds of 0 and of the successor of each number that it  *)
(* holds of, holds of all.                                                 *)
LEMMA NatSteps ==
    ASSUME NEW T, 0 \in T, \A n \in Nat : n \in T => n + 1 \in T
    PROVE  \A n \in Nat : n \in T
<1> SUFFICES ASSUME Nat \ T # {} PROVE FALSE
  OBVIOUS
<1>1. PICK n \in Nat \ T : \A m \in Nat \ T : n <= m
  BY LeastElement
<1>2. n # 0 /\ n - 1 \in Nat
  BY <1>1
<1>3. n - 1 \in T
  BY <1>1, <1>2
<1> QED
  BY <1>1, <1>2, <1>3

(* The elements of a page behind the rows it is appended to. *)
LEMMA ConcatFacts ==
    ASSUME NEW S, NEW a \in Seq(S), NEW b \in Seq(S)
    PROVE  /\ a \o b \in Seq(S)
           /\ Len(a \o b) = Len(a) + Len(b)
           /\ \A j \in 1 .. Len(a) : (a \o b)[j] = a[j]
           /\ \A j \in 1 .. Len(b) : (a \o b)[Len(a) + j] = b[j]
<1>1. \A j \in 1 .. Len(a) : (a \o b)[j] = a[j]
  OBVIOUS
<1>2. \A j \in 1 .. Len(b) : (a \o b)[Len(a) + j] = b[j]
  OBVIOUS
<1> QED
  BY <1>1, <1>2

(* A slice of a sequence, also one that is empty. *)
LEMMA SliceFacts ==
    ASSUME NEW S, NEW s \in Seq(S), NEW m \in Nat, NEW n \in Nat, m <= n, n <= Len(s)
    PROVE  /\ SubSeq(s, m + 1, n) \in Seq(S)
           /\ Len(SubSeq(s, m + 1, n)) = n - m
           /\ \A j \in 1 .. n - m : SubSeq(s, m + 1, n)[j] = s[m + j]
<1>1. \A i \in m + 1 .. n : s[i] \in S
  OBVIOUS
<1>2. /\ SubSeq(s, m + 1, n) \in Seq(S)
      /\ Len(SubSeq(s, m + 1, n)) = IF m + 1 <= n THEN n - (m + 1) + 1 ELSE 0
      /\ \A j \in 1 .. n - (m + 1) + 1 : SubSeq(s, m + 1, n)[j] = s[m + 1 + j - 1]
  BY <1>1, SubSeqProperties
<1> QED
  BY <1>2

(* What Publish does to the records: position i is new, the ones before it *)
(* stay where they were.                                                   *)
LEMMA InsertAtFacts ==
    ASSUME NEW S, NEW s \in Seq(S), NEW i \in 1 .. Len(s) + 1, NEW c \in S
    PROVE  /\ InsertAt(s, i, c) \in Seq(S)
           /\ Len(InsertAt(s, i, c)) = Len(s) + 1
           /\ \A j \in 1 .. i - 1 : InsertAt(s, i, c)[j] = s[j]
<1> DEFINE a == SubSeq(s, 1, i - 1)
           b == <<c>>
           d == SubSeq(s, i, Len(s))
<1>1. a \in Seq(S) /\ Len(a) = i - 1 /\ \A j \in 1 .. i - 1 : a[j] = s[j]
  OBVIOUS
<1>2. b \in Seq(S) /\ Len(b) = 1
  OBVIOUS
<1>3. d \in Seq(S) /\ Len(d) = Len(s) - i + 1
  OBVIOUS
<1> HIDE DEF a, b, d
<1>4. a \o b \in Seq(S) /\ Len(a \o b) = Len(a) + Len(b)
  BY <1>1, <1>2, ConcatFacts
<1>5. \A j \in 1 .. Len(a) : (a \o b)[j] = a[j]
  BY <1>1, <1>2, ConcatFacts
<1>6. (a \o b) \o d \in Seq(S) /\ Len((a \o b) \o d) = Len(a \o b) + Len(d)
  BY <1>3, <1>4, ConcatFacts
<1>7. \A j \in 1 .. Len(a \o b) : ((a \o b) \o d)[j] = (a \o b)[j]
  BY <1>3, <1>4, ConcatFacts
<1>8. InsertAt(s, i, c) = (a \o b) \o d
  BY DEF InsertAt, a, b, d
<1> QED
  BY <1>1, <1>2, <1>3, <1>4, <1>5, <1>6, <1>7, <1>8

(* What Withdraw does: the records before position i stay. *)
LEMMA RemoveAtFacts ==
    ASSUME NEW S, NEW s \in Seq(S), NEW i \in 1 .. Len(s)
    PROVE  /\ RemoveAt(s, i) \in Seq(S)
           /\ Len(RemoveAt(s, i)) = Len(s) - 1
           /\ \A j \in 1 .. i - 1 : RemoveAt(s, i)[j] = s[j]
<1> DEFINE a == SubSeq(s, 1, i - 1)
           d == SubSeq(s, i + 1, Len(s))
<1>1. a \in Seq(S) /\ Len(a) = i - 1 /\ \A j \in 1 .. i - 1 : a[j] = s[j]
  OBVIOUS
<1>2. d \in Seq(S) /\ Len(d) = Len(s) - i
  OBVIOUS
<1> HIDE DEF a, d
<1>3. a \o d \in Seq(S) /\ Len(a \o d) = Len(s) - 1
  BY <1>1, <1>2
<1>4. \A j \in 1 .. Len(a) : (a \o d)[j] = a[j]
  BY <1>1, <1>2, ConcatFacts
<1>5. RemoveAt(s, i) = a \o d
  BY DEF RemoveAt, a, d
<1> QED
  BY <1>1, <1>3, <1>4, <1>5

(* What FlattenSeq of the library makes of a sequence of sequences.        *)
LEMMA FlattenFacts ==
    ASSUME NEW S, NEW ss \in Seq(Seq(S)), NEW f, f = FlattenSeq(ss)
    PROVE  f \in Seq(S) /\ ToSet(f) = UNION {ToSet(ss[k]) : k \in DOMAIN ss}
<1> DEFINE n == Len(ss)
           body(g, m) == [i \in 1 .. m |-> IF i = 1 THEN ss[i] ELSE g[i - 1] \o ss[i]]
           flat == CHOOSE g : g = body(g, n)
           T == {m \in Nat : \E g : g = body(g, m)}
<1>0. n \in Nat /\ \A k \in 1 .. n : ss[k] \in Seq(S)
  OBVIOUS
<1>1. 0 \in T
  <2> DEFINE g == [i \in 1 .. 0 |-> <<>>]
  <2>1. g = body(g, 0)
    OBVIOUS
  <2> QED
    BY <2>1
<1>2. ASSUME NEW m \in Nat, m \in T PROVE m + 1 \in T
  <2>1. PICK g : g = body(g, m)
    BY <1>2
  <2> DEFINE next == IF m + 1 = 1 THEN ss[m + 1] ELSE g[m] \o ss[m + 1]
             h == [i \in 1 .. m + 1 |-> IF i = m + 1 THEN next ELSE g[i]]
  <2> HIDE DEF next
  <2>2. ASSUME NEW i \in 1 .. m + 1
        PROVE  h[i] = IF i = 1 THEN ss[i] ELSE h[i - 1] \o ss[i]
    <3>1. CASE i = m + 1
      <4>1. h[i] = next /\ (i # 1 => h[i - 1] = g[m])
        BY <3>1
      <4> QED
        BY <3>1, <4>1 DEF next
    <3>2. CASE i \in 1 .. m
      <4>1. h[i] = g[i] /\ (i # 1 => h[i - 1] = g[i - 1])
        BY <3>2
      <4>2. g[i] = IF i = 1 THEN ss[i] ELSE g[i - 1] \o ss[i]
        BY <2>1, <3>2
      <4> QED
        BY <4>1, <4>2
    <3> QED
      BY <3>1, <3>2
  <2> HIDE DEF h
  <2>3. h = body(h, m + 1)
    BY <2>2 DEF h
  <2>4. \E z : z = body(z, m + 1)
    BY <2>3
  <2> HIDE DEF body
  <2> QED
    BY <2>4
<1>3. flat = body(flat, n)
  <2>1. n \in T
    <3> HIDE DEF T
    <3> QED
      BY <1>0, <1>1, <1>2, NatSteps
  <2> QED
    BY <2>1
<1>4. f = IF n = 0 THEN ss ELSE flat[n]
  BY DEF FlattenSeq
<1> HIDE DEF flat, body
<1>5. \A i \in 1 .. n : flat[i] = IF i = 1 THEN ss[i] ELSE flat[i - 1] \o ss[i]
  BY <1>3 DEF body
<1> DEFINE Among(m) ==
              /\ flat[m] \in Seq(S)
              /\ \A x : (\E i \in 1 .. Len(flat[m]) : flat[m][i] = x) <=>
                        (\E k \in 1 .. m : \E l \in 1 .. Len(ss[k]) : ss[k][l] = x)
           U == {m \in Nat : m \in 1 .. n => Among(m)}
<1> HIDE DEF n, Among
<1>6. 0 \in U
  BY <1>0
<1>7. ASSUME NEW m \in Nat, m \in U PROVE m + 1 \in U
  <2> SUFFICES ASSUME m + 1 \in 1 .. n PROVE Among(m + 1)
    OBVIOUS
  <2> USE DEF Among
  <2>1. CASE m = 0
    <3>1. flat[1] = ss[1] /\ ss[1] \in Seq(S)
      BY <1>0, <1>5, <2>1
    <3>2. \A k : k \in 1 .. 1 <=> k = 1
      OBVIOUS
    <3> QED
      BY <2>1, <3>1, <3>2
  <2>2. CASE m > 0
    <3> DEFINE a == flat[m]   b == ss[m + 1]   c == flat[m + 1]
    <3>0. m \in 1 .. n /\ m + 1 # 1 /\ (m + 1) - 1 = m
      BY <1>0, <2>2
    <3>1. Among(m)
      <4> HIDE DEF Among
      <4> QED
        BY <1>7, <3>0
    <3>2. c = a \o b
      <4>1. flat[m + 1] = flat[(m + 1) - 1] \o ss[m + 1]
        BY <1>5, <3>0
      <4> QED
        BY <3>0, <4>1
    <3>3. a \in Seq(S) /\ b \in Seq(S)
      BY <1>0, <3>1
    <3> HIDE DEF a, b, c
    <3>4. /\ c \in Seq(S) /\ Len(c) = Len(a) + Len(b) /\ Len(a) \in Nat /\ Len(b) \in Nat
          /\ \A j \in 1 .. Len(a) : c[j] = a[j]
          /\ \A j \in 1 .. Len(b) : c[Len(a) + j] = b[j]
      BY <3>2, <3>3, ConcatFacts
    <3>5. ASSUME NEW x
          PROVE  (\E i \in 1 .. Len(c) : c[i] = x) <=>
                    \/ \E i \in 1 .. Len(a) : a[i] = x
                    \/ \E i \in 1 .. Len(b) : b[i] = x
      <4>1. ASSUME NEW i \in 1 .. Len(c), c[i] = x
            PROVE  \/ \E j \in 1 .. Len(a) : a[j] = x
                   \/ \E j \in 1 .. Len(b) : b[j] = x
        <5>1. CASE i \in 1 .. Len(a)
          BY <3>4, <4>1, <5>1
        <5>2. CASE i \notin 1 .. Len(a)
          <6>1. i - Len(a) \in 1 .. Len(b) /\ Len(a) + (i - Len(a)) = i
            BY <3>4, <5>2
          <6> QED
            BY <3>4, <4>1, <6>1
        <5> QED
          BY <5>1, <5>2
      <4>2. \A i \in 1 .. Len(a) : i \in 1 .. Len(c)
        BY <3>4
      <4>3. \A i \in 1 .. Len(b) : Len(a) + i \in 1 .. Len(c)
        BY <3>4
      <4> QED
        BY <3>4, <4>1, <4>2, <4>3
    <3>6. \A k \in 1 .. m + 1 : k \in 1 .. m \/ k = m + 1
      OBVIOUS
    <3>7. m + 1 \in 1 .. m + 1 /\ \A k \in 1 .. m : k \in 1 .. m + 1
      OBVIOUS
    <3>8. ASSUME NEW x
          PROVE  (\E i \in 1 .. Len(c) : c[i] = x) <=>
                    (\E k \in 1 .. m + 1 : \E l \in 1 .. Len(ss[k]) : ss[k][l] = x)
      <4>1. (\E i \in 1 .. Len(a) : a[i] = x) <=>
               (\E k \in 1 .. m : \E l \in 1 .. Len(ss[k]) : ss[k][l] = x)
        BY <3>1 DEF a
      <4>2. (\E i \in 1 .. Len(b) : b[i] = x) <=>
               (\E l \in 1 .. Len(ss[m + 1]) : ss[m + 1][l] = x)
        BY DEF b
      <4> QED
        BY <3>5, <3>6, <3>7, <4>1, <4>2
    <3> QED
      BY <3>4, <3>8 DEF c
  <2> QED
    BY <2>1, <2>2
<1>8. n \in U
  <2> HIDE DEF U
  <2> QED
    BY <1>0, <1>6, <1>7, NatSteps
<1>9. /\ f \in Seq(S)
      /\ \A x : (\E i \in 1 .. Len(f) : f[i] = x) <=>
                (\E k \in 1 .. n : \E l \in 1 .. Len(ss[k]) : ss[k][l] = x)
  <2>1. CASE n = 0
    <3>1. f = <<>> /\ Len(f) = 0
      BY <1>4, <2>1, EmptySeq DEF n
    <3> QED
      BY <2>1, <3>1
  <2>2. CASE n # 0
    <3>1. n \in 1 .. n /\ f = flat[n]
      BY <1>0, <1>4, <2>2
    <3> QED
      BY <1>8, <3>1 DEF Among
  <2> QED
    BY <2>1, <2>2
<1>10. DOMAIN f = 1 .. Len(f) /\ DOMAIN ss = 1 .. n /\ \A k \in 1 .. n : DOMAIN ss[k] = 1 .. Len(ss[k])
  BY <1>0, <1>9 DEF n
<1>11. ASSUME NEW x PROVE x \in ToSet(f) <=> x \in UNION {ToSet(ss[k]) : k \in DOMAIN ss}
  <2>1. x \in ToSet(f) <=> \E i \in 1 .. Len(f) : f[i] = x
    BY <1>10 DEF ToSet
  <2>2. x \in UNION {ToSet(ss[k]) : k \in DOMAIN ss} <=> \E k \in 1 .. n : x \in ToSet(ss[k])
    BY <1>10
  <2>3. ASSUME NEW k \in 1 .. n
        PROVE  x \in ToSet(ss[k]) <=> \E l \in 1 .. Len(ss[k]) : ss[k][l] = x
    BY <1>10 DEF ToSet
  <2> QED
    BY <1>9, <2>1, <2>2, <2>3
<1> QED
  BY <1>9, <1>11
====
