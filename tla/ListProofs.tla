----------------------------- MODULE ListProofs -----------------------------
(***************************************************************************)
(* What filtering and flattening lists comes to, for lists of any length.  *)
(*                                                                         *)
(* The inductions have a set in the place of an operator: the numbers, or  *)
(* the lists, for which the claim holds.                                   *)
(***************************************************************************)
EXTENDS Lists, SequencesExt, SequenceTheorems, WellFoundedInduction, TLAPS

\* A set of numbers that has 0 and the successor of each of its members is Nat.
LEMMA SetInduction ==
    ASSUME NEW T \in SUBSET Nat, 0 \in T, \A n \in T : n + 1 \in T
    PROVE  T = Nat
<1>. SUFFICES ASSUME Nat \ T # {} PROVE FALSE
  OBVIOUS
<1>1. IsWellFoundedOn(OpToRel(<, Nat), Nat)
  BY NatLessThanWellFounded
<1>2. PICK x \in Nat \ T : \A y \in Nat \ T : ~(<<y, x>> \in OpToRel(<, Nat))
  BY <1>1, WFMin
<1>3. \A y \in Nat \ T : ~(y < x)
  BY <1>2 DEF OpToRel
<1>q. QED  BY <1>3

\* A set of numbers that is not empty has a least one.
LEMMA MinIn ==
    ASSUME NEW I \in SUBSET Nat, I # {}
    PROVE  Min(I) \in I /\ \A y \in I : Min(I) <= y
<1>1. IsWellFoundedOn(OpToRel(<, Nat), Nat)
  BY NatLessThanWellFounded
<1>2. PICK x \in I : \A y \in I : ~(<<y, x>> \in OpToRel(<, Nat))
  BY <1>1, WFMin
<1>3. x \in Nat /\ \A y \in I : y \in Nat
  OBVIOUS
<1>4. \A y \in I : ~(y < x)
  BY <1>2, <1>3 DEF OpToRel
<1>5. \A y \in I : x <= y
  BY <1>3, <1>4
<1>q. QED  BY <1>5 DEF Min

\* A set of lists that has the empty one, and with a list all its extensions by
\* one member, has them all.
LEMMA ListInduction ==
    ASSUME NEW S, NEW T \in SUBSET Seq(S), <<>> \in T,
           \A s \in T : \A x \in S : Append(s, x) \in T
    PROVE  T = Seq(S)
<1>. DEFINE N == {n \in Nat : \A s \in Seq(S) : Len(s) = n => s \in T}
<1>1. 0 \in N
  OBVIOUS
<1>2. ASSUME NEW n \in N PROVE n + 1 \in N
  <2>. SUFFICES ASSUME NEW s \in Seq(S), Len(s) = n + 1 PROVE s \in T
    OBVIOUS
  <2>. DEFINE front == SubSeq(s, 1, n)
  <2>1. front \in Seq(S) /\ Len(front) = n /\ s[n + 1] \in S
    OBVIOUS
  <2>2. front \in T
    BY <2>1
  <2>3. Append(front, s[n + 1]) = s
    <3>. DEFINE again == Append(front, s[n + 1])
    <3>1. again \in Seq(S) /\ Len(again) = n + 1 /\ \A i \in 1..(n + 1) : again[i] = s[i]
      BY <2>1
    <3>. HIDE DEF again
    <3>q. QED  BY <3>1, SeqEqual DEF again
  <2>q. QED  BY <2>1, <2>2, <2>3
<1>3. N = Nat
  <2>. HIDE DEF N
  <2>1. N \in SUBSET Nat
    BY DEF N
  <2>q. QED  BY <1>1, <1>2, <2>1, SetInduction
<1>4. \A s \in Seq(S) : Len(s) \in N
  BY <1>3
<1>q. QED  BY <1>4

-----------------------------------------------------------------------------
(* Retain *)

\* g maps each n up to m to what Retain keeps of the first n members.
KeptUpTo(g, list, keep, m) ==
    g = [n \in 0..m |->
            IF n = 0 THEN <<>>
            ELSE IF list[n] \in keep THEN Append(g[n - 1], list[n]) ELSE g[n - 1]]

\* The recursive function by which Retain is defined exists.
LEMMA KeptExists ==
    ASSUME NEW S, NEW list \in Seq(S), NEW keep, NEW m \in Nat
    PROVE  \E g : KeptUpTo(g, list, keep, m)
<1>. DEFINE T == {k \in Nat : \E g : KeptUpTo(g, list, keep, k)}
<1>1. 0 \in T
  <2>1. KeptUpTo([n \in 0..0 |-> <<>>], list, keep, 0)
    BY DEF KeptUpTo
  <2>q. QED  BY <2>1
<1>2. ASSUME NEW k \in T PROVE k + 1 \in T
  <2>1. PICK g : KeptUpTo(g, list, keep, k)
    OBVIOUS
  <2>. DEFINE last == IF list[k + 1] \in keep THEN Append(g[k], list[k + 1]) ELSE g[k]
              h == [n \in 0..(k + 1) |-> IF n = k + 1 THEN last ELSE g[n]]
              next == [n \in 0..(k + 1) |->
                         IF n = 0 THEN <<>>
                         ELSE IF list[n] \in keep THEN Append(h[n - 1], list[n]) ELSE h[n - 1]]
  <2>2. k \in Nat /\ g = [n \in 0..k |->
            IF n = 0 THEN <<>>
            ELSE IF list[n] \in keep THEN Append(g[n - 1], list[n]) ELSE g[n - 1]]
    BY <2>1 DEF KeptUpTo
  <2>3. ASSUME NEW n \in 0..(k + 1) PROVE next[n] = h[n]
    <3>1. CASE n = 0
      BY <2>2, <3>1
    <3>2. CASE n = k + 1
      <4>1. n # 0 /\ n - 1 = k /\ k \in 0..(k + 1) /\ k # k + 1
        BY <2>2, <3>2
      <4>2. h[n - 1] = g[k] /\ h[n] = last
        BY <3>2, <4>1
      <4>q. QED  BY <3>2, <4>1, <4>2
    <3>3. CASE n # 0 /\ n # k + 1
      <4>1. n \in 0..k /\ n - 1 \in 0..(k + 1) /\ n - 1 # k + 1 /\ n - 1 \in 0..k
        BY <2>2, <3>3
      <4>2. h[n] = g[n] /\ h[n - 1] = g[n - 1]
        BY <3>3, <4>1
      <4>. HIDE DEF h
      <4>3. g[n] = IF list[n] \in keep THEN Append(g[n - 1], list[n]) ELSE g[n - 1]
        BY <2>2, <3>3, <4>1
      <4>q. QED  BY <3>3, <4>2, <4>3
    <3>q. QED  BY <3>1, <3>2, <3>3
  <2>4. h = [n \in 0..(k + 1) |-> h[n]]
    OBVIOUS
  <2>. HIDE DEF h
  <2>5. next = [n \in 0..(k + 1) |-> next[n]]
    OBVIOUS
  <2>6. h = next
    <3>. HIDE DEF next
    <3>q. QED  BY <2>3, <2>4, <2>5
  <2>7. KeptUpTo(h, list, keep, k + 1)
    BY <2>6, Zenon DEF KeptUpTo
  <2>8. k + 1 \in Nat
    OBVIOUS
  <2>q. QED  BY <2>7, <2>8
<1>3. T = Nat
  <2>. HIDE DEF T
  <2>1. T \in SUBSET Nat
    BY DEF T
  <2>q. QED  BY <1>1, <1>2, <2>1, SetInduction
<1>q. QED  BY <1>3

\* Retain is the last value of that function.
LEMMA RetainIs ==
    ASSUME NEW S, NEW list \in Seq(S), NEW keep
    PROVE  \E g : KeptUpTo(g, list, keep, Len(list)) /\ Retain(list, keep) = g[Len(list)]
<1>. DEFINE g == CHOOSE h : h = [n \in 0..Len(list) |->
                   IF n = 0 THEN <<>>
                   ELSE IF list[n] \in keep THEN Append(h[n - 1], list[n]) ELSE h[n - 1]]
<1>1. Retain(list, keep) = g[Len(list)]
  BY DEF Retain
<1>2. \E h : KeptUpTo(h, list, keep, Len(list))
  <2>1. Len(list) \in Nat
    OBVIOUS
  <2>q. QED  BY <2>1, KeptExists, Zenon
<1>3. KeptUpTo(g, list, keep, Len(list))
  BY <1>2 DEF KeptUpTo
<1>q. QED  BY <1>1, <1>3

\* The values of the function, one by one.
LEMMA KeptValues ==
    ASSUME NEW g, NEW list, NEW keep, NEW m \in Nat, KeptUpTo(g, list, keep, m)
    PROVE  /\ g[0] = <<>>
           /\ \A n \in 1..m : g[n] = IF list[n] \in keep THEN Append(g[n - 1], list[n]) ELSE g[n - 1]
<1>1. g = [n \in 0..m |->
             IF n = 0 THEN <<>>
             ELSE IF list[n] \in keep THEN Append(g[n - 1], list[n]) ELSE g[n - 1]]
  BY Zenon DEF KeptUpTo
<1>2. \A n \in 0..m : g[n] = IF n = 0 THEN <<>>
             ELSE IF list[n] \in keep THEN Append(g[n - 1], list[n]) ELSE g[n - 1]
  BY <1>1, Zenon
<1>3. 0 \in 0..m /\ \A n \in 1..m : n \in 0..m /\ n # 0
  OBVIOUS
<1>q. QED  BY <1>2, <1>3

\* Retain on the empty list.
LEMMA RetainEmpty ==
    ASSUME NEW keep
    PROVE  Retain(<<>>, keep) = <<>>
<1>1. <<>> \in Seq({}) /\ Len(<<>>) = 0
  OBVIOUS
<1>2. PICK g : KeptUpTo(g, <<>>, keep, Len(<<>>)) /\ Retain(<<>>, keep) = g[Len(<<>>)]
  BY <1>1, RetainIs
<1>3. g[0] = <<>>
  BY <1>1, <1>2, KeptValues
<1>q. QED  BY <1>1, <1>2, <1>3

\* Retain takes the last member by itself.
LEMMA RetainAppend ==
    ASSUME NEW S, NEW list \in Seq(S), NEW x \in S, NEW keep
    PROVE  Retain(Append(list, x), keep) =
               IF x \in keep THEN Append(Retain(list, keep), x) ELSE Retain(list, keep)
<1>. DEFINE more == Append(list, x)
            n == Len(list)
<1>1. /\ more \in Seq(S) /\ Len(more) = n + 1 /\ n \in Nat /\ more[n + 1] = x
      /\ \A i \in 1..n : more[i] = list[i]
  OBVIOUS
<1>. HIDE DEF more
<1>2. PICK g : KeptUpTo(g, list, keep, n) /\ Retain(list, keep) = g[n]
  BY RetainIs
<1>3. PICK h : KeptUpTo(h, more, keep, n + 1) /\ Retain(more, keep) = h[n + 1]
  <2>1. \E h : KeptUpTo(h, more, keep, Len(more)) /\ Retain(more, keep) = h[Len(more)]
    BY <1>1, RetainIs
  <2>q. QED  BY <1>1, <2>1
<1>. HIDE DEF n
<1>4. /\ g[0] = <<>>
      /\ \A i \in 1..n : g[i] = IF list[i] \in keep THEN Append(g[i - 1], list[i]) ELSE g[i - 1]
  BY <1>1, <1>2, KeptValues
<1>5. /\ h[0] = <<>>
      /\ \A i \in 1..(n + 1) : h[i] = IF more[i] \in keep THEN Append(h[i - 1], more[i]) ELSE h[i - 1]
  <2>1. n + 1 \in Nat
    BY <1>1
  <2>q. QED  BY <1>3, <2>1, KeptValues
<1>. DEFINE T == {i \in Nat : i <= n => h[i] = g[i]}
<1>6. 0 \in T
  BY <1>4, <1>5
<1>7. ASSUME NEW i \in T PROVE i + 1 \in T
  <2>. SUFFICES ASSUME i + 1 <= n PROVE h[i + 1] = g[i + 1]
    OBVIOUS
  <2>1. i \in Nat /\ i + 1 \in 1..n /\ i + 1 \in 1..(n + 1) /\ (i + 1) - 1 = i /\ h[i] = g[i]
    BY <1>1
  <2>2. more[i + 1] = list[i + 1]
    BY <1>1, <2>1
  <2>3. g[i + 1] = IF list[i + 1] \in keep THEN Append(g[i], list[i + 1]) ELSE g[i]
    BY <1>4, <2>1
  <2>4. h[i + 1] = IF more[i + 1] \in keep THEN Append(h[i], more[i + 1]) ELSE h[i]
    BY <1>5, <2>1
  <2>q. QED  BY <2>1, <2>2, <2>3, <2>4
<1>8. T = Nat
  <2>. HIDE DEF T
  <2>1. T \in SUBSET Nat
    BY DEF T
  <2>q. QED  BY <1>6, <1>7, <2>1, SetInduction
<1>9. h[n] = g[n]
  BY <1>1, <1>8
<1>10. n + 1 \in 1..(n + 1) /\ (n + 1) - 1 = n
  BY <1>1
<1>11. h[n + 1] = IF x \in keep THEN Append(h[n], x) ELSE h[n]
  BY <1>1, <1>5, <1>10
<1>q. QED  BY <1>2, <1>3, <1>9, <1>11 DEF more

\* Retain returns members that are kept.
LEMMA RetainType ==
    ASSUME NEW S, NEW keep
    PROVE  \A list \in Seq(S) : Retain(list, keep) \in Seq(S \cap keep)
<1>. DEFINE T == {list \in Seq(S) : Retain(list, keep) \in Seq(S \cap keep)}
<1>1. <<>> \in T
  <2>1. Retain(<<>>, keep) = <<>>
    BY RetainEmpty
  <2>2. <<>> \in Seq(S) /\ <<>> \in Seq(S \cap keep)
    OBVIOUS
  <2>q. QED  BY <2>1, <2>2
<1>2. ASSUME NEW list \in T, NEW x \in S PROVE Append(list, x) \in T
  <2>1. list \in Seq(S) /\ Append(list, x) \in Seq(S) /\ Retain(list, keep) \in Seq(S \cap keep)
    OBVIOUS
  <2>2. Retain(Append(list, x), keep) =
            IF x \in keep THEN Append(Retain(list, keep), x) ELSE Retain(list, keep)
    BY <2>1, RetainAppend
  <2>3. Retain(Append(list, x), keep) \in Seq(S \cap keep)
    BY <2>1, <2>2
  <2>q. QED  BY <2>1, <2>3
<1>3. T = Seq(S)
  <2>. HIDE DEF T
  <2>1. T \in SUBSET Seq(S)
    BY DEF T
  <2>q. QED  BY <1>1, <1>2, <2>1, ListInduction
<1>q. QED  BY <1>3

\* What all of keep is kept as it is, what none of it is goes.
LEMMA RetainAll ==
    ASSUME NEW keep
    PROVE  \A list \in Seq(keep) : Retain(list, keep) = list
<1>. DEFINE T == {list \in Seq(keep) : Retain(list, keep) = list}
<1>1. <<>> \in T
  BY RetainEmpty
<1>2. ASSUME NEW list \in T, NEW x \in keep PROVE Append(list, x) \in T
  <2>1. list \in Seq(keep) /\ Append(list, x) \in Seq(keep) /\ Retain(list, keep) = list
    OBVIOUS
  <2>2. Retain(Append(list, x), keep) = Append(list, x)
    BY <2>1, RetainAppend
  <2>q. QED  BY <2>1, <2>2
<1>3. T = Seq(keep)
  <2>. HIDE DEF T
  <2>1. T \in SUBSET Seq(keep)
    BY DEF T
  <2>q. QED  BY <1>1, <1>2, <2>1, ListInduction
<1>q. QED  BY <1>3

\* Retain returns nothing when no member is kept.
LEMMA RetainNone ==
    ASSUME NEW S, NEW keep, S \cap keep = {}
    PROVE  \A list \in Seq(S) : Retain(list, keep) = <<>>
<1>1. ASSUME NEW list \in Seq(S) PROVE Retain(list, keep) = <<>>
  <2>1. Retain(list, keep) \in Seq({})
    BY RetainType
  <2>q. QED  BY <2>1
<1>q. QED  BY <1>1

\* The length of a concatenation.
LEMMA ConcatLen ==
    ASSUME NEW S, NEW a \in Seq(S), NEW b \in Seq(S)
    PROVE  Len(a \o b) = Len(a) + Len(b)
  OBVIOUS

\* Appending to the second part appends to the whole.
LEMMA ConcatAppend ==
    ASSUME NEW S, NEW a \in Seq(S), NEW b \in Seq(S), NEW x \in S
    PROVE  a \o Append(b, x) = Append(a \o b, x)
<1>. DEFINE l == a \o Append(b, x)
            r == Append(a \o b, x)
<1>1. Append(b, x) \in Seq(S) /\ Len(Append(b, x)) = Len(b) + 1 /\ Len(a) \in Nat /\ Len(b) \in Nat
      /\ (\A i \in 1..Len(b) : Append(b, x)[i] = b[i]) /\ Append(b, x)[Len(b) + 1] = x
  OBVIOUS
<1>2. /\ l \in Seq(S) /\ Len(l) = Len(a) + (Len(b) + 1)
      /\ \A i \in 1..(Len(a) + (Len(b) + 1)) :
            l[i] = IF i <= Len(a) THEN a[i] ELSE Append(b, x)[i - Len(a)]
  BY <1>1, ConcatProperties
<1>3. /\ a \o b \in Seq(S) /\ Len(a \o b) = Len(a) + Len(b)
      /\ \A i \in 1..(Len(a) + Len(b)) : (a \o b)[i] = IF i <= Len(a) THEN a[i] ELSE b[i - Len(a)]
  BY ConcatProperties
<1>4. /\ r \in Seq(S) /\ Len(r) = Len(a) + Len(b) + 1 /\ r[Len(a) + Len(b) + 1] = x
      /\ \A i \in 1..(Len(a) + Len(b)) : r[i] = (a \o b)[i]
  BY <1>1, <1>3
<1>. HIDE DEF l, r
<1>5. ASSUME NEW i \in 1..Len(l) PROVE l[i] = r[i]
  <2>1. CASE i = Len(a) + Len(b) + 1
    BY <1>1, <1>2, <1>4, <2>1
  <2>2. CASE i \in 1..(Len(a) + Len(b)) /\ i <= Len(a)
    BY <1>1, <1>2, <1>3, <1>4, <2>2
  <2>3. CASE i \in 1..(Len(a) + Len(b)) /\ ~(i <= Len(a))
    <3>1. i - Len(a) \in 1..Len(b)
      BY <1>1, <2>3
    <3>q. QED  BY <1>1, <1>2, <1>3, <1>4, <2>3, <3>1
  <2>4. i \in 1..(Len(a) + Len(b)) \/ i = Len(a) + Len(b) + 1
    <3>1. Len(l) = Len(a) + Len(b) + 1 /\ Len(a) \in Nat /\ Len(b) \in Nat
      BY <1>1, <1>2
    <3>q. QED  BY <3>1
  <2>q. QED  BY <2>1, <2>2, <2>3, <2>4
<1>q. QED  BY <1>1, <1>2, <1>4, <1>5, SeqEqual DEF l, r

\* Retain distributes over concatenation.
LEMMA RetainConcat ==
    ASSUME NEW S, NEW a \in Seq(S), NEW keep
    PROVE  \A b \in Seq(S) : Retain(a \o b, keep) = Retain(a, keep) \o Retain(b, keep)
<1>. DEFINE T == {b \in Seq(S) : Retain(a \o b, keep) = Retain(a, keep) \o Retain(b, keep)}
<1>0. Retain(a, keep) \in Seq(S \cap keep)
  BY RetainType
<1>1. <<>> \in T
  BY <1>0, RetainEmpty, ConcatEmptySeq
<1>2. ASSUME NEW b \in T, NEW x \in S PROVE Append(b, x) \in T
  <2>. DEFINE ra == Retain(a, keep)
              rb == Retain(b, keep)
              ab == a \o b
  <2>1. b \in Seq(S) /\ Append(b, x) \in Seq(S) /\ Retain(ab, keep) = ra \o rb
    OBVIOUS
  <2>2. a \o Append(b, x) = Append(ab, x) /\ ab \in Seq(S)
    BY <2>1, ConcatAppend, ConcatProperties
  <2>3. Retain(Append(ab, x), keep) = IF x \in keep THEN Append(ra \o rb, x) ELSE ra \o rb
    <3>. HIDE DEF ab, ra, rb
    <3>1. Retain(Append(ab, x), keep) =
              IF x \in keep THEN Append(Retain(ab, keep), x) ELSE Retain(ab, keep)
      BY <2>2, RetainAppend
    <3>q. QED  BY <2>1, <3>1
  <2>4. Retain(Append(b, x), keep) = IF x \in keep THEN Append(rb, x) ELSE rb
    BY <2>1, RetainAppend
  <2>5. ra \in Seq(S \cap keep) /\ rb \in Seq(S \cap keep)
    BY <2>1, RetainType
  <2>. HIDE DEF ra, rb
  <2>6. x \in keep => Append(ra \o rb, x) = ra \o Append(rb, x)
    <3>. SUFFICES ASSUME x \in keep PROVE Append(ra \o rb, x) = ra \o Append(rb, x)
      OBVIOUS
    <3>1. ra \in Seq(S) /\ rb \in Seq(S)
      BY <2>5
    <3>. HIDE DEF T
    <3>q. QED  BY <3>1, ConcatAppend
  <2>7. Retain(a \o Append(b, x), keep) = ra \o Retain(Append(b, x), keep)
    BY <2>2, <2>3, <2>4, <2>6
  <2>q. QED  BY <2>1, <2>7 DEF ra
<1>3. T = Seq(S)
  <2>. HIDE DEF T
  <2>1. T \in SUBSET Seq(S)
    BY DEF T
  <2>q. QED  BY <1>1, <1>2, <2>1, ListInduction
<1>q. QED  BY <1>3

\* A member of keep that is in the list is among what is retained.
LEMMA RetainFinds ==
    ASSUME NEW S, NEW keep
    PROVE  \A list \in Seq(S) : \A i \in 1..Len(list) :
               list[i] \in keep => \E k \in 1..Len(Retain(list, keep)) : Retain(list, keep)[k] = list[i]
<1>. DEFINE Found(list) == \A i \in 1..Len(list) :
               list[i] \in keep => \E k \in 1..Len(Retain(list, keep)) : Retain(list, keep)[k] = list[i]
            T == {list \in Seq(S) : Found(list)}
<1>1. <<>> \in T
  OBVIOUS
<1>2. ASSUME NEW list \in T, NEW x \in S PROVE Append(list, x) \in T
  <2>. DEFINE kept == Retain(list, keep)
              more == Append(list, x)
              now == Retain(more, keep)
  <2>1. /\ list \in Seq(S) /\ more \in Seq(S) /\ Len(more) = Len(list) + 1
        /\ \A i \in 1..Len(list) : more[i] = list[i]
        /\ more[Len(list) + 1] = x
        /\ \A i \in 1..Len(list) : list[i] \in keep => \E k \in 1..Len(kept) : kept[k] = list[i]
    OBVIOUS
  <2>2. now = (IF x \in keep THEN Append(kept, x) ELSE kept) /\ kept \in Seq(S \cap keep)
    BY <2>1, RetainAppend, RetainType
  <2>. HIDE DEF kept, more, now
  <2>3. /\ \A k \in 1..Len(kept) : k \in 1..Len(now) /\ now[k] = kept[k]
        /\ x \in keep => Len(kept) + 1 \in 1..Len(now) /\ now[Len(kept) + 1] = x
    BY <2>2
  <2>4. ASSUME NEW i \in 1..Len(more), more[i] \in keep
        PROVE  \E k \in 1..Len(now) : now[k] = more[i]
    <3>1. CASE i \in 1..Len(list)
      BY <2>1, <2>3, <2>4, <3>1
    <3>2. CASE i = Len(list) + 1
      BY <2>1, <2>3, <2>4, <3>2
    <3>3. i \in 1..Len(list) \/ i = Len(list) + 1
      BY <2>1
    <3>q. QED  BY <3>1, <3>2, <3>3
  <2>q. QED  BY <2>1, <2>4 DEF now, more
<1>3. T = Seq(S)
  <2>. HIDE DEF T
  <2>1. T \in SUBSET Seq(S)
    BY DEF T
  <2>q. QED  BY <1>1, <1>2, <2>1, ListInduction
<1>q. QED  BY <1>3

-----------------------------------------------------------------------------
(* FlattenSeq *)

\* f maps each n from 1 to m to the first n lists, put together.
FlatUpTo(f, ss, m) ==
    f = [n \in 1..m |-> IF n = 1 THEN ss[n] ELSE f[n - 1] \o ss[n]]

\* The recursive function by which FlattenSeq is defined exists.
LEMMA FlatExists ==
    ASSUME NEW ss, NEW m \in Nat
    PROVE  \E f : FlatUpTo(f, ss, m)
<1>. DEFINE T == {k \in Nat : \E f : FlatUpTo(f, ss, k)}
<1>1. 0 \in T
  <2>1. 1..0 = {}
    OBVIOUS
  <2>2. FlatUpTo([n \in 1..0 |-> <<>>], ss, 0)
    BY <2>1 DEF FlatUpTo
  <2>q. QED  BY <2>2
<1>2. ASSUME NEW k \in T PROVE k + 1 \in T
  <2>1. PICK f : FlatUpTo(f, ss, k)
    OBVIOUS
  <2>. DEFINE last == IF k + 1 = 1 THEN ss[k + 1] ELSE f[k] \o ss[k + 1]
              h == [n \in 1..(k + 1) |-> IF n = k + 1 THEN last ELSE f[n]]
              next == [n \in 1..(k + 1) |-> IF n = 1 THEN ss[n] ELSE h[n - 1] \o ss[n]]
  <2>2. k \in Nat /\ f = [n \in 1..k |-> IF n = 1 THEN ss[n] ELSE f[n - 1] \o ss[n]]
    BY <2>1 DEF FlatUpTo
  <2>3. ASSUME NEW n \in 1..(k + 1) PROVE next[n] = h[n]
    <3>1. CASE n = k + 1 /\ n = 1
      BY <2>2, <3>1
    <3>2. CASE n = k + 1 /\ n # 1
      <4>1. n - 1 = k /\ k \in 1..(k + 1) /\ k # k + 1 /\ k + 1 # 1
        BY <2>2, <3>2
      <4>2. h[n - 1] = f[k] /\ h[n] = last
        BY <3>2, <4>1
      <4>3. next[n] = h[n - 1] \o ss[n]
        BY <3>2
      <4>4. last = f[k] \o ss[k + 1]
        BY <4>1
      <4>. HIDE DEF h, next, last
      <4>q. QED  BY <3>2, <4>2, <4>3, <4>4
    <3>3. CASE n # k + 1
      <4>1. n \in 1..k /\ (n # 1 => n - 1 \in 1..(k + 1) /\ n - 1 # k + 1 /\ n - 1 \in 1..k)
        BY <2>2, <3>3
      <4>2. h[n] = f[n] /\ (n # 1 => h[n - 1] = f[n - 1])
        BY <3>3, <4>1
      <4>3. next[n] = IF n = 1 THEN ss[n] ELSE h[n - 1] \o ss[n]
        OBVIOUS
      <4>. HIDE DEF h, next
      <4>4. f[n] = IF n = 1 THEN ss[n] ELSE f[n - 1] \o ss[n]
        BY <2>2, <4>1
      <4>q. QED  BY <4>2, <4>3, <4>4
    <3>q. QED  BY <3>1, <3>2, <3>3
  <2>4. h = [n \in 1..(k + 1) |-> h[n]]
    OBVIOUS
  <2>. HIDE DEF h
  <2>5. next = [n \in 1..(k + 1) |-> next[n]]
    OBVIOUS
  <2>6. h = next
    <3>. HIDE DEF next
    <3>q. QED  BY <2>3, <2>4, <2>5
  <2>7. FlatUpTo(h, ss, k + 1)
    BY <2>6, Zenon DEF FlatUpTo
  <2>8. k + 1 \in Nat
    OBVIOUS
  <2>q. QED  BY <2>7, <2>8
<1>3. T = Nat
  <2>. HIDE DEF T
  <2>1. T \in SUBSET Nat
    BY DEF T
  <2>q. QED  BY <1>1, <1>2, <2>1, SetInduction
<1>q. QED  BY <1>3

\* FlattenSeq is the last value of that function.
LEMMA FlatIs ==
    ASSUME NEW S, NEW ss \in Seq(S), Len(ss) # 0
    PROVE  \E f : FlatUpTo(f, ss, Len(ss)) /\ FlattenSeq(ss) = f[Len(ss)]
<1>. DEFINE f == CHOOSE h : h = [n \in 1..Len(ss) |-> IF n = 1 THEN ss[n] ELSE h[n - 1] \o ss[n]]
<1>1. FlattenSeq(ss) = f[Len(ss)]
  BY DEF FlattenSeq
<1>2. \E h : FlatUpTo(h, ss, Len(ss))
  <2>1. Len(ss) \in Nat
    OBVIOUS
  <2>q. QED  BY <2>1, FlatExists, Zenon
<1>3. FlatUpTo(f, ss, Len(ss))
  BY <1>2 DEF FlatUpTo
<1>q. QED  BY <1>1, <1>3

\* The values of the function, one by one.
LEMMA FlatValues ==
    ASSUME NEW f, NEW ss, NEW m \in Nat, FlatUpTo(f, ss, m)
    PROVE  \A n \in 1..m : f[n] = IF n = 1 THEN ss[n] ELSE f[n - 1] \o ss[n]
<1>1. f = [n \in 1..m |-> IF n = 1 THEN ss[n] ELSE f[n - 1] \o ss[n]]
  BY Zenon DEF FlatUpTo
<1>q. QED  BY <1>1, Zenon

\* No list flattens to the empty one.
LEMMA FlattenEmpty == FlattenSeq(<<>>) = <<>>
  BY DEF FlattenSeq

\* One more list goes to the end.
LEMMA FlattenAppend ==
    ASSUME NEW S, NEW ss \in Seq(Seq(S)), NEW e \in Seq(S)
    PROVE  FlattenSeq(Append(ss, e)) = FlattenSeq(ss) \o e
<1>. DEFINE more == Append(ss, e)
            n == Len(ss)
<1>1. /\ more \in Seq(Seq(S)) /\ Len(more) = n + 1 /\ n \in Nat /\ n + 1 # 0 /\ more[n + 1] = e
      /\ \A i \in 1..n : more[i] = ss[i]
  OBVIOUS
<1>. HIDE DEF more
<1>2. PICK h : FlatUpTo(h, more, n + 1) /\ FlattenSeq(more) = h[n + 1]
  <2>. HIDE DEF n
  <2>1. \E h : FlatUpTo(h, more, Len(more)) /\ FlattenSeq(more) = h[Len(more)]
    BY <1>1, FlatIs
  <2>q. QED  BY <1>1, <2>1
<1>3. \A i \in 1..(n + 1) : h[i] = IF i = 1 THEN more[i] ELSE h[i - 1] \o more[i]
  <2>1. n + 1 \in Nat
    BY <1>1
  <2>q. QED  BY <1>2, <2>1, FlatValues
<1>4. CASE n = 0
  <2>1. ss = <<>>
    BY <1>4
  <2>2. h[n + 1] = e
    BY <1>1, <1>3, <1>4
  <2>3. FlattenSeq(ss) = <<>>
    BY <2>1, FlattenEmpty
  <2>4. <<>> \o e = e
    BY ConcatEmptySeq
  <2>q. QED  BY <1>2, <2>2, <2>3, <2>4 DEF more
<1>5. CASE n # 0
  <2>1. PICK f : FlatUpTo(f, ss, n) /\ FlattenSeq(ss) = f[n]
    BY <1>5, FlatIs
  <2>. HIDE DEF n
  <2>2. \A i \in 1..n : f[i] = IF i = 1 THEN ss[i] ELSE f[i - 1] \o ss[i]
    BY <1>1, <2>1, FlatValues
  <2>. DEFINE T == {i \in Nat : i + 1 <= n => h[i + 1] = f[i + 1]}
  <2>3. 0 \in T
    <3>1. 1 \in 1..n /\ 1 \in 1..(n + 1)
      BY <1>1, <1>5
    <3>2. h[1] = more[1] /\ f[1] = ss[1] /\ more[1] = ss[1]
      BY <1>1, <1>3, <2>2, <3>1
    <3>q. QED  BY <3>2
  <2>4. ASSUME NEW i \in T PROVE i + 1 \in T
    <3>. SUFFICES ASSUME (i + 1) + 1 <= n PROVE h[(i + 1) + 1] = f[(i + 1) + 1]
      OBVIOUS
    <3>1. /\ i \in Nat /\ (i + 1) + 1 \in 1..n /\ (i + 1) + 1 \in 1..(n + 1)
          /\ ((i + 1) + 1) - 1 = i + 1 /\ (i + 1) + 1 # 1 /\ h[i + 1] = f[i + 1]
      BY <1>1
    <3>. DEFINE j == (i + 1) + 1
    <3>2. h[j] = h[j - 1] \o more[j] /\ f[j] = f[j - 1] \o ss[j] /\ more[j] = ss[j]
      <4>. HIDE DEF T, j
      <4>1. j \in 1..n /\ j \in 1..(n + 1) /\ j # 1
        BY <3>1 DEF j
      <4>q. QED  BY <1>1, <1>3, <2>2, <4>1
    <3>3. h[j - 1] = f[j - 1]
      BY <3>1
    <3>q. QED  BY <3>2, <3>3
  <2>5. T = Nat
    <3>. HIDE DEF T
    <3>1. T \in SUBSET Nat
      BY DEF T
    <3>q. QED  BY <2>3, <2>4, <3>1, SetInduction
  <2>6. h[n] = f[n]
    <3>1. n \in Nat /\ n # 0
      BY <1>1, <1>5
    <3>2. n - 1 \in Nat /\ (n - 1) + 1 = n /\ n <= n
      BY <3>1
    <3>3. n - 1 \in T
      BY <2>5, <3>2
    <3>q. QED  BY <3>2, <3>3
  <2>7. n + 1 \in 1..(n + 1) /\ (n + 1) - 1 = n /\ n + 1 # 1
    <3>1. n \in Nat /\ n # 0
      BY <1>1, <1>5
    <3>q. QED  BY <3>1
  <2>8. h[n + 1] = h[n] \o e
    BY <1>1, <1>3, <2>7
  <2>q. QED  BY <1>2, <2>1, <2>6, <2>8 DEF more
<1>q. QED  BY <1>4, <1>5

\* Flattening keeps to the members.
LEMMA FlattenType ==
    ASSUME NEW S
    PROVE  \A ss \in Seq(Seq(S)) : FlattenSeq(ss) \in Seq(S)
<1>. DEFINE T == {ss \in Seq(Seq(S)) : FlattenSeq(ss) \in Seq(S)}
<1>1. <<>> \in T
  <2>1. <<>> \in Seq(Seq(S)) /\ <<>> \in Seq(S)
    OBVIOUS
  <2>q. QED  BY <2>1, FlattenEmpty
<1>2. ASSUME NEW ss \in T, NEW e \in Seq(S) PROVE Append(ss, e) \in T
  <2>1. ss \in Seq(Seq(S)) /\ Append(ss, e) \in Seq(Seq(S)) /\ FlattenSeq(ss) \in Seq(S)
    OBVIOUS
  <2>. HIDE DEF T
  <2>2. FlattenSeq(Append(ss, e)) = FlattenSeq(ss) \o e
    BY <2>1, FlattenAppend
  <2>3. FlattenSeq(ss) \o e \in Seq(S)
    BY <2>1, ConcatProperties
  <2>q. QED  BY <2>1, <2>2, <2>3 DEF T
<1>3. T = Seq(Seq(S))
  <2>. HIDE DEF T
  <2>1. T \in SUBSET Seq(Seq(S))
    BY DEF T
  <2>q. QED  BY <1>1, <1>2, <2>1, ListInduction
<1>q. QED  BY <1>3

-----------------------------------------------------------------------------
(* What is retained of flattened lists *)

Picked(ss, keep) == Retain(FlattenSeq(ss), keep)

\* Nothing is picked out of no list.
LEMMA PickedEmpty ==
    ASSUME NEW keep
    PROVE  Picked(<<>>, keep) = <<>>
  BY FlattenEmpty, RetainEmpty DEF Picked

\* What is picked is kept.
LEMMA PickedType ==
    ASSUME NEW S, NEW ss \in Seq(Seq(S)), NEW keep
    PROVE  Picked(ss, keep) \in Seq(S \cap keep) /\ Picked(ss, keep) \in Seq(S)
<1>1. FlattenSeq(ss) \in Seq(S)
  BY FlattenType
<1>2. Picked(ss, keep) \in Seq(S \cap keep)
  BY <1>1, RetainType DEF Picked
<1>q. QED  BY <1>2

\* The last list is picked from by itself.
LEMMA PickedAppend ==
    ASSUME NEW S, NEW ss \in Seq(Seq(S)), NEW e \in Seq(S), NEW keep
    PROVE  Picked(Append(ss, e), keep) = Picked(ss, keep) \o Retain(e, keep)
<1>. DEFINE flat == FlattenSeq(ss)
<1>1. FlattenSeq(Append(ss, e)) = flat \o e
  BY FlattenAppend
<1>2. flat \in Seq(S)
  BY FlattenType
<1>. HIDE DEF flat
<1>3. Retain(flat \o e, keep) = Retain(flat, keep) \o Retain(e, keep)
  BY <1>2, RetainConcat
<1>q. QED  BY <1>1, <1>3 DEF Picked, flat

\* Lists without a member of keep add nothing.
LEMMA PickedNothing ==
    ASSUME NEW S, NEW E \in SUBSET Seq(S), NEW keep, \A e \in E : Retain(e, keep) = <<>>
    PROVE  \A ss \in Seq(E) : Picked(ss, keep) = <<>>
<1>. DEFINE T == {ss \in Seq(E) : Picked(ss, keep) = <<>>}
<1>1. <<>> \in T
  <2>1. <<>> \in Seq(E)
    OBVIOUS
  <2>q. QED  BY <2>1, PickedEmpty
<1>2. ASSUME NEW ss \in T, NEW e \in E PROVE Append(ss, e) \in T
  <2>1. ss \in Seq(E) /\ Append(ss, e) \in Seq(E) /\ Picked(ss, keep) = <<>>
    OBVIOUS
  <2>. HIDE DEF T
  <2>2. ss \in Seq(Seq(S)) /\ e \in Seq(S) /\ Retain(e, keep) = <<>>
    BY <2>1
  <2>3. Picked(Append(ss, e), keep) = <<>> \o <<>>
    BY <2>1, <2>2, PickedAppend
  <2>4. Picked(Append(ss, e), keep) = <<>>
    BY <2>3
  <2>q. QED  BY <2>1, <2>4 DEF T
<1>3. T = Seq(E)
  <2>. HIDE DEF T
  <2>1. T \in SUBSET Seq(E)
    BY DEF T
  <2>q. QED  BY <1>1, <1>2, <2>1, ListInduction
<1>q. QED  BY <1>3

\* Dropping such lists changes nothing.
LEMMA PickedDropped ==
    ASSUME NEW S, NEW E \in SUBSET Seq(S), NEW D, NEW keep,
           \A e \in E \ D : Retain(e, keep) = <<>>
    PROVE  \A ss \in Seq(E) : Picked(Retain(ss, D), keep) = Picked(ss, keep)
<1>. DEFINE T == {ss \in Seq(E) : Picked(Retain(ss, D), keep) = Picked(ss, keep)}
<1>1. <<>> \in T
  <2>1. <<>> \in Seq(E) /\ Retain(<<>>, D) = <<>>
    BY RetainEmpty
  <2>q. QED  BY <2>1
<1>2. ASSUME NEW ss \in T, NEW e \in E PROVE Append(ss, e) \in T
  <2>1. ss \in Seq(E) /\ Append(ss, e) \in Seq(E) /\ Picked(Retain(ss, D), keep) = Picked(ss, keep)
    OBVIOUS
  <2>. HIDE DEF T
  <2>2. ss \in Seq(Seq(S)) /\ e \in Seq(S)
    BY <2>1
  <2>3. Picked(Append(ss, e), keep) = Picked(ss, keep) \o Retain(e, keep)
    BY <2>2, PickedAppend
  <2>4. Retain(Append(ss, e), D) = IF e \in D THEN Append(Retain(ss, D), e) ELSE Retain(ss, D)
    BY <2>1, RetainAppend
  <2>5. CASE e \in D
    <3>. DEFINE less == Retain(ss, D)
    <3>1. less \in Seq(E \cap D)
      BY <2>1, RetainType
    <3>2. less \in Seq(Seq(S))
      BY <3>1
    <3>. HIDE DEF less
    <3>3. Picked(Append(less, e), keep) = Picked(less, keep) \o Retain(e, keep)
      BY <2>2, <3>2, PickedAppend
    <3>q. QED  BY <2>1, <2>3, <2>4, <2>5, <3>3 DEF T, less
  <2>6. CASE e \notin D
    <3>1. Retain(e, keep) = <<>>
      BY <2>6
    <3>2. Picked(ss, keep) \in Seq(S)
      BY <2>2, PickedType
    <3>3. Picked(ss, keep) \o <<>> = Picked(ss, keep)
      BY <3>2, ConcatEmptySeq
    <3>q. QED  BY <2>1, <2>3, <2>4, <2>6, <3>1, <3>3 DEF T
  <2>q. QED  BY <2>5, <2>6
<1>3. T = Seq(E)
  <2>. HIDE DEF T
  <2>1. T \in SUBSET Seq(E)
    BY DEF T
  <2>q. QED  BY <1>1, <1>2, <2>1, ListInduction
<1>q. QED  BY <1>3

\* Every list is changed by f.
Mapped(ss, f) == [i \in DOMAIN ss |-> f[ss[i]]]

\* f takes E to F; a name for it, by which the provers find the lemma.
Takes(f, E, F) == f \in [E -> F]

\* Mapping goes member by member.
LEMMA MappedType ==
    ASSUME NEW E, NEW F, NEW f, Takes(f, E, F), NEW ss \in Seq(E)
    PROVE  /\ Mapped(ss, f) \in Seq(F) /\ Len(Mapped(ss, f)) = Len(ss)
           /\ \A i \in 1..Len(ss) : Mapped(ss, f)[i] = f[ss[i]]
<1>1. f \in [E -> F]
  BY DEF Takes
<1>q. QED  BY <1>1 DEF Mapped

\* The last member is mapped by itself.
LEMMA MappedAppend ==
    ASSUME NEW E, NEW F, NEW f, Takes(f, E, F), NEW ss \in Seq(E), NEW e \in E
    PROVE  /\ Mapped(ss, f) \in Seq(F) /\ Len(Mapped(ss, f)) = Len(ss)
           /\ Mapped(Append(ss, e), f) = Append(Mapped(ss, f), f[e])
<1>. DEFINE m == Mapped(ss, f)
            l == Mapped(Append(ss, e), f)
            r == Append(m, f[e])
            n == Len(ss)
<1>0. f \in [E -> F]
  BY DEF Takes
<1>1. m \in Seq(F) /\ Len(m) = n /\ n \in Nat /\ \A i \in 1..n : m[i] = f[ss[i]]
  BY <1>0 DEF Mapped
<1>2. l \in Seq(F) /\ Len(l) = n + 1 /\ (\A i \in 1..n : l[i] = f[ss[i]]) /\ l[n + 1] = f[e]
  BY <1>0 DEF Mapped
<1>. HIDE DEF m, l, n
<1>3. r \in Seq(F) /\ Len(r) = n + 1 /\ (\A i \in 1..n : r[i] = m[i]) /\ r[n + 1] = f[e]
  BY <1>0, <1>1
<1>. HIDE DEF r
<1>4. \A i \in 1..(n + 1) : i \in 1..n \/ i = n + 1
  BY <1>1
<1>5. \A i \in 1..Len(l) : l[i] = r[i]
  BY <1>1, <1>2, <1>3, <1>4
<1>6. l = r
  BY <1>2, <1>3, <1>5, SeqEqual
<1>q. QED  BY <1>1, <1>6 DEF m, l, r, n

\* Mapping the empty list.
LEMMA MappedEmpty ==
    ASSUME NEW f
    PROVE  Mapped(<<>>, f) = <<>>
  BY DEF Mapped

\* If f keeps what is picked of each list, it keeps what is picked of them all.
LEMMA PickedMapped ==
    ASSUME NEW S, NEW E \in SUBSET Seq(S), NEW f, Takes(f, E, Seq(S)), NEW keep,
           \A e \in E : Retain(f[e], keep) = Retain(e, keep)
    PROVE  \A ss \in Seq(E) : Picked(Mapped(ss, f), keep) = Picked(ss, keep)
<1>. DEFINE T == {ss \in Seq(E) : Picked(Mapped(ss, f), keep) = Picked(ss, keep)}
<1>1. <<>> \in T
  <2>1. <<>> \in Seq(E)
    OBVIOUS
  <2>q. QED  BY <2>1, MappedEmpty
<1>2. ASSUME NEW ss \in T, NEW e \in E PROVE Append(ss, e) \in T
  <2>1. ss \in Seq(E) /\ Append(ss, e) \in Seq(E) /\ Picked(Mapped(ss, f), keep) = Picked(ss, keep)
    OBVIOUS
  <2>. HIDE DEF T
  <2>. DEFINE m == Mapped(ss, f)
              fe == f[e]
  <2>2. ss \in Seq(Seq(S)) /\ e \in Seq(S) /\ fe \in Seq(S)
    BY <2>1 DEF Takes
  <2>3. m \in Seq(Seq(S)) /\ Mapped(Append(ss, e), f) = Append(m, fe)
    <3>. DEFINE F == Seq(S)
    <3>1. Takes(f, E, F)
      BY DEF Takes
    <3>. HIDE DEF F
    <3>2. /\ Mapped(ss, f) \in Seq(F)
          /\ Mapped(Append(ss, e), f) = Append(Mapped(ss, f), f[e])
      BY <2>1, <3>1, MappedAppend
    <3>q. QED  BY <3>2 DEF F
  <2>4. Retain(fe, keep) = Retain(e, keep)
    OBVIOUS
  <2>. HIDE DEF m, fe
  <2>5. Picked(Append(ss, e), keep) = Picked(ss, keep) \o Retain(e, keep)
    BY <2>2, PickedAppend
  <2>6. Picked(Append(m, fe), keep) = Picked(m, keep) \o Retain(fe, keep)
    BY <2>2, <2>3, PickedAppend
  <2>q. QED  BY <2>1, <2>3, <2>4, <2>5, <2>6 DEF T, m
<1>3. T = Seq(E)
  <2>. HIDE DEF T
  <2>1. T \in SUBSET Seq(E)
    BY DEF T
  <2>q. QED  BY <1>1, <1>2, <2>1, ListInduction
<1>q. QED  BY <1>3

\* The same for how many are picked.
LEMMA PickedMappedLen ==
    ASSUME NEW S, NEW E \in SUBSET Seq(S), NEW f, Takes(f, E, Seq(S)), NEW keep,
           \A e \in E : Len(Retain(f[e], keep)) = Len(Retain(e, keep))
    PROVE  \A ss \in Seq(E) : Len(Picked(Mapped(ss, f), keep)) = Len(Picked(ss, keep))
<1>. DEFINE T == {ss \in Seq(E) : Len(Picked(Mapped(ss, f), keep)) = Len(Picked(ss, keep))}
<1>1. <<>> \in T
  <2>1. <<>> \in Seq(E)
    OBVIOUS
  <2>q. QED  BY <2>1, MappedEmpty
<1>2. ASSUME NEW ss \in T, NEW e \in E PROVE Append(ss, e) \in T
  <2>1. /\ ss \in Seq(E) /\ Append(ss, e) \in Seq(E)
        /\ Len(Picked(Mapped(ss, f), keep)) = Len(Picked(ss, keep))
    OBVIOUS
  <2>. HIDE DEF T
  <2>. DEFINE m == Mapped(ss, f)
              fe == f[e]
  <2>2. ss \in Seq(Seq(S)) /\ e \in Seq(S) /\ fe \in Seq(S)
    BY <2>1 DEF Takes
  <2>3. m \in Seq(Seq(S)) /\ Mapped(Append(ss, e), f) = Append(m, fe)
    <3>. DEFINE F == Seq(S)
    <3>1. Takes(f, E, F)
      BY DEF Takes
    <3>. HIDE DEF F
    <3>2. /\ Mapped(ss, f) \in Seq(F)
          /\ Mapped(Append(ss, e), f) = Append(Mapped(ss, f), f[e])
      BY <2>1, <3>1, MappedAppend
    <3>q. QED  BY <3>2 DEF F
  <2>4. Len(Retain(fe, keep)) = Len(Retain(e, keep))
    OBVIOUS
  <2>. HIDE DEF m, fe
  <2>5. Picked(Append(ss, e), keep) = Picked(ss, keep) \o Retain(e, keep)
    BY <2>2, PickedAppend
  <2>6. Picked(Append(m, fe), keep) = Picked(m, keep) \o Retain(fe, keep)
    BY <2>2, <2>3, PickedAppend
  <2>. DEFINE p == Picked(ss, keep)
              q == Picked(m, keep)
              re == Retain(e, keep)
              rf == Retain(fe, keep)
  <2>7. p \in Seq(S) /\ q \in Seq(S)
    BY <2>2, <2>3, PickedType
  <2>8. re \in Seq(S \cap keep) /\ rf \in Seq(S \cap keep)
    BY <2>2, RetainType
  <2>9. Len(p) = Len(q) /\ Len(re) = Len(rf)
    BY <2>1, <2>4 DEF m
  <2>. HIDE DEF p, q, re, rf
  <2>10. re \in Seq(S) /\ rf \in Seq(S)
    BY <2>8
  <2>11. Len(p \o re) = Len(q \o rf)
    <3>1. Len(p \o re) = Len(p) + Len(re) /\ Len(q \o rf) = Len(q) + Len(rf)
      BY <2>7, <2>10, ConcatLen
    <3>q. QED  BY <2>9, <3>1
  <2>q. QED  BY <2>1, <2>3, <2>5, <2>6, <2>11 DEF T, p, q, re, rf
<1>3. T = Seq(E)
  <2>. HIDE DEF T
  <2>1. T \in SUBSET Seq(E)
    BY DEF T
  <2>q. QED  BY <1>1, <1>2, <2>1, ListInduction
<1>q. QED  BY <1>3

=============================================================================
