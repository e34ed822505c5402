--------------------------- MODULE SequenceProofs ---------------------------
(***************************************************************************)
(* Facts about numbers, sequences and orders that the theorems about texts *)
(* and alignments share.                                                   *)
(***************************************************************************)
EXTENDS Integers, SequencesExt, TLAPS, FiniteSetTheorems

-----------------------------------------------------------------------------
(* Induction over a set of numbers: the library's theorems over predicates *)
(* cannot be instantiated by the provers, its minimal elements can.        *)

(* A set of numbers that is not empty has a least one. *)
LEMMA LeastNat ==
  ASSUME NEW M \in SUBSET Nat, M # {}
  PROVE  \E x \in M : \A y \in M : x <= y
  <1> DEFINE Less == OpToRel(<, Nat)
  <1>1. Less = {p \in Nat \X Nat : p[1] < p[2]}
    BY DEF OpToRel
  <1>2. IsWellFoundedOn(Less, Nat)
    BY NatLessThanWellFounded, Zenon
  <1> HIDE DEF Less
  <1>3. PICK x \in M : \A y \in M : ~(<<y, x>> \in Less)
    BY <1>2, WFMin
  <1>4. ASSUME NEW y \in M
        PROVE  x <= y
    <2>1. <<y, x>> \in Nat \X Nat /\ <<y, x>>[1] = y /\ <<y, x>>[2] = x
      OBVIOUS
    <2>2. ~(y < x)
      BY <1>1, <1>3, <2>1
    <2> QED
      BY <2>2
  <1> QED
    BY <1>4

(* The numbers are the least set with 0 and all successors of its members. *)
LEMMA Induction ==
  ASSUME NEW M \in SUBSET Nat, 0 \in M, \A n \in M : n + 1 \in M
  PROVE  M = Nat
  <1>1. ASSUME Nat \ M # {}
        PROVE  FALSE
    <2>1. PICK x \in Nat \ M : \A y \in Nat \ M : x <= y
      BY <1>1, LeastNat
    <2>2. x # 0 /\ x - 1 \in Nat
      BY <2>1
    <2>3. x - 1 \in M
      BY <2>1, <2>2
    <2>4. x - 1 + 1 \in M
      BY <2>3
    <2> QED
      BY <2>1, <2>4
  <1> QED
    BY <1>1

(* The first and the last of some positions. *)
LEMMA Extremes ==
  ASSUME NEW n \in Nat, NEW S \in SUBSET (1 .. n), S # {}
  PROVE  /\ Min(S) \in S /\ \A y \in S : Min(S) <= y
         /\ Max(S) \in S /\ \A y \in S : y <= Max(S)
  <1>1. \E x \in S : \A y \in S : x <= y
    <2>1. S \in SUBSET Nat
      OBVIOUS
    <2> QED
      BY <2>1, LeastNat
  <1>2. \E x \in S : \A y \in S : x >= y
    <2> DEFINE U == {n - x : x \in S}
    <2>1. U \in SUBSET Nat /\ U # {}
      <3>1. \A x \in S : n - x \in Nat
        OBVIOUS
      <3> QED
        BY <3>1
    <2> HIDE DEF U
    <2>2. PICK u \in U : \A v \in U : u <= v
      BY <2>1, LeastNat
    <2>3. PICK x \in S : u = n - x
      BY <2>2 DEF U
    <2>4. ASSUME NEW y \in S
          PROVE  x >= y
      <3>1. n - y \in U
        BY DEF U
      <3>2. n - x <= n - y
        BY <2>2, <2>3, <3>1
      <3> QED
        BY <3>2
    <2> QED
      BY <2>4
  <1>3. \A y \in S : y \in Int
    OBVIOUS
  <1>4. Min(S) \in S /\ \A y \in S : Min(S) <= y
    BY <1>1 DEF Min
  <1>5. Max(S) \in S /\ \A y \in S : Max(S) >= y
    BY <1>2 DEF Max
  <1> QED
    BY <1>3, <1>4, <1>5

-----------------------------------------------------------------------------
(* Sequences. *)

(* The items of a part of a sequence. *)
LEMMA SubSeqAt ==
  ASSUME NEW T, NEW t \in Seq(T), NEW p \in Nat, NEW q \in Nat, p <= q, q <= Len(t)
  PROVE  LET s == SubSeq(t, p + 1, q) IN
         /\ s \in Seq(T) /\ Len(s) = q - p
         /\ \A i \in 1 .. q - p : s[i] = t[p + i]
  OBVIOUS

(* Two sequences of one length with equal items.       *)
LEMMA EqualRunes ==
  ASSUME NEW T, NEW a \in Seq(T), NEW b \in Seq(T), Len(a) = Len(b),
         \A i \in 1 .. Len(a) : a[i] = b[i]
  PROVE  a = b
  OBVIOUS

(* Three parts one after the other. *)
LEMMA ThreeParts ==
  ASSUME NEW T, NEW a \in Seq(T), NEW b \in Seq(T), NEW c \in Seq(T)
  PROVE  LET whole == a \o b \o c IN
         /\ whole \in Seq(T) /\ Len(whole) = Len(a) + Len(b) + Len(c)
         /\ \A i \in 1 .. Len(whole) :
              whole[i] = IF i <= Len(a) THEN a[i]
                         ELSE IF i <= Len(a) + Len(b) THEN b[i - Len(a)]
                         ELSE c[i - Len(a) - Len(b)]
  <1> DEFINE ab == a \o b
  <1>1. /\ ab \in Seq(T) /\ Len(ab) = Len(a) + Len(b)
        /\ \A i \in 1 .. Len(ab) : ab[i] = IF i <= Len(a) THEN a[i] ELSE b[i - Len(a)]
    OBVIOUS
  <1> HIDE DEF ab
  <1>2. /\ ab \o c \in Seq(T) /\ Len(ab \o c) = Len(ab) + Len(c)
        /\ \A i \in 1 .. Len(ab \o c) :
             (ab \o c)[i] = IF i <= Len(ab) THEN ab[i] ELSE c[i - Len(ab)]
    BY <1>1
  <1>3. Len(a) \in Nat /\ Len(b) \in Nat /\ Len(c) \in Nat
    OBVIOUS
  <1>4. ASSUME NEW i \in 1 .. Len(ab \o c)
        PROVE  (ab \o c)[i] = IF i <= Len(a) THEN a[i]
                              ELSE IF i <= Len(a) + Len(b) THEN b[i - Len(a)]
                              ELSE c[i - Len(a) - Len(b)]
    <2>1. CASE i <= Len(ab)
      <3>1. i \in 1 .. Len(ab) /\ (ab \o c)[i] = ab[i]
        BY <1>1, <1>2, <1>3, <1>4, <2>1
      <3> QED
        BY <1>1, <1>3, <2>1, <3>1
    <2>2. CASE ~(i <= Len(ab))
      <3>1. (ab \o c)[i] = c[i - Len(ab)]
        BY <1>2, <2>2
      <3>2. i - Len(ab) = i - Len(a) - Len(b) /\ ~(i <= Len(a)) /\ ~(i <= Len(a) + Len(b))
        BY <1>1, <1>2, <1>3, <2>2
      <3> QED
        BY <3>1, <3>2
    <2> QED
      BY <2>1, <2>2
  <1> QED
    BY <1>1, <1>2, <1>3, <1>4 DEF ab

(* A sequence that has one item more. *)
LEMMA AppendIs ==
  ASSUME NEW T, NEW a \in Seq(T), NEW x \in T, NEW all \in Seq(T), Len(all) = Len(a) + 1,
         \A i \in 1 .. Len(a) : all[i] = a[i], all[Len(a) + 1] = x
  PROVE  all = Append(a, x)
  OBVIOUS

(* Concatenation is associative. *)
LEMMA ConcatAssociative ==
  ASSUME NEW T, NEW a \in Seq(T), NEW b \in Seq(T), NEW c \in Seq(T)
  PROVE  (a \o b) \o c = a \o (b \o c)
  <1> DEFINE left == (a \o b) \o c
             right == a \o (b \o c)
  <1>1. /\ left \in Seq(T) /\ Len(left) = Len(a) + Len(b) + Len(c)
        /\ \A i \in 1 .. Len(left) :
             left[i] = IF i <= Len(a) THEN a[i]
                       ELSE IF i <= Len(a) + Len(b) THEN b[i - Len(a)]
                       ELSE c[i - Len(a) - Len(b)]
    BY ThreeParts
  <1>2. /\ right \in Seq(T) /\ Len(right) = Len(a) + Len(b) + Len(c)
        /\ \A i \in 1 .. Len(right) :
             right[i] = IF i <= Len(a) THEN a[i]
                        ELSE IF i <= Len(a) + Len(b) THEN b[i - Len(a)]
                        ELSE c[i - Len(a) - Len(b)]
    <2> DEFINE bc == b \o c
    <2>1. /\ bc \in Seq(T) /\ Len(bc) = Len(b) + Len(c)
          /\ \A i \in 1 .. Len(bc) : bc[i] = IF i <= Len(b) THEN b[i] ELSE c[i - Len(b)]
      OBVIOUS
    <2> HIDE DEF bc
    <2>2. /\ a \o bc \in Seq(T) /\ Len(a \o bc) = Len(a) + Len(bc)
          /\ \A i \in 1 .. Len(a \o bc) :
               (a \o bc)[i] = IF i <= Len(a) THEN a[i] ELSE bc[i - Len(a)]
      BY <2>1
    <2>3. Len(a) \in Nat /\ Len(b) \in Nat /\ Len(c) \in Nat
      OBVIOUS
    <2>4. ASSUME NEW i \in 1 .. Len(a \o bc), ~(i <= Len(a))
          PROVE  (a \o bc)[i] = IF i <= Len(a) + Len(b) THEN b[i - Len(a)]
                                ELSE c[i - Len(a) - Len(b)]
      <3>1. i - Len(a) \in 1 .. Len(bc) /\ (a \o bc)[i] = bc[i - Len(a)]
        BY <2>1, <2>2, <2>3, <2>4
      <3> QED
        BY <2>1, <2>3, <3>1
    <2> QED
      BY <2>1, <2>2, <2>3, <2>4 DEF bc
  <1> HIDE DEF left, right
  <1>3. \A i \in 1 .. Len(left) : left[i] = right[i]
    BY <1>1, <1>2
  <1>4. left = right
    BY <1>1, <1>2, <1>3, EqualRunes
  <1> QED
    BY <1>4 DEF left, right

(* The last item of a list is the last of its last part. *)
LEMMA LastBehind ==
  ASSUME NEW T, NEW a \in Seq(T), NEW b \in Seq(T), b # <<>>, NEW x \in T
  PROVE  LET n == Len(a \o b) IN
         /\ (a \o b)[n] = b[Len(b)]
         /\ [a \o b EXCEPT ![n] = x] = a \o [b EXCEPT ![Len(b)] = x]
  <1> DEFINE n == Len(a \o b)
             end == Len(b)
             left == [a \o b EXCEPT ![n] = x]
             last == [b EXCEPT ![end] = x]
  <1>1. /\ n = Len(a) + end /\ Len(a) \in Nat /\ end \in Nat /\ end > 0
        /\ a \o b \in Seq(T) /\ (a \o b)[n] = b[end]
        /\ \A i \in 1 .. n : (a \o b)[i] = IF i <= Len(a) THEN a[i] ELSE b[i - Len(a)]
    OBVIOUS
  <1>2. left \in Seq(T) /\ Len(left) = n /\ \A i \in 1 .. n : left[i] = IF i = n THEN x ELSE (a \o b)[i]
    <2> DEFINE ab == a \o b
    <2>0. ab \in Seq(T) /\ Len(ab) = n
      BY <1>1
    <2> HIDE DEF ab
    <2>1. ab \in Seq(T) /\ Len(ab) = n /\ n \in Nat /\ DOMAIN ab = 1 .. n /\ ab \in [1 .. n -> T]
      BY <2>0
    <2> HIDE DEF n
    <2>3. [ab EXCEPT ![n] = x] \in [1 .. n -> T]
      BY <2>1
    <2>2. /\ [ab EXCEPT ![n] = x] \in Seq(T) /\ Len([ab EXCEPT ![n] = x]) = n
          /\ \A i \in 1 .. n : [ab EXCEPT ![n] = x][i] = IF i = n THEN x ELSE ab[i]
      BY <2>1, <2>3
    <2> QED
      BY <2>2 DEF ab
  <1>3. last \in Seq(T) /\ Len(last) = end /\ \A i \in 1 .. end : last[i] = IF i = end THEN x ELSE b[i]
    BY <1>1
  <1> HIDE DEF left, last, n, end
  <1>4. /\ a \o last \in Seq(T) /\ Len(a \o last) = n
        /\ \A i \in 1 .. n : (a \o last)[i] = IF i <= Len(a) THEN a[i] ELSE last[i - Len(a)]
    BY <1>1, <1>3
  <1>5. ASSUME NEW i \in 1 .. n
        PROVE  left[i] = (a \o last)[i]
    <2>1. CASE i <= Len(a)
      BY <1>1, <1>2, <1>4, <2>1
    <2>2. CASE ~(i <= Len(a))
      <3>1. i - Len(a) \in 1 .. end /\ (i - Len(a) = end <=> i = n)
        BY <1>1, <2>2
      <3> QED
        BY <1>1, <1>2, <1>3, <1>4, <2>2, <3>1
    <2> QED
      BY <2>1, <2>2
  <1>6. left = a \o last
    BY <1>2, <1>4, <1>5, EqualRunes
  <1> QED
    BY <1>1, <1>6 DEF left, last, n, end

(* The recursive function in the definition of FlattenSeq. *)
Flattens(ss, f, n) == f = [i \in 1 .. n |-> IF i = 1 THEN ss[i] ELSE f[i - 1] \o ss[i]]

(* The recursive function in the definition of FlattenSeq exists, *)
LEMMA FlattensExist ==
  ASSUME NEW ss, NEW n \in Nat
  PROVE  \E f : Flattens(ss, f, n)
  <1> DEFINE Item(f, i) == IF i = 1 THEN ss[i] ELSE f[i - 1] \o ss[i]
             Flat(f, k) == f = [i \in 1 .. k |-> Item(f, i)]
             M == {k \in Nat : \E f : Flat(f, k)}
  <1>1. 0 \in M
    <2>1. Flat([i \in 1 .. 0 |-> 0], 0)
      OBVIOUS
    <2> QED
      BY <2>1
  <1>2. ASSUME NEW k \in M
        PROVE  k + 1 \in M
    <2>1. PICK f : Flat(f, k)
      BY <1>2
    <2> DEFINE g == [i \in 1 .. k + 1 |-> Item(f, i)]
    <2>2. ASSUME NEW i \in 1 .. k + 1
          PROVE  Item(f, i) = Item(g, i)
      <3>1. CASE i = 1
        BY <3>1
      <3>2. CASE i # 1
        <4>1. i - 1 \in 1 .. k /\ i - 1 \in 1 .. k + 1
          BY <1>2, <3>2
        <4>2. f[i - 1] = Item(f, i - 1) /\ g[i - 1] = Item(f, i - 1)
          <5> HIDE DEF Item
          <5> QED
            BY <2>1, <4>1
        <4> HIDE DEF g
        <4> QED
          BY <3>2, <4>2
      <3> QED
        BY <3>1, <3>2
    <2>3. Flat(g, k + 1)
      <3> HIDE DEF Item
      <3> QED
        BY <2>2
    <2>4. k + 1 \in Nat /\ \E h : Flat(h, k + 1)
      <3> HIDE DEF Flat, g
      <3> QED
        BY <1>2, <2>3
    <2> QED
      BY <2>4
  <1>3. M = Nat
    <2> HIDE DEF M
    <2>1. M \in SUBSET Nat
      BY DEF M
    <2> QED
      BY <1>1, <1>2, <2>1, Induction
  <1> QED
    BY <1>3 DEF Flattens

(* FlattenSeq takes its last value, *)
LEMMA FlattenIsLast ==
  ASSUME NEW ss, NEW n \in Nat \ {0}, Len(ss) = n
  PROVE  \E f : Flattens(ss, f, n) /\ FlattenSeq(ss) = f[n]
  <1> DEFINE f == CHOOSE g : Flattens(ss, g, n)
  <1>1. Flattens(ss, f, n)
    BY FlattensExist
  <1>2. FlattenSeq(ss) = f[n]
    BY DEF FlattenSeq, Flattens
  <1> QED
    BY <1>1, <1>2

(* and what it gives for a head depends on that head alone. *)
LEMMA FlattensAgree ==
  ASSUME NEW a, NEW b, NEW n \in Nat \ {0}, NEW m \in Nat, n <= m, \A i \in 1 .. n : a[i] = b[i],
         NEW f, Flattens(a, f, n), NEW g, Flattens(b, g, m)
  PROVE  f[n] = g[n]
  <1> DEFINE M == {k \in Nat : k + 1 <= n => f[k + 1] = g[k + 1]}
  <1>1. 0 \in M
    <2>1. 1 <= n => f[1] = a[1] /\ g[1] = b[1]
      BY DEF Flattens
    <2> QED
      BY <2>1
  <1>2. ASSUME NEW k \in M
        PROVE  k + 1 \in M
    <2> SUFFICES ASSUME k + 1 + 1 <= n
                 PROVE  f[k + 1 + 1] = g[k + 1 + 1]
      BY <1>2
    <2> DEFINE j == k + 1 + 1
    <2>1. /\ j \in 1 .. n /\ j \in 1 .. m /\ j # 1 /\ j - 1 = k + 1
          /\ f[j - 1] = g[j - 1] /\ a[j] = b[j]
      BY <1>2
    <2> HIDE DEF j
    <2>2. f[j] = f[j - 1] \o a[j]
      BY <2>1 DEF Flattens
    <2>3. g[j] = g[j - 1] \o b[j]
      BY <2>1 DEF Flattens
    <2> QED
      BY <2>1, <2>2, <2>3 DEF j
  <1>3. M = Nat
    <2> HIDE DEF M
    <2>1. M \in SUBSET Nat
      BY DEF M
    <2> QED
      BY <1>1, <1>2, <2>1, Induction
  <1>4. n - 1 \in M /\ n - 1 + 1 = n
    <2> HIDE DEF M
    <2> QED
      BY <1>3
  <1> QED
    BY <1>4

(* Nothing is flattened to nothing. *)
LEMMA FlattenNothing == FlattenSeq(<<>>) = <<>>
  BY DEF FlattenSeq

(* A sequence more is concatenated at the end. *)
LEMMA FlattenAppend ==
  ASSUME NEW T, NEW ss \in Seq(Seq(T)), NEW s \in Seq(T)
  PROVE  FlattenSeq(Append(ss, s)) = FlattenSeq(ss) \o s
  <1> DEFINE n == Len(ss)
             m == n + 1
             more == Append(ss, s)
  <1>1. /\ n \in Nat /\ Len(more) = m /\ m \in Nat \ {0} /\ m \in 1 .. m /\ m \in Nat
        /\ n <= m /\ m - 1 = n /\ (m = 1 <=> n = 0)
        /\ \A i \in 1 .. n : ss[i] = more[i]
        /\ more[m] = s
    OBVIOUS
  <1> HIDE DEF n, m, more
  <1>2. PICK g : Flattens(more, g, m) /\ FlattenSeq(more) = g[m]
    BY <1>1, FlattenIsLast
  <1>3. g[m] = IF m = 1 THEN s ELSE g[m - 1] \o s
    BY <1>1, <1>2 DEF Flattens
  <1>4. CASE n = 0
    <2>1. ss = <<>> /\ <<>> \o s = s
      BY <1>4 DEF n
    <2>2. FlattenSeq(more) = s /\ FlattenSeq(ss) = <<>>
      BY <1>1, <1>2, <1>3, <1>4, <2>1, FlattenNothing
    <2> QED
      BY <2>1, <2>2 DEF more
  <1>5. CASE n # 0
    <2>1. n \in Nat \ {0} /\ Len(ss) = n /\ n \in 1 .. n
      BY <1>1, <1>5 DEF n
    <2>2. PICK f : Flattens(ss, f, n) /\ FlattenSeq(ss) = f[n]
      BY <2>1, FlattenIsLast
    <2>3. f[n] = g[n]
      <3>1. n \in Nat \ {0} /\ m \in Nat /\ n <= m /\ \A i \in 1 .. n : ss[i] = more[i]
        BY <1>1, <2>1
      <3>2. Flattens(ss, f, n) /\ Flattens(more, g, m)
        BY <1>2, <2>2
      <3> QED
        BY <3>1, <3>2, FlattensAgree
    <2>4. FlattenSeq(more) = FlattenSeq(ss) \o s
      BY <1>1, <1>2, <1>3, <1>5, <2>2, <2>3
    <2> QED
      BY <2>4 DEF more
  <1> QED
    BY <1>4, <1>5

(* Sequences are reached from the empty one by appending: what is closed   *)
(* under that holds of all.                                                *)
LEMMA Appending ==
  ASSUME NEW T, NEW A, <<>> \in A, \A s \in Seq(T) : s \in A => \A x \in T : Append(s, x) \in A
  PROVE  \A s \in Seq(T) : s \in A
  <1> DEFINE M == {n \in Nat : \A s \in Seq(T) : Len(s) = n => s \in A}
  <1>1. 0 \in M
    <2>1. \A s \in Seq(T) : Len(s) = 0 => s = <<>>
      OBVIOUS
    <2> QED
      BY <2>1
  <1>2. ASSUME NEW n \in M
        PROVE  n + 1 \in M
    <2> SUFFICES ASSUME NEW s \in Seq(T), Len(s) = n + 1
                 PROVE  s \in A
      BY <1>2
    <2> DEFINE front == SubSeq(s, 1, n)
    <2>1. n \in Nat /\ front \in Seq(T) /\ Len(front) = n /\ s[n + 1] \in T
      BY <1>2
    <2>2. s = Append(front, s[n + 1])
      BY <2>1
    <2>3. front \in A
      <3> HIDE DEF front
      <3> QED
        BY <1>2, <2>1
    <2> HIDE DEF front
    <2> QED
      BY <2>1, <2>2, <2>3
  <1>3. M = Nat
    <2> HIDE DEF M
    <2>1. M \in SUBSET Nat
      BY DEF M
    <2> QED
      BY <1>1, <1>2, <2>1, Induction
  <1> QED
    BY <1>3

(* Flattening lists of good elements gives a list of good elements. *)
LEMMA FlattenKeeps ==
  ASSUME NEW T, NEW ss \in Seq(Seq(T))
  PROVE  FlattenSeq(ss) \in Seq(T)
  <1> DEFINE A == {t \in Seq(Seq(T)) : FlattenSeq(t) \in Seq(T)}
  <1>1. <<>> \in A
    <2>1. <<>> \in Seq(Seq(T)) /\ <<>> \in Seq(T)
      OBVIOUS
    <2> QED
      BY <2>1, FlattenNothing
  <1>2. ASSUME NEW t \in Seq(Seq(T)), t \in A, NEW s \in Seq(T)
        PROVE  Append(t, s) \in A
    <2>1. Append(t, s) \in Seq(Seq(T)) /\ FlattenSeq(t) \in Seq(T)
      BY <1>2
    <2>2. FlattenSeq(t) \o s \in Seq(T)
      BY <2>1
    <2>3. FlattenSeq(Append(t, s)) \in Seq(T)
      BY <2>2, FlattenAppend
    <2> QED
      BY <2>1, <2>3
  <1> HIDE DEF A
  <1>3. ss \in A
    BY <1>1, <1>2, Appending
  <1> QED
    BY <1>3 DEF A

(* Lists of at most one element flattened: what each has, in order. *)
Places(ss, at) ==
    /\ \A k \in 1 .. Len(FlattenSeq(ss)) :
         at[k] \in 1 .. Len(ss) /\ ss[at[k]] = <<FlattenSeq(ss)[k]>>
    /\ \A k, l \in 1 .. Len(FlattenSeq(ss)) : k < l => at[k] < at[l]
    /\ \A i \in 1 .. Len(ss) : ss[i] # <<>> => \E k \in 1 .. Len(FlattenSeq(ss)) : at[k] = i

(* Flattening sequences of at most one item keeps the places in order. *)
LEMMA FlattenPlaces ==
  ASSUME NEW T
  PROVE  \A ss \in Seq({s \in Seq(T) : Len(s) <= 1}) : \E at : Places(ss, at)
  <1> DEFINE O == {s \in Seq(T) : Len(s) <= 1}
             A == {ss \in Seq(O) : \E at : Places(ss, at)}
  <1>1. <<>> \in A
    <2>1. Places(<<>>, <<>>)
      BY FlattenNothing DEF Places
    <2>2. <<>> \in Seq(O)
      OBVIOUS
    <2> QED
      BY <2>1, <2>2
  <1>2. \A s \in O : s \in Seq(T) /\ (s = <<>> \/ \E x \in T : s = <<x>>)
    <2> TAKE s \in O
    <2>1. CASE Len(s) = 0
      BY <2>1
    <2>2. CASE Len(s) = 1
      <3>1. s = <<s[1]>> /\ s[1] \in T
        BY <2>2
      <3> QED
        BY <3>1
    <2>3. Len(s) = 0 \/ Len(s) = 1
      <3>1. Len(s) \in Nat /\ Len(s) <= 1
        OBVIOUS
      <3> QED
        BY <3>1
    <2> QED
      BY <2>1, <2>2, <2>3
  <1>3. \A ss \in Seq(O) : ss \in Seq(Seq(T))
    OBVIOUS
  <1> HIDE DEF A, O
  <1>4. ASSUME NEW ss \in Seq(O), ss \in A, NEW s \in O
        PROVE  Append(ss, s) \in A
    <2> DEFINE more == Append(ss, s)
               n == Len(ss)
               flat == FlattenSeq(ss)
               m == Len(flat)
    <2>1. PICK at : Places(ss, at)
      BY <1>4 DEF A
    <2>2. FlattenSeq(more) = flat \o s /\ flat \in Seq(T)
      BY <1>2, <1>3, FlattenAppend, FlattenKeeps
    <2>3. /\ more \in Seq(O) /\ Len(more) = n + 1 /\ n \in Nat /\ more[n + 1] = s
          /\ \A i \in 1 .. n : more[i] = ss[i]
      OBVIOUS
    <2>4. /\ \A k \in 1 .. m : at[k] \in 1 .. n /\ ss[at[k]] = <<flat[k]>>
          /\ \A k, l \in 1 .. m : k < l => at[k] < at[l]
          /\ \A i \in 1 .. n : ss[i] # <<>> => \E k \in 1 .. m : at[k] = i
      BY <2>1 DEF Places
    <2>5. m \in Nat
      BY <2>2
    <2> HIDE DEF more, n, flat, m
    <2>6. CASE s = <<>>
      <3>1. FlattenSeq(more) = flat
        BY <2>2, <2>6
      <3>2. Places(more, at)
        <4>1. ASSUME NEW k \in 1 .. m
              PROVE  at[k] \in 1 .. n + 1 /\ more[at[k]] = <<flat[k]>>
          <5>1. at[k] \in 1 .. n /\ ss[at[k]] = <<flat[k]>>
            BY <2>4
          <5>2. more[at[k]] = ss[at[k]] /\ at[k] \in 1 .. n + 1
            BY <2>3, <5>1
          <5> QED
            BY <5>1, <5>2
        <4>2. \A i \in 1 .. n + 1 : more[i] # <<>> => i \in 1 .. n /\ ss[i] # <<>>
          BY <2>3, <2>6
        <4>3. \A i \in 1 .. n + 1 : more[i] # <<>> => \E k \in 1 .. m : at[k] = i
          BY <2>4, <4>2
        <4> QED
          BY <2>3, <2>4, <3>1, <4>1, <4>3 DEF Places, m
      <3> QED
        BY <2>3, <3>2 DEF A, more
    <2>7. CASE s # <<>>
      <3>1. PICK x \in T : s = <<x>>
        BY <1>2, <2>7
      <3> DEFINE all == FlattenSeq(more)
                 to == [k \in 1 .. m + 1 |-> IF k <= m THEN at[k] ELSE n + 1]
      <3>2. /\ Len(all) = m + 1 /\ all[m + 1] = x
            /\ \A k \in 1 .. m : all[k] = flat[k]
        BY <2>2, <3>1 DEF m
      <3> HIDE DEF all
      <3>3. ASSUME NEW k \in 1 .. m + 1
            PROVE  to[k] \in 1 .. n + 1 /\ more[to[k]] = <<all[k]>>
        <4>1. CASE k <= m
          <5>1. k \in 1 .. m /\ to[k] = at[k]
            BY <2>5, <4>1
          <5> HIDE DEF to
          <5>2. at[k] \in 1 .. n /\ ss[at[k]] = <<flat[k]>> /\ all[k] = flat[k]
            BY <2>4, <3>2, <5>1
          <5>3. more[at[k]] = ss[at[k]] /\ at[k] \in 1 .. n + 1
            BY <2>3, <5>2
          <5> QED
            BY <5>1, <5>2, <5>3
        <4>2. CASE k = m + 1
          <5>1. to[k] = n + 1
            BY <2>5, <4>2
          <5>2. n + 1 \in 1 .. n + 1
            BY <2>3
          <5> QED
            BY <2>3, <3>1, <3>2, <4>2, <5>1, <5>2
        <4> QED
          BY <2>5, <4>1, <4>2
      <3>4. ASSUME NEW k \in 1 .. m + 1, NEW l \in 1 .. m + 1, k < l
            PROVE  to[k] < to[l]
        <4>1. k \in 1 .. m /\ to[k] = at[k]
          BY <2>5, <3>4
        <4>2. CASE l <= m
          BY <2>4, <2>5, <3>4, <4>1, <4>2
        <4>3. CASE l = m + 1
          <5>1. to[l] = n + 1 /\ at[k] \in 1 .. n
            BY <2>4, <2>5, <4>1, <4>3
          <5> QED
            BY <2>3, <4>1, <5>1
        <4> QED
          BY <2>5, <4>2, <4>3
      <3>5. ASSUME NEW i \in 1 .. n + 1, more[i] # <<>>
            PROVE  \E k \in 1 .. m + 1 : to[k] = i
        <4>1. CASE i = n + 1
          <5>1. m + 1 \in 1 .. m + 1 /\ to[m + 1] = n + 1
            BY <2>5
          <5> QED
            BY <4>1, <5>1
        <4>2. CASE i # n + 1
          <5>1. i \in 1 .. n /\ ss[i] # <<>>
            BY <2>3, <3>5, <4>2
          <5>2. PICK k \in 1 .. m : at[k] = i
            BY <2>4, <5>1
          <5>3. k \in 1 .. m + 1 /\ to[k] = at[k]
            BY <2>5
          <5> QED
            BY <5>2, <5>3
        <4> QED
          BY <4>1, <4>2
      <3> HIDE DEF to
      <3>6. Places(more, to)
        BY <2>3, <3>2, <3>3, <3>4, <3>5 DEF Places, all
      <3> QED
        BY <2>3, <3>6 DEF A, more
    <2> QED
      BY <2>6, <2>7
  <1>5. \A ss \in Seq(O) : ss \in A
    BY <1>1, <1>4, Appending
  <1> QED
    BY <1>5 DEF A, O

-----------------------------------------------------------------------------
(* Orders.  The rank of an element is the number of those before it: the   *)
(* ranks of n elements are 0 .. n - 1, in their order.                     *)

Orders(R, S) ==
    /\ \A i \in S : <<i, i>> \notin R
    /\ \A i, j \in S : i # j => <<i, j>> \in R \/ <<j, i>> \in R
    /\ \A i, j, k \in S : <<i, j>> \in R /\ <<j, k>> \in R => <<i, k>> \in R

Ranked(R, S) == [i \in S |-> Cardinality({j \in S : <<j, i>> \in R})]

(* The ranks of a finite linear order are 0, 1, ..., one for each. *)
LEMMA Ranks ==
  ASSUME NEW S, IsFiniteSet(S), NEW R, Orders(R, S), NEW rank, rank = Ranked(R, S)
  PROVE  LET n == Cardinality(S) IN
         /\ n \in Nat
         /\ \A i \in S : rank[i] \in 0 .. n - 1
         /\ \A i, j \in S : <<i, j>> \in R <=> rank[i] < rank[j]
         /\ \A i, j \in S : rank[i] = rank[j] => i = j
         /\ \A m \in 0 .. n - 1 : \E i \in S : rank[i] = m
  <1> DEFINE n == Cardinality(S)
             Below(i) == {j \in S : <<j, i>> \in R}
  <1> USE DEF Orders
  <1>0. \A i \in S : rank[i] = Cardinality(Below(i))
    BY DEF Ranked
  <1>1. n \in Nat
    BY FS_CardinalityType
  <1>2. ASSUME NEW i \in S
        PROVE  IsFiniteSet(Below(i)) /\ rank[i] \in 0 .. n - 1 /\ rank[i] = Cardinality(Below(i))
    <2>1. IsFiniteSet(S \ {i}) /\ Cardinality(S \ {i}) = n - 1
      BY FS_RemoveElement
    <2>2. Below(i) \in SUBSET (S \ {i})
      OBVIOUS
    <2>3. rank[i] = Cardinality(Below(i))
      BY <1>0
    <2> HIDE DEF Below, n
    <2>4. IsFiniteSet(Below(i)) /\ Cardinality(Below(i)) <= n - 1
      BY <2>1, <2>2, FS_Subset
    <2>5. Cardinality(Below(i)) \in Nat
      BY <2>4, FS_CardinalityType
    <2> QED
      BY <1>1, <2>3, <2>4, <2>5
  <1>3. ASSUME NEW i \in S, NEW j \in S, <<i, j>> \in R
        PROVE  rank[i] < rank[j]
    <2>1. Below(i) \cup {i} \in SUBSET Below(j) /\ i \notin Below(i)
      BY <1>3
    <2> HIDE DEF Below, n
    <2>2. IsFiniteSet(Below(i) \cup {i}) /\ Cardinality(Below(i) \cup {i}) = rank[i] + 1
      BY <1>2, <2>1, FS_AddElement
    <2>3. Cardinality(Below(i) \cup {i}) <= rank[j]
      BY <1>2, <2>1, FS_Subset
    <2> QED
      BY <1>1, <1>2, <2>2, <2>3
  <1> HIDE DEF n, Below
  <1>4. \A i \in S : rank[i] \in Nat
    <2> TAKE i \in S
    <2>1. rank[i] \in 0 .. n - 1
      BY <1>2
    <2> QED
      BY <1>1, <2>1
  <1>5. \A i, j \in S : <<i, j>> \in R => rank[i] < rank[j]
    BY <1>3, Zenon
  <1>6. ASSUME NEW i \in S, NEW j \in S, i # j
        PROVE  rank[i] # rank[j] /\ (rank[i] < rank[j] => <<i, j>> \in R)
    <2>1. <<i, j>> \in R \/ <<j, i>> \in R
      BY <1>6
    <2>2. rank[i] \in Nat /\ rank[j] \in Nat
      BY <1>4
    <2>3. <<j, i>> \in R => rank[j] < rank[i]
      BY <1>5
    <2> QED
      BY <1>5, <2>1, <2>2, <2>3
  <1>7. \A i, j \in S : rank[i] < rank[j] => i # j
    BY <1>4
  <1>8. ASSUME NEW m \in 0 .. n - 1
        PROVE  \E i \in S : rank[i] = m
    <2> DEFINE others == (0 .. n - 1) \ {m}
               f == [i \in S |-> rank[i]]
    <2> SUFFICES ASSUME ~\E i \in S : rank[i] = m
                 PROVE  FALSE
      OBVIOUS
    <2> HIDE DEF Below, n
    <2>1. IsFiniteSet(0 .. n - 1) /\ Cardinality(0 .. n - 1) = n
      BY <1>1, <1>6, FS_Interval
    <2>2. IsFiniteSet(others) /\ Cardinality(others) = n - 1
      BY <1>8, <2>1, FS_RemoveElement
    <2>3. f \in [S -> others]
      BY <1>2
    <2>4. \A i, j \in S : i # j => f[i] # f[j]
      BY <1>6
    <2> HIDE DEF f, others
    <2>5. Cardinality(others) < Cardinality(S)
      BY <1>1, <2>2 DEF n
    <2>6. \E i, j \in S : i # j /\ f[i] = f[j]
      BY <2>2, <2>3, <2>5, FS_PigeonHole
    <2> QED
      BY <2>4, <2>6
  <1> HIDE DEF n
  <1> QED
    BY <1>1, <1>2, <1>5, <1>6, <1>7, <1>8 DEF n

(* As many items as elements, none twice: every element is there. *)
LEMMA OneToOne ==
  ASSUME NEW S, IsFiniteSet(S), NEW s \in [1 .. Cardinality(S) -> S],
         \A i, j \in 1 .. Cardinality(S) : s[i] = s[j] => i = j
  PROVE  \A x \in S : \E i \in 1 .. Cardinality(S) : s[i] = x
  <1> DEFINE n == Cardinality(S)
  <1>1. n \in Nat
    BY FS_CardinalityType
  <1>2. ASSUME NEW x \in S, ~\E i \in 1 .. n : s[i] = x
        PROVE  FALSE
    <2> HIDE DEF n
    <2>1. IsFiniteSet(1 .. n) /\ Cardinality(1 .. n) = n
      BY <1>1, FS_Interval
    <2>2. IsFiniteSet(S \ {x}) /\ Cardinality(S \ {x}) = n - 1
      BY FS_RemoveElement DEF n
    <2>3. s \in [1 .. n -> S \ {x}]
      BY <1>2 DEF n
    <2>4. Cardinality(S \ {x}) < Cardinality(1 .. n)
      BY <1>1, <2>1, <2>2
    <2>5. \E i, j \in 1 .. n : i # j /\ s[i] = s[j]
      BY <2>1, <2>2, <2>3, <2>4, FS_PigeonHole
    <2> QED
      BY <2>5 DEF n
  <1> QED
    BY <1>2


(* A finite set, listed.                                                   *)
LEMMA Listing ==
  ASSUME NEW S, IsFiniteSet(S)
  PROVE  LET s == SetToSeq(S) IN
         /\ Cardinality(S) \in Nat
         /\ s \in Seq(S) /\ Len(s) = Cardinality(S)
         /\ \A i, j \in 1 .. Len(s) : s[i] = s[j] => i = j
         /\ \A x \in S : \E i \in 1 .. Len(s) : s[i] = x
  <1> DEFINE n == Cardinality(S)
             s == SetToSeq(S)
  <1>1. n \in Nat
    BY FS_CardinalityType
  <1>2. \E f \in [1 .. n -> S] : IsInjective(f)
    <2>1. ExistsBijection(1 .. n, S)
      BY <1>1, FS_NatBijection, FS_CardinalityType
    <2>2. PICK f : f \in Bijection(1 .. n, S)
      BY <2>1 DEF ExistsBijection
    <2>3. f \in [1 .. n -> S] /\ \A a, b \in 1 .. n : f[a] = f[b] => a = b
      BY <2>2 DEF Bijection, Injection, IsInjective
    <2> QED
      BY <2>3 DEF IsInjective
  <1>3. s \in [1 .. n -> S] /\ IsInjective(s)
    BY <1>2 DEF SetToSeq
  <1> HIDE DEF s
  <1>4. s \in Seq(S) /\ Len(s) = n /\ DOMAIN s = 1 .. n
    BY <1>1, <1>3
  <1>5. \A i, j \in 1 .. n : s[i] = s[j] => i = j
    BY <1>3 DEF IsInjective
  <1>6. \A x \in S : \E i \in 1 .. n : s[i] = x
    BY <1>3, <1>5, OneToOne
  <1> HIDE DEF n
  <1> QED
    BY <1>1, <1>4, <1>5, <1>6 DEF n, s

(* Nothing is listed as nothing. *)
LEMMA ListNone == SetToSeq({}) = <<>>
  <1> DEFINE s == SetToSeq({})
  <1>1. Cardinality({}) = 0 /\ IsFiniteSet({})
    BY FS_EmptySet
  <1>2. s \in Seq({}) /\ Len(s) = Cardinality({})
    BY <1>1, Listing
  <1> HIDE DEF s
  <1>3. s = <<>>
    BY <1>1, <1>2
  <1> QED
    BY <1>3 DEF s

(* One item is listed as itself. *)
LEMMA ListOne ==
  ASSUME NEW x
  PROVE  SetToSeq({x}) = <<x>>
  <1> DEFINE s == SetToSeq({x})
  <1>1. Cardinality({x}) = 1 /\ IsFiniteSet({x})
    BY FS_Singleton
  <1>2. s \in Seq({x}) /\ Len(s) = Cardinality({x})
    BY <1>1, Listing
  <1> HIDE DEF s
  <1> DEFINE X == {x}
  <1> HIDE DEF X
  <1>3. Len(s) = 1 /\ s \in Seq(X)
    BY <1>1, <1>2 DEF X
  <1>4. s[1] \in X
    BY <1>3
  <1>5. s = <<s[1]>>
    BY <1>3
  <1>6. s = <<x>>
    BY <1>4, <1>5 DEF X
  <1> QED
    BY <1>6 DEF s

(* Lists of one element each flattened. *)
LEMMA FlattenSingles ==
  ASSUME NEW T
  PROVE  \A ss \in Seq({s \in Seq(T) : Len(s) = 1}) :
           /\ Len(FlattenSeq(ss)) = Len(ss)
           /\ \A i \in 1 .. Len(ss) : ss[i] = <<FlattenSeq(ss)[i]>>
  <1> DEFINE O == {s \in Seq(T) : Len(s) = 1}
             A == {ss \in Seq(O) : /\ Len(FlattenSeq(ss)) = Len(ss)
                                   /\ \A i \in 1 .. Len(ss) : ss[i] = <<FlattenSeq(ss)[i]>>}
  <1>1. <<>> \in A
    BY FlattenNothing
  <1>2. \A s \in O : s \in Seq(T) /\ \E x \in T : s = <<x>>
    <2> TAKE s \in O
    <2>1. s \in Seq(T) /\ s[1] \in T /\ s = <<s[1]>>
      OBVIOUS
    <2> QED
      BY <2>1
  <1>3. ASSUME NEW ss \in Seq(O), ss \in A, NEW s \in O
        PROVE  Append(ss, s) \in A
    <2> DEFINE f == FlattenSeq(ss)
               all == Append(ss, s)
               g == FlattenSeq(all)
               n == Len(ss)
    <2>1. PICK x \in T : s = <<x>>
      BY <1>2
    <2>2. ss \in Seq(Seq(T)) /\ s \in Seq(T)
      <3>1. O \subseteq Seq(T)
        OBVIOUS
      <3> HIDE DEF O
      <3> QED
        BY <3>1
    <2>3. f \in Seq(T) /\ g = f \o s /\ Len(f) = n /\ \A i \in 1 .. n : ss[i] = <<f[i]>>
      BY <1>3, <2>2, FlattenAppend, FlattenKeeps
    <2> HIDE DEF O
    <2>4. n \in Nat /\ all \in Seq(O) /\ Len(all) = n + 1 /\ all[n + 1] = s
          /\ \A i \in 1 .. n : all[i] = ss[i]
      OBVIOUS
    <2> HIDE DEF f, g, n, all
    <2>5. g = Append(f, x)
      <3> DEFINE one == <<x>>
      <3>1. f \o one = Append(f, x)
        BY <2>3
      <3> QED
        BY <2>1, <2>3, <3>1
    <2>6. Len(g) = n + 1 /\ g[n + 1] = x /\ \A i \in 1 .. n : g[i] = f[i]
      BY <2>3, <2>4, <2>5
    <2>7. \A i \in 1 .. n + 1 : all[i] = <<g[i]>>
      <3> TAKE i \in 1 .. n + 1
      <3>1. i \in 1 .. n \/ i = n + 1
        BY <2>4
      <3>2. CASE i \in 1 .. n
        BY <2>3, <2>4, <2>6, <3>2
      <3>3. CASE i = n + 1
        BY <2>1, <2>4, <2>6, <3>3
      <3> QED
        BY <3>1, <3>2, <3>3
    <2> QED
      BY <2>4, <2>6, <2>7 DEF all, g
  <1> HIDE DEF A, O
  <1>4. \A ss \in Seq(O) : ss \in A
    BY <1>1, <1>3, Appending
  <1> QED
    BY <1>4 DEF A, O

(* Neighbours in order, all in order. *)
LEMMA NeighboursInOrder ==
  ASSUME NEW n \in Nat, NEW f, \A i \in 1 .. n : f[i] \in Nat,
         \A i \in 1 .. n - 1 : f[i] <= f[i + 1]
  PROVE  \A i, j \in 1 .. n : i < j => f[i] <= f[j]
  <1> DEFINE M == {d \in Nat : \A i \in 1 .. n : i + d <= n => f[i] <= f[i + d]}
  <1>1. 0 \in M
    OBVIOUS
  <1>2. ASSUME NEW d \in M
        PROVE  d + 1 \in M
    <2> SUFFICES ASSUME NEW i \in 1 .. n, i + (d + 1) <= n
                 PROVE  f[i] <= f[i + (d + 1)]
      BY <1>2
    <2>1. i + d \in 1 .. n - 1 /\ i + d \in 1 .. n /\ i + d + 1 \in 1 .. n /\ i + (d + 1) = i + d + 1
      BY <1>2
    <2>2. f[i] <= f[i + d]
      BY <1>2, <2>1
    <2>3. f[i + d] <= f[i + d + 1]
      BY <2>1
    <2> QED
      BY <2>1, <2>2, <2>3
  <1>3. M = Nat
    <2> HIDE DEF M
    <2>1. M \in SUBSET Nat
      BY DEF M
    <2> QED
      BY <1>1, <1>2, <2>1, Induction
  <1> SUFFICES ASSUME NEW i \in 1 .. n, NEW j \in 1 .. n, i < j
               PROVE  f[i] <= f[j]
    OBVIOUS
  <1>4. j - i \in Nat /\ i + (j - i) = j
    OBVIOUS
  <1> HIDE DEF M
  <1>5. j - i \in M
    BY <1>3, <1>4
  <1> QED
    BY <1>4, <1>5 DEF M

=============================================================================
