----------------------------- MODULE FoldProofs -----------------------------
(***************************************************************************)
(* What FoldLeft computes, for any operator: instantiated with the step of *)
(* a loop, these are the facts to reason about the loop with.  The first   *)
(* argument of Op is what the loop knows besides its state and its item.   *)
(***************************************************************************)
EXTENDS SequenceProofs

CONSTANT Op(_,_,_)

Fold(c, base, seq) == FoldLeft(LAMBDA acc, x : Op(c, acc, x), base, seq)

-----------------------------------------------------------------------------
(* The recursive function in the definition of FoldLeft. *)

Item(c, base, seq, f, s) ==
    IF s = {} THEN base ELSE Op(c, f[s \ {Max(s)}], seq[Max(s)])
Folds(c, base, seq, f, n) == f = [s \in SUBSET (1 .. n) |-> Item(c, base, seq, f, s)]

(* The last of the first n numbers, and those before it. *)
LEMMA MaxOfInterval ==
  ASSUME NEW n \in Nat, n # 0
  PROVE  Max(1 .. n) = n /\ (1 .. n) \ {n} = 1 .. n - 1
  <1>1. n \in 1 .. n /\ \A y \in 1 .. n : n >= y
    OBVIOUS
  <1>2. \A x \in 1 .. n : (\A y \in 1 .. n : x >= y) => x = n
    OBVIOUS
  <1>3. Max(1 .. n) = n
    BY <1>1, <1>2 DEF Max
  <1> QED
    BY <1>3

(* It exists: on the sets with a number more it takes one step more. *)
LEMMA FoldsExist ==
  ASSUME NEW c, NEW base, NEW seq, NEW n \in Nat
  PROVE  \E f : Folds(c, base, seq, f, n)
  <1> DEFINE M == {k \in Nat : \E f : Folds(c, base, seq, f, k)}
  <1>1. 0 \in M
    <2> DEFINE f == [s \in SUBSET (1 .. 0) |-> base]
    <2>1. \A s \in SUBSET (1 .. 0) : s = {}
      OBVIOUS
    <2>2. Folds(c, base, seq, f, 0)
      BY <2>1 DEF Folds, Item
    <2> QED
      BY <2>2
  <1>2. ASSUME NEW k \in M
        PROVE  k + 1 \in M
    <2>1. PICK f : Folds(c, base, seq, f, k)
      BY <1>2
    <2> DEFINE g == [s \in SUBSET (1 .. k + 1) |->
                       IF s \subseteq 1 .. k THEN f[s] ELSE Op(c, f[s \ {k + 1}], seq[k + 1])]
    <2>2. k \in Nat /\ 1 .. k \subseteq 1 .. k + 1 /\ (1 .. k + 1) \ {k + 1} = 1 .. k
      BY <1>2
    <2>3. ASSUME NEW s \in SUBSET (1 .. k), s # {}
          PROVE  Max(s) \in s
      BY <2>2, <2>3, Extremes
    <2>4. ASSUME NEW s \in SUBSET (1 .. k)
          PROVE  g[s] = Item(c, base, seq, g, s)
      <3>1. g[s] = f[s] /\ f[s] = Item(c, base, seq, f, s)
        BY <2>1, <2>2 DEF Folds
      <3>2. s # {} => g[s \ {Max(s)}] = f[s \ {Max(s)}]
        BY <2>2, <2>3
      <3> HIDE DEF g
      <3> QED
        BY <3>1, <3>2 DEF Item
    <2>5. ASSUME NEW s \in SUBSET (1 .. k + 1), ~(s \subseteq 1 .. k)
          PROVE  g[s] = Item(c, base, seq, g, s)
      <3>1. k + 1 \in s /\ s # {} /\ s \ {k + 1} \in SUBSET (1 .. k)
        BY <2>2, <2>5
      <3>2. Max(s) = k + 1
        <4>1. \A y \in s : y \in Int /\ k + 1 >= y
          BY <2>2, <2>5
        <4>2. \A x \in s : (\A y \in s : x >= y) => x = k + 1
          BY <2>2, <3>1, <4>1
        <4> QED
          BY <3>1, <4>1, <4>2 DEF Max
      <3>3. g[s] = Op(c, f[s \ {k + 1}], seq[k + 1])
        BY <2>5
      <3>4. g[s \ {k + 1}] = f[s \ {k + 1}]
        BY <2>2, <3>1
      <3> HIDE DEF g
      <3> QED
        BY <3>1, <3>2, <3>3, <3>4 DEF Item
    <2>6. g = [s \in SUBSET (1 .. k + 1) |-> Item(c, base, seq, g, s)]
      <3>1. \A s \in SUBSET (1 .. k + 1) : g[s] = Item(c, base, seq, g, s)
        <4> HIDE DEF g
        <4> QED
          BY <2>4, <2>5
      <3>2. g = [s \in SUBSET (1 .. k + 1) |-> g[s]]
        OBVIOUS
      <3> HIDE DEF g
      <3> QED
        BY <3>1, <3>2
    <2>7. k + 1 \in Nat /\ \E h : Folds(c, base, seq, h, k + 1)
      <3> HIDE DEF g
      <3> QED
        BY <2>2, <2>6 DEF Folds
    <2> QED
      BY <2>7
  <1>3. M = Nat
    <2> HIDE DEF M
    <2>1. M \in SUBSET Nat
      BY DEF M
    <2> QED
      BY <1>1, <1>2, <2>1, Induction
  <1> QED
    BY <1>3

(* What it has for 1 .. n, number by number. *)
LEMMA FoldsAt ==
  ASSUME NEW c, NEW base, NEW seq, NEW n \in Nat, NEW f, Folds(c, base, seq, f, n)
  PROVE  \A k \in 0 .. n - 1 : f[1 .. k + 1] = Op(c, f[1 .. k], seq[k + 1])
  <1>1. ASSUME NEW k \in 0 .. n - 1
        PROVE  f[1 .. k + 1] = Op(c, f[1 .. k], seq[k + 1])
    <2>1. 1 .. k + 1 \in SUBSET (1 .. n) /\ 1 .. k + 1 # {} /\ k + 1 \in Nat /\ k + 1 # 0
      OBVIOUS
    <2>2. Max(1 .. k + 1) = k + 1 /\ (1 .. k + 1) \ {k + 1} = 1 .. k + 1 - 1 /\ k + 1 - 1 = k
      BY <2>1, MaxOfInterval
    <2>3. f[1 .. k + 1] = Item(c, base, seq, f, 1 .. k + 1)
      BY <2>1 DEF Folds
    <2> QED
      BY <2>1, <2>2, <2>3 DEF Item
  <1> QED
    BY <1>1

(* A fold is the value of that function at all positions. *)
LEMMA FoldIsLast ==
  ASSUME NEW c, NEW base, NEW seq, NEW n \in Nat, DOMAIN seq = 1 .. n
  PROVE  \E f : Folds(c, base, seq, f, n) /\ Fold(c, base, seq) = f[1 .. n]
  <1> DEFINE f == CHOOSE g : Folds(c, base, seq, g, n)
  <1>1. Folds(c, base, seq, f, n)
    BY FoldsExist
  <1>2. Fold(c, base, seq) = f[1 .. n]
    BY DEF Fold, FoldLeft, MapThenFoldSet, Folds, Item
  <1> QED
    BY <1>1, <1>2

-----------------------------------------------------------------------------
(* A fold, step by step. *)

(* Two sequences that begin alike have the same results on the way. *)
LEMMA FoldsAgree ==
  ASSUME NEW c, NEW base, NEW a, NEW b, NEW n \in Nat, NEW m \in Nat, n <= m,
         \A i \in 1 .. n : a[i] = b[i],
         NEW f, Folds(c, base, a, f, n), NEW g, Folds(c, base, b, g, m)
  PROVE  f[1 .. n] = g[1 .. n]
  <1> DEFINE M == {k \in Nat : k <= n => f[1 .. k] = g[1 .. k]}
  <1>1. 0 \in M
    <2>1. 1 .. 0 = {} /\ f[{}] = base /\ g[{}] = base
      BY DEF Folds, Item
    <2> QED
      BY <2>1
  <1>2. ASSUME NEW k \in M
        PROVE  k + 1 \in M
    <2> SUFFICES ASSUME k + 1 <= n
                 PROVE  f[1 .. k + 1] = g[1 .. k + 1]
      BY <1>2
    <2>1. k \in 0 .. n - 1 /\ k \in 0 .. m - 1 /\ k + 1 \in 1 .. n /\ f[1 .. k] = g[1 .. k]
      BY <1>2
    <2>2. f[1 .. k + 1] = Op(c, f[1 .. k], a[k + 1])
      BY <2>1, FoldsAt
    <2>3. g[1 .. k + 1] = Op(c, g[1 .. k], b[k + 1])
      BY <2>1, FoldsAt
    <2> QED
      BY <2>1, <2>2, <2>3
  <1>3. M = Nat
    <2> HIDE DEF M
    <2>1. M \in SUBSET Nat
      BY DEF M
    <2> QED
      BY <1>1, <1>2, <2>1, Induction
  <1> QED
    BY <1>3

(* Nothing folds to the base. *)
LEMMA FoldNothing ==
  ASSUME NEW c, NEW base
  PROVE  Fold(c, base, <<>>) = base
  <1>1. DOMAIN <<>> = 1 .. 0 /\ 0 \in Nat
    OBVIOUS
  <1>2. PICK f : Folds(c, base, <<>>, f, 0) /\ Fold(c, base, <<>>) = f[1 .. 0]
    BY <1>1, FoldIsLast
  <1>3. 1 .. 0 = {} /\ f[{}] = base
    BY <1>2 DEF Folds, Item
  <1> QED
    BY <1>2, <1>3

(* One item more is one step more. *)
LEMMA FoldStep ==
  ASSUME NEW c, NEW base, NEW T, NEW seq \in Seq(T), NEW x \in T
  PROVE  Fold(c, base, Append(seq, x)) = Op(c, Fold(c, base, seq), x)
  <1> DEFINE n == Len(seq)
             more == Append(seq, x)
  <1>1. /\ n \in Nat /\ DOMAIN seq = 1 .. n /\ DOMAIN more = 1 .. n + 1
        /\ \A i \in 1 .. n : seq[i] = more[i]
        /\ more[n + 1] = x /\ n \in 0 .. n + 1 - 1 /\ n <= n + 1 /\ n + 1 \in Nat
    OBVIOUS
  <1> HIDE DEF n, more
  <1>2. PICK f : Folds(c, base, seq, f, n) /\ Fold(c, base, seq) = f[1 .. n]
    BY <1>1, FoldIsLast
  <1>3. PICK g : Folds(c, base, more, g, n + 1) /\ Fold(c, base, more) = g[1 .. n + 1]
    BY <1>1, FoldIsLast
  <1>4. f[1 .. n] = g[1 .. n]
    BY <1>1, <1>2, <1>3, FoldsAgree
  <1>5. g[1 .. n + 1] = Op(c, g[1 .. n], more[n + 1])
    BY <1>1, <1>3, FoldsAt
  <1> QED
    BY <1>1, <1>2, <1>3, <1>4, <1>5 DEF more

(* A loop invariant: what holds of the base, and after each item if it held *)
(* before, holds at the end.  I[k] is the set of the states it allows after *)
(* k items.                                                                *)
LEMMA FoldInvariant ==
  ASSUME NEW c, NEW base, NEW T, NEW seq \in Seq(T), NEW I, base \in I[0],
         \A k \in 0 .. Len(seq) - 1 : \A acc \in I[k] : Op(c, acc, seq[k + 1]) \in I[k + 1]
  PROVE  Fold(c, base, seq) \in I[Len(seq)]
  <1> DEFINE n == Len(seq)
  <1>1. n \in Nat /\ DOMAIN seq = 1 .. n
    OBVIOUS
  <1>2. PICK f : Folds(c, base, seq, f, n) /\ Fold(c, base, seq) = f[1 .. n]
    BY <1>1, FoldIsLast
  <1> DEFINE M == {k \in Nat : k <= n => f[1 .. k] \in I[k]}
  <1>3. 0 \in M
    <2>1. 1 .. 0 = {} /\ f[{}] = base
      BY <1>2 DEF Folds, Item
    <2> QED
      BY <2>1
  <1>4. ASSUME NEW k \in M
        PROVE  k + 1 \in M
    <2> SUFFICES ASSUME k + 1 <= n
                 PROVE  f[1 .. k + 1] \in I[k + 1]
      BY <1>4
    <2>1. k \in 0 .. n - 1 /\ f[1 .. k] \in I[k]
      BY <1>1, <1>4
    <2> HIDE DEF M, n
    <2>2. f[1 .. k + 1] = Op(c, f[1 .. k], seq[k + 1])
      BY <1>1, <1>2, <2>1, FoldsAt
    <2> QED
      BY <2>1, <2>2 DEF n
  <1>5. M = Nat
    <2> HIDE DEF M
    <2>1. M \in SUBSET Nat
      BY DEF M
    <2> QED
      BY <1>3, <1>4, <2>1, Induction
  <1> QED
    BY <1>1, <1>2, <1>5

=============================================================================
