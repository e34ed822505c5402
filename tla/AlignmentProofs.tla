-------------------------- MODULE AlignmentProofs --------------------------
(***************************************************************************)
(* What the diff and the alignment compute, for every two texts and every  *)
(* two lists of passages: the proposals, put in their places, turn the     *)
(* passages of the base into those of the witness.                         *)
(***************************************************************************)
EXTENDS Alignment, SequenceProofs

-----------------------------------------------------------------------------
(* Slices, and the heads and tails that two texts share. *)

(* Inside a text, SliceByRunes (text.go) clamps nothing. *)
LEMMA SliceIsSubSeq ==
  ASSUME NEW T, NEW t \in Seq(T), NEW start \in Nat, NEW end \in Nat,
         start <= end, end <= Len(t)
  PROVE  SliceByRunes(t, start, end) = SubSeq(t, start + 1, end)
  <1>1. Max({start, 0}) = start /\ Max({end, start}) = end
    BY DEF Max
  <1>2. Min({end, Len(t)}) = end
    BY DEF Min
  <1> QED
    BY <1>1, <1>2 DEF SliceByRunes

(* The common head lies in both texts and is the same in both. *)
LEMMA SharedHead ==
  ASSUME NEW T, NEW a \in Seq(T), NEW b \in Seq(T)
  PROVE  LET n == CommonPrefixRunes(a, b) IN
         /\ n \in Nat /\ n <= Len(a) /\ n <= Len(b)
         /\ \A i \in 1 .. n : a[i] = b[i]
  <1> DEFINE short == Shorter(a, b)
             Ends == {n \in 0 .. short : n < short => a[n + 1] # b[n + 1]}
             Heads(n) == /\ \A i \in 1 .. n : a[i] = b[i]
                         /\ n < short => a[n + 1] # b[n + 1]
  <1>1. short \in Nat /\ short <= Len(a) /\ short <= Len(b)
    BY DEF Shorter
  <1> HIDE DEF short
  <1>2. Ends \in SUBSET Nat /\ short \in Ends
    BY <1>1
  <1>3. PICK n \in Ends : \A m \in Ends : n <= m
    BY <1>2, LeastNat
  <1>4. ASSUME NEW i \in 1 .. n
        PROVE  a[i] = b[i]
    <2>1. i - 1 \in 0 .. short /\ i - 1 < short /\ ~(n <= i - 1) /\ i - 1 + 1 = i
      BY <1>1, <1>3
    <2> QED
      BY <1>3, <2>1
  <1>5. n \in 0 .. short /\ Heads(n)
    BY <1>3, <1>4
  <1>6. CommonPrefixRunes(a, b) = CHOOSE m \in 0 .. short : Heads(m)
    BY DEF CommonPrefixRunes, short
  <1> HIDE DEF Heads
  <1>7. CommonPrefixRunes(a, b) \in 0 .. short /\ Heads(CommonPrefixRunes(a, b))
    BY <1>5, <1>6
  <1> QED
    BY <1>1, <1>7 DEF Heads

(* The common tail lies in both texts and is the same in both. *)
LEMMA SharedTail ==
  ASSUME NEW T, NEW a \in Seq(T), NEW b \in Seq(T)
  PROVE  LET n == CommonSuffixRunes(a, b) IN
         /\ n \in Nat /\ n <= Len(a) /\ n <= Len(b)
         /\ \A i \in 0 .. n - 1 : a[Len(a) - i] = b[Len(b) - i]
  <1> DEFINE short == Shorter(a, b)
             Ends == {n \in 0 .. short : n < short => a[Len(a) - n] # b[Len(b) - n]}
             Tails(n) == /\ \A i \in 0 .. n - 1 : a[Len(a) - i] = b[Len(b) - i]
                         /\ n < short => a[Len(a) - n] # b[Len(b) - n]
  <1>1. short \in Nat /\ short <= Len(a) /\ short <= Len(b)
    BY DEF Shorter
  <1> HIDE DEF short
  <1>2. Ends \in SUBSET Nat /\ short \in Ends
    BY <1>1
  <1>3. PICK n \in Ends : \A m \in Ends : n <= m
    BY <1>2, LeastNat
  <1>4. ASSUME NEW i \in 0 .. n - 1
        PROVE  a[Len(a) - i] = b[Len(b) - i]
    <2>1. i \in 0 .. short /\ i < short /\ ~(n <= i)
      BY <1>1, <1>3
    <2> QED
      BY <1>3, <2>1
  <1>5. n \in 0 .. short /\ Tails(n)
    BY <1>3, <1>4
  <1>6. CommonSuffixRunes(a, b) = CHOOSE m \in 0 .. short : Tails(m)
    BY DEF CommonSuffixRunes, short
  <1> HIDE DEF Tails
  <1>7. CommonSuffixRunes(a, b) \in 0 .. short /\ Tails(CommonSuffixRunes(a, b))
    BY <1>5, <1>6
  <1> QED
    BY <1>1, <1>7 DEF Tails

-----------------------------------------------------------------------------
(* Diffs. *)

(* A base text with the range of a difference replaced by its reading. *)
Replaced(v, base) ==
    SliceByRunes(base, 0, v.start) \o v.alt \o SliceByRunes(base, v.end, Len(base))

(* The shared tail is cut back so that it fits beside the shared head in   *)
(* both texts.                                                             *)
LEMMA TailFits ==
  ASSUME NEW n \in Nat, NEW m \in Nat, NEW head \in Nat, NEW tail \in Nat,
         head <= n, head <= m, tail <= n, tail <= m
  PROVE  LET both == SuffixBeside(m, head, SuffixBeside(n, head, tail)) IN
         both \in Nat /\ both <= tail /\ head + both <= n /\ head + both <= m
  BY DEF SuffixBeside

(* What DiffText finds of two texts that differ: a valid range of the base *)
(* and what the other text has in its place, not both empty (diff.go).     *)
LEMMA DiffRebuilds ==
  ASSUME NEW T, NEW base \in Seq(T), NEW alt \in Seq(T), base # alt
  PROVE  LET d == DiffText(base, alt)[1] IN
         /\ DOMAIN DiffText(base, alt) = {1}
         /\ d.start \in Nat /\ d.end \in Nat /\ d.start <= d.end /\ d.end <= Len(base)
         /\ d.base \in Seq(T) /\ d.alt \in Seq(T) /\ Len(d.base) = d.end - d.start
         /\ Replaced(d, base) = alt
         /\ ~(d.base = <<>> /\ d.alt = <<>>)
         /\ d.end = 0 => d.base = <<>>
  <1> DEFINE head == CommonPrefixRunes(base, alt)
             tail == CommonSuffixRunes(base, alt)
             both == SuffixBeside(Len(alt), head, SuffixBeside(Len(base), head, tail))
             n == Len(base)
             m == Len(alt)
             inBase == SubSeq(base, head + 1, n - both)
             inAlt == SubSeq(alt, head + 1, m - both)
             d == [start |-> head, end |-> n - both, base |-> inBase, alt |-> inAlt]
  <1>1. /\ head \in Nat /\ head <= n /\ head <= m
        /\ \A i \in 1 .. head : base[i] = alt[i]
    BY SharedHead
  <1>2. /\ tail \in Nat /\ tail <= n /\ tail <= m
        /\ \A i \in 0 .. tail - 1 : base[n - i] = alt[m - i]
    BY SharedTail
  <1>3. n \in Nat /\ m \in Nat
    OBVIOUS
  <1> HIDE DEF head, tail
  <1>4. both \in Nat /\ both <= tail /\ head + both <= n /\ head + both <= m
    BY <1>1, <1>2, <1>3, TailFits
  <1>5. DiffText(base, alt) = <<d>>
    <2>1. ~(both < 0)
      BY <1>4
    <2> QED
      BY <2>1 DEF DiffText, head, tail
  <1> HIDE DEF both
  <1>6. /\ inBase \in Seq(T) /\ Len(inBase) = n - both - head
        /\ inAlt \in Seq(T) /\ Len(inAlt) = m - both - head
        /\ \A i \in 1 .. m - both - head : inAlt[i] = alt[head + i]
    <2>1. /\ n - both \in Nat /\ head <= n - both /\ n - both <= n
          /\ m - both \in Nat /\ head <= m - both /\ m - both <= m
      BY <1>1, <1>3, <1>4
    <2> QED
      BY <1>1, <2>1, SubSeqAt
  <1> DEFINE front == SubSeq(base, 1, head)
             back == SubSeq(base, n - both + 1, n)
  <1>7. /\ front \in Seq(T) /\ Len(front) = head
        /\ \A i \in 1 .. head : front[i] = base[i]
    BY <1>1, <1>3
  <1>8. /\ back \in Seq(T) /\ Len(back) = both
        /\ \A i \in 1 .. both : back[i] = base[n - both + i]
    <2>1. n - both \in Nat /\ n - both <= n /\ n - (n - both) = both
      BY <1>1, <1>3, <1>4
    <2> QED
      BY <1>3, <2>1, SubSeqAt
  <1>9. SliceByRunes(base, 0, head) = front /\ SliceByRunes(base, n - both, n) = back
    <2>1. n - both \in Nat /\ n - both <= n
      BY <1>1, <1>3, <1>4
    <2>2. 0 <= head /\ head <= Len(base) /\ 0 \in Nat
      BY <1>1
    <2> QED
      BY <1>1, <1>3, <2>1, <2>2, SliceIsSubSeq
  <1> HIDE DEF front, back, inAlt, n, m
  <1>10. front \o inAlt \o back = alt
    <2> DEFINE whole == front \o inAlt \o back
    <2>1. /\ whole \in Seq(T) /\ Len(whole) = head + Len(inAlt) + both
          /\ \A i \in 1 .. Len(whole) :
               whole[i] = IF i <= head THEN front[i]
                          ELSE IF i <= head + Len(inAlt) THEN inAlt[i - head]
                          ELSE back[i - head - Len(inAlt)]
      <3>1. front \in Seq(T) /\ inAlt \in Seq(T) /\ back \in Seq(T)
        BY <1>6, <1>7, <1>8
      <3>2. /\ whole \in Seq(T) /\ Len(whole) = Len(front) + Len(inAlt) + Len(back)
            /\ \A i \in 1 .. Len(whole) :
                 whole[i] = IF i <= Len(front) THEN front[i]
                            ELSE IF i <= Len(front) + Len(inAlt) THEN inAlt[i - Len(front)]
                            ELSE back[i - Len(front) - Len(inAlt)]
        BY <3>1, ThreeParts
      <3> HIDE DEF whole
      <3> QED
        BY <1>7, <1>8, <3>2
    <2> HIDE DEF whole
    <2>2. Len(whole) = m
      BY <1>1, <1>3, <1>4, <1>6, <2>1
    <2>3. ASSUME NEW i \in 1 .. m
          PROVE  whole[i] = alt[i]
      <3>1. CASE i <= head
        <4>1. i \in 1 .. head
          BY <1>1, <1>3, <3>1
        <4> QED
          BY <1>1, <1>7, <2>1, <2>2, <3>1, <4>1
      <3>2. CASE ~(i <= head) /\ i <= head + Len(inAlt)
        <4> DEFINE j == i - head
        <4>1. j \in 1 .. Len(inAlt) /\ head + j = i
          BY <1>1, <1>3, <1>4, <1>6, <3>2
        <4>2. whole[i] = inAlt[j]
          BY <2>1, <2>2, <3>2
        <4> HIDE DEF j
        <4> QED
          BY <1>6, <4>1, <4>2
      <3>3. CASE ~(i <= head) /\ ~(i <= head + Len(inAlt))
        <4> DEFINE j == i - head - Len(inAlt)
                   k == m - i
        <4>1. /\ j \in 1 .. both /\ k \in 0 .. tail - 1
              /\ n - both + j = n - k /\ m - k = i
          BY <1>1, <1>2, <1>3, <1>4, <1>6, <3>3
        <4>2. whole[i] = back[j]
          BY <2>1, <2>2, <3>3
        <4> HIDE DEF j, k
        <4>3. back[j] = base[n - k]
          BY <1>8, <4>1
        <4>4. base[n - k] = alt[i]
          BY <1>2, <4>1
        <4> QED
          BY <4>2, <4>3, <4>4
      <3> QED
        BY <3>1, <3>2, <3>3
    <2> QED
      <3>1. whole \in Seq(T) /\ Len(whole) = Len(alt) /\ \A i \in 1 .. Len(whole) : whole[i] = alt[i]
        BY <2>1, <2>2, <2>3 DEF m
      <3>2. whole = alt
        BY <3>1, EqualRunes
      <3> QED
        BY <3>2 DEF whole
  <1>11. ASSUME inBase = <<>>, inAlt = <<>>
         PROVE  FALSE
    <2>1. n - both = head /\ m - both = head
      <3>1. Len(inBase) = 0 /\ Len(inAlt) = 0
        BY <1>11
      <3>2. Len(inBase) = n - both - head /\ Len(inAlt) = m - both - head
        BY <1>6
      <3> QED
        BY <1>1, <1>3, <1>4, <3>1, <3>2
    <2>2. n = m
      BY <1>3, <1>4, <2>1
    <2>3. ASSUME NEW i \in 1 .. n
          PROVE  base[i] = alt[i]
      <3>1. CASE i <= head
        BY <1>1, <1>3, <3>1
      <3>2. CASE ~(i <= head)
        <4> DEFINE k == n - i
        <4>1. k \in 0 .. tail - 1 /\ n - k = i /\ m - k = i
          BY <1>1, <1>2, <1>3, <1>4, <2>1, <2>2, <3>2
        <4> HIDE DEF k
        <4> QED
          BY <1>2, <4>1
      <3> QED
        BY <3>1, <3>2
    <2> QED
      BY <2>2, <2>3, EqualRunes DEF n, m
  <1>12. /\ d.start = head /\ d.end = n - both /\ d.base = inBase /\ d.alt = inAlt
         /\ head <= n - both /\ n - both <= n /\ n - both \in Nat
    BY <1>1, <1>3, <1>4
  <1>13. /\ Replaced(d, base) = alt
         /\ ~(d.base = <<>> /\ d.alt = <<>>)
    <2> HIDE DEF inBase, d
    <2> QED
      BY <1>9, <1>10, <1>11, <1>12 DEF n, Replaced
  <1>14. DOMAIN DiffText(base, alt) = {1} /\ DiffText(base, alt)[1] = d
    BY <1>5
  <1>15. n - both = 0 => inBase = <<>>
    BY <1>1, <1>6, <1>12
  <1>16. Len(d.base) = d.end - d.start
    BY <1>6, <1>12
  <1> HIDE DEF inBase, d
  <1> QED
    BY <1>1, <1>6, <1>12, <1>13, <1>14, <1>15, <1>16 DEF n

-----------------------------------------------------------------------------
(* Lists of proposals. *)

(* A passage as the alignment sees it; none is empty, since the            *)
(* segmentation drops blank blocks.                                        *)
PassageItems(runes, ids) == [id : ids, ordinal : Nat, text : Seq(runes) \ {<<>>}]

VariantTypes == {"word", "addition", "omission", "movement"}

Proposals(runes, ids) ==
    [passage : ids \cup {NoPassage}, start : Nat, end : Nat, from : ids \cup {NoPassage},
     type : VariantTypes, alt : Seq(runes)]

(* A passage more of the witness: its reading is that passage. *)
IsExtra(v, ws) ==
    /\ v.passage = NoPassage /\ v.start = 0 /\ v.end = 0 /\ v.alt # <<>>
    /\ \E p \in ToSet(ws) : v.from = p.id /\ v.alt = p.text

(* A range of a base passage, the whole of it if nothing is put there; a   *)
(* reading in its place gives a passage of the witness.                    *)
IsWithin(v, base, ws) ==
    \E q \in ToSet(base) :
        /\ v.passage = q.id /\ v.start <= v.end /\ v.end <= Len(q.text)
        /\ v.end > 0 \/ v.type = "addition"
        /\ v.alt # <<>> => \E p \in ToSet(ws) : v.from = p.id /\ Replaced(v, q.text) = p.text

(* What the loci of a witness are: additions and words have a reading, the *)
(* others have none, and a reading rebuilds the passage it is from.        *)
Fitting(runes, ids, base, ws) ==
    {v \in Proposals(runes, ids) :
        /\ v.alt # <<>> <=> v.type \in {"word", "addition"}
        /\ IsExtra(v, ws) \/ IsWithin(v, base, ws)}

(* What a pair of passages is told apart by: nothing if they are equal,    *)
(* else one range of the first with what the second has in its place.      *)
IsDifference(v, q, p) ==
    /\ v.passage = q.id /\ v.from = p.id
    /\ v.start \in Nat /\ v.end \in Nat /\ v.start <= v.end /\ v.end <= Len(q.text)
    /\ v.type \in {"word", "addition", "omission"}
    /\ v.type = "addition" <=> v.start = v.end
    /\ v.type = "omission" <=> v.alt = <<>>
    /\ Replaced(v, q.text) = p.text

(* Two passages that differ give one proposal, which is their difference. *)
LEMMA DifferenceIs ==
  ASSUME NEW runes, NEW ids, NEW q \in PassageItems(runes, ids), NEW p \in PassageItems(runes, ids)
  PROVE  LET vs == DiffProposals(q, p) IN
         /\ q.text = p.text => vs = <<>>
         /\ q.text # p.text =>
              vs = <<vs[1]>> /\ vs[1] \in Proposals(runes, ids) /\ IsDifference(vs[1], q, p)
  <1> DEFINE diffs == DiffText(q.text, p.text)
             d == diffs[1]
             v == [passage |-> q.id, start |-> d.start, end |-> d.end,
                   type |-> ClassifyDiff(d), alt |-> d.alt, from |-> p.id]
  <1>1. q.text \in Seq(runes) /\ p.text \in Seq(runes) /\ q.id \in ids /\ p.id \in ids
    BY DEF PassageItems
  <1>2. CASE q.text = p.text
    <2>1. diffs = <<>>
      BY <1>2 DEF DiffText
    <2>2. DiffProposals(q, p) = <<>>
      BY <2>1 DEF DiffProposals
    <2> QED
      BY <1>2, <2>2
  <1>3. CASE q.text # p.text
    <2> DEFINE t == q.text
               u == p.text
    <2> HIDE DEF t, u
    <2>1. LET e == DiffText(t, u)[1] IN
          /\ DOMAIN DiffText(t, u) = {1}
          /\ e.start \in Nat /\ e.end \in Nat /\ e.start <= e.end /\ e.end <= Len(t)
          /\ e.base \in Seq(runes) /\ e.alt \in Seq(runes) /\ Len(e.base) = e.end - e.start
          /\ Replaced(e, t) = u
          /\ ~(e.base = <<>> /\ e.alt = <<>>)
          /\ e.end = 0 => e.base = <<>>
      <3>1. t \in Seq(runes) /\ u \in Seq(runes) /\ t # u
        BY <1>1, <1>3 DEF t, u
      <3> QED
        BY <3>1, DiffRebuilds, Zenon
    <2>2. /\ DOMAIN diffs = {1}
          /\ d.start \in Nat /\ d.end \in Nat /\ d.start <= d.end /\ d.end <= Len(q.text)
          /\ d.base \in Seq(runes) /\ d.alt \in Seq(runes) /\ Len(d.base) = d.end - d.start
          /\ Replaced(d, q.text) = p.text
          /\ ~(d.base = <<>> /\ d.alt = <<>>)
      BY <2>1, Zenon DEF t, u
    <2> HIDE DEF d, diffs
    <2>3. d.base = <<>> <=> d.start = d.end
      <3>1. d.base = <<>> <=> Len(d.base) = 0
        BY <2>2
      <3> QED
        BY <2>2, <3>1
    <2>4. /\ ClassifyDiff(d) \in {"word", "addition", "omission"}
          /\ ClassifyDiff(d) = "addition" <=> d.start = d.end
          /\ ClassifyDiff(d) = "omission" <=> d.alt = <<>>
      BY <2>2, <2>3 DEF ClassifyDiff
    <2>5. /\ v.passage = q.id /\ v.start = d.start /\ v.end = d.end /\ v.alt = d.alt
          /\ v.from = p.id /\ v.type = ClassifyDiff(d)
      OBVIOUS
    <2>6. v \in Proposals(runes, ids)
      BY <1>1, <2>2, <2>4 DEF Proposals, VariantTypes
    <2>7. DiffProposals(q, p) = <<v>>
      <3>1. {1} = 1 .. 1
        OBVIOUS
      <3>2. DiffProposals(q, p) = [i \in 1 .. 1 |-> v]
        BY <2>2, <3>1 DEF DiffProposals, diffs, d
      <3> HIDE DEF v
      <3> QED
        BY <3>2
    <2> HIDE DEF v
    <2>8. Replaced(v, q.text) = Replaced(d, q.text)
      BY <2>5 DEF Replaced
    <2>9. IsDifference(v, q, p)
      BY <2>2, <2>4, <2>5, <2>8 DEF IsDifference
    <2>10. <<v>>[1] = v
      OBVIOUS
    <2> QED
      BY <1>3, <2>6, <2>7, <2>9, <2>10
  <1> QED
    BY <1>2, <1>3

(* The proposals of a pair of passages fit. *)
LEMMA DiffProposalsFit ==
  ASSUME NEW runes, NEW ids, NEW base \in Seq(PassageItems(runes, ids)),
         NEW ws \in Seq(PassageItems(runes, ids)), NEW q \in ToSet(base), NEW p \in ToSet(ws)
  PROVE  DiffProposals(q, p) \in Seq(Fitting(runes, ids, base, ws))
  <1> DEFINE Good == Fitting(runes, ids, base, ws)
             v == DiffProposals(q, p)[1]
  <1>1. q \in PassageItems(runes, ids) /\ p \in PassageItems(runes, ids)
    BY DEF ToSet
  <1>2. CASE q.text = p.text
    <2>1. DiffProposals(q, p) = <<>>
      BY <1>1, <1>2, DifferenceIs
    <2> QED
      BY <2>1
  <1>3. CASE q.text # p.text
    <2>1. DiffProposals(q, p) = <<v>> /\ v \in Proposals(runes, ids) /\ IsDifference(v, q, p)
      BY <1>1, <1>3, DifferenceIs
    <2> HIDE DEF v
    <2>2. v.alt # <<>> <=> v.type \in {"word", "addition"}
      BY <2>1 DEF IsDifference
    <2>3. IsWithin(v, base, ws)
      BY <2>1 DEF IsWithin, IsDifference
    <2>4. v \in Good
      BY <2>1, <2>2, <2>3 DEF Fitting
    <2> HIDE DEF Good
    <2>5. <<v>> \in Seq(Good)
      BY <2>4
    <2> QED
      BY <2>1, <2>5 DEF Good
  <1> QED
    BY <1>2, <1>3

(* A passage omitted or moved as a whole fits. *)
LEMMA WholePassageFits ==
  ASSUME NEW runes, NEW ids, NEW base \in Seq(PassageItems(runes, ids)), NEW ws,
         NEW q \in ToSet(base), NEW type \in {"movement", "omission"}
  PROVE  WholePassage(q, type) \in Fitting(runes, ids, base, ws)
  <1> DEFINE v == WholePassage(q, type)
  <1>1. q \in PassageItems(runes, ids)
    BY DEF ToSet
  <1>2. q.id \in ids /\ q.text \in Seq(runes) /\ Len(q.text) \in Nat /\ Len(q.text) > 0
    BY <1>1 DEF PassageItems
  <1>3. /\ v \in Proposals(runes, ids) /\ v.passage = q.id /\ v.start = 0 /\ v.end = Len(q.text)
        /\ v.alt = <<>> /\ v.type = type
    BY <1>2 DEF WholePassage, Proposals, VariantTypes
  <1> HIDE DEF v
  <1>4. IsWithin(v, base, ws)
    BY <1>2, <1>3 DEF IsWithin
  <1>5. v.type \notin {"word", "addition"}
    BY <1>3
  <1> QED
    BY <1>3, <1>4, <1>5 DEF Fitting, v

(* A passage the base does not have fits as an addition. *)
LEMMA ExtraPassageFits ==
  ASSUME NEW runes, NEW ids, NEW base, NEW ws \in Seq(PassageItems(runes, ids)), NEW p \in ToSet(ws)
  PROVE  ExtraPassage(p) \in Fitting(runes, ids, base, ws)
  <1> DEFINE v == ExtraPassage(p)
  <1>1. p \in PassageItems(runes, ids)
    BY DEF ToSet
  <1>2. /\ v \in Proposals(runes, ids) /\ v.passage = NoPassage /\ v.start = 0 /\ v.end = 0
        /\ v.alt = p.text /\ v.alt # <<>> /\ v.type = "addition" /\ v.from = p.id
    BY <1>1 DEF ExtraPassage, Proposals, VariantTypes, PassageItems
  <1> HIDE DEF v
  <1>3. IsExtra(v, ws)
    BY <1>2 DEF IsExtra
  <1> QED
    BY <1>2, <1>3 DEF Fitting, v

(* Whatever the base and the witness have, what AlignInterval proposes for *)
(* the witness fits: no proposal has a reading where it should have none   *)
(* or lacks one, and every reading, put in its place, gives the passage it *)
(* was taken from (interval.go, diff.go).                                  *)
THEOREM LociFitWitness ==
  ASSUME NEW runes, NEW ids,
         NEW base \in Seq(PassageItems(runes, ids)), NEW ws \in Seq(PassageItems(runes, ids))
  PROVE  AlignWitness(base, ws) \in Seq(Fitting(runes, ids, base, ws))
  <1> DEFINE Good == Fitting(runes, ids, base, ws)
             extra == SubSeq(ws, Len(base) + 1, Len(ws))
             missing == SubSeq(base, Len(ws) + 1, Len(base))
             paired == [i \in 1 .. Paired(base, ws) |-> DiffProposals(base[i], ws[i])]
             extras == [i \in DOMAIN extra |-> ExtraPassage(extra[i])]
             misses == [i \in DOMAIN missing |-> WholePassage(missing[i], "omission")]
  <1> HIDE DEF Good
  <1>1. /\ Len(base) \in Nat /\ Len(ws) \in Nat
        /\ \A i \in 1 .. Len(base) : base[i] \in ToSet(base)
        /\ \A i \in 1 .. Len(ws) : ws[i] \in ToSet(ws)
    BY DEF ToSet
  <1>2. CASE IsMovement(base, ws)
    <2>1. Len(base) > 1
      BY <1>2 DEF IsMovement
    <2>2. base[1] \in ToSet(base)
      BY <1>1, <2>1
    <2>3. WholePassage(base[1], "movement") \in Good
      BY <2>2, WholePassageFits DEF Good
    <2> QED
      BY <1>2, <2>3 DEF AlignWitness, Good
  <1>3. CASE ~IsMovement(base, ws)
    <2>1. FlattenSeq(paired) \in Seq(Good)
      <3>1. Paired(base, ws) \in Nat /\ Paired(base, ws) <= Len(base) /\ Paired(base, ws) <= Len(ws)
        BY <1>1 DEF Paired
      <3>2. \A i \in 1 .. Paired(base, ws) : DiffProposals(base[i], ws[i]) \in Seq(Good)
        <4> TAKE i \in 1 .. Paired(base, ws)
        <4>1. base[i] \in ToSet(base) /\ ws[i] \in ToSet(ws)
          BY <1>1, <3>1
        <4> QED
          BY <4>1, DiffProposalsFit DEF Good
      <3>3. paired \in Seq(Seq(Good))
        BY <3>1, <3>2
      <3> HIDE DEF paired
      <3> QED
        BY <3>3, FlattenKeeps
    <2>2. extras \in Seq(Good)
      <3>1. extra \in Seq(PassageItems(runes, ids)) /\ \A i \in DOMAIN extra : extra[i] \in ToSet(ws)
        <4>1. CASE Len(base) <= Len(ws)
          <5>1. /\ extra \in Seq(PassageItems(runes, ids)) /\ Len(extra) = Len(ws) - Len(base)
                /\ \A i \in 1 .. Len(ws) - Len(base) : extra[i] = ws[Len(base) + i]
            BY <1>1, <4>1, SubSeqAt
          <5> HIDE DEF extra
          <5> QED
            BY <1>1, <4>1, <5>1
        <4>2. CASE ~(Len(base) <= Len(ws))
          <5>1. extra = <<>>
            BY <1>1, <4>2
          <5> HIDE DEF extra
          <5> QED
            BY <5>1
        <4> QED
          BY <4>1, <4>2
      <3> HIDE DEF extra
      <3>2. \A i \in DOMAIN extra : ExtraPassage(extra[i]) \in Good
        BY <3>1, ExtraPassageFits DEF Good
      <3> QED
        BY <3>1, <3>2
    <2>3. misses \in Seq(Good)
      <3>1. missing \in Seq(PassageItems(runes, ids)) /\ \A i \in DOMAIN missing : missing[i] \in ToSet(base)
        <4>1. CASE Len(ws) <= Len(base)
          <5>1. /\ missing \in Seq(PassageItems(runes, ids)) /\ Len(missing) = Len(base) - Len(ws)
                /\ \A i \in 1 .. Len(base) - Len(ws) : missing[i] = base[Len(ws) + i]
            BY <1>1, <4>1, SubSeqAt
          <5> HIDE DEF missing
          <5> QED
            BY <1>1, <4>1, <5>1
        <4>2. CASE ~(Len(ws) <= Len(base))
          <5>1. missing = <<>>
            BY <1>1, <4>2
          <5> HIDE DEF missing
          <5> QED
            BY <5>1
        <4> QED
          BY <4>1, <4>2
      <3> HIDE DEF missing
      <3>2. \A i \in DOMAIN missing : WholePassage(missing[i], "omission") \in Good
        BY <3>1, WholePassageFits DEF Good
      <3> QED
        BY <3>1, <3>2
    <2>4. AlignWitness(base, ws) = FlattenSeq(paired) \o extras \o misses
      BY <1>3, Zenon DEF AlignWitness
    <2> HIDE DEF paired, extras, misses
    <2>5. FlattenSeq(paired) \o extras \o misses \in Seq(Good)
      BY <2>1, <2>2, <2>3, ThreeParts
    <2> QED
      BY <2>4, <2>5 DEF Good
  <1> QED
    BY <1>2, <1>3

-----------------------------------------------------------------------------
(* Which proposal is about which passage. *)

InOrder(ps) == \A i \in DOMAIN ps : ps[i].ordinal = i
DistinctIds(ps) == \A i, j \in DOMAIN ps : ps[i].id = ps[j].id => i = j

(* Passage i of the base is paired with passage i of the witness, if there *)
(* is one, and is otherwise omitted.                                       *)
IsAbout(v, base, ws, i) ==
    IF i <= Len(ws)
    THEN base[i].text # ws[i].text /\ DiffProposals(base[i], ws[i]) = <<v>>
    ELSE v = WholePassage(base[i], "omission")

(* Where both lists are in the order of their ordinals, nothing has moved. *)
LEMMA NoMovement ==
  ASSUME NEW base, NEW ws, InOrder(base), InOrder(ws), NEW T, base \in Seq(T), ws \in Seq(T)
  PROVE  ~IsMovement(base, ws)
  <1>1. ASSUME Len(ws) = Len(base), NEW i \in DOMAIN base
        PROVE  base[i].ordinal = ws[i].ordinal
    <2>1. i \in DOMAIN ws
      BY <1>1
    <2> QED
      BY <2>1 DEF InOrder
  <1> QED
    BY <1>1 DEF IsMovement, OrderDiffers

(* Each base passage that the witness has otherwise has one proposal, no   *)
(* proposal is about another, and the others are about no passage.         *)
LEMMA AlignedOne ==
  ASSUME NEW runes, NEW ids, NoPassage \notin ids,
         NEW base \in Seq(PassageItems(runes, ids)), NEW ws \in Seq(PassageItems(runes, ids)),
         InOrder(base), InOrder(ws), DistinctIds(base)
  PROVE  LET vs == AlignWitness(base, ws) IN
         /\ \A k \in DOMAIN vs :
              \/ vs[k].passage = NoPassage
              \/ \E i \in DOMAIN base : vs[k].passage = base[i].id /\ IsAbout(vs[k], base, ws, i)
         /\ \A i \in DOMAIN base :
              \/ i <= Len(ws) /\ base[i].text = ws[i].text
              \/ \E k \in DOMAIN vs : vs[k].passage = base[i].id
         /\ \A k, l \in DOMAIN vs : vs[k].passage = vs[l].passage /\ vs[k].passage # NoPassage => k = l
  <1> DEFINE vs == AlignWitness(base, ws)
             P == PassageItems(runes, ids)
             n == Len(base)
             m == Len(ws)
             extra == SubSeq(ws, n + 1, m)
             missing == SubSeq(base, m + 1, n)
             paired == [i \in 1 .. Paired(base, ws) |-> DiffProposals(base[i], ws[i])]
             flat == FlattenSeq(paired)
             extras == [i \in DOMAIN extra |-> ExtraPassage(extra[i])]
             misses == [i \in DOMAIN missing |-> WholePassage(missing[i], "omission")]
             V == Proposals(runes, ids)
             both == Paired(base, ws)
             O == {s \in Seq(V) : Len(s) <= 1}
  <1>1. vs = flat \o extras \o misses
    <2>1. ~IsMovement(base, ws)
      BY NoMovement
    <2> QED
      BY <2>1, Zenon DEF AlignWitness
  <1>2. /\ n \in Nat /\ m \in Nat /\ n = Len(base) /\ m = Len(ws) /\ DOMAIN base = 1 .. n /\ DOMAIN ws = 1 .. m
        /\ both \in Nat /\ both <= n /\ both <= m /\ (both = n \/ both = m)
        /\ \A i \in 1 .. n : base[i] \in P
        /\ \A i \in 1 .. m : ws[i] \in P
        /\ base \in Seq(P) /\ ws \in Seq(P)
    BY DEF Paired
  <1> HIDE DEF vs, flat, extras, misses, both, V, O, P, n, m
  <1>3. /\ extras \in Seq(V) /\ Len(extras) = m - both
        /\ \A i \in 1 .. m - both : extras[i].passage = NoPassage
    <2>1. CASE n <= m
      <3>1. both = n
        BY <1>2, <2>1
      <3>2. /\ extra \in Seq(P) /\ Len(extra) = m - both
        BY <1>2, <2>1, <3>1, SubSeqAt
      <3> HIDE DEF extra
      <3>3. DOMAIN extra = 1 .. m - both /\ m - both \in Nat
        BY <1>2, <3>2
      <3>4. \A i \in 1 .. m - both : ExtraPassage(extra[i]) \in V /\ ExtraPassage(extra[i]).passage = NoPassage
        <4> TAKE i \in 1 .. m - both
        <4>1. extra[i] \in P
          BY <3>2, <3>3
        <4> QED
          BY <4>1 DEF P, V, Proposals, VariantTypes, ExtraPassage, PassageItems
      <3> QED
        BY <3>3, <3>4 DEF extras
    <2>2. CASE ~(n <= m)
      <3>1. extra = <<>> /\ both = m
        BY <1>2, <2>2
      <3> HIDE DEF extra
      <3>2. extras = <<>>
        BY <3>1 DEF extras
      <3> QED
        BY <1>2, <3>1, <3>2
    <2> QED
      BY <2>1, <2>2
  <1>4. /\ misses \in Seq(V) /\ Len(misses) = n - both
        /\ \A i \in 1 .. n - both : misses[i] = WholePassage(base[both + i], "omission")
    <2>1. CASE m <= n
      <3>1. both = m
        BY <1>2, <2>1
      <3>2. /\ missing \in Seq(P) /\ Len(missing) = n - both
            /\ \A i \in 1 .. n - both : missing[i] = base[both + i]
        BY <1>2, <2>1, <3>1, SubSeqAt
      <3> HIDE DEF missing
      <3>3. DOMAIN missing = 1 .. n - both /\ n - both \in Nat
        BY <1>2, <3>2
      <3>4. \A i \in 1 .. n - both : WholePassage(missing[i], "omission") \in V
        <4> TAKE i \in 1 .. n - both
        <4>1. missing[i] \in P
          BY <3>2, <3>3
        <4> QED
          BY <4>1 DEF P, V, Proposals, VariantTypes, WholePassage, PassageItems
      <3>5. misses = [i \in 1 .. n - both |-> WholePassage(missing[i], "omission")]
        BY <3>3 DEF misses
      <3>6. \A i \in 1 .. n - both : misses[i] = WholePassage(base[both + i], "omission")
        BY <3>2, <3>5
      <3> HIDE DEF misses
      <3>7. misses \in Seq(V) /\ Len(misses) = n - both
        BY <3>3, <3>4, <3>5
      <3> QED
        BY <3>6, <3>7
    <2>2. CASE ~(m <= n)
      <3>1. missing = <<>> /\ both = n
        BY <1>2, <2>2
      <3> HIDE DEF missing
      <3>2. misses = <<>>
        BY <3>1 DEF misses
      <3> QED
        BY <1>2, <3>1, <3>2
    <2> QED
      BY <2>1, <2>2
  <1>5. ASSUME NEW i \in 1 .. both
        PROVE  LET ds == DiffProposals(base[i], ws[i]) IN
               /\ ds \in O
               /\ base[i].text = ws[i].text => ds = <<>>
               /\ base[i].text # ws[i].text => ds = <<ds[1]>> /\ ds[1].passage = base[i].id
    <2> DEFINE ds == DiffProposals(base[i], ws[i])
               v == ds[1]
    <2>1. base[i] \in P /\ ws[i] \in P
      BY <1>2
    <2>2. CASE base[i].text = ws[i].text
      <3>1. ds = <<>>
        BY <2>1, <2>2, DifferenceIs DEF P
      <3>2. <<>> \in O
        BY DEF O
      <3> QED
        BY <2>2, <3>1, <3>2
    <2>3. CASE base[i].text # ws[i].text
      <3>1. ds = <<v>> /\ v \in V /\ v.passage = base[i].id
        BY <2>1, <2>3, DifferenceIs DEF IsDifference, V, P
      <3> HIDE DEF v
      <3>2. <<v>> \in O
        BY <3>1 DEF O
      <3> QED
        BY <2>3, <3>1, <3>2 DEF v
    <2> QED
      BY <2>2, <2>3
  <1>6. /\ paired \in Seq(O) /\ paired \in Seq(Seq(V)) /\ Len(paired) = both
        /\ \A i \in 1 .. both : paired[i] = DiffProposals(base[i], ws[i])
    <2>1. \A i \in 1 .. both : DiffProposals(base[i], ws[i]) \in O
      BY <1>5
    <2>2. paired \in Seq(O) /\ Len(paired) = both
      BY <1>2, <2>1 DEF both
    <2>3. O \in SUBSET Seq(V)
      BY DEF O
    <2>4. paired \in Seq(Seq(V))
      <3> HIDE DEF paired
      <3> QED
        BY <2>2, <2>3
    <2> QED
      BY <2>2, <2>4 DEF both
  <1> HIDE DEF paired
  <1>7. flat \in Seq(V) /\ \E at : Places(paired, at)
    BY <1>6, FlattenKeeps, FlattenPlaces DEF O, flat
  <1> DEFINE f == Len(flat)
             e == m - both
  <1>8. PICK at : /\ \A k \in 1 .. f : at[k] \in 1 .. both /\ paired[at[k]] = <<flat[k]>>
                  /\ \A k, l \in 1 .. f : k < l => at[k] < at[l]
                  /\ \A i \in 1 .. both : paired[i] # <<>> => \E k \in 1 .. f : at[k] = i
    BY <1>6, <1>7 DEF Places, flat
  <1>9. f \in Nat /\ e \in Nat
    BY <1>2, <1>7
  <1>10. /\ vs \in Seq(V) /\ Len(vs) = f + e + (n - both)
         /\ \A k \in 1 .. Len(vs) :
              vs[k] = IF k <= f THEN flat[k] ELSE IF k <= f + e THEN extras[k - f] ELSE misses[k - f - e]
    <2> DEFINE whole == flat \o extras \o misses
    <2>1. flat \in Seq(V) /\ extras \in Seq(V) /\ misses \in Seq(V)
      BY <1>3, <1>4, <1>7
    <2>2. /\ whole \in Seq(V) /\ Len(whole) = Len(flat) + Len(extras) + Len(misses)
          /\ \A k \in 1 .. Len(whole) :
               whole[k] = IF k <= Len(flat) THEN flat[k]
                          ELSE IF k <= Len(flat) + Len(extras) THEN extras[k - Len(flat)]
                          ELSE misses[k - Len(flat) - Len(extras)]
      BY <2>1, ThreeParts
    <2> HIDE DEF whole
    <2>3. vs = whole
      BY <1>1 DEF whole
    <2> QED
      BY <1>3, <1>4, <2>2, <2>3
  <1>11. DOMAIN vs = 1 .. Len(vs)
    BY <1>10
  <1> HIDE DEF f, e
  <1>12. ASSUME NEW k \in 1 .. f
         PROVE  /\ at[k] \in 1 .. both /\ at[k] \in 1 .. n /\ vs[k].passage = base[at[k]].id
                /\ IsAbout(vs[k], base, ws, at[k])
    <2>1. k \in 1 .. Len(vs) /\ vs[k] = flat[k]
      <3>1. Len(vs) = f + e + (n - both)
        BY <1>10
      <3>2. k \in 1 .. Len(vs) /\ k <= f
        BY <1>2, <1>9, <3>1
      <3> QED
        BY <1>10, <3>2
    <2>2. at[k] \in 1 .. both /\ paired[at[k]] = <<flat[k]>> /\ at[k] \in 1 .. n /\ at[k] <= m
      <3>1. at[k] \in 1 .. both /\ paired[at[k]] = <<flat[k]>>
        BY <1>8
      <3> QED
        BY <1>2, <3>1
    <2>3. DiffProposals(base[at[k]], ws[at[k]]) = <<vs[k]>>
      BY <1>6, <2>1, <2>2
    <2>4. base[at[k]].text # ws[at[k]].text
      BY <1>5, <2>2, <2>3
    <2>5. <<vs[k]>>[1] = vs[k]
      OBVIOUS
    <2>6. vs[k].passage = base[at[k]].id
      BY <1>5, <2>2, <2>3, <2>4, <2>5
    <2> QED
      BY <2>2, <2>3, <2>4, <2>6 DEF IsAbout, m
  <1>13. ASSUME NEW k \in 1 .. Len(vs), f < k, k <= f + e
         PROVE  vs[k].passage = NoPassage
    <2>1. k - f \in 1 .. m - both /\ vs[k] = extras[k - f]
      BY <1>2, <1>9, <1>10, <1>13 DEF e
    <2> QED
      BY <1>3, <2>1
  <1>14. ASSUME NEW k \in 1 .. Len(vs), f + e < k
         PROVE  LET i == both + (k - f - e) IN
                /\ i \in 1 .. n /\ both < i /\ vs[k].passage = base[i].id
                /\ IsAbout(vs[k], base, ws, i)
    <2> DEFINE j == k - f - e
    <2>1. j \in 1 .. n - both /\ vs[k] = misses[j]
      BY <1>2, <1>9, <1>10, <1>14
    <2> HIDE DEF j
    <2>2. vs[k] = WholePassage(base[both + j], "omission")
      BY <1>4, <2>1
    <2>3. both + j \in 1 .. n /\ both < both + j /\ ~(both + j <= m)
      BY <1>2, <2>1
    <2>4. vs[k].passage = base[both + j].id
      BY <2>2 DEF WholePassage
    <2> QED
      BY <2>2, <2>3, <2>4 DEF IsAbout, j, m
  <1> DEFINE to(k) == IF k <= f THEN at[k] ELSE both + (k - f - e)
  <1>15. ASSUME NEW k \in DOMAIN vs, vs[k].passage # NoPassage
         PROVE  /\ to(k) \in DOMAIN base /\ vs[k].passage = base[to(k)].id
                /\ IsAbout(vs[k], base, ws, to(k))
                /\ k <= f \/ f + e < k
    <2>1. k \in 1 .. Len(vs) /\ k \in Int
      BY <1>11
    <2>2. CASE k <= f
      <3>1. k \in 1 .. f
        BY <1>9, <2>1, <2>2
      <3> QED
        BY <1>2, <1>12, <2>2, <3>1
    <2>3. CASE ~(k <= f)
      <3>1. f + e < k
        BY <1>9, <1>13, <1>15, <2>1, <2>3
      <3> QED
        BY <1>2, <1>14, <2>1, <2>3, <3>1
    <2> QED
      BY <2>2, <2>3
  <1>16. ASSUME NEW i \in DOMAIN base, ~(i <= m /\ base[i].text = ws[i].text)
         PROVE  \E k \in DOMAIN vs : vs[k].passage = base[i].id
    <2>1. CASE i <= both
      <3>1. i \in 1 .. both /\ i <= m
        BY <1>2, <2>1
      <3>2. base[i].text # ws[i].text
        BY <1>16, <3>1
      <3>3. paired[i] # <<>>
        <4> DEFINE v == DiffProposals(base[i], ws[i])[1]
        <4>1. paired[i] = <<v>>
          BY <1>5, <1>6, <3>1, <3>2
        <4> HIDE DEF v
        <4> QED
          BY <4>1
      <3>4. PICK k \in 1 .. f : at[k] = i
        BY <1>8, <3>1, <3>3
      <3>5. k \in DOMAIN vs
        BY <1>2, <1>9, <1>10, <1>11
      <3> QED
        BY <1>12, <3>4, <3>5
    <2>2. CASE ~(i <= both)
      <3> DEFINE k == f + e + (i - both)
      <3>1. k \in 1 .. Len(vs) /\ f + e < k /\ both + (k - f - e) = i
        <4>1. Len(vs) = f + e + (n - both)
          BY <1>10
        <4>2. i \in 1 .. n /\ both < i
          BY <1>2, <2>2
        <4>3. i \in Int /\ both \in Int /\ n \in Int /\ i <= n /\ f \in Nat /\ e \in Nat
          BY <1>2, <1>9, <4>2
        <4>4. k \in Int /\ 1 <= k /\ k <= Len(vs)
          BY <4>1, <4>2, <4>3
        <4>5. f + e < k /\ both + (k - f - e) = i
          BY <4>2, <4>3
        <4> QED
          BY <4>1, <4>3, <4>4, <4>5
      <3> HIDE DEF k
      <3> QED
        BY <1>11, <1>14, <3>1
    <2> QED
      BY <2>1, <2>2
  <1>17. ASSUME NEW k \in DOMAIN vs, NEW l \in DOMAIN vs, vs[k].passage = vs[l].passage,
                vs[k].passage # NoPassage
         PROVE  k = l
    <2>1. /\ to(k) \in DOMAIN base /\ vs[k].passage = base[to(k)].id
          /\ to(l) \in DOMAIN base /\ vs[l].passage = base[to(l)].id
          /\ k <= f \/ f + e < k
          /\ l <= f \/ f + e < l
      <3> HIDE DEF to
      <3> QED
        BY <1>15, <1>17
    <2>2. to(k) = to(l)
      <3> HIDE DEF to
      <3> QED
        BY <1>17, <2>1 DEF DistinctIds
    <2>3. k \in Nat /\ l \in Nat /\ k >= 1 /\ l >= 1
      BY <1>11
    <2>4. CASE k <= f /\ l <= f
      <3>1. k \in 1 .. f /\ l \in 1 .. f /\ at[k] = at[l]
        BY <1>9, <2>2, <2>3, <2>4
      <3>2. at[k] \in 1 .. both /\ at[l] \in 1 .. both
        BY <1>8, <3>1
      <3>3. ~(at[k] < at[l]) /\ ~(at[l] < at[k])
        BY <1>2, <3>1, <3>2
      <3>4. ~(k < l) /\ ~(l < k)
        BY <1>8, <3>1, <3>3
      <3> QED
        BY <2>3, <3>4
    <2>5. CASE ~(k <= f) /\ ~(l <= f)
      BY <1>2, <1>9, <2>2, <2>3, <2>5
    <2>6. CASE k <= f /\ ~(l <= f)
      <3>1. k \in 1 .. f /\ at[k] = both + (l - f - e) /\ f + e < l
        BY <1>9, <2>1, <2>2, <2>3, <2>6
      <3>2. at[k] \in 1 .. both
        BY <1>8, <3>1
      <3> QED
        BY <1>2, <1>9, <2>3, <3>1, <3>2
    <2>7. CASE ~(k <= f) /\ l <= f
      <3>1. l \in 1 .. f /\ at[l] = both + (k - f - e) /\ f + e < k
        BY <1>9, <2>1, <2>2, <2>3, <2>7
      <3>2. at[l] \in 1 .. both
        BY <1>8, <3>1
      <3> QED
        BY <1>2, <1>9, <2>3, <3>1, <3>2
    <2> QED
      BY <2>4, <2>5, <2>6, <2>7
  <1> HIDE DEF to
  <1>18. \A k \in DOMAIN vs :
           \/ vs[k].passage = NoPassage
           \/ \E i \in DOMAIN base : vs[k].passage = base[i].id /\ IsAbout(vs[k], base, ws, i)
    BY <1>15
  <1> QED
    BY <1>16, <1>17, <1>18 DEF vs, m

(* The movements of a base whose passages are all linked. *)
LEMMA MovementsAre ==
  ASSUME NEW T, NEW base \in Seq(T), NEW link,
         \A i \in DOMAIN base : base[i].id \in DOMAIN link
  PROVE  LET edges == DetectMovements(base, link)
             n == Len(base) IN
         /\ DOMAIN edges = 1 .. n - 1
         /\ Len(edges) = IF n = 0 THEN 0 ELSE n - 1
         /\ \A i \in 1 .. n - 1 :
              edges[i] = [from |-> base[i].id, to |-> base[i + 1].id,
                          inverted |-> Inverted(link[base[i].id], link[base[i + 1].id])]
  <1> DEFINE edges == DetectMovements(base, link)
             n == Len(base)
             m == IF n = 0 THEN 0 ELSE n - 1
             Edge(i) == [from |-> base[i].id, to |-> base[i + 1].id,
                         inverted |-> Inverted(link[base[i].id], link[base[i + 1].id])]
             E == {Edge(i) : i \in 1 .. m}
             One(i) == <<Edge(i)>>
             ss == [i \in 1 .. m |-> One(i)]
  <1>1. n \in Nat /\ m \in Nat /\ DOMAIN base = 1 .. n /\ 1 .. n - 1 = 1 .. m
        /\ \A i \in 1 .. m : i \in 1 .. n /\ i + 1 \in 1 .. n
    OBVIOUS
  <1> HIDE DEF m
  <1>2. edges = FlattenSeq(ss)
    <2>1. \A i \in 1 .. m : {base[i].id, base[i + 1].id} \subseteq DOMAIN link
      BY <1>1
    <2> HIDE DEF n
    <2>2. edges = FlattenSeq([i \in 1 .. m |->
                    IF {base[i].id, base[i + 1].id} \subseteq DOMAIN link THEN <<Edge(i)>> ELSE <<>>])
      BY <1>1 DEF DetectMovements, n
    <2> DEFINE tt == [i \in 1 .. m |->
                       IF {base[i].id, base[i + 1].id} \subseteq DOMAIN link THEN <<Edge(i)>> ELSE <<>>]
    <2> HIDE DEF Edge
    <2>3. tt = ss
      BY <2>1
    <2> HIDE DEF tt, ss, edges
    <2>4. edges = FlattenSeq(tt)
      BY <2>2 DEF tt
    <2> QED
      BY <2>3, <2>4
  <1>3. \A i \in 1 .. m : Edge(i) \in E
    OBVIOUS
  <1> HIDE DEF E, Edge, edges
  <1>4. ss \in Seq({s \in Seq(E) : Len(s) = 1}) /\ Len(ss) = m /\ \A i \in 1 .. m : ss[i] = <<Edge(i)>>
    <2> DEFINE O == {s \in Seq(E) : Len(s) = 1}
    <2>1. \A i \in 1 .. m : One(i) \in O
      BY <1>3
    <2> HIDE DEF O, One
    <2>2. m \in Nat
      BY <1>1
    <2>3. ss \in Seq(O) /\ Len(ss) = m /\ \A i \in 1 .. m : ss[i] = One(i)
      BY <2>1, <2>2
    <2> HIDE DEF ss
    <2> QED
      BY <2>3 DEF O, One
  <1> HIDE DEF ss
  <1>5. /\ Len(edges) = m
        /\ \A i \in 1 .. m : ss[i] = <<edges[i]>>
    BY <1>2, <1>4, FlattenSingles
  <1>6. edges \in Seq(E)
    <2>1. ss \in Seq(Seq(E))
      <3>1. {s \in Seq(E) : Len(s) = 1} \subseteq Seq(E)
        OBVIOUS
      <3> DEFINE O == {s \in Seq(E) : Len(s) = 1}
                 S == Seq(E)
      <3>2. ss \in Seq(O) /\ O \subseteq S
        BY <1>4, <3>1
      <3> HIDE DEF O, S
      <3>3. ss \in Seq(S)
        BY <3>2
      <3> QED
        BY <3>3 DEF S
    <2> QED
      BY <1>2, <2>1, FlattenKeeps
  <1>7. \A i \in 1 .. m : edges[i] = Edge(i)
    <2> SUFFICES ASSUME NEW i \in 1 .. m
                 PROVE  edges[i] = Edge(i)
      OBVIOUS
    <2> DEFINE a == edges[i]
               b == Edge(i)
    <2>1. <<a>> = <<b>>
      BY <1>4, <1>5
    <2> HIDE DEF a, b
    <2>2. a = b
      BY <2>1
    <2> QED
      BY <2>2 DEF a, b
  <1>8. DOMAIN edges = 1 .. m
    <2>1. DOMAIN edges = 1 .. Len(edges)
      BY <1>6
    <2> QED
      BY <1>5, <2>1
  <1> HIDE DEF n
  <1> QED
    BY <1>1, <1>5, <1>7, <1>8 DEF m, n, edges, Edge

-----------------------------------------------------------------------------
(* The loops over runes, words and blocks, each with what it knows besides *)
(* its state and its item.                                                 *)
Scanning == INSTANCE FoldProofs WITH Op <- LAMBDA c, acc, r : Scan(acc, r)
Joining == INSTANCE FoldProofs WITH Op <- Join
Splitting == INSTANCE FoldProofs WITH Op <- LAMBDA c, acc, r : Split(acc, r)
Counting == INSTANCE FoldProofs WITH Op <- LAMBDA c, acc, r : Count(acc, r)
Segmenting == INSTANCE FoldProofs WITH Op <- Segment

-----------------------------------------------------------------------------
(* Words.  Scanned is the state of strings.Fields after a text. *)

Letters(runes) == {r \in runes : ~IsSpace(r)}
WordsOver(runes) == Seq(Letters(runes)) \ {<<>>}

NoWords == [words |-> <<>>, open |-> FALSE]
ScanStates(runes) ==
    {s \in [words : Seq(WordsOver(runes)), open : BOOLEAN] : s.open => s.words # <<>>}
Scanned(t) == Scanning!Fold(0, NoWords, t)

(* The words of a text are those of its scan. *)
LEMMA FieldsScanned ==
  ASSUME NEW t
  PROVE  Fields(t) = Scanned(t).words
  BY DEF Fields, FoldLeft, MapThenFoldSet, Max, Scanned, NoWords, Scanning!Fold, Scanning!FoldLeft,
         Scanning!MapThenFoldSet, Scanning!Max

(* Nothing is scanned into no words. *)
LEMMA ScannedNothing == Scanned(<<>>) = NoWords
  BY Scanning!FoldNothing DEF Scanned

(* A rune more is a step of the scan more. *)
LEMMA ScannedAppend ==
  ASSUME NEW T, NEW t \in Seq(T), NEW r \in T
  PROVE  Scanned(Append(t, r)) = Scan(Scanned(t), r)
  BY Scanning!FoldStep DEF Scanned

(* A scan's state: the words so far, the last still growing or not. *)
LEMMA ScanKeeps ==
  ASSUME NEW runes, NEW acc \in ScanStates(runes), NEW r \in runes
  PROVE  Scan(acc, r) \in ScanStates(runes)
  <1> DEFINE W == WordsOver(runes)
  <1>1. acc \in [words : Seq(W), open : BOOLEAN] /\ (acc.open => acc.words # <<>>)
    BY DEF ScanStates
  <1>2. \A w \in W, l \in Letters(runes) : Append(w, l) \in W
    BY DEF WordsOver
  <1>3. \A l \in Letters(runes) : <<l>> \in W
    BY DEF WordsOver
  <1>4. ~IsSpace(r) => r \in Letters(runes)
    BY DEF Letters
  <1> HIDE DEF W
  <1>5. CASE IsSpace(r)
    BY <1>1, <1>5 DEF Scan, ScanStates, W
  <1>6. CASE ~IsSpace(r) /\ acc.open
    <2> DEFINE n == Len(acc.words)
               more == [acc.words EXCEPT ![n] = Append(@, r)]
    <2>1. acc.words \in Seq(W) /\ n \in Nat /\ n > 0 /\ acc.words[n] \in W
      BY <1>1, <1>6
    <2>2. Append(acc.words[n], r) \in W
      BY <1>2, <1>4, <1>6, <2>1
    <2>3. more \in Seq(W) /\ more # <<>>
      BY <2>1, <2>2
    <2>4. Scan(acc, r) = [acc EXCEPT !.words = more]
      BY <1>6 DEF Scan
    <2> HIDE DEF more, n
    <2> QED
      BY <1>1, <2>3, <2>4 DEF ScanStates, W
  <1>7. CASE ~IsSpace(r) /\ ~acc.open
    <2>1. Scan(acc, r) = [words |-> Append(acc.words, <<r>>), open |-> TRUE]
      BY <1>7 DEF Scan
    <2>2. <<r>> \in W
      BY <1>3, <1>4, <1>7
    <2> DEFINE word == <<r>>
    <2> HIDE DEF word
    <2>3. Append(acc.words, word) \in Seq(W) /\ Append(acc.words, word) # <<>>
      BY <1>1, <2>2 DEF word
    <2> QED
      BY <2>1, <2>3 DEF word, ScanStates, W
  <1> QED
    BY <1>5, <1>6, <1>7

(* Every text leaves a scan in one of its states. *)
LEMMA ScannedState ==
  ASSUME NEW runes
  PROVE  \A t \in Seq(runes) : Scanned(t) \in ScanStates(runes)
  <1> DEFINE A == {t \in Seq(runes) : Scanned(t) \in ScanStates(runes)}
  <1>1. <<>> \in A
    <2>1. NoWords \in ScanStates(runes)
      BY DEF NoWords, ScanStates
    <2> QED
      BY <2>1, ScannedNothing
  <1>2. ASSUME NEW t \in Seq(runes), t \in A, NEW r \in runes
        PROVE  Append(t, r) \in A
    BY <1>2, ScannedAppend, ScanKeeps
  <1> HIDE DEF A
  <1>3. \A t \in Seq(runes) : t \in A
    BY <1>1, <1>2, Appending
  <1> QED
    BY <1>3 DEF A

(* What a scan does to the words in front of its own: nothing. *)
Behind(ws, acc) == [words |-> ws \o acc.words, open |-> acc.open]

(* A step of a scan leaves the words behind it alone. *)
LEMMA ScanBehind ==
  ASSUME NEW runes, NEW ws \in Seq(WordsOver(runes)), NEW acc \in ScanStates(runes), NEW r \in runes
  PROVE  Scan(Behind(ws, acc), r) = Behind(ws, Scan(acc, r))
  <1> DEFINE W == WordsOver(runes)
             own == acc.words
  <1>1. own \in Seq(W) /\ acc.open \in BOOLEAN /\ (acc.open => own # <<>>)
        /\ acc = [words |-> own, open |-> acc.open]
    BY DEF ScanStates
  <1>2. ws \in Seq(W)
    OBVIOUS
  <1> HIDE DEF W, own
  <1>3. CASE IsSpace(r)
    BY <1>1, <1>2, <1>3 DEF Scan, Behind, own
  <1>4. CASE ~IsSpace(r) /\ acc.open
    <2> DEFINE last == Append(own[Len(own)], r)
               grown == [own EXCEPT ![Len(own)] = last]
    <2>1. own # <<>> /\ last \in W
      <3>1. own[Len(own)] \in W /\ r \in Letters(runes)
        BY <1>1, <1>4 DEF Letters
      <3> QED
        BY <1>1, <1>4, <3>1 DEF W, WordsOver
    <2>2. (ws \o own)[Len(ws \o own)] = own[Len(own)]
      BY <1>1, <1>2, <2>1, LastBehind
    <2> HIDE DEF last
    <2>3. [ws \o own EXCEPT ![Len(ws \o own)] = last] = ws \o grown
      BY <1>1, <1>2, <2>1, LastBehind
    <2>4. Scan(acc, r) = [words |-> grown, open |-> TRUE]
      BY <1>1, <1>4 DEF Scan, own, last
    <2>5. Scan([words |-> ws \o own, open |-> TRUE], r)
            = [words |-> [ws \o own EXCEPT ![Len(ws \o own)] = last], open |-> TRUE]
      BY <1>4, <2>2 DEF Scan, last
    <2> HIDE DEF grown
    <2>6. Behind(ws, acc) = [words |-> ws \o own, open |-> TRUE]
      BY <1>1, <1>4 DEF Behind, own
    <2>7. Behind(ws, Scan(acc, r)) = [words |-> ws \o grown, open |-> TRUE]
      BY <2>4 DEF Behind
    <2> QED
      BY <2>3, <2>5, <2>6, <2>7
  <1>5. CASE ~IsSpace(r) /\ ~acc.open
    <2> DEFINE word == <<r>>
    <2>1. word \in W
      BY <1>5 DEF W, WordsOver, Letters
    <2>2. Scan(acc, r) = [words |-> Append(own, word), open |-> TRUE]
      BY <1>5 DEF Scan, own
    <2>3. Behind(ws, acc) = [words |-> ws \o own, open |-> FALSE]
      BY <1>1, <1>5 DEF Behind, own
    <2>4. Scan([words |-> ws \o own, open |-> FALSE], r)
            = [words |-> Append(ws \o own, word), open |-> TRUE]
      BY <1>5 DEF Scan
    <2> HIDE DEF word
    <2>5. Behind(ws, Scan(acc, r)) = [words |-> ws \o Append(own, word), open |-> TRUE]
      BY <2>2 DEF Behind
    <2>6. Append(ws \o own, word) = ws \o Append(own, word)
      BY <1>1, <1>2, <2>1
    <2> QED
      BY <2>3, <2>4, <2>5, <2>6
  <1> QED
    BY <1>3, <1>4, <1>5

(* White space separates: what comes after it is scanned on its own. *)
LEMMA ScannedApart ==
  ASSUME NEW runes, NEW s \in Seq(runes), NEW b \in runes, IsSpace(b)
  PROVE  \A t \in Seq(runes) :
           Scanned(s \o <<b>> \o t) = Behind(Scanned(s).words, Scanned(t))
  <1> DEFINE front == s \o <<b>>
             ws == Scanned(s).words
             A == {t \in Seq(runes) : Scanned(front \o t) = Behind(ws, Scanned(t))}
  <1>1. front \in Seq(runes) /\ front = Append(s, b) /\ front \o <<>> = front
    OBVIOUS
  <1>2. ws \in Seq(WordsOver(runes)) /\ ws \o <<>> = ws /\ Scanned(s) \in ScanStates(runes)
    <2>1. Scanned(s) \in ScanStates(runes)
      BY ScannedState
    <2> QED
      BY <2>1 DEF ScanStates
  <1>3. Scanned(front) = [words |-> ws, open |-> FALSE]
    <2>1. Scanned(Append(s, b)) = Scan(Scanned(s), b)
      BY ScannedAppend
    <2> QED
      BY <1>1, <1>2, <2>1 DEF Scan, ScanStates
  <1> HIDE DEF front, ws
  <1>4. <<>> \in A
    <2>1. Scanned(<<>>).words = <<>> /\ Scanned(<<>>).open = FALSE
      BY ScannedNothing DEF NoWords
    <2>2. Behind(ws, Scanned(<<>>)) = [words |-> ws, open |-> FALSE]
      BY <1>2, <2>1 DEF Behind
    <2>3. <<>> \in Seq(runes) /\ Scanned(front \o <<>>) = Scanned(front)
      BY <1>1
    <2> QED
      BY <1>3, <2>2, <2>3
  <1>5. ASSUME NEW t \in Seq(runes), t \in A, NEW r \in runes
        PROVE  Append(t, r) \in A
    <2>1. front \o t \in Seq(runes) /\ front \o Append(t, r) = Append(front \o t, r)
          /\ Append(t, r) \in Seq(runes)
      BY <1>1
    <2>2. Scanned(front \o Append(t, r)) = Scan(Behind(ws, Scanned(t)), r)
      BY <1>5, <2>1, ScannedAppend
    <2>3. Scan(Behind(ws, Scanned(t)), r) = Behind(ws, Scan(Scanned(t), r))
      BY <1>2, ScannedState, ScanBehind
    <2>4. Scanned(Append(t, r)) = Scan(Scanned(t), r)
      BY ScannedAppend
    <2> QED
      BY <2>1, <2>2, <2>3, <2>4
  <1> HIDE DEF A
  <1>6. \A t \in Seq(runes) : t \in A
    BY <1>4, <1>5, Appending
  <1> QED
    BY <1>6 DEF A, front, ws

(* A word is scanned as itself. *)
LEMMA ScannedWord ==
  ASSUME NEW runes
  PROVE  \A w \in WordsOver(runes) : Scanned(w) = [words |-> <<w>>, open |-> TRUE]
  <1> DEFINE L == Letters(runes)
             A == {t \in Seq(L) :
                     Scanned(t) = IF t = <<>> THEN NoWords ELSE [words |-> <<t>>, open |-> TRUE]}
  <1>1. <<>> \in A
    BY ScannedNothing
  <1>2. ASSUME NEW t \in Seq(L), t \in A, NEW r \in L
        PROVE  Append(t, r) \in A
    <2>1. Scanned(Append(t, r)) = Scan(Scanned(t), r) /\ ~IsSpace(r)
          /\ Append(t, r) \in Seq(L) /\ Append(t, r) # <<>>
      BY ScannedAppend DEF Letters
    <2>2. CASE t = <<>>
      <3>1. Scan(NoWords, r) = [words |-> Append(<<>>, <<r>>), open |-> TRUE]
        BY <2>1 DEF Scan, NoWords
      <3>2. Append(<<>>, <<r>>) = <<Append(t, r)>>
        BY <2>2
      <3> QED
        BY <1>2, <2>1, <2>2, <3>1, <3>2
    <2>3. CASE t # <<>>
      <3>1. Scanned(t) = [words |-> <<t>>, open |-> TRUE]
        BY <1>2, <2>3
      <3>2. Scan([words |-> <<t>>, open |-> TRUE], r)
              = [words |-> [<<t>> EXCEPT ![1] = Append(t, r)], open |-> TRUE]
        BY <2>1 DEF Scan
      <3>3. [<<t>> EXCEPT ![1] = Append(t, r)] = <<Append(t, r)>>
        OBVIOUS
      <3> QED
        BY <2>1, <3>1, <3>2, <3>3
    <2> QED
      BY <2>2, <2>3
  <1> HIDE DEF A
  <1>3. \A t \in Seq(L) : t \in A
    BY <1>1, <1>2, Appending
  <1> QED
    BY <1>3 DEF A, WordsOver

(* White space around a text does not change its words. *)
LEMMA TrimKeepsWords ==
  ASSUME NEW runes, NEW t \in Seq(runes)
  PROVE  /\ TrimSpace(t) \in Seq(runes)
         /\ Fields(TrimSpace(t)) = Fields(t)
         /\ TrimSpace(t) # <<>> => ~IsSpace(TrimSpace(t)[1])
  <1> DEFINE n == Len(t)
             kept == {i \in 1 .. n : ~IsSpace(t[i])}
             lo == Min(kept)
             hi == Max(kept)
             Upto(k) == SubSeq(t, 1, k)
             Within(k) == SubSeq(t, lo, k)
  <1>1. n \in Nat /\ \A i \in 1 .. n : t[i] \in runes
    OBVIOUS
  <1>2. \A k \in 0 .. n - 1 : Upto(k) \in Seq(runes) /\ Upto(k + 1) = Append(Upto(k), t[k + 1])
    OBVIOUS
  <1>3. Upto(0) = <<>> /\ Upto(n) = t
    OBVIOUS
  <1> HIDE DEF n, Upto
  <1>4. \A k \in 0 .. n - 1 : Scanned(Upto(k + 1)) = Scan(Scanned(Upto(k)), t[k + 1])
                               /\ Scanned(Upto(k)) \in ScanStates(runes)
    <2> TAKE k \in 0 .. n - 1
    <2>1. t[k + 1] \in runes
      BY <1>1
    <2> QED
      BY <1>2, <2>1, ScannedAppend, ScannedState
  <1>5. CASE kept = {}
    <2> DEFINE M == {k \in Nat : k <= n => Scanned(Upto(k)) = NoWords}
    <2>1. 0 \in M
      BY <1>3, ScannedNothing
    <2>2. ASSUME NEW k \in M
          PROVE  k + 1 \in M
      <3> SUFFICES ASSUME k + 1 <= n
                   PROVE  Scanned(Upto(k + 1)) = NoWords
        BY <2>2
      <3>1. k \in 0 .. n - 1 /\ Scanned(Upto(k)) = NoWords
        BY <1>1, <2>2
      <3>2. IsSpace(t[k + 1])
        <4>1. k + 1 \in 1 .. n
          BY <1>1, <2>2
        <4> QED
          BY <1>5, <4>1
      <3>3. Scan(NoWords, t[k + 1]) = NoWords
        BY <3>2 DEF Scan, NoWords
      <3> QED
        BY <1>4, <3>1, <3>3
    <2>3. M = Nat
      <3> HIDE DEF M
      <3>1. M \in SUBSET Nat
        BY DEF M
      <3> QED
        BY <2>1, <2>2, <3>1, Induction
    <2>4. Scanned(t) = NoWords
      BY <1>1, <1>3, <2>3
    <2>5. TrimSpace(t) = <<>>
      BY <1>5 DEF TrimSpace, n
    <2> QED
      BY <2>4, <2>5, ScannedNothing, FieldsScanned
  <1>6. CASE kept # {}
    <2>1. /\ lo \in kept /\ \A i \in kept : lo <= i
          /\ hi \in kept /\ \A i \in kept : i <= hi
      <3>1. kept \in SUBSET (1 .. n)
        OBVIOUS
      <3> HIDE DEF kept
      <3> QED
        BY <1>1, <1>6, <3>1, Extremes
    <2> HIDE DEF lo, hi
    <2>2. lo \in 1 .. n /\ hi \in 1 .. n /\ lo <= hi /\ ~IsSpace(t[lo])
      BY <2>1
    <2>3. \A i \in 1 .. n : i < lo \/ i > hi => IsSpace(t[i])
      BY <1>1, <2>1, <2>2
    <2>4. /\ Within(hi) \in Seq(runes) /\ Within(hi) # <<>> /\ Within(hi)[1] = t[lo]
          /\ \A k \in 0 .. n : k < lo => Within(k) = <<>>
          /\ \A k \in 0 .. n - 1 : lo <= k + 1 =>
               Within(k) \in Seq(runes) /\ Within(k + 1) = Append(Within(k), t[k + 1])
      <3>1. Within(hi) \in Seq(runes) /\ Within(hi) # <<>> /\ Within(hi)[1] = t[lo]
        BY <2>2 DEF n
      <3>2. \A k \in 0 .. n : k < lo => Within(k) = <<>>
        BY <2>2 DEF n
      <3>3. ASSUME NEW k \in 0 .. n - 1, lo <= k + 1
            PROVE  Within(k) \in Seq(runes) /\ Within(k + 1) = Append(Within(k), t[k + 1])
        BY <2>2, <3>3 DEF n
      <3> QED
        BY <3>1, <3>2, <3>3
    <2>5. TrimSpace(t) = Within(hi)
      BY <1>6 DEF TrimSpace, n, lo, hi
    <2> HIDE DEF Within, kept
    <2> DEFINE M == {k \in Nat : k <= hi => Scanned(Upto(k)) = Scanned(Within(k))}
    <2>6. M = Nat
      <3>1. 0 \in M
        <4>1. 0 \in 0 .. n /\ 0 < lo
          BY <1>1, <2>2
        <4> QED
          BY <1>3, <2>4, <4>1
      <3>2. ASSUME NEW k \in M
            PROVE  k + 1 \in M
        <4> SUFFICES ASSUME k + 1 <= hi
                     PROVE  Scanned(Upto(k + 1)) = Scanned(Within(k + 1))
          BY <3>2
        <4>1. k \in 0 .. n - 1 /\ k \in 0 .. n /\ k + 1 \in 0 .. n /\ k + 1 \in 1 .. n
              /\ Scanned(Upto(k)) = Scanned(Within(k)) /\ t[k + 1] \in runes
          BY <1>1, <2>2, <3>2
        <4>2. CASE k + 1 < lo
          <5>1. Within(k) = <<>> /\ Within(k + 1) = <<>> /\ IsSpace(t[k + 1])
            BY <1>1, <2>2, <2>3, <2>4, <4>1, <4>2
          <5>2. Scan(NoWords, t[k + 1]) = NoWords
            BY <5>1 DEF Scan, NoWords
          <5> QED
            BY <1>4, <4>1, <5>1, <5>2, ScannedNothing
        <4>3. CASE lo <= k + 1
          <5>1. Scanned(Within(k + 1)) = Scan(Scanned(Within(k)), t[k + 1])
            BY <2>4, <4>1, <4>3, ScannedAppend
          <5> QED
            BY <1>4, <4>1, <5>1
        <4> QED
          BY <1>1, <2>2, <4>1, <4>2, <4>3
      <3> HIDE DEF M
      <3>3. M \in SUBSET Nat
        BY DEF M
      <3> QED
        BY <3>1, <3>2, <3>3, Induction
    <2>7. Scanned(Upto(hi)) = Scanned(Within(hi))
      BY <1>1, <2>2, <2>6
    <2> DEFINE words == Scanned(Within(hi)).words
               K == {j \in Nat : hi + j <= n => Scanned(Upto(hi + j)).words = words}
    <2> HIDE DEF M
    <2>8. K = Nat
      <3>1. 0 \in K
        BY <1>1, <2>2, <2>7
      <3>2. ASSUME NEW j \in K
            PROVE  j + 1 \in K
        <4> SUFFICES ASSUME hi + j + 1 <= n
                     PROVE  Scanned(Upto(hi + (j + 1))).words = words
          BY <2>2, <3>2
        <4>1. /\ hi + j \in 0 .. n - 1 /\ hi + j + 1 \in 1 .. n /\ hi + j + 1 > hi
              /\ hi + (j + 1) = hi + j + 1 /\ Scanned(Upto(hi + j)).words = words
          BY <1>1, <2>2, <3>2
        <4>2. IsSpace(t[hi + j + 1])
          BY <2>3, <4>1
        <4>3. Scanned(Upto(hi + j + 1)) = Scan(Scanned(Upto(hi + j)), t[hi + j + 1])
              /\ Scanned(Upto(hi + j)) \in ScanStates(runes)
          BY <1>4, <4>1
        <4> QED
          BY <4>1, <4>2, <4>3 DEF Scan, ScanStates
      <3> HIDE DEF K
      <3>3. K \in SUBSET Nat
        BY DEF K
      <3> QED
        BY <3>1, <3>2, <3>3, Induction
    <2>9. Scanned(t).words = words
      <3>1. hi + (n - hi) = n /\ n <= n /\ n - hi \in Nat
        BY <1>1, <2>2
      <3> HIDE DEF K, words
      <3>2. n - hi \in K
        BY <2>8, <3>1
      <3> QED
        BY <1>3, <3>1, <3>2 DEF K
    <2> QED
      BY <2>2, <2>4, <2>5, <2>9, FieldsScanned
  <1> QED
    BY <1>5, <1>6

(* A text that is not all white space has a word. *)
LEMMA SomeWord ==
  ASSUME NEW runes
  PROVE  \A t \in Seq(runes) : (\E i \in 1 .. Len(t) : ~IsSpace(t[i])) => Fields(t) # <<>>
  <1> DEFINE A == {t \in Seq(runes) :
                     (\E i \in 1 .. Len(t) : ~IsSpace(t[i])) => Scanned(t).words # <<>>}
  <1>1. <<>> \in A
    OBVIOUS
  <1>2. ASSUME NEW t \in Seq(runes), t \in A, NEW r \in runes
        PROVE  Append(t, r) \in A
    <2>1. Scanned(Append(t, r)) = Scan(Scanned(t), r) /\ Scanned(t) \in ScanStates(runes)
          /\ Append(t, r) \in Seq(runes)
      BY ScannedAppend, ScannedState
    <2>2. CASE ~IsSpace(r)
      <3>1. Scan(Scanned(t), r).open
        BY <2>1, <2>2 DEF Scan, ScanStates
      <3>2. Scan(Scanned(t), r) \in ScanStates(runes)
        BY <2>1, ScanKeeps
      <3> QED
        BY <2>1, <3>1, <3>2 DEF ScanStates
    <2>3. CASE IsSpace(r)
      <3>1. ASSUME NEW i \in 1 .. Len(Append(t, r)), ~IsSpace(Append(t, r)[i])
            PROVE  i \in 1 .. Len(t) /\ ~IsSpace(t[i])
        <4>1. Append(t, r)[Len(t) + 1] = r /\ i \in 1 .. Len(t) + 1
              /\ (i # Len(t) + 1 => Append(t, r)[i] = t[i])
          OBVIOUS
        <4> QED
          BY <2>3, <3>1, <4>1
      <3>2. Scan(Scanned(t), r).words = Scanned(t).words
        BY <2>1, <2>3 DEF Scan, ScanStates
      <3> QED
        BY <1>2, <2>1, <3>1, <3>2
    <2> QED
      BY <2>2, <2>3
  <1> HIDE DEF A
  <1>3. \A t \in Seq(runes) : t \in A
    BY <1>1, <1>2, Appending
  <1> QED
    BY <1>3, FieldsScanned DEF A

-----------------------------------------------------------------------------
(* Texts joined. *)

(* Nothing joined is empty. *)
LEMMA JoinedNothing ==
  ASSUME NEW sep
  PROVE  Joined(<<>>, sep) = <<>>
  <1>1. Joined(<<>>, sep) = Joining!Fold(sep, <<>>, <<>>)
    BY DEF Joined, FoldLeft, MapThenFoldSet, Max, Joining!Fold, Joining!FoldLeft,
           Joining!MapThenFoldSet, Joining!Max
  <1> QED
    BY <1>1, Joining!FoldNothing

(* A text more is joined at the end. *)
LEMMA JoinedAppend ==
  ASSUME NEW sep, NEW T, NEW ts \in Seq(T), NEW t \in T
  PROVE  Joined(Append(ts, t), sep) = Join(sep, Joined(ts, sep), t)
  <1>1. \A all : Joined(all, sep) = Joining!Fold(sep, <<>>, all)
    BY DEF Joined, FoldLeft, MapThenFoldSet, Max, Joining!Fold, Joining!FoldLeft,
           Joining!MapThenFoldSet, Joining!Max
  <1>2. Joining!Fold(sep, <<>>, Append(ts, t)) = Join(sep, Joining!Fold(sep, <<>>, ts), t)
    BY Joining!FoldStep
  <1> QED
    BY <1>1, <1>2

(* The texts of passages: words with one space between them. *)
CleanTexts(runes) ==
    {t \in Seq(Letters(runes) \cup {Space}) :
        /\ t # <<>> /\ ~IsSpace(t[1]) /\ ~IsSpace(t[Len(t)])
        /\ Joined(Fields(t), <<Space>>) = t}

(* Words joined by single spaces have those words (strings.Join of         *)
(* Fields).                                                                *)
LEMMA JoinedWords ==
  ASSUME NEW runes, Space \in runes
  PROVE  \A ws \in Seq(WordsOver(runes)) :
           /\ Fields(Joined(ws, <<Space>>)) = ws
           /\ ws # <<>> => Joined(ws, <<Space>>) \in CleanTexts(runes)
  <1> DEFINE W == WordsOver(runes)
             R == Letters(runes) \cup {Space}
             J(ws) == Joined(ws, <<Space>>)
             Bounded(t) == t # <<>> /\ ~IsSpace(t[1]) /\ ~IsSpace(t[Len(t)])
             A == {ws \in Seq(W) : /\ J(ws) \in Seq(R) /\ Fields(J(ws)) = ws
                                   /\ ws # <<>> => Bounded(J(ws))
                                   /\ ws = <<>> => J(ws) = <<>>}
  <1>1. <<>> \in A
    <2>1. <<>> \in Seq(R) /\ <<>> \in Seq(W)
      OBVIOUS
    <2>2. Fields(<<>>) = <<>>
      BY FieldsScanned, ScannedNothing DEF NoWords
    <2> QED
      BY <2>1, <2>2, JoinedNothing
  <1>2. R \in SUBSET runes /\ IsSpace(Space) /\ Space \in R
    BY DEF Letters, IsSpace
  <1>3. ASSUME NEW w \in W
        PROVE  /\ w \in Seq(R) /\ w \in Seq(runes) /\ Bounded(w)
               /\ Scanned(w) = [words |-> <<w>>, open |-> TRUE]
    <2>1. w \in Seq(Letters(runes)) /\ w # <<>> /\ Len(w) \in Nat /\ Len(w) >= 1
      BY DEF WordsOver
    <2>2. \A i \in 1 .. Len(w) : w[i] \in Letters(runes)
      BY <2>1
    <2>3. w \in Seq(R) /\ w \in Seq(runes)
      BY <2>1, <2>2 DEF Letters
    <2>4. Bounded(w)
      BY <2>1, <2>2 DEF Letters
    <2> QED
      BY <2>3, <2>4, ScannedWord
  <1> HIDE DEF A, W, J, Bounded, R
  <1>4. ASSUME NEW ws \in Seq(W), ws \in A, NEW w \in W
        PROVE  Append(ws, w) \in A
    <2> DEFINE more == Append(ws, w)
    <2>0. /\ J(ws) \in Seq(R) /\ Fields(J(ws)) = ws
          /\ ws # <<>> => Bounded(J(ws))
          /\ ws = <<>> => J(ws) = <<>>
      BY <1>4 DEF A
    <2>1. more \in Seq(W) /\ more # <<>>
      <3>1. more \in Seq(W) /\ Len(more) = Len(ws) + 1 /\ Len(ws) \in Nat
        OBVIOUS
      <3> HIDE DEF more
      <3> QED
        BY <3>1
    <2>2. J(more) = Join(<<Space>>, J(ws), w)
      BY JoinedAppend DEF J
    <2>3. CASE ws = <<>>
      <3>1. J(more) = w /\ more = <<w>>
        BY <2>0, <2>2, <2>3 DEF Join
      <3>2. Fields(w) = <<w>>
        BY <1>3, FieldsScanned
      <3> HIDE DEF more
      <3> QED
        BY <1>3, <2>1, <3>1, <3>2 DEF A, more
    <2>4. CASE ws # <<>>
      <3> DEFINE front == J(ws)
      <3>1. front \in Seq(R) /\ Bounded(front) /\ front # <<>> /\ Fields(front) = ws
        BY <2>0, <2>4 DEF Bounded
      <3> HIDE DEF front
      <3>2. J(more) = front \o <<Space>> \o w
        BY <2>2, <3>1 DEF Join, front
      <3>3. J(more) \in Seq(R) /\ Bounded(J(more))
        <4> DEFINE all == front \o <<Space>> \o w
        <4>1. w \in Seq(R) /\ w # <<>> /\ <<Space>> \in Seq(R) /\ Len(<<Space>>) = 1
          BY <1>2, <1>3 DEF Bounded
        <4>2. /\ all \in Seq(R) /\ Len(all) = Len(front) + 1 + Len(w)
              /\ \A i \in 1 .. Len(all) :
                   all[i] = IF i <= Len(front) THEN front[i]
                            ELSE IF i <= Len(front) + 1 THEN <<Space>>[i - Len(front)]
                            ELSE w[i - Len(front) - 1]
          BY <3>1, <4>1, ThreeParts
        <4>3. Len(front) \in Nat /\ Len(front) >= 1 /\ Len(w) \in Nat /\ Len(w) >= 1
          BY <3>1, <4>1 DEF Bounded
        <4> HIDE DEF all
        <4>4. all[1] = front[1] /\ all[Len(all)] = w[Len(w)] /\ all # <<>>
          <5>1. 1 \in 1 .. Len(all) /\ 1 <= Len(front) /\ Len(all) \in 1 .. Len(all)
                /\ ~(Len(all) <= Len(front)) /\ ~(Len(all) <= Len(front) + 1)
                /\ Len(all) - Len(front) - 1 = Len(w)
            BY <4>2, <4>3
          <5>2. all[1] = front[1] /\ all[Len(all)] = w[Len(w)]
            BY <4>2, <5>1
          <5> QED
            BY <4>2, <4>3, <5>2
        <4>5. Bounded(w)
          BY <1>3
        <4>6. J(more) = all
          BY <3>2 DEF all
        <4> QED
          BY <3>1, <4>2, <4>4, <4>5, <4>6 DEF Bounded
      <3>4. Fields(J(more)) = ws \o <<w>>
        <4>1. front \in Seq(runes) /\ w \in Seq(runes)
          BY <1>2, <1>3, <3>1
        <4>2. Scanned(front \o <<Space>> \o w) = Behind(Scanned(front).words, Scanned(w))
          BY <1>2, <4>1, ScannedApart
        <4>3. Scanned(front).words = ws /\ Scanned(w).words = <<w>>
          BY <1>3, <3>1, FieldsScanned
        <4> QED
          BY <3>2, <4>2, <4>3, FieldsScanned DEF Behind
      <3>5. ws \o <<w>> = more
        OBVIOUS
      <3> HIDE DEF more
      <3> QED
        BY <2>1, <3>3, <3>4, <3>5 DEF A, more
    <2> QED
      BY <2>3, <2>4
  <1>5. \A ws \in Seq(W) : ws \in A
    BY <1>1, <1>4, Appending
  <1> QED
    BY <1>5 DEF A, W, R, J, Bounded, CleanTexts

-----------------------------------------------------------------------------
(* Blocks. *)

NoBlocks == [done |-> <<>>, cur |-> <<>>, waits |-> FALSE]
SplitStates(runes) == [done : Seq(Seq(runes)), cur : Seq(runes), waits : BOOLEAN]
SplitAt(t) == Splitting!Fold(0, NoBlocks, t)

Ended(s) == s.cur \o (IF s.waits THEN <<Newline>> ELSE <<>>)

(* The blocks are those split off, and the one that is open at the end. *)
LEMMA BlocksSplit ==
  ASSUME NEW t
  PROVE  Blocks(t) = Append(SplitAt(t).done, Ended(SplitAt(t)))
  BY DEF Blocks, FoldLeft, MapThenFoldSet, Max, SplitAt, NoBlocks, Ended, Splitting!Fold,
         Splitting!FoldLeft, Splitting!MapThenFoldSet, Splitting!Max

(* Nothing is split into no blocks. *)
LEMMA SplitNothing == SplitAt(<<>>) = NoBlocks
  BY Splitting!FoldNothing DEF SplitAt

(* A rune more is a step of the split more. *)
LEMMA SplitAppend ==
  ASSUME NEW T, NEW t \in Seq(T), NEW r \in T
  PROVE  SplitAt(Append(t, r)) = Split(SplitAt(t), r)
  BY Splitting!FoldStep DEF SplitAt

(* A step of the split leads to a state of the split. *)
LEMMA SplitKeeps ==
  ASSUME NEW runes, Newline \in runes, NEW acc \in SplitStates(runes), NEW r \in runes
  PROVE  Split(acc, r) \in SplitStates(runes)
  <1> DEFINE B == Seq(runes)
  <1>1. acc.done \in Seq(B) /\ acc.cur \in B /\ acc.waits \in BOOLEAN
        /\ acc \in [done : Seq(B), cur : B, waits : BOOLEAN]
    BY DEF SplitStates
  <1>2. <<>> \in B /\ acc.cur \o <<Newline>> \o <<r>> \in B /\ acc.cur \o <<>> \o <<r>> \in B
    BY <1>1
  <1> HIDE DEF B
  <1>3. Append(acc.done, acc.cur) \in Seq(B)
    BY <1>1
  <1>4. Split(acc, r) \in [done : Seq(B), cur : B, waits : BOOLEAN]
    BY <1>1, <1>2, <1>3 DEF Split
  <1> QED
    BY <1>4 DEF B, SplitStates

(* Every text leaves the split in one of its states. *)
LEMMA SplitState ==
  ASSUME NEW runes, Newline \in runes
  PROVE  \A t \in Seq(runes) : SplitAt(t) \in SplitStates(runes)
  <1> DEFINE A == {t \in Seq(runes) : SplitAt(t) \in SplitStates(runes)}
  <1>1. <<>> \in A
    <2>1. NoBlocks \in SplitStates(runes)
      BY DEF NoBlocks, SplitStates
    <2> QED
      BY <2>1, SplitNothing
  <1>2. ASSUME NEW t \in Seq(runes), t \in A, NEW r \in runes
        PROVE  Append(t, r) \in A
    BY <1>2, SplitAppend, SplitKeeps
  <1> HIDE DEF A
  <1>3. \A t \in Seq(runes) : t \in A
    BY <1>1, <1>2, Appending
  <1> QED
    BY <1>3 DEF A

(* The words of a list of texts. *)
WordsOf(texts) == FlattenSeq([i \in DOMAIN texts |-> Fields(texts[i])])

(* Fields gives words: not empty, and without white space. *)
LEMMA FieldsAreWords ==
  ASSUME NEW runes, NEW t \in Seq(runes)
  PROVE  Fields(t) \in Seq(WordsOver(runes))
  BY ScannedState, FieldsScanned DEF ScanStates

(* A text more has its words behind those of the others. *)
LEMMA WordsOfAppend ==
  ASSUME NEW runes, NEW texts \in Seq(Seq(runes)), NEW t \in Seq(runes)
  PROVE  /\ WordsOf(texts) \in Seq(WordsOver(runes))
         /\ WordsOf(Append(texts, t)) = WordsOf(texts) \o Fields(t)
  <1> DEFINE W == WordsOver(runes)
             B == Seq(runes)
             each == [i \in DOMAIN texts |-> Fields(texts[i])]
             more == Append(texts, t)
             words == Fields(t)
  <1>1. \A b \in B : Fields(b) \in Seq(W)
    BY FieldsAreWords
  <1>2. texts \in Seq(B) /\ t \in B
    OBVIOUS
  <1> HIDE DEF W, B
  <1> DEFINE S == Seq(W)
             all == [i \in DOMAIN more |-> Fields(more[i])]
             n == Len(texts)
  <1>0. \A b \in B : Fields(b) \in S
    BY <1>1
  <1> HIDE DEF S
  <1>3. /\ n \in Nat /\ DOMAIN texts = 1 .. n /\ DOMAIN more = 1 .. n + 1
        /\ \A i \in 1 .. n : texts[i] \in B /\ more[i] = texts[i]
        /\ more[n + 1] = t
    BY <1>2
  <1> HIDE DEF n, more
  <1>4. each = [i \in 1 .. n |-> Fields(texts[i])] /\ all = [i \in 1 .. n + 1 |-> Fields(more[i])]
    BY <1>3
  <1> HIDE DEF each, all
  <1>5. each \in Seq(S) /\ Len(each) = n /\ words \in S
    BY <1>2, <1>0, <1>3, <1>4
  <1>6. all \in Seq(S) /\ Len(all) = n + 1
    <2>1. \A i \in 1 .. n + 1 : Fields(more[i]) \in S
      <3> TAKE i \in 1 .. n + 1
      <3>1. i \in 1 .. n \/ i = n + 1
        BY <1>3
      <3> QED
        BY <1>2, <1>0, <1>3, <3>1
    <2> QED
      BY <1>3, <1>4, <2>1
  <1>7. all = Append(each, words)
    <2>1. \A i \in 1 .. n : all[i] = each[i]
      BY <1>3, <1>4
    <2>2. all[n + 1] = words
      BY <1>3, <1>4
    <2> HIDE DEF words
    <2> QED
      BY <1>5, <1>6, <2>1, <2>2, AppendIs
  <1> HIDE DEF words
  <1>8. FlattenSeq(Append(each, words)) = FlattenSeq(each) \o words
    BY <1>5, FlattenAppend DEF S
  <1>9. FlattenSeq(each) \in S
    BY <1>5, FlattenKeeps DEF S
  <1> QED
    BY <1>7, <1>8, <1>9 DEF WordsOf, W, S, all, each, words, more

(* No texts have no words. *)
LEMMA WordsOfNothing == WordsOf(<<>>) = <<>>
  <1>1. [i \in DOMAIN <<>> |-> Fields(<<>>[i])] = <<>>
    OBVIOUS
  <1> QED
    BY <1>1, FlattenNothing DEF WordsOf

(* The blocks read so far and the one being read hold the words so far. *)
Counted(t) == LET s == SplitAt(t) IN
    /\ Scanned(t).words = WordsOf(s.done) \o Scanned(s.cur).words
    /\ Scanned(t).open = IF s.waits THEN FALSE ELSE Scanned(s.cur).open

(* Wherever the split stands, no word is lost and none is cut. *)
LEMMA SplitKeepsWords ==
  ASSUME NEW runes, Newline \in runes
  PROVE  \A t \in Seq(runes) : Counted(t)
  <1> DEFINE A == {t \in Seq(runes) : Counted(t)}
             W == WordsOver(runes)
  <1>1. <<>> \in A
    <2>1. Scanned(<<>>).words = <<>> /\ Scanned(<<>>).open = FALSE
      BY ScannedNothing DEF NoWords
    <2>2. SplitAt(<<>>).done = <<>> /\ SplitAt(<<>>).cur = <<>> /\ SplitAt(<<>>).waits = FALSE
      BY SplitNothing DEF NoBlocks
    <2>3. WordsOf(SplitAt(<<>>).done) = <<>> /\ <<>> \o <<>> = <<>>
      BY <2>2, WordsOfNothing
    <2>4. Counted(<<>>)
      BY <2>1, <2>2, <2>3 DEF Counted
    <2>5. <<>> \in Seq(runes)
      OBVIOUS
    <2> QED
      BY <2>4, <2>5
  <1> HIDE DEF A
  <1>2. ASSUME NEW t \in Seq(runes), t \in A, NEW r \in runes
        PROVE  Append(t, r) \in A
    <2> DEFINE s == SplitAt(t)
               s2 == SplitAt(Append(t, r))
               own == Scanned(s.cur)
               ws == WordsOf(s.done)
    <2>1. /\ Scanned(Append(t, r)) = Scan(Scanned(t), r) /\ s2 = Split(s, r)
          /\ Append(t, r) \in Seq(runes) /\ s \in SplitStates(runes) /\ Scanned(t) \in ScanStates(runes)
      BY ScannedAppend, SplitAppend, SplitState, ScannedState
    <2>2. s.done \in Seq(Seq(runes)) /\ s.cur \in Seq(runes) /\ s.waits \in BOOLEAN
      BY <2>1 DEF SplitStates
    <2>3. /\ ws \in Seq(W) /\ own \in ScanStates(runes) /\ own.words \in Seq(W) /\ own.open \in BOOLEAN
          /\ WordsOf(Append(s.done, s.cur)) = ws \o own.words
      <3>1. own \in ScanStates(runes)
        BY <2>2, ScannedState
      <3> QED
        BY <2>2, <3>1, WordsOfAppend, FieldsScanned DEF ScanStates
    <2>4. Scanned(t).words = ws \o own.words /\ Scanned(t).open = IF s.waits THEN FALSE ELSE own.open
      BY <1>2 DEF A, Counted
    <2> DEFINE still == IF s.waits THEN FALSE ELSE own.open
               words == ws \o own.words
               next == [words |-> own.words, open |-> still]
               scanned == Scanned(Append(t, r))
    <2>5. /\ Scanned(t) = [words |-> words, open |-> still] /\ still \in BOOLEAN
          /\ words \in Seq(W)
      BY <2>1, <2>3, <2>4 DEF ScanStates
    <2>6. s2 = Split(s, r) /\ scanned = Scan([words |-> words, open |-> still], r)
      BY <2>1, <2>5
    <2>7. ASSUME /\ scanned.words = WordsOf(s2.done) \o Scanned(s2.cur).words
                 /\ scanned.open = IF s2.waits THEN FALSE ELSE Scanned(s2.cur).open
          PROVE  Append(t, r) \in A
      BY <2>1, <2>7 DEF A, Counted
    <2> HIDE DEF s, s2, own, ws, W, still, words, scanned
    <2>8. CASE r = Newline
      <3>1. scanned = [words |-> words, open |-> FALSE]
        BY <2>6, <2>8 DEF Scan, IsSpace
      <3>2. CASE s.waits
        <4>1. s2 = [done |-> Append(s.done, s.cur), cur |-> <<>>, waits |-> FALSE]
          BY <2>6, <2>8, <3>2 DEF Split
        <4>2. Scanned(s2.cur).words = <<>> /\ Scanned(s2.cur).open = FALSE
          <5>1. s2.cur = <<>>
            BY <4>1
          <5>2. Scanned(s2.cur) = NoWords
            BY <5>1, ScannedNothing
          <5> QED
            BY <5>2 DEF NoWords
        <4>3. WordsOf(s2.done) \o Scanned(s2.cur).words = words
          <5>1. words \o <<>> = words
            BY <2>5
          <5>2. s2.done = Append(s.done, s.cur)
            BY <4>1
          <5> QED
            BY <2>3, <4>2, <5>1, <5>2 DEF words
        <4>4. scanned.words = words /\ scanned.open = FALSE
          BY <3>1
        <4>5. s2.waits = FALSE
          BY <4>1
        <4> QED
          BY <2>7, <4>2, <4>3, <4>4, <4>5
      <3>3. CASE ~s.waits
        <4>1. Split(s, r) = [s EXCEPT !.waits = TRUE]
          BY <2>8, <3>3 DEF Split
        <4>2. s2.done = s.done /\ s2.cur = s.cur /\ s2.waits = TRUE
          BY <2>1, <2>6, <4>1 DEF SplitStates
        <4>3. scanned.words = words /\ scanned.open = FALSE
          BY <3>1
        <4>4. WordsOf(s2.done) \o Scanned(s2.cur).words = words
          BY <4>2 DEF words, ws, own
        <4> QED
          BY <2>7, <4>2, <4>3, <4>4
      <3> QED
        BY <2>2, <3>2, <3>3
    <2>9. CASE r # Newline
      <3>1. /\ s2.done = s.done /\ s2.waits = FALSE
            /\ s2.cur = s.cur \o (IF s.waits THEN <<Newline>> ELSE <<>>) \o <<r>>
        <4>1. Split(s, r) = [s EXCEPT !.waits = FALSE,
                               !.cur = @ \o (IF s.waits THEN <<Newline>> ELSE <<>>) \o <<r>>]
          BY <2>9 DEF Split
        <4> QED
          BY <2>1, <2>6, <4>1 DEF SplitStates
      <3>2. next \in ScanStates(runes)
        BY <2>3, <2>5 DEF ScanStates, still, W
      <3>3. Scanned(s2.cur) = Scan(next, r)
        <4>1. CASE s.waits
          <5>1. Append(s.cur, Newline) \in Seq(runes)
            BY <2>2
          <5>2. Scanned(Append(s.cur, Newline)) = Scan(own, Newline)
            BY <2>2, ScannedAppend DEF own
          <5>3. PICK w, o : own = [words |-> w, open |-> o]
            BY <2>3 DEF ScanStates
          <5>4. Scan(own, Newline) = next
            <6>1. Scan([words |-> w, open |-> o], Newline) = [words |-> w, open |-> FALSE]
              BY DEF Scan, IsSpace
            <6>2. still = FALSE
              BY <4>1 DEF still
            <6> QED
              BY <5>3, <6>1, <6>2
          <5>5. s2.cur = Append(Append(s.cur, Newline), r)
            BY <2>2, <3>1, <4>1
          <5>6. Scanned(Append(Append(s.cur, Newline), r)) = Scan(Scanned(Append(s.cur, Newline)), r)
            BY <5>1, ScannedAppend
          <5> HIDE DEF next
          <5> QED
            BY <5>2, <5>4, <5>5, <5>6
        <4>2. CASE ~s.waits
          <5>1. s2.cur = Append(s.cur, r)
            BY <2>2, <3>1, <4>2
          <5>2. Scanned(s2.cur) = Scan(own, r)
            BY <2>2, <5>1, ScannedAppend DEF own
          <5>3. own = next
            BY <2>3, <4>2 DEF ScanStates, still
          <5> HIDE DEF next
          <5> QED
            BY <5>2, <5>3
        <4> QED
          BY <2>2, <4>1, <4>2
      <3>4. Behind(ws, next) = [words |-> words, open |-> still]
        BY DEF Behind, words
      <3> HIDE DEF next
      <3>5. Scan(Behind(ws, next), r) = Behind(ws, Scan(next, r))
        BY <2>3, <3>2, ScanBehind DEF W
      <3>6. scanned = Behind(ws, Scanned(s2.cur))
        BY <2>6, <3>3, <3>4, <3>5
      <3>7. scanned.words = ws \o Scanned(s2.cur).words /\ scanned.open = Scanned(s2.cur).open
        BY <3>6 DEF Behind
      <3>8. WordsOf(s2.done) = ws
        BY <3>1 DEF ws
      <3> QED
        BY <2>7, <3>1, <3>7, <3>8
    <2> QED
      BY <2>8, <2>9
  <1>3. \A t \in Seq(runes) : t \in A
    BY <1>1, <1>2, Appending
  <1> QED
    BY <1>3 DEF A

(* Splitting a text at pairs of newlines loses, joins and cuts no word. *)
LEMMA BlocksKeepWords ==
  ASSUME NEW runes, Newline \in runes, NEW t \in Seq(runes)
  PROVE  Blocks(t) \in Seq(Seq(runes)) /\ WordsOf(Blocks(t)) = Fields(t)
  <1> DEFINE s == SplitAt(t)
  <1>1. s.done \in Seq(Seq(runes)) /\ s.cur \in Seq(runes) /\ s.waits \in BOOLEAN
    BY SplitState DEF SplitStates
  <1>2. Scanned(t).words = WordsOf(s.done) \o Scanned(s.cur).words
    BY SplitKeepsWords DEF Counted
  <1> HIDE DEF s
  <1>3. Ended(s) \in Seq(runes) /\ Fields(Ended(s)) = Scanned(s.cur).words
    <2>1. CASE s.waits
      <3>1. Ended(s) = s.cur \o <<Newline>> \o <<>> /\ Ended(s) \in Seq(runes) /\ <<>> \in Seq(runes)
        BY <1>1, <2>1 DEF Ended
      <3>2. IsSpace(Newline)
        BY DEF IsSpace
      <3>3. Scanned(s.cur \o <<Newline>> \o <<>>) = Behind(Scanned(s.cur).words, NoWords)
        BY <1>1, <3>1, <3>2, ScannedApart, ScannedNothing
      <3>4. Scanned(s.cur).words \o <<>> = Scanned(s.cur).words
        <4>1. Scanned(s.cur).words \in Seq(WordsOver(runes))
          BY <1>1, ScannedState DEF ScanStates
        <4> QED
          BY <4>1
      <3> QED
        BY <3>1, <3>3, <3>4, FieldsScanned DEF Behind, NoWords
    <2>2. CASE ~s.waits
      <3>1. Ended(s) = s.cur
        BY <1>1, <2>2 DEF Ended
      <3> QED
        BY <1>1, <3>1, FieldsScanned
    <2> QED
      BY <1>1, <2>1, <2>2
  <1>4. Blocks(t) = Append(s.done, Ended(s))
    BY BlocksSplit DEF s
  <1>5. Append(s.done, Ended(s)) \in Seq(Seq(runes))
    <2> DEFINE B == Seq(runes)
    <2>1. s.done \in Seq(B) /\ Ended(s) \in B
      BY <1>1, <1>3
    <2> HIDE DEF B
    <2>2. Append(s.done, Ended(s)) \in Seq(B)
      BY <2>1
    <2> QED
      BY <2>2 DEF B
  <1>6. WordsOf(Append(s.done, Ended(s))) = WordsOf(s.done) \o Fields(Ended(s))
    BY <1>1, <1>3, WordsOfAppend
  <1> QED
    BY <1>2, <1>3, <1>4, <1>5, <1>6, FieldsScanned

-----------------------------------------------------------------------------
(* Bytes. *)

(* A rune more is its bytes more. *)
LEMMA BytesAppend ==
  ASSUME NEW T, NEW t \in Seq(T), NEW r \in T
  PROVE  ByteLen(<<>>) = 0 /\ ByteLen(Append(t, r)) = Count(ByteLen(t), r)
  <1>1. \A all : ByteLen(all) = Counting!Fold(0, 0, all)
    BY DEF ByteLen, FoldLeft, MapThenFoldSet, Max, Counting!Fold, Counting!FoldLeft,
           Counting!MapThenFoldSet, Counting!Max
  <1>2. Counting!Fold(0, 0, <<>>) = 0
    BY Counting!FoldNothing
  <1>3. Counting!Fold(0, 0, Append(t, r)) = Count(Counting!Fold(0, 0, t), r)
    BY Counting!FoldStep
  <1> QED
    BY <1>1, <1>2, <1>3

(* Lengths in bytes are numbers. *)
LEMMA BytesNat ==
  ASSUME NEW T
  PROVE  \A t \in Seq(T) : ByteLen(t) \in Nat
  <1> DEFINE A == {t \in Seq(T) : ByteLen(t) \in Nat}
  <1>1. <<>> \in A
    <2>1. \A r : <<>> \in Seq({r}) /\ r \in {r}
      OBVIOUS
    <2>2. ByteLen(<<>>) = 0
      BY <2>1, BytesAppend
    <2> QED
      BY <2>2
  <1>2. ASSUME NEW t \in Seq(T), t \in A, NEW r \in T
        PROVE  Append(t, r) \in A
    BY <1>2, BytesAppend DEF Count
  <1> HIDE DEF A
  <1>3. \A t \in Seq(T) : t \in A
    BY <1>1, <1>2, Appending
  <1> QED
    BY <1>3 DEF A

(* Every rune takes at least a byte. *)
LEMMA BytesGrow ==
  ASSUME NEW T, NEW t \in Seq(T)
  PROVE  /\ ByteLen(SubSeq(t, 1, 0)) = 0 /\ SubSeq(t, 1, Len(t)) = t
         /\ \A n \in 0 .. Len(t) : ByteLen(SubSeq(t, 1, n)) \in Nat
         /\ \A n, m \in 0 .. Len(t) : n < m => ByteLen(SubSeq(t, 1, n)) < ByteLen(SubSeq(t, 1, m))
  <1> DEFINE B(n) == ByteLen(SubSeq(t, 1, n))
  <1>1. SubSeq(t, 1, Len(t)) = t /\ SubSeq(t, 1, 0) = <<>> /\ Len(t) \in Nat
    OBVIOUS
  <1>2. ByteLen(<<>>) = 0
    <2>1. \A r : <<>> \in Seq({r}) /\ r \in {r}
      OBVIOUS
    <2> QED
      BY <2>1, BytesAppend
  <1>3. ASSUME NEW n \in 0 .. Len(t)
        PROVE  SubSeq(t, 1, n) \in Seq(T) /\ B(n) \in Nat
    <2>1. SubSeq(t, 1, n) \in Seq(T)
      OBVIOUS
    <2> QED
      BY <2>1, BytesNat
  <1>4. ASSUME NEW n \in 0 .. Len(t) - 1
        PROVE  B(n) < B(n + 1)
    <2>1. SubSeq(t, 1, n + 1) = Append(SubSeq(t, 1, n), t[n + 1]) /\ t[n + 1] \in T
      OBVIOUS
    <2>2. n \in 0 .. Len(t)
      OBVIOUS
    <2>3. B(n + 1) = Count(B(n), t[n + 1])
      BY <1>3, <2>1, <2>2, BytesAppend
    <2> QED
      BY <1>3, <2>2, <2>3 DEF Count
  <1> HIDE DEF B
  <1>5. ASSUME NEW n \in 0 .. Len(t)
        PROVE  \A m \in 0 .. Len(t) : n < m => B(n) < B(m)
    <2> DEFINE M == {k \in Nat : n + k + 1 <= Len(t) => B(n) < B(n + k + 1)}
    <2>1. 0 \in M
      BY <1>1, <1>4
    <2>2. ASSUME NEW k \in M
          PROVE  k + 1 \in M
      <3> SUFFICES ASSUME n + (k + 1) + 1 <= Len(t)
                   PROVE  B(n) < B(n + (k + 1) + 1)
        BY <2>2
      <3>1. /\ n + k + 1 \in 0 .. Len(t) - 1 /\ n + k + 1 \in 0 .. Len(t)
            /\ n + (k + 1) + 1 = n + k + 1 + 1 /\ n + (k + 1) + 1 \in 0 .. Len(t) /\ B(n) < B(n + k + 1)
        BY <1>1, <2>2
      <3>2. B(n + k + 1) < B(n + (k + 1) + 1)
        BY <1>4, <3>1
      <3> QED
        BY <1>3, <3>1, <3>2
    <2>3. M = Nat
      <3> HIDE DEF M
      <3>1. M \in SUBSET Nat
        BY DEF M
      <3> QED
        BY <2>1, <2>2, <3>1, Induction
    <2> TAKE m \in 0 .. Len(t)
    <2> SUFFICES ASSUME n < m
                 PROVE  B(n) < B(m)
      OBVIOUS
    <2>4. m - n - 1 \in Nat /\ n + (m - n - 1) + 1 = m
      OBVIOUS
    <2> HIDE DEF M
    <2>5. m - n - 1 \in M
      BY <2>3, <2>4
    <2> QED
      BY <1>1, <2>4, <2>5 DEF M
  <1> QED
    BY <1>1, <1>2, <1>3, <1>5 DEF B

(* The rune offset of the byte at which a rune begins is its own, and every *)
(* byte offset has one.                                                    *)
LEMMA RuneOffsetAt ==
  ASSUME NEW T, NEW t \in Seq(T)
  PROVE  /\ \A bytes \in Nat : RuneOffset(t, bytes) \in Nat
         /\ \A n \in 0 .. Len(t) : RuneOffset(t, ByteLen(SubSeq(t, 1, n))) = n
  <1> DEFINE B(n) == ByteLen(SubSeq(t, 1, n))
             Whole(n, bytes) == B(n) <= bytes /\ bytes < B(n + 1)
             whole(bytes) == CHOOSE n \in 0 .. Len(t) - 1 : Whole(n, bytes)
  <1>1. /\ B(0) = 0 /\ B(Len(t)) = ByteLen(t) /\ Len(t) \in Nat
        /\ \A n \in 0 .. Len(t) : B(n) \in Nat
        /\ \A n, m \in 0 .. Len(t) : n < m => B(n) < B(m)
    <2>1. B(Len(t)) = ByteLen(t)
      BY BytesGrow
    <2>2. Len(t) \in Nat
      OBVIOUS
    <2>3. /\ B(0) = 0
          /\ \A n \in 0 .. Len(t) : B(n) \in Nat
          /\ \A n, m \in 0 .. Len(t) : n < m => B(n) < B(m)
      BY BytesGrow, Zenon
    <2> QED
      BY <2>1, <2>2, <2>3
  <1>2. \A bytes : RuneOffset(t, bytes) = IF bytes >= ByteLen(t) THEN Len(t)
                                          ELSE whole(bytes) + bytes - B(whole(bytes))
    BY DEF RuneOffset
  <1> HIDE DEF B
  <1>3. ASSUME NEW bytes \in Nat, ~(bytes >= ByteLen(t))
        PROVE  whole(bytes) \in 0 .. Len(t) - 1 /\ Whole(whole(bytes), bytes)
    <2> DEFINE U == {k \in 0 .. Len(t) : bytes < B(k)}
    <2>1. U \in SUBSET Nat /\ Len(t) \in U
      BY <1>1, <1>3
    <2> HIDE DEF U
    <2>2. PICK k \in U : \A j \in U : k <= j
      BY <2>1, LeastNat
    <2>3. k \in 0 .. Len(t) /\ bytes < B(k)
      BY <2>2 DEF U
    <2>4. k # 0
      BY <1>1, <1>3, <2>3
    <2>5. k - 1 \in 0 .. Len(t) - 1 /\ k - 1 \in 0 .. Len(t) /\ k - 1 + 1 = k /\ k - 1 \notin U
      <3>1. k - 1 \in 0 .. Len(t) /\ ~(k <= k - 1)
        BY <1>1, <2>3, <2>4
      <3> QED
        BY <1>1, <2>2, <2>3, <2>4, <3>1
    <2>6. B(k - 1) <= bytes
      BY <1>1, <2>5 DEF U
    <2>7. \E n \in 0 .. Len(t) - 1 : Whole(n, bytes)
      BY <2>3, <2>5, <2>6
    <2> HIDE DEF Whole
    <2> QED
      BY <2>7
  <1> HIDE DEF whole
  <1>4. ASSUME NEW bytes \in Nat
        PROVE  RuneOffset(t, bytes) \in Nat
    <2>1. CASE bytes >= ByteLen(t)
      BY <1>1, <1>2, <2>1
    <2>2. CASE ~(bytes >= ByteLen(t))
      <3>1. whole(bytes) \in 0 .. Len(t) - 1 /\ Whole(whole(bytes), bytes)
        BY <1>3, <2>2
      <3>2. B(whole(bytes)) \in Nat /\ whole(bytes) \in Nat
        BY <1>1, <3>1
      <3> QED
        BY <1>2, <2>2, <3>1, <3>2
    <2> QED
      BY <2>1, <2>2
  <1>5. ASSUME NEW n \in 0 .. Len(t)
        PROVE  RuneOffset(t, B(n)) = n
    <2>1. CASE n = Len(t)
      BY <1>1, <1>2, <2>1
    <2>2. CASE n # Len(t)
      <3>1. B(n) \in Nat /\ B(n) < B(Len(t)) /\ B(Len(t)) \in Nat
        BY <1>1, <2>2
      <3>2. ~(B(n) >= ByteLen(t))
        BY <1>1, <3>1
      <3> DEFINE m == whole(B(n))
      <3>3. m \in 0 .. Len(t) - 1 /\ Whole(m, B(n))
        BY <1>3, <3>1, <3>2
      <3>4. RuneOffset(t, B(n)) = m + B(n) - B(m)
        BY <1>2, <3>2
      <3> HIDE DEF m
      <3>5. m \in 0 .. Len(t) /\ m + 1 \in 0 .. Len(t)
        BY <1>1, <3>3
      <3>6. B(m) \in Nat /\ B(m + 1) \in Nat
        BY <1>1, <3>5
      <3>7. ~(n < m) /\ ~(m + 1 < n) /\ n # m + 1
        BY <1>1, <3>1, <3>3, <3>5, <3>6
      <3>8. n = m
        BY <3>5, <3>7
      <3> QED
        BY <3>1, <3>4, <3>8
    <2> QED
      BY <2>1, <2>2
  <1> QED
    BY <1>4, <1>5 DEF B

-----------------------------------------------------------------------------
(* Segments. *)

Segments(runes) == [ordinal : Nat, text : CleanTexts(runes), start : Nat, end : Nat]
TextsOf(out) == [i \in DOMAIN out |-> out[i].text]
SegmentsAt(raw, bs) == Segmenting!Fold(raw, [offset |-> 0, out |-> <<>>], bs)

(* Segmentation is its loop over the blocks. *)
LEMMA SegmentsFold ==
  ASSUME NEW raw
  PROVE  SegmentByParagraph(raw) = SegmentsAt(raw, Blocks(raw)).out
  BY DEF SegmentByParagraph, FoldLeft, MapThenFoldSet, Max, SegmentsAt, Segmenting!Fold,
         Segmenting!FoldLeft, Segmenting!MapThenFoldSet, Segmenting!Max

(* A block more is a step of the loop more. *)
LEMMA SegmentsStep ==
  ASSUME NEW raw, NEW T, NEW bs \in Seq(T), NEW b \in T
  PROVE  /\ SegmentsAt(raw, <<>>) = [offset |-> 0, out |-> <<>>]
         /\ SegmentsAt(raw, Append(bs, b)) = Segment(raw, SegmentsAt(raw, bs), b)
  BY Segmenting!FoldNothing, Segmenting!FoldStep DEF SegmentsAt

(* The text of a passage is a text, and not empty. *)
LEMMA CleanTextsAre ==
  ASSUME NEW runes, Space \in runes, NEW t \in CleanTexts(runes)
  PROVE  t \in Seq(runes) /\ t # <<>> /\ Len(t) \in Nat
  <1>1. t \in Seq(Letters(runes) \cup {Space}) /\ t # <<>>
    BY DEF CleanTexts
  <1>2. Letters(runes) \cup {Space} \in SUBSET runes
    BY DEF Letters
  <1> DEFINE L == Letters(runes) \cup {Space}
  <1> HIDE DEF L
  <1>3. t \in Seq(L) /\ L \in SUBSET runes
    BY <1>1, <1>2 DEF L
  <1>4. t \in Seq(runes)
    BY <1>3
  <1> QED
    BY <1>1, <1>4

(* Normalising a trimmed block keeps its words. *)
LEMMA NormalizedKeepsWords ==
  ASSUME NEW runes, Space \in runes, NEW block \in Seq(runes), block # <<>>, ~IsSpace(block[1])
  PROVE  Normalized(block) \in CleanTexts(runes) /\ Fields(Normalized(block)) = Fields(block)
  <1>1. 1 \in 1 .. Len(block)
    OBVIOUS
  <1>2. Fields(block) # <<>> /\ Fields(block) \in Seq(WordsOver(runes))
    BY <1>1, SomeWord, FieldsAreWords
  <1> QED
    BY <1>2, JoinedWords DEF Normalized

(* The segments so far hold the words of the blocks so far. *)
Segmented(runes, raw, bs) == LET acc == SegmentsAt(raw, bs) IN
    /\ acc.offset \in Nat /\ acc.out \in Seq(Segments(runes))
    /\ \A i \in DOMAIN acc.out : acc.out[i].ordinal = i
    /\ WordsOf(TextsOf(acc.out)) = WordsOf(bs)

(* A segment more is its text more. *)
LEMMA TextsOfAppend ==
  ASSUME NEW runes, NEW out \in Seq(Segments(runes)), NEW s \in Segments(runes)
  PROVE  /\ TextsOf(out) \in Seq(CleanTexts(runes)) /\ Len(TextsOf(out)) = Len(out)
         /\ TextsOf(Append(out, s)) = Append(TextsOf(out), s.text)
  <1> DEFINE S == Segments(runes)
             P == CleanTexts(runes)
             more == Append(out, s)
             n == Len(out)
             text == s.text
  <1>1. \A x \in S : x.text \in P
    BY DEF Segments
  <1> HIDE DEF S, P
  <1>2. /\ n \in Nat /\ DOMAIN out = 1 .. n /\ DOMAIN more = 1 .. n + 1 /\ s \in S
        /\ \A i \in 1 .. n : out[i] \in S /\ more[i] = out[i]
        /\ more[n + 1] = s
    BY DEF S
  <1> HIDE DEF more, n
  <1>3. TextsOf(out) \in Seq(P) /\ Len(TextsOf(out)) = n
    BY <1>1, <1>2 DEF TextsOf
  <1>4. TextsOf(more) \in Seq(P) /\ Len(TextsOf(more)) = n + 1 /\ text \in P
    <2>1. \A i \in 1 .. n + 1 : more[i] \in S
      <3> TAKE i \in 1 .. n + 1
      <3>1. i \in 1 .. n \/ i = n + 1
        BY <1>2
      <3> QED
        BY <1>2, <3>1
    <2> QED
      BY <1>1, <1>2, <2>1 DEF TextsOf
  <1>5. (\A i \in 1 .. n : TextsOf(more)[i] = TextsOf(out)[i]) /\ TextsOf(more)[n + 1] = text
    BY <1>2 DEF TextsOf
  <1> HIDE DEF text
  <1>6. TextsOf(more) = Append(TextsOf(out), text)
    BY <1>3, <1>4, <1>5, AppendIs
  <1> QED
    BY <1>3, <1>6 DEF more, n, P, text

(* After any of the blocks, the segments hold the words of those blocks. *)
LEMMA SegmentsKeep ==
  ASSUME NEW runes, Space \in runes, NEW raw \in Seq(runes)
  PROVE  \A bs \in Seq(Seq(runes)) : Segmented(runes, raw, bs)
  <1> DEFINE B == Seq(runes)
             S == Segments(runes)
             A == {bs \in Seq(B) : Segmented(runes, raw, bs)}
  <1>1. <<>> \in A
    <2> DEFINE acc == SegmentsAt(raw, <<>>)
    <2>1. \A r : <<>> \in Seq({r}) /\ r \in {r}
      OBVIOUS
    <2>2. acc = [offset |-> 0, out |-> <<>>]
      BY <2>1, SegmentsStep
    <2> HIDE DEF acc
    <2>3. acc.offset = 0 /\ acc.out = <<>>
      BY <2>2
    <2>4. TextsOf(<<>>) = <<>>
      BY DEF TextsOf
    <2>5. acc.offset \in Nat /\ acc.out \in Seq(S) /\ DOMAIN acc.out = {}
      BY <2>3
    <2>6. Segmented(runes, raw, <<>>)
      BY <2>3, <2>4, <2>5 DEF Segmented, acc
    <2>7. <<>> \in Seq(B)
      OBVIOUS
    <2> QED
      BY <2>6, <2>7
  <1>0. \A t \in CleanTexts(runes) : t \in B /\ Len(t) \in Nat
    BY CleanTextsAre
  <1>2. ASSUME NEW b \in B
        PROVE  TrimSpace(b) \in B /\ Fields(TrimSpace(b)) = Fields(b)
               /\ ByteLen(TrimSpace(b)) \in Nat
               /\ (TrimSpace(b) # <<>> => /\ Normalized(TrimSpace(b)) \in CleanTexts(runes)
                                          /\ Fields(Normalized(TrimSpace(b))) = Fields(b))
    BY TrimKeepsWords, NormalizedKeepsWords, BytesNat
  <1> HIDE DEF A, S
  <1>3. ASSUME NEW bs \in Seq(B), bs \in A, NEW b \in B
        PROVE  Append(bs, b) \in A
    <2> DEFINE acc == SegmentsAt(raw, bs)
               next == SegmentsAt(raw, Append(bs, b))
               block == TrimSpace(b)
    <2>1. /\ acc.offset \in Nat /\ acc.out \in Seq(S)
          /\ \A i \in DOMAIN acc.out : acc.out[i].ordinal = i
          /\ WordsOf(TextsOf(acc.out)) = WordsOf(bs)
      BY <1>3 DEF A, S, Segmented
    <2>2. next = Segment(raw, acc, b)
      BY SegmentsStep
    <2>3. WordsOf(Append(bs, b)) = WordsOf(bs) \o Fields(b) /\ WordsOf(bs) \in Seq(WordsOver(runes))
      BY WordsOfAppend
    <2>4. Append(bs, b) \in Seq(B)
      <3> HIDE DEF B
      <3> QED
        OBVIOUS
    <2>5. ASSUME /\ next.offset \in Nat /\ next.out \in Seq(S)
                 /\ \A i \in DOMAIN next.out : next.out[i].ordinal = i
                 /\ WordsOf(TextsOf(next.out)) = WordsOf(bs) \o Fields(b)
          PROVE  Append(bs, b) \in A
      BY <2>3, <2>4, <2>5 DEF A, S, Segmented
    <2> HIDE DEF next
    <2>6. next.offset \in Nat
      <3>1. next.offset = NextOffset(acc.offset, block)
        BY <2>2 DEF Segment
      <3>2. ByteLen(block) \in Nat
        BY <1>2
      <3> QED
        BY <2>1, <3>1, <3>2 DEF NextOffset
    <2>7. CASE block = <<>>
      <3>1. next.out = acc.out
        BY <2>2, <2>7 DEF Segment
      <3>2. Fields(b) = <<>>
        BY <1>2, <2>7, FieldsScanned, ScannedNothing DEF NoWords
      <3>3. WordsOf(bs) \o Fields(b) = WordsOf(bs)
        BY <2>3, <3>2
      <3> HIDE DEF block, acc
      <3> QED
        BY <2>1, <2>5, <2>6, <3>1, <3>3
    <2>8. CASE block # <<>>
      <3> DEFINE text == Normalized(block)
                 start == RuneOffset(raw, acc.offset)
                 n == Len(acc.out)
                 s == [ordinal |-> n + 1, text |-> text, start |-> start, end |-> start + Len(text)]
      <3>1. next.out = Append(acc.out, s)
        BY <2>2, <2>8 DEF Segment
      <3>2. text \in CleanTexts(runes) /\ Fields(text) = Fields(b) /\ text \in B
        BY <1>0, <1>2, <2>8
      <3>3. s \in S /\ s.text = text /\ s.ordinal = n + 1 /\ n \in Nat
        <4>1. start \in Nat
          BY <2>1, RuneOffsetAt
        <4>2. Len(text) \in Nat
          BY <1>0, <3>2
        <4>3. n \in Nat
          BY <2>1
        <4> HIDE DEF text, start, n
        <4> QED
          BY <3>2, <4>1, <4>2, <4>3 DEF S, Segments
      <3> HIDE DEF s, block, text, acc, n
      <3>4. next.out \in Seq(S)
        BY <2>1, <3>1, <3>3
      <3>5. \A i \in DOMAIN next.out : next.out[i].ordinal = i
        <4>1. DOMAIN next.out = 1 .. n + 1 /\ DOMAIN acc.out = 1 .. n /\ next.out[n + 1] = s
              /\ \A i \in 1 .. n : next.out[i] = acc.out[i]
          BY <2>1, <3>1, <3>3 DEF n
        <4> TAKE i \in DOMAIN next.out
        <4>2. i \in 1 .. n \/ i = n + 1
          BY <3>3, <4>1
        <4> QED
          BY <2>1, <3>3, <4>1, <4>2
      <3>6. WordsOf(TextsOf(next.out)) = WordsOf(bs) \o Fields(b)
        <4>1. /\ TextsOf(next.out) = Append(TextsOf(acc.out), text)
              /\ TextsOf(acc.out) \in Seq(CleanTexts(runes))
          <5>1. /\ TextsOf(acc.out) \in Seq(CleanTexts(runes))
                /\ TextsOf(Append(acc.out, s)) = Append(TextsOf(acc.out), s.text)
            BY <2>1, <3>3, TextsOfAppend DEF S
          <5> QED
            BY <3>1, <3>3, <5>1
        <4>2. TextsOf(acc.out) \in Seq(B)
          <5> DEFINE P == CleanTexts(runes)
          <5>1. P \in SUBSET B
            BY <1>0
          <5> HIDE DEF P, B
          <5>2. TextsOf(acc.out) \in Seq(P)
            BY <4>1 DEF P
          <5> QED
            BY <5>1, <5>2
        <4>3. WordsOf(Append(TextsOf(acc.out), text)) = WordsOf(TextsOf(acc.out)) \o Fields(text)
          BY <3>2, <4>2, WordsOfAppend
        <4> QED
          BY <2>1, <3>2, <4>1, <4>3
      <3> QED
        BY <2>5, <2>6, <3>4, <3>5, <3>6
    <2> QED
      BY <2>7, <2>8
  <1>4. \A bs \in Seq(B) : bs \in A
    <2> HIDE DEF B
    <2> QED
      BY <1>1, <1>3, Appending
  <1> QED
    BY <1>4 DEF A

(* Segmentation, whatever the source: the passages are numbered from 1, each *)
(* is words with one space between, and together they hold the words of    *)
(* the source (SegmentByParagraph).                                        *)
THEOREM SegmentationKeepsWords ==
  ASSUME NEW runes, Space \in runes, Newline \in runes, NEW raw \in Seq(runes)
  PROVE  LET segments == SegmentByParagraph(raw) IN
         /\ segments \in Seq(Segments(runes))
         /\ \A i \in DOMAIN segments : segments[i].ordinal = i
         /\ WordsOf(TextsOf(segments)) = Fields(raw)
  BY SegmentsKeep, BlocksKeepWords, SegmentsFold DEF Segmented

-----------------------------------------------------------------------------
(* Where the passages of a source that needs no trimming are found. *)

(* To append to the second of two texts is to append to both. *)
LEMMA AppendBehind ==
  ASSUME NEW T, NEW a \in Seq(T), NEW b \in Seq(T), NEW x \in T
  PROVE  a \o Append(b, x) = Append(a \o b, x) /\ a \o b \in Seq(T)
  <1> DEFINE left == a \o Append(b, x)
             right == Append(a \o b, x)
  <1>1. left \in Seq(T) /\ right \in Seq(T) /\ Len(left) = Len(right)
    OBVIOUS
  <1>2. \A i \in 1 .. Len(left) : left[i] = right[i]
    OBVIOUS
  <1> HIDE DEF left, right
  <1>3. left = right
    BY <1>1, <1>2, EqualRunes
  <1> QED
    BY <1>3 DEF left, right

(* Two texts together have the bytes of both. *)
LEMMA BytesConcat ==
  ASSUME NEW T, NEW a \in Seq(T)
  PROVE  \A b \in Seq(T) : ByteLen(a \o b) = ByteLen(a) + ByteLen(b)
  <1> DEFINE A == {b \in Seq(T) : ByteLen(a \o b) = ByteLen(a) + ByteLen(b)}
  <1>1. <<>> \in A
    <2>1. ByteLen(<<>>) = 0
      <3>1. \A r : <<>> \in Seq({r}) /\ r \in {r}
        OBVIOUS
      <3> QED
        BY <3>1, BytesAppend
    <2>2. a \o <<>> = a /\ ByteLen(a) \in Nat
      BY BytesNat
    <2> QED
      BY <2>1, <2>2
  <1>2. ASSUME NEW b \in Seq(T), b \in A, NEW x \in T
        PROVE  Append(b, x) \in A
    <2> DEFINE both == a \o b
    <2>1. a \o Append(b, x) = Append(both, x) /\ both \in Seq(T)
      BY AppendBehind
    <2>2. ByteLen(both) = ByteLen(a) + ByteLen(b)
      BY <1>2
    <2> HIDE DEF both
    <2>3. ByteLen(Append(both, x)) = Count(ByteLen(both), x) /\ ByteLen(Append(b, x)) = Count(ByteLen(b), x)
      BY <2>1, BytesAppend
    <2>4. ByteLen(a) \in Nat /\ ByteLen(b) \in Nat
      BY BytesNat
    <2>5. Count(ByteLen(a) + ByteLen(b), x) = ByteLen(a) + Count(ByteLen(b), x)
      BY <2>4 DEF Count
    <2>6. Append(b, x) \in Seq(T)
      OBVIOUS
    <2> QED
      BY <2>1, <2>2, <2>3, <2>5, <2>6
  <1> HIDE DEF A
  <1>3. \A b \in Seq(T) : b \in A
    BY <1>1, <1>2, Appending
  <1> QED
    BY <1>3 DEF A

(* A text without newlines stays in one block. *)
LEMMA SplitOn ==
  ASSUME NEW runes, Newline \in runes, NEW x \in Seq(runes), SplitAt(x).waits = FALSE
  PROVE  \A t \in Seq(runes \ {Newline}) :
           SplitAt(x \o t) = [done |-> SplitAt(x).done, cur |-> SplitAt(x).cur \o t, waits |-> FALSE]
  <1> DEFINE B == runes \ {Newline}
             done == SplitAt(x).done
             cur == SplitAt(x).cur
             A == {t \in Seq(B) : SplitAt(x \o t) = [done |-> done, cur |-> cur \o t, waits |-> FALSE]}
  <1>1. cur \in Seq(runes) /\ SplitAt(x) = [done |-> done, cur |-> cur, waits |-> FALSE]
    BY SplitState DEF SplitStates
  <1> HIDE DEF done, cur
  <1>2. <<>> \in A
    <2>1. x \o <<>> = x /\ cur \o <<>> = cur
      BY <1>1
    <2> QED
      BY <1>1, <2>1
  <1>3. ASSUME NEW t \in Seq(B), t \in A, NEW r \in B
        PROVE  Append(t, r) \in A
    <2> DEFINE both == x \o t
               text == cur \o t
               one == <<r>>
               s == [done |-> done, cur |-> text, waits |-> FALSE]
    <2>1. t \in Seq(runes) /\ r \in runes /\ r # Newline
      OBVIOUS
    <2>2. x \o Append(t, r) = Append(both, r) /\ both \in Seq(runes)
      BY <2>1, AppendBehind
    <2>3. cur \o Append(t, r) = Append(text, r) /\ text \in Seq(runes)
      BY <1>1, <2>1, AppendBehind
    <2>4. SplitAt(both) = s
      BY <1>3
    <2>5. SplitAt(Append(both, r)) = Split(s, r)
      <3> HIDE DEF both, s
      <3> QED
        BY <2>1, <2>2, <2>4, SplitAppend
    <2>6. text \o <<>> = text /\ text \o one = Append(text, r)
      <3> HIDE DEF text
      <3> QED
        BY <2>1, <2>3
    <2>7. Split(s, r) = [done |-> done, cur |-> text \o <<>> \o one, waits |-> FALSE]
      <3> HIDE DEF text
      <3> QED
        BY <2>1 DEF Split
    <2>8. Append(t, r) \in Seq(B)
      <3> HIDE DEF B
      <3> QED
        OBVIOUS
    <2> HIDE DEF both, text, one, s, B
    <2>9. SplitAt(x \o Append(t, r)) = [done |-> done, cur |-> cur \o Append(t, r), waits |-> FALSE]
      BY <2>2, <2>3, <2>5, <2>6, <2>7
    <2> QED
      BY <2>8, <2>9
  <1> HIDE DEF A, B
  <1>4. \A t \in Seq(B) : t \in A
    BY <1>2, <1>3, Appending
  <1> QED
    BY <1>4 DEF A, B, done, cur

(* What a passage's text needs: neither trimming nor normalising, and it    *)
(* holds no newline.                                                       *)
LEMMA CleanTextIs ==
  ASSUME NEW runes, Space \in runes, NEW t \in CleanTexts(runes)
  PROVE  /\ t \in Seq(runes \ {Newline}) /\ t \in Seq(runes) /\ t # <<>>
         /\ TrimSpace(t) = t /\ Normalized(t) = t
  <1> DEFINE L == Letters(runes) \cup {Space}
             n == Len(t)
             kept == {i \in 1 .. n : ~IsSpace(t[i])}
  <1>1. t \in Seq(L) /\ t # <<>> /\ ~IsSpace(t[1]) /\ ~IsSpace(t[n]) /\ Joined(Fields(t), <<Space>>) = t
    BY DEF CleanTexts
  <1>2. L \in SUBSET (runes \ {Newline}) /\ L \in SUBSET runes
    BY RuneAssumption DEF Letters, IsSpace
  <1>3. t \in Seq(runes \ {Newline}) /\ t \in Seq(runes)
    <2> DEFINE B == runes \ {Newline}
    <2> HIDE DEF L, B
    <2>1. t \in Seq(B)
      BY <1>1, <1>2 DEF B
    <2>2. t \in Seq(runes)
      BY <1>1, <1>2
    <2> QED
      BY <2>1, <2>2 DEF B
  <1>4. n \in Nat /\ n >= 1 /\ SubSeq(t, 1, n) = t
    BY <1>1, <1>3
  <1> HIDE DEF n, L
  <1>5. kept \in SUBSET (1 .. n) /\ 1 \in kept /\ n \in kept
    BY <1>1, <1>4
  <1> HIDE DEF kept
  <1>6. Min(kept) = 1 /\ Max(kept) = n
    <2>1. kept # {}
      BY <1>5
    <2>2. /\ Min(kept) \in kept /\ \A y \in kept : Min(kept) <= y
          /\ Max(kept) \in kept /\ \A y \in kept : y <= Max(kept)
      BY <1>4, <1>5, <2>1, Extremes
    <2>3. Min(kept) <= 1 /\ n <= Max(kept) /\ Min(kept) \in 1 .. n /\ Max(kept) \in 1 .. n
      BY <1>5, <2>2
    <2> QED
      BY <1>4, <2>3
  <1>7. TrimSpace(t) = t
    <2>1. TrimSpace(t) = IF kept = {} THEN <<>> ELSE SubSeq(t, Min(kept), Max(kept))
      BY DEF TrimSpace, kept, n
    <2> QED
      BY <1>4, <1>5, <1>6, <2>1
  <1> QED
    BY <1>1, <1>3, <1>7 DEF Normalized

Gap == <<Newline, Newline>>

(* Passages with one blank line between them are the blocks they make. *)
SplitsInto(ts) == LET s == SplitAt(Joined(ts, Gap)) IN
    /\ s.waits = FALSE /\ (ts # <<>> => Append(s.done, s.cur) = ts)
    /\ ts = <<>> => Joined(ts, Gap) = <<>>
    /\ ts # <<>> => Joined(ts, Gap) # <<>>

(* A passage more is joined behind one blank line. *)
LEMMA JoinedStep ==
  ASSUME NEW runes, Space \in runes, Newline \in runes,
         NEW ts \in Seq(CleanTexts(runes)), NEW t \in CleanTexts(runes),
         Joined(ts, Gap) \in Seq(runes),
         ts = <<>> => Joined(ts, Gap) = <<>>, ts # <<>> => Joined(ts, Gap) # <<>>
  PROVE  LET head == IF ts = <<>> THEN <<>> ELSE Joined(ts, Gap) \o Gap IN
         /\ head \in Seq(runes)
         /\ Joined(Append(ts, t), Gap) = head \o t
         /\ Joined(Append(ts, t), Gap) \in Seq(runes) /\ Joined(Append(ts, t), Gap) # <<>>
  <1> DEFINE J == Joined(ts, Gap)
             head == IF ts = <<>> THEN <<>> ELSE J \o Gap
             all == Joined(Append(ts, t), Gap)
  <1>1. t \in Seq(runes) /\ t # <<>>
    BY CleanTextIs
  <1>2. all = Join(Gap, J, t)
    BY JoinedAppend
  <1>3. Gap \in Seq(runes)
    BY DEF Gap
  <1> HIDE DEF J, all
  <1>4. head \in Seq(runes)
    BY <1>3 DEF J
  <1>5. all = head \o t
    <2>1. CASE ts = <<>>
      <3>1. all = t
        BY <1>2, <2>1 DEF Join, J
      <3>2. <<>> \o t = t
        BY <1>1
      <3> QED
        BY <2>1, <3>1, <3>2
    <2>2. CASE ts # <<>>
      BY <1>2, <2>2 DEF Join, J
    <2> QED
      BY <2>1, <2>2
  <1> HIDE DEF head
  <1>6. head \o t \in Seq(runes) /\ head \o t # <<>>
    BY <1>1, <1>4
  <1> QED
    BY <1>4, <1>5, <1>6 DEF head, J, all

(* A tidy source splits into its passages. *)
LEMMA JoinedIs ==
  ASSUME NEW runes, Space \in runes, Newline \in runes
  PROVE  \A ts \in Seq(CleanTexts(runes)) : Joined(ts, Gap) \in Seq(runes) /\ SplitsInto(ts)
  <1> DEFINE P == CleanTexts(runes)
             A == {ts \in Seq(P) : Joined(ts, Gap) \in Seq(runes) /\ SplitsInto(ts)}
  <1>1. <<>> \in A
    <2>1. Joined(<<>>, Gap) = <<>> /\ SplitAt(<<>>).waits = FALSE
      BY JoinedNothing, SplitNothing DEF NoBlocks
    <2>2. <<>> \in Seq(P) /\ <<>> \in Seq(runes)
      OBVIOUS
    <2> QED
      BY <2>1, <2>2 DEF SplitsInto
  <1>2. ASSUME NEW ts \in Seq(P), ts \in A, NEW t \in P
        PROVE  Append(ts, t) \in A
    <2> DEFINE J == Joined(ts, Gap)
               head == IF ts = <<>> THEN <<>> ELSE J \o Gap
               more == Append(ts, t)
               all == Joined(more, Gap)
               s == SplitAt(J)
               h == SplitAt(head)
    <2>1. /\ J \in Seq(runes) /\ s.waits = FALSE /\ (ts # <<>> => Append(s.done, s.cur) = ts)
          /\ (ts = <<>> => J = <<>>) /\ (ts # <<>> => J # <<>>)
      BY <1>2 DEF SplitsInto
    <2>2. /\ head \in Seq(runes) /\ all = head \o t /\ all \in Seq(runes) /\ all # <<>>
      <3>1. LET hd == IF ts = <<>> THEN <<>> ELSE Joined(ts, Gap) \o Gap IN
            /\ hd \in Seq(runes)
            /\ Joined(Append(ts, t), Gap) = hd \o t
            /\ Joined(Append(ts, t), Gap) \in Seq(runes) /\ Joined(Append(ts, t), Gap) # <<>>
        BY <2>1, JoinedStep, Zenon
      <3> QED
        BY <3>1
    <2>3. more \in Seq(P) /\ more # <<>>
      <3> HIDE DEF P, A
      <3>1. more \in Seq(P) /\ Len(more) = Len(ts) + 1 /\ Len(ts) \in Nat
        OBVIOUS
      <3> HIDE DEF more
      <3>2. more # <<>>
        BY <3>1
      <3> QED
        BY <3>1, <3>2
    <2>4. h.waits = FALSE /\ h.done = ts /\ h.cur = <<>>
      <3>1. CASE ts = <<>>
        BY <3>1, SplitNothing DEF NoBlocks
      <3>2. CASE ts # <<>>
        <4> DEFINE x == Append(J, Newline)
                   y == Append(x, Newline)
        <4>1. s \in SplitStates(runes)
          BY <2>1, SplitState
        <4>2. x \in Seq(runes) /\ y \in Seq(runes)
          BY <2>1
        <4>3. head = y
          <5>1. head = J \o Gap
            BY <3>2
          <5> HIDE DEF J
          <5>2. J \o Gap = y
            BY <2>1 DEF Gap
          <5> QED
            BY <5>1, <5>2
        <4>4. SplitAt(x) = Split(s, Newline)
          BY <2>1, SplitAppend
        <4> HIDE DEF x
        <4>5. SplitAt(y) = Split(SplitAt(x), Newline)
          BY <4>2, SplitAppend
        <4> HIDE DEF y, s, J, head
        <4> DEFINE u == SplitAt(x)
        <4>6. u.waits = TRUE /\ u.done = s.done /\ u.cur = s.cur
          <5>1. Split(s, Newline) = [s EXCEPT !.waits = TRUE]
            BY <2>1 DEF Split
          <5> QED
            BY <4>1, <4>4, <5>1 DEF SplitStates
        <4> HIDE DEF u
        <4>7. Split(u, Newline) = [done |-> Append(u.done, u.cur), cur |-> <<>>, waits |-> FALSE]
          BY <4>6 DEF Split
        <4> QED
          BY <2>1, <3>2, <4>3, <4>5, <4>6, <4>7 DEF h, u
      <3> QED
        BY <3>1, <3>2
    <2>5. t \in Seq(runes \ {Newline}) /\ t \in Seq(runes)
      BY CleanTextIs
    <2> HIDE DEF head, J, s, all, more, P, h
    <2>6. SplitAt(all) = [done |-> ts, cur |-> t, waits |-> FALSE]
      <3>1. SplitAt(head \o t) = [done |-> h.done, cur |-> h.cur \o t, waits |-> FALSE]
        BY <2>2, <2>4, <2>5, SplitOn DEF h
      <3>2. <<>> \o t = t
        BY <2>5
      <3> QED
        BY <2>2, <2>4, <3>1, <3>2
    <2>7. SplitsInto(more)
      <3>1. Append(ts, t) = more
        BY DEF more
      <3> QED
        BY <2>2, <2>3, <2>6, <3>1 DEF SplitsInto, all
    <2> QED
      BY <2>2, <2>3, <2>7 DEF all, more
  <1> HIDE DEF A, P
  <1>3. \A ts \in Seq(P) : ts \in A
    BY <1>1, <1>2, Appending
  <1> QED
    BY <1>3 DEF A, P

(* The passages found so far, of a source that begins with them. *)
Placed(runes, raw, ts) == LET acc == SegmentsAt(raw, ts) IN
    /\ acc.out \in Seq(Segments(runes))
    /\ acc.offset = IF ts = <<>> THEN 0 ELSE ByteLen(Joined(ts, Gap)) + 2
    /\ \A i \in DOMAIN acc.out :
         SliceByRunes(raw, acc.out[i].start, acc.out[i].end) = acc.out[i].text
BeginsWith(raw, t) == Len(t) <= Len(raw) /\ \A i \in 1 .. Len(t) : raw[i] = t[i]

(* What a source that begins with two texts has in their places. *)
LEMMA HeadOf ==
  ASSUME NEW T, NEW raw \in Seq(T), NEW a \in Seq(T), NEW b \in Seq(T), BeginsWith(raw, a \o b)
  PROVE  /\ BeginsWith(raw, a)
         /\ Len(a) + Len(b) <= Len(raw)
         /\ SubSeq(raw, 1, Len(a)) = a
         /\ SubSeq(raw, Len(a) + 1, Len(a) + Len(b)) = b
  <1> DEFINE n == Len(a)
             m == Len(b)
             both == a \o b
             front == SubSeq(raw, 1, n)
             back == SubSeq(raw, n + 1, n + m)
  <1>1. /\ n \in Nat /\ m \in Nat /\ Len(raw) \in Nat /\ Len(both) = n + m
        /\ \A i \in 1 .. n : both[i] = a[i] /\ i \in 1 .. n + m
        /\ \A i \in 1 .. m : both[n + i] = b[i] /\ n + i \in 1 .. n + m
    OBVIOUS
  <1> HIDE DEF both
  <1>2. n + m <= Len(raw) /\ \A i \in 1 .. n + m : raw[i] = both[i]
    BY <1>1 DEF BeginsWith, both
  <1>3. (\A i \in 1 .. n : raw[i] = a[i]) /\ \A i \in 1 .. m : raw[n + i] = b[i]
    BY <1>1, <1>2
  <1> HIDE DEF n, m
  <1>4. front \in Seq(T) /\ Len(front) = n /\ \A i \in 1 .. n : front[i] = raw[0 + i]
    <2>1. 0 \in Nat /\ n \in Nat /\ 0 <= n /\ n <= Len(raw) /\ 0 + 1 = 1 /\ n - 0 = n
      BY <1>1, <1>2
    <2>2. LET s == SubSeq(raw, 0 + 1, n) IN
          /\ s \in Seq(T) /\ Len(s) = n - 0
          /\ \A i \in 1 .. n - 0 : s[i] = raw[0 + i]
      BY <2>1, SubSeqAt
    <2> QED
      BY <2>1, <2>2
  <1>5. back \in Seq(T) /\ Len(back) = m /\ \A i \in 1 .. m : back[i] = raw[n + i]
    <2> DEFINE q == n + m
    <2>1. n \in Nat /\ q \in Nat /\ n <= q /\ q - n = m /\ q <= Len(raw)
      BY <1>1, <1>2
    <2> HIDE DEF q
    <2>2. LET s == SubSeq(raw, n + 1, q) IN
          /\ s \in Seq(T) /\ Len(s) = q - n
          /\ \A i \in 1 .. q - n : s[i] = raw[n + i]
      BY <2>1, SubSeqAt
    <2> QED
      BY <2>1, <2>2 DEF q
  <1> HIDE DEF front, back
  <1>6. front = a
    <2>1. Len(front) = Len(a) /\ \A i \in 1 .. Len(front) : front[i] = a[i]
      BY <1>1, <1>3, <1>4 DEF n
    <2> QED
      BY <1>4, <2>1, EqualRunes
  <1>7. back = b
    <2>1. Len(back) = Len(b) /\ \A i \in 1 .. Len(back) : back[i] = b[i]
      BY <1>3, <1>5 DEF m
    <2> QED
      BY <1>5, <2>1, EqualRunes
  <1>8. BeginsWith(raw, a)
    BY <1>1, <1>2, <1>3 DEF BeginsWith, n
  <1> QED
    BY <1>1, <1>2, <1>6, <1>7, <1>8 DEF front, back, n, m

(* One passage more is found where it stands. *)
LEMMA PlacedStep ==
  ASSUME NEW runes, Space \in runes, Newline \in runes, NEW raw \in Seq(runes),
         NEW ts \in Seq(CleanTexts(runes)), NEW t \in CleanTexts(runes),
         BeginsWith(raw, Joined(Append(ts, t), Gap)),
         BeginsWith(raw, Joined(ts, Gap)) => Placed(runes, raw, ts)
  PROVE  Placed(runes, raw, Append(ts, t))
  <1> DEFINE J == Joined(ts, Gap)
             head == IF ts = <<>> THEN <<>> ELSE J \o Gap
             more == Append(ts, t)
             all == Joined(more, Gap)
             acc == SegmentsAt(raw, ts)
             next == SegmentsAt(raw, more)
             n == Len(head)
             m == Len(t)
             segment == [ordinal |-> Len(acc.out) + 1, text |-> t, start |-> n, end |-> n + m]
  <1>1. /\ J \in Seq(runes) /\ (ts = <<>> => J = <<>>) /\ (ts # <<>> => J # <<>>)
    BY JoinedIs DEF SplitsInto
  <1>2. head \in Seq(runes) /\ all = head \o t /\ all \in Seq(runes)
    <2>1. LET hd == IF ts = <<>> THEN <<>> ELSE Joined(ts, Gap) \o Gap IN
          /\ hd \in Seq(runes)
          /\ Joined(Append(ts, t), Gap) = hd \o t
          /\ Joined(Append(ts, t), Gap) \in Seq(runes) /\ Joined(Append(ts, t), Gap) # <<>>
      BY <1>1, JoinedStep, Zenon
    <2> QED
      BY <2>1
  <1>3. t \in Seq(runes) /\ t # <<>> /\ TrimSpace(t) = t /\ Normalized(t) = t
    BY CleanTextIs
  <1>4. Gap \in Seq(runes) /\ Len(Gap) = 2 /\ ByteLen(Gap) = 2
    <2> DEFINE one == <<Newline>>
               two == <<Newline, Newline>>
    <2>1. one \in Seq(runes) /\ two \in Seq(runes) /\ one = Append(<<>>, Newline) /\ two = Append(one, Newline)
          /\ <<>> \in Seq(runes) /\ Len(two) = 2
      OBVIOUS
    <2>2. ByteLen(<<>>) = 0 /\ ByteLen(Append(<<>>, Newline)) = Count(ByteLen(<<>>), Newline)
      BY <2>1, BytesAppend
    <2> HIDE DEF one
    <2>3. ByteLen(Append(one, Newline)) = Count(ByteLen(one), Newline)
      BY <2>1, BytesAppend
    <2> HIDE DEF two
    <2>4. Count(0, Newline) = 1 /\ Count(1, Newline) = 2
      BY RuneAssumption DEF Count
    <2>5. ByteLen(two) = 2
      BY <2>1, <2>2, <2>3, <2>4
    <2> QED
      BY <2>1, <2>5 DEF Gap, two
  <1>5. \A s \in Seq(runes) : ByteLen(s) \in Nat
    BY BytesNat
  <1>6. /\ BeginsWith(raw, head) /\ n + m <= Len(raw)
        /\ SubSeq(raw, 1, n) = head /\ SubSeq(raw, n + 1, n + m) = t
    <2> HIDE DEF head, all
    <2>1. BeginsWith(raw, head \o t)
      BY <1>2 DEF all
    <2> QED
      BY <1>2, <1>3, <2>1, HeadOf
  <1>7. BeginsWith(raw, J)
    <2>1. CASE ts = <<>>
      BY <1>1, <2>1 DEF BeginsWith
    <2>2. CASE ts # <<>>
      <3>1. BeginsWith(raw, J \o Gap)
        BY <1>6, <2>2
      <3> HIDE DEF J
      <3> QED
        BY <1>1, <1>4, <3>1, HeadOf
    <2> QED
      BY <2>1, <2>2
  <1>8. Placed(runes, raw, ts)
    BY <1>7
  <1>9. /\ acc.out \in Seq(Segments(runes)) /\ acc.offset = ByteLen(head)
        /\ \A i \in DOMAIN acc.out :
             SliceByRunes(raw, acc.out[i].start, acc.out[i].end) = acc.out[i].text
    <2>1. ByteLen(head) = IF ts = <<>> THEN 0 ELSE ByteLen(J) + 2
      <3>1. CASE ts = <<>>
        <4>1. ByteLen(<<>>) = 0
          <5>1. \A r : <<>> \in Seq({r}) /\ r \in {r}
            OBVIOUS
          <5> QED
            BY <5>1, BytesAppend
        <4> QED
          BY <3>1, <4>1
      <3>2. CASE ts # <<>>
        <4>1. ByteLen(J \o Gap) = ByteLen(J) + ByteLen(Gap)
          <5> HIDE DEF J
          <5> QED
            BY <1>1, <1>4, BytesConcat
        <4> QED
          BY <1>4, <3>2, <4>1
      <3> QED
        BY <3>1, <3>2
    <2> HIDE DEF head, acc
    <2> QED
      BY <1>8, <2>1 DEF Placed, acc
  <1>10. n \in Nat /\ m \in Nat /\ Len(raw) \in Nat
    BY <1>2, <1>3
  <1>11. RuneOffset(raw, acc.offset) = n
    <2>1. n \in 0 .. Len(raw)
      BY <1>6, <1>10
    <2> HIDE DEF n, acc, head
    <2>2. RuneOffset(raw, ByteLen(SubSeq(raw, 1, n))) = n
      BY <2>1, RuneOffsetAt
    <2> QED
      BY <1>6, <1>9, <2>2
  <1>12. next = Segment(raw, acc, t)
    BY SegmentsStep
  <1> HIDE DEF next, acc, n, m, head, all
  <1>13. next.out = Append(acc.out, segment) /\ next.offset = acc.offset + ByteLen(t) + 2
    BY <1>3, <1>11, <1>12 DEF Segment, NextOffset, m
  <1>14. next.offset = ByteLen(all) + 2
    <2>1. ByteLen(head \o t) = ByteLen(head) + ByteLen(t)
      BY <1>2, <1>3, BytesConcat
    <2> QED
      BY <1>2, <1>9, <1>13, <2>1
  <1>15. segment \in Segments(runes)
    <2>1. Len(acc.out) \in Nat
      BY <1>9
    <2> QED
      BY <1>10, <2>1 DEF Segments
  <1>16. SliceByRunes(raw, segment.start, segment.end) = segment.text
    <2>1. SliceByRunes(raw, n, n + m) = SubSeq(raw, n + 1, n + m)
      BY <1>6, <1>10, SliceIsSubSeq
    <2> QED
      BY <1>6, <2>1
  <1> HIDE DEF segment
  <1>17. next.out \in Seq(Segments(runes))
         /\ \A i \in DOMAIN next.out :
              SliceByRunes(raw, next.out[i].start, next.out[i].end) = next.out[i].text
    <2> DEFINE S == Segments(runes)
               out == acc.out
               longer == next.out
               k == Len(out)
    <2>1. out \in Seq(S) /\ segment \in S /\ longer = Append(out, segment)
      BY <1>9, <1>13, <1>15
    <2> HIDE DEF S, out, longer
    <2>2. /\ longer \in Seq(S) /\ k \in Nat /\ DOMAIN out = 1 .. k /\ DOMAIN longer = 1 .. k + 1
          /\ longer[k + 1] = segment
          /\ \A i \in 1 .. k : longer[i] = out[i]
      BY <2>1
    <2> HIDE DEF k
    <2>3. ASSUME NEW i \in DOMAIN longer
          PROVE  SliceByRunes(raw, longer[i].start, longer[i].end) = longer[i].text
      <3>1. i \in 1 .. k \/ i = k + 1
        BY <2>2
      <3>2. CASE i \in 1 .. k
        BY <1>9, <2>2, <3>2 DEF out
      <3>3. CASE i = k + 1
        BY <1>16, <2>2, <3>3
      <3> QED
        BY <3>1, <3>2, <3>3
    <2> QED
      BY <2>2, <2>3 DEF S, longer
  <1>18. more # <<>>
    <2> DEFINE P == CleanTexts(runes)
    <2> HIDE DEF P
    <2>1. ts \in Seq(P) /\ t \in P
      BY DEF P
    <2>2. Len(more) = Len(ts) + 1 /\ Len(ts) \in Nat
      BY <2>1
    <2> HIDE DEF more
    <2> QED
      BY <2>2
  <1> HIDE DEF more
  <1>19. Placed(runes, raw, more)
    BY <1>14, <1>17, <1>18 DEF Placed, next, all
  <1> QED
    BY <1>19 DEF more

(* All passages a source begins with are found where they stand. *)
LEMMA AllPlaced ==
  ASSUME NEW runes, Space \in runes, Newline \in runes, NEW raw \in Seq(runes)
  PROVE  \A ts \in Seq(CleanTexts(runes)) :
           BeginsWith(raw, Joined(ts, Gap)) => Placed(runes, raw, ts)
  <1> DEFINE P == CleanTexts(runes)
             A == {ts \in Seq(P) : BeginsWith(raw, Joined(ts, Gap)) => Placed(runes, raw, ts)}
  <1>1. <<>> \in A
    <2>1. \A r : <<>> \in Seq({r}) /\ r \in {r}
      OBVIOUS
    <2>2. SegmentsAt(raw, <<>>) = [offset |-> 0, out |-> <<>>]
      BY <2>1, SegmentsStep
    <2>3. Placed(runes, raw, <<>>)
      <3> DEFINE acc == SegmentsAt(raw, <<>>)
      <3>1. acc.out = <<>> /\ acc.offset = 0
        BY <2>2
      <3> HIDE DEF acc
      <3>2. acc.out \in Seq(Segments(runes)) /\ DOMAIN acc.out = {}
        BY <3>1
      <3> QED
        BY <3>1, <3>2 DEF Placed, acc
    <2>4. <<>> \in Seq(P)
      OBVIOUS
    <2> QED
      BY <2>3, <2>4
  <1>2. ASSUME NEW ts \in Seq(P), ts \in A, NEW t \in P
        PROVE  Append(ts, t) \in A
    <2> SUFFICES ASSUME BeginsWith(raw, Joined(Append(ts, t), Gap))
                 PROVE  Append(ts, t) \in Seq(P) /\ Placed(runes, raw, Append(ts, t))
      OBVIOUS
    <2>1. BeginsWith(raw, Joined(ts, Gap)) => Placed(runes, raw, ts)
      BY <1>2
    <2>2. Placed(runes, raw, Append(ts, t))
      BY <2>1, PlacedStep
    <2>3. Append(ts, t) \in Seq(P)
      <3> HIDE DEF P, A
      <3> QED
        OBVIOUS
    <2> QED
      BY <2>2, <2>3
  <1> HIDE DEF A, P
  <1>3. \A ts \in Seq(P) : ts \in A
    BY <1>1, <1>2, Appending
  <1> QED
    BY <1>3 DEF A, P

(* Segmentation again: in a source that is its passages, one blank line     *)
(* between, each passage stands where its offsets say (SegmentByParagraph  *)
(* counts them in bytes and converts, RuneOffset).                         *)
THEOREM SegmentationPlaces ==
  ASSUME NEW runes, Space \in runes, Newline \in runes, NEW raw \in Seq(runes),
         raw = Joined(TextsOf(SegmentByParagraph(raw)), Gap)
  PROVE  LET segments == SegmentByParagraph(raw) IN
         \A i \in DOMAIN segments :
           SliceByRunes(raw, segments[i].start, segments[i].end) = segments[i].text
  <1> DEFINE segments == SegmentByParagraph(raw)
             ts == TextsOf(segments)
             s == SplitAt(raw)
  <1>1. segments \in Seq(Segments(runes))
    BY SegmentationKeepsWords
  <1>2. ts \in Seq(CleanTexts(runes)) /\ DOMAIN ts = DOMAIN segments
    <2> HIDE DEF segments
    <2>1. \A i \in DOMAIN segments : segments[i].text \in CleanTexts(runes)
      <3>1. \A i \in DOMAIN segments : segments[i] \in Segments(runes)
        BY <1>1
      <3> QED
        BY <3>1 DEF Segments
    <2>2. DOMAIN segments = 1 .. Len(segments) /\ Len(segments) \in Nat
      BY <1>1
    <2> QED
      BY <2>1, <2>2 DEF TextsOf
  <1>3. segments = SegmentsAt(raw, Blocks(raw)).out
    BY SegmentsFold
  <1>4. Joined(ts, Gap) = raw /\ SplitsInto(ts)
    BY <1>2, JoinedIs
  <1> HIDE DEF segments, ts, s
  <1>5. ASSUME ts # <<>>
        PROVE  Blocks(raw) = ts
    <2>1. s.waits = FALSE /\ Append(s.done, s.cur) = ts
      BY <1>4, <1>5 DEF SplitsInto, s
    <2>2. Blocks(raw) = Append(s.done, Ended(s))
      BY BlocksSplit DEF s
    <2>3. s \in SplitStates(runes)
      BY SplitState DEF s
    <2>4. Ended(s) = s.cur
      <3>1. s.cur \in Seq(runes)
        BY <2>3 DEF SplitStates
      <3> DEFINE cur == s.cur
      <3> HIDE DEF cur
      <3>2. cur \o <<>> = cur
        BY <3>1 DEF cur
      <3> QED
        BY <2>1, <3>2 DEF Ended, cur
    <2> QED
      BY <2>1, <2>2, <2>4
  <1>6. BeginsWith(raw, Joined(ts, Gap))
    <2>1. Len(raw) \in Nat
      OBVIOUS
    <2> QED
      BY <1>4, <2>1 DEF BeginsWith
  <1>7. Placed(runes, raw, ts)
    BY <1>2, <1>6, AllPlaced
  <1>8. CASE ts = <<>>
    BY <1>2, <1>8 DEF segments
  <1>9. CASE ts # <<>>
    <2>1. segments = SegmentsAt(raw, ts).out
      BY <1>3, <1>5, <1>9
    <2> QED
      BY <1>7, <2>1 DEF Placed, segments
  <1> QED
    BY <1>8, <1>9

=============================================================================
