--------------------------- MODULE EditionProofs ---------------------------
(***************************************************************************)
(* Theorems about the edition: from sources of any length to the edited    *)
(* base, for any number of witnesses.                                      *)
(***************************************************************************)
EXTENDS Edition, AlignmentProofs

(* The loop of applyEdits. *)
Editing == INSTANCE FoldProofs WITH Op <- ApplyEdit

-----------------------------------------------------------------------------
(* What a run keeps. *)

AllRunes == Runes \cup {Newline}
Ids == AllTexts \X Nat
Items == PassageItems(AllRunes, Ids)

(* A passage list as an import leaves it. *)
Imported(ps) ==
    /\ ps \in Seq(Items) /\ InOrder(ps) /\ DistinctIds(ps)
    /\ \A i \in DOMAIN ps : ps[i].text \in CleanTexts(AllRunes)

(* Importing a source numbers its passages from 1 under ids of their own. *)
LEMMA PassagesImported ==
  ASSUME NEW w \in AllTexts, NEW raw \in Seq(AllRunes)
  PROVE  Imported(Passages(w, raw))
  <1> DEFINE segments == SegmentByParagraph(raw)
             ps == Passages(w, raw)
             n == Len(segments)
  <1>1. /\ segments \in Seq(Segments(AllRunes))
        /\ \A i \in DOMAIN segments : segments[i].ordinal = i
    <2>1. Space \in AllRunes /\ Newline \in AllRunes
      BY DEF AllRunes, Runes
    <2> QED
      BY <2>1, SegmentationKeepsWords
  <1>2. ps = [i \in DOMAIN segments |->
                [id |-> <<w, i>>, ordinal |-> segments[i].ordinal, text |-> segments[i].text]]
    BY DEF Passages
  <1> HIDE DEF segments, ps
  <1>3. n \in Nat /\ DOMAIN segments = 1 .. n /\ \A i \in 1 .. n : segments[i] \in Segments(AllRunes)
    BY <1>1
  <1> HIDE DEF n
  <1>4. ASSUME NEW i \in 1 .. n
        PROVE  /\ ps[i] \in Items /\ ps[i].id = <<w, i>> /\ ps[i].ordinal = i
               /\ ps[i].text \in CleanTexts(AllRunes)
    <2>1. ps[i] = [id |-> <<w, i>>, ordinal |-> i, text |-> segments[i].text]
      BY <1>1, <1>2, <1>3
    <2>2. segments[i].text \in CleanTexts(AllRunes)
      BY <1>3 DEF Segments
    <2>3. Space \in AllRunes
      BY DEF AllRunes, Runes
    <2>4. segments[i].text \in Seq(AllRunes) \ {<<>>}
      BY <2>2, <2>3, CleanTextsAre
    <2>5. <<w, i>> \in Ids /\ i \in Nat
      BY <1>3 DEF Ids
    <2> QED
      BY <2>1, <2>2, <2>4, <2>5 DEF Items, PassageItems
  <1>5. ps \in Seq(Items) /\ DOMAIN ps = 1 .. n
    <2>1. DOMAIN ps = 1 .. n
      BY <1>2, <1>3
    <2>2. ps = [i \in 1 .. n |-> ps[i]]
      BY <1>2, <1>3
    <2> DEFINE I == Items
    <2> HIDE DEF I
    <2>3. \A i \in 1 .. n : ps[i] \in I
      BY <1>4 DEF I
    <2>4. ps \in Seq(I)
      BY <1>3, <2>2, <2>3
    <2> QED
      BY <2>1, <2>4 DEF I
  <1>6. InOrder(ps)
    BY <1>4, <1>5 DEF InOrder
  <1>7. DistinctIds(ps)
    BY <1>4, <1>5 DEF DistinctIds
  <1> QED
    BY <1>4, <1>5, <1>6, <1>7 DEF Imported, ps

(* What a run keeps: everything follows from the sources, and a decision   *)
(* is about one proposal.                                                  *)
IsDecision(a) ==
    /\ a.witness \in Witnesses /\ a.index \in DOMAIN proposals[a.witness]
    /\ a.text \in Readings(Variant(a))

EditionInv ==
    /\ source \in [AllTexts -> Seq(AllRunes)]
    /\ passages = [w \in AllTexts |-> Passages(w, source[w])]
    /\ DOMAIN proposals = Witnesses
    /\ \A w \in Witnesses : proposals[w] \in {<<>>, AlignWitness(passages[Base], passages[w])}
    /\ IsFiniteSet(approved)
    /\ \A a \in approved : IsDecision(a)

(* Imports establish the invariant. *)
LEMMA InitEdition == Init => EditionInv
  <1> SUFFICES ASSUME Init
               PROVE  EditionInv
    OBVIOUS
  <1>1. \A w \in AllTexts : Sources[w] \subseteq Seq(Runes)
    BY SourceAssumption
  <1>2. Runes \in SUBSET AllRunes
    BY DEF AllRunes
  <1>3. \A t \in Seq(Runes) : t \in Seq(AllRunes)
    <2> HIDE DEF Runes, AllRunes
    <2> QED
      BY <1>2
  <1>4. source \in [AllTexts -> Seq(AllRunes)]
    BY <1>1, <1>3 DEF Init
  <1>5. DOMAIN proposals = Witnesses /\ \A w \in Witnesses : proposals[w] = <<>>
    BY DEF Init
  <1>6. approved = {} /\ IsFiniteSet(approved)
    BY FS_EmptySet DEF Init
  <1> QED
    BY <1>4, <1>5, <1>6 DEF Init, EditionInv

(* An alignment keeps the invariant. *)
LEMMA AlignKeeps ==
  ASSUME EditionInv, NEW w \in Witnesses, Align(w)
  PROVE  EditionInv'
  <1> DEFINE new == AlignWitness(passages[Base], passages[w])
  <1>1. /\ proposals' = [proposals EXCEPT ![w] = new] /\ proposals[w] = <<>>
        /\ UNCHANGED <<source, passages, approved>>
    BY DEF Align
  <1>2. DOMAIN proposals = Witnesses /\ DOMAIN proposals' = Witnesses /\ proposals'[w] = new
        /\ \A u \in Witnesses : u # w => proposals'[u] = proposals[u]
    BY <1>1 DEF EditionInv
  <1> HIDE DEF new
  <1>3. ASSUME NEW u \in Witnesses
        PROVE  proposals'[u] \in {<<>>, AlignWitness(passages'[Base], passages'[u])}
    BY <1>1, <1>2 DEF EditionInv, new
  <1>4. ASSUME NEW a \in approved
        PROVE  IsDecision(a)'
    <2>1. IsDecision(a)
      BY DEF EditionInv
    <2>2. a.witness \in Witnesses /\ a.witness # w
      BY <1>1, <2>1 DEF IsDecision
    <2>3. proposals'[a.witness] = proposals[a.witness]
      BY <1>2, <2>2
    <2> QED
      BY <2>1, <2>3 DEF IsDecision, Variant
  <1> QED
    BY <1>1, <1>2, <1>3, <1>4 DEF EditionInv

(* An approval keeps it: the decision is for a reading of its variant. *)
LEMMA ApproveKeeps ==
  ASSUME EditionInv, NEW w \in Witnesses, NEW i \in DOMAIN proposals[w],
         NEW reading \in Readings(proposals[w][i]), Approve(w, i, reading)
  PROVE  EditionInv'
  <1>1. PICK nth \in 1 .. MaxDecisions :
          approved' = approved \cup {[witness |-> w, index |-> i, nth |-> nth, text |-> reading]}
    BY DEF Approve
  <1> DEFINE new == [witness |-> w, index |-> i, nth |-> nth, text |-> reading]
  <1>2. approved' = approved \cup {new} /\ UNCHANGED <<source, passages, proposals>>
    BY <1>1 DEF Approve
  <1>3. IsDecision(new)
    BY DEF IsDecision, Variant
  <1> HIDE DEF new
  <1>4. IsFiniteSet(approved')
    <2>1. IsFiniteSet(approved)
      BY DEF EditionInv
    <2> QED
      BY <1>2, <2>1, FS_AddElement
  <1>5. \A a : IsDecision(a) => IsDecision(a)'
    BY <1>2 DEF IsDecision, Variant
  <1>6. \A a \in approved' : IsDecision(a)'
    BY <1>2, <1>3, <1>5 DEF EditionInv
  <1> QED
    BY <1>2, <1>4, <1>6 DEF EditionInv

(* Every run keeps it: no later alignment or approval touches the imported *)
(* passages, and a proposal once stored stays (RunAlignment, ProposeDecision). *)
THEOREM EditionInvariant == Spec => []EditionInv
  <1>1. Init => EditionInv
    BY InitEdition
  <1>2. EditionInv /\ [Next]_vars => EditionInv'
    <2> SUFFICES ASSUME EditionInv, [Next]_vars
                 PROVE  EditionInv'
      OBVIOUS
    <2>1. CASE \E w \in Witnesses : Align(w)
      BY <2>1, AlignKeeps
    <2>2. CASE \E w \in Witnesses : \E i \in DOMAIN proposals[w] :
                 \E reading \in Readings(proposals[w][i]) : Approve(w, i, reading)
      BY <2>2, ApproveKeeps
    <2>3. CASE UNCHANGED vars
      BY <2>3 DEF vars, EditionInv, IsDecision, Variant
    <2> QED
      BY <2>1, <2>2, <2>3 DEF Next
  <1> QED
    BY <1>1, <1>2, PTL DEF Spec

(* What the invariant says of one witness. *)
LEMMA ImportedTexts ==
  ASSUME EditionInv, NEW w \in AllTexts
  PROVE  Imported(passages[w]) /\ source[w] \in Seq(AllRunes) /\ passages[w] = Passages(w, source[w])
  <1>1. source[w] \in Seq(AllRunes) /\ passages[w] = Passages(w, source[w])
    BY DEF EditionInv
  <1> QED
    BY <1>1, PassagesImported

(* AlignedOne, of the proposals of a witness. *)
LEMMA Aligned ==
  ASSUME EditionInv, NEW w \in Witnesses, proposals[w] # <<>>
  PROVE  LET vs == proposals[w]
             base == passages[Base]
             ws == passages[w] IN
         /\ base \in Seq(Items) /\ ws \in Seq(Items) /\ DistinctIds(base)
         /\ \A k \in DOMAIN vs :
              \/ vs[k].passage = NoPassage
              \/ \E i \in DOMAIN base : vs[k].passage = base[i].id /\ IsAbout(vs[k], base, ws, i)
         /\ \A i \in DOMAIN base :
              \/ i <= Len(ws) /\ base[i].text = ws[i].text
              \/ \E k \in DOMAIN vs : vs[k].passage = base[i].id
         /\ \A k, l \in DOMAIN vs : vs[k].passage = vs[l].passage /\ vs[k].passage # NoPassage => k = l
  <1> DEFINE base == passages[Base]
             ws == passages[w]
  <1>1. Imported(base) /\ Imported(ws)
    <2>1. Base \in AllTexts /\ w \in AllTexts
      BY DEF AllTexts
    <2> QED
      BY <2>1, ImportedTexts
  <1>2. proposals[w] = AlignWitness(base, ws)
    BY DEF EditionInv
  <1> HIDE DEF base, ws
  <1>3. base \in Seq(Items) /\ ws \in Seq(Items) /\ InOrder(base) /\ InOrder(ws) /\ DistinctIds(base)
    BY <1>1 DEF Imported
  <1>4. NoPassage \notin Ids
    BY NoPassageAssumption DEF Ids
  <1>5. LET vs == AlignWitness(base, ws) IN
         /\ \A k \in DOMAIN vs :
              \/ vs[k].passage = NoPassage
              \/ \E i \in DOMAIN base : vs[k].passage = base[i].id /\ IsAbout(vs[k], base, ws, i)
         /\ \A i \in DOMAIN base :
              \/ i <= Len(ws) /\ base[i].text = ws[i].text
              \/ \E k \in DOMAIN vs : vs[k].passage = base[i].id
         /\ \A k, l \in DOMAIN vs : vs[k].passage = vs[l].passage /\ vs[k].passage # NoPassage => k = l
    BY <1>3, <1>4, AlignedOne, Zenon DEF Items
  <1> QED
    BY <1>2, <1>3, <1>5, Zenon DEF base, ws

(* What a proposal is about: nothing of the base, or exactly the passage    *)
(* it names.                                                               *)
LEMMA AboutOne ==
  ASSUME EditionInv, NEW w \in Witnesses, NEW k \in DOMAIN proposals[w],
         proposals[w][k].passage # NoPassage
  PROVE  LET base == passages[Base]
             v == proposals[w][k] IN
         \E i \in DOMAIN base :
            /\ v.passage = base[i].id /\ PassageOf(v.passage) = base[i]
            /\ IsAbout(v, base, passages[w], i)
  <1> DEFINE base == passages[Base]
             ws == passages[w]
             vs == proposals[w]
             v == vs[k]
  <1>1. vs # <<>>
    OBVIOUS
  <1>2. base \in Seq(Items) /\ DistinctIds(base)
    BY <1>1, Aligned
  <1>3. \A l \in DOMAIN vs :
          \/ vs[l].passage = NoPassage
          \/ \E i \in DOMAIN base : vs[l].passage = base[i].id /\ IsAbout(vs[l], base, ws, i)
    BY <1>1, Aligned, Zenon
  <1> HIDE DEF base, ws, vs
  <1>5. PICK i \in DOMAIN base : v.passage = base[i].id /\ IsAbout(v, base, ws, i)
    BY <1>3 DEF vs
  <1>4. PassageOf(base[i].id) = base[i]
    <2>1. ToSet(base) = {base[j] : j \in DOMAIN base}
      BY <1>2 DEF ToSet
    <2>2. \A p \in ToSet(base) : p.id = base[i].id => p = base[i]
      BY <1>2, <2>1 DEF DistinctIds
    <2>3. base[i] \in ToSet(base)
      BY <2>1
    <2> QED
      BY <2>2, <2>3 DEF PassageOf, base
  <1> QED
    BY <1>4, <1>5 DEF base, ws, vs

(* A proposal about a base passage has a range in it. *)
LEMMA AboutIs ==
  ASSUME EditionInv, NEW w \in Witnesses, NEW k \in DOMAIN proposals[w],
         proposals[w][k].passage # NoPassage
  PROVE  LET v == proposals[w][k]
             p == PassageOf(v.passage) IN
         /\ p \in Items /\ p.id = v.passage
         /\ v.type \in {"word", "addition", "omission"}
         /\ v.start \in Nat /\ v.end \in Nat /\ v.start <= v.end /\ v.end <= Len(p.text)
         /\ v.type = "addition" <=> v.start = v.end
         /\ v.type = "omission" <=> v.alt = <<>>
  <1> DEFINE base == passages[Base]
             ws == passages[w]
             v == proposals[w][k]
  <1>1. PICK i \in DOMAIN base : /\ v.passage = base[i].id /\ PassageOf(v.passage) = base[i]
                                 /\ IsAbout(v, base, ws, i)
    BY AboutOne
  <1>2. base \in Seq(Items) /\ ws \in Seq(Items)
    <2>1. Base \in AllTexts /\ w \in AllTexts
      BY DEF AllTexts
    <2> QED
      BY <2>1, ImportedTexts DEF Imported
  <1> HIDE DEF base, ws, v
  <1>3. base[i] \in Items /\ Len(base[i].text) \in Nat /\ Len(base[i].text) > 0
    <2>1. base[i] \in Items
      BY <1>2
    <2> DEFINE t == base[i].text
    <2>2. t \in Seq(AllRunes) /\ t # <<>>
      BY <2>1 DEF Items, PassageItems
    <2> HIDE DEF t
    <2>3. Len(t) \in Nat /\ Len(t) > 0
      BY <2>2
    <2> QED
      BY <2>1, <2>3 DEF t
  <1>4. CASE i <= Len(ws)
    <2>1. ws[i] \in Items
      <3>1. i \in 1 .. Len(ws)
        BY <1>2, <1>4
      <3> QED
        BY <1>2, <3>1
    <2>2. base[i].text # ws[i].text /\ DiffProposals(base[i], ws[i]) = <<v>>
      BY <1>1, <1>4 DEF IsAbout
    <2>3. IsDifference(DiffProposals(base[i], ws[i])[1], base[i], ws[i])
      BY <1>3, <2>1, <2>2, DifferenceIs, Zenon DEF Items
    <2>4. <<v>>[1] = v
      OBVIOUS
    <2>5. IsDifference(v, base[i], ws[i])
      BY <2>2, <2>3, <2>4
    <2> QED
      BY <1>1, <1>3, <2>5 DEF IsDifference, v
  <1>5. CASE ~(i <= Len(ws))
    <2>1. v = WholePassage(base[i], "omission")
      BY <1>1, <1>5 DEF IsAbout
    <2>2. v.start = 0 /\ v.end = Len(base[i].text) /\ v.type = "omission" /\ v.alt = <<>>
      BY <2>1 DEF WholePassage
    <2> QED
      BY <1>1, <1>3, <2>2 DEF v
  <1> QED
    BY <1>4, <1>5

(* What has been proposed has the shape of proposals. *)
LEMMA ProposalsTyped ==
  ASSUME EditionInv
  PROVE  \A w \in Witnesses : proposals[w] \in Seq(Proposals(AllRunes, Ids))
  <1> TAKE w \in Witnesses
  <1> DEFINE base == passages[Base]
             ws == passages[w]
             V == Proposals(AllRunes, Ids)
  <1>1. base \in Seq(Items) /\ ws \in Seq(Items)
    <2>1. Base \in AllTexts /\ w \in AllTexts
      BY DEF AllTexts
    <2> QED
      BY <2>1, ImportedTexts DEF Imported
  <1>2. proposals[w] \in {<<>>, AlignWitness(base, ws)}
    BY DEF EditionInv
  <1> HIDE DEF base, ws
  <1>3. AlignWitness(base, ws) \in Seq(Fitting(AllRunes, Ids, base, ws))
    BY <1>1, LociFitWitness DEF Items
  <1>4. Fitting(AllRunes, Ids, base, ws) \in SUBSET V
    BY DEF Fitting
  <1> DEFINE F == Fitting(AllRunes, Ids, base, ws)
  <1> HIDE DEF F, V
  <1>5. AlignWitness(base, ws) \in Seq(V)
    <2>1. AlignWitness(base, ws) \in Seq(F) /\ F \in SUBSET V
      BY <1>3, <1>4 DEF F
    <2> DEFINE all == AlignWitness(base, ws)
    <2> HIDE DEF all
    <2>2. all \in Seq(F) => all \in Seq(V)
      BY <2>1
    <2> QED
      BY <2>1, <2>2 DEF all
  <1>6. proposals[w] \in Seq(V)
    <2>1. <<>> \in Seq(V)
      OBVIOUS
    <2> QED
      BY <1>2, <1>5, <2>1
  <1> QED
    BY <1>6 DEF V

(* Every proposal names runes its passage has, whatever the texts: the     *)
(* ranges alignWitness (interval.go) stores are those of DiffText.           *)
THEOREM ProposalsFit == Spec => []TypeOK
  <1>1. EditionInv => TypeOK
    <2> SUFFICES ASSUME EditionInv, NEW w \in Witnesses, NEW i \in DOMAIN proposals[w]
                 PROVE  LET v == proposals[w][i] IN
                        /\ v.type \in {"word", "addition", "omission", "movement"}
                        /\ InBase(v) =>
                             /\ v.start \in 0 .. Len(PassageOf(v.passage).text)
                             /\ v.type # "addition" => IsValidRange(Len(PassageOf(v.passage).text), v.start, v.end)
                             /\ v.type = "addition" => v.start = v.end
      BY DEF TypeOK
    <2> DEFINE v == proposals[w][i]
               p == PassageOf(v.passage)
               n == Len(p.text)
    <2>1. v.type \in {"word", "addition", "omission", "movement"}
      <3> DEFINE V == Proposals(AllRunes, Ids)
      <3>1. proposals[w] \in Seq(V)
        BY ProposalsTyped
      <3>2. \A u \in V : u.type \in {"word", "addition", "omission", "movement"}
        BY DEF Proposals, VariantTypes
      <3> HIDE DEF V
      <3>3. proposals[w][i] \in V
        BY <3>1
      <3> QED
        BY <3>2, <3>3
    <2>2. ASSUME v.passage # NoPassage
          PROVE  /\ v.start \in 0 .. n
                 /\ v.type # "addition" => IsValidRange(n, v.start, v.end)
                 /\ v.type = "addition" => v.start = v.end
      <3>1. /\ v.start \in Nat /\ v.end \in Nat /\ v.start <= v.end /\ v.end <= n
            /\ v.type = "addition" <=> v.start = v.end
            /\ p \in Items
        BY <2>2, AboutIs, Zenon
      <3>2. n \in Nat
        BY <3>1 DEF Items, PassageItems
      <3> HIDE DEF v, n
      <3> QED
        BY <3>1, <3>2 DEF IsValidRange
    <2> QED
      BY <2>1, <2>2 DEF InBase
  <1> QED
    BY <1>1, EditionInvariant, PTL

(* Segmentation loses no word and leaves no newline in a passage           *)
(* (SegmentByParagraph, segment.go).                                       *)
THEOREM WordsKept == Spec => []SegmentsKeepWords
  <1>1. EditionInv => SegmentsKeepWords
    <2> SUFFICES ASSUME EditionInv, NEW w \in AllTexts
                 PROVE  LET texts == [i \in DOMAIN passages[w] |-> passages[w][i].text] IN
                        /\ FlattenSeq([i \in DOMAIN texts |-> Fields(texts[i])]) = Fields(source[w])
                        /\ \A i \in DOMAIN texts : texts[i] # <<>> /\ ~Contains(texts[i], Newline)
      BY DEF SegmentsKeepWords
    <2> DEFINE raw == source[w]
               ps == passages[w]
               segments == SegmentByParagraph(raw)
               texts == [i \in DOMAIN ps |-> ps[i].text]
    <2>1. raw \in Seq(AllRunes) /\ Imported(ps) /\ ps = Passages(w, raw)
      BY ImportedTexts
    <2>2. WordsOf(TextsOf(segments)) = Fields(raw)
      <3>1. Space \in AllRunes /\ Newline \in AllRunes
        BY DEF AllRunes, Runes
      <3> QED
        BY <2>1, <3>1, SegmentationKeepsWords
    <2>3. texts = TextsOf(segments)
      <3>1. Passages(w, raw) = [i \in DOMAIN segments |->
                [id |-> <<w, i>>, ordinal |-> segments[i].ordinal, text |-> segments[i].text]]
        BY DEF Passages
      <3> HIDE DEF segments, ps
      <3> QED
        BY <2>1, <3>1 DEF TextsOf
    <2> HIDE DEF raw, ps, segments
    <2>4. ASSUME NEW i \in DOMAIN texts
          PROVE  texts[i] # <<>> /\ ~Contains(texts[i], Newline)
      <3> DEFINE t == texts[i]
      <3>1. t \in CleanTexts(AllRunes)
        BY <2>1 DEF Imported
      <3> HIDE DEF t
      <3>2. t \in Seq(Letters(AllRunes) \cup {Space}) /\ t # <<>>
        BY <3>1 DEF CleanTexts
      <3>3. Newline \notin Letters(AllRunes) \cup {Space}
        BY RuneAssumption DEF Letters, IsSpace
      <3> DEFINE L == Letters(AllRunes) \cup {Space}
      <3> HIDE DEF L
      <3>4. t \in Seq(L) /\ Newline \notin L
        BY <3>2, <3>3 DEF L
      <3>5. ~Contains(t, Newline)
        BY <3>4 DEF Contains
      <3> QED
        BY <3>2, <3>5 DEF t
    <2> HIDE DEF texts
    <2> QED
      BY <2>2, <2>3, <2>4 DEF WordsOf, texts, ps, raw
  <1> QED
    BY <1>1, EditionInvariant, PTL

(* A passage of a source with one blank line between its blocks is found at *)
(* its rune offsets, although SegmentByParagraph (segment.go) keeps its    *)
(* place in bytes.                                                         *)
THEOREM PassagesPlaced == Spec => []OffsetsExact
  <1>1. EditionInv => OffsetsExact
    <2> SUFFICES ASSUME EditionInv, NEW w \in AllTexts
                 PROVE  LET segments == SegmentByParagraph(source[w])
                            tidy == Joined([i \in DOMAIN segments |-> segments[i].text], <<Newline, Newline>>)
                        IN source[w] = tidy =>
                             \A i \in DOMAIN segments :
                                 SliceByRunes(source[w], segments[i].start, segments[i].end) = segments[i].text
      BY DEF OffsetsExact
    <2> DEFINE raw == source[w]
               segments == SegmentByParagraph(raw)
    <2>1. raw \in Seq(AllRunes) /\ Space \in AllRunes /\ Newline \in AllRunes
      BY DEF EditionInv, AllRunes, Runes
    <2> HIDE DEF raw
    <2>2. ASSUME raw = Joined(TextsOf(segments), Gap)
          PROVE  \A i \in DOMAIN segments :
                   SliceByRunes(raw, segments[i].start, segments[i].end) = segments[i].text
      BY <2>1, <2>2, SegmentationPlaces
    <2> HIDE DEF segments
    <2> QED
      BY <2>2 DEF raw, segments, TextsOf, Gap
  <1> QED
    BY <1>1, EditionInvariant, PTL

-----------------------------------------------------------------------------
(* Edits. *)

Edits(runes) == [start : Nat, end : Nat, adopted : Seq(runes)]
Unedited == [out |-> <<>>, cursor |-> 0]
EditedAt(base, listed) == Editing!Fold(base, Unedited, listed)

(* applyEdits is its loop, and the base behind the cursor. *)
LEMMA ApplyFold ==
  ASSUME NEW base, NEW edits
  PROVE  ApplyEdits(base, edits) =
           EditedAt(base, ByStart(edits)).out
             \o SliceByRunes(base, EditedAt(base, ByStart(edits)).cursor, Len(base))
  BY DEF ApplyEdits, FoldLeft, MapThenFoldSet, Max, EditedAt, Unedited, Editing!Fold, Editing!FoldLeft,
         Editing!MapThenFoldSet, Editing!Max

(* An edit more is a step of the loop more. *)
LEMMA EditStep ==
  ASSUME NEW base, NEW T, NEW listed \in Seq(T), NEW e \in T
  PROVE  /\ EditedAt(base, <<>>) = Unedited
         /\ EditedAt(base, Append(listed, e)) = ApplyEdit(base, EditedAt(base, listed), e)
  BY Editing!FoldNothing, Editing!FoldStep DEF EditedAt

(* A single edit is sorted. *)
LEMMA SortedOne ==
  ASSUME NEW e, e.start \in Nat
  PROVE  ByStart(<<e>>) = <<e>>
  <1> DEFINE edits == <<e>>
             Before(i) == {j \in DOMAIN edits : Precedes(edits, j, i)}
  <1>1. DOMAIN edits = {1} /\ edits[1] = e
    OBVIOUS
  <1> HIDE DEF edits
  <1>2. edits = <<e>>
    BY DEF edits
  <1>3. Before(1) = {}
    BY <1>1 DEF Precedes
  <1>4. Cardinality(Before(1)) = 0
    BY <1>3, FS_EmptySet
  <1>5. (CHOOSE i \in DOMAIN edits : Cardinality(Before(i)) = 1 - 1) = 1
    <2> HIDE DEF Before
    <2> QED
      BY <1>1, <1>4
  <1>6. ByStart(edits) = [k \in {1} |-> edits[CHOOSE i \in DOMAIN edits : Cardinality(Before(i)) = k - 1]]
    BY <1>1 DEF ByStart
  <1> HIDE DEF Before
  <1>7. ByStart(edits) = [k \in {1} |-> e]
    BY <1>1, <1>5, <1>6
  <1>8. <<e>> = [k \in {1} |-> e]
    OBVIOUS
  <1> QED
    BY <1>2, <1>7, <1>8

(* Nothing is edited by no edits, and one edit replaces its range. *)
LEMMA ApplyNone ==
  ASSUME NEW T, NEW base \in Seq(T)
  PROVE  ApplyEdits(base, <<>>) = base
  <1>1. ByStart(<<>>) = <<>>
    BY DEF ByStart
  <1>2. EditedAt(base, <<>>) = Unedited
    <2>1. \A x : <<>> \in Seq({x}) /\ x \in {x}
      OBVIOUS
    <2> QED
      BY <2>1, EditStep
  <1>3. SliceByRunes(base, 0, Len(base)) = base
    <2>1. Len(base) \in Nat /\ 0 <= Len(base) /\ SubSeq(base, 0 + 1, Len(base)) = base
      OBVIOUS
    <2> QED
      BY <2>1, SliceIsSubSeq
  <1> DEFINE last == EditedAt(base, <<>>)
  <1>4. last.out = <<>> /\ last.cursor = 0
    BY <1>2 DEF Unedited
  <1>5. ApplyEdits(base, <<>>) = last.out \o SliceByRunes(base, last.cursor, Len(base))
    BY <1>1, ApplyFold
  <1> HIDE DEF last
  <1>6. <<>> \o base = base
    OBVIOUS
  <1> QED
    BY <1>3, <1>4, <1>5, <1>6

(* A single edit is put in the place of its range. *)
LEMMA ApplyOne ==
  ASSUME NEW T, NEW base \in Seq(T), NEW e \in Edits(T), e.start <= e.end, e.end <= Len(base)
  PROVE  /\ SliceByRunes(base, 0, e.start) \in Seq(T)
         /\ SliceByRunes(base, e.end, Len(base)) \in Seq(T)
         /\ ApplyEdits(base, <<e>>) =
              SliceByRunes(base, 0, e.start) \o e.adopted \o SliceByRunes(base, e.end, Len(base))
  <1> DEFINE E == Edits(T)
             n == Len(base)
             front == SliceByRunes(base, 0, e.start)
             back == SliceByRunes(base, e.end, n)
  <1>1. e.start \in Nat /\ e.end \in Nat /\ e.adopted \in Seq(T) /\ n \in Nat
    BY DEF Edits
  <1>2. front \in Seq(T) /\ back \in Seq(T)
    <2>1. front = SubSeq(base, 0 + 1, e.start) /\ back = SubSeq(base, e.end + 1, n)
      <3>1. e.start <= n /\ 0 \in Nat /\ 0 <= e.start /\ n <= n
        BY <1>1
      <3> QED
        BY <1>1, <3>1, SliceIsSubSeq
    <2>2. SubSeq(base, 0 + 1, e.start) \in Seq(T) /\ SubSeq(base, e.end + 1, n) \in Seq(T)
      <3>1. e.start <= Len(base)
        BY <1>1
      <3> QED
        BY <1>1, <3>1, SubSeqAt
    <2> QED
      BY <2>1, <2>2
  <1> HIDE DEF E, front, back
  <1> DEFINE none == <<>>
             one == <<e>>
  <1>3. EditedAt(base, one) = ApplyEdit(base, Unedited, e)
    <2>1. one = Append(none, e) /\ none \in Seq({e}) /\ e \in {e}
      OBVIOUS
    <2>2. EditedAt(base, none) = Unedited
      BY <2>1, EditStep
    <2> HIDE DEF none, one
    <2>3. EditedAt(base, Append(none, e)) = ApplyEdit(base, EditedAt(base, none), e)
      BY <2>1, EditStep
    <2> QED
      BY <2>1, <2>2, <2>3
  <1> DEFINE out == <<>> \o front \o e.adopted
  <1>4. ApplyEdit(base, Unedited, e) = [out |-> out, cursor |-> e.end]
    BY <1>1 DEF ApplyEdit, Unedited, Overlaps, front
  <1>5. out = front \o e.adopted
    BY <1>1, <1>2
  <1> HIDE DEF out, none, one
  <1>6. ApplyEdits(base, <<e>>) = front \o e.adopted \o back
    <2> DEFINE last == EditedAt(base, one)
    <2>0. last = [out |-> out, cursor |-> e.end]
      BY <1>3, <1>4
    <2> HIDE DEF last
    <2>1. last.out = front \o e.adopted /\ last.cursor = e.end
      BY <1>5, <2>0
    <2>2. ByStart(one) = one
      BY <1>1, SortedOne DEF one
    <2>3. ApplyEdits(base, one) = last.out \o SliceByRunes(base, last.cursor, n)
      BY <2>2, ApplyFold DEF last
    <2> QED
      BY <2>1, <2>3 DEF back, one
  <1> QED
    BY <1>2, <1>6 DEF front, back

(* The edit a decision makes. *)
LEMMA DecisionIs ==
  ASSUME EditionInv, NEW a \in approved, InBase(Variant(a))
  PROVE  LET v == Variant(a)
             p == PassageOf(v.passage)
             e == RegisterEdit(a) IN
         /\ p.text \in Seq(AllRunes) /\ p.id = v.passage
         /\ e \in Edits(AllRunes) /\ e.start = v.start /\ e.end = v.end
         /\ e.start <= e.end /\ e.end <= Len(p.text)
         /\ e.adopted = ReadingText(v, a.text)
         /\ v.type \in {"word", "addition", "omission"}
         /\ v.type = "omission" <=> v.alt = <<>>
  <1> DEFINE w == a.witness
             v == Variant(a)
             p == PassageOf(v.passage)
             e == RegisterEdit(a)
  <1>1. w \in Witnesses /\ a.index \in DOMAIN proposals[w] /\ v = proposals[w][a.index]
    BY DEF EditionInv, IsDecision, Variant
  <1>9. a.text \in EditorTexts \cup {v.alt}
    BY DEF EditionInv, IsDecision, Readings
  <1>2. v.passage # NoPassage
    BY DEF InBase
  <1>3. /\ p \in Items /\ p.id = v.passage
        /\ v.type \in {"word", "addition", "omission"}
        /\ v.start \in Nat /\ v.end \in Nat /\ v.start <= v.end /\ v.end <= Len(p.text)
        /\ v.type = "omission" <=> v.alt = <<>>
    BY <1>1, <1>2, AboutIs, Zenon
  <1>4. v.alt \in Seq(AllRunes)
    <2> DEFINE V == Proposals(AllRunes, Ids)
               vs == proposals[w]
    <2>1. vs \in Seq(V)
      BY <1>1, ProposalsTyped
    <2>2. \A u \in V : u.alt \in Seq(AllRunes)
      BY DEF Proposals
    <2> HIDE DEF V, vs, v
    <2>3. v \in V
      BY <1>1, <2>1 DEF vs
    <2> QED
      BY <2>2, <2>3
  <1>5. e = [start |-> v.start, end |-> v.end, adopted |-> ReadingText(v, a.text)]
    BY DEF RegisterEdit
  <1>7. ReadingText(v, a.text) \in Seq(AllRunes)
    <2>1. Runes \in SUBSET AllRunes
      BY DEF AllRunes
    <2>2. \A t \in Seq(Runes) : t \in Seq(AllRunes)
      <3> HIDE DEF Runes, AllRunes
      <3> QED
        BY <2>1
    <2>3. a.text \in Seq(AllRunes)
      BY <1>9, <1>4, <2>2, EditorAssumption
    <2>4. <<>> \in Seq(AllRunes)
      OBVIOUS
    <2> QED
      BY <2>3, <2>4 DEF ReadingText
  <1>6. p.text \in Seq(AllRunes)
    BY <1>3 DEF Items, PassageItems
  <1> HIDE DEF v, p, w, e
  <1>8. e \in Edits(AllRunes)
    BY <1>3, <1>5, <1>7 DEF Edits
  <1> QED
    BY <1>3, <1>5, <1>6, <1>8 DEF v, p, e

(* ApplyDecision (decisions.go) and applyEdits (compile.go) agree on a      *)
(* single decision that is no movement.                                    *)
THEOREM DecisionApplied == Spec => []DecisionAgrees
  <1>1. EditionInv => DecisionAgrees
    <2> SUFFICES ASSUME EditionInv, NEW a \in approved, InBase(Variant(a)), Variant(a).type # "movement"
                 PROVE  LET base == PassageOf(Variant(a).passage).text
                        IN ApplyDecision(Variant(a), a.text, base) = ApplyEdits(base, <<RegisterEdit(a)>>)
      BY DEF DecisionAgrees
    <2> DEFINE v == Variant(a)
               e == RegisterEdit(a)
               base == PassageOf(v.passage).text
    <2>1. /\ base \in Seq(AllRunes)
          /\ e \in Edits(AllRunes) /\ e.start = v.start /\ e.end = v.end
          /\ e.start <= e.end /\ e.end <= Len(base)
          /\ e.adopted = ReadingText(v, a.text)
          /\ v.type \in {"word", "addition", "omission"}
      BY DecisionIs
    <2>2. e.adopted = IF v.type = "omission" THEN <<>> ELSE a.text
      BY <2>1 DEF ReadingText
    <2> HIDE DEF v, e, base
    <2>3. ApplyEdits(base, <<e>>) =
            SliceByRunes(base, 0, v.start) \o e.adopted \o SliceByRunes(base, v.end, Len(base))
      BY <2>1, ApplyOne
    <2>4. ApplyDecision(v, a.text, base) =
            SliceByRunes(base, 0, v.start) \o e.adopted \o SliceByRunes(base, v.end, Len(base))
      BY <2>1, <2>2 DEF ApplyDecision
    <2> QED
      BY <2>3, <2>4 DEF v, e, base
  <1> QED
    BY <1>1, EditionInvariant, PTL

(* One passage of a witness, once its variants are decided for it. *)
LEMMA PassageRebuilt ==
  ASSUME EditionInv, NEW w \in Witnesses, Adopted(w), NEW i \in DOMAIN passages[Base]
  PROVE  ApplyEdits(passages[Base][i].text, EditsFor(w)[passages[Base][i].id])
           = IF i <= Len(passages[w]) THEN passages[w][i].text ELSE <<>>
  <1> DEFINE base == passages[Base]
             ws == passages[w]
             vs == proposals[w]
             mine == {a \in approved : a.witness = w}
             S == {a \in mine : Variant(a).passage = base[i].id}
             text == base[i].text
             listed == Registered(SetToSeq(S))
  <1>1. EditsFor(w)[base[i].id] = listed
    <2> DEFINE ids == {p.id : p \in ToSet(base)}
               Here(id) == {a \in approved : a.witness = w /\ Variant(a).passage = id}
    <2>1. base[i].id \in ids
      BY DEF ToSet
    <2>2. EditsFor(w) = [id \in ids |-> Registered(SetToSeq(Here(id)))]
      BY DEF EditsFor
    <2>3. Here(base[i].id) = S
      OBVIOUS
    <2> HIDE DEF ids, Here, S, base
    <2> QED
      BY <2>1, <2>2, <2>3
  <1>2. /\ base \in Seq(Items) /\ ws \in Seq(Items) /\ DistinctIds(base) /\ i \in DOMAIN base
        /\ \A k \in DOMAIN vs :
             \/ vs[k].passage = NoPassage
             \/ \E j \in DOMAIN base : vs[k].passage = base[j].id /\ IsAbout(vs[k], base, ws, j)
        /\ \A j \in DOMAIN base :
             \/ j <= Len(ws) /\ base[j].text = ws[j].text
             \/ \E k \in DOMAIN vs : vs[k].passage = base[j].id
        /\ \A k, l \in DOMAIN vs : vs[k].passage = vs[l].passage /\ vs[k].passage # NoPassage => k = l
    <2>1. vs # <<>>
      BY DEF Adopted
    <2> QED
      BY <2>1, Aligned, Zenon
  <1>3. ASSUME NEW a \in mine
        PROVE  a \in approved /\ a.witness = w /\ a.index \in DOMAIN vs /\ Variant(a) = vs[a.index]
    BY DEF EditionInv, IsDecision, Variant
  <1>4. \A a, b \in mine : a.index = b.index => a = b
    <2>1. ASSUME NEW a \in mine, NEW b \in mine, a.index = b.index
          PROVE  a = b
      <3>1. PICK c \in approved : DecisionsAbout(w, a.index) = {c}
        BY <1>3 DEF Adopted
      <3> QED
        BY <2>1, <3>1 DEF DecisionsAbout
    <2> QED
      BY <2>1
  <1>5. \A k \in DOMAIN vs : \E a \in mine : a.index = k
    <2> TAKE k \in DOMAIN vs
    <2>1. PICK c \in approved : DecisionsAbout(w, k) = {c}
      BY DEF Adopted
    <2> QED
      BY <2>1 DEF DecisionsAbout
  <1>6. \A a \in mine : vs[a.index].alt # <<>> => a.text = vs[a.index].alt
    <2> TAKE a \in mine
    <2>1. PICK c \in approved : DecisionsAbout(w, a.index) = {c} /\ (vs[a.index].alt # <<>> => c.text = vs[a.index].alt)
      BY <1>3 DEF Adopted
    <2> QED
      BY <2>1 DEF DecisionsAbout
  <1> HIDE DEF base, ws, vs, mine
  <1>7. base[i] \in Items /\ base[i].id \in Ids /\ text \in Seq(AllRunes) /\ base[i].id # NoPassage
    <2>1. base[i] \in Items
      BY <1>2
    <2> QED
      BY <2>1, NoPassageAssumption DEF Items, PassageItems, Ids
  <1>8. PassageOf(base[i].id) = base[i]
    <2>1. ToSet(base) = {base[j] : j \in DOMAIN base}
      BY <1>2 DEF ToSet
    <2>2. \A p \in ToSet(base) : p.id = base[i].id => p = base[i]
      BY <1>2, <2>1 DEF DistinctIds
    <2>3. base[i] \in ToSet(base)
      BY <1>2, <2>1
    <2> QED
      BY <2>2, <2>3 DEF PassageOf, base
  <1>9. \A a, b \in S : a = b
    BY <1>2, <1>3, <1>4, <1>7
  <1>10. CASE S = {}
    <2>1. \A k \in DOMAIN vs : vs[k].passage # base[i].id
      BY <1>3, <1>5, <1>10
    <2>2. i <= Len(ws) /\ text = ws[i].text
      BY <1>2, <2>1
    <2>3. listed = <<>>
      <3>1. SetToSeq(S) = <<>>
        BY <1>10, ListNone
      <3>2. Registered(<<>>) = <<>>
        BY DEF Registered
      <3> QED
        BY <3>1, <3>2
    <2> HIDE DEF S, text, listed
    <2>4. ApplyEdits(text, <<>>) = text
      BY <1>7, ApplyNone
    <2> QED
      BY <1>1, <2>2, <2>3, <2>4 DEF text, ws, base
  <1>11. CASE S # {}
    <2>1. PICK a \in S : S = {a}
      BY <1>9, <1>11
    <2> DEFINE e == RegisterEdit(a)
               v == Variant(a)
    <2>2. a \in approved /\ a.index \in DOMAIN vs /\ v = vs[a.index] /\ v.passage = base[i].id
      BY <1>3, <2>1
    <2>3. IsAbout(v, base, ws, i)
      BY <1>2, <1>7, <2>2 DEF DistinctIds
    <2>4. /\ e \in Edits(AllRunes) /\ e.start = v.start /\ e.end = v.end
          /\ e.start <= e.end /\ e.end <= Len(text) /\ e.adopted = v.alt
      <3>1. InBase(v)
        BY <1>7, <2>2 DEF InBase
      <3>2. /\ e \in Edits(AllRunes) /\ e.start = v.start /\ e.end = v.end
            /\ e.start <= e.end /\ e.end <= Len(text) /\ e.adopted = ReadingText(v, a.text)
            /\ v.type = "omission" <=> v.alt = <<>>
        BY <1>8, <2>2, <3>1, DecisionIs
      <3>3. v.alt # <<>> => a.text = v.alt
        BY <1>6, <2>1, <2>2
      <3> HIDE DEF e, v, text
      <3>4. ReadingText(v, a.text) = v.alt
        BY <3>2, <3>3 DEF ReadingText
      <3> QED
        BY <3>2, <3>4
    <2>5. listed = <<e>>
      <3>1. SetToSeq(S) = <<a>>
        BY <2>1, ListOne
      <3>2. Registered(<<a>>) = <<e>>
        BY DEF Registered
      <3> HIDE DEF S, e
      <3> QED
        BY <3>1, <3>2
    <2> HIDE DEF S, text, e, v, listed
    <2>6. ApplyEdits(text, listed) = Replaced(v, text)
      <3>1. ApplyEdits(text, <<e>>) =
              SliceByRunes(text, 0, e.start) \o e.adopted \o SliceByRunes(text, e.end, Len(text))
        BY <1>7, <2>4, ApplyOne
      <3> QED
        BY <2>4, <2>5, <3>1 DEF Replaced
    <2>7. Replaced(v, text) = IF i <= Len(ws) THEN ws[i].text ELSE <<>>
      <3>1. CASE i <= Len(ws)
        <4>1. ws[i] \in Items
          <5>1. i \in 1 .. Len(ws)
            BY <1>2, <3>1
          <5> QED
            BY <1>2, <5>1
        <4>2. text # ws[i].text /\ DiffProposals(base[i], ws[i]) = <<v>>
          BY <2>3, <3>1 DEF IsAbout, text
        <4>3. IsDifference(DiffProposals(base[i], ws[i])[1], base[i], ws[i])
          BY <1>7, <4>1, <4>2, DifferenceIs, Zenon DEF Items, text
        <4>4. <<v>>[1] = v
          OBVIOUS
        <4> QED
          BY <3>1, <4>2, <4>3, <4>4 DEF IsDifference, text
      <3>2. CASE ~(i <= Len(ws))
        <4>1. v.start = 0 /\ v.end = Len(text) /\ v.alt = <<>>
          BY <2>3, <3>2 DEF IsAbout, WholePassage, text
        <4>2. SliceByRunes(text, 0, 0) = <<>> /\ SliceByRunes(text, Len(text), Len(text)) = <<>>
          <5>1. Len(text) \in Nat /\ 0 \in Nat /\ 0 <= 0 /\ 0 <= Len(text)
            BY <1>7
          <5>2. SliceByRunes(text, 0, 0) = SubSeq(text, 0 + 1, 0)
                /\ SliceByRunes(text, Len(text), Len(text)) = SubSeq(text, Len(text) + 1, Len(text))
            BY <1>7, <5>1, SliceIsSubSeq
          <5> QED
            BY <1>7, <5>2
        <4> DEFINE none == <<>>
        <4>3. none \o none \o none = none
          OBVIOUS
        <4> HIDE DEF none
        <4>4. Replaced(v, text) = none
          BY <4>1, <4>2, <4>3 DEF Replaced, none
        <4> QED
          BY <3>2, <4>4 DEF none
      <3> QED
        BY <3>1, <3>2
    <2> QED
      BY <1>1, <2>6, <2>7 DEF text, ws, base
  <1> QED
    BY <1>10, <1>11

(* Once all variants of a witness are decided for its readings, compiling   *)
(* each base passage gives the witness's passage, and nothing where it     *)
(* omits it (CompileDefinitive).                                           *)
THEOREM WitnessRebuilt == Spec => []AdoptedWitnessRebuilt
  <1>1. EditionInv => AdoptedWitnessRebuilt
    <2> SUFFICES ASSUME EditionInv, NEW w \in Witnesses, Adopted(w)
                 PROVE  LET base == passages[Base]
                            edits == EditsFor(w)
                            rebuilt == [i \in DOMAIN base |->
                                          IF i <= Len(passages[w]) THEN passages[w][i].text ELSE <<>>]
                        IN /\ \A i \in DOMAIN base : ApplyEdits(base[i].text, edits[base[i].id]) = rebuilt[i]
                           /\ CompileDefinitive(base, edits) = FlattenSeq(rebuilt)
      BY DEF AdoptedWitnessRebuilt
    <2> DEFINE base == passages[Base]
               ws == passages[w]
               vs == proposals[w]
               edits == EditsFor(w)
               rebuilt == [i \in DOMAIN base |-> IF i <= Len(ws) THEN ws[i].text ELSE <<>>]
    <2>1. ASSUME NEW i \in DOMAIN base
          PROVE  ApplyEdits(base[i].text, edits[base[i].id]) = rebuilt[i]
      BY <2>1, PassageRebuilt
    <2>2. CompileDefinitive(base, edits) = FlattenSeq(rebuilt)
      <3>1. [i \in DOMAIN base |-> ApplyEdits(base[i].text, edits[base[i].id])] = rebuilt
        BY <2>1
      <3> QED
        BY <3>1 DEF CompileDefinitive
    <2> QED
      BY <2>1, <2>2
  <1> QED
    BY <1>1, EditionInvariant, PTL

-----------------------------------------------------------------------------
(* The loop over the edits of a passage. *)

(* How the list is sorted: pos[k] is the place in it of the k-th edit. *)
Sorts(pos, s, listed) ==
    LET S == 1 .. Len(listed) IN
    /\ pos \in [S -> S]
    /\ \A k \in S : s[k] = listed[pos[k]]
    /\ \A i \in S : \E k \in S : pos[k] = i
    /\ \A k, l \in S : k < l => Precedes(listed, pos[k], pos[l])

(* The sort loses no edit, and keeps the order of edits of one start.       *)
LEMMA SortedEdits ==
  ASSUME NEW T, NEW listed \in Seq(Edits(T))
  PROVE  LET s == ByStart(listed) IN
         /\ s \in Seq(Edits(T)) /\ Len(s) = Len(listed)
         /\ \E pos : Sorts(pos, s, listed)
  <1> DEFINE E == Edits(T)
             m == Len(listed)
             s == ByStart(listed)
             S == 1 .. m
             R == {p \in S \X S : Precedes(listed, p[1], p[2])}
             rank == Ranked(R, S)
             Before(i) == {j \in S : Precedes(listed, j, i)}
             pos == [k \in S |-> CHOOSE i \in S : rank[i] = k - 1]
  <1>1. m \in Nat /\ DOMAIN listed = S
    OBVIOUS
  <1>2. \A i \in S : listed[i] \in E /\ listed[i].start \in Nat /\ i \in Nat
    <2> HIDE DEF E
    <2>1. \A e \in E : e.start \in Nat
      BY DEF E, Edits
    <2>2. \A i \in S : listed[i] \in E /\ i \in Nat
      BY DEF E
    <2> QED
      BY <2>1, <2>2
  <1>3. \A i \in S : rank[i] = Cardinality(Before(i))
    <2> TAKE i \in S
    <2>1. {j \in S : <<j, i>> \in R} = Before(i)
      OBVIOUS
    <2> HIDE DEF R, Before
    <2> QED
      BY <2>1 DEF Ranked
  <1>4. \A i, j \in S : <<i, j>> \in R <=> Precedes(listed, i, j)
    OBVIOUS
  <1>5. IsFiniteSet(S) /\ Cardinality(S) = m
    <2> HIDE DEF m
    <2> QED
      BY <1>1, FS_Interval
  <1> HIDE DEF E, R, m, Before
  <1>6. Orders(R, S)
    <2> HIDE DEF S
    <2>1. \A i \in S : <<i, i>> \notin R
      <3> TAKE i \in S
      <3>1. ~(listed[i].start < listed[i].start) /\ ~(i < i)
        BY <1>2
      <3> QED
        BY <1>4, <3>1 DEF Precedes
    <2>2. \A i, j \in S : i # j => <<i, j>> \in R \/ <<j, i>> \in R
      BY <1>2, <1>4 DEF Precedes
    <2>3. \A i, j, k \in S : <<i, j>> \in R /\ <<j, k>> \in R => <<i, k>> \in R
      BY <1>2, <1>4 DEF Precedes
    <2> QED
      BY <2>1, <2>2, <2>3 DEF Orders
  <1> HIDE DEF S
  <1>7. LET n == Cardinality(S) IN
        /\ n \in Nat
        /\ \A i \in S : rank[i] \in 0 .. n - 1
        /\ \A i, j \in S : <<i, j>> \in R <=> rank[i] < rank[j]
        /\ \A i, j \in S : rank[i] = rank[j] => i = j
        /\ \A k \in 0 .. n - 1 : \E i \in S : rank[i] = k
    BY <1>5, <1>6, Ranks
  <1> HIDE DEF rank
  <1>8. /\ \A i \in S : rank[i] \in 0 .. m - 1
        /\ \A i, j \in S : <<i, j>> \in R <=> rank[i] < rank[j]
        /\ \A i, j \in S : rank[i] = rank[j] => i = j
        /\ \A k \in 0 .. m - 1 : \E i \in S : rank[i] = k
    BY <1>5, <1>7
  <1>9. \A k \in S : k - 1 \in 0 .. m - 1 /\ k \in Nat
    BY <1>1 DEF S
  <1>10. ASSUME NEW k \in S
         PROVE  pos[k] \in S /\ rank[pos[k]] = k - 1
    <2>1. \E i \in S : rank[i] = k - 1
      BY <1>8, <1>9
    <2> QED
      BY <2>1
  <1>11. s = [k \in S |-> listed[pos[k]]]
    <2>1. s = [k \in S |-> listed[CHOOSE i \in S : Cardinality(Before(i)) = k - 1]]
      BY <1>1 DEF ByStart, Before
    <2>2. ASSUME NEW k \in S
          PROVE  pos[k] = CHOOSE i \in S : Cardinality(Before(i)) = k - 1
      <3>1. pos[k] = CHOOSE i \in S : rank[i] = k - 1
        OBVIOUS
      <3>2. \A i \in S : rank[i] = k - 1 <=> Cardinality(Before(i)) = k - 1
        BY <1>3
      <3> HIDE DEF pos
      <3> QED
        BY <3>1, <3>2
    <2> DEFINE first(k) == CHOOSE i \in S : Cardinality(Before(i)) = k - 1
    <2>3. s = [k \in S |-> listed[first(k)]] /\ \A k \in S : pos[k] = first(k)
      BY <2>1, <2>2
    <2> HIDE DEF pos, s, first
    <2> QED
      BY <2>3
  <1>12. pos \in [S -> S]
    BY <1>10
  <1> HIDE DEF pos, s
  <1>13. \A k \in S : s[k] = listed[pos[k]] /\ s[k] \in E
    BY <1>2, <1>10, <1>11
  <1>14. s \in Seq(E) /\ Len(s) = m
    <2>1. s = [k \in 1 .. m |-> s[k]] /\ \A k \in 1 .. m : s[k] \in E
      BY <1>11, <1>13 DEF S
    <2> QED
      BY <1>1, <2>1
  <1>15. ASSUME NEW k \in S, NEW l \in S, k < l
         PROVE  Precedes(listed, pos[k], pos[l])
    <2>1. rank[pos[k]] < rank[pos[l]]
      BY <1>9, <1>10, <1>15
    <2> QED
      BY <1>4, <1>8, <1>10, <2>1
  <1>16. ASSUME NEW i \in S
         PROVE  \E k \in S : pos[k] = i
    <2> DEFINE k == rank[i] + 1
    <2>1. k \in S /\ k - 1 = rank[i]
      <3>1. rank[i] \in 0 .. m - 1
        BY <1>8
      <3> QED
        BY <1>1, <3>1 DEF S
    <2> QED
      BY <1>8, <1>10, <2>1
  <1>17. Sorts(pos, s, listed)
    BY <1>12, <1>13, <1>15, <1>16 DEF Sorts, S, m
  <1> QED
    BY <1>14, <1>17 DEF s, m, E

(* Concatenating one sequence more. *)
LEMMA FlattenFront ==
  ASSUME NEW T, NEW n \in Nat, NEW f, \A i \in 1 .. n : f[i] \in Seq(T)
  PROVE  /\ FlattenSeq([i \in 1 .. 0 |-> f[i]]) = <<>>
         /\ \A q \in 0 .. n : FlattenSeq([i \in 1 .. q |-> f[i]]) \in Seq(T)
         /\ \A q \in 0 .. n - 1 :
              FlattenSeq([i \in 1 .. q + 1 |-> f[i]]) = FlattenSeq([i \in 1 .. q |-> f[i]]) \o f[q + 1]
  <1> DEFINE S == Seq(T)
             To(q) == [i \in 1 .. q |-> f[i]]
  <1>1. FlattenSeq(To(0)) = <<>>
    <2>1. To(0) = <<>>
      OBVIOUS
    <2> QED
      BY <2>1, FlattenNothing
  <1>2. \A i \in 1 .. n : f[i] \in S
    OBVIOUS
  <1> HIDE DEF S
  <1>3. ASSUME NEW q \in 0 .. n
        PROVE  To(q) \in Seq(S) /\ Len(To(q)) = q
    <2>1. \A i \in 1 .. q : f[i] \in S
      BY <1>2
    <2> QED
      BY <2>1
  <1>4. ASSUME NEW q \in 0 .. n - 1
        PROVE  To(q + 1) = Append(To(q), f[q + 1])
    <2>1. q \in 0 .. n /\ q + 1 \in 0 .. n /\ f[q + 1] \in S
      BY <1>2
    <2>2. (\A i \in 1 .. q : To(q + 1)[i] = To(q)[i]) /\ To(q + 1)[q + 1] = f[q + 1]
      BY <2>1
    <2>3. /\ To(q) \in Seq(S) /\ Len(To(q)) = q
          /\ To(q + 1) \in Seq(S) /\ Len(To(q + 1)) = q + 1
      BY <1>3, <2>1
    <2> HIDE DEF To
    <2> QED
      BY <2>1, <2>2, <2>3, AppendIs
  <1> HIDE DEF To
  <1>5. \A q \in 0 .. n : FlattenSeq(To(q)) \in Seq(T)
    BY <1>3, FlattenKeeps DEF S
  <1>6. ASSUME NEW q \in 0 .. n - 1
        PROVE  FlattenSeq(To(q + 1)) = FlattenSeq(To(q)) \o f[q + 1]
    <2> DEFINE to == To(q)
               x == f[q + 1]
    <2>1. to \in Seq(Seq(T)) /\ x \in Seq(T)
      <3>1. q \in 0 .. n /\ q + 1 \in 1 .. n
        OBVIOUS
      <3> QED
        BY <1>2, <1>3, <3>1 DEF S
    <2> HIDE DEF to, x
    <2>2. FlattenSeq(Append(to, x)) = FlattenSeq(to) \o x
      BY <2>1, FlattenAppend
    <2> QED
      BY <1>4, <2>2 DEF to, x
  <1> QED
    BY <1>1, <1>5, <1>6 DEF To

(* What the first l edits type in at a place. *)
TypedOf(e, k) == IF e.start = k THEN e.adopted ELSE <<>>
TypedTo(edits, k, l) == FlattenSeq([i \in 1 .. l |-> TypedOf(edits[i], k)])

LEMMA TypedStep ==
  ASSUME NEW T, NEW edits \in Seq(Edits(T)), NEW k
  PROVE  /\ TypedTo(edits, k, 0) = <<>>
         /\ \A l \in 0 .. Len(edits) : TypedTo(edits, k, l) \in Seq(T)
         /\ \A l \in 0 .. Len(edits) - 1 :
              /\ TypedOf(edits[l + 1], k) \in Seq(T)
              /\ TypedTo(edits, k, l + 1) = TypedTo(edits, k, l) \o TypedOf(edits[l + 1], k)
         /\ Typed(edits, k) = TypedTo(edits, k, Len(edits))
  <1> DEFINE n == Len(edits)
             f == [i \in 1 .. n |-> TypedOf(edits[i], k)]
  <1>1. n \in Nat /\ DOMAIN edits = 1 .. n
    OBVIOUS
  <1>2. \A i \in 1 .. n : TypedOf(edits[i], k) \in Seq(T)
    <2> TAKE i \in 1 .. n
    <2> DEFINE E == Edits(T)
    <2>1. \A e \in E : e.adopted \in Seq(T)
      BY DEF Edits
    <2> HIDE DEF E
    <2>2. edits[i] \in E
      BY DEF E
    <2>3. <<>> \in Seq(T)
      OBVIOUS
    <2> QED
      BY <2>1, <2>2, <2>3 DEF TypedOf
  <1> HIDE DEF n
  <1>3. \A i \in 1 .. n : f[i] = TypedOf(edits[i], k) /\ f[i] \in Seq(T)
    BY <1>2
  <1>4. ASSUME NEW l \in 0 .. n
        PROVE  TypedTo(edits, k, l) = FlattenSeq([i \in 1 .. l |-> f[i]])
    <2>1. \A i \in 1 .. l : f[i] = TypedOf(edits[i], k)
      BY <1>1
    <2> HIDE DEF f
    <2>2. [i \in 1 .. l |-> f[i]] = [i \in 1 .. l |-> TypedOf(edits[i], k)]
      BY <2>1
    <2> QED
      BY <2>2 DEF TypedTo
  <1> HIDE DEF f
  <1>5. /\ FlattenSeq([i \in 1 .. 0 |-> f[i]]) = <<>>
        /\ \A q \in 0 .. n : FlattenSeq([i \in 1 .. q |-> f[i]]) \in Seq(T)
        /\ \A q \in 0 .. n - 1 :
             FlattenSeq([i \in 1 .. q + 1 |-> f[i]]) = FlattenSeq([i \in 1 .. q |-> f[i]]) \o f[q + 1]
    BY <1>1, <1>3, FlattenFront
  <1>6. TypedTo(edits, k, 0) = <<>> /\ \A l \in 0 .. n : TypedTo(edits, k, l) \in Seq(T)
    <2>1. 0 \in 0 .. n
      BY <1>1
    <2>2. TypedTo(edits, k, 0) = FlattenSeq([i \in 1 .. 0 |-> f[i]])
      BY <1>4, <2>1
    <2>3. \A l \in 0 .. n : TypedTo(edits, k, l) \in Seq(T)
      BY <1>4, <1>5
    <2> QED
      BY <1>5, <2>2, <2>3
  <1>7. ASSUME NEW l \in 0 .. n - 1
        PROVE  /\ TypedOf(edits[l + 1], k) \in Seq(T)
               /\ TypedTo(edits, k, l + 1) = TypedTo(edits, k, l) \o TypedOf(edits[l + 1], k)
    <2>1. l \in 0 .. n /\ l + 1 \in 0 .. n /\ l + 1 \in 1 .. n
      BY <1>1
    <2>2. FlattenSeq([i \in 1 .. l + 1 |-> f[i]]) = FlattenSeq([i \in 1 .. l |-> f[i]]) \o f[l + 1]
      BY <1>5
    <2> QED
      BY <1>3, <1>4, <2>1, <2>2
  <1>8. Typed(edits, k) = TypedTo(edits, k, n)
    BY <1>1 DEF Typed, TypedTo, TypedOf
  <1> QED
    BY <1>6, <1>7, <1>8 DEF n

(* Sorting changes nothing of what is typed in at a place: two fronts of    *)
(* the lists with the same edits of that place type in the same.           *)
LEMMA TypedSorted ==
  ASSUME NEW T, NEW listed \in Seq(Edits(T)), NEW s \in Seq(Edits(T)), Len(s) = Len(listed),
         NEW pos, Sorts(pos, s, listed), NEW k
  PROVE  Typed(s, k) = Typed(listed, k)
  <1> DEFINE m == Len(listed)
             P == 1 .. m
             Left(l) == TypedTo(s, k, l)
             Right(j) == TypedTo(listed, k, j)
             Same(l, j) == \A t \in P : s[t].start = k => (t <= l <=> pos[t] <= j)
             M == {n \in Nat : \A l, j \in 0 .. m : l + j <= n /\ Same(l, j) => Left(l) = Right(j)}
  <1>1. /\ m \in Nat /\ pos \in [P -> P]
        /\ \A t \in P : s[t] = listed[pos[t]] /\ pos[t] \in P /\ t \in Nat /\ pos[t] \in Nat
        /\ \A i \in P : \E t \in P : pos[t] = i
        /\ \A t, u \in P : t < u /\ s[t].start = k /\ s[u].start = k => pos[t] < pos[u]
    <2>1. m \in Nat /\ pos \in [P -> P] /\ \A t \in P : pos[t] \in P /\ t \in Nat /\ pos[t] \in Nat
      <3>1. m \in Nat
        OBVIOUS
      <3>2. pos \in [P -> P]
        BY DEF Sorts
      <3> HIDE DEF m
      <3> QED
        BY <3>1, <3>2
    <2> DEFINE E == Edits(T)
    <2>2. \A e \in E : e.start \in Nat
      BY DEF Edits
    <2> HIDE DEF E
    <2>3. \A i \in P : listed[i] \in E
      BY DEF E
    <2>4. \A t, u \in P : t < u => Precedes(listed, pos[t], pos[u])
      BY DEF Sorts
    <2>5. \A t \in P : s[t] = listed[pos[t]]
      BY DEF Sorts
    <2>6. ASSUME NEW t \in P, NEW u \in P, t < u, s[t].start = k, s[u].start = k
          PROVE  pos[t] < pos[u]
      <3>1. listed[pos[t]].start = listed[pos[u]].start /\ listed[pos[t]].start \in Nat
        BY <2>1, <2>2, <2>3, <2>5, <2>6
      <3>2. \/ listed[pos[t]].start < listed[pos[u]].start
            \/ pos[t] < pos[u]
        BY <2>4, <2>6 DEF Precedes
      <3> QED
        BY <3>1, <3>2
    <2>7. \A i \in P : \E t \in P : pos[t] = i
      BY DEF Sorts
    <2> QED
      BY <2>1, <2>5, <2>6, <2>7
  <1>2. /\ Left(0) = <<>> /\ Right(0) = <<>>
        /\ \A l \in 0 .. m : Left(l) \in Seq(T) /\ Right(l) \in Seq(T)
        /\ \A l \in 0 .. m - 1 : /\ Left(l + 1) = Left(l) \o TypedOf(s[l + 1], k)
                                 /\ Right(l + 1) = Right(l) \o TypedOf(listed[l + 1], k)
        /\ Typed(s, k) = Left(m) /\ Typed(listed, k) = Right(m)
    BY TypedStep
  <1> HIDE DEF m, Left, Right
  <1>3. ASSUME NEW l \in 1 .. m
        PROVE  /\ l - 1 \in 0 .. m - 1 /\ l - 1 \in 0 .. m /\ l \in P
               /\ Left(l) = Left(l - 1) \o TypedOf(s[l], k)
               /\ Right(l) = Right(l - 1) \o TypedOf(listed[l], k)
               /\ s[l].start # k => Left(l) = Left(l - 1)
               /\ listed[l].start # k => Right(l) = Right(l - 1)
    <2>1. l - 1 \in 0 .. m - 1 /\ l - 1 \in 0 .. m /\ l \in P /\ l - 1 + 1 = l
      BY <1>1
    <2>2. Left(l) = Left(l - 1) \o TypedOf(s[l], k) /\ Right(l) = Right(l - 1) \o TypedOf(listed[l], k)
      BY <1>2, <2>1
    <2>3. Left(l - 1) \o <<>> = Left(l - 1) /\ Right(l - 1) \o <<>> = Right(l - 1)
      BY <1>2, <2>1
    <2> QED
      BY <2>1, <2>2, <2>3 DEF TypedOf
  <1>4. 0 \in M
    <2>1. \A l, j \in 0 .. m : l + j <= 0 => l = 0 /\ j = 0
      BY <1>1
    <2> HIDE DEF Same
    <2> QED
      BY <1>2, <2>1
  <1>5. ASSUME NEW n \in M
        PROVE  n + 1 \in M
    <2> SUFFICES ASSUME NEW l \in 0 .. m, NEW j \in 0 .. m, l + j <= n + 1, Same(l, j)
                 PROVE  Left(l) = Right(j)
      <3> HIDE DEF Same
      <3> QED
        OBVIOUS
    <2>1. \A x, y \in 0 .. m : x + y <= n /\ Same(x, y) => Left(x) = Right(y)
      <3> HIDE DEF Same
      <3> QED
        OBVIOUS
    <2>2. n \in Nat
      OBVIOUS
    <2>3. CASE l # 0 /\ s[l].start # k
      <3>1. l \in 1 .. m /\ l - 1 \in 0 .. m /\ l - 1 + j <= n
        BY <1>1, <2>2, <2>3
      <3>2. Same(l - 1, j)
        <4> SUFFICES ASSUME NEW t \in P, s[t].start = k
                     PROVE  t <= l - 1 <=> pos[t] <= j
          OBVIOUS
        <4>1. (t <= l <=> pos[t] <= j) /\ t # l /\ t \in Nat
          BY <1>1, <2>3
        <4> QED
          BY <3>1, <4>1
      <3> HIDE DEF Same, M
      <3>3. Left(l - 1) = Right(j)
        BY <2>1, <3>1, <3>2
      <3> QED
        BY <1>3, <2>3, <3>1, <3>3
    <2>4. CASE j # 0 /\ listed[j].start # k
      <3>1. j \in 1 .. m /\ j - 1 \in 0 .. m /\ l + (j - 1) <= n
        BY <1>1, <2>2, <2>4
      <3>2. Same(l, j - 1)
        <4> SUFFICES ASSUME NEW t \in P, s[t].start = k
                     PROVE  t <= l <=> pos[t] <= j - 1
          OBVIOUS
        <4>1. (t <= l <=> pos[t] <= j) /\ pos[t] # j /\ pos[t] \in Nat
          BY <1>1, <2>4
        <4> QED
          BY <3>1, <4>1
      <3> HIDE DEF Same, M
      <3>3. Left(l) = Right(j - 1)
        BY <2>1, <3>1, <3>2
      <3> QED
        BY <1>3, <2>4, <3>1, <3>3
    <2>5. CASE (l = 0 \/ s[l].start = k) /\ (j = 0 \/ listed[j].start = k)
      <3>1. l # 0 => /\ l \in 1 .. m /\ l \in P /\ pos[l] <= j
        <4> SUFFICES ASSUME l # 0 PROVE l \in P /\ pos[l] <= j
          OBVIOUS
        <4>1. l \in P /\ l <= l
          BY <1>1
        <4> QED
          BY <2>5, <4>1
      <3>2. j # 0 => \E t \in P : pos[t] = j /\ s[t].start = k /\ t <= l
        <4> SUFFICES ASSUME j # 0 PROVE \E t \in P : pos[t] = j /\ s[t].start = k /\ t <= l
          OBVIOUS
        <4>1. j \in P /\ j <= j
          BY <1>1
        <4>2. PICK t \in P : pos[t] = j
          BY <1>1, <4>1
        <4>3. s[t].start = k
          BY <1>1, <2>5, <4>2
        <4> QED
          BY <4>1, <4>2, <4>3
      <3>3. CASE l = 0 /\ j = 0
        BY <1>2, <3>3
      <3>4. CASE ~(l = 0 /\ j = 0)
        <4>1. l # 0 /\ j # 0
          BY <1>1, <3>1, <3>2, <3>4
        <4>2. PICK t \in P : pos[t] = j /\ s[t].start = k /\ t <= l
          BY <3>2, <4>1
        <4>3. t = l
          <5>1. CASE t < l
            <6>1. pos[t] < pos[l]
              BY <1>1, <2>5, <3>1, <4>1, <4>2, <5>1
            <6> QED
              BY <1>1, <3>1, <4>1, <4>2, <6>1
          <5> QED
            BY <1>1, <4>2, <5>1
        <4>4. s[l] = listed[j] /\ pos[l] = j
          BY <1>1, <4>2, <4>3
        <4>5. l \in 1 .. m /\ j \in 1 .. m /\ l - 1 \in 0 .. m /\ j - 1 \in 0 .. m /\ (l - 1) + (j - 1) <= n
          BY <1>1, <2>2, <4>1
        <4>6. Same(l - 1, j - 1)
          <5> SUFFICES ASSUME NEW u \in P, s[u].start = k
                       PROVE  u <= l - 1 <=> pos[u] <= j - 1
            OBVIOUS
          <5>1. u <= l <=> pos[u] <= j
            OBVIOUS
          <5>2. u # l => pos[u] # pos[l]
            <6>1. l \in P /\ s[l].start = k
              BY <4>2, <4>3
            <6>2. /\ l < u => pos[l] < pos[u]
                  /\ u < l => pos[u] < pos[l]
              BY <1>1, <6>1
            <6>3. l \in Nat /\ u \in Nat /\ pos[l] \in Nat /\ pos[u] \in Nat
              BY <1>1, <6>1
            <6> QED
              BY <6>2, <6>3
          <5>3. l \in Nat /\ u \in Nat /\ j \in Nat /\ pos[u] \in Nat
            BY <1>1, <4>2, <4>3, <4>4
          <5>4. u = l => pos[u] = j
            BY <4>4
          <5> QED
            BY <4>4, <5>1, <5>2, <5>3, <5>4
        <4> HIDE DEF Same, M
        <4>7. Left(l - 1) = Right(j - 1)
          BY <2>1, <4>5, <4>6
        <4> QED
          BY <1>3, <4>4, <4>5, <4>7
      <3> QED
        BY <3>3, <3>4
    <2> QED
      BY <2>3, <2>4, <2>5
  <1>6. M = Nat
    <2> HIDE DEF Same, Left, Right
    <2>1. M \in SUBSET Nat
      OBVIOUS
    <2> HIDE DEF M
    <2> QED
      BY <1>4, <1>5, <2>1, Induction
  <1>7. Same(m, m) /\ m + m \in M /\ m \in 0 .. m
    <2>1. m + m \in Nat /\ m \in 0 .. m
      BY <1>1
    <2>2. \A t \in P : t <= m /\ pos[t] <= m
      BY <1>1
    <2>3. Same(m, m)
      BY <2>2
    <2> HIDE DEF M, Same
    <2> QED
      BY <1>6, <2>1, <2>3
  <1>8. Left(m) = Right(m)
    <2> HIDE DEF Same
    <2>1. \A l, j \in 0 .. m : l + j <= m + m /\ Same(l, j) => Left(l) = Right(j)
      BY <1>7
    <2>2. m + m <= m + m
      BY <1>1
    <2> QED
      BY <1>7, <2>1, <2>2
  <1> QED
    BY <1>2, <1>8

(* Nor does it change what the edits mean. *)
LEMMA EditedSorted ==
  ASSUME NEW T, NEW base \in Seq(T), NEW listed \in Seq(Edits(T)), NEW s \in Seq(Edits(T)),
         Len(s) = Len(listed), NEW pos, Sorts(pos, s, listed)
  PROVE  Edited(base, s) = Edited(base, listed)
  <1>1. /\ DOMAIN s = 1 .. Len(listed) /\ DOMAIN listed = 1 .. Len(listed)
        /\ \A k \in DOMAIN s : s[k] = listed[pos[k]] /\ pos[k] \in DOMAIN listed
        /\ \A i \in DOMAIN listed : \E k \in DOMAIN s : pos[k] = i
    <2> DEFINE S == 1 .. Len(listed)
    <2>1. DOMAIN s = S /\ DOMAIN listed = S
      OBVIOUS
    <2>2. pos \in [S -> S] /\ (\A k \in S : s[k] = listed[pos[k]]) /\ \A i \in S : \E k \in S : pos[k] = i
      BY DEF Sorts
    <2> HIDE DEF S
    <2> QED
      BY <2>1, <2>2 DEF S
  <1>2. \A k : Typed(s, k) = Typed(listed, k)
    BY TypedSorted
  <1>3. ASSUME NEW k
        PROVE  Kept(base, s, k) = Kept(base, listed, k)
    <2>1. (\A i \in DOMAIN s : ~(s[i].start <= k /\ k < s[i].end))
            <=> \A i \in DOMAIN listed : ~(listed[i].start <= k /\ k < listed[i].end)
      <3> DEFINE Covers(e) == e.start <= k /\ k < e.end
                 S == DOMAIN s
                 L == DOMAIN listed
      <3>1. /\ \A i \in S : s[i] = listed[pos[i]] /\ pos[i] \in L
            /\ \A i \in L : \E j \in S : pos[j] = i
        BY <1>1
      <3> HIDE DEF Covers, S, L
      <3>2. (\A i \in S : ~Covers(s[i])) <=> \A i \in L : ~Covers(listed[i])
        BY <3>1
      <3> QED
        BY <3>2 DEF Covers, S, L
    <2> QED
      BY <2>1 DEF Kept
  <1> DEFINE n == Len(base) + 1
             f == [i \in 1 .. n |-> Typed(s, i - 1) \o Kept(base, s, i - 1)]
             g == [i \in 1 .. n |-> Typed(listed, i - 1) \o Kept(base, listed, i - 1)]
  <1>4. f = g
    <2> HIDE DEF n
    <2>1. \A i \in 1 .. n : f[i] = g[i]
      BY <1>2, <1>3
    <2> QED
      BY <2>1
  <1>5. Edited(base, s) = FlattenSeq(f) /\ Edited(base, listed) = FlattenSeq(g)
    BY DEF Edited
  <1> HIDE DEF f, g
  <1> QED
    BY <1>4, <1>5

(* A slice that goes one rune further. *)
RuneAt(base, from, q) == IF from <= q /\ q < Len(base) THEN <<base[q + 1]>> ELSE <<>>

(* A slice that begins in the text ends with it. *)
LEMMA SliceFrom ==
  ASSUME NEW T, NEW t \in Seq(T), NEW from \in Nat, from <= Len(t), NEW q \in Nat
  PROVE  SliceByRunes(t, from, q) =
           SubSeq(t, from + 1, IF q < from THEN from ELSE IF q < Len(t) THEN q ELSE Len(t))
  <1> DEFINE n == Len(t)
             to == IF q < from THEN from ELSE q
             last == IF q < from THEN from ELSE IF q < n THEN q ELSE n
  <1>1. n \in Nat
    OBVIOUS
  <1> HIDE DEF n
  <1>2. Max({from, 0}) = from
    BY DEF Max
  <1>3. Max({q, from}) = to /\ to \in Nat
    <2>1. to \in {q, from} /\ \A y \in {q, from} : to >= y
      OBVIOUS
    <2>2. \A x \in {q, from} : (\A y \in {q, from} : x >= y) => x = to
      OBVIOUS
    <2> HIDE DEF to
    <2> QED
      BY <2>1, <2>2 DEF Max
  <1>4. Min({to, n}) = last
    <2>1. last \in {to, n} /\ \A y \in {to, n} : last <= y
      BY <1>1 DEF n
    <2>2. \A x \in {to, n} : (\A y \in {to, n} : x <= y) => x = last
      BY <1>1, <2>1
    <2> HIDE DEF to, last
    <2> QED
      BY <2>1, <2>2 DEF Min
  <1> HIDE DEF to, last
  <1> QED
    BY <1>2, <1>3, <1>4 DEF SliceByRunes, n, last

(* A slice one rune longer has that rune more, if the text has it. *)
LEMMA SliceStep ==
  ASSUME NEW T, NEW t \in Seq(T), NEW from \in Nat, from <= Len(t), NEW q \in Nat
  PROVE  /\ SliceByRunes(t, from, q) \in Seq(T) /\ RuneAt(t, from, q) \in Seq(T)
         /\ SliceByRunes(t, from, q + 1) = SliceByRunes(t, from, q) \o RuneAt(t, from, q)
         /\ q <= from => SliceByRunes(t, from, q) = <<>>
  <1> DEFINE n == Len(t)
             Limit(k) == IF k < from THEN from ELSE IF k < n THEN k ELSE n
             Part(k) == SubSeq(t, from + 1, k)
  <1>1. n \in Nat /\ \A k \in 1 .. n : t[k] \in T
    OBVIOUS
  <1>2. SliceByRunes(t, from, q) = Part(Limit(q)) /\ SliceByRunes(t, from, q + 1) = Part(Limit(q + 1))
    <2>1. q + 1 \in Nat
      OBVIOUS
    <2> QED
      BY <2>1, SliceFrom
  <1>3. ASSUME NEW k \in Nat, from <= k, k <= n
        PROVE  Part(k) \in Seq(T) /\ Part(from) = <<>> /\ (k < n => Part(k + 1) = Append(Part(k), t[k + 1]))
    BY <1>3
  <1>4. Part(Limit(q)) \in Seq(T)
    <2>1. Limit(q) \in Nat /\ from <= Limit(q) /\ Limit(q) <= n
      BY <1>1
    <2> HIDE DEF Part, Limit
    <2> QED
      BY <1>3, <2>1
  <1>5. RuneAt(t, from, q) \in Seq(T)
    <2>1. CASE from <= q /\ q < Len(t)
      <3>1. t[q + 1] \in T
        BY <2>1
      <3> QED
        BY <2>1, <3>1 DEF RuneAt
    <2>2. CASE ~(from <= q /\ q < Len(t))
      BY <2>2 DEF RuneAt
    <2> QED
      BY <2>1, <2>2
  <1>6. Part(Limit(q + 1)) = Part(Limit(q)) \o RuneAt(t, from, q)
    <2>1. CASE from <= q /\ q < n
      <3>1. Limit(q) = q /\ Limit(q + 1) = q + 1
        BY <2>1
      <3>2. RuneAt(t, from, q) = <<t[q + 1]>> /\ t[q + 1] \in T
        BY <2>1 DEF RuneAt
      <3>3. Part(q + 1) = Append(Part(q), t[q + 1]) /\ Part(q) \in Seq(T)
        BY <1>3, <2>1
      <3>4. Part(q) \o <<t[q + 1]>> = Append(Part(q), t[q + 1])
        <4> DEFINE s == Part(q)
                   r == t[q + 1]
        <4>1. s \in Seq(T) /\ r \in T
          BY <3>2, <3>3
        <4> HIDE DEF s, r
        <4>2. s \o <<r>> = Append(s, r)
          BY <4>1
        <4> QED
          BY <4>2 DEF s, r
      <3> HIDE DEF Part, Limit
      <3> QED
        BY <3>1, <3>2, <3>3, <3>4
    <2>2. CASE ~(from <= q /\ q < n)
      <3>1. Limit(q + 1) = Limit(q)
        BY <1>1, <2>2
      <3>2. RuneAt(t, from, q) = <<>>
        BY <2>2 DEF RuneAt
      <3> HIDE DEF Part, Limit
      <3>3. Part(Limit(q)) \o <<>> = Part(Limit(q))
        BY <1>4
      <3> QED
        BY <3>1, <3>2, <3>3
    <2> QED
      BY <2>1, <2>2
  <1>7. q <= from => Part(Limit(q)) = <<>>
    <2> SUFFICES ASSUME q <= from
                 PROVE  Part(Limit(q)) = <<>>
      OBVIOUS
    <2>1. Limit(q) = from
      BY <1>1
    <2>2. Part(from) = <<>>
      OBVIOUS
    <2> HIDE DEF Part, Limit
    <2> QED
      BY <2>1, <2>2
  <1> HIDE DEF Part, Limit
  <1> QED
    BY <1>2, <1>4, <1>5, <1>6, <1>7

(* Edited, position by position. *)
Piece(base, edits, k) == Typed(edits, k) \o Kept(base, edits, k)
EditedTo(base, edits, q) == FlattenSeq([i \in 1 .. q |-> Piece(base, edits, i - 1)])

(* What edits mean, up to one position more. *)
LEMMA EditedStep ==
  ASSUME NEW T, NEW base \in Seq(T), NEW edits \in Seq(Edits(T))
  PROVE  LET n == Len(base) IN
         /\ EditedTo(base, edits, 0) = <<>>
         /\ \A q \in 0 .. n + 1 : EditedTo(base, edits, q) \in Seq(T)
         /\ \A q \in 0 .. n :
              EditedTo(base, edits, q + 1) = EditedTo(base, edits, q) \o Piece(base, edits, q)
         /\ Edited(base, edits) = EditedTo(base, edits, n + 1)
  <1> DEFINE n == Len(base)
             P(i) == Piece(base, edits, i - 1)
             f == [i \in 1 .. n + 1 |-> P(i)]
  <1>1. n \in Nat /\ n + 1 \in Nat
    OBVIOUS
  <1>2. \A k \in 0 .. n : Piece(base, edits, k) \in Seq(T)
    <2> TAKE k \in 0 .. n
    <2>1. Typed(edits, k) \in Seq(T)
      <3>1. Len(edits) \in 0 .. Len(edits)
        OBVIOUS
      <3> QED
        BY <3>1, TypedStep
    <2>2. Kept(base, edits, k) \in Seq(T)
      <3>1. k < Len(base) => base[k + 1] \in T
        OBVIOUS
      <3> QED
        BY <3>1 DEF Kept
    <2> DEFINE a == Typed(edits, k)
               b == Kept(base, edits, k)
    <2> HIDE DEF a, b
    <2>3. a \in Seq(T) /\ b \in Seq(T) => a \o b \in Seq(T)
      OBVIOUS
    <2> QED
      BY <2>1, <2>2, <2>3 DEF Piece, a, b
  <1> HIDE DEF n
  <1>3. \A i \in 1 .. n + 1 : f[i] = P(i) /\ f[i] \in Seq(T)
    <2>1. \A i \in 1 .. n + 1 : i - 1 \in 0 .. n
      BY <1>1
    <2> QED
      BY <1>2, <2>1
  <1> DEFINE Flat(q) == FlattenSeq([i \in 1 .. q |-> f[i]])
  <1>4. ASSUME NEW q \in 0 .. n + 1
        PROVE  EditedTo(base, edits, q) = Flat(q)
    <2>1. \A i \in 1 .. q : f[i] = P(i)
      BY <1>1
    <2> HIDE DEF f
    <2>2. [i \in 1 .. q |-> f[i]] = [i \in 1 .. q |-> P(i)]
      BY <2>1
    <2> QED
      BY <2>2 DEF EditedTo
  <1> HIDE DEF f
  <1>5. /\ Flat(0) = <<>>
        /\ \A q \in 0 .. n + 1 : Flat(q) \in Seq(T)
        /\ \A q \in 0 .. n : Flat(q + 1) = Flat(q) \o f[q + 1]
    <2> DEFINE N == n + 1
    <2>1. N \in Nat /\ \A i \in 1 .. N : f[i] \in Seq(T)
      BY <1>1, <1>3
    <2>2. 0 .. N - 1 = 0 .. n
      BY <1>1
    <2> HIDE DEF N
    <2>3. /\ Flat(0) = <<>>
          /\ \A q \in 0 .. N : Flat(q) \in Seq(T)
          /\ \A q \in 0 .. N - 1 : Flat(q + 1) = Flat(q) \o f[q + 1]
      BY <2>1, FlattenFront
    <2> HIDE DEF Flat
    <2> QED
      BY <2>2, <2>3 DEF N
  <1> HIDE DEF Flat
  <1>6. EditedTo(base, edits, 0) = <<>>
    <2>1. 0 \in 0 .. n + 1
      BY <1>1
    <2> QED
      BY <1>4, <1>5, <2>1
  <1>7. ASSUME NEW q \in 0 .. n
        PROVE  EditedTo(base, edits, q + 1) = EditedTo(base, edits, q) \o Piece(base, edits, q)
    <2>1. q \in 0 .. n + 1 /\ q + 1 \in 0 .. n + 1 /\ q + 1 \in 1 .. n + 1 /\ q + 1 - 1 = q
      BY <1>1
    <2>2. f[q + 1] = Piece(base, edits, q)
      BY <1>3, <2>1
    <2> QED
      BY <1>4, <1>5, <2>1, <2>2
  <1>8. \A q \in 0 .. n + 1 : EditedTo(base, edits, q) \in Seq(T)
    BY <1>4, <1>5
  <1>9. Edited(base, edits) = EditedTo(base, edits, n + 1)
    BY DEF Edited, EditedTo, Piece, n
  <1> QED
    BY <1>6, <1>7, <1>8, <1>9 DEF n

(* Edits one behind the other, all of them in the base: after k of them the *)
(* text is copied from Cursor on, up to the start of the next.             *)
Fit(edits, base) == \A i \in DOMAIN edits : edits[i].start <= edits[i].end /\ edits[i].end <= Len(base)
Chained(s) == \A k, l \in DOMAIN s : k < l => s[k].end <= s[l].start
Start(s, k) == IF k = 0 THEN 0 ELSE s[k].start
Cursor(s, k) == IF k = 0 THEN 0 ELSE s[k].end
NextStart(s, k, n) == IF k = Len(s) THEN n ELSE s[k + 1].start

(* Where these are. *)
LEMMA ChainPlaces ==
  ASSUME NEW T, NEW base \in Seq(T), NEW s \in Seq(Edits(T)), Fit(s, base), Chained(s),
         NEW k \in 0 .. Len(s)
  PROVE  /\ Len(base) \in Nat
         /\ Start(s, k) \in Nat /\ Cursor(s, k) \in Nat /\ NextStart(s, k, Len(base)) \in Nat
         /\ Start(s, k) <= Cursor(s, k) /\ Cursor(s, k) <= NextStart(s, k, Len(base)) /\ NextStart(s, k, Len(base)) <= Len(base)
         /\ \A i \in DOMAIN s : s[i].start \in Nat /\ s[i].end \in Nat /\ s[i].start <= s[i].end
         /\ \A i \in DOMAIN s : i < k => s[i].end <= Start(s, k)
         /\ \A i \in DOMAIN s : i <= k => s[i].start <= Start(s, k)
         /\ \A i \in DOMAIN s : k < i => NextStart(s, k, Len(base)) <= s[i].start
  <1> DEFINE n == Len(base)
             m == Len(s)
  <1>1. n \in Nat /\ m \in Nat /\ DOMAIN s = 1 .. m
    OBVIOUS
  <1>2. \A i \in DOMAIN s : s[i].start \in Nat /\ s[i].end \in Nat
    <2> DEFINE E == Edits(T)
    <2>1. \A e \in E : e.start \in Nat /\ e.end \in Nat
      BY DEF Edits
    <2> HIDE DEF E
    <2>2. \A i \in DOMAIN s : s[i] \in E
      BY DEF E
    <2> QED
      BY <2>1, <2>2
  <1>3. \A i \in DOMAIN s : s[i].start <= s[i].end /\ s[i].end <= n
    BY DEF Fit
  <1>4. \A i, l \in DOMAIN s : i < l => s[i].end <= s[l].start
    BY DEF Chained
  <1> HIDE DEF n, m
  <1>5. k \in 0 .. m
    BY DEF m
  <1>6. k # 0 => k \in DOMAIN s
    BY <1>1, <1>5
  <1>7. k # m => k + 1 \in DOMAIN s /\ (k # 0 => k < k + 1)
    BY <1>1, <1>5
  <1>8. \A i \in DOMAIN s : i <= k => k # 0 /\ (i < k \/ i = k)
    BY <1>1, <1>5
  <1>9. \A i \in DOMAIN s : k < i => k # m /\ (k + 1 < i \/ k + 1 = i)
    BY <1>1, <1>5
  <1>10. Start(s, k) \in Nat /\ Cursor(s, k) \in Nat /\ Start(s, k) <= Cursor(s, k) /\ Cursor(s, k) <= n
    BY <1>1, <1>2, <1>3, <1>6 DEF Start, Cursor
  <1>11. /\ NextStart(s, k, n) \in Nat /\ Cursor(s, k) <= NextStart(s, k, n) /\ NextStart(s, k, n) <= n
    <2>1. CASE k = m
      BY <1>1, <1>10, <2>1 DEF NextStart, m
    <2>2. CASE k # m
      <3>1. NextStart(s, k, n) = s[k + 1].start /\ k + 1 \in DOMAIN s
        BY <1>7, <2>2 DEF NextStart, m
      <3>2. Cursor(s, k) <= s[k + 1].start
        <4>1. CASE k = 0
          BY <1>2, <3>1, <4>1 DEF Cursor
        <4>2. CASE k # 0
          BY <1>4, <1>6, <1>7, <2>2, <4>2 DEF Cursor
        <4> QED
          BY <4>1, <4>2
      <3> QED
        BY <1>1, <1>2, <1>3, <3>1, <3>2
    <2> QED
      BY <2>1, <2>2
  <1>12. ASSUME NEW i \in DOMAIN s, i < k
         PROVE  s[i].end <= Start(s, k)
    <2>1. k # 0 /\ k \in DOMAIN s
      BY <1>1, <1>6, <1>12
    <2> QED
      BY <1>4, <1>12, <2>1 DEF Start
  <1>13. ASSUME NEW i \in DOMAIN s, i <= k
         PROVE  s[i].start <= Start(s, k)
    <2>1. CASE i = k
      BY <1>2, <1>8, <1>13, <2>1 DEF Start
    <2>2. CASE i < k
      BY <1>2, <1>3, <1>10, <1>12, <2>2
    <2> QED
      BY <1>8, <1>13, <2>1, <2>2
  <1>14. ASSUME NEW i \in DOMAIN s, k < i
         PROVE  NextStart(s, k, n) <= s[i].start
    <2>1. k # m /\ k + 1 \in DOMAIN s /\ (k + 1 < i \/ k + 1 = i)
      BY <1>7, <1>9, <1>14
    <2>2. NextStart(s, k, n) = s[k + 1].start
      BY <2>1 DEF NextStart, m
    <2> QED
      BY <1>2, <1>3, <1>4, <2>1, <2>2
  <1>15. \A i \in DOMAIN s : s[i].start \in Nat /\ s[i].end \in Nat /\ s[i].start <= s[i].end
    BY <1>2, <1>3
  <1> QED
    BY <1>1, <1>10, <1>11, <1>12, <1>13, <1>14, <1>15 DEF n

(* A front of the edits types in nothing beyond their starts, and all that  *)
(* is typed in before the next one; behind the last edit and before the    *)
(* next one every rune of the base stays.                                  *)
LEMMA BetweenEdits ==
  ASSUME NEW T, NEW base \in Seq(T), NEW s \in Seq(Edits(T)), Fit(s, base), Chained(s),
         NEW k \in 0 .. Len(s), NEW q \in Nat, Start(s, k) <= q
  PROVE  /\ Start(s, k) < q => TypedTo(s, q, k) = <<>>
         /\ q < NextStart(s, k, Len(base)) =>
              /\ Typed(s, q) = TypedTo(s, q, k)
              /\ Kept(base, s, q) = RuneAt(base, Cursor(s, k), q)
  <1> DEFINE n == Len(base)
             m == Len(s)
             a == Start(s, k)
             b == Cursor(s, k)
             c == NextStart(s, k, n)
             D == DOMAIN s
             Leading(l) == TypedTo(s, q, l)
  <1>1. /\ n \in Nat /\ a \in Nat /\ b \in Nat /\ c \in Nat
        /\ a <= b /\ b <= c /\ c <= n
        /\ \A i \in D : s[i].start \in Nat /\ s[i].end \in Nat /\ s[i].start <= s[i].end
        /\ \A i \in D : i < k => s[i].end <= a
        /\ \A i \in D : i <= k => s[i].start <= a
        /\ \A i \in D : k < i => c <= s[i].start
    BY ChainPlaces
  <1>2. /\ m \in Nat /\ D = 1 .. m /\ k \in 0 .. m
        /\ Leading(0) = <<>>
        /\ \A l \in 0 .. m : Leading(l) \in Seq(T)
        /\ \A l \in 0 .. m - 1 : Leading(l + 1) = Leading(l) \o TypedOf(s[l + 1], q)
        /\ Typed(s, q) = Leading(m)
    <2>1. m \in Nat /\ D = 1 .. m /\ k \in 0 .. m
      OBVIOUS
    <2>2. /\ Leading(0) = <<>>
          /\ \A l \in 0 .. m : Leading(l) \in Seq(T)
          /\ \A l \in 0 .. m - 1 : Leading(l + 1) = Leading(l) \o TypedOf(s[l + 1], q)
          /\ Typed(s, q) = Leading(m)
      BY TypedStep
    <2> QED
      BY <2>1, <2>2
  <1>3. k # 0 => k \in D /\ a = s[k].start /\ b = s[k].end
    BY <1>2 DEF Start, Cursor
  <1>4. k = 0 => b = 0
    BY DEF Cursor
  <1> HIDE DEF n, m, a, b, c, D, Leading
  <1>5. ASSUME NEW l \in 0 .. m - 1, s[l + 1].start # q
        PROVE  Leading(l + 1) = Leading(l)
    <2>1. Leading(l + 1) = Leading(l) \o <<>> /\ Leading(l) \in Seq(T)
      <3>1. l \in 0 .. m
        BY <1>2
      <3> QED
        BY <1>2, <1>5, <3>1 DEF TypedOf
    <2> QED
      BY <2>1
  <1>6. ASSUME a < q
        PROVE  Leading(k) = <<>>
    <2> DEFINE M == {l \in Nat : l <= k => Leading(l) = <<>>}
    <2>1. 0 \in M
      BY <1>2
    <2>2. ASSUME NEW l \in M
          PROVE  l + 1 \in M
      <3> SUFFICES ASSUME l + 1 <= k
                   PROVE  Leading(l + 1) = <<>>
        OBVIOUS
      <3>1. l \in 0 .. m - 1 /\ l + 1 \in D /\ l <= k
        BY <1>2
      <3>2. s[l + 1].start # q
        BY <1>1, <1>6, <3>1
      <3> QED
        BY <1>5, <3>1, <3>2
    <2>3. M = Nat
      <3>1. M \in SUBSET Nat
        OBVIOUS
      <3> HIDE DEF M
      <3> QED
        BY <2>1, <2>2, <3>1, Induction
    <2>4. k \in Nat /\ k <= k
      BY <1>2
    <2> QED
      BY <2>3, <2>4
  <1>7. ASSUME q < c
        PROVE  Leading(m) = Leading(k)
    <2> DEFINE M == {d \in Nat : k + d <= m => Leading(k + d) = Leading(k)}
    <2>1. 0 \in M
      BY <1>2
    <2>2. ASSUME NEW d \in M
          PROVE  d + 1 \in M
      <3> SUFFICES ASSUME k + (d + 1) <= m
                   PROVE  Leading(k + (d + 1)) = Leading(k)
        OBVIOUS
      <3>1. k + d \in 0 .. m - 1 /\ k + d + 1 \in D /\ k < k + d + 1 /\ k + (d + 1) = k + d + 1 /\ k + d <= m
        BY <1>2
      <3>2. s[k + d + 1].start # q
        BY <1>1, <1>7, <3>1
      <3> QED
        BY <1>5, <3>1, <3>2
    <2>3. M = Nat
      <3>1. M \in SUBSET Nat
        OBVIOUS
      <3> HIDE DEF M
      <3> QED
        BY <2>1, <2>2, <3>1, Induction
    <2> DEFINE d == m - k
    <2>4. d \in Nat /\ k + d = m /\ k + d <= m
      BY <1>2
    <2> HIDE DEF d
    <2> QED
      BY <2>3, <2>4
  <1>8. ASSUME q < c, a <= q
        PROVE  Kept(base, s, q) = RuneAt(base, b, q)
    <2>1. q < n
      BY <1>1, <1>8
    <2>2. (\A i \in D : ~(s[i].start <= q /\ q < s[i].end)) <=> b <= q
      <3>1. ASSUME NEW i \in D, i # k
            PROVE  ~(s[i].start <= q /\ q < s[i].end)
        <4>1. i < k \/ k < i
          BY <1>2, <3>1
        <4> QED
          BY <1>1, <1>8, <3>1, <4>1
      <3>2. CASE k = 0
        BY <1>2, <1>4, <3>1, <3>2
      <3>3. CASE k # 0
        BY <1>1, <1>3, <1>8, <3>1, <3>3
      <3> QED
        BY <3>2, <3>3
    <2> QED
      BY <2>1, <2>2 DEF Kept, RuneAt, n, D
  <1> QED
    BY <1>2, <1>6, <1>7, <1>8 DEF n, a, b, c, Leading

(* The states of the loop of applyEdits after k edits. *)
EditStates(T, base, s, k) ==
    {acc \in [out : Seq(T), cursor : Nat] :
        /\ acc.cursor = Cursor(s, k)
        /\ acc.out = EditedTo(base, s, Start(s, k)) \o TypedTo(s, Start(s, k), k)}

(* As the base is copied, the text reached is what the edits mean so far:   *)
(* all positions before q, and what the first k edits type in at q.        *)
LEMMA CopiedOn ==
  ASSUME NEW T, NEW base \in Seq(T), NEW s \in Seq(Edits(T)), Fit(s, base), Chained(s),
         NEW k \in 0 .. Len(s), NEW acc \in EditStates(T, base, s, k)
  PROVE  \A q \in Start(s, k) .. NextStart(s, k, Len(base)) :
           EditedTo(base, s, q) \o TypedTo(s, q, k) = acc.out \o SliceByRunes(base, Cursor(s, k), q)
  <1> DEFINE out == acc.out
             n == Len(base)
             a == Start(s, k)
             b == Cursor(s, k)
             c == NextStart(s, k, n)
             Before(q) == EditedTo(base, s, q)
             Here(q) == TypedTo(s, q, k)
             Copied(q) == SliceByRunes(base, b, q)
             Rune(q) == RuneAt(base, b, q)
             Reached(q) == Before(q) \o Here(q) = out \o Copied(q)
             M == {j \in Nat : a + j <= c => Reached(a + j)}
  <1>0. out \in Seq(T) /\ Before(a) \o Here(a) = out
    BY DEF EditStates
  <1>1. n \in Nat /\ a \in Nat /\ b \in Nat /\ c \in Nat /\ a <= b /\ b <= n /\ c <= n
    <2>1. n \in Nat /\ a \in Nat /\ b \in Nat /\ c \in Nat /\ a <= b /\ b <= c /\ c <= n
      BY ChainPlaces
    <2> HIDE DEF n, a, b, c
    <2> QED
      BY <2>1
  <1>2. ASSUME NEW q \in Nat
        PROVE  /\ Copied(q) \in Seq(T) /\ Rune(q) \in Seq(T) /\ Copied(q + 1) = Copied(q) \o Rune(q)
               /\ q <= b => Copied(q) = <<>>
    <2>1. b \in Nat /\ b <= Len(base)
      BY <1>1
    <2> HIDE DEF b
    <2> QED
      BY <2>1, SliceStep DEF Copied, Rune
  <1>3. \A q : Here(q) \in Seq(T)
    BY TypedStep
  <1>4. \A q \in 0 .. n : Before(q) \in Seq(T) /\ Before(q + 1) = Before(q) \o Piece(base, s, q)
    <2>1. \A q \in 0 .. n : q \in 0 .. n + 1
      BY <1>1
    <2> QED
      BY <2>1, EditedStep
  <1>5. ASSUME NEW q \in Nat, a <= q, q < c
        PROVE  Here(q + 1) = <<>> /\ Piece(base, s, q) = Here(q) \o Rune(q)
    <2>1. Here(q + 1) = <<>>
      <3>1. q + 1 \in Nat /\ Start(s, k) <= q + 1 /\ Start(s, k) < q + 1
        BY <1>1, <1>5
      <3> QED
        BY <3>1, BetweenEdits
    <2>2. Typed(s, q) = Here(q) /\ Kept(base, s, q) = Rune(q)
      BY <1>5, BetweenEdits
    <2> QED
      BY <2>1, <2>2 DEF Piece
  <1>6. Reached(a)
    <2>1. Copied(a) = <<>>
      BY <1>1, <1>2
    <2> HIDE DEF Copied, Before, Here, out
    <2>2. out \o <<>> = out
      BY <1>0
    <2> QED
      BY <1>0, <2>1, <2>2
  <1> HIDE DEF out, n, a, b, c, Before, Here, Copied, Rune
  <1>7. ASSUME NEW q \in Nat, a <= q, q < c, Reached(q)
        PROVE  Reached(q + 1)
    <2> DEFINE t == Before(q)
               h == Here(q)
               p == Copied(q)
               r == Rune(q)
    <2>1. q \in 0 .. n
      BY <1>1, <1>7
    <2>2. t \in Seq(T) /\ h \in Seq(T) /\ r \in Seq(T)
      BY <1>2, <1>3, <1>4, <2>1
    <2>3. p \in Seq(T) /\ r \in Seq(T)
      BY <1>2
    <2>4. t \o h = out \o p
      BY <1>7
    <2>5. Before(q + 1) = t \o (h \o r) /\ Here(q + 1) = <<>> /\ Copied(q + 1) = p \o r
      BY <1>2, <1>4, <1>5, <1>7, <2>1
    <2> HIDE DEF t, h, p, r, M, Reached
    <2>6. (t \o h) \o r = t \o (h \o r)
      BY <2>2, ConcatAssociative
    <2>7. (out \o p) \o r = out \o (p \o r)
      BY <1>0, <2>3, ConcatAssociative
    <2>8. (t \o (h \o r)) \o <<>> = t \o (h \o r)
      BY <2>2
    <2>9. Before(q + 1) \o Here(q + 1) = out \o Copied(q + 1)
      BY <2>4, <2>5, <2>6, <2>7, <2>8
    <2> QED
      BY <2>9 DEF Reached
  <1> HIDE DEF Reached
  <1>8. 0 \in M
    <2>1. a + 0 = a
      BY <1>1
    <2> QED
      BY <1>6, <2>1
  <1>9. ASSUME NEW j \in M
        PROVE  j + 1 \in M
    <2> SUFFICES ASSUME a + (j + 1) <= c
                 PROVE  Reached(a + (j + 1))
      OBVIOUS
    <2> DEFINE q == a + j
    <2>1. q \in Nat /\ a <= q /\ q < c /\ a + (j + 1) = q + 1 /\ Reached(q)
      BY <1>1
    <2> HIDE DEF q
    <2> QED
      BY <1>7, <2>1
  <1>10. M = Nat
    <2>1. M \in SUBSET Nat
      OBVIOUS
    <2> HIDE DEF M
    <2> QED
      BY <1>8, <1>9, <2>1, Induction
  <1>11. ASSUME NEW q \in a .. c
         PROVE  Reached(q)
    <2> DEFINE j == q - a
    <2>1. j \in Nat /\ a + j = q /\ q <= c
      BY <1>1
    <2> HIDE DEF j
    <2> QED
      BY <1>10, <2>1
  <1> QED
    BY <1>11 DEF out, Reached, Before, Here, Copied, a, b, c, n

(* A step of the loop leaves what the edits so far mean. *)
LEMMA EditingKeeps ==
  ASSUME NEW T, NEW base \in Seq(T), NEW s \in Seq(Edits(T)), Fit(s, base), Chained(s),
         NEW k \in 0 .. Len(s) - 1, NEW acc \in EditStates(T, base, s, k)
  PROVE  ApplyEdit(base, acc, s[k + 1]) \in EditStates(T, base, s, k + 1)
  <1> DEFINE n == Len(base)
             m == Len(s)
             e == s[k + 1]
             x == e.start
             b == Cursor(s, k)
             out == acc.out
             copied == SliceByRunes(base, b, x)
             typed == e.adopted
             before == EditedTo(base, s, x)
             here == TypedTo(s, x, k)
  <1>1. n \in Nat /\ m \in Nat /\ k \in 0 .. m /\ k + 1 \in 0 .. m /\ k + 1 \in 1 .. m /\ k # m /\ k + 1 # 0
    OBVIOUS
  <1>2. x \in Nat /\ e.end \in Nat /\ typed \in Seq(T)
    <2> DEFINE E == Edits(T)
    <2>1. \A f \in E : f.start \in Nat /\ f.end \in Nat /\ f.adopted \in Seq(T)
      BY DEF Edits
    <2> HIDE DEF E
    <2>2. s[k + 1] \in E
      BY <1>1 DEF E
    <2> QED
      BY <2>1, <2>2
  <1>3. Start(s, k + 1) = x /\ Cursor(s, k + 1) = e.end /\ NextStart(s, k, n) = x
    BY <1>1 DEF Start, Cursor, NextStart
  <1>4. out \in Seq(T) /\ acc.cursor = b /\ out = EditedTo(base, s, Start(s, k)) \o TypedTo(s, Start(s, k), k)
    BY DEF EditStates
  <1>5. Start(s, k) \in Nat /\ b \in Nat /\ Start(s, k) <= b /\ b <= x /\ x <= n
    <2>1. /\ Start(s, k) \in Nat /\ Cursor(s, k) \in Nat /\ NextStart(s, k, Len(base)) \in Nat
          /\ Start(s, k) <= Cursor(s, k) /\ Cursor(s, k) <= NextStart(s, k, Len(base))
          /\ NextStart(s, k, Len(base)) <= Len(base)
      BY <1>1, ChainPlaces
    <2> QED
      BY <1>3, <2>1
  <1>6. before \o here = out \o copied
    <2>1. k \in 0 .. Len(s)
      BY <1>1
    <2>2. \A q \in Start(s, k) .. NextStart(s, k, Len(base)) :
            EditedTo(base, s, q) \o TypedTo(s, q, k) = acc.out \o SliceByRunes(base, Cursor(s, k), q)
      BY <2>1, CopiedOn
    <2>3. x \in Start(s, k) .. NextStart(s, k, n)
      BY <1>2, <1>3, <1>5
    <2> QED
      BY <2>2, <2>3
  <1>7. copied \in Seq(T)
    <2>1. b <= Len(base)
      BY <1>1, <1>2, <1>5
    <2> QED
      BY <1>2, <1>5, <2>1, SliceStep
  <1>8. before \in Seq(T)
    <2>1. x \in 0 .. n + 1
      BY <1>1, <1>2, <1>5
    <2> HIDE DEF e, x
    <2> QED
      BY <2>1, EditedStep
  <1>9. here \in Seq(T) /\ TypedTo(s, x, k + 1) = here \o typed
    <2>1. k \in 0 .. Len(s) /\ k \in 0 .. Len(s) - 1
      BY <1>1
    <2>2. here \in Seq(T) /\ TypedTo(s, x, k + 1) = here \o TypedOf(e, x)
      BY <2>1, TypedStep
    <2> HIDE DEF here
    <2> QED
      BY <2>2 DEF TypedOf
  <1>10. ApplyEdit(base, acc, e) = [out |-> out \o copied \o typed, cursor |-> e.end]
    <2>1. ~Overlaps(e, acc.cursor)
      BY <1>2, <1>4, <1>5 DEF Overlaps
    <2> QED
      BY <1>4, <2>1 DEF ApplyEdit
  <1> DEFINE new == out \o copied \o typed
  <1>11. new \in Seq(T) /\ new = before \o (here \o typed)
    <2> HIDE DEF before, here, copied, typed, out
    <2>1. (before \o here) \o typed = before \o (here \o typed)
      <3>1. before \in Seq(T) /\ here \in Seq(T) /\ typed \in Seq(T)
        BY <1>2, <1>8, <1>9
      <3> QED
        BY <3>1, ConcatAssociative
    <2>2. here \o typed \in Seq(T) /\ before \o (here \o typed) \in Seq(T)
      BY <1>2, <1>8, <1>9
    <2> QED
      BY <1>6, <2>1, <2>2
  <1>12. new = EditedTo(base, s, Start(s, k + 1)) \o TypedTo(s, Start(s, k + 1), k + 1)
    BY <1>3, <1>9, <1>11
  <1>13. ApplyEdit(base, acc, s[k + 1]) = [out |-> new, cursor |-> e.end]
    BY <1>10
  <1> HIDE DEF new, e
  <1> QED
    BY <1>2, <1>3, <1>11, <1>12, <1>13 DEF EditStates

(* The whole loop: what is copied behind the last edit completes the text. *)
LEMMA EditedIs ==
  ASSUME NEW T, NEW base \in Seq(T), NEW s \in Seq(Edits(T)), Fit(s, base), Chained(s)
  PROVE  EditedAt(base, s).out \o SliceByRunes(base, EditedAt(base, s).cursor, Len(base))
           = Edited(base, s)
  <1> DEFINE n == Len(base)
             m == Len(s)
             I == [k \in Nat |-> EditStates(T, base, s, k)]
             last == EditedAt(base, s)
  <1>1. n \in Nat /\ m \in Nat /\ m \in 0 .. m
    OBVIOUS
  <1>2. Unedited \in I[0]
    <2>1. Cursor(s, 0) = 0 /\ Start(s, 0) = 0
      BY DEF Cursor, Start
    <2>2. EditedTo(base, s, 0) = <<>> /\ TypedTo(s, 0, 0) = <<>>
      BY EditedStep, TypedStep
    <2> DEFINE none == <<>>
    <2>3. none \in Seq(T) /\ none \o none = none
      OBVIOUS
    <2> HIDE DEF none
    <2>4. [out |-> none, cursor |-> 0] \in EditStates(T, base, s, 0)
      BY <2>1, <2>2, <2>3 DEF EditStates, none
    <2> QED
      BY <2>4 DEF Unedited, none
  <1>3. ASSUME NEW k \in 0 .. m - 1, NEW acc \in I[k]
        PROVE  ApplyEdit(base, acc, s[k + 1]) \in I[k + 1]
    <2>1. k \in Nat /\ k + 1 \in Nat
      BY <1>1
    <2>2. acc \in EditStates(T, base, s, k)
      BY <1>3, <2>1
    <2>3. ApplyEdit(base, acc, s[k + 1]) \in EditStates(T, base, s, k + 1)
      BY <2>2, EditingKeeps
    <2> QED
      BY <2>1, <2>3
  <1>4. last \in EditStates(T, base, s, m)
    <2> HIDE DEF I
    <2>1. last \in I[m]
      BY <1>1, <1>2, <1>3, Editing!FoldInvariant DEF EditedAt
    <2> QED
      BY <1>1, <2>1 DEF I
  <1>5. /\ last.out \in Seq(T) /\ last.cursor = Cursor(s, m)
        /\ last.out = EditedTo(base, s, Start(s, m)) \o TypedTo(s, Start(s, m), m)
    <2> HIDE DEF last
    <2> QED
      BY <1>4 DEF EditStates
  <1>6. NextStart(s, m, n) = n /\ n \in Start(s, m) .. n
    <2>1. /\ Start(s, m) \in Nat /\ Cursor(s, m) \in Nat
          /\ Start(s, m) <= Cursor(s, m) /\ Cursor(s, m) <= NextStart(s, m, n)
      BY <1>1, ChainPlaces
    <2>2. NextStart(s, m, n) = n
      BY DEF NextStart
    <2> HIDE DEF n, m
    <2> QED
      BY <1>1, <2>1, <2>2
  <1>7. EditedTo(base, s, n) \o TypedTo(s, n, m) = last.out \o SliceByRunes(base, Cursor(s, m), n)
    <2>1. m \in 0 .. Len(s)
      BY <1>1
    <2> HIDE DEF m, n, I, last
    <2>2. \A q \in Start(s, m) .. NextStart(s, m, Len(base)) :
            EditedTo(base, s, q) \o TypedTo(s, q, m) = last.out \o SliceByRunes(base, Cursor(s, m), q)
      BY <1>4, <2>1, CopiedOn
    <2> QED
      BY <1>6, <2>2 DEF n
  <1>8. Edited(base, s) = EditedTo(base, s, n) \o Piece(base, s, n)
    <2>1. n \in 0 .. n
      BY <1>1
    <2> QED
      BY <2>1, EditedStep
  <1>9. Piece(base, s, n) = TypedTo(s, n, m)
    <2> DEFINE t == TypedTo(s, n, m)
    <2>1. Typed(s, n) = t /\ t \in Seq(T)
      BY <1>1, TypedStep
    <2>2. Kept(base, s, n) = <<>>
      BY <1>1 DEF Kept
    <2>3. t \o <<>> = t
      <3> HIDE DEF t
      <3> QED
        BY <2>1
    <2>4. Piece(base, s, n) = Typed(s, n) \o Kept(base, s, n)
      BY DEF Piece
    <2> QED
      BY <2>1, <2>2, <2>3, <2>4
  <1> QED
    BY <1>5, <1>7, <1>8, <1>9

(* Edits that keep apart, in whatever order they are listed, leave what     *)
(* they mean position by position, two insertions at one place in the      *)
(* order of the list: applyEdits (compile.go) sorts them stably and moves   *)
(* a cursor over the base.                                                 *)
THEOREM ApplyEditsIs ==
  ASSUME NEW T, NEW base \in Seq(T), NEW listed \in Seq(Edits(T)), Fit(listed, base), Apart(listed)
  PROVE  ApplyEdits(base, listed) = Edited(base, listed)
  <1> DEFINE s == ByStart(listed)
             P == 1 .. Len(listed)
  <1>1. s \in Seq(Edits(T)) /\ Len(s) = Len(listed) /\ \E pos : Sorts(pos, s, listed)
    BY SortedEdits
  <1> HIDE DEF s
  <1>2. PICK pos : Sorts(pos, s, listed)
    BY <1>1
  <1>3. /\ DOMAIN s = P /\ DOMAIN listed = P
        /\ \A k \in P : s[k] = listed[pos[k]] /\ pos[k] \in P
        /\ \A k, l \in P : k < l => Precedes(listed, pos[k], pos[l])
    <2>1. DOMAIN s = P /\ DOMAIN listed = P
      BY <1>1
    <2>2. /\ pos \in [P -> P] /\ \A k \in P : s[k] = listed[pos[k]]
          /\ \A k, l \in P : k < l => Precedes(listed, pos[k], pos[l])
      BY <1>2 DEF Sorts
    <2> HIDE DEF P
    <2> QED
      BY <2>1, <2>2
  <1>4. \A i \in P : listed[i].start \in Nat
    <2> DEFINE E == Edits(T)
    <2>1. \A e \in E : e.start \in Nat
      BY DEF Edits
    <2> HIDE DEF E
    <2>2. \A i \in P : listed[i] \in E
      BY DEF E
    <2> QED
      BY <2>1, <2>2
  <1>5. Len(listed) \in Nat
    OBVIOUS
  <1> HIDE DEF P
  <1>6. Fit(s, base)
    BY <1>3 DEF Fit
  <1>7. Chained(s)
    <2> SUFFICES ASSUME NEW k \in P, NEW l \in P, k < l
                 PROVE  s[k].end <= s[l].start
      BY <1>3 DEF Chained
    <2> DEFINE i == pos[k]
               j == pos[l]
    <2>1. i \in P /\ j \in P /\ Precedes(listed, i, j) /\ s[k] = listed[i] /\ s[l] = listed[j]
      BY <1>3
    <2> HIDE DEF i, j
    <2>2. i # j /\ listed[i].start <= listed[j].start
      <3>1. listed[i].start \in Nat /\ listed[j].start \in Nat /\ i \in Nat /\ j \in Nat
        BY <1>4, <1>5, <2>1 DEF P
      <3> QED
        BY <2>1, <3>1 DEF Precedes
    <2>3. listed[i].end <= listed[j].start
      BY <1>3, <2>1, <2>2 DEF Apart
    <2> QED
      BY <2>1, <2>3
  <1>8. EditedAt(base, s).out \o SliceByRunes(base, EditedAt(base, s).cursor, Len(base)) = Edited(base, s)
    BY <1>1, <1>6, <1>7, EditedIs
  <1>9. Edited(base, s) = Edited(base, listed)
    BY <1>1, <1>2, EditedSorted
  <1> QED
    BY <1>8, <1>9, ApplyFold DEF s

(* The decisions on a base passage are all compiled into it, each where it  *)
(* belongs, in whatever order they are listed, provided that their ranges  *)
(* keep apart (applyEdits over what RegisterEdit collects, compile.go).    *)
THEOREM EditsFound == Spec => []EditsApplied
  <1>1. EditionInv => EditsApplied
    <2> SUFFICES ASSUME EditionInv, NEW bp \in ToSet(passages[Base]),
                        NEW listed \in SetToSeqs({a \in approved : Variant(a).passage = bp.id}),
                        Apart(Registered(listed))
                 PROVE  ApplyEdits(bp.text, Registered(listed)) = Edited(bp.text, Registered(listed))
      BY DEF EditsApplied
    <2> DEFINE here == {a \in approved : Variant(a).passage = bp.id}
               ps == passages[Base]
               edits == Registered(listed)
               base == bp.text
    <2>1. Imported(ps)
      <3>1. Base \in AllTexts
        BY DEF AllTexts
      <3> QED
        BY <3>1, ImportedTexts
    <2>2. /\ ps \in Seq(Items) /\ bp \in Items /\ bp.id \in Ids /\ bp.text \in Seq(AllRunes)
          /\ \A p \in ToSet(ps) : p.id = bp.id => p = bp
      <3>1. \E i \in DOMAIN ps : ps[i] = bp
        BY DEF ToSet
      <3> HIDE DEF ps
      <3>2. ps \in Seq(Items) /\ \A i, j \in DOMAIN ps : ps[i].id = ps[j].id => i = j
        BY <2>1 DEF Imported, DistinctIds
      <3>3. \A p \in ToSet(ps) : p.id = bp.id => p = bp
        BY <3>1, <3>2 DEF ToSet
      <3>4. bp \in Items
        BY <3>1, <3>2
      <3> QED
        BY <3>2, <3>3, <3>4 DEF Items, PassageItems
    <2>3. PassageOf(bp.id) = bp
      <3>1. \A p \in ToSet(ps) : p.id = bp.id <=> p = bp
        BY <2>2
      <3> QED
        BY <3>1 DEF PassageOf
    <2>4. bp.id # NoPassage
      BY <2>2, NoPassageAssumption DEF Ids
    <2>5. ASSUME NEW a \in here
          PROVE  /\ RegisterEdit(a) \in Edits(AllRunes)
                 /\ RegisterEdit(a).start <= RegisterEdit(a).end /\ RegisterEdit(a).end <= Len(bp.text)
      <3>1. a \in approved /\ Variant(a).passage = bp.id /\ InBase(Variant(a))
        BY <2>4, <2>5 DEF InBase
      <3>2. LET v == Variant(a)
                p == PassageOf(v.passage)
                e == RegisterEdit(a) IN
            e \in Edits(AllRunes) /\ e.start <= e.end /\ e.end <= Len(p.text)
        BY <3>1, DecisionIs
      <3> QED
        BY <2>3, <3>1, <3>2
    <2>6. \E n \in Nat : listed \in [1 .. n -> here]
      <3>1. IsFiniteSet(here)
        <4>1. IsFiniteSet(approved) /\ here \subseteq approved
          BY DEF EditionInv
        <4> QED
          BY <4>1, FS_Subset
      <3>2. Cardinality(here) \in Nat
        BY <3>1, FS_CardinalityType
      <3>3. listed \in [1 .. Cardinality(here) -> here]
        BY DEF SetToSeqs
      <3> HIDE DEF here
      <3> QED
        BY <3>2, <3>3
    <2>7. PICK n \in Nat : listed \in [1 .. n -> here]
      BY <2>6
    <2>8. edits \in Seq(Edits(AllRunes)) /\ Fit(edits, base)
      <3>1. DOMAIN edits = 1 .. n /\ \A k \in 1 .. n : edits[k] = RegisterEdit(listed[k]) /\ listed[k] \in here
        <4> HIDE DEF here
        <4> QED
          BY <2>7 DEF Registered
      <3>2. edits = [k \in DOMAIN listed |-> RegisterEdit(listed[k])]
        BY DEF Registered
      <3> DEFINE E == Edits(AllRunes)
      <3>3. \A k \in 1 .. n : edits[k] \in E /\ edits[k].start <= edits[k].end /\ edits[k].end <= Len(base)
        <4> HIDE DEF edits, here
        <4> QED
          BY <2>5, <3>1
      <3>4. edits \in [1 .. n -> E]
        <4>1. edits = [k \in 1 .. n |-> edits[k]]
          BY <3>1, <3>2
        <4> HIDE DEF edits, E
        <4> QED
          BY <3>3, <4>1
      <3> HIDE DEF edits, E, base
      <3>5. edits \in Seq(E)
        BY <3>4
      <3> QED
        BY <3>1, <3>3, <3>5 DEF Fit, E
    <2>9. base \in Seq(AllRunes)
      BY <2>2
    <2> HIDE DEF base, edits, here, ps
    <2>10. Apart(edits)
      BY DEF edits
    <2>11. ApplyEdits(base, edits) = Edited(base, edits)
      BY <2>8, <2>9, <2>10, ApplyEditsIs
    <2> QED
      BY <2>11 DEF base, edits
  <1> QED
    BY <1>1, EditionInvariant, PTL

(* The edges of a witness's links over the base: one for each pair of       *)
(* neighbours in it, inverted when the linked passages are.                *)
LinkRank(base, link) == [i \in 1 .. Len(base) |-> link[base[i].id].ordinal]
LEMMA EdgesAre ==
  ASSUME EditionInv, NEW w \in Witnesses,
         NEW link \in [{p.id : p \in ToSet(passages[Base])} -> ToSet(passages[w])]
  PROVE  LET base == passages[Base]
             n == Len(base)
             edges == DetectMovements(base, link)
             f == LinkRank(base, link) IN
         /\ n \in Nat /\ DOMAIN base = 1 .. n /\ Len(edges) = (IF n = 0 THEN 0 ELSE n - 1) /\ DOMAIN edges = 1 .. n - 1
         /\ \A i, j \in 1 .. n : base[i].id = base[j].id => i = j
         /\ \A i \in 1 .. n : f[i] = link[base[i].id].ordinal /\ f[i] \in Nat
         /\ \A i \in 1 .. n - 1 : /\ i \in 1 .. n /\ i + 1 \in 1 .. n
                                  /\ edges[i].from = base[i].id /\ edges[i].to = base[i + 1].id
                                  /\ edges[i].inverted <=> f[i] > f[i + 1]
  <1> DEFINE base == passages[Base]
             ws == passages[w]
             n == Len(base)
             ids == {p.id : p \in ToSet(base)}
             edges == DetectMovements(base, link)
             f == [i \in 1 .. n |-> link[base[i].id].ordinal]
  <1>1. Imported(base) /\ Imported(ws)
    <2>1. Base \in AllTexts /\ w \in AllTexts
      BY DEF AllTexts
    <2> QED
      BY <2>1, ImportedTexts
  <1>2. /\ base \in Seq(Items) /\ ws \in Seq(Items)
        /\ \A i, j \in DOMAIN base : base[i].id = base[j].id => i = j
    <2> HIDE DEF base, ws
    <2> QED
      BY <1>1 DEF Imported, DistinctIds
  <1>3. DOMAIN link = ids /\ \A x \in ids : link[x] \in ToSet(ws)
    OBVIOUS
  <1>4. \A i \in DOMAIN base : base[i].id \in ids
    BY DEF ToSet
  <1> HIDE DEF base, ws, ids
  <1>5. n \in Nat /\ DOMAIN base = 1 .. n
    BY <1>2
  <1>6. \A i \in 1 .. n : f[i] = link[base[i].id].ordinal /\ f[i] \in Nat
    <2>1. \A p \in ToSet(ws) : p.ordinal \in Nat
      <3>1. \A p \in ToSet(ws) : p \in Items
        BY <1>2 DEF ToSet
      <3> QED
        BY <3>1 DEF Items, PassageItems
    <2> QED
      BY <1>3, <1>4, <1>5, <2>1
  <1>7. /\ DOMAIN edges = 1 .. n - 1
        /\ Len(edges) = IF n = 0 THEN 0 ELSE n - 1
        /\ \A i \in 1 .. n - 1 :
             edges[i] = [from |-> base[i].id, to |-> base[i + 1].id,
                         inverted |-> Inverted(link[base[i].id], link[base[i + 1].id])]
    <2>1. base \in Seq(Items) /\ \A i \in DOMAIN base : base[i].id \in DOMAIN link
      BY <1>2, <1>3, <1>4
    <2>2. LET es == DetectMovements(base, link)
              k == Len(base) IN
          /\ DOMAIN es = 1 .. k - 1
          /\ Len(es) = IF k = 0 THEN 0 ELSE k - 1
          /\ \A i \in 1 .. k - 1 :
               es[i] = [from |-> base[i].id, to |-> base[i + 1].id,
                        inverted |-> Inverted(link[base[i].id], link[base[i + 1].id])]
      BY <2>1, MovementsAre, Zenon
    <2> QED
      BY <2>2
  <1>8. ASSUME NEW i \in 1 .. n - 1
        PROVE  /\ i \in 1 .. n /\ i + 1 \in 1 .. n
               /\ edges[i].from = base[i].id /\ edges[i].to = base[i + 1].id
               /\ edges[i].inverted <=> f[i] > f[i + 1]
    <2>1. i \in 1 .. n /\ i + 1 \in 1 .. n
      BY <1>5
    <2>2. Inverted(link[base[i].id], link[base[i + 1].id]) <=> f[i] > f[i + 1]
      BY <1>6, <2>1 DEF Inverted
    <2> HIDE DEF f, edges
    <2> QED
      BY <1>7, <2>1, <2>2
  <1> HIDE DEF edges, n, f
  <1> HIDE DEF edges, n, f
  <1>9. f = LinkRank(base, link)
    BY DEF LinkRank, f, n
  <1> QED
    BY <1>2, <1>5, <1>6, <1>7, <1>8, <1>9 DEF edges, base, n

(* With every passage of the base linked, DetectMovements (movement.go)     *)
(* inverts no edge exactly when the linked passages follow the base: it    *)
(* is enough to look at neighbours.                                        *)
THEOREM MovementsAgree == Spec => []MovementsFound
  <1>1. EditionInv => MovementsFound
    <2> SUFFICES ASSUME EditionInv, NEW w \in Witnesses,
                        NEW link \in [{p.id : p \in ToSet(passages[Base])} -> ToSet(passages[w])]
                 PROVE  InvertedCount(DetectMovements(passages[Base], link)) = 0 <=>
                             \A i, j \in DOMAIN passages[Base] :
                               i < j => link[passages[Base][i].id].ordinal
                                          <= link[passages[Base][j].id].ordinal
      BY DEF MovementsFound
    <2> DEFINE base == passages[Base]
               n == Len(base)
               edges == DetectMovements(base, link)
               f == LinkRank(base, link)
    <2>1. /\ n \in Nat /\ DOMAIN base = 1 .. n /\ Len(edges) = (IF n = 0 THEN 0 ELSE n - 1) /\ DOMAIN edges = 1 .. n - 1
          /\ \A i, j \in 1 .. n : base[i].id = base[j].id => i = j
          /\ \A i \in 1 .. n : f[i] = link[base[i].id].ordinal /\ f[i] \in Nat
          /\ \A i \in 1 .. n - 1 : /\ i \in 1 .. n /\ i + 1 \in 1 .. n
                                   /\ edges[i].from = base[i].id /\ edges[i].to = base[i + 1].id
                                   /\ edges[i].inverted <=> f[i] > f[i + 1]
      BY EdgesAre, Zenon
    <2> HIDE DEF edges, n, f, base
    <2>2. InvertedCount(edges) = 0 <=> \A i \in 1 .. n - 1 : f[i] <= f[i + 1]
      <3> DEFINE S == {i \in DOMAIN edges : edges[i].inverted}
      <3>1. IsFiniteSet(S)
        <4>1. IsFiniteSet(1 .. n - 1)
          BY <2>1, FS_Interval
        <4>2. S \subseteq 1 .. n - 1
          BY <2>1
        <4> QED
          BY <4>1, <4>2, FS_Subset
      <3>2. InvertedCount(edges) = Cardinality(S)
        BY DEF InvertedCount
      <3>3. Cardinality(S) = 0 <=> S = {}
        BY <3>1, FS_EmptySet
      <3>4. \A i \in 1 .. n - 1 : ~edges[i].inverted <=> f[i] <= f[i + 1]
        <4> TAKE i \in 1 .. n - 1
        <4>1. f[i] \in Nat /\ f[i + 1] \in Nat /\ (edges[i].inverted <=> f[i] > f[i + 1])
          BY <2>1
        <4> QED
          BY <4>1
      <3>5. S = {} <=> \A i \in 1 .. n - 1 : ~edges[i].inverted
        BY <2>1
      <3> HIDE DEF S
      <3> QED
        BY <3>2, <3>3, <3>4, <3>5
    <2>3. (\A i \in 1 .. n - 1 : f[i] <= f[i + 1]) <=> \A i, j \in 1 .. n : i < j => f[i] <= f[j]
      <3>1. ASSUME \A i \in 1 .. n - 1 : f[i] <= f[i + 1]
            PROVE  \A i, j \in 1 .. n : i < j => f[i] <= f[j]
        BY <2>1, <3>1, NeighboursInOrder
      <3>2. \A i \in 1 .. n - 1 : i \in 1 .. n /\ i + 1 \in 1 .. n /\ i < i + 1
        BY <2>1
      <3> QED
        BY <3>1, <3>2
    <2>4. (\A i, j \in 1 .. n : i < j => f[i] <= f[j]) <=>
             \A i, j \in DOMAIN base : i < j => link[base[i].id].ordinal <= link[base[j].id].ordinal
      <3>1. \A i, j \in 1 .. n : f[i] <= f[j] <=> link[base[i].id].ordinal <= link[base[j].id].ordinal
        BY <2>1
      <3> QED
        BY <2>1, <3>1
    <2> QED
      BY <2>2, <2>3, <2>4 DEF edges, base
  <1> QED
    BY <1>1, EditionInvariant, PTL

(* No links of a witness's passages to the base make a cycle: the walk of   *)
(* HasCycle (movement.go) along the base meets each passage once, so what  *)
(* it looks for never comes, and the refusal it is meant for is dead code. *)
NoCycles ==
    \A w \in Witnesses :
        \A link \in [{p.id : p \in ToSet(passages[Base])} -> ToSet(passages[w])] :
            ~HasCycle(DetectMovements(passages[Base], link))
THEOREM NeverCyclic == Spec => []NoCycles
  <1>1. EditionInv => NoCycles
    <2> SUFFICES ASSUME EditionInv, NEW w \in Witnesses,
                        NEW link \in [{p.id : p \in ToSet(passages[Base])} -> ToSet(passages[w])]
                 PROVE  ~HasCycle(DetectMovements(passages[Base], link))
      BY DEF NoCycles
    <2> DEFINE base == passages[Base]
               n == Len(base)
               edges == DetectMovements(base, link)
               f == LinkRank(base, link)
    <2>1. /\ n \in Nat /\ DOMAIN base = 1 .. n /\ Len(edges) = (IF n = 0 THEN 0 ELSE n - 1) /\ DOMAIN edges = 1 .. n - 1
          /\ \A i, j \in 1 .. n : base[i].id = base[j].id => i = j
          /\ \A i \in 1 .. n : f[i] = link[base[i].id].ordinal /\ f[i] \in Nat
          /\ \A i \in 1 .. n - 1 : /\ i \in 1 .. n /\ i + 1 \in 1 .. n
                                   /\ edges[i].from = base[i].id /\ edges[i].to = base[i + 1].id
                                   /\ edges[i].inverted <=> f[i] > f[i + 1]
      BY EdgesAre, Zenon
    <2> HIDE DEF edges, n, f, base
    <2>2. ~HasCycle(edges)
      <3> SUFFICES ASSUME NEW first \in DOMAIN edges, NEW i \in first .. Len(edges),
                          edges[i].to \in {edges[first].from}
                            \cup UNION {{edges[j].from, edges[j].to} :
                                        j \in {k \in first .. i - 1 : edges[k].inverted}}
                   PROVE  FALSE
        BY DEF HasCycle
      <3>1. first \in 1 .. n - 1 /\ i \in 1 .. n - 1 /\ first <= i
        BY <2>1
      <3>0. \A k \in 1 .. n - 1 : edges[k].from = base[k].id /\ edges[k].to = base[k + 1].id
        BY <2>1
      <3>2. PICK j \in first .. i : base[i + 1].id = base[j].id
        <4>1. CASE edges[i].to = edges[first].from
          BY <3>0, <3>1, <4>1
        <4>2. ASSUME NEW j \in first .. i - 1, edges[i].to \in {edges[j].from, edges[j].to}
              PROVE  base[i + 1].id = base[j].id \/ base[i + 1].id = base[j + 1].id
          <5>1. j \in 1 .. n - 1
            BY <2>1, <3>1
          <5> QED
            BY <3>0, <3>1, <4>2, <5>1
        <4>3. \A j \in first .. i - 1 : j \in first .. i /\ j + 1 \in first .. i
          BY <2>1, <3>1
        <4> QED
          BY <4>1, <4>2, <4>3, <3>1
      <3>3. j \in 1 .. n /\ i + 1 \in 1 .. n /\ j # i + 1
        BY <2>1, <3>1
      <3> QED
        BY <2>1, <3>2, <3>3
    <2> QED
      BY <2>2 DEF edges, base
  <1> QED
    BY <1>1, EditionInvariant, PTL

=============================================================================
