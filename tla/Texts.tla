------------------------------- MODULE Texts -------------------------------
(***************************************************************************)
(* The textual backbone (internal/text): slices and diffs of rune strings  *)
(* and the segmentation of a source into passages.                         *)
(*                                                                         *)
(* A text is a sequence of runes.  What a rune is does not matter, except  *)
(* that some are white space and some take more than one byte in UTF-8.    *)
(***************************************************************************)
EXTENDS Integers, SequencesExt

CONSTANTS
    Space,      \* every white space rune that ends no line
    Newline,    \* "\n", to which "\r\n" and "\r" are normalised first
    Wide        \* the runes of three bytes

ASSUME RuneAssumption == Newline # Space /\ Newline \notin Wide

IsSpace(r) == r \in {Space, Newline}

-----------------------------------------------------------------------------
(* Slices and ranges: [start, end) counts runes from 0. *)

SliceByRunes(t, start, end) ==
    LET from == Max({start, 0})
        to == Max({end, from})
    IN SubSeq(t, from + 1, Min({to, Len(t)}))

IsValidRange(n, start, end) == start >= 0 /\ end > start /\ end <= n

(* How many runes the heads, and the tails, of two texts share. *)
Shorter(a, b) == IF Len(a) < Len(b) THEN Len(a) ELSE Len(b)

CommonPrefixRunes(a, b) ==
    CHOOSE n \in 0 .. Shorter(a, b) :
        /\ \A i \in 1 .. n : a[i] = b[i]
        /\ n < Shorter(a, b) => a[n + 1] # b[n + 1]

CommonSuffixRunes(a, b) ==
    CHOOSE n \in 0 .. Shorter(a, b) :
        /\ \A i \in 0 .. n - 1 : a[Len(a) - i] = b[Len(b) - i]
        /\ n < Shorter(a, b) => a[Len(a) - n] # b[Len(b) - n]

-----------------------------------------------------------------------------
(* Diffs. *)

(* Seeded: the tail may reach into the head. *)
SuffixBeside_Unguarded(n, prefix, suffix) == suffix

(* The part of a common suffix that a text of n runes has beside the prefix. *)
SuffixBeside(n, prefix, suffix) == IF prefix + suffix > n THEN n - prefix ELSE suffix

(* One region between the common head and tail, or none. *)
DiffText(base, alt) ==
    LET prefix == CommonPrefixRunes(base, alt)
        inBase == SuffixBeside(Len(base), prefix, CommonSuffixRunes(base, alt))
        inBoth == SuffixBeside(Len(alt), prefix, inBase)
        suffix == IF inBoth < 0 THEN 0 ELSE inBoth
    IN IF base = alt THEN <<>>
       ELSE <<[start |-> prefix,
               end |-> Len(base) - suffix,
               base |-> SubSeq(base, prefix + 1, Len(base) - suffix),
               alt |-> SubSeq(alt, prefix + 1, Len(alt) - suffix)]>>

-----------------------------------------------------------------------------
(* Segmentation. *)

Count(n, r) == n + (IF r \in Wide THEN 3 ELSE 1)
ByteLen(t) == FoldLeft(Count, 0, t)

(* The rune offset of a byte offset.  The bytes of a rune that is cut count *)
(* as one each.                                                            *)
RuneOffset(raw, bytes) ==
    IF bytes >= ByteLen(raw) THEN Len(raw)
    ELSE LET whole == CHOOSE n \in 0 .. Len(raw) - 1 :
                        /\ ByteLen(SubSeq(raw, 1, n)) <= bytes
                        /\ bytes < ByteLen(SubSeq(raw, 1, n + 1))
         IN whole + bytes - ByteLen(SubSeq(raw, 1, whole))

(* Split at two newlines, leftmost first: a newline waits for the next rune. *)
Split(acc, r) ==
    CASE r = Newline /\ acc.waits  -> [done |-> Append(acc.done, acc.cur), cur |-> <<>>, waits |-> FALSE]
      [] r = Newline /\ ~acc.waits -> [acc EXCEPT !.waits = TRUE]
      [] r # Newline -> [acc EXCEPT !.waits = FALSE,
                           !.cur = @ \o (IF acc.waits THEN <<Newline>> ELSE <<>>) \o <<r>>]
Blocks(raw) ==
    LET end == FoldLeft(Split, [done |-> <<>>, cur |-> <<>>, waits |-> FALSE], raw)
    IN Append(end.done, end.cur \o (IF end.waits THEN <<Newline>> ELSE <<>>))

TrimSpace(t) ==
    LET kept == {i \in 1 .. Len(t) : ~IsSpace(t[i])}
    IN IF kept = {} THEN <<>> ELSE SubSeq(t, Min(kept), Max(kept))

(* strings.Fields: the maximal runs without white space. *)
Scan(acc, r) ==
    CASE IsSpace(r) -> [acc EXCEPT !.open = FALSE]
      [] ~IsSpace(r) /\ acc.open -> [acc EXCEPT !.words[Len(acc.words)] = Append(@, r)]
      [] ~IsSpace(r) /\ ~acc.open -> [words |-> Append(acc.words, <<r>>), open |-> TRUE]
Fields(t) == FoldLeft(Scan, [words |-> <<>>, open |-> FALSE], t).words

(* strings.Join of texts that are not empty. *)
Join(sep, acc, t) == IF acc = <<>> THEN t ELSE acc \o sep \o t
Joined(texts, sep) == FoldLeft(LAMBDA acc, t : Join(sep, acc, t), <<>>, texts)

(* Seeded: the newlines of a passage are dropped, not made spaces. *)
Normalized_Dropped(block) == Joined(Fields(SelectSeq(block, LAMBDA r : r # Newline)), <<Space>>)
Normalized(block) == Joined(Fields(block), <<Space>>)

(* The offset moves on by the trimmed block and by one separator.  Seeded: *)
(* not past the separator.                                                 *)
NextOffset_Adjacent(offset, block) == offset + ByteLen(block)
NextOffset(offset, block) == offset + ByteLen(block) + 2

Segment(raw, acc, b) ==
    LET block == TrimSpace(b)
        start == RuneOffset(raw, acc.offset)
        segment == [ordinal |-> Len(acc.out) + 1, text |-> Normalized(block),
                    start |-> start, end |-> start + Len(Normalized(block))]
    IN [offset |-> NextOffset(acc.offset, block),
        out |-> IF block = <<>> THEN acc.out ELSE Append(acc.out, segment)]
SegmentByParagraph(raw) ==
    FoldLeft(LAMBDA acc, b : Segment(raw, acc, b), [offset |-> 0, out |-> <<>>], Blocks(raw)).out

=============================================================================
