----------------------------- MODULE MCEdition -----------------------------
(***************************************************************************)
(* Instances of the edition for TLC: short sources over two letters, one   *)
(* of them wide, with every way the segmentation meets white space.        *)
(***************************************************************************)
EXTENDS Edition

CONSTANTS w0, w1, w2, sp, nl, a, b

Letters == {a, b}
Words(n) == UNION {[1 .. k -> Letters] : k \in 1 .. n}
Separators == {<<sp>>, <<nl>>, <<nl, nl>>, <<nl, nl, nl>>, <<nl, nl, sp>>, <<nl, nl, nl, nl>>}
Pairs(first, second, seps) == {x \o s \o y : x \in first, s \in seps, y \in second}

(* One passage of up to three runes against another; two passages against  *)
(* two, with every separator; a passage more or less; blank sources.       *)
BaseSources == Words(3) \cup Pairs(Words(1), Words(1), {<<nl, nl>>})
                 \cup {<<a, sp, b>>, <<a, nl, nl, b, nl, nl, a>>}
FirstSources == {<<>>, <<nl, b, sp, nl>>, <<b, nl, nl, b, nl, nl, a>>} \cup Words(3)
                  \cup Pairs(Words(1), Words(1), Separators)
                  \cup Pairs({<<b>>}, Words(2), {<<nl, nl>>})
SecondSources == {<<b, a>>, <<b>>, <<a, b, b>>, <<b, nl, nl, a, b>>}

OneWord == {<<a>>}

SourcesOf == [t \in {w0, w1, w2} |->
                CASE t = w0 -> BaseSources [] t = w1 -> FirstSources [] t = w2 -> SecondSources]

=============================================================================
