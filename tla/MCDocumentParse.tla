-------------------------- MODULE MCDocumentParse --------------------------
(* Two parses, an index that is upgraded, a knowledge base that is edited,    *)
(* damaged and cleared.                                                       *)
EXTENDS DocumentParse

CONSTANTS p1, p2, k1, x1, x2, d1, bid, other

Parsers   == {p1, p2}
Clearers  == {k1}
Contents  == {x1, x2}
Draws     == {d1}
Flats     == {x2}

\* The structure has two titles for bids and one for everything else.
CategoryOrder == <<bid, other>>
NodesOf == [d \in Draws |-> [g \in {bid, other} |-> IF g = bid THEN 2 ELSE 1]]

Doc(kind, intent, name, negative, text, level) ==
  [kind |-> kind, intent |-> intent, name |-> name, negative |-> negative,
   text |-> text, hard |-> [category |-> bid, confidence |-> level]]

\* A list of bids, whose text speaks of bids, one with an intent nobody knows, and a
\* source that no parse can read.
Samples ==
  {Doc("implemented", TRUE, {bid}, TRUE, {bid}, "medium"),
   Doc("implemented", FALSE, {bid}, FALSE, {}, "high"),
   Doc("stub", TRUE, {}, FALSE, {}, "high")}

ModelAnswers ==
  {[category |-> g, confidence |-> l, source |-> "llm"] : g \in {other}, l \in {"low", "high"}}
=============================================================================
