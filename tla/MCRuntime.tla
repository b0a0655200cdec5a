------------------------------- MODULE MCRuntime -------------------------------
(***************************************************************************)
(* Runtime on two regions of about a dozen words: a leaf is a header, a    *)
(* node has one reference field.                                           *)
(***************************************************************************)
EXTENDS RuntimeRefinement

CONSTANTS leaf, node, big, left

MCClasses == {leaf, node}
MCSize == [c \in MCClasses |-> IF c = leaf THEN 3 ELSE 4]
MCPointers == [c \in MCClasses |-> IF c = leaf THEN {} ELSE {left}]
MCFieldIds == {left}

OnlyNode == {node}
NodeSize == [c \in OnlyNode |-> 4]
NodePointers == [c \in OnlyNode |-> {left}]

\* An object large enough to fill either region but a few words.
LeafAndBig == {leaf, big}
BigSize == [c \in LeafAndBig |-> IF c = leaf THEN 3 ELSE 30]
NoPointers == [c \in LeafAndBig |-> {}]
NoFields == {}

\* An object with a field that alone takes more than 80% of the old region and
\* leaves room for a leaf and a free block, or two leaves and a sliver.
BulkySize == [c \in LeafAndBig |-> IF c = leaf THEN 3 ELSE 29]
BulkyPointers == [c \in LeafAndBig |-> IF c = leaf THEN {} ELSE {left}]

\* A class no region of a few words can hold.
NodeAndBig == {node, big}
OomSize == [c \in NodeAndBig |-> IF c = node THEN 4 ELSE 30]
OomPointers == [c \in NodeAndBig |-> IF c = node THEN {left} ELSE {}]

OneStatic == {"s"}

\* State constraints: stop where a named risk, or one not among these, has
\* occurred.
WithinClaims == risk = {}
StaticOrSpace == risk \subseteq {"static", "full", "sliver"}
OnlyBlackParent == risk \subseteq {"blackparent"}
===============================================================================
