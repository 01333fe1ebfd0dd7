----------------------------- MODULE MCMemories -----------------------------
(* A small instance of Memories for TLC. *)
EXTENDS Memories, TLC

CONSTANTS puck, moth, p1, p2, m1

MCAgent == {puck, moth}
MCTask == {p1, p2, m1}
MCOwner == [t \in MCTask |-> IF t = m1 THEN moth ELSE puck]

MCEarlier == <<moth, puck>>

\* The two coroutines of puck, texts and dimensions are interchangeable.
MCSymmetry == Permutations({p1, p2}) \cup Permutations(Text) \cup Permutations(Dim)
=============================================================================
