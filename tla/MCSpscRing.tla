----------------------------- MODULE MCSpscRing -----------------------------
(* Instances of SpscRing for TLC. *)
EXTENDS SpscRing, TLC

\* A hint of 3 gives 4 slots; the indices wrap after two laps.
MCCapacity == RoundUpPow2(3)
MCIndexSpan == 2 * MCCapacity

\* Two slots for the instance with two producers.
SmallCapacity == RoundUpPow2(2)
SmallIndexSpan == 2 * SmallCapacity

Symmetry == Permutations(Records) \union Permutations(Producers)
=============================================================================
