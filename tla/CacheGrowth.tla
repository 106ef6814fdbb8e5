---------------------------- MODULE CacheGrowth ------------------------------
(* The growth formula of PackratCache_set, with the width size_t has.        *)
EXTENDS Naturals

CONSTANT SizeMod   \* 2^w: the arithmetic of size_t is modulo this

\* A doubled size_t: the sum of two values below 2^w, modulo 2^w.
Wrap(x) == IF x < SizeMod THEN x ELSE x - SizeMod

\* Defect: the branches of the growth formula swapped.
GrownCapSwapped(t, cap) == Wrap(2 * (IF t > Wrap(2 * cap) THEN cap ELSE t))

\* Defect: the shortfall is doubled instead of the id or the capacity.
GrownCapShortfall(t, cap) == Wrap(2 * (t - cap))

\* The capacity a row of capacity cap is regrown to when token id t is past it.
GrownCap(t, cap) == Wrap(2 * (IF t > Wrap(2 * cap) THEN t ELSE cap))
==============================================================================
