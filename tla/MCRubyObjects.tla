--------------------------- MODULE MCRubyObjects ---------------------------
EXTENDS RubyObjects, TLC

\* Slots and addresses are interchangeable: no action and no property
\* orders or names them.
Symmetry == Permutations(Values) \cup Permutations(Addrs)
============================================================================
