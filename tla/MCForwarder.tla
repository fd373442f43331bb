----------------------------- MODULE MCForwarder -----------------------------
\* Forwarder on small instances; symmetric in keys and in targets.
EXTENDS Forwarder, TLC

CONSTANTS k1, k2, t1, t2

MCKeys == {k1, k2}
MCTargets == {t1, t2}
MCSymmetry == Permutations(MCKeys) \cup Permutations(MCTargets)
=============================================================================
