------------------------------- MODULE MCUshard -------------------------------
(* Instances of Ushard for TLC. *)
EXTENDS UshardInv

CONSTANTS k1, k2

\* Slices of one key, of two keys (another tier), and deletions: merging slices
\* of one key may or may not give a slice of the next tier.
MixedBatches ==
    {[puts |-> {k1}, dels |-> {}],
     [puts |-> {k2}, dels |-> {}],
     [puts |-> {k2}, dels |-> {k1}],
     [puts |-> {}, dels |-> {k1}]}

\* Slices of one key, which merge into slices of one key or of two: the least
\* with which a tier can be overfull again when its merge ends, with a result
\* that goes to another tier.
SingleBatches ==
    {[puts |-> {k1}, dels |-> {}],
     [puts |-> {k2}, dels |-> {}],
     [puts |-> {}, dels |-> {k1}]}
=============================================================================
