------------------------------- MODULE MCCaches -------------------------------
(* The page cache and the node cache have nothing in common but the code of
   wtinylfu and latch: one of them is chosen at first, and the other one rests. *)
EXTENDS DiskReader, NodeCache, TLC

CONSTANTS p1, p2, p3, k1, k2, k3, k4, r1, r2, r3, w1, n1, n2, s1

VARIABLE part

cachesVars == <<part, readerVars, nodeVars>>

CachesInit == part \in {"pages", "nodes"} /\ DiskReaderInit /\ NodeCacheInit

CachesNext ==
    /\ UNCHANGED part
    /\ \/ part = "pages" /\ DiskReaderNext /\ UNCHANGED nodeVars
       \/ part = "nodes" /\ NodeCacheNext /\ UNCHANGED readerVars

CachesSpec == CachesInit /\ [][CachesNext]_cachesVars

\* Keys, and threads that read pages, are interchangeable.
CacheSymmetry == Permutations(Keys) \cup Permutations(Readers)
=============================================================================
