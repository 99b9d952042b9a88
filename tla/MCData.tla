-------------------------------- MODULE MCData --------------------------------
(* Data structures and algorithms that one thread uses without yielding, and
   slices that are merged, read and freed by one thread each while merging
   drops deletions.  They have nothing in common: one of them is chosen at first,
   and the others rest. *)
EXTENDS MCUshard, MergeIterator, RingQueue, SlabList, Gorilla, SliceRange
VARIABLE part

dataVars == <<part, vars, mergeVars, ringVars, slabVars, gorillaVars, sliceVars>>

\* Gorilla's codes for steps -1..2, -3..4, -7..8 and -31..32.
SmallCodes == <<2, 3, 4, 6>>

\* The slices that an iterator merges differ in what they hold only.
Interchangeable == Permutations(Slices)

\* An iterator over no slices that has ended.
MergeRests ==
    /\ slices = [s \in Slices |-> {}]
    /\ min_key = Unbounded /\ m_max_key = Unbounded /\ m_last_key = Unbounded
    /\ m_elements = <<>> /\ loop = FALSE /\ out = <<>> /\ ended = TRUE

DataInit ==
    /\ Init /\ RingInit /\ SlabListInit /\ GorillaInit /\ SliceInit
    /\ \/ part = "merge" /\ MergeInit
       \/ part \in {"ushard", "ring", "slab", "gorilla", "slice"} /\ MergeRests

DataNext ==
    /\ UNCHANGED part
    /\ \/ part = "ushard" /\ Next /\ UNCHANGED <<mergeVars, ringVars, slabVars, gorillaVars, sliceVars>>
       \/ part = "merge" /\ MergeNext /\ UNCHANGED <<vars, ringVars, slabVars, gorillaVars, sliceVars>>
       \/ part = "ring" /\ RingNext /\ UNCHANGED <<vars, mergeVars, slabVars, gorillaVars, sliceVars>>
       \/ part = "slab" /\ SlabListNext /\ UNCHANGED <<vars, mergeVars, ringVars, gorillaVars, sliceVars>>
       \/ part = "gorilla" /\ GorillaNext /\ UNCHANGED <<vars, mergeVars, ringVars, slabVars, sliceVars>>
       \/ part = "slice" /\ SliceNext /\ UNCHANGED <<vars, mergeVars, ringVars, slabVars, gorillaVars>>

DataSpec == DataInit /\ [][DataNext]_dataVars
=============================================================================
