------------------------------- MODULE MCDisk --------------------------------
(* The page space of a data file, which starts empty, and the threads that write
   files to it through the cache.  DiskWriter has the space by its effect, so one
   of the two is chosen at first, and the other rests. *)
EXTENDS Disk, DiskWriter

VARIABLE part

spaceVars == <<part, diskVars, writerVars>>

SpaceInit ==
    /\ DiskInit /\ DiskWriterInit
    /\ part = "disk" \/ (part = "writer" /\ ~m_preallocate_space)

SpaceNext ==
    /\ UNCHANGED part
    /\ \/ part = "disk" /\ DiskNext /\ UNCHANGED writerVars
       \/ part = "writer" /\ DiskWriterNext /\ UNCHANGED diskVars

\* The fairness of DiskSpec and of DiskWriterSpec.
SpaceSpec ==
    /\ SpaceInit /\ [][SpaceNext]_spaceVars
    /\ \A t \in Threads : SF_diskVars(part = "disk" /\ Step(t))
    /\ WF_writerVars(part = "writer" /\ FlusherStarts)
    /\ \A wr \in Writers :
          /\ WF_writerVars(part = "writer" /\ Flushing(wr))
          /\ WF_writerVars(part = "writer" /\ owner[wr] # "idle" /\ OwnerStep(wr))
          /\ WF_writerVars(part = "writer" /\ owner[wr] = "signalled" /\ (AwaitPage(wr) \/ AllocatePage(wr)))
=============================================================================
