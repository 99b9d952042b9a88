------------------------------ MODULE UshardInv ------------------------------
(***************************************************************************)
(* The inductive invariant behind the theorems about Ushard.               *)
(***************************************************************************)
EXTENDS Ushard

(* Slices. *)

\* No slice is in the tier map twice.
Distinct(tm) ==
    \A t, u \in Tiers : \A i \in DOMAIN tm[t], j \in DOMAIN tm[u] :
        tm[t][i] = tm[u][j] => t = u /\ i = j

SlicesDistinct == Distinct(m_tier_map)

\* The first counts[t] slices of every tier t.
Taken(tm, counts) == UNION {{tm[t][i] : i \in 1 .. counts[t]} : t \in Tiers}

\* Every tier has that many.
Within(tm, counts) == \A t \in Tiers : counts[t] <= Len(tm[t])

\* What a merge captured is still the front of its tiers when it ends: adds go
\* to the back, and nobody else removes from a tier that is locked.
CapturedInFront ==
    \A m \in MergeThreads :
        /\ Busy(m) => /\ Within(m_tier_map, jobs[m].counts)
                      /\ jobs[m].sources = Taken(m_tier_map, jobs[m].counts)
                      /\ jobs[m].sources \subseteq unlinked
        /\ ~Busy(m) => jobs[m].sources = {}

\* A merge holds the lock of its tier and touches no other; a compaction is the
\* only job.
JobScopes ==
    /\ \A m \in MergeThreads :
          /\ jobs[m].at = "merge" =>
                /\ jobs[m].scope \subseteq tier_locks
                /\ \A t \in Tiers \ jobs[m].scope : jobs[m].counts[t] = 0
          /\ jobs[m].at = "compact" => Compacting
    /\ \A m, n \in MergeThreads :
          Busy(m) /\ Busy(n) /\ m # n => jobs[m].scope \cap jobs[n].scope = {}

\* A slice in the tier map is unlinked only while it is being merged; one that
\* has left the tier map is unlinked.
UnlinkedSlices ==
    /\ unlinked \cap get_slices \subseteq UNION {jobs[m].sources : m \in MergeThreads}
    /\ DOMAIN contents \subseteq unlinked \cup get_slices

\* Freed are the unlinked slices that nobody references.
FreedSlices == freed = unlinked \ Referenced(m_tier_map, jobs, readers)

\* Threads in the queue of merge_cond are waiting, and are in it once.
CondQueue ==
    /\ \A i \in DOMAIN merge_cond : jobs[merge_cond[i]].at = "wait"
    /\ \A i, j \in DOMAIN merge_cond : merge_cond[i] = merge_cond[j] => i = j

SliceInv ==
    /\ TypeOK
    /\ SlicesDistinct
    /\ CapturedInFront
    /\ JobScopes
    /\ UnlinkedSlices
    /\ FreedSlices
    /\ CondQueue
    /\ UnlinkedOnce

-----------------------------------------------------------------------------
(* Entries. *)

\* The entries of committed and open updates.
AllEntries == committed \cup UNION {writers[w] : w \in Writers}

\* Key and idx determine the entry, and no idx is ahead of the counter.
NumberedOnce ==
    /\ \A e \in AllEntries : e.idx <= idx
    /\ \A e, f \in AllEntries : e.key = f.key /\ e.idx = f.idx => e = f

\* An entry e is accounted for in the entries S if S has it or a newer one for
\* its key, or has nothing for its key because a deletion at least as new as e
\* was committed and compacted away.
Accounted(e, S) ==
    \/ \E f \in S : f.key = e.key /\ e.idx <= f.idx
    \/ /\ Compacting
       /\ \A f \in S : f.key # e.key
       /\ \E d \in committed : d.deleted /\ d.key = e.key /\ e.idx <= d.idx

\* The slices hold committed entries only, and account for all of them.
CommittedKept ==
    /\ EntriesOf(get_slices) \subseteq committed
    /\ \A e \in committed : Accounted(e, EntriesOf(get_slices))

\* With compactions, updates commit in idx order, so what a compaction did not
\* capture is newer than what it did.
CommitsInOrder ==
    Compacting =>
        /\ \A w \in Writers : \A e \in writers[w], c \in committed : c.idx < e.idx
        /\ \A m \in MergeThreads :
              jobs[m].at = "compact" =>
                 \A e \in EntriesOf(jobs[m].sources),
                    f \in EntriesOf(get_slices \ jobs[m].sources) : e.idx < f.idx

EntryInv == NumberedOnce /\ CommittedKept /\ CommitsInOrder

=============================================================================
