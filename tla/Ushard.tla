-------------------------------- MODULE Ushard --------------------------------
(***************************************************************************)
(* tyrdbs::ushard, the log-structured merge tree, with the threads around  *)
(* it: callers that build and commit slices, callers that iterate, and     *)
(* the merge threads of tests/db_server.cpp (or the one of ushard_test,    *)
(* which also compacts).                                                   *)
(*                                                                         *)
(* A slice is a number, its place in contents; it is immutable.  Slices    *)
(* are shared_ptrs: one that is unlinked gives its pages back when the     *)
(* last of the tier map, the running merges and the readers lets go of it, *)
(* and from then on its contents are gone.                                 *)
(*                                                                         *)
(* merge and compact capture their input, then read and write for a long   *)
(* time, yielding, and at the end swap the result in without a yield:      *)
(* Start and Finish below.                                                 *)
(***************************************************************************)
EXTENDS Entries, Sequences, FiniteSets

CONSTANTS
    Writers,            \* callers that build updates
    Readers,            \* callers that iterate
    MergeThreads,       \* merge threads
    MaxSlicesPerTier,   \* ushard::max_slices_per_tier, 4
    TierDivisor,        \* tier_of shifts the bit length right by two: 4
    WordBits,           \* bits of slice::key_count(), 64
    Batches,            \* what an update may write: keys put and keys deleted
    Compacting,         \* whether the merge thread compacts too (ushard_test)
    MaxUpdates          \* bound: number of updates

ASSUME MaxSlicesAssumption == MaxSlicesPerTier \in Nat \ {0}
ASSUME TierDivisorAssumption == TierDivisor \in Nat \ {0}
ASSUME WordBitsAssumption == WordBits \in Nat
ASSUME BatchesAssumption ==
    \A b \in Batches : /\ b.puts \subseteq Keys /\ b.dels \subseteq Keys
                       /\ b.puts \cap b.dels = {} /\ b.puts \cup b.dels # {}
ASSUME CompactingAssumption == Compacting \in BOOLEAN
ASSUME MaxUpdatesAssumption == MaxUpdates \in Nat

\* compact() relies on its caller: nobody else merges meanwhile, and updates
\* commit in the order of their idx, as in ushard_test.
ASSUME CompactingAloneAssumption ==
    Compacting => /\ \A w, v \in Writers : w = v
                  /\ \A m, n \in MergeThreads : m = n

VARIABLES
    idx,            \* number of updates started
    writers,        \* entries of each writer's open slice_writer
    contents,       \* entries of every slice ever committed, {} once freed
    m_tier_map,     \* the slices of each tier, oldest first
    unlinked,       \* slices with m_unlink set
    freed,          \* slices whose destructor gave the pages back
    readers,        \* slices held by each iterator
    merge_requests, \* queue of tiers to merge
    merge_cond,     \* merge threads waiting for a request
    tier_locks,     \* tiers being merged
    jobs,           \* what each merge thread is doing
    dropped,        \* m_dropped, and the ushard destroyed
    double_unlink,  \* the assertion of slice::unlink failed
    committed       \* ghost: entries of all committed updates

vars == <<idx, writers, contents, m_tier_map, unlinked, freed, readers,
          merge_requests, merge_cond, tier_locks, jobs, dropped, double_unlink,
          committed>>

-----------------------------------------------------------------------------
(* Tiers. *)

Tiers == {b \div TierDivisor : b \in 0 .. WordBits}

\* 64 - __builtin_clzll(n) for n > 0.
BitLength(n) == Cardinality({b \in 0 .. (WordBits - 1) : 2^b <= n})

\* tier_of a slice with the entries S.  __builtin_clzll(0) is undefined, so the
\* tier of a slice without entries (a compaction that left nothing) is not known.
tier_of(S) == IF S = {} THEN Tiers ELSE {BitLength(Cardinality(S)) \div TierDivisor}

\* The slices of tier map tm.
SlicesOf(tm) == UNION {{tm[t][i] : i \in DOMAIN tm[t]} : t \in Tiers}

get_slices == SlicesOf(m_tier_map)

\* The entries of a set of slices.
EntriesOf(slices) == UNION {contents[s] : s \in slices}

-----------------------------------------------------------------------------
(* Merge threads and references. *)

NoCounts == [t \in Tiers |-> 0]

\* A merge thread that looks for requests, and one that waits on merge_cond.
Looking == [at |-> "look", scope |-> {}, counts |-> NoCounts, sources |-> {}]
Waiting == [at |-> "wait", scope |-> {}, counts |-> NoCounts, sources |-> {}]

Busy(m) == jobs[m].at \in {"merge", "compact"}

\* The slices that tier map tm, the jobs jb or the iterators rd hold on to.
Referenced(tm, jb, rd) ==
    SlicesOf(tm) \cup (UNION {jb[m].sources : m \in MergeThreads})
                 \cup (UNION {rd[r] : r \in Readers})

\* ~slice: an unlinked slice that nobody references gives its pages back.
Reap_IgnoresReaders(held, marked, stored) ==
    LET gone == {s \in marked : s \notin SlicesOf(m_tier_map')}
    IN  /\ freed' = gone
        /\ contents' = [s \in DOMAIN stored |-> IF s \in gone THEN {} ELSE stored[s]]

Reap(held, marked, stored) ==
    LET gone == marked \ held
    IN  /\ freed' = gone
        /\ contents' = [s \in DOMAIN stored |-> IF s \in gone THEN {} ELSE stored[s]]

Request(reqs, jb) ==
    LET n == IF Len(reqs) < Len(merge_cond) THEN Len(reqs) ELSE Len(merge_cond)
        woken == {merge_cond[i] : i \in 1 .. n}
    IN  /\ merge_requests' = merge_requests \o reqs
        /\ merge_cond' = SubSeq(merge_cond, n + 1, Len(merge_cond))
        /\ jobs' = [m \in MergeThreads |-> IF m \in woken THEN Looking ELSE jb[m]]

\* Tier t of tm is over its limit: add and remove_from push a request.
Overfull(tm, t) == Len(tm[t]) > MaxSlicesPerTier

\* m_tier_map with slice s added to tier t.
Added(tm, t, s) == [tm EXCEPT ![t] = Append(@, s)]

Removed(tm, counts) ==
    [t \in Tiers |-> SubSeq(tm[t], counts[t] + 1, Len(tm[t]))]

-----------------------------------------------------------------------------

Init ==
    /\ idx = 0
    /\ writers = [w \in Writers |-> {}]
    /\ contents = <<>>
    /\ m_tier_map = [t \in Tiers |-> <<>>]
    /\ unlinked = {} /\ freed = {}
    /\ readers = [r \in Readers |-> {}]
    /\ merge_requests = <<>> /\ merge_cond = <<>>
    /\ tier_locks = {}
    /\ jobs = [m \in MergeThreads |-> Looking]
    /\ dropped = FALSE /\ double_unlink = FALSE
    /\ committed = {}

(* Callers. *)

\* A writer starts an update: it gets the next idx and fills a slice_writer
\* (update_data of db_server).
Begin(w, batch) ==
    /\ ~dropped
    /\ writers[w] = {} /\ idx < MaxUpdates
    /\ idx' = idx + 1
    /\ writers' = [writers EXCEPT ![w] = Update(idx + 1, batch.puts, batch.dels)]
    /\ UNCHANGED <<contents, m_tier_map, unlinked, freed, readers, merge_requests,
                   merge_cond, tier_locks, jobs, dropped, double_unlink, committed>>

\* ushard::add of the committed slice.
Commit(w) ==
    /\ writers[w] # {}
    /\ \E t \in tier_of(writers[w]) :
          /\ contents' = Append(contents, writers[w])
          /\ m_tier_map' = Added(m_tier_map, t, Len(contents) + 1)
          /\ Request(IF Overfull(m_tier_map', t) THEN <<t>> ELSE <<>>, jobs)
    /\ committed' = committed \cup writers[w]
    /\ writers' = [writers EXCEPT ![w] = {}]
    /\ UNCHANGED <<idx, unlinked, freed, readers, tier_locks, dropped, double_unlink>>

\* The writer gives up (rollback_update); its idx is never used.
Rollback(w) ==
    /\ writers[w] # {}
    /\ writers' = [writers EXCEPT ![w] = {}]
    /\ UNCHANGED <<idx, contents, m_tier_map, unlinked, freed, readers,
                   merge_requests, merge_cond, tier_locks, jobs, dropped,
                   double_unlink, committed>>

\* ushard::range and ushard::begin: the iterator holds the slices of now.
Open(r) ==
    /\ readers[r] = {} /\ get_slices # {}
    /\ readers' = [readers EXCEPT ![r] = get_slices]
    /\ UNCHANGED <<idx, writers, contents, m_tier_map, unlinked, freed,
                   merge_requests, merge_cond, tier_locks, jobs, dropped,
                   double_unlink, committed>>

Close(r) ==
    /\ readers[r] # {}
    /\ readers' = [readers EXCEPT ![r] = {}]
    /\ Reap(Referenced(m_tier_map, jobs, readers'), unlinked, contents)
    /\ UNCHANGED <<idx, writers, m_tier_map, unlinked, merge_requests, merge_cond,
                   tier_locks, jobs, dropped, double_unlink, committed>>

\* ushard::drop and ~ushard: the owner lets go of the ushard when nobody writes
\* or merges any more; iterators may outlive it.
Drop ==
    /\ ~dropped
    /\ \A w \in Writers : writers[w] = {}
    /\ \A m \in MergeThreads : ~Busy(m)
    /\ merge_requests = <<>>
    /\ dropped' = TRUE
    /\ m_tier_map' = [t \in Tiers |-> <<>>]
    /\ unlinked' = unlinked \cup get_slices
    /\ double_unlink' = (double_unlink \/ unlinked \cap get_slices # {})
    /\ Reap(Referenced(m_tier_map', jobs, readers), unlinked', contents)
    /\ committed' = {}
    /\ UNCHANGED <<idx, writers, readers, merge_requests, merge_cond, tier_locks, jobs>>

(* Merge threads. *)

\* Unlink the captured slices and start reading them (cb->remove(slices)).
Capture(m, job) ==
    /\ unlinked' = unlinked \cup job.sources
    /\ double_unlink' = (double_unlink \/ unlinked \cap job.sources # {})
    /\ jobs' = [jobs EXCEPT ![m] = job]

\* The merge thread takes a request: it drops one for a tier that is locked or
\* no longer overfull, and starts to merge otherwise.
MergeStart_NoLock(m) ==
    /\ jobs[m].at = "look" /\ merge_requests # <<>>
    /\ merge_requests' = Tail(merge_requests)
    /\ LET t == Head(merge_requests)
       IN  /\ Overfull(m_tier_map, t)
           /\ tier_locks' = tier_locks \cup {t}
           /\ Capture(m, [at |-> "merge",
                          scope |-> {t},
                          counts |-> [NoCounts EXCEPT ![t] = Len(m_tier_map[t])],
                          sources |-> {m_tier_map[t][i] : i \in DOMAIN m_tier_map[t]}])
    /\ UNCHANGED <<idx, writers, contents, m_tier_map, freed, readers, merge_cond,
                   dropped, committed>>

MergeStart(m) ==
    /\ jobs[m].at = "look" /\ merge_requests # <<>>
    /\ merge_requests' = Tail(merge_requests)
    /\ LET t == Head(merge_requests)
       IN  /\ t \notin tier_locks /\ Overfull(m_tier_map, t)
           /\ tier_locks' = tier_locks \cup {t}
           /\ Capture(m, [at |-> "merge",
                          scope |-> {t},
                          counts |-> [NoCounts EXCEPT ![t] = Len(m_tier_map[t])],
                          sources |-> {m_tier_map[t][i] : i \in DOMAIN m_tier_map[t]}])
    /\ UNCHANGED <<idx, writers, contents, m_tier_map, freed, readers, merge_cond,
                   dropped, committed>>

MergeSkip(m) ==
    /\ jobs[m].at = "look" /\ merge_requests # <<>>
    /\ \/ Head(merge_requests) \in tier_locks
       \/ ~Overfull(m_tier_map, Head(merge_requests))
    /\ merge_requests' = Tail(merge_requests)
    /\ UNCHANGED <<idx, writers, contents, m_tier_map, unlinked, freed, readers,
                   merge_cond, tier_locks, jobs, dropped, double_unlink, committed>>

MergeWait(m) ==
    /\ jobs[m].at = "look" /\ merge_requests = <<>>
    /\ merge_cond' = Append(merge_cond, m)
    /\ jobs' = [jobs EXCEPT ![m] = Waiting]
    /\ UNCHANGED <<idx, writers, contents, m_tier_map, unlinked, freed, readers,
                   merge_requests, tier_locks, dropped, double_unlink, committed>>

\* ushard::compact captures every slice; it needs at least two.
CompactStart(m) ==
    /\ ~dropped
    /\ jobs[m].at = "look" /\ merge_requests = <<>>
    /\ \E s, u \in get_slices : s # u
    /\ Capture(m, [at |-> "compact",
                   scope |-> Tiers,
                   counts |-> [t \in Tiers |-> Len(m_tier_map[t])],
                   sources |-> get_slices])
    /\ UNCHANGED <<idx, writers, contents, m_tier_map, freed, readers,
                   merge_requests, merge_cond, tier_locks, dropped, committed>>

\* What the slice_writer of merge (or compact) has written: the newest entry of
\* every key of the captured slices, without the deletions when compacting.
Target_AlwaysCompacts(job) == Live(EntriesOf(job.sources))

Target(job) ==
    IF job.at = "compact" THEN Live(EntriesOf(job.sources))
                          ELSE Newest(EntriesOf(job.sources))

\* The requests remove_from pushes for the tiers of scope, in any order (the
\* tier map is unordered).
RemoveRequests_None(tm, scope) == {<<>>}

RemoveRequests(tm, scope) ==
    LET over == {t \in scope : Overfull(tm, t)}
    IN  {q \in [1 .. Cardinality(over) -> over] : {q[i] : i \in DOMAIN q} = over}

\* The result is committed and added, then the captured slices leave their
\* tiers and the tier is unlocked; no yield in between.
Finish(m) ==
    /\ Busy(m)
    /\ LET job == jobs[m]
           new == Len(contents) + 1
       IN  \E t \in tier_of(Target(job)) :
             LET added == Added(m_tier_map, t, new)
             IN  /\ m_tier_map' = Removed(added, job.counts)
                 /\ \E q \in RemoveRequests(m_tier_map', job.scope) :
                       Request((IF Overfull(added, t) THEN <<t>> ELSE <<>>) \o q,
                               [jobs EXCEPT ![m] = Looking])
                 /\ Reap(Referenced(m_tier_map', jobs', readers), unlinked,
                         Append(contents, Target(job)))
                 /\ tier_locks' = IF job.at = "merge"
                                  THEN tier_locks \ job.scope
                                  ELSE tier_locks
    /\ UNCHANGED <<idx, writers, unlinked, readers, dropped, double_unlink, committed>>

-----------------------------------------------------------------------------

\* ushard_test compacts in the thread that merges; the merge threads of db_server
\* never do.
Compactors == IF Compacting THEN MergeThreads ELSE {}

MergeStep(m) == MergeStart(m) \/ MergeSkip(m) \/ MergeWait(m) \/ Finish(m)

Next ==
    \/ \E w \in Writers :
          \/ \E batch \in Batches : Begin(w, batch)
          \/ Commit(w)
          \/ Rollback(w)
    \/ \E r \in Readers : Open(r) \/ Close(r)
    \/ Drop
    \/ \E m \in MergeThreads : MergeStep(m)
    \/ \E m \in Compactors : CompactStart(m)

\* Merge threads are green threads in the FIFO run queue: each one that can run
\* does.  Callers need not do anything.
Spec ==
    /\ Init
    /\ [][Next]_vars
    /\ \A m \in MergeThreads : WF_vars(MergeStep(m))

-----------------------------------------------------------------------------
(* Properties. *)

JobType == [at : {"look", "wait", "merge", "compact"}, scope : SUBSET Tiers,
            counts : [Tiers -> Nat], sources : SUBSET (DOMAIN contents)]

\* The types of a ushard's state and of the threads around it.
TypeOK ==
    /\ idx \in Nat
    /\ writers \in [Writers -> SUBSET Entry]
    /\ contents \in Seq(SUBSET Entry)
    /\ m_tier_map \in [Tiers -> Seq(DOMAIN contents)]
    /\ unlinked \subseteq DOMAIN contents /\ freed \subseteq unlinked
    /\ readers \in [Readers -> SUBSET (DOMAIN contents)]
    /\ merge_requests \in Seq(Tiers)
    /\ merge_cond \in Seq(MergeThreads)
    /\ tier_locks \subseteq Tiers
    /\ jobs \in [MergeThreads -> JobType]
    /\ dropped \in BOOLEAN /\ double_unlink \in BOOLEAN
    /\ committed \subseteq Entry

\* What a reader that starts now would see.
View == Live(EntriesOf(get_slices))

\* A reader sees the newest committed entry of every key and no deleted key,
\* whatever merges and compactions have done or are doing, and although updates
\* may commit out of order (ushard_test's verify_sequential on every history).
NewestCommittedVisible == View = Live(committed)

\* The assertion of slice::unlink holds: no slice is given to two merges, or
\* to a merge and a compaction, or to a merge and ~ushard.
UnlinkedOnce == ~double_unlink

\* The pages of a slice are given back exactly when nothing can read it any
\* more: no page of an open iterator is freed, no dead slice keeps its pages.
FreedIffUnreferenced ==
    \A s \in DOMAIN contents :
        s \in freed <=> s \notin Referenced(m_tier_map, jobs, readers)

\* Requests are dropped when their tier is locked, yet no overfull tier is ever
\* forgotten: it is being merged or a request for it is queued.
OverfullIsScheduled ==
    \A t \in Tiers :
        Overfull(m_tier_map, t) =>
            \/ t \in tier_locks
            \/ \E i \in DOMAIN merge_requests : merge_requests[i] = t

\* A ushard behaves like Store: commits take effect at once, readers keep their
\* snapshot, and merges, compactions and freed pages are invisible.
AbstractStore == INSTANCE Store
    WITH view <- View,
         snapshots <- [r \in Readers |-> Live(EntriesOf(readers[r]))]
RefinesStore == AbstractStore!StoreSpec

\* A tier that has grown over its limit is merged down again, whatever the
\* writers do meanwhile.
OverfullTiersShrink ==
    \A t \in Tiers : Overfull(m_tier_map, t) ~> ~Overfull(m_tier_map, t)

=============================================================================
