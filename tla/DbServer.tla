------------------------------- MODULE DbServer -------------------------------
(***************************************************************************)
(* The updates of db_server: every client has a connection, and a thread   *)
(* of the server that serves its calls one by one.  An update is sent in   *)
(* one or more calls of update_data, which name it by a handle after the   *)
(* first, and ends with commit_update or rollback_update; it has a slice   *)
(* writer for each ushard that it touches.  New updates are held back      *)
(* while there are too many slices.                                        *)
(*                                                                         *)
(* An entry is the update whose client sent it with the idx it is stored   *)
(* under.  Ushard models what happens within a ushard; here a merge        *)
(* replaces all slices of one that has MergeAt or more, and updates have   *)
(* keys of their own.                                                      *)
(***************************************************************************)
EXTENDS Naturals, FiniteSets, SequencesExt

CONSTANTS
    Clients,            \* clients that update, a connection each
    Ushards,
    MaxSlices,          \* max_slices
    MergeAt,            \* slices in a ushard that start a merge
    MaxUpdates,         \* bound: number of updates
    Leavers             \* clients that may disconnect in an update

ASSUME MergeAssumption == MergeAt \in Nat /\ MergeAt > 1
ASSUME UpdatesAssumption == MaxUpdates \in Nat

VARIABLES
    idx,
    writers,            \* handle -> idx and slices of an update
    ushards,            \* the slices of each ushard, in the order of their commits
    slice_count,
    merging,            \* how many slices of each ushard a merge has captured
    clients,            \* where each client is, with its handle and update
    stack,              \* the writer w in update_data of each client's thread
    sent,               \* ghost: the ushards that each update touches
    acked,              \* ghost: the updates whose commit was answered
    overlapped          \* ghost: the updates whose first call overlapped another's

dbVars ==
    <<idx, writers, ushards, slice_count, merging, clients, stack, sent, acked, overlapped>>

NoWriter == [idx |-> 0, slices |-> <<>>]
Away == [at |-> "idle", handle |-> 0, update |-> 0]

DbInit ==
    /\ idx = 0 /\ slice_count = 0
    /\ writers = <<>>
    /\ ushards = [u \in Ushards |-> <<>>]
    /\ merging = [u \in Ushards |-> 0]
    /\ clients = [c \in Clients |-> Away]
    /\ stack = [c \in Clients |-> NoWriter]
    /\ sent = [n \in 0..MaxUpdates - 1 |-> {}]
    /\ acked = {} /\ overlapped = {}

-----------------------------------------------------------------------------
(* update_data *)

\* update_entries: a slice writer for each ushard that has none yet.
SlicesFor(w, update, batch) ==
    [w EXCEPT !.slices = [u \in DOMAIN w.slices \cup batch |->
        (IF u \in DOMAIN w.slices THEN w.slices[u] ELSE {})
            \cup (IF u \in batch THEN {<<update, w.idx>>} ELSE {})]]

Created(w, batch) == Cardinality(batch \ DOMAIN w.slices)

\* What writers[handle] refers to: operator[] makes a writer if there is none.
WriterAt(handle) == IF handle \in DOMAIN writers THEN writers[handle] ELSE NoWriter

StoredWriter(handle, w) ==
    [h \in DOMAIN writers \cup {handle} |-> IF h = handle THEN w ELSE writers[h]]

At(c, place) == [clients EXCEPT ![c].at = place]

Ask(c) ==
    /\ clients[c].at = "idle" /\ idx < MaxUpdates
    /\ clients' = At(c, "asks")
    /\ UNCHANGED <<idx, writers, ushards, slice_count, merging, stack, sent, acked, overlapped>>

MayBegin == slice_count <= MaxSlices

\* The first calls that are being served, and the one that comes to them.
Overlapping ==
    LET served == {clients[d].update : d \in {e \in Clients : clients[e].at = "writing"}}
    IN  IF served = {} THEN {} ELSE served \cup {idx}

\* The writer gets its idx; writing the entries, and the flush, yield.
Begin(c, batch) ==
    /\ clients[c].at = "asks" /\ idx < MaxUpdates
    /\ MayBegin
    /\ overlapped' = overlapped \cup Overlapping
    /\ idx' = idx + 1
    /\ stack' = [stack EXCEPT ![c] = SlicesFor([NoWriter EXCEPT !.idx = idx], idx, batch)]
    /\ slice_count' = slice_count + Cardinality(batch)
    /\ clients' = [clients EXCEPT ![c].at = "writing", ![c].update = idx]
    /\ sent' = [sent EXCEPT ![idx] = batch]
    /\ UNCHANGED <<writers, ushards, merging, acked>>

\* The handle is the idx of now, one more than the last that was given out.
AnswerUpdate(c, last) ==
    /\ clients[c].at = "writing"
    /\ writers' = StoredWriter(idx, stack[c])
    /\ slice_count' = slice_count - Cardinality(DOMAIN WriterAt(idx).slices)
    /\ clients' = [clients EXCEPT ![c].at = IF last THEN "complete" ELSE "open",
                                  ![c].handle = idx]
    /\ stack' = [stack EXCEPT ![c] = NoWriter]
    /\ UNCHANGED <<idx, ushards, merging, sent, acked, overlapped>>

More(c, batch, last) ==
    /\ clients[c].at = "open"
    /\ LET handle == clients[c].handle
       IN /\ writers' = StoredWriter(handle, SlicesFor(WriterAt(handle), clients[c].update, batch))
          /\ slice_count' = slice_count + Created(WriterAt(handle), batch)
    /\ clients' = At(c, IF last THEN "complete" ELSE "open")
    /\ sent' = [sent EXCEPT ![clients[c].update] = @ \cup batch]
    /\ UNCHANGED <<idx, ushards, merging, stack, acked, overlapped>>

-----------------------------------------------------------------------------
(* commit_update and rollback_update *)

\* Mutant: only one slice of the update is added.
AddSlices_One(slices) ==
    [u \in Ushards |-> IF u \in DOMAIN slices /\ u = CHOOSE v \in DOMAIN slices : TRUE
                       THEN Append(ushards[u], slices[u]) ELSE ushards[u]]

\* The loop of commit_update, in which nothing yields.
AddSlices(slices) ==
    [u \in Ushards |-> IF u \in DOMAIN slices THEN Append(ushards[u], slices[u]) ELSE ushards[u]]

Erased(handle) == Restrict(writers, DOMAIN writers \ {handle})

\* The slice takes the place of its writer.
CountAfterCommit(handle) == slice_count

commit_update(c) ==
    /\ clients[c].at = "complete"
    /\ slice_count' = CountAfterCommit(clients[c].handle)
    /\ ushards' = AddSlices(WriterAt(clients[c].handle).slices)
    /\ writers' = Erased(clients[c].handle)
    /\ acked' = acked \cup {clients[c].update}
    /\ clients' = [clients EXCEPT ![c] = Away]
    /\ UNCHANGED <<idx, merging, stack, sent, overlapped>>

\* erase runs the destructors of the slice writers.
CountAfterErase(handle) ==
    IF handle \in DOMAIN writers
    THEN slice_count - Cardinality(DOMAIN writers[handle].slices) ELSE slice_count

rollback_update(c) ==
    /\ clients[c].at \in {"open", "complete"}
    /\ slice_count' = CountAfterErase(clients[c].handle)
    /\ writers' = Erased(clients[c].handle)
    /\ clients' = [clients EXCEPT ![c] = Away]
    /\ UNCHANGED <<idx, ushards, merging, stack, sent, acked, overlapped>>

\* The connection is gone between two calls of an update.  Nobody looks after the
\* writer.  (To be gone between updates is to ask for no more.)
LeaveUpdate(c) ==
    /\ c \in Leavers
    /\ clients[c].at \in {"open", "complete"}
    /\ clients' = [clients EXCEPT ![c] = [Away EXCEPT !.at = "gone"]]
    /\ UNCHANGED <<idx, writers, ushards, slice_count, merging, stack, sent, acked, overlapped>>

-----------------------------------------------------------------------------
(* merge_thread *)

\* ushard::merge captures the slices and opens a slice writer.
MergeStart(u) ==
    /\ merging[u] = 0 /\ Len(ushards[u]) >= MergeAt
    /\ merging' = [merging EXCEPT ![u] = Len(ushards[u])]
    /\ slice_count' = slice_count + 1
    /\ UNCHANGED <<idx, writers, ushards, clients, stack, sent, acked, overlapped>>

\* Mutant: the merged slices are never destroyed.
MergedAway_Leaked(u) == 0

\* The merged slices are unlinked and destroyed.
MergedAway(u) == merging[u]

Captured(u) == SubSeq(ushards[u], 1, merging[u])
CommittedSince(u) == SubSeq(ushards[u], merging[u] + 1, Len(ushards[u]))

MergeEnd(u) ==
    /\ merging[u] > 0
    /\ ushards' = [ushards EXCEPT ![u] = <<UNION ToSet(Captured(u))>> \o CommittedSince(u)]
    /\ merging' = [merging EXCEPT ![u] = 0]
    /\ slice_count' = slice_count - MergedAway(u)
    /\ UNCHANGED <<idx, writers, clients, stack, sent, acked, overlapped>>

Goes(c) ==
    \/ \E batch \in SUBSET Ushards \ {{}} : Begin(c, batch)
    \/ \E last \in BOOLEAN : AnswerUpdate(c, last)

Completes(c) == \E batch \in SUBSET Ushards \ {{}} : More(c, batch, TRUE)

DbNext ==
    \/ \E c \in Clients :
          \/ Ask(c) \/ Goes(c)
          \/ \E batch \in SUBSET Ushards \ {{}}, last \in BOOLEAN : More(c, batch, last)
          \/ commit_update(c) \/ rollback_update(c) \/ LeaveUpdate(c)
    \/ \E u \in Ushards : MergeStart(u) \/ MergeEnd(u)

\* The threads of the server run, and a client that is in an update comes to
\* its end.  Begin is retried in a loop, so fairness for it is that of a thread.
DbSpec ==
    /\ DbInit /\ [][DbNext]_dbVars
    /\ \A c \in Clients :
          WF_dbVars(Goes(c)) /\ WF_dbVars(Completes(c)) /\ WF_dbVars(commit_update(c))
    /\ \A u \in Ushards : WF_dbVars(MergeStart(u)) /\ WF_dbVars(MergeEnd(u))

-----------------------------------------------------------------------------
(* Properties *)

Contents(u) == UNION ToSet(ushards[u])

\* Update n is in every ushard that it was sent to if it was acknowledged, and in
\* none otherwise: a reader sees all of it or nothing.
WholeUpdate(n) ==
    \A u \in Ushards : <<n, n>> \in Contents(u) <=> n \in acked /\ u \in sent[n]

\* Every update is whole: what the handle that update_data answers with promises
\* to its client.  Two first calls that overlap are answered with the same handle.
UpdatesAreWhole == \A n \in 0..MaxUpdates - 1 : WholeUpdate(n)

\* An update whose own first call overlapped no other is whole, whatever became of
\* those that did overlap and share a writer: its handle names its writer alone,
\* through every commit, rollback, disconnect and merge of the others.
UpdatesStartedAloneAreWhole ==
    \A n \in (0..MaxUpdates - 1) \ overlapped : WholeUpdate(n)

\* An update that is held back starts once the merges have caught up, unless a
\* client went away in the middle of an update: nobody ends that one, and its
\* slices count for ever.
HeldBackUpdatesStart ==
    \A c \in Clients :
        clients[c].at = "asks" /\ idx < MaxUpdates
           ~> \/ clients[c].at # "asks" \/ idx = MaxUpdates
              \/ \E d \in Clients : clients[d].at = "gone"
=============================================================================
