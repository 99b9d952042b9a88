-------------------------------- MODULE Store --------------------------------
(***************************************************************************)
(* What a ushard promises its callers, with no slices, tiers or merges: a  *)
(* set of committed updates, of which a reader sees, for every key, the    *)
(* entry of the newest update unless that entry is a deletion.  A reader   *)
(* keeps what it saw when it started.                                      *)
(*                                                                         *)
(* An update gets its number (idx) when it starts, so updates may commit   *)
(* out of order; an older update that commits late stays hidden.           *)
(***************************************************************************)
EXTENDS Entries

CONSTANTS
    Writers,        \* callers that build updates
    Readers,        \* callers that iterate
    MaxUpdates      \* bound: number of updates

VARIABLES
    idx,            \* number of updates started
    writers,        \* the entries of each writer's open update
    committed,      \* entries of the committed updates
    view,           \* what a reader that starts now would see
    snapshots       \* what each open reader sees

storeVars == <<idx, writers, committed, view, snapshots>>

StoreInit ==
    /\ idx = 0
    /\ writers = [w \in Writers |-> {}]
    /\ committed = {}
    /\ view = {}
    /\ snapshots = [r \in Readers |-> {}]

StoreBegin(w, puts, dels) ==
    /\ writers[w] = {} /\ idx < MaxUpdates
    /\ idx' = idx + 1
    /\ writers' = [writers EXCEPT ![w] = Update(idx + 1, puts, dels)]
    /\ UNCHANGED <<committed, view, snapshots>>

StoreCommit(w) ==
    /\ writers[w] # {}
    /\ committed' = committed \cup writers[w]
    /\ view' = Live(committed')
    /\ writers' = [writers EXCEPT ![w] = {}]
    /\ UNCHANGED <<idx, snapshots>>

StoreRollback(w) ==
    /\ writers' = [writers EXCEPT ![w] = {}]
    /\ UNCHANGED <<idx, committed, view, snapshots>>

StoreOpen(r) ==
    /\ snapshots[r] = {}
    /\ snapshots' = [snapshots EXCEPT ![r] = view]
    /\ UNCHANGED <<idx, writers, committed, view>>

StoreClose(r) ==
    /\ snapshots' = [snapshots EXCEPT ![r] = {}]
    /\ UNCHANGED <<idx, writers, committed, view>>

\* The ushard is dropped; open readers keep what they see.
StoreDrop ==
    /\ committed' = {} /\ view' = {}
    /\ UNCHANGED <<idx, writers, snapshots>>

StoreNext ==
    \/ \E w \in Writers :
          \/ \E puts, dels \in SUBSET Keys :
                puts \cap dels = {} /\ puts \cup dels # {} /\ StoreBegin(w, puts, dels)
          \/ StoreCommit(w)
          \/ StoreRollback(w)
    \/ \E r \in Readers : StoreOpen(r) \/ StoreClose(r)
    \/ StoreDrop

StoreSpec == StoreInit /\ [][StoreNext]_storeVars

=============================================================================
