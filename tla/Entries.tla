------------------------------- MODULE Entries -------------------------------
(***************************************************************************)
(* The entries of the storage engine and what an iterator over several     *)
(* slices makes of them (tyrdbs/iterator.h, ushard_iterator).  An update   *)
(* writes at most one entry per key, all with the idx of the update; a     *)
(* deletion is an entry with the deleted flag.                             *)
(***************************************************************************)
EXTENDS Integers

CONSTANT Keys

Entry == [key : Keys, idx : Nat, deleted : BOOLEAN]

\* What ushard_iterator yields for slices with the entries S: for every key the
\* entry with the highest idx (its comparator), deletions included.
Newest(S) == {e \in S : \A f \in S : f.key = e.key => f.idx <= e.idx}

\* What is left when deletions are skipped, as slice_writer::add does when it is
\* told to compact.
Live_DropsFirst(S) == Newest({e \in S : ~e.deleted})

Live(S) == {e \in Newest(S) : ~e.deleted}

\* The entries of update number n, which writes puts and deletes dels.
Update(n, puts, dels) ==
    [key : puts, idx : {n}, deleted : {FALSE}]
        \cup [key : dels, idx : {n}, deleted : {TRUE}]

=============================================================================
