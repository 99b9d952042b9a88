-------------------------------- MODULE Deque --------------------------------
(***************************************************************************)
(* What slab_list promises: a sequence of distinct entries that grows at   *)
(* both ends and loses entries anywhere.                                   *)
(***************************************************************************)
EXTENDS Sequences, SequencesExt

CONSTANT Handles

VARIABLE entries

DequeInit == entries = <<>>

DequeNext ==
    \/ \E e \in Handles \ ToSet(entries) : entries' = <<e>> \o entries
    \/ \E e \in Handles \ ToSet(entries) : entries' = Append(entries, e)
    \/ \E e \in ToSet(entries) : entries' = RemoveFirst(entries, e)

DequeSpec == DequeInit /\ [][DequeNext]_entries
=============================================================================
