--------------------------------- MODULE Fifo ---------------------------------
(* A queue: what ring_queue promises. *)
EXTENDS Naturals, Sequences

CONSTANT Items

VARIABLE queue

Push(item) == queue' = Append(queue, item)

Pop == queue # <<>> /\ queue' = Tail(queue)

FifoSpec == queue = <<>> /\ [][Pop \/ \E item \in Items : Push(item)]_queue

=============================================================================
