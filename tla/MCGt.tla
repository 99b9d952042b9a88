--------------------------------- MODULE MCGt ---------------------------------
(* Instances of Gt for TLC. *)
EXTENDS Gt

CONSTANTS u1, u2, u3

StartedThreads == <<u1, u2>>

\* Slots for every request and timeout, or too few slots and no timeouts.
ProgramSettings ==
    {[io |-> 2, channel |-> 1, timeouts |-> FALSE, threads |-> 3],
     [io |-> 3, channel |-> 1, timeouts |-> TRUE, threads |-> 2]}

\* As many channel requests as slots, though each may want two of them.
TightSettings == {[io |-> 2, channel |-> 2, timeouts |-> TRUE, threads |-> 2]}

=============================================================================
