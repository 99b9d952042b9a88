--------------------------------- MODULE Mutex ---------------------------------
(***************************************************************************)
(* gt::mutex, on the run queue of Gt: the first thread of the queue runs   *)
(* until it yields or waits.                                               *)
(***************************************************************************)
EXTENDS Naturals, Sequences, SequencesExt

CONSTANTS
    LockThreads,        \* threads that lock and unlock
    NoOwner             \* m_owner is nullptr

VARIABLES
    run_queue,          \* the threads that can run, the one that does first
    m_owner,
    m_wait_queue,
    at                  \* "outside", "waits" until it runs again in lock, or "inside"

mutexVars == <<run_queue, m_owner, m_wait_queue, at>>

MutexInit ==
    /\ run_queue \in SetToSeqs(LockThreads)
    /\ m_owner = NoOwner
    /\ m_wait_queue = <<>>
    /\ at = [t \in LockThreads |-> "outside"]

Runs(t) == run_queue # <<>> /\ Head(run_queue) = t

\* mutex::lock, of a free mutex, or as far as its yield.
lock(t) ==
    /\ Runs(t) /\ at[t] = "outside"
    /\ \/ /\ m_owner = NoOwner
          /\ m_owner' = t
          /\ at' = [at EXCEPT ![t] = "inside"]
          /\ UNCHANGED <<run_queue, m_wait_queue>>
       \/ /\ m_owner # NoOwner
          /\ m_wait_queue' = Append(m_wait_queue, t)
          /\ at' = [at EXCEPT ![t] = "waits"]
          /\ run_queue' = Tail(run_queue)
          /\ UNCHANGED m_owner

\* The rest of mutex::lock, when the thread runs again.
Resumed(t) ==
    /\ Runs(t) /\ at[t] = "waits"
    /\ m_owner' = t
    /\ at' = [at EXCEPT ![t] = "inside"]
    /\ UNCHANGED <<run_queue, m_wait_queue>>

\* mutex::unlock: the mutex is free, and the first waiter can run.
unlock(t) ==
    /\ Runs(t) /\ at[t] = "inside"
    /\ m_owner' = NoOwner
    /\ at' = [at EXCEPT ![t] = "outside"]
    /\ IF m_wait_queue = <<>> THEN UNCHANGED <<run_queue, m_wait_queue>>
       ELSE /\ run_queue' = Append(run_queue, Head(m_wait_queue))
            /\ m_wait_queue' = Tail(m_wait_queue)

\* The thread yields in between.
YieldTurn(t) ==
    /\ Runs(t) /\ at[t] # "waits"
    /\ run_queue' = Append(Tail(run_queue), t)
    /\ UNCHANGED <<m_owner, m_wait_queue, at>>

MutexNext == \E t \in LockThreads : lock(t) \/ Resumed(t) \/ unlock(t) \/ YieldTurn(t)

MutexSpec == MutexInit /\ [][MutexNext]_mutexVars

-----------------------------------------------------------------------------
(* Properties *)

\* A thread that waited finds the mutex free when it runs again: the assertion
\* behind the yield of mutex::lock (mutex.cpp:18).
WaiterFindsItFree ==
    \A t \in LockThreads : Runs(t) /\ at[t] = "waits" => m_owner = NoOwner
=============================================================================
