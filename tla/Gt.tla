---------------------------------- MODULE Gt ----------------------------------
(***************************************************************************)
(* The green threads of gt/ and the io_uring thread of io/: one OS thread, *)
(* a FIFO run queue, and contexts that run until they yield.  The code     *)
(* between two yields is one step here.                                    *)
(*                                                                         *)
(* What a thread does between yields is up to it: it may create threads,   *)
(* wait on a condition or signal it, run jobs and wait for them, or issue  *)
(* an io request.  All requests share the slots of one queue_flow, and     *)
(* those of channels are also limited by a second one.  A request of a     *)
(* channel may have a timeout, which takes a slot of its own and is linked *)
(* to the request if both are submitted together.                          *)
(***************************************************************************)
EXTENDS Integers, FiniteSets, SequencesExt

CONSTANTS
    Users,          \* contexts for user threads (create_thread)
    Io,             \* the context of io_uring_thread (create_system_thread)
    Idle,           \* idle_ctx, the caller of gt::run
    Started,        \* the user threads main creates before gt::run, in order
    Settings        \* of the programs: io, slots of io::initialize (4096); channel, those
                    \* of channel::initialize (512); timeouts, whether callers of a
                    \* channel give any; threads, a bound on the user threads at a time

ASSUME ContextsAssumption ==
    IsFiniteSet(Users) /\ Io \notin Users /\ Idle \notin Users \cup {Io}
ASSUME StartedAssumption ==
    Started \in Seq(Users) /\ \A i, j \in DOMAIN Started : Started[i] = Started[j] => i = j
ASSUME SettingsAssumption ==
    Settings \subseteq [io : Nat \ {0}, channel : Nat \ {0}, timeouts : BOOLEAN, threads : Nat]

Contexts == Users \cup {Io}

VARIABLES
    state,              \* of each context; "FREE" when it is back in the pool
    at,                 \* what each context does or waits for
    run_queue,
    current_ctx,
    suspended_ctx,      \* counters of the engine
    user_ctx,
    user_ctx_waiting,
    terminated,
    stopped,            \* gt::run has returned
    wait_queue,         \* m_wait_queue of a gt::condition
    m_jobs,             \* the jobs each context has still to wait for
    m_done,             \* of the job each context was created for
    setting,            \* the queue sizes of this program
    holders,            \* contexts that hold a queue_flow::resource of a channel
    channel_queue,      \* contexts waiting for one
    m_enqueued,         \* slots of the io queue in use
    flow_queue,         \* contexts waiting for a slot (queue_flow::m_cond)
    submission,         \* requests prepared and not yet submitted
    link_timeouts,      \* timeouts prepared and not yet submitted
    kernel,             \* requests the kernel works on
    armed,              \* those of them with a timeout that may still fire
    cancelled,          \* those whose timeout has fired
    completion,         \* requests in the completion queue
    timeouts_done,      \* number of timeouts in it, which come without data
    last_enqueued       \* local variable of io_uring_thread

engineVars == <<state, at, run_queue, current_ctx, suspended_ctx, user_ctx,
                user_ctx_waiting, terminated, stopped>>
waitVars == <<wait_queue, m_jobs, m_done>>
channelVars == <<setting, holders, channel_queue>>
kernelVars == <<kernel, armed, cancelled>>
completionVars == <<completion, timeouts_done>>
ioVars == <<channelVars, m_enqueued, flow_queue, submission, link_timeouts, kernelVars,
            completionVars, last_enqueued>>
gtVars == <<engineVars, waitVars, ioVars>>

GtInit ==
    /\ state = [c \in Contexts |->
                   IF c \in ToSet(Started) \cup {Io} THEN "WAITING" ELSE "FREE"]
    /\ at = [c \in Contexts |-> "run"]
    /\ run_queue = <<Io>> \o Started
    /\ current_ctx = Idle
    /\ suspended_ctx = 0
    /\ user_ctx = Len(Started) /\ user_ctx_waiting = Len(Started)
    /\ terminated = FALSE /\ stopped = FALSE
    /\ wait_queue = <<>>
    /\ m_jobs = [c \in Users |-> <<>>]
    /\ m_done = [c \in Users |-> TRUE]
    /\ setting \in Settings
    /\ holders = {} /\ channel_queue = <<>>
    /\ m_enqueued = 0 /\ flow_queue = <<>>
    /\ submission = {} /\ link_timeouts = {}
    /\ kernel = {} /\ armed = {} /\ cancelled = {}
    /\ completion = <<>> /\ timeouts_done = 0 /\ last_enqueued = 0

-----------------------------------------------------------------------------
(* engine::enqueue and engine::yield *)

Ready(woken) == run_queue \o woken

\* c enqueues the user contexts woken and goes on with what label says.
GoOn(c, woken, label) ==
    /\ state' = [d \in Contexts |-> IF d \in ToSet(woken) THEN "WAITING" ELSE state[d]]
    /\ run_queue' = Ready(woken)
    /\ suspended_ctx' = suspended_ctx - Len(woken)
    /\ user_ctx_waiting' = user_ctx_waiting + Len(woken)
    /\ at' = [at EXCEPT ![c] = label]
    /\ UNCHANGED <<current_ctx, user_ctx, terminated, stopped>>

\* c enqueues the user contexts woken and yields, and is itself enqueued if
\* again; the front of the run queue is next, or run()'s loop if there is none.
yield(c, woken, again, label) ==
    LET ready == Ready(woken)
        queue == ready \o (IF again THEN <<c>> ELSE <<>>)
        next == IF ready = <<>> THEN Idle ELSE Head(ready)
    IN  /\ state' = [d \in Contexts |->
                        IF d = next THEN "RUNNING"
                        ELSE IF d = c THEN IF again THEN "WAITING" ELSE "SUSPENDED"
                        ELSE IF d \in ToSet(woken) THEN "WAITING" ELSE state[d]]
        /\ run_queue' = IF next = Idle THEN queue ELSE Tail(queue)
        /\ current_ctx' = next
        /\ suspended_ctx' = suspended_ctx - Len(woken) + (IF again THEN 0 ELSE 1)
        /\ user_ctx_waiting' = user_ctx_waiting + Len(woken)
                                  + (IF again /\ c \in Users THEN 1 ELSE 0)
                                  - (IF next \in Users THEN 1 ELSE 0)
        /\ at' = [at EXCEPT ![c] = label]
        /\ terminated' = (terminated \/ (next = Idle /\ user_ctx = 0))
        /\ UNCHANGED <<user_ctx, stopped>>

\* The loop of gt::run takes the next context, or ends.
RunNext ==
    /\ current_ctx = Idle /\ run_queue # <<>>
    /\ LET next == Head(run_queue)
       IN  /\ state' = [state EXCEPT ![next] = "RUNNING"]
           /\ current_ctx' = next
           /\ user_ctx_waiting' = user_ctx_waiting - (IF next \in Users THEN 1 ELSE 0)
    /\ run_queue' = Tail(run_queue)
    /\ UNCHANGED <<at, suspended_ctx, user_ctx, terminated, stopped, waitVars, ioVars>>

RunReturns ==
    /\ current_ctx = Idle /\ run_queue = <<>> /\ suspended_ctx = 0
    /\ ~stopped
    /\ stopped' = TRUE
    /\ UNCHANGED <<state, at, run_queue, current_ctx, suspended_ctx, user_ctx,
                   user_ctx_waiting, terminated, waitVars, ioVars>>

End(c, woken) ==
    /\ state' = [d \in Contexts |->
                    IF d = c THEN "FREE"
                    ELSE IF d \in ToSet(woken) THEN "WAITING" ELSE state[d]]
    /\ run_queue' = Ready(woken)
    /\ suspended_ctx' = suspended_ctx - Len(woken)
    /\ user_ctx_waiting' = user_ctx_waiting + Len(woken)
    /\ user_ctx' = IF c \in Users THEN user_ctx - 1 ELSE user_ctx
    /\ current_ctx' = Idle
    /\ terminated' = (terminated \/ user_ctx' = 0)
    /\ UNCHANGED <<at, stopped>>

-----------------------------------------------------------------------------
(* What user threads do. *)

Running(c) == current_ctx = c /\ at[c] = "run"

\* create_context: d is suspended and enqueued at once.
create_context(c, d) ==
    /\ user_ctx < setting.threads
    /\ state[d] = "FREE" /\ \A p \in Users : d \notin ToSet(m_jobs[p])
    /\ state' = [state EXCEPT ![d] = "WAITING"]
    /\ run_queue' = Append(run_queue, d)
    /\ user_ctx' = user_ctx + 1
    /\ user_ctx_waiting' = user_ctx_waiting + 1
    /\ UNCHANGED <<at, current_ctx, suspended_ctx, terminated, stopped>>

CreateThread(c, d) ==
    /\ Running(c)
    /\ create_context(c, d)
    /\ UNCHANGED <<waitVars, ioVars>>

YieldTurn(c) ==
    /\ Running(c)
    /\ yield(c, <<>>, TRUE, "run")
    /\ UNCHANGED <<waitVars, ioVars>>

\* condition::wait, signal and signal_all.
wait(c) ==
    /\ Running(c)
    /\ wait_queue' = Append(wait_queue, c)
    /\ yield(c, <<>>, FALSE, "cond")
    /\ UNCHANGED <<m_jobs, m_done, ioVars>>

signal(c) ==
    /\ Running(c) /\ wait_queue # <<>>
    /\ wait_queue' = Tail(wait_queue)
    /\ GoOn(c, <<Head(wait_queue)>>, "run")
    /\ UNCHANGED <<m_jobs, m_done, ioVars>>

signal_all(c) ==
    /\ Running(c) /\ wait_queue # <<>>
    /\ wait_queue' = <<>>
    /\ GoOn(c, wait_queue, "run")
    /\ UNCHANGED <<m_jobs, m_done, ioVars>>

\* A context that comes back from condition::wait or wait_for.
Resumed(c) ==
    /\ current_ctx = c /\ at[c] \in {"cond", "io"} /\ c \notin holders
    /\ GoOn(c, <<>>, "run")
    /\ UNCHANGED <<waitVars, ioVars>>

\* jobs::run: d runs the job and signals it when it ends.
RunJob(c, d) ==
    /\ Running(c)
    /\ create_context(c, d)
    /\ m_jobs' = [m_jobs EXCEPT ![c] = Append(@, d)]
    /\ m_done' = [m_done EXCEPT ![d] = FALSE]
    /\ UNCHANGED <<wait_queue, ioVars>>

\* jobs::wait, one job per step: it is done, or c yields until it is ("job");
\* "jobs" is the loop between two jobs.
WaitJob(c) ==
    /\ current_ctx = c /\ at[c] \in {"run", "jobs", "job"} /\ m_jobs[c] # <<>>
    /\ \/ /\ m_done[Head(m_jobs[c])]
          /\ m_jobs' = [m_jobs EXCEPT ![c] = Tail(@)]
          /\ GoOn(c, <<>>, IF Len(m_jobs[c]) = 1 THEN "run" ELSE "jobs")
       \/ /\ ~m_done[Head(m_jobs[c])]
          /\ yield(c, <<>>, FALSE, "job")
          /\ UNCHANGED m_jobs
    /\ UNCHANGED <<wait_queue, m_done, ioVars>>

\* Those in the wait queue of the job that c runs (job::signal).
JobWaiters_None(c) == <<>>

JobWaiters(c) ==
    LET waits == {p \in Users : /\ at[p] = "job" /\ state[p] = "SUSPENDED"
                                /\ Head(m_jobs[p]) = c}
    IN  IF waits = {} THEN <<>> ELSE <<CHOOSE p \in waits : TRUE>>

EndThread(c) ==
    /\ Running(c) /\ m_jobs[c] = <<>>
    /\ m_done' = [m_done EXCEPT ![c] = TRUE]
    /\ End(c, JobWaiters(c))
    /\ UNCHANGED <<wait_queue, m_jobs, ioVars>>

-----------------------------------------------------------------------------
(* Requests *)

\* queue_flow::resource of a channel: c takes it, or waits for it.
AcquireChannel(c) ==
    /\ current_ctx = c /\ at[c] \in {"run", "channel wait"}
    /\ \/ /\ Cardinality(holders) # setting.channel
          /\ holders' = holders \cup {c}
          /\ GoOn(c, <<>>, "channel")
          /\ UNCHANGED channel_queue
       \/ /\ Cardinality(holders) = setting.channel
          /\ channel_queue' = Append(channel_queue, c)
          /\ yield(c, <<>>, FALSE, "channel wait")
          /\ UNCHANGED holders
    /\ UNCHANGED <<waitVars, setting, m_enqueued, flow_queue, submission, link_timeouts,
                   kernelVars, completionVars, last_enqueued>>

\* The request of a channel has returned, and the resource is given back.
ReleaseChannel(c) ==
    /\ current_ctx = c /\ at[c] = "io" /\ c \in holders
    /\ holders' = holders \ {c}
    /\ channel_queue' = <<>>
    /\ GoOn(c, channel_queue, "run")
    /\ UNCHANGED <<waitVars, setting, m_enqueued, flow_queue, submission, link_timeouts,
                   kernelVars, completionVars, last_enqueued>>

\* queue_flow::acquire without a free slot: wait for one.
acquire(c) ==
    /\ current_ctx = c /\ at[c] \in {"run", "channel", "flow", "timeout"}
    /\ m_enqueued = setting.io
    /\ flow_queue' = Append(flow_queue, c)
    /\ yield(c, <<>>, FALSE, IF at[c] = "timeout" THEN "timeout" ELSE "flow")
    /\ UNCHANGED <<waitVars, channelVars, m_enqueued, submission, link_timeouts, kernelVars,
                   completionVars, last_enqueued>>

\* An io request takes a slot and is prepared, and wait_for yields unless a
\* timeout comes first.
Prepare(c, timed) ==
    /\ m_enqueued' = m_enqueued + 1
    /\ submission' = submission \cup {c}
    /\ \/ timed /\ GoOn(c, <<>>, "timeout")
       \/ ~timed /\ yield(c, <<>>, FALSE, "io")
    /\ UNCHANGED <<waitVars, channelVars, flow_queue, link_timeouts, kernelVars, completionVars,
                   last_enqueued>>

Request_IgnoresLimit(c, timed) ==
    /\ current_ctx = c /\ at[c] \in {"run", "channel", "flow"}
    /\ timed => c \in holders /\ setting.timeouts
    /\ Prepare(c, timed)

Request(c, timed) ==
    /\ current_ctx = c /\ at[c] \in {"run", "channel", "flow"}
    /\ timed => c \in holders /\ setting.timeouts
    /\ m_enqueued # setting.io
    /\ Prepare(c, timed)

\* The timeout takes the next slot; the request may have been submitted, and
\* may even be complete, if there was none at first.
add_timeout_to(c) ==
    /\ current_ctx = c /\ at[c] = "timeout"
    /\ m_enqueued # setting.io
    /\ m_enqueued' = m_enqueued + 1
    /\ link_timeouts' = link_timeouts \cup {c}
    /\ yield(c, <<>>, FALSE, "io")
    /\ UNCHANGED <<waitVars, channelVars, flow_queue, submission, kernelVars, completionVars,
                   last_enqueued>>

-----------------------------------------------------------------------------
(* io_uring_thread *)

IoIdle_Stays(c) ==
    /\ current_ctx = Io /\ at[Io] = "run" /\ m_enqueued = 0
    /\ yield(Io, <<>>, TRUE, "run")
    /\ UNCHANGED <<waitVars, ioVars>>

IoIdle(c) ==
    /\ current_ctx = Io /\ at[Io] = "run" /\ m_enqueued = 0
    /\ \/ terminated /\ End(Io, <<>>)
       \/ ~terminated /\ yield(Io, <<>>, TRUE, "run")
    /\ UNCHANGED <<waitVars, ioVars>>

\* io_uring_submit_and_wait, which blocks for a completion when no user context
\* could run meanwhile, and is left out when nothing is new.
CanSleep_Always == TRUE

CanSleep == user_ctx_waiting = 0

\* A timeout is linked to the request before it if that is submitted with it;
\* alone it is refused at once.
Submit ==
    /\ kernel' = kernel \cup submission
    /\ armed' = armed \cup (link_timeouts \cap submission)
    /\ timeouts_done' = timeouts_done + Cardinality(link_timeouts \ submission)
    /\ submission' = {} /\ link_timeouts' = {}
    /\ UNCHANGED <<cancelled, completion>>

NoSubmit == UNCHANGED <<submission, link_timeouts, kernelVars, completionVars>>

IoSubmit_OnlyToSleep(c) ==
    /\ current_ctx = Io /\ at[Io] = "run" /\ m_enqueued # 0
    /\ IF CanSleep THEN Submit ELSE NoSubmit
    /\ GoOn(Io, <<>>, IF CanSleep THEN "sleep" ELSE "reap")
    /\ UNCHANGED <<waitVars, channelVars, m_enqueued, flow_queue, last_enqueued>>

IoSubmit(c) ==
    /\ current_ctx = Io /\ at[Io] = "run" /\ m_enqueued # 0
    /\ IF last_enqueued # m_enqueued \/ CanSleep THEN Submit ELSE NoSubmit
    /\ GoOn(Io, <<>>, IF CanSleep THEN "sleep" ELSE "reap")
    /\ UNCHANGED <<waitVars, channelVars, m_enqueued, flow_queue, last_enqueued>>

InCompletionQueue == Len(completion) + timeouts_done

\* queue_flow::release: count slots are free again, and all that wait for one
\* are taken off the queue to be woken.
release(count) ==
    /\ m_enqueued' = m_enqueued - count
    /\ flow_queue' = <<>>

\* Completed requests wake their contexts, and all slots are released, those of
\* timeouts too.
IoReap(c) ==
    /\ current_ctx = Io
    /\ at[Io] = "reap" \/ (at[Io] = "sleep" /\ InCompletionQueue # 0)
    /\ release(InCompletionQueue)
    /\ last_enqueued' = m_enqueued'
    /\ completion' = <<>> /\ timeouts_done' = 0
    /\ yield(Io, completion \o flow_queue, TRUE, "run")
    /\ UNCHANGED <<waitVars, channelVars, submission, link_timeouts, kernelVars>>

-----------------------------------------------------------------------------
(* The kernel *)

\* A request is complete, and with it its timeout if that has not fired.
Complete(c) ==
    /\ c \in kernel
    /\ kernel' = kernel \ {c} /\ cancelled' = cancelled \ {c} /\ armed' = armed \ {c}
    /\ completion' = Append(completion, c)
    /\ timeouts_done' = timeouts_done + Cardinality(armed \cap {c})
    /\ UNCHANGED <<engineVars, waitVars, channelVars, m_enqueued, flow_queue, submission,
                   link_timeouts, last_enqueued>>

\* The time of a timeout is over: it is complete, and its request is cancelled.
Expire(c) ==
    /\ c \in armed
    /\ armed' = armed \ {c} /\ cancelled' = cancelled \cup {c}
    /\ timeouts_done' = timeouts_done + 1
    /\ UNCHANGED <<engineVars, waitVars, channelVars, m_enqueued, flow_queue, submission,
                   link_timeouts, kernel, completion, last_enqueued>>

-----------------------------------------------------------------------------

UserStep(c) ==
    \/ \E d \in Users : CreateThread(c, d) \/ RunJob(c, d)
    \/ YieldTurn(c) \/ wait(c) \/ signal(c) \/ signal_all(c) \/ Resumed(c)
    \/ WaitJob(c) \/ EndThread(c)
    \/ AcquireChannel(c) \/ ReleaseChannel(c) \/ acquire(c)
    \/ (\E timed \in BOOLEAN : Request(c, timed)) \/ add_timeout_to(c)

CpuStep ==
    \/ RunNext \/ RunReturns
    \/ \E c \in Users : UserStep(c)
    \/ \E c \in {Io} : IoIdle(c) \/ IoSubmit(c) \/ IoReap(c)

GtNext ==
    \/ CpuStep
    \/ \E c \in Users : Complete(c) \/ Expire(c)

\* The OS thread keeps running.  The kernel completes the requests of files and
\* what has been cancelled, and timeouts fire; the peer of a channel may never
\* answer.
GtSpec ==
    /\ GtInit
    /\ [][GtNext]_gtVars
    /\ WF_gtVars(CpuStep)
    /\ \A c \in Users :
          /\ WF_gtVars((c \notin holders \/ c \in cancelled) /\ Complete(c))
          /\ WF_gtVars(Expire(c))

-----------------------------------------------------------------------------
(* Properties. *)

In(s) == {c \in Contexts : state[c] = s}

\* enqueue asserts that a context is suspended: none is in the run queue twice.
EnqueuedOnce == IsInjective(run_queue)

InFlight == submission \cup kernel \cup ToSet(completion)

\* Nobody is woken twice and nobody is lost: the run queue holds the WAITING
\* contexts once each, and every suspended context is in exactly one place that
\* will wake it (so enqueue's assertion, state == SUSPENDED, holds).
OnePlaceEach ==
    /\ EnqueuedOnce /\ ToSet(run_queue) = In("WAITING")
    /\ In("RUNNING") = {current_ctx} \ {Idle}
    /\ IsInjective(wait_queue) /\ IsInjective(flow_queue)
    /\ IsInjective(channel_queue) /\ IsInjective(completion)
    /\ \A c \in In("SUSPENDED") :
          /\ c \in Users
          /\ c \in ToSet(wait_queue) <=> at[c] = "cond"
          /\ c \in ToSet(channel_queue) <=> at[c] = "channel wait"
          /\ c \in ToSet(flow_queue) <=> at[c] \in {"flow", "timeout"}
          /\ c \in InFlight <=> at[c] = "io"
          /\ at[c] = "job" => m_jobs[c] # <<>> /\ ~m_done[Head(m_jobs[c])]
          /\ at[c] # "run"
    /\ ToSet(wait_queue) \cup ToSet(flow_queue) \cup ToSet(channel_queue)
          \cup (InFlight \ {c \in Users : current_ctx = c /\ at[c] = "timeout"})
       \subseteq In("SUSPENDED")

\* The io thread blocks in the kernel only when no user thread could run, and
\* only when everything prepared is submitted, requests with their timeouts.
SleepsOnlyWhenIdle ==
    at[Io] = "sleep" =>
        /\ In("WAITING") = {}
        /\ submission = {} /\ link_timeouts = {}
        /\ kernel # {} \/ InCompletionQueue # 0

\* The queue never holds more requests and timeouts than it has slots
\* (io_uring_get_sqe never fails), no slot leaks, and nobody waits for a slot
\* while nothing is in flight that would wake it, nor for a channel's resource
\* that is free.
SlotsAccountedFor ==
    /\ m_enqueued = Cardinality(submission) + Cardinality(link_timeouts)
                       + Cardinality(kernel) + Cardinality(armed) + InCompletionQueue
    /\ m_enqueued <= setting.io
    /\ flow_queue # <<>> => m_enqueued > 0
    /\ channel_queue # <<>> => Cardinality(holders) = setting.channel

\* A request that does not depend on a peer, or that was given a timeout, is
\* submitted, completes or is cancelled, and returns to its thread, though peers
\* may never answer.
RequestsReturn ==
    \A c \in Users :
        (at[c] = "io" /\ (c \notin holders \/ c \in link_timeouts \cup armed)) ~> at[c] = "run"

\* Once the last user thread has ended, the io thread ends and run() returns.
RunEnds == (user_ctx = 0) ~> stopped

=============================================================================
