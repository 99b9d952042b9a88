------------------------------- MODULE GtProofs -------------------------------
(***************************************************************************)
(* Proofs about Gt for every number of contexts and every program that     *)
(* has slots enough for its timeouts: nobody is woken twice or lost, no    *)
(* slot leaks, and the io thread sleeps only when nobody could run.  And   *)
(* about SlabList, on which the lists of gt are built, for every size of a *)
(* slab and every number of slabs: it is a sequence of distinct entries.   *)
(***************************************************************************)
EXTENDS Gt, SlabList, ListTheorems

\* A request with a timeout always finds a second slot: there are slots for one
\* request of every thread and one timeout of every channel resource.
RoomForTimeouts ==
    \A s \in Settings :
        s.timeouts => Len(Started) <= s.threads /\ s.threads + s.channel <= s.io

(* The engine. *)

UserLabels == {"run", "cond", "jobs", "job", "channel wait", "channel", "flow", "timeout", "io"}

\* The run queue holds the WAITING contexts once each, the one context that runs
\* is current_ctx, and the counters count.
EngineInv ==
    /\ state \in [Contexts -> {"FREE", "WAITING", "RUNNING", "SUSPENDED"}]
    /\ at \in [Contexts -> UserLabels \cup {"sleep", "reap"}]
    /\ current_ctx \in Contexts \cup {Idle}
    /\ run_queue \in Seq(Contexts) /\ IsInjective(run_queue)
    /\ \A c \in Contexts : c \in ToSet(run_queue) <=> state[c] = "WAITING"
    /\ \A c \in Contexts : state[c] = "RUNNING" <=> c = current_ctx
    /\ state[Io] # "SUSPENDED"
    /\ user_ctx_waiting = Cardinality({c \in Users : state[c] = "WAITING"})
    /\ user_ctx = Cardinality({c \in Users : state[c] # "FREE"})

\* The queues of the conditions hold a context once, and requests are in one
\* stage each.
QueueTypes ==
    /\ wait_queue \in Seq(Users) /\ IsInjective(wait_queue)
    /\ channel_queue \in Seq(Users) /\ IsInjective(channel_queue)
    /\ flow_queue \in Seq(Users) /\ IsInjective(flow_queue)
    /\ completion \in Seq(Users) /\ IsInjective(completion)
    /\ m_jobs \in [Users -> Seq(Users)]
    /\ m_done \in [Users -> BOOLEAN]
    /\ submission \subseteq Users /\ kernel \subseteq Users
    /\ submission \cap kernel = {}
    /\ ToSet(completion) \cap (submission \cup kernel) = {}

Suspended(c) == state[c] = "SUSPENDED"

\* Where a context is follows from what it waits for.
PlaceInv ==
    \A c \in Users :
        /\ c \in ToSet(wait_queue) <=> Suspended(c) /\ at[c] = "cond"
        /\ c \in ToSet(channel_queue) <=> Suspended(c) /\ at[c] = "channel wait"
        /\ c \in ToSet(flow_queue) <=> Suspended(c) /\ at[c] = "flow"
        /\ c \in InFlight <=> (Suspended(c) /\ at[c] = "io") \/ at[c] = "timeout"
        /\ Suspended(c) => at[c] \in {"cond", "channel wait", "flow", "io", "job"}
        /\ at[c] \in {"timeout", "channel", "jobs"} => current_ctx = c
        /\ state[c] = "FREE" => at[c] = "run"

\* A job has one owner, which sleeps only while the job is not done.
JobInv ==
    /\ \A c \in Users :
          Suspended(c) /\ at[c] = "job" => m_jobs[c] # <<>> /\ ~m_done[Head(m_jobs[c])]
    /\ \A c, d \in Users : c # d => ToSet(m_jobs[c]) \cap ToSet(m_jobs[d]) = {}

\* Requests of channels whose timeout is neither waiting to be submitted nor
\* armed: it may be in the completion queue.
MayHaveFired == {c \in holders : c \in kernel \cup ToSet(completion) /\ c \notin armed}

\* Timeouts belong to requests of the holders of a channel's resource, and are
\* prepared before their request is submitted.
TimeoutInv ==
    /\ setting \in Settings
    /\ holders \subseteq Users /\ Cardinality(holders) <= setting.channel
    /\ \A c \in holders : at[c] \in {"channel", "flow", "timeout", "io"}
    /\ \A c \in Users : at[c] = "timeout" =>
          setting.timeouts /\ c \in holders /\ c \in submission \ link_timeouts
    /\ link_timeouts \subseteq submission \cap holders
    /\ armed \subseteq kernel \cap holders
    /\ timeouts_done \in Nat /\ timeouts_done <= Cardinality(MayHaveFired)
    /\ link_timeouts # {} => setting.timeouts
    /\ setting.timeouts => user_ctx <= setting.threads

\* The io thread sleeps in its turn only.
IoInv ==
    /\ at[Io] \in {"run", "sleep", "reap"}
    /\ at[Io] # "run" => current_ctx = Io

GtInv ==
    /\ EngineInv /\ QueueTypes /\ PlaceInv /\ JobInv /\ TimeoutInv /\ IoInv
    /\ SlotsAccountedFor /\ SleepsOnlyWhenIdle

-----------------------------------------------------------------------------
(* Cardinalities. *)

\* Sets of user contexts are finite.
LEMMA UsersFinite ==
    ASSUME NEW A, A \subseteq Users
    PROVE  /\ IsFiniteSet(A) /\ Cardinality(A) \in Nat
           /\ Cardinality(A) = 0 <=> A = {}
    <1>1. IsFiniteSet(A)
        BY ContextsAssumption, FS_Subset
    <1> QED BY <1>1, FS_CardinalityType, FS_EmptySet

-----------------------------------------------------------------------------
(* engine::enqueue and engine::yield *)

AllLabels == UserLabels \cup {"sleep", "reap"}

\* What can be woken: suspended user contexts, each once.
Wakeable(woken) ==
    /\ woken \in Seq(Users) /\ IsInjective(woken)
    /\ \A d \in ToSet(woken) : state[d] = "SUSPENDED"

LEMMA NobodyWoken == Wakeable(<<>>) /\ ToSet(<<>>) = {} /\ Len(<<>>) = 0
    BY ShortSeqs DEF Wakeable

\* The run queue with the woken contexts.
LEMMA ReadyShape ==
    ASSUME EngineInv, NEW woken, Wakeable(woken)
    PROVE  /\ Ready(woken) \in Seq(Contexts) /\ IsInjective(Ready(woken))
           /\ \A d \in Contexts :
                 d \in ToSet(Ready(woken)) <=> state[d] = "WAITING" \/ d \in ToSet(woken)
           /\ ToSet(woken) \subseteq Users /\ woken \in Seq(Contexts)
           /\ LET W == {d \in Users : state[d] = "WAITING"}
              IN  /\ IsFiniteSet(W \cup ToSet(woken))
                  /\ Cardinality(W \cup ToSet(woken)) = user_ctx_waiting + Len(woken)
                  /\ user_ctx_waiting \in Nat /\ Len(woken) \in Nat
    <1>1. /\ run_queue \in Seq(Contexts) /\ IsInjective(run_queue)
          /\ \A d \in Contexts : d \in ToSet(run_queue) <=> state[d] = "WAITING"
          /\ woken \in Seq(Users) /\ IsInjective(woken)
          /\ \A d \in ToSet(woken) : state[d] = "SUSPENDED"
        BY DEF EngineInv, Wakeable
    <1>2. woken \in Seq(Contexts)
        BY <1>1, SeqMonotonic DEF Contexts
    <1>3. ToSet(woken) \subseteq Users /\ ToSet(run_queue) \subseteq Contexts
        BY <1>1, InToSet
    <1>4. ToSet(run_queue) \cap ToSet(woken) = {}
        BY <1>1, <1>3
    <1>5. /\ run_queue \o woken \in Seq(Contexts)
          /\ ToSet(run_queue \o woken) = ToSet(run_queue) \cup ToSet(woken)
          /\ IsInjective(run_queue \o woken)
        BY <1>1, <1>2, <1>4, ConcatSet
    <1> DEFINE W == {d \in Users : state[d] = "WAITING"}
    <1>6. /\ IsFiniteSet(W) /\ IsFiniteSet(ToSet(woken)) /\ W \cap ToSet(woken) = {}
          /\ Cardinality(ToSet(woken)) = Len(woken)
        BY <1>1, UsersFinite, InjectiveLen
    <1>7. user_ctx_waiting = Cardinality(W)
        BY DEF EngineInv
    <1> HIDE DEF W
    <1>8. /\ IsFiniteSet(W \cup ToSet(woken))
          /\ Cardinality(W \cup ToSet(woken)) = user_ctx_waiting + Len(woken)
          /\ user_ctx_waiting \in Nat /\ Len(woken) \in Nat
        BY <1>6, <1>7, CardDisjoint
    <1> QED BY <1>1, <1>2, <1>3, <1>5, <1>8 DEF Ready, W

\* enqueue of several contexts by one that goes on.
LEMMA GoOnShape ==
    ASSUME EngineInv, NEW c \in Contexts, NEW woken, Wakeable(woken),
           NEW label \in AllLabels, GoOn(c, woken, label)
    PROVE  /\ EngineInv'
           /\ at' = [at EXCEPT ![c] = label]
           /\ UNCHANGED <<current_ctx, user_ctx>>
           /\ \A d \in Contexts :
                 state'[d] = IF d \in ToSet(woken) THEN "WAITING" ELSE state[d]
    <1>1. /\ state' = [d \in Contexts |-> IF d \in ToSet(woken) THEN "WAITING" ELSE state[d]]
          /\ run_queue' = Ready(woken)
          /\ user_ctx_waiting' = user_ctx_waiting + Len(woken)
          /\ at' = [at EXCEPT ![c] = label]
          /\ UNCHANGED <<current_ctx, user_ctx>>
        BY DEF GoOn
    <1>2. /\ Ready(woken) \in Seq(Contexts) /\ IsInjective(Ready(woken))
          /\ \A d \in Contexts :
                d \in ToSet(Ready(woken)) <=> state[d] = "WAITING" \/ d \in ToSet(woken)
          /\ ToSet(woken) \subseteq Users
          /\ Cardinality({d \in Users : state[d] = "WAITING"} \cup ToSet(woken))
                = user_ctx_waiting + Len(woken)
        BY ReadyShape
    <1>3. \A d \in ToSet(woken) : state[d] = "SUSPENDED"
        BY DEF Wakeable
    <1>4. {d \in Users : state'[d] = "WAITING"}
             = {d \in Users : state[d] = "WAITING"} \cup ToSet(woken)
        BY <1>1, <1>2 DEF Contexts
    <1>5. {d \in Users : state'[d] # "FREE"} = {d \in Users : state[d] # "FREE"}
        BY <1>1, <1>2, <1>3 DEF Contexts
    <1>6. at' \in [Contexts -> AllLabels] /\ state' \in [Contexts -> {"FREE", "WAITING", "RUNNING", "SUSPENDED"}]
        BY <1>1 DEF EngineInv, AllLabels
    <1>7. \A d \in Contexts : d \in ToSet(run_queue') <=> state'[d] = "WAITING"
        BY <1>1, <1>2
    <1>8. \A d \in Contexts : state'[d] = "RUNNING" <=> d = current_ctx'
        BY <1>1, <1>3 DEF EngineInv
    <1>9. state'[Io] # "SUSPENDED"
        BY <1>1 DEF EngineInv, Contexts
    <1>10. user_ctx_waiting' = Cardinality({d \in Users : state'[d] = "WAITING"})
        BY <1>1, <1>2, <1>4
    <1>11. user_ctx' = Cardinality({d \in Users : state'[d] # "FREE"})
        BY <1>1, <1>5 DEF EngineInv
    <1>12. EngineInv'
        BY <1>1, <1>2, <1>6, <1>7, <1>8, <1>9, <1>10, <1>11 DEF EngineInv, AllLabels
    <1> QED BY <1>1, <1>12

\* engine::yield of the context that runs.
LEMMA YieldShape ==
    ASSUME EngineInv, NEW c \in Contexts, current_ctx = c, NEW woken, Wakeable(woken),
           NEW again \in BOOLEAN, again \/ c \in Users,
           NEW label \in AllLabels, yield(c, woken, again, label)
    PROVE  /\ EngineInv'
           /\ at' = [at EXCEPT ![c] = label]
           /\ user_ctx' = user_ctx
           /\ \A d \in Contexts : state'[d] = "FREE" <=> state[d] = "FREE"
           /\ \A d \in Contexts :
                 state'[d] = "SUSPENDED" <=>
                     IF d = c THEN ~again ELSE state[d] = "SUSPENDED" /\ d \notin ToSet(woken)
           /\ current_ctx' # c
    <1> DEFINE ready == Ready(woken)
               me == IF again THEN <<c>> ELSE <<>>
               queue == ready \o me
               next == IF ready = <<>> THEN Idle ELSE Head(ready)
               W == {d \in Users : state[d] = "WAITING"}
               V == W \cup ToSet(woken)
    <1>1. /\ state' = [d \in Contexts |->
                          IF d = next THEN "RUNNING"
                          ELSE IF d = c THEN IF again THEN "WAITING" ELSE "SUSPENDED"
                          ELSE IF d \in ToSet(woken) THEN "WAITING" ELSE state[d]]
          /\ run_queue' = IF next = Idle THEN queue ELSE Tail(queue)
          /\ current_ctx' = next
          /\ user_ctx_waiting' = user_ctx_waiting + Len(woken)
                                    + (IF again /\ c \in Users THEN 1 ELSE 0)
                                    - (IF next \in Users THEN 1 ELSE 0)
          /\ at' = [at EXCEPT ![c] = label]
          /\ user_ctx' = user_ctx
        BY DEF yield
    <1>2. /\ ready \in Seq(Contexts) /\ IsInjective(ready)
          /\ \A d \in Contexts : d \in ToSet(ready) <=> state[d] = "WAITING" \/ d \in ToSet(woken)
          /\ ToSet(woken) \subseteq Users
          /\ IsFiniteSet(V) /\ Cardinality(V) = user_ctx_waiting + Len(woken)
          /\ user_ctx_waiting \in Nat /\ Len(woken) \in Nat
        BY ReadyShape
    <1>3. /\ \A d \in ToSet(woken) : state[d] = "SUSPENDED"
          /\ state[c] = "RUNNING"
          /\ \A d \in Contexts : state[d] = "RUNNING" => d = c
          /\ state \in [Contexts -> {"FREE", "WAITING", "RUNNING", "SUSPENDED"}]
          /\ state[Io] # "SUSPENDED"
          /\ Idle \notin Contexts /\ Io \notin Users
        BY ContextsAssumption DEF Wakeable, EngineInv, Contexts
    <1>4. me \in Seq(Contexts) /\ IsInjective(me) /\ ToSet(me) = IF again THEN {c} ELSE {}
        BY ShortSeqs
    <1>5. c \notin ToSet(ready) /\ ToSet(ready) \subseteq Contexts
        BY <1>2, <1>3, InToSet
    <1> HIDE DEF ready, me
    <1>6. /\ queue \in Seq(Contexts) /\ IsInjective(queue)
          /\ ToSet(queue) = ToSet(ready) \cup ToSet(me)
        <2>1. ToSet(ready) \cap ToSet(me) = {}
            BY <1>4, <1>5
        <2> QED BY <1>2, <1>4, <2>1, ConcatSet
    <1>7. CASE ready = <<>>
        <2>1. next = Idle /\ ToSet(ready) = {}
            BY <1>7, ShortSeqs
        <2>2. /\ run_queue' = queue /\ current_ctx' = Idle
              /\ \A d \in Contexts : state'[d] = IF d = c THEN IF again THEN "WAITING" ELSE "SUSPENDED"
                                                          ELSE state[d]
              /\ DOMAIN state' = Contexts
            BY <1>1, <1>2, <1>3, <2>1
        <2>3. state' \in [Contexts -> {"FREE", "WAITING", "RUNNING", "SUSPENDED"}]
            BY <1>1, <1>3
        <2>4. \A d \in Contexts : d \in ToSet(run_queue') <=> state'[d] = "WAITING"
            BY <1>2, <1>3, <1>4, <1>6, <2>1, <2>2
        <2>5. \A d \in Contexts : state'[d] = "RUNNING" <=> d = current_ctx'
            BY <1>3, <2>2
        <2>6. state'[Io] # "SUSPENDED"
            BY <1>3, <2>2 DEF Contexts
        <2>7. V = {}
            BY <1>2, <2>1 DEF Contexts
        <2>8. {d \in Users : state'[d] = "WAITING"} = IF again /\ c \in Users THEN {c} ELSE {}
            BY <1>2, <2>1, <2>2 DEF Contexts
        <2>9. user_ctx_waiting' = Cardinality({d \in Users : state'[d] = "WAITING"})
            <3>0. user_ctx_waiting' = 0 + (IF again /\ c \in Users THEN 1 ELSE 0)
                <4>1. user_ctx_waiting + Len(woken) = 0
                    BY <1>2, <2>7, FS_EmptySet
                <4>2. next \notin Users
                    BY <1>3, <2>1 DEF Contexts
                <4> HIDE DEF next
                <4> QED BY <1>1, <1>2, <4>1, <4>2
            <3>1. CASE again /\ c \in Users
                <4>1. {d \in Users : state'[d] = "WAITING"} = {c}
                    BY <2>8, <3>1
                <4>2. Cardinality({c}) = 1
                    BY FS_Singleton
                <4>3. user_ctx_waiting' = 1
                    BY <3>0, <3>1
                <4> QED BY <4>1, <4>2, <4>3
            <3>2. CASE ~(again /\ c \in Users)
                BY <2>8, <3>0, <3>2, FS_EmptySet
            <3> QED BY <3>1, <3>2
        <2>10. {d \in Users : state'[d] # "FREE"} = {d \in Users : state[d] # "FREE"}
            BY <1>3, <2>2 DEF Contexts
        <2>11. EngineInv'
            <3>1. at' \in [Contexts -> UserLabels \cup {"sleep", "reap"}]
                BY <1>1 DEF EngineInv, AllLabels
            <3>2. user_ctx' = Cardinality({d \in Users : state'[d] # "FREE"})
                BY <1>1, <2>10 DEF EngineInv
            <3>3. run_queue' \in Seq(Contexts) /\ IsInjective(run_queue') /\ current_ctx' \in Contexts \cup {Idle}
                BY <1>6, <2>2
            <3> QED BY <2>3, <2>4, <2>5, <2>6, <2>9, <3>1, <3>2, <3>3 DEF EngineInv
        <2>12. \A d \in Contexts : d \notin ToSet(woken)
            BY <1>2, <2>1
        <2>13. current_ctx' # c
            BY <1>3, <2>2
        <2> QED BY <1>1, <1>3, <2>2, <2>11, <2>12, <2>13
    <1>8. CASE ready # <<>>
        <2>1. next = Head(ready) /\ next \in ToSet(ready) /\ next \in Contexts
            BY <1>2, <1>8, TailSet
        <2>2. next # Idle /\ next # c /\ (state[next] = "WAITING" \/ next \in ToSet(woken))
            BY <1>2, <1>3, <1>5, <2>1
        <2>3. queue # <<>> /\ Head(queue) = next
            BY <1>2, <1>4, <1>8, <2>1, TailOfConcat
        <2>4. /\ run_queue' = Tail(queue)
              /\ run_queue' \in Seq(Contexts) /\ IsInjective(run_queue')
              /\ ToSet(run_queue') = ToSet(queue) \ {next}
            <3> HIDE DEF queue, next
            <3> QED BY <1>1, <1>6, <2>2, <2>3, TailSet
        <2> HIDE DEF next
        <2>5. /\ current_ctx' = next /\ DOMAIN state' = Contexts
              /\ \A d \in Contexts : state'[d] =
                    IF d = next THEN "RUNNING"
                    ELSE IF d = c THEN IF again THEN "WAITING" ELSE "SUSPENDED"
                    ELSE IF d \in ToSet(woken) THEN "WAITING" ELSE state[d]
            BY <1>1
        <2>6. state' \in [Contexts -> {"FREE", "WAITING", "RUNNING", "SUSPENDED"}]
            BY <1>1, <1>3
        <2>7. \A d \in Contexts : d \in ToSet(run_queue') <=> state'[d] = "WAITING"
            BY <1>2, <1>3, <1>4, <1>6, <2>2, <2>4, <2>5
        <2>8. \A d \in Contexts : state'[d] = "RUNNING" <=> d = current_ctx'
            BY <1>3, <2>5
        <2>9. state'[Io] # "SUSPENDED"
            BY <1>3, <2>5 DEF Contexts
        <2>10. {d \in Users : state'[d] = "WAITING"}
                  = (V \cup (IF again /\ c \in Users THEN {c} ELSE {})) \ {next}
            BY <1>2, <1>3, <2>5 DEF Contexts
        <2>11. c \notin V
            BY <1>3
        <2>12. next \in Users => next \in V
            BY <2>2
        <2>13. user_ctx_waiting' = Cardinality({d \in Users : state'[d] = "WAITING"})
            <3> HIDE DEF V
            <3> DEFINE U == V \cup (IF again /\ c \in Users THEN {c} ELSE {})
            <3>1. /\ IsFiniteSet(U)
                  /\ Cardinality(U) = Cardinality(V) + (IF again /\ c \in Users THEN 1 ELSE 0)
                <4>1. CASE again /\ c \in Users
                    BY <1>2, <2>11, <4>1, FS_AddElement
                <4>2. CASE ~(again /\ c \in Users)
                    <5>1. U = V
                        BY <4>2
                    <5>2. Cardinality(V) \in Nat
                        BY <1>2, FS_CardinalityType
                    <5> HIDE DEF U
                    <5> QED BY <1>2, <4>2, <5>1, <5>2
                <4> QED BY <4>1, <4>2
            <3>2. next \in Users <=> next \in U
                BY <1>2, <2>2, <2>12 DEF V, W
            <3>3. Cardinality(U) \in Nat
                BY <3>1, FS_CardinalityType
            <3> HIDE DEF U
            <3>4. Cardinality(U \ {next}) = Cardinality(U) - (IF next \in Users THEN 1 ELSE 0)
                <4>1. Cardinality(U \ {next}) =
                         IF next \in U THEN Cardinality(U) - 1 ELSE Cardinality(U)
                    BY <3>1, FS_RemoveElement
                <4> QED BY <3>2, <3>3, <4>1
            <3>5. {d \in Users : state'[d] = "WAITING"} = U \ {next}
                BY <2>10 DEF U
            <3>6. Cardinality(U) = user_ctx_waiting + Len(woken)
                                      + (IF again /\ c \in Users THEN 1 ELSE 0)
                BY <1>2, <3>1
            <3>7. user_ctx_waiting' = Cardinality(U) - (IF next \in Users THEN 1 ELSE 0)
                BY <1>1, <1>2, <3>6
            <3> QED BY <3>4, <3>5, <3>7
        <2>14. {d \in Users : state'[d] # "FREE"} = {d \in Users : state[d] # "FREE"}
            BY <1>3, <2>2, <2>5 DEF Contexts
        <2>15. EngineInv'
            <3>1. at' \in [Contexts -> UserLabels \cup {"sleep", "reap"}]
                BY <1>1 DEF EngineInv, AllLabels
            <3>2. user_ctx' = Cardinality({d \in Users : state'[d] # "FREE"})
                BY <1>1, <2>14 DEF EngineInv
            <3>3. current_ctx' \in Contexts \cup {Idle}
                BY <2>1, <2>5
            <3> QED BY <2>4, <2>6, <2>7, <2>8, <2>9, <2>13, <3>1, <3>2, <3>3 DEF EngineInv
        <2>16. /\ \A d \in Contexts : state'[d] = "FREE" <=> state[d] = "FREE"
               /\ \A d \in Contexts :
                     state'[d] = "SUSPENDED" <=>
                        IF d = c THEN ~again ELSE state[d] = "SUSPENDED" /\ d \notin ToSet(woken)
            BY <1>2, <1>3, <2>2, <2>5
        <2> QED BY <1>1, <2>2, <2>5, <2>15, <2>16
    <1> QED BY <1>7, <1>8

\* yield of a context that is to run again.
LEMMA YieldAgain ==
    ASSUME EngineInv, NEW c \in Contexts, current_ctx = c, NEW woken, Wakeable(woken),
           NEW label \in AllLabels, yield(c, woken, TRUE, label)
    PROVE  /\ EngineInv'
           /\ at' = [at EXCEPT ![c] = label]
           /\ user_ctx' = user_ctx
           /\ \A d \in Contexts : state'[d] = "FREE" <=> state[d] = "FREE"
           /\ \A d \in Contexts :
                 state'[d] = "SUSPENDED" <=>
                     d # c /\ state[d] = "SUSPENDED" /\ d \notin ToSet(woken)
    <1>1. /\ EngineInv'
          /\ at' = [at EXCEPT ![c] = label]
          /\ user_ctx' = user_ctx
          /\ \A d \in Contexts : state'[d] = "FREE" <=> state[d] = "FREE"
          /\ \A d \in Contexts :
                state'[d] = "SUSPENDED" <=>
                    IF d = c THEN ~TRUE ELSE state[d] = "SUSPENDED" /\ d \notin ToSet(woken)
          /\ current_ctx' # c
        <2>1. TRUE \in BOOLEAN /\ (TRUE \/ c \in Users)
            OBVIOUS
        <2> QED BY <2>1, YieldShape, ZenonT(30)
    <1> QED BY <1>1

\* A context ends and is free again.
LEMMA EndShape ==
    ASSUME EngineInv, NEW c \in Contexts, current_ctx = c, NEW woken, Wakeable(woken),
           End(c, woken)
    PROVE  /\ EngineInv'
           /\ at' = at
           /\ user_ctx' <= user_ctx
           /\ \A d \in Contexts :
                 state'[d] = IF d = c THEN "FREE"
                             ELSE IF d \in ToSet(woken) THEN "WAITING" ELSE state[d]
           /\ current_ctx' = Idle
    <1>1. /\ state' = [d \in Contexts |->
                          IF d = c THEN "FREE"
                          ELSE IF d \in ToSet(woken) THEN "WAITING" ELSE state[d]]
          /\ run_queue' = Ready(woken)
          /\ user_ctx_waiting' = user_ctx_waiting + Len(woken)
          /\ user_ctx' = IF c \in Users THEN user_ctx - 1 ELSE user_ctx
          /\ current_ctx' = Idle
          /\ at' = at
        BY DEF End
    <1>2. /\ Ready(woken) \in Seq(Contexts) /\ IsInjective(Ready(woken))
          /\ \A d \in Contexts :
                d \in ToSet(Ready(woken)) <=> state[d] = "WAITING" \/ d \in ToSet(woken)
          /\ ToSet(woken) \subseteq Users
          /\ Cardinality({d \in Users : state[d] = "WAITING"} \cup ToSet(woken))
                = user_ctx_waiting + Len(woken)
        BY ReadyShape
    <1>3. /\ \A d \in ToSet(woken) : state[d] = "SUSPENDED"
          /\ state[c] = "RUNNING"
          /\ state \in [Contexts -> {"FREE", "WAITING", "RUNNING", "SUSPENDED"}]
          /\ \A d \in Contexts : state[d] = "RUNNING" => d = c
          /\ Idle \notin Contexts
        BY ContextsAssumption DEF Wakeable, EngineInv, Contexts
    <1>4. {d \in Users : state'[d] = "WAITING"}
             = {d \in Users : state[d] = "WAITING"} \cup ToSet(woken)
        BY <1>1, <1>2, <1>3 DEF Contexts
    <1> DEFINE L == {d \in Users : state[d] # "FREE"}
    <1>5. {d \in Users : state'[d] # "FREE"} = L \ {c}
        BY <1>1, <1>2, <1>3 DEF Contexts
    <1>6. user_ctx' = Cardinality(L \ {c}) /\ user_ctx' <= user_ctx
        <2>1. user_ctx = Cardinality(L) /\ IsFiniteSet(L) /\ Cardinality(L) \in Nat
            BY UsersFinite DEF EngineInv
        <2>2. c \in L <=> c \in Users
            BY <1>3
        <2> HIDE DEF L
        <2>3. Cardinality(L \ {c}) = IF c \in L THEN Cardinality(L) - 1 ELSE Cardinality(L)
            BY <2>1, FS_RemoveElement
        <2> QED BY <1>1, <2>1, <2>2, <2>3
    <1>7. state' \in [Contexts -> {"FREE", "WAITING", "RUNNING", "SUSPENDED"}]
        BY <1>1, <1>3
    <1>8. \A d \in Contexts : d \in ToSet(run_queue') <=> state'[d] = "WAITING"
        BY <1>1, <1>2, <1>3
    <1>9. \A d \in Contexts : state'[d] = "RUNNING" <=> d = current_ctx'
        BY <1>1, <1>3
    <1>10. state'[Io] # "SUSPENDED"
        BY <1>1 DEF EngineInv, Contexts
    <1>11. EngineInv'
        BY <1>1, <1>2, <1>4, <1>5, <1>6, <1>7, <1>8, <1>9, <1>10 DEF EngineInv
    <1> QED BY <1>1, <1>6, <1>11

\* A new context is enqueued at once.
LEMMA CreateShape ==
    ASSUME EngineInv, NEW c \in Users, NEW d \in Users, create_context(c, d)
    PROVE  /\ EngineInv'
           /\ UNCHANGED <<at, current_ctx>>
           /\ user_ctx' = user_ctx + 1 /\ user_ctx < setting.threads
           /\ state[d] = "FREE"
           /\ \A e \in Contexts : state'[e] = IF e = d THEN "WAITING" ELSE state[e]
    <1>1. /\ state[d] = "FREE" /\ user_ctx < setting.threads
          /\ state' = [state EXCEPT ![d] = "WAITING"]
          /\ run_queue' = Append(run_queue, d)
          /\ user_ctx' = user_ctx + 1
          /\ user_ctx_waiting' = user_ctx_waiting + 1
          /\ UNCHANGED <<at, current_ctx>>
        BY DEF create_context
    <1>2. /\ run_queue \in Seq(Contexts) /\ IsInjective(run_queue) /\ d \in Contexts
          /\ \A e \in Contexts : e \in ToSet(run_queue) <=> state[e] = "WAITING"
          /\ d \notin ToSet(run_queue)
        BY <1>1 DEF EngineInv, Contexts
    <1>3. /\ run_queue' \in Seq(Contexts) /\ IsInjective(run_queue')
          /\ ToSet(run_queue') = ToSet(run_queue) \cup {d}
        BY <1>1, <1>2, AppendSet
    <1>4. /\ \A e \in Contexts : state'[e] = IF e = d THEN "WAITING" ELSE state[e]
          /\ state' \in [Contexts -> {"FREE", "WAITING", "RUNNING", "SUSPENDED"}]
        BY <1>1 DEF EngineInv
    <1>5. \A e \in Contexts : e \in ToSet(run_queue') <=> state'[e] = "WAITING"
        BY <1>2, <1>3, <1>4
    <1>6. \A e \in Contexts : state'[e] = "RUNNING" <=> e = current_ctx'
        BY <1>1, <1>4 DEF EngineInv
    <1>7. state'[Io] # "SUSPENDED"
        BY <1>4 DEF EngineInv, Contexts
    <1> DEFINE W == {e \in Users : state[e] = "WAITING"}
               L == {e \in Users : state[e] # "FREE"}
    <1>8. /\ {e \in Users : state'[e] = "WAITING"} = W \cup {d}
          /\ {e \in Users : state'[e] # "FREE"} = L \cup {d}
          /\ d \notin W /\ d \notin L
        BY <1>1, <1>4 DEF Contexts
    <1>9. /\ IsFiniteSet(W) /\ IsFiniteSet(L)
          /\ user_ctx_waiting = Cardinality(W) /\ user_ctx = Cardinality(L)
        BY UsersFinite DEF EngineInv
    <1> HIDE DEF W, L
    <1>10. /\ user_ctx_waiting' = Cardinality({e \in Users : state'[e] = "WAITING"})
           /\ user_ctx' = Cardinality({e \in Users : state'[e] # "FREE"})
        <2>1. Cardinality(W \cup {d}) = Cardinality(W) + 1 /\ Cardinality(L \cup {d}) = Cardinality(L) + 1
            BY <1>8, <1>9, FS_AddElement
        <2> QED BY <1>1, <1>8, <1>9, <2>1
    <1>11. EngineInv'
        BY <1>1, <1>3, <1>4, <1>5, <1>6, <1>7, <1>10 DEF EngineInv
    <1> QED BY <1>1, <1>4, <1>11

\* The loop of run takes the front of the run queue.
LEMMA RunNextShape ==
    ASSUME EngineInv, RunNext
    PROVE  /\ EngineInv'
           /\ UNCHANGED <<at, user_ctx>>
           /\ \A d \in Contexts : /\ state'[d] = "FREE" <=> state[d] = "FREE"
                                  /\ state'[d] = "SUSPENDED" <=> state[d] = "SUSPENDED"
           /\ current_ctx = Idle /\ current_ctx' \in Contexts
    <1> DEFINE next == Head(run_queue)
    <1>1. /\ current_ctx = Idle /\ run_queue # <<>>
          /\ state' = [state EXCEPT ![next] = "RUNNING"]
          /\ current_ctx' = next
          /\ user_ctx_waiting' = user_ctx_waiting - (IF next \in Users THEN 1 ELSE 0)
          /\ run_queue' = Tail(run_queue)
          /\ UNCHANGED <<at, user_ctx>>
        BY DEF RunNext
    <1>2. /\ run_queue' \in Seq(Contexts) /\ IsInjective(run_queue')
          /\ ToSet(run_queue') = ToSet(run_queue) \ {next}
          /\ next \in Contexts /\ state[next] = "WAITING"
        BY <1>1, TailSet DEF EngineInv
    <1> HIDE DEF next
    <1>3. /\ \A d \in Contexts : state'[d] = IF d = next THEN "RUNNING" ELSE state[d]
          /\ state' \in [Contexts -> {"FREE", "WAITING", "RUNNING", "SUSPENDED"}]
        BY <1>1 DEF EngineInv
    <1>4. \A d \in Contexts : d \in ToSet(run_queue') <=> state'[d] = "WAITING"
        BY <1>2, <1>3 DEF EngineInv
    <1>5. \A d \in Contexts : state'[d] = "RUNNING" <=> d = current_ctx'
        <2>1. \A d \in Contexts : state[d] # "RUNNING"
            BY <1>1, ContextsAssumption DEF EngineInv, Contexts
        <2> QED BY <1>1, <1>3, <2>1
    <1>6. state'[Io] # "SUSPENDED"
        BY <1>3 DEF EngineInv, Contexts
    <1> DEFINE W == {e \in Users : state[e] = "WAITING"}
    <1>7. /\ {e \in Users : state'[e] = "WAITING"} = W \ {next}
          /\ {e \in Users : state'[e] # "FREE"} = {e \in Users : state[e] # "FREE"}
          /\ next \in W <=> next \in Users
        BY <1>2, <1>3 DEF Contexts
    <1>8. IsFiniteSet(W) /\ user_ctx_waiting = Cardinality(W) /\ Cardinality(W) \in Nat
        BY UsersFinite DEF EngineInv
    <1> HIDE DEF W
    <1>9. user_ctx_waiting' = Cardinality({e \in Users : state'[e] = "WAITING"})
        <2>1. Cardinality(W \ {next}) = IF next \in W THEN Cardinality(W) - 1 ELSE Cardinality(W)
            BY <1>8, FS_RemoveElement
        <2>2. user_ctx_waiting' = Cardinality(W \ {next})
            BY <1>1, <1>7, <1>8, <2>1
        <2> QED BY <1>7, <2>2
    <1>10. EngineInv'
        BY <1>1, <1>2, <1>3, <1>4, <1>5, <1>6, <1>7, <1>9 DEF EngineInv
    <1> QED BY <1>1, <1>2, <1>3, <1>10

-----------------------------------------------------------------------------
(* Steps that move no request and no waiting context. *)

requestVars == <<setting, holders, channel_queue, m_enqueued, flow_queue, submission,
                 link_timeouts, kernel, armed, completion, timeouts_done>>

\* A user context's step leaves the io thread out of its loop.
LEMMA UserStepIo ==
    ASSUME IoInv, EngineInv, NEW c \in Users, current_ctx = c,
           NEW label, at' = [at EXCEPT ![c] = label]
    PROVE  IoInv' /\ SleepsOnlyWhenIdle' /\ at'[Io] = "run"
    <1>1. c # Io
        BY ContextsAssumption
    <1>2. at[Io] = "run"
        BY <1>1 DEF IoInv
    <1>3. at'[Io] = "run"
        BY <1>1, <1>2 DEF EngineInv, Contexts
    <1> QED BY <1>3 DEF IoInv, SleepsOnlyWhenIdle

\* Nobody starts to wait for a job.
LEMMA JobQuiet ==
    ASSUME JobInv, UNCHANGED <<m_jobs, m_done>>,
           \A d \in Users : Suspended(d)' /\ at'[d] = "job" => Suspended(d) /\ at[d] = "job"
    PROVE  JobInv'
    BY DEF JobInv

\* The queue of a condition and the threads that wait for jobs or come and go:
\* nothing that concerns the requests changes.
LEMMA WaitStep ==
    ASSUME GtInv, EngineInv', UNCHANGED requestVars,
           wait_queue' \in Seq(Users), IsInjective(wait_queue'),
           \A d \in Users : d \in ToSet(wait_queue') <=> state'[d] = "SUSPENDED" /\ at'[d] = "cond",
           m_jobs' \in [Users -> Seq(Users)], m_done' \in [Users -> BOOLEAN],
           JobInv', IoInv', SleepsOnlyWhenIdle',
           user_ctx' <= user_ctx \/ user_ctx' <= setting.threads, user_ctx' \in Int,
           \A d \in Users :
              \/ at'[d] = at[d] /\ (state'[d] = "SUSPENDED" <=> state[d] = "SUSPENDED")
              \/ /\ at[d] # "timeout" /\ (state[d] = "SUSPENDED" => at[d] \in {"cond", "job"})
                 /\ at'[d] # "timeout" /\ (state'[d] = "SUSPENDED" => at'[d] \in {"cond", "job"})
                 /\ d \in holders => at'[d] = at[d],
           \A d \in Users : /\ at'[d] \in {"timeout", "channel", "jobs"} => current_ctx' = d
                            /\ state'[d] = "FREE" => at'[d] = "run"
    PROVE  GtInv'
    <1>1. QueueTypes'
        BY DEF GtInv, QueueTypes, requestVars
    <1>2. InFlight' = InFlight
        BY DEF InFlight, requestVars
    <1>3. PlaceInv'
        <2> SUFFICES ASSUME NEW d \in Users
                     PROVE  /\ d \in ToSet(wait_queue') <=> Suspended(d)' /\ at'[d] = "cond"
                            /\ d \in ToSet(channel_queue) <=> Suspended(d)' /\ at'[d] = "channel wait"
                            /\ d \in ToSet(flow_queue) <=> Suspended(d)' /\ at'[d] = "flow"
                            /\ d \in InFlight <=> (Suspended(d)' /\ at'[d] = "io") \/ at'[d] = "timeout"
                            /\ Suspended(d)' => at'[d] \in {"cond", "channel wait", "flow", "io", "job"}
                            /\ at'[d] \in {"timeout", "channel", "jobs"} => current_ctx' = d
                            /\ state'[d] = "FREE" => at'[d] = "run"
            BY <1>2 DEF PlaceInv, requestVars
        <2> QED BY DEF GtInv, PlaceInv, Suspended
    <1>4. MayHaveFired' = MayHaveFired
        BY DEF MayHaveFired, requestVars
    <1>5. setting' = setting /\ (setting.timeouts => user_ctx' <= setting.threads)
        <2>1. user_ctx \in Int /\ user_ctx' \in Int
            BY UsersFinite DEF GtInv, EngineInv
        <2>2. setting \in Settings /\ setting.threads \in Int
            BY SettingsAssumption DEF GtInv, TimeoutInv
        <2> QED BY <2>1, <2>2 DEF GtInv, TimeoutInv, requestVars
    <1>6. \A d \in Users : /\ at'[d] = "timeout" => at[d] = "timeout"
                           /\ d \in holders => at'[d] = at[d]
        OBVIOUS
    <1>7. TimeoutInv'
        BY <1>4, <1>5, <1>6 DEF GtInv, TimeoutInv, requestVars
    <1>8. SlotsAccountedFor'
        BY DEF GtInv, SlotsAccountedFor, InCompletionQueue, requestVars
    <1> QED BY <1>1, <1>3, <1>7, <1>8 DEF GtInv

\* Who has no place among the queues and requests can come and go.
LEMMA QuietStep ==
    ASSUME GtInv, EngineInv', UNCHANGED <<wait_queue, requestVars>>,
           m_jobs' \in [Users -> Seq(Users)], m_done' \in [Users -> BOOLEAN],
           JobInv', IoInv', SleepsOnlyWhenIdle',
           user_ctx' <= user_ctx \/ user_ctx' <= setting.threads, user_ctx' \in Int,
           \A d \in Users :
              \/ at'[d] = at[d] /\ (state'[d] = "SUSPENDED" <=> state[d] = "SUSPENDED")
              \/ /\ at[d] # "timeout" /\ (state[d] = "SUSPENDED" => at[d] = "job")
                 /\ at'[d] # "timeout" /\ (state'[d] = "SUSPENDED" => at'[d] = "job")
                 /\ d \in holders => at'[d] = at[d],
           \A d \in Users : /\ at'[d] \in {"timeout", "channel", "jobs"} => current_ctx' = d
                            /\ state'[d] = "FREE" => at'[d] = "run"
    PROVE  GtInv'
    <1>1. /\ wait_queue' \in Seq(Users) /\ IsInjective(wait_queue')
          /\ \A d \in Users : d \in ToSet(wait_queue') <=> state'[d] = "SUSPENDED" /\ at'[d] = "cond"
        BY DEF GtInv, QueueTypes, PlaceInv, Suspended
    <1>2. \A d \in Users :
              \/ at'[d] = at[d] /\ (state'[d] = "SUSPENDED" <=> state[d] = "SUSPENDED")
              \/ /\ at[d] # "timeout" /\ (state[d] = "SUSPENDED" => at[d] \in {"cond", "job"})
                 /\ at'[d] # "timeout" /\ (state'[d] = "SUSPENDED" => at'[d] \in {"cond", "job"})
                 /\ d \in holders => at'[d] = at[d]
        OBVIOUS
    <1> QED BY <1>1, <1>2, WaitStep

LEMMA StepRunNext ==
    ASSUME GtInv, RunNext
    PROVE  GtInv'
    <1>1. /\ EngineInv'
          /\ UNCHANGED <<at, user_ctx>>
          /\ \A d \in Contexts : /\ state'[d] = "FREE" <=> state[d] = "FREE"
                                 /\ state'[d] = "SUSPENDED" <=> state[d] = "SUSPENDED"
          /\ current_ctx = Idle
        BY RunNextShape DEF GtInv
    <1>2. UNCHANGED <<wait_queue, requestVars, m_jobs, m_done>>
        BY DEF RunNext, requestVars, waitVars, ioVars, channelVars, kernelVars, completionVars
    <1>3. at'[Io] = "run"
        BY <1>1, ContextsAssumption DEF GtInv, IoInv
    <1>4. IoInv' /\ SleepsOnlyWhenIdle'
        BY <1>3 DEF IoInv, SleepsOnlyWhenIdle
    <1>5. JobInv'
        BY <1>1, <1>2, JobQuiet DEF GtInv, Suspended, Contexts
    <1>6. user_ctx \in Int /\ user_ctx' <= user_ctx
        BY <1>1, UsersFinite DEF GtInv, EngineInv
    <1>7. \A d \in Users : at[d] \notin {"timeout", "channel", "jobs"}
        BY <1>1, ContextsAssumption DEF GtInv, PlaceInv
    <1>8. \A d \in Users : state'[d] = "FREE" => at'[d] = "run"
        BY <1>1 DEF GtInv, PlaceInv, Contexts
    <1> QED BY <1>1, <1>2, <1>4, <1>5, <1>6, <1>7, <1>8, QuietStep DEF GtInv, QueueTypes, Contexts

LEMMA StepRunReturns ==
    ASSUME GtInv, RunReturns \/ UNCHANGED gtVars
    PROVE  GtInv'
    <1>1. /\ UNCHANGED <<state, at, run_queue, current_ctx, user_ctx, user_ctx_waiting>>
          /\ UNCHANGED <<wait_queue, m_jobs, m_done, requestVars>>
        BY DEF RunReturns, gtVars, engineVars, requestVars, waitVars, ioVars, channelVars, kernelVars,
               completionVars
    <1>2. EngineInv' /\ QueueTypes' /\ PlaceInv' /\ JobInv'
        BY <1>1 DEF GtInv, EngineInv, QueueTypes, PlaceInv, JobInv, Suspended, InFlight, requestVars
    <1>3. TimeoutInv' /\ IoInv' /\ SlotsAccountedFor' /\ SleepsOnlyWhenIdle'
        BY <1>1 DEF GtInv, TimeoutInv, IoInv, SlotsAccountedFor, SleepsOnlyWhenIdle, MayHaveFired,
                    InCompletionQueue, In, requestVars
    <1> QED BY <1>2, <1>3 DEF GtInv

\* create_thread, and jobs::run, which gives the new context to the caller.
LEMMA StepCreate ==
    ASSUME GtInv, NEW c \in Users, NEW d \in Users, CreateThread(c, d) \/ RunJob(c, d)
    PROVE  GtInv'
    <1>1. /\ Running(c) /\ create_context(c, d)
          /\ \A p \in Users : d \notin ToSet(m_jobs[p])
          /\ UNCHANGED <<wait_queue, requestVars>>
        BY DEF CreateThread, RunJob, create_context, requestVars, waitVars, ioVars, channelVars,
               kernelVars, completionVars
    <1>2. /\ EngineInv'
          /\ UNCHANGED <<at, current_ctx>>
          /\ user_ctx' = user_ctx + 1 /\ user_ctx < setting.threads
          /\ state[d] = "FREE"
          /\ \A e \in Contexts : state'[e] = IF e = d THEN "WAITING" ELSE state[e]
        BY <1>1, CreateShape DEF GtInv
    <1>3. current_ctx = c /\ at' = [at EXCEPT ![c] = "run"]
        BY <1>1, <1>2 DEF Running, GtInv, EngineInv, Contexts
    <1>4. IoInv' /\ SleepsOnlyWhenIdle'
        BY <1>3, UserStepIo DEF GtInv
    <1>5. user_ctx' <= setting.threads /\ user_ctx' \in Int
        <2>1. user_ctx \in Int
            BY UsersFinite DEF GtInv, EngineInv
        <2>2. setting.threads \in Int
            BY SettingsAssumption DEF GtInv, TimeoutInv
        <2> QED BY <1>2, <2>1, <2>2
    <1>6. at[d] = "run"
        BY <1>2 DEF GtInv, PlaceInv
    <1>7. \A e \in Users : state'[e] = "SUSPENDED" <=> state[e] = "SUSPENDED"
        BY <1>2 DEF Contexts
    <1>8. /\ m_jobs' \in [Users -> Seq(Users)] /\ m_done' \in [Users -> BOOLEAN]
          /\ JobInv'
        <2>1. CASE CreateThread(c, d)
            <3>1. UNCHANGED <<m_jobs, m_done>>
                BY <2>1 DEF CreateThread, waitVars
            <3> QED BY <1>2, <1>7, <3>1, JobQuiet DEF GtInv, QueueTypes, Suspended
        <2>2. CASE RunJob(c, d)
            <3>1. /\ m_jobs \in [Users -> Seq(Users)] /\ m_done \in [Users -> BOOLEAN]
                  /\ m_jobs' = [m_jobs EXCEPT ![c] = Append(@, d)]
                  /\ m_done' = [m_done EXCEPT ![d] = FALSE]
                BY <2>2 DEF RunJob, GtInv, QueueTypes
            <3>2. /\ m_jobs' \in [Users -> Seq(Users)] /\ m_done' \in [Users -> BOOLEAN]
                  /\ \A p \in Users \ {c} : m_jobs'[p] = m_jobs[p]
                  /\ ToSet(m_jobs'[c]) = ToSet(m_jobs[c]) \cup {d}
                BY <3>1, AppendSet
            <3>3. ~Suspended(c)'
                BY <1>3, <1>7 DEF GtInv, EngineInv, Suspended, Contexts
            <3>4. ASSUME NEW p \in Users, Suspended(p)', at'[p] = "job"
                  PROVE  m_jobs'[p] # <<>> /\ ~m_done'[Head(m_jobs'[p])]
                <4>1. /\ p # c /\ m_jobs'[p] = m_jobs[p]
                      /\ m_jobs[p] # <<>> /\ ~m_done[Head(m_jobs[p])]
                    BY <1>2, <1>7, <3>2, <3>3, <3>4 DEF GtInv, JobInv, Suspended
                <4>2. Head(m_jobs[p]) \in Users
                    BY <3>1, <4>1, HeadTailProperties
                <4> QED BY <3>1, <4>1, <4>2
            <3>5. ASSUME NEW p \in Users, NEW q \in Users, p # q
                  PROVE  ToSet(m_jobs'[p]) \cap ToSet(m_jobs'[q]) = {}
                <4>1. ToSet(m_jobs[p]) \cap ToSet(m_jobs[q]) = {}
                    BY <3>5 DEF GtInv, JobInv
                <4>2. CASE p = c
                    BY <1>1, <3>2, <3>5, <4>1, <4>2
                <4>3. CASE q = c
                    <5>1. m_jobs'[p] = m_jobs[p]
                        BY <3>2, <3>5, <4>3
                    <5> QED BY <1>1, <3>2, <4>1, <4>3, <5>1
                <4>4. CASE p # c /\ q # c
                    <5>1. m_jobs'[p] = m_jobs[p] /\ m_jobs'[q] = m_jobs[q]
                        BY <3>2, <4>4
                    <5> QED BY <4>1, <5>1
                <4> QED BY <4>2, <4>3, <4>4
            <3> QED BY <3>2, <3>4, <3>5 DEF JobInv
        <2> QED BY <2>1, <2>2
    <1>9. \A e \in Users : /\ at'[e] \in {"timeout", "channel", "jobs"} => current_ctx' = e
                           /\ state'[e] = "FREE" => at'[e] = "run"
        BY <1>2 DEF GtInv, PlaceInv, Contexts
    <1> QED BY <1>1, <1>2, <1>4, <1>5, <1>7, <1>8, <1>9, QuietStep

\* yield, condition::wait's end and the end of wait_for.
LEMMA StepTurn ==
    ASSUME GtInv, NEW c \in Users, YieldTurn(c) \/ Resumed(c)
    PROVE  GtInv'
    <1>0. current_ctx = c /\ c \in Contexts /\ state[c] = "RUNNING" /\ "run" \in AllLabels
        BY DEF YieldTurn, Resumed, Running, GtInv, EngineInv, Contexts, AllLabels, UserLabels
    <1>1. UNCHANGED <<wait_queue, m_jobs, m_done, requestVars>>
        BY DEF YieldTurn, Resumed, requestVars, waitVars, ioVars, channelVars, kernelVars,
               completionVars
    <1>2. at[c] # "timeout" /\ c \notin holders
        BY DEF YieldTurn, Resumed, Running, GtInv, TimeoutInv
    <1>3. /\ EngineInv'
          /\ at' = [at EXCEPT ![c] = "run"]
          /\ user_ctx' = user_ctx
          /\ \A d \in Contexts : /\ state'[d] = "FREE" <=> state[d] = "FREE"
                                 /\ state'[d] = "SUSPENDED" <=> state[d] = "SUSPENDED"
        <2>1. CASE YieldTurn(c)
            <3>1. yield(c, <<>>, TRUE, "run")
                BY <2>1 DEF YieldTurn
            <3>2. \A d \in Contexts : state'[d] = "SUSPENDED" <=>
                     d # c /\ state[d] = "SUSPENDED" /\ d \notin ToSet(<<>>)
                BY <1>0, <3>1, NobodyWoken, YieldAgain DEF GtInv
            <3>3. /\ EngineInv' /\ at' = [at EXCEPT ![c] = "run"] /\ user_ctx' = user_ctx
                  /\ \A d \in Contexts : state'[d] = "FREE" <=> state[d] = "FREE"
                BY <1>0, <3>1, NobodyWoken, YieldAgain, ZenonT(40) DEF GtInv
            <3> QED BY <1>0, <3>2, <3>3, NobodyWoken
        <2>2. CASE Resumed(c)
            <3>1. GoOn(c, <<>>, "run")
                BY <2>2 DEF Resumed
            <3> QED BY <1>0, <3>1, NobodyWoken, GoOnShape DEF GtInv
        <2> QED BY <2>1, <2>2
    <1>4. IoInv' /\ SleepsOnlyWhenIdle'
        BY <1>0, <1>3, UserStepIo DEF GtInv
    <1>5. user_ctx' <= user_ctx /\ user_ctx' \in Int
        BY <1>3, UsersFinite DEF GtInv, EngineInv
    <1>6. at'[c] = "run" /\ \A d \in Users \ {c} : at'[d] = at[d]
        BY <1>0, <1>3 DEF GtInv, EngineInv, Contexts
    <1>7. JobInv'
        BY <1>0, <1>1, <1>3, <1>6, JobQuiet DEF GtInv, Suspended, Contexts
    <1>8. \A d \in Users : /\ at'[d] \in {"timeout", "channel", "jobs"} => current_ctx' = d
                           /\ state'[d] = "FREE" => at'[d] = "run"
        BY <1>0, <1>3, <1>6 DEF GtInv, PlaceInv, Contexts
    <1>9. \A d \in Users :
              \/ at'[d] = at[d] /\ (state'[d] = "SUSPENDED" <=> state[d] = "SUSPENDED")
              \/ /\ at[d] # "timeout" /\ state[d] # "SUSPENDED"
                 /\ at'[d] # "timeout" /\ state'[d] # "SUSPENDED"
                 /\ d \notin holders
        BY <1>0, <1>2, <1>3, <1>6 DEF Contexts
    <1>10. m_jobs' \in [Users -> Seq(Users)] /\ m_done' \in [Users -> BOOLEAN]
        BY <1>1 DEF GtInv, QueueTypes
    <1> QED BY <1>1, <1>3, <1>4, <1>5, <1>7, <1>8, <1>9, <1>10, QuietStep

\* jobs::wait: the first job is done, or the caller sleeps until it is.
LEMMA StepWaitJob ==
    ASSUME GtInv, NEW c \in Users, WaitJob(c)
    PROVE  GtInv'
    <1>0. /\ current_ctx = c /\ c \in Contexts /\ state[c] = "RUNNING"
          /\ at[c] \in {"run", "jobs", "job"} /\ c \notin holders
          /\ m_jobs[c] # <<>> /\ m_jobs \in [Users -> Seq(Users)] /\ m_done \in [Users -> BOOLEAN]
          /\ {"run", "jobs", "job"} \subseteq AllLabels
        BY DEF WaitJob, GtInv, EngineInv, QueueTypes, TimeoutInv, Contexts, AllLabels, UserLabels
    <1>1. UNCHANGED <<wait_queue, m_done, requestVars>>
        BY DEF WaitJob, requestVars, ioVars, channelVars, kernelVars, completionVars
    <1>2. PICK label \in {"run", "jobs", "job"} :
             /\ EngineInv'
             /\ at' = [at EXCEPT ![c] = label]
             /\ user_ctx' = user_ctx
             /\ \A d \in Contexts : state'[d] = "FREE" <=> state[d] = "FREE"
             /\ \A d \in Contexts \ {c} : state'[d] = "SUSPENDED" <=> state[d] = "SUSPENDED"
             /\ \/ /\ label # "job" /\ state'[c] = "RUNNING" /\ current_ctx' = c
                   /\ m_jobs' = [m_jobs EXCEPT ![c] = Tail(@)]
                \/ /\ label = "job" /\ state'[c] = "SUSPENDED"
                   /\ ~m_done[Head(m_jobs[c])] /\ m_jobs' = m_jobs
        <2>1. CASE /\ m_jobs' = [m_jobs EXCEPT ![c] = Tail(@)]
                   /\ GoOn(c, <<>>, IF Len(m_jobs[c]) = 1 THEN "run" ELSE "jobs")
            <3>1. PICK label \in {"run", "jobs"} : GoOn(c, <<>>, label)
                BY <2>1
            <3>2. /\ EngineInv'
                  /\ at' = [at EXCEPT ![c] = label]
                  /\ UNCHANGED <<current_ctx, user_ctx>>
                  /\ \A d \in Contexts : state'[d] = state[d]
                BY <1>0, <3>1, NobodyWoken, GoOnShape DEF GtInv
            <3> QED BY <1>0, <2>1, <3>1, <3>2
        <2>2. CASE /\ ~m_done[Head(m_jobs[c])] /\ yield(c, <<>>, FALSE, "job")
                   /\ m_jobs' = m_jobs
            <3>1. /\ EngineInv'
                  /\ at' = [at EXCEPT ![c] = "job"]
                  /\ user_ctx' = user_ctx
                  /\ \A d \in Contexts : state'[d] = "FREE" <=> state[d] = "FREE"
                  /\ \A d \in Contexts : state'[d] = "SUSPENDED" <=>
                        IF d = c THEN TRUE ELSE state[d] = "SUSPENDED" /\ d \notin ToSet(<<>>)
                BY <1>0, <2>2, NobodyWoken, YieldShape DEF GtInv
            <3> QED BY <1>0, <2>2, <3>1, NobodyWoken
        <2> QED BY <2>1, <2>2 DEF WaitJob
    <1>3. at'[c] = label /\ \A d \in Users \ {c} : at'[d] = at[d]
        BY <1>0, <1>2 DEF GtInv, EngineInv, Contexts
    <1>4. IoInv' /\ SleepsOnlyWhenIdle'
        BY <1>0, <1>2, UserStepIo DEF GtInv
    <1>5. user_ctx' <= user_ctx /\ user_ctx' \in Int
        BY <1>2, UsersFinite DEF GtInv, EngineInv
    <1>6. /\ m_jobs' \in [Users -> Seq(Users)]
          /\ \A p \in Users \ {c} : m_jobs'[p] = m_jobs[p]
          /\ ToSet(m_jobs'[c]) \subseteq ToSet(m_jobs[c])
        <2>1. CASE m_jobs' = m_jobs
            BY <1>0, <2>1
        <2>2. CASE m_jobs' = [m_jobs EXCEPT ![c] = Tail(@)]
            <3>1. /\ Tail(m_jobs[c]) \in Seq(Users) /\ Len(Tail(m_jobs[c])) = Len(m_jobs[c]) - 1
                  /\ \A i \in 1 .. Len(Tail(m_jobs[c])) : Tail(m_jobs[c])[i] = m_jobs[c][i + 1]
                  /\ Len(m_jobs[c]) \in Nat /\ m_jobs[c] \in Seq(Users)
                BY <1>0, HeadTailProperties, LenProperties
            <3>2. ASSUME NEW x \in ToSet(Tail(m_jobs[c])) PROVE x \in ToSet(m_jobs[c])
                <4>1. PICK i \in 1 .. Len(Tail(m_jobs[c])) : Tail(m_jobs[c])[i] = x
                    BY <3>1, <3>2, InToSet
                <4>2. i + 1 \in 1 .. Len(m_jobs[c]) /\ m_jobs[c][i + 1] = x
                    BY <3>1, <4>1
                <4> QED BY <3>1, <4>2, InToSet
            <3> QED BY <1>0, <2>2, <3>1, <3>2
        <2> QED BY <1>2, <2>1, <2>2
    <1>7. JobInv'
        <2>1. ASSUME NEW p \in Users, Suspended(p)', at'[p] = "job"
              PROVE  m_jobs'[p] # <<>> /\ ~m_done'[Head(m_jobs'[p])]
            <3>1. CASE p = c
                BY <1>0, <1>1, <1>2, <1>3, <2>1, <3>1 DEF Suspended
            <3>2. CASE p # c
                BY <1>1, <1>2, <1>3, <1>6, <2>1, <3>2 DEF GtInv, JobInv, Suspended, Contexts
            <3> QED BY <3>1, <3>2
        <2>2. \A p, q \in Users : p # q => ToSet(m_jobs'[p]) \cap ToSet(m_jobs'[q]) = {}
            <3>1. \A p \in Users : ToSet(m_jobs'[p]) \subseteq ToSet(m_jobs[p])
                <4> TAKE p \in Users
                <4>1. CASE p = c
                    BY <1>6, <4>1
                <4>2. CASE p # c
                    <5>1. m_jobs'[p] = m_jobs[p]
                        BY <1>6, <4>2
                    <5> QED BY <5>1
                <4> QED BY <4>1, <4>2
            <3> QED BY <3>1 DEF GtInv, JobInv
        <2> QED BY <2>1, <2>2 DEF JobInv
    <1>8. \A d \in Users : /\ at'[d] \in {"timeout", "channel", "jobs"} => current_ctx' = d
                           /\ state'[d] = "FREE" => at'[d] = "run"
        BY <1>0, <1>2, <1>3 DEF GtInv, PlaceInv, Contexts
    <1>9. \A d \in Users :
              \/ at'[d] = at[d] /\ (state'[d] = "SUSPENDED" <=> state[d] = "SUSPENDED")
              \/ /\ at[d] # "timeout" /\ (state[d] = "SUSPENDED" => at[d] = "job")
                 /\ at'[d] # "timeout" /\ (state'[d] = "SUSPENDED" => at'[d] = "job")
                 /\ d \notin holders
        BY <1>0, <1>2, <1>3 DEF Contexts
    <1>10. m_done' \in [Users -> BOOLEAN]
        BY <1>0, <1>1
    <1> QED BY <1>1, <1>2, <1>4, <1>5, <1>6, <1>7, <1>8, <1>9, <1>10, QuietStep

\* The end of a thread wakes the one that waits for its job.
LEMMA StepEndThread ==
    ASSUME GtInv, NEW c \in Users, EndThread(c)
    PROVE  GtInv'
    <1>0. /\ current_ctx = c /\ c \in Contexts /\ state[c] = "RUNNING" /\ at[c] = "run"
          /\ m_jobs[c] = <<>> /\ m_jobs \in [Users -> Seq(Users)] /\ m_done \in [Users -> BOOLEAN]
          /\ m_done' = [m_done EXCEPT ![c] = TRUE] /\ m_jobs' = m_jobs
          /\ End(c, JobWaiters(c))
        BY DEF EndThread, Running, GtInv, EngineInv, QueueTypes, Contexts
    <1>1. UNCHANGED <<wait_queue, requestVars>>
        BY DEF EndThread, requestVars, ioVars, channelVars, kernelVars, completionVars
    <1> DEFINE waits == {p \in Users : /\ at[p] = "job" /\ state[p] = "SUSPENDED"
                                       /\ Head(m_jobs[p]) = c}
    <1>2. \A p, q \in waits : p = q
        <2> SUFFICES ASSUME NEW p \in waits, NEW q \in waits, p # q PROVE FALSE
            OBVIOUS
        <2>1. m_jobs[p] # <<>> /\ m_jobs[q] # <<>> /\ Head(m_jobs[p]) = c /\ Head(m_jobs[q]) = c
            BY DEF GtInv, JobInv, Suspended
        <2>2. c \in ToSet(m_jobs[p]) /\ c \in ToSet(m_jobs[q])
            <3>1. \A s \in Seq(Users) : s # <<>> => Head(s) \in ToSet(s)
                BY HeadTailProperties, LenProperties, EmptySeq DEF ToSet
            <3> QED BY <1>0, <2>1, <3>1
        <2> QED BY <2>2 DEF GtInv, JobInv
    <1>3. Wakeable(JobWaiters(c)) /\ ToSet(JobWaiters(c)) = waits
        <2>1. CASE waits = {}
            <3>1. JobWaiters(c) = <<>>
                BY <2>1 DEF JobWaiters
            <3> QED BY <2>1, <3>1, NobodyWoken
        <2>2. CASE waits # {}
            <3>1. JobWaiters(c) = <<CHOOSE p \in waits : TRUE>>
                BY <2>2 DEF JobWaiters
            <3>2. PICK p \in waits : p = CHOOSE q \in waits : TRUE
                BY <2>2
            <3>3. JobWaiters(c) = <<p>> /\ waits = {p}
                BY <1>2, <3>1, <3>2
            <3>4. <<p>> \in Seq(Users) /\ state[p] = "SUSPENDED"
                BY <3>2
            <3> HIDE DEF waits
            <3> QED BY <3>3, <3>4, ShortSeqs DEF Wakeable
        <2> QED BY <2>1, <2>2
    <1>4. /\ EngineInv'
          /\ at' = at
          /\ user_ctx' <= user_ctx
          /\ \A d \in Contexts :
                state'[d] = IF d = c THEN "FREE"
                            ELSE IF d \in waits THEN "WAITING" ELSE state[d]
          /\ current_ctx' = Idle
        <2> HIDE DEF waits
        <2>1. \A d : d \in ToSet(JobWaiters(c)) <=> d \in waits
            BY <1>3
        <2> QED BY <1>0, <1>3, <2>1, EndShape DEF GtInv
    <1>5. user_ctx' \in Int
        BY <1>4, UsersFinite DEF EngineInv
    <1>6. IoInv' /\ SleepsOnlyWhenIdle'
        <2>1. at' = [at EXCEPT ![c] = "run"]
            BY <1>0, <1>4 DEF GtInv, EngineInv
        <2> QED BY <1>0, <2>1, UserStepIo DEF GtInv
    <1>7. JobInv'
        <2>1. ASSUME NEW p \in Users, Suspended(p)', at'[p] = "job"
              PROVE  m_jobs'[p] # <<>> /\ ~m_done'[Head(m_jobs'[p])]
            <3>1. p # c /\ p \notin waits /\ Suspended(p) /\ at[p] = "job"
                BY <1>4, <2>1 DEF Suspended, Contexts
            <3>2. /\ m_jobs[p] # <<>> /\ ~m_done[Head(m_jobs[p])] /\ Head(m_jobs[p]) # c
                  /\ Head(m_jobs[p]) \in Users
                BY <1>0, <3>1, HeadTailProperties DEF GtInv, JobInv, Suspended
            <3> QED BY <1>0, <3>2
        <2> QED BY <1>0, <2>1 DEF GtInv, JobInv
    <1>8. \A d \in Users : /\ at'[d] \in {"timeout", "channel", "jobs"} => current_ctx' = d
                           /\ state'[d] = "FREE" => at'[d] = "run"
        BY <1>0, <1>4 DEF GtInv, PlaceInv, Contexts
    <1>9. \A d \in Users :
              \/ at'[d] = at[d] /\ (state'[d] = "SUSPENDED" <=> state[d] = "SUSPENDED")
              \/ /\ at[d] # "timeout" /\ (state[d] = "SUSPENDED" => at[d] = "job")
                 /\ at'[d] # "timeout" /\ (state'[d] = "SUSPENDED" => at'[d] = "job")
                 /\ d \in holders => at'[d] = at[d]
        BY <1>0, <1>4 DEF Contexts
    <1>10. m_jobs' \in [Users -> Seq(Users)] /\ m_done' \in [Users -> BOOLEAN]
        BY <1>0
    <1> QED BY <1>1, <1>4, <1>5, <1>6, <1>7, <1>8, <1>9, <1>10, QuietStep

\* The io thread has nothing to do, or ends.
LEMMA StepIoIdle ==
    ASSUME GtInv, IoIdle(Io)
    PROVE  GtInv'
    <1>0. /\ current_ctx = Io /\ Io \in Contexts /\ at[Io] = "run" /\ state[Io] = "RUNNING"
          /\ Io \notin Users /\ "run" \in AllLabels
        BY ContextsAssumption DEF IoIdle, GtInv, EngineInv, Contexts, AllLabels, UserLabels
    <1>1. UNCHANGED <<wait_queue, m_jobs, m_done, requestVars>>
        BY DEF IoIdle, requestVars, waitVars, ioVars, channelVars, kernelVars, completionVars
    <1>2. /\ EngineInv'
          /\ at' = at
          /\ user_ctx' <= user_ctx
          /\ \A d \in Users : /\ state'[d] = "FREE" <=> state[d] = "FREE"
                              /\ state'[d] = "SUSPENDED" <=> state[d] = "SUSPENDED"
        <2>0. user_ctx \in Int
            BY UsersFinite DEF GtInv, EngineInv
        <2>1. CASE End(Io, <<>>)
            <3>1. /\ EngineInv' /\ at' = at /\ user_ctx' <= user_ctx
                  /\ \A d \in Contexts :
                        state'[d] = IF d = Io THEN "FREE"
                                    ELSE IF d \in ToSet(<<>>) THEN "WAITING" ELSE state[d]
                BY <1>0, <2>1, NobodyWoken, EndShape DEF GtInv
            <3> QED BY <1>0, <3>1, NobodyWoken DEF Contexts
        <2>2. CASE yield(Io, <<>>, TRUE, "run")
            <3>0. EngineInv
                BY DEF GtInv
            <3>1. /\ EngineInv'
                  /\ at' = [at EXCEPT ![Io] = "run"]
                  /\ user_ctx' = user_ctx
                  /\ \A d \in Contexts : state'[d] = "FREE" <=> state[d] = "FREE"
                  /\ \A d \in Contexts :
                        state'[d] = "SUSPENDED" <=>
                            d # Io /\ state[d] = "SUSPENDED" /\ d \notin ToSet(<<>>)
                BY <1>0, <2>2, <3>0, NobodyWoken, YieldAgain, ZenonT(30)
            <3>2. at' = at
                BY <1>0, <3>1 DEF GtInv, EngineInv
            <3> QED BY <1>0, <2>0, <3>1, <3>2, NobodyWoken DEF Contexts
        <2> QED BY <2>1, <2>2 DEF IoIdle
    <1>3. IoInv' /\ SleepsOnlyWhenIdle'
        BY <1>0, <1>2 DEF IoInv, SleepsOnlyWhenIdle
    <1>4. user_ctx' \in Int
        BY <1>2, UsersFinite DEF EngineInv
    <1>5. JobInv'
        BY <1>1, <1>2, JobQuiet DEF GtInv, Suspended
    <1>6. \A d \in Users : /\ at'[d] \notin {"timeout", "channel", "jobs"}
                           /\ state'[d] = "FREE" => at'[d] = "run"
        BY <1>0, <1>2 DEF GtInv, PlaceInv
    <1>7. m_jobs' \in [Users -> Seq(Users)] /\ m_done' \in [Users -> BOOLEAN]
        BY <1>1 DEF GtInv, QueueTypes
    <1> QED BY <1>1, <1>2, <1>3, <1>4, <1>5, <1>6, <1>7, QuietStep

-----------------------------------------------------------------------------
(* Steps of user threads that wait or wake. *)

\* A user context goes to sleep.
LEMMA UserSleeps ==
    ASSUME GtInv, NEW c \in Users, current_ctx = c, NEW label \in AllLabels,
           yield(c, <<>>, FALSE, label)
    PROVE  /\ EngineInv' /\ IoInv' /\ SleepsOnlyWhenIdle'
           /\ user_ctx' = user_ctx /\ user_ctx' \in Int
           /\ at'[c] = label /\ \A d \in Users \ {c} : at'[d] = at[d]
           /\ \A d \in Users : state'[d] = "FREE" <=> state[d] = "FREE"
           /\ \A d \in Users : state'[d] = "SUSPENDED" <=> d = c \/ state[d] = "SUSPENDED"
           /\ state[c] = "RUNNING" /\ current_ctx' # c
    <1>0. c \in Contexts /\ EngineInv /\ IoInv /\ state[c] = "RUNNING"
        BY DEF Contexts, GtInv, EngineInv
    <1>1. /\ EngineInv'
          /\ at' = [at EXCEPT ![c] = label]
          /\ user_ctx' = user_ctx
          /\ \A d \in Contexts : state'[d] = "FREE" <=> state[d] = "FREE"
          /\ \A d \in Contexts :
                state'[d] = "SUSPENDED" <=>
                    IF d = c THEN ~FALSE ELSE state[d] = "SUSPENDED" /\ d \notin ToSet(<<>>)
          /\ current_ctx' # c
        <2>1. FALSE \in BOOLEAN /\ (FALSE \/ c \in Users)
            OBVIOUS
        <2> QED BY <1>0, <2>1, NobodyWoken, YieldShape, ZenonT(30)
    <1>2. \A d \in Contexts : state'[d] = "SUSPENDED" <=> d = c \/ state[d] = "SUSPENDED"
        BY <1>1, NobodyWoken
    <1>3. IoInv' /\ SleepsOnlyWhenIdle'
        BY <1>0, <1>1, UserStepIo
    <1>4. at'[c] = label /\ \A d \in Users \ {c} : at'[d] = at[d]
        BY <1>0, <1>1 DEF EngineInv, Contexts
    <1>5. user_ctx' \in Int
        BY <1>0, <1>1, UsersFinite DEF EngineInv
    <1> QED BY <1>0, <1>1, <1>2, <1>3, <1>4, <1>5 DEF Contexts

\* A user context wakes others and goes on.
LEMMA UserGoesOn ==
    ASSUME GtInv, NEW c \in Users, current_ctx = c, NEW label \in AllLabels,
           NEW woken, Wakeable(woken), GoOn(c, woken, label)
    PROVE  /\ EngineInv' /\ IoInv' /\ SleepsOnlyWhenIdle'
           /\ user_ctx' = user_ctx /\ user_ctx' \in Int
           /\ at'[c] = label /\ \A d \in Users \ {c} : at'[d] = at[d]
           /\ \A d \in Users : state'[d] = "FREE" <=> state[d] = "FREE"
           /\ \A d \in Users :
                 state'[d] = "SUSPENDED" <=> state[d] = "SUSPENDED" /\ d \notin ToSet(woken)
           /\ state[c] = "RUNNING" /\ current_ctx' = c
    <1>0. c \in Contexts /\ EngineInv /\ IoInv /\ state[c] = "RUNNING"
        BY DEF Contexts, GtInv, EngineInv
    <1>1. /\ EngineInv'
          /\ at' = [at EXCEPT ![c] = label]
          /\ UNCHANGED <<current_ctx, user_ctx>>
          /\ \A d \in Contexts :
                state'[d] = IF d \in ToSet(woken) THEN "WAITING" ELSE state[d]
        BY <1>0, GoOnShape
    <1>2. \A d \in Contexts :
             /\ state'[d] = "SUSPENDED" <=> state[d] = "SUSPENDED" /\ d \notin ToSet(woken)
             /\ state'[d] = "FREE" <=> state[d] = "FREE"
        BY <1>1 DEF Wakeable
    <1>3. IoInv' /\ SleepsOnlyWhenIdle'
        BY <1>0, <1>1, UserStepIo
    <1>4. at'[c] = label /\ \A d \in Users \ {c} : at'[d] = at[d]
        BY <1>0, <1>1 DEF EngineInv, Contexts
    <1>5. user_ctx' \in Int
        BY <1>0, <1>1, UsersFinite DEF EngineInv
    <1> QED BY <1>0, <1>1, <1>2, <1>3, <1>4, <1>5 DEF Contexts

LEMMA StepWait ==
    ASSUME GtInv, NEW c \in Users, wait(c)
    PROVE  GtInv'
    <1>1. /\ current_ctx = c /\ at[c] = "run" /\ wait_queue' = Append(wait_queue, c)
          /\ yield(c, <<>>, FALSE, "cond") /\ "cond" \in AllLabels
          /\ UNCHANGED <<m_jobs, m_done, requestVars>>
        BY DEF wait, Running, requestVars, ioVars, channelVars, kernelVars, completionVars,
               AllLabels, UserLabels
    <1>2. /\ EngineInv' /\ IoInv' /\ SleepsOnlyWhenIdle'
          /\ user_ctx' = user_ctx /\ user_ctx' \in Int
          /\ at'[c] = "cond" /\ \A d \in Users \ {c} : at'[d] = at[d]
          /\ \A d \in Users : state'[d] = "FREE" <=> state[d] = "FREE"
          /\ \A d \in Users : state'[d] = "SUSPENDED" <=> d = c \/ state[d] = "SUSPENDED"
          /\ state[c] = "RUNNING"
        BY <1>1, UserSleeps
    <1>3. c \notin ToSet(wait_queue) /\ c \notin holders
        BY <1>1, <1>2 DEF GtInv, PlaceInv, TimeoutInv, Suspended
    <1>4. /\ wait_queue' \in Seq(Users) /\ IsInjective(wait_queue')
          /\ ToSet(wait_queue') = ToSet(wait_queue) \cup {c}
        BY <1>1, <1>3, AppendSet DEF GtInv, QueueTypes
    <1>5. \A d \in Users : d \in ToSet(wait_queue') <=> state'[d] = "SUSPENDED" /\ at'[d] = "cond"
        BY <1>2, <1>4 DEF GtInv, PlaceInv, Suspended
    <1>6. JobInv'
        BY <1>1, <1>2, JobQuiet DEF GtInv, Suspended
    <1>7. \A d \in Users : /\ at'[d] \in {"timeout", "channel", "jobs"} => current_ctx' = d
                           /\ state'[d] = "FREE" => at'[d] = "run"
        BY <1>1, <1>2 DEF GtInv, PlaceInv
    <1>8. \A d \in Users :
              \/ at'[d] = at[d] /\ (state'[d] = "SUSPENDED" <=> state[d] = "SUSPENDED")
              \/ /\ at[d] # "timeout" /\ (state[d] = "SUSPENDED" => at[d] \in {"cond", "job"})
                 /\ at'[d] # "timeout" /\ (state'[d] = "SUSPENDED" => at'[d] \in {"cond", "job"})
                 /\ d \in holders => at'[d] = at[d]
        BY <1>1, <1>2, <1>3
    <1>9. /\ m_jobs' \in [Users -> Seq(Users)] /\ m_done' \in [Users -> BOOLEAN]
          /\ user_ctx' <= user_ctx
        BY <1>1, <1>2 DEF GtInv, QueueTypes
    <1> QED BY <1>1, <1>2, <1>4, <1>5, <1>6, <1>7, <1>8, <1>9, WaitStep

LEMMA StepSignal ==
    ASSUME GtInv, NEW c \in Users, signal(c) \/ signal_all(c)
    PROVE  GtInv'
    <1>1. /\ current_ctx = c /\ at[c] = "run" /\ wait_queue # <<>> /\ "run" \in AllLabels
          /\ UNCHANGED <<m_jobs, m_done, requestVars>>
        BY DEF signal, signal_all, Running, requestVars, ioVars, channelVars, kernelVars,
               completionVars, AllLabels, UserLabels
    <1>2. /\ wait_queue \in Seq(Users) /\ IsInjective(wait_queue)
          /\ ToSet(wait_queue) \subseteq Users
          /\ \A d \in Users : d \in ToSet(wait_queue) <=> state[d] = "SUSPENDED" /\ at[d] = "cond"
        BY InToSet DEF GtInv, QueueTypes, PlaceInv, Suspended
    <1>3. PICK woken :
             /\ woken \in Seq(Users) /\ IsInjective(woken) /\ ToSet(woken) \subseteq ToSet(wait_queue)
             /\ wait_queue' \in Seq(Users) /\ IsInjective(wait_queue')
             /\ ToSet(wait_queue') = ToSet(wait_queue) \ ToSet(woken)
             /\ GoOn(c, woken, "run")
        <2>1. CASE signal(c)
            <3>1. /\ wait_queue' = Tail(wait_queue) /\ GoOn(c, <<Head(wait_queue)>>, "run")
                BY <2>1 DEF signal
            <3>2. /\ Head(wait_queue) \in ToSet(wait_queue) /\ Head(wait_queue) \in Users
                  /\ wait_queue' \in Seq(Users) /\ IsInjective(wait_queue')
                  /\ ToSet(wait_queue') = ToSet(wait_queue) \ {Head(wait_queue)}
                BY <1>1, <1>2, <3>1, TailSet
            <3>3. /\ <<Head(wait_queue)>> \in Seq(Users) /\ IsInjective(<<Head(wait_queue)>>)
                  /\ ToSet(<<Head(wait_queue)>>) = {Head(wait_queue)}
                BY <3>2, ShortSeqs
            <3> QED BY <3>1, <3>2, <3>3
        <2>2. CASE signal_all(c)
            <3>1. wait_queue' = <<>> /\ GoOn(c, wait_queue, "run")
                BY <2>2 DEF signal_all
            <3>2. /\ wait_queue' \in Seq(Users) /\ IsInjective(wait_queue')
                  /\ ToSet(wait_queue') = ToSet(wait_queue) \ ToSet(wait_queue)
                BY <3>1, ShortSeqs
            <3> QED BY <1>2, <3>1, <3>2
        <2> QED BY <2>1, <2>2
    <1>4. Wakeable(woken)
        BY <1>2, <1>3 DEF Wakeable
    <1>5. /\ EngineInv' /\ IoInv' /\ SleepsOnlyWhenIdle'
          /\ user_ctx' = user_ctx /\ user_ctx' \in Int
          /\ at'[c] = "run" /\ \A d \in Users \ {c} : at'[d] = at[d]
          /\ \A d \in Users : state'[d] = "FREE" <=> state[d] = "FREE"
          /\ \A d \in Users :
                state'[d] = "SUSPENDED" <=> state[d] = "SUSPENDED" /\ d \notin ToSet(woken)
          /\ state[c] = "RUNNING" /\ current_ctx' = c
        BY <1>1, <1>3, <1>4, UserGoesOn
    <1>6. \A d \in Users : d \in ToSet(wait_queue') <=> state'[d] = "SUSPENDED" /\ at'[d] = "cond"
        BY <1>2, <1>3, <1>5
    <1>7. \A d \in Users : at'[d] = at[d]
        BY <1>1, <1>5
    <1>8. JobInv'
        BY <1>1, <1>5, <1>7, JobQuiet DEF GtInv, Suspended
    <1>9. \A d \in Users : /\ at'[d] \in {"timeout", "channel", "jobs"} => current_ctx' = d
                           /\ state'[d] = "FREE" => at'[d] = "run"
        BY <1>1, <1>5, <1>7 DEF GtInv, PlaceInv
    <1>10. \A d \in Users :
              \/ at'[d] = at[d] /\ (state'[d] = "SUSPENDED" <=> state[d] = "SUSPENDED")
              \/ /\ at[d] # "timeout" /\ (state[d] = "SUSPENDED" => at[d] \in {"cond", "job"})
                 /\ at'[d] # "timeout" /\ (state'[d] = "SUSPENDED" => at'[d] \in {"cond", "job"})
                 /\ d \in holders => at'[d] = at[d]
        BY <1>2, <1>3, <1>5, <1>7
    <1>11. /\ m_jobs' \in [Users -> Seq(Users)] /\ m_done' \in [Users -> BOOLEAN]
           /\ user_ctx' <= user_ctx
        BY <1>1, <1>5 DEF GtInv, QueueTypes
    <1> QED BY <1>1, <1>3, <1>5, <1>6, <1>8, <1>9, <1>10, <1>11, WaitStep

-----------------------------------------------------------------------------
(* Requests. *)

\* A resource of the channels is free.
LEMMA StepTakeChannel ==
    ASSUME GtInv, NEW c \in Users, AcquireChannel(c), Cardinality(holders) # setting.channel
    PROVE  GtInv'
    <1>1. /\ current_ctx = c /\ at[c] \in {"run", "channel wait"} /\ "channel" \in AllLabels
          /\ holders' = holders \cup {c} /\ GoOn(c, <<>>, "channel")
          /\ UNCHANGED <<wait_queue, m_jobs, m_done, setting, channel_queue, m_enqueued, flow_queue,
                         submission, link_timeouts, kernel, armed, completion, timeouts_done>>
        BY DEF AcquireChannel, waitVars, kernelVars, completionVars, AllLabels, UserLabels
    <1>2. /\ EngineInv' /\ IoInv' /\ SleepsOnlyWhenIdle'
          /\ user_ctx' = user_ctx /\ user_ctx' \in Int
          /\ at'[c] = "channel" /\ \A d \in Users \ {c} : at'[d] = at[d]
          /\ \A d \in Users : state'[d] = "FREE" <=> state[d] = "FREE"
          /\ \A d \in Users : state'[d] = "SUSPENDED" <=> state[d] = "SUSPENDED"
          /\ state[c] = "RUNNING" /\ current_ctx' = c
        BY <1>1, NobodyWoken, UserGoesOn
    <1>3. c \notin InFlight /\ c \notin holders
        BY <1>1, <1>2 DEF GtInv, PlaceInv, TimeoutInv, Suspended
    <1>4. InFlight' = InFlight
        BY <1>1 DEF InFlight
    <1>5. QueueTypes' /\ JobInv'
        BY <1>1, <1>2, JobQuiet DEF GtInv, QueueTypes, Suspended
    <1>6. PlaceInv'
        <2> SUFFICES ASSUME NEW d \in Users
                     PROVE  /\ d \in ToSet(wait_queue) <=> Suspended(d)' /\ at'[d] = "cond"
                            /\ d \in ToSet(channel_queue) <=> Suspended(d)' /\ at'[d] = "channel wait"
                            /\ d \in ToSet(flow_queue) <=> Suspended(d)' /\ at'[d] = "flow"
                            /\ d \in InFlight <=> (Suspended(d)' /\ at'[d] = "io") \/ at'[d] = "timeout"
                            /\ Suspended(d)' => at'[d] \in {"cond", "channel wait", "flow", "io", "job"}
                            /\ at'[d] \in {"timeout", "channel", "jobs"} => current_ctx' = d
                            /\ state'[d] = "FREE" => at'[d] = "run"
            BY <1>1, <1>4 DEF PlaceInv
        <2> QED BY <1>1, <1>2, <1>3 DEF GtInv, PlaceInv, Suspended
    <1>7. MayHaveFired' = MayHaveFired
        BY <1>1, <1>3 DEF MayHaveFired, InFlight
    <1>8. Cardinality(holders') <= setting.channel /\ holders' \subseteq Users
        <2>1. IsFiniteSet(holders) /\ Cardinality(holders) \in Nat /\ holders \subseteq Users
            BY UsersFinite DEF GtInv, TimeoutInv
        <2>2. Cardinality(holders') = Cardinality(holders) + 1
            BY <1>1, <1>3, <2>1, FS_AddElement
        <2>3. setting.channel \in Nat /\ Cardinality(holders) <= setting.channel
            BY SettingsAssumption DEF GtInv, TimeoutInv
        <2>4. Cardinality(holders) + 1 <= setting.channel
            BY <2>1, <2>3
        <2> QED BY <1>1, <2>1, <2>2, <2>4
    <1>9. TimeoutInv'
        BY <1>1, <1>2, <1>7, <1>8 DEF GtInv, TimeoutInv
    <1>10. SlotsAccountedFor'
        BY <1>1 DEF GtInv, SlotsAccountedFor, InCompletionQueue
    <1> QED BY <1>2, <1>5, <1>6, <1>9, <1>10 DEF GtInv

\* There is none: the caller waits.
LEMMA StepWaitChannel ==
    ASSUME GtInv, NEW c \in Users, AcquireChannel(c), Cardinality(holders) = setting.channel
    PROVE  GtInv'
    <1>1. /\ current_ctx = c /\ at[c] \in {"run", "channel wait"} /\ "channel wait" \in AllLabels
          /\ channel_queue' = Append(channel_queue, c) /\ yield(c, <<>>, FALSE, "channel wait")
          /\ UNCHANGED <<wait_queue, m_jobs, m_done, setting, holders, m_enqueued, flow_queue,
                         submission, link_timeouts, kernel, armed, completion, timeouts_done>>
        BY DEF AcquireChannel, waitVars, kernelVars, completionVars, AllLabels, UserLabels
    <1>2. /\ EngineInv' /\ IoInv' /\ SleepsOnlyWhenIdle'
          /\ user_ctx' = user_ctx /\ user_ctx' \in Int
          /\ at'[c] = "channel wait" /\ \A d \in Users \ {c} : at'[d] = at[d]
          /\ \A d \in Users : state'[d] = "FREE" <=> state[d] = "FREE"
          /\ \A d \in Users : state'[d] = "SUSPENDED" <=> d = c \/ state[d] = "SUSPENDED"
          /\ state[c] = "RUNNING"
        BY <1>1, UserSleeps
    <1>3. /\ c \notin InFlight /\ c \notin holders
          /\ c \notin ToSet(channel_queue)
        BY <1>1, <1>2 DEF GtInv, PlaceInv, TimeoutInv, Suspended
    <1>4. InFlight' = InFlight
        BY <1>1 DEF InFlight
    <1>5. /\ channel_queue' \in Seq(Users) /\ IsInjective(channel_queue')
          /\ ToSet(channel_queue') = ToSet(channel_queue) \cup {c}
        BY <1>1, <1>3, AppendSet DEF GtInv, QueueTypes
    <1>6. QueueTypes' /\ JobInv'
        BY <1>1, <1>2, <1>5, JobQuiet DEF GtInv, QueueTypes, Suspended
    <1>7. PlaceInv'
        <2> SUFFICES ASSUME NEW d \in Users
                     PROVE  /\ d \in ToSet(wait_queue) <=> Suspended(d)' /\ at'[d] = "cond"
                            /\ d \in ToSet(channel_queue') <=> Suspended(d)' /\ at'[d] = "channel wait"
                            /\ d \in ToSet(flow_queue) <=> Suspended(d)' /\ at'[d] = "flow"
                            /\ d \in InFlight <=> (Suspended(d)' /\ at'[d] = "io") \/ at'[d] = "timeout"
                            /\ Suspended(d)' => at'[d] \in {"cond", "channel wait", "flow", "io", "job"}
                            /\ at'[d] \in {"timeout", "channel", "jobs"} => current_ctx' = d
                            /\ state'[d] = "FREE" => at'[d] = "run"
            BY <1>1, <1>4 DEF PlaceInv
        <2> QED BY <1>1, <1>2, <1>3, <1>5 DEF GtInv, PlaceInv, Suspended
    <1>8. MayHaveFired' = MayHaveFired
        BY <1>1 DEF MayHaveFired
    <1>9. TimeoutInv'
        BY <1>1, <1>2, <1>3, <1>8 DEF GtInv, TimeoutInv
    <1>10. SlotsAccountedFor'
        BY <1>1 DEF GtInv, SlotsAccountedFor, InCompletionQueue
    <1> QED BY <1>2, <1>6, <1>7, <1>9, <1>10 DEF GtInv

\* A resource of the channels is given back, and all that wait for one wake.
LEMMA StepReleaseChannel ==
    ASSUME GtInv, NEW c \in Users, ReleaseChannel(c)
    PROVE  GtInv'
    <1>1. /\ current_ctx = c /\ at[c] = "io" /\ c \in holders /\ "run" \in AllLabels
          /\ holders' = holders \ {c} /\ channel_queue' = <<>> /\ GoOn(c, channel_queue, "run")
          /\ UNCHANGED <<wait_queue, m_jobs, m_done, setting, m_enqueued, flow_queue,
                         submission, link_timeouts, kernel, armed, completion, timeouts_done>>
        BY DEF ReleaseChannel, waitVars, kernelVars, completionVars, AllLabels, UserLabels
    <1>2. /\ channel_queue \in Seq(Users) /\ IsInjective(channel_queue)
          /\ ToSet(channel_queue) \subseteq Users
          /\ \A d \in Users :
                d \in ToSet(channel_queue) <=> state[d] = "SUSPENDED" /\ at[d] = "channel wait"
        BY InToSet DEF GtInv, QueueTypes, PlaceInv, Suspended
    <1>3. Wakeable(channel_queue)
        BY <1>2 DEF Wakeable
    <1>4. /\ EngineInv' /\ IoInv' /\ SleepsOnlyWhenIdle'
          /\ user_ctx' = user_ctx /\ user_ctx' \in Int
          /\ at'[c] = "run" /\ \A d \in Users \ {c} : at'[d] = at[d]
          /\ \A d \in Users : state'[d] = "FREE" <=> state[d] = "FREE"
          /\ \A d \in Users :
                state'[d] = "SUSPENDED" <=> state[d] = "SUSPENDED" /\ d \notin ToSet(channel_queue)
          /\ state[c] = "RUNNING" /\ current_ctx' = c
        BY <1>1, <1>3, UserGoesOn
    <1>5. c \notin InFlight
        BY <1>1, <1>4 DEF GtInv, PlaceInv, Suspended
    <1>6. InFlight' = InFlight
        BY <1>1 DEF InFlight
    <1>7. channel_queue' \in Seq(Users) /\ IsInjective(channel_queue') /\ ToSet(channel_queue') = {}
        BY <1>1, ShortSeqs
    <1>8. QueueTypes' /\ JobInv'
        BY <1>1, <1>4, <1>7, JobQuiet DEF GtInv, QueueTypes, Suspended
    <1>9. PlaceInv'
        <2> SUFFICES ASSUME NEW d \in Users
                     PROVE  /\ d \in ToSet(wait_queue) <=> Suspended(d)' /\ at'[d] = "cond"
                            /\ d \in ToSet(channel_queue') <=> Suspended(d)' /\ at'[d] = "channel wait"
                            /\ d \in ToSet(flow_queue) <=> Suspended(d)' /\ at'[d] = "flow"
                            /\ d \in InFlight <=> (Suspended(d)' /\ at'[d] = "io") \/ at'[d] = "timeout"
                            /\ Suspended(d)' => at'[d] \in {"cond", "channel wait", "flow", "io", "job"}
                            /\ at'[d] \in {"timeout", "channel", "jobs"} => current_ctx' = d
                            /\ state'[d] = "FREE" => at'[d] = "run"
            BY <1>1, <1>6 DEF PlaceInv
        <2> QED BY <1>1, <1>2, <1>4, <1>5, <1>7 DEF GtInv, PlaceInv, Suspended
    <1>10. MayHaveFired' = MayHaveFired
        BY <1>1, <1>5 DEF MayHaveFired, InFlight
    <1>11. Cardinality(holders') <= setting.channel /\ holders' \subseteq Users
        <2>1. IsFiniteSet(holders) /\ Cardinality(holders) \in Nat /\ holders \subseteq Users
            BY UsersFinite DEF GtInv, TimeoutInv
        <2>2. Cardinality(holders') = Cardinality(holders) - 1
            BY <1>1, <2>1, FS_RemoveElement
        <2>3. setting.channel \in Nat /\ Cardinality(holders) <= setting.channel
            BY SettingsAssumption DEF GtInv, TimeoutInv
        <2> QED BY <1>1, <2>1, <2>2, <2>3
    <1>12. TimeoutInv'
        <2>1. link_timeouts \subseteq holders' /\ armed \subseteq holders'
            BY <1>1, <1>5 DEF GtInv, TimeoutInv, InFlight
        <2> QED BY <1>1, <1>4, <1>10, <1>11, <2>1 DEF GtInv, TimeoutInv
    <1>13. SlotsAccountedFor'
        BY <1>1 DEF GtInv, SlotsAccountedFor, InCompletionQueue
    <1> QED BY <1>4, <1>8, <1>9, <1>12, <1>13 DEF GtInv

LEMMA SlotArithmetic ==
    \A s, k, r, l, a, t, threads, channel, slots \in Nat :
        s + k + r <= threads /\ l + a + t < channel /\ threads + channel <= slots
            => s + l + k + a + (r + t) < slots
    OBVIOUS

\* While a caller is about to prepare the timeout of its request, the requests
\* of the other threads and their timeouts leave a slot.
LEMMA TimeoutHasSlot ==
    ASSUME RoomForTimeouts, GtInv, NEW c \in Users, current_ctx = c, at[c] = "timeout"
    PROVE  m_enqueued < setting.io
    <1>1. /\ setting \in Settings /\ setting.timeouts /\ c \in holders
          /\ c \in submission \ link_timeouts /\ user_ctx <= setting.threads
          /\ Cardinality(holders) <= setting.channel
          /\ timeouts_done \in Nat /\ timeouts_done <= Cardinality(MayHaveFired)
        BY DEF GtInv, TimeoutInv
    <1>2. /\ setting.threads + setting.channel <= setting.io
          /\ setting.threads \in Nat /\ setting.channel \in Nat /\ setting.io \in Nat
        BY <1>1, SettingsAssumption DEF RoomForTimeouts
    <1>3. /\ submission \subseteq Users /\ kernel \subseteq Users /\ ToSet(completion) \subseteq Users
          /\ submission \cap kernel = {} /\ ToSet(completion) \cap (submission \cup kernel) = {}
          /\ Cardinality(ToSet(completion)) = Len(completion)
        BY InToSet, InjectiveLen DEF GtInv, QueueTypes
    <1> DEFINE L == {d \in Users : state[d] # "FREE"}
    <1>4. /\ Cardinality(submission) + Cardinality(kernel) + Len(completion) <= setting.threads
          /\ Cardinality(submission) \in Nat /\ Cardinality(kernel) \in Nat /\ Len(completion) \in Nat
        <2>1. IsFiniteSet(submission) /\ IsFiniteSet(kernel) /\ IsFiniteSet(ToSet(completion))
            BY <1>3, UsersFinite
        <2>2. /\ IsFiniteSet(submission \cup kernel)
              /\ Cardinality(submission \cup kernel) = Cardinality(submission) + Cardinality(kernel)
              /\ Cardinality(submission) \in Nat /\ Cardinality(kernel) \in Nat
            BY <1>3, <2>1, CardDisjoint
        <2>3. /\ Cardinality((submission \cup kernel) \cup ToSet(completion))
                    = Cardinality(submission \cup kernel) + Cardinality(ToSet(completion))
              /\ Cardinality(ToSet(completion)) \in Nat
            <3>1. (submission \cup kernel) \cap ToSet(completion) = {}
                BY <1>3
            <3> QED BY <2>1, <2>2, <3>1, CardDisjoint
        <2>4. InFlight \subseteq L /\ InFlight = (submission \cup kernel) \cup ToSet(completion)
            <3>1. InFlight \subseteq Users
                BY <1>3 DEF InFlight
            <3>2. \A d \in Users : at[d] = "timeout" => state[d] = "RUNNING"
                BY DEF GtInv, PlaceInv, EngineInv, Contexts
            <3> QED BY <3>1, <3>2 DEF GtInv, PlaceInv, Suspended, InFlight
        <2>5. IsFiniteSet(L) /\ user_ctx = Cardinality(L) /\ Cardinality(L) \in Nat
            BY UsersFinite DEF GtInv, EngineInv
        <2> HIDE DEF L
        <2>6. Cardinality(InFlight) <= Cardinality(L)
            BY <2>4, <2>5, FS_Subset
        <2> QED BY <1>1, <1>2, <1>3, <2>2, <2>3, <2>4, <2>5, <2>6
    <1>5. /\ Cardinality(link_timeouts) + Cardinality(armed) + timeouts_done < setting.channel
          /\ Cardinality(link_timeouts) \in Nat /\ Cardinality(armed) \in Nat
        <2>1. /\ holders \subseteq Users
              /\ link_timeouts \subseteq submission \cap holders /\ armed \subseteq kernel \cap holders
            BY DEF GtInv, TimeoutInv
        <2>2. /\ MayHaveFired \subseteq holders /\ MayHaveFired \cap submission = {}
              /\ MayHaveFired \cap armed = {}
            BY <1>3 DEF MayHaveFired
        <2>3. IsFiniteSet(link_timeouts) /\ IsFiniteSet(armed) /\ IsFiniteSet(MayHaveFired)
              /\ IsFiniteSet(holders)
            BY <2>1, <2>2, UsersFinite
        <2>4. /\ IsFiniteSet(link_timeouts \cup armed)
              /\ Cardinality(link_timeouts \cup armed) = Cardinality(link_timeouts) + Cardinality(armed)
              /\ Cardinality(link_timeouts) \in Nat /\ Cardinality(armed) \in Nat
            <3>1. link_timeouts \cap armed = {}
                BY <1>3, <2>1
            <3> QED BY <2>3, <3>1, CardDisjoint
        <2>5. /\ IsFiniteSet((link_timeouts \cup armed) \cup MayHaveFired)
              /\ Cardinality((link_timeouts \cup armed) \cup MayHaveFired)
                    = Cardinality(link_timeouts \cup armed) + Cardinality(MayHaveFired)
              /\ Cardinality(MayHaveFired) \in Nat
            <3>1. (link_timeouts \cup armed) \cap MayHaveFired = {}
                BY <2>1, <2>2
            <3> QED BY <2>3, <2>4, <3>1, CardDisjoint
        <2>6. (link_timeouts \cup armed) \cup MayHaveFired \subseteq holders \ {c}
            BY <1>1, <1>3, <2>1, <2>2
        <2>7. /\ IsFiniteSet(holders \ {c}) /\ Cardinality(holders \ {c}) = Cardinality(holders) - 1
              /\ Cardinality(holders) \in Nat
            BY <1>1, <2>3, FS_RemoveElement, FS_CardinalityType
        <2>8. Cardinality((link_timeouts \cup armed) \cup MayHaveFired) <= Cardinality(holders \ {c})
            BY <2>6, <2>7, FS_Subset
        <2> QED BY <1>1, <1>2, <2>4, <2>5, <2>7, <2>8
    <1>6. m_enqueued = Cardinality(submission) + Cardinality(link_timeouts)
                          + Cardinality(kernel) + Cardinality(armed) + (Len(completion) + timeouts_done)
        BY DEF GtInv, SlotsAccountedFor, InCompletionQueue
    <1>7. timeouts_done \in Nat
        BY <1>1
    <1>8. Cardinality(submission) + Cardinality(link_timeouts) + Cardinality(kernel)
             + Cardinality(armed) + (Len(completion) + timeouts_done) < setting.io
        BY <1>2, <1>4, <1>5, <1>7, SlotArithmetic
    <1> QED BY <1>6, <1>8

\* There is no slot: the caller waits for one.
LEMMA StepAcquire ==
    ASSUME RoomForTimeouts, GtInv, NEW c \in Users, acquire(c)
    PROVE  GtInv'
    <1>0. setting \in Settings /\ setting.io \in Nat \ {0}
        BY SettingsAssumption DEF GtInv, TimeoutInv
    <1>1. at[c] # "timeout"
        <2>1. current_ctx = c /\ m_enqueued = setting.io
            BY DEF acquire
        <2> QED BY <1>0, <2>1, TimeoutHasSlot
    <1>2. /\ current_ctx = c /\ at[c] \in {"run", "channel", "flow"} /\ "flow" \in AllLabels
          /\ m_enqueued = setting.io
          /\ flow_queue' = Append(flow_queue, c) /\ yield(c, <<>>, FALSE, "flow")
          /\ UNCHANGED <<wait_queue, m_jobs, m_done, setting, holders, channel_queue, m_enqueued,
                         submission, link_timeouts, kernel, armed, completion, timeouts_done>>
        BY <1>1 DEF acquire, waitVars, channelVars, kernelVars, completionVars, AllLabels, UserLabels
    <1>3. /\ EngineInv' /\ IoInv' /\ SleepsOnlyWhenIdle'
          /\ user_ctx' = user_ctx /\ user_ctx' \in Int
          /\ at'[c] = "flow" /\ \A d \in Users \ {c} : at'[d] = at[d]
          /\ \A d \in Users : state'[d] = "FREE" <=> state[d] = "FREE"
          /\ \A d \in Users : state'[d] = "SUSPENDED" <=> d = c \/ state[d] = "SUSPENDED"
          /\ state[c] = "RUNNING"
        BY <1>2, UserSleeps
    <1>4. c \notin InFlight /\ c \notin ToSet(flow_queue)
        BY <1>2, <1>3 DEF GtInv, PlaceInv, Suspended
    <1>5. InFlight' = InFlight
        BY <1>2 DEF InFlight
    <1>6. /\ flow_queue' \in Seq(Users) /\ IsInjective(flow_queue')
          /\ ToSet(flow_queue') = ToSet(flow_queue) \cup {c}
        BY <1>2, <1>4, AppendSet DEF GtInv, QueueTypes
    <1>7. QueueTypes' /\ JobInv'
        BY <1>2, <1>3, <1>6, JobQuiet DEF GtInv, QueueTypes, Suspended
    <1>8. PlaceInv'
        <2> SUFFICES ASSUME NEW d \in Users
                     PROVE  /\ d \in ToSet(wait_queue) <=> Suspended(d)' /\ at'[d] = "cond"
                            /\ d \in ToSet(channel_queue) <=> Suspended(d)' /\ at'[d] = "channel wait"
                            /\ d \in ToSet(flow_queue') <=> Suspended(d)' /\ at'[d] = "flow"
                            /\ d \in InFlight <=> (Suspended(d)' /\ at'[d] = "io") \/ at'[d] = "timeout"
                            /\ Suspended(d)' => at'[d] \in {"cond", "channel wait", "flow", "io", "job"}
                            /\ at'[d] \in {"timeout", "channel", "jobs"} => current_ctx' = d
                            /\ state'[d] = "FREE" => at'[d] = "run"
            BY <1>2, <1>5 DEF PlaceInv
        <2> QED BY <1>2, <1>3, <1>4, <1>6 DEF GtInv, PlaceInv, Suspended
    <1>9. MayHaveFired' = MayHaveFired
        BY <1>2 DEF MayHaveFired
    <1>10. TimeoutInv'
        BY <1>2, <1>3, <1>9 DEF GtInv, TimeoutInv
    <1>11. SlotsAccountedFor'
        BY <1>0, <1>2 DEF GtInv, SlotsAccountedFor, InCompletionQueue
    <1> QED BY <1>3, <1>7, <1>8, <1>10, <1>11 DEF GtInv

\* The terms of SlotsAccountedFor are numbers.
LEMMA SlotsTyped ==
    ASSUME GtInv
    PROVE  /\ Cardinality(submission) \in Nat /\ Cardinality(link_timeouts) \in Nat
           /\ Cardinality(kernel) \in Nat /\ Cardinality(armed) \in Nat
           /\ Len(completion) \in Nat /\ timeouts_done \in Nat
           /\ m_enqueued \in Nat /\ setting.io \in Nat \ {0} /\ m_enqueued <= setting.io
    <1>1. /\ submission \subseteq Users /\ link_timeouts \subseteq Users /\ kernel \subseteq Users
          /\ armed \subseteq Users /\ timeouts_done \in Nat /\ setting \in Settings
        BY DEF GtInv, QueueTypes, TimeoutInv
    <1>2. /\ Cardinality(submission) \in Nat /\ Cardinality(link_timeouts) \in Nat
          /\ Cardinality(kernel) \in Nat /\ Cardinality(armed) \in Nat
        BY <1>1, UsersFinite
    <1>3. Len(completion) \in Nat
        BY LenProperties DEF GtInv, QueueTypes
    <1>4. m_enqueued \in Nat /\ m_enqueued <= setting.io
        BY <1>1, <1>2, <1>3 DEF GtInv, SlotsAccountedFor, InCompletionQueue
    <1> QED BY <1>1, <1>2, <1>3, <1>4, SettingsAssumption

\* A request takes a slot and is prepared.
LEMMA StepRequest ==
    ASSUME GtInv, NEW c \in Users, NEW timed \in BOOLEAN, Request(c, timed)
    PROVE  GtInv'
    <1>1. /\ current_ctx = c /\ at[c] \in {"run", "channel", "flow"}
          /\ timed => c \in holders /\ setting.timeouts
          /\ m_enqueued # setting.io
          /\ m_enqueued' = m_enqueued + 1
          /\ submission' = submission \cup {c}
          /\ UNCHANGED <<wait_queue, m_jobs, m_done, setting, holders, channel_queue, flow_queue,
                         link_timeouts, kernel, armed, completion, timeouts_done>>
          /\ "timeout" \in AllLabels /\ "io" \in AllLabels
        BY DEF Request, Prepare, waitVars, channelVars, kernelVars, completionVars, AllLabels, UserLabels
    <1>2. PICK label \in {"timeout", "io"} :
             /\ EngineInv' /\ IoInv' /\ SleepsOnlyWhenIdle'
             /\ user_ctx' = user_ctx
             /\ at'[c] = label /\ \A d \in Users \ {c} : at'[d] = at[d]
             /\ \A d \in Users : state'[d] = "FREE" <=> state[d] = "FREE"
             /\ \A d \in Users \ {c} : state'[d] = "SUSPENDED" <=> state[d] = "SUSPENDED"
             /\ state[c] = "RUNNING"
             /\ \/ label = "timeout" /\ timed /\ current_ctx' = c /\ state'[c] # "SUSPENDED"
                \/ label = "io" /\ state'[c] = "SUSPENDED"
        <2>1. CASE timed /\ GoOn(c, <<>>, "timeout")
            <3>1. /\ EngineInv' /\ IoInv' /\ SleepsOnlyWhenIdle'
                  /\ user_ctx' = user_ctx
                  /\ at'[c] = "timeout" /\ \A d \in Users \ {c} : at'[d] = at[d]
                  /\ \A d \in Users : state'[d] = "FREE" <=> state[d] = "FREE"
                  /\ \A d \in Users : state'[d] = "SUSPENDED" <=> state[d] = "SUSPENDED"
                  /\ state[c] = "RUNNING" /\ current_ctx' = c
                BY <1>1, <2>1, NobodyWoken, UserGoesOn
            <3> QED BY <2>1, <3>1
        <2>2. CASE yield(c, <<>>, FALSE, "io")
            <3>1. /\ EngineInv' /\ IoInv' /\ SleepsOnlyWhenIdle'
                  /\ user_ctx' = user_ctx
                  /\ at'[c] = "io" /\ \A d \in Users \ {c} : at'[d] = at[d]
                  /\ \A d \in Users : state'[d] = "FREE" <=> state[d] = "FREE"
                  /\ \A d \in Users : state'[d] = "SUSPENDED" <=> d = c \/ state[d] = "SUSPENDED"
                  /\ state[c] = "RUNNING"
                BY <1>1, <2>2, UserSleeps
            <3> QED BY <3>1
        <2> QED BY <2>1, <2>2 DEF Request, Prepare
    <1>3. c \notin InFlight
        BY <1>1, <1>2 DEF GtInv, PlaceInv, Suspended
    <1>4. InFlight' = InFlight \cup {c}
        BY <1>1 DEF InFlight
    <1>5. QueueTypes' /\ JobInv'
        <2>1. QueueTypes'
            BY <1>1, <1>3 DEF GtInv, QueueTypes, InFlight
        <2>2. JobInv'
            BY <1>1, <1>2, JobQuiet DEF GtInv, Suspended
        <2> QED BY <2>1, <2>2
    <1>6. PlaceInv'
        <2> SUFFICES ASSUME NEW d \in Users
                     PROVE  /\ d \in ToSet(wait_queue) <=> Suspended(d)' /\ at'[d] = "cond"
                            /\ d \in ToSet(channel_queue) <=> Suspended(d)' /\ at'[d] = "channel wait"
                            /\ d \in ToSet(flow_queue) <=> Suspended(d)' /\ at'[d] = "flow"
                            /\ d \in InFlight' <=> (Suspended(d)' /\ at'[d] = "io") \/ at'[d] = "timeout"
                            /\ Suspended(d)' => at'[d] \in {"cond", "channel wait", "flow", "io", "job"}
                            /\ at'[d] \in {"timeout", "channel", "jobs"} => current_ctx' = d
                            /\ state'[d] = "FREE" => at'[d] = "run"
            BY <1>1 DEF PlaceInv
        <2>1. CASE d = c
            BY <1>1, <1>2, <1>3, <1>4, <2>1 DEF GtInv, PlaceInv, Suspended
        <2>2. CASE d # c
            BY <1>1, <1>2, <1>3, <1>4, <2>2, ZenonT(40) DEF GtInv, PlaceInv, Suspended
        <2> QED BY <2>1, <2>2
    <1>7. MayHaveFired' = MayHaveFired
        BY <1>1 DEF MayHaveFired
    <1>8. TimeoutInv'
        <2>1. c \notin link_timeouts
            BY <1>3 DEF GtInv, TimeoutInv, InFlight
        <2>2. \A d \in Users : at'[d] = "timeout" =>
                 setting.timeouts /\ d \in holders /\ d \in submission' \ link_timeouts
            BY <1>1, <1>2, <2>1 DEF GtInv, TimeoutInv
        <2>3. \A d \in holders : at'[d] \in {"channel", "flow", "timeout", "io"}
            BY <1>2 DEF GtInv, TimeoutInv
        <2> QED BY <1>1, <1>2, <1>7, <2>2, <2>3 DEF GtInv, TimeoutInv
    <1>9. SlotsAccountedFor'
        <2>1. Cardinality(submission') = Cardinality(submission) + 1
              /\ Cardinality(submission) \in Nat
            <3>1. IsFiniteSet(submission) /\ c \notin submission /\ Cardinality(submission) \in Nat
                BY <1>3, UsersFinite DEF GtInv, QueueTypes, InFlight
            <3> QED BY <1>1, <3>1, FS_AddElement
        <2>2. /\ m_enqueued \in Nat /\ m_enqueued' = m_enqueued + 1
              /\ m_enqueued' <= setting.io /\ m_enqueued' > 0
            BY <1>1, SlotsTyped
        <2>3. m_enqueued = Cardinality(submission) + Cardinality(link_timeouts)
                              + Cardinality(kernel) + Cardinality(armed) + (Len(completion) + timeouts_done)
            BY DEF GtInv, SlotsAccountedFor, InCompletionQueue
        <2>4. m_enqueued' = Cardinality(submission') + Cardinality(link_timeouts')
                               + Cardinality(kernel) + Cardinality(armed) + (Len(completion) + timeouts_done)
            BY <1>1, <2>1, <2>2, <2>3, SlotsTyped, SMTT(30)
        <2> QED BY <1>1, <2>2, <2>4 DEF GtInv, SlotsAccountedFor, InCompletionQueue
    <1> QED BY <1>2, <1>5, <1>6, <1>8, <1>9 DEF GtInv

\* The timeout of a request takes the next slot.
LEMMA StepAddTimeout ==
    ASSUME GtInv, NEW c \in Users, add_timeout_to(c)
    PROVE  GtInv'
    <1>1. /\ current_ctx = c /\ at[c] = "timeout" /\ m_enqueued # setting.io
          /\ m_enqueued' = m_enqueued + 1 /\ link_timeouts' = link_timeouts \cup {c}
          /\ yield(c, <<>>, FALSE, "io") /\ "io" \in AllLabels
          /\ UNCHANGED <<wait_queue, m_jobs, m_done, setting, holders, channel_queue, flow_queue,
                         submission, kernel, armed, completion, timeouts_done>>
        BY DEF add_timeout_to, waitVars, channelVars, kernelVars, completionVars, AllLabels, UserLabels
    <1>2. /\ EngineInv' /\ IoInv' /\ SleepsOnlyWhenIdle'
          /\ user_ctx' = user_ctx
          /\ at'[c] = "io" /\ \A d \in Users \ {c} : at'[d] = at[d]
          /\ \A d \in Users : state'[d] = "FREE" <=> state[d] = "FREE"
          /\ \A d \in Users : state'[d] = "SUSPENDED" <=> d = c \/ state[d] = "SUSPENDED"
          /\ state[c] = "RUNNING"
        BY <1>1, UserSleeps
    <1>3. /\ c \in InFlight /\ c \in submission /\ c \notin link_timeouts /\ c \in holders
          /\ setting.timeouts
        BY <1>1 DEF GtInv, PlaceInv, TimeoutInv
    <1>4. InFlight' = InFlight
        BY <1>1 DEF InFlight
    <1>5. QueueTypes' /\ JobInv'
        BY <1>1, <1>2, JobQuiet DEF GtInv, QueueTypes, Suspended
    <1>6. PlaceInv'
        <2> SUFFICES ASSUME NEW d \in Users
                     PROVE  /\ d \in ToSet(wait_queue) <=> Suspended(d)' /\ at'[d] = "cond"
                            /\ d \in ToSet(channel_queue) <=> Suspended(d)' /\ at'[d] = "channel wait"
                            /\ d \in ToSet(flow_queue) <=> Suspended(d)' /\ at'[d] = "flow"
                            /\ d \in InFlight <=> (Suspended(d)' /\ at'[d] = "io") \/ at'[d] = "timeout"
                            /\ Suspended(d)' => at'[d] \in {"cond", "channel wait", "flow", "io", "job"}
                            /\ at'[d] \in {"timeout", "channel", "jobs"} => current_ctx' = d
                            /\ state'[d] = "FREE" => at'[d] = "run"
            BY <1>1, <1>4 DEF PlaceInv
        <2> QED BY <1>1, <1>2, <1>3 DEF GtInv, PlaceInv, Suspended
    <1>7. MayHaveFired' = MayHaveFired
        BY <1>1 DEF MayHaveFired
    <1>8. TimeoutInv'
        <2>1. \A d \in Users : at'[d] = "timeout" =>
                 setting.timeouts /\ d \in holders /\ d \in submission \ link_timeouts'
            BY <1>1, <1>2 DEF GtInv, TimeoutInv
        <2>2. \A d \in holders : at'[d] \in {"channel", "flow", "timeout", "io"}
            BY <1>2 DEF GtInv, TimeoutInv
        <2>3. link_timeouts' \subseteq submission \cap holders
            BY <1>1, <1>3 DEF GtInv, TimeoutInv
        <2> QED BY <1>1, <1>2, <1>3, <1>7, <2>1, <2>2, <2>3 DEF GtInv, TimeoutInv
    <1>9. SlotsAccountedFor'
        <2>1. /\ Cardinality(link_timeouts') = Cardinality(link_timeouts) + 1
              /\ Cardinality(link_timeouts) \in Nat
            <3>1. IsFiniteSet(link_timeouts) /\ Cardinality(link_timeouts) \in Nat
                BY UsersFinite DEF GtInv, QueueTypes, TimeoutInv
            <3> QED BY <1>1, <1>3, <3>1, FS_AddElement
        <2>2. /\ m_enqueued \in Nat /\ m_enqueued' = m_enqueued + 1
              /\ m_enqueued' <= setting.io /\ m_enqueued' > 0
            BY <1>1, SlotsTyped
        <2>3. m_enqueued = Cardinality(submission) + Cardinality(link_timeouts)
                              + Cardinality(kernel) + Cardinality(armed) + (Len(completion) + timeouts_done)
            BY DEF GtInv, SlotsAccountedFor, InCompletionQueue
        <2>4. m_enqueued' = Cardinality(submission') + Cardinality(link_timeouts')
                               + Cardinality(kernel) + Cardinality(armed) + (Len(completion) + timeouts_done)
            BY <1>1, <2>1, <2>2, <2>3, SlotsTyped, SMTT(30)
        <2> QED BY <1>1, <2>2, <2>4 DEF GtInv, SlotsAccountedFor, InCompletionQueue
    <1> QED BY <1>2, <1>5, <1>6, <1>8, <1>9 DEF GtInv

-----------------------------------------------------------------------------
(* The io thread and the kernel. *)

\* What of the requests the kernel or the io thread moves on: the contexts stay
\* where they are.
LEMMA IoMoves ==
    ASSUME GtInv, EngineInv', IoInv', SleepsOnlyWhenIdle', QueueTypes', SlotsAccountedFor',
           UNCHANGED <<wait_queue, m_jobs, m_done, setting, holders, channel_queue, flow_queue>>,
           InFlight' = InFlight, user_ctx' = user_ctx, current_ctx' = current_ctx,
           \A d \in Users : state'[d] = state[d] /\ at'[d] = at[d],
           \A d \in Users : at[d] = "timeout" => d \in submission' \ link_timeouts',
           link_timeouts' \subseteq link_timeouts, link_timeouts' \subseteq submission',
           armed' \subseteq kernel' \cap holders,
           timeouts_done' \in Nat, timeouts_done' <= Cardinality(MayHaveFired')
    PROVE  GtInv'
    <1>1. PlaceInv'
        <2> SUFFICES ASSUME NEW d \in Users
                     PROVE  /\ d \in ToSet(wait_queue) <=> Suspended(d)' /\ at'[d] = "cond"
                            /\ d \in ToSet(channel_queue) <=> Suspended(d)' /\ at'[d] = "channel wait"
                            /\ d \in ToSet(flow_queue) <=> Suspended(d)' /\ at'[d] = "flow"
                            /\ d \in InFlight <=> (Suspended(d)' /\ at'[d] = "io") \/ at'[d] = "timeout"
                            /\ Suspended(d)' => at'[d] \in {"cond", "channel wait", "flow", "io", "job"}
                            /\ at'[d] \in {"timeout", "channel", "jobs"} => current_ctx' = d
                            /\ state'[d] = "FREE" => at'[d] = "run"
            BY DEF PlaceInv
        <2> QED BY DEF GtInv, PlaceInv, Suspended
    <1>2. JobInv'
        BY JobQuiet DEF GtInv, Suspended
    <1>3. TimeoutInv'
        <2>1. \A d \in holders : at'[d] \in {"channel", "flow", "timeout", "io"}
            BY DEF GtInv, TimeoutInv
        <2>2. \A d \in Users : at'[d] = "timeout" =>
                 setting.timeouts /\ d \in holders /\ d \in submission' \ link_timeouts'
            BY DEF GtInv, TimeoutInv
        <2> QED BY <2>1, <2>2 DEF GtInv, TimeoutInv
    <1> QED BY <1>1, <1>2, <1>3 DEF GtInv

\* io_uring_submit: requests go to the kernel with their timeouts.
LEMMA SubmitMoves ==
    ASSUME GtInv, Submit, current_ctx = Io
    PROVE  /\ kernel' = kernel \cup submission /\ armed' = armed \cup link_timeouts
           /\ submission' = {} /\ link_timeouts' = {}
           /\ timeouts_done' = timeouts_done /\ completion' = completion
           /\ Cardinality(kernel') = Cardinality(kernel) + Cardinality(submission)
           /\ Cardinality(armed') = Cardinality(armed) + Cardinality(link_timeouts)
           /\ Cardinality(submission') = 0 /\ Cardinality(link_timeouts') = 0
    <1>1. /\ link_timeouts \subseteq submission /\ armed \subseteq kernel
          /\ submission \subseteq Users /\ kernel \subseteq Users /\ submission \cap kernel = {}
          /\ timeouts_done \in Nat
        BY DEF GtInv, TimeoutInv, QueueTypes
    <1>2. link_timeouts \cap submission = link_timeouts /\ link_timeouts \ submission = {}
        BY <1>1
    <1>3. Cardinality({}) = 0
        BY FS_EmptySet
    <1>4. /\ kernel' = kernel \cup submission /\ armed' = armed \cup link_timeouts
          /\ submission' = {} /\ link_timeouts' = {} /\ completion' = completion
          /\ timeouts_done' = timeouts_done + 0
        BY <1>2, <1>3 DEF Submit
    <1>5. Cardinality(kernel \cup submission) = Cardinality(kernel) + Cardinality(submission)
        <2>1. kernel \cap submission = {} /\ IsFiniteSet(kernel) /\ IsFiniteSet(submission)
            BY <1>1, UsersFinite
        <2> QED BY <2>1, CardDisjoint
    <1>6. Cardinality(armed \cup link_timeouts) = Cardinality(armed) + Cardinality(link_timeouts)
        <2>1. /\ armed \cap link_timeouts = {} /\ armed \subseteq Users /\ link_timeouts \subseteq Users
            BY <1>1
        <2>2. IsFiniteSet(armed) /\ IsFiniteSet(link_timeouts)
            BY <2>1, UsersFinite
        <2> QED BY <2>1, <2>2, CardDisjoint
    <1>7. timeouts_done' = timeouts_done
        BY <1>1, <1>4
    <1> QED BY <1>3, <1>4, <1>5, <1>6, <1>7

LEMMA StepIoSubmit ==
    ASSUME GtInv, IoSubmit(Io)
    PROVE  GtInv'
    <1>1. /\ current_ctx = Io /\ at[Io] = "run" /\ m_enqueued # 0 /\ Io \in Contexts
          /\ IF last_enqueued # m_enqueued \/ CanSleep THEN Submit ELSE NoSubmit
          /\ GoOn(Io, <<>>, IF CanSleep THEN "sleep" ELSE "reap")
          /\ UNCHANGED <<wait_queue, m_jobs, m_done, setting, holders, channel_queue, m_enqueued,
                         flow_queue>>
        BY DEF IoSubmit, Contexts, waitVars, channelVars
    <1>2. PICK label \in {"sleep", "reap"} :
             GoOn(Io, <<>>, label) /\ (label = "sleep" => CanSleep)
        BY <1>1
    <1>3. /\ EngineInv'
          /\ at' = [at EXCEPT ![Io] = label]
          /\ UNCHANGED <<current_ctx, user_ctx>>
          /\ \A d \in Contexts : state'[d] = state[d]
        <2>1. label \in AllLabels /\ EngineInv
            BY DEF AllLabels, GtInv
        <2> QED BY <1>1, <1>2, <2>1, NobodyWoken, GoOnShape
    <1>4. at'[Io] = label /\ \A d \in Users : at'[d] = at[d] /\ state'[d] = state[d]
        BY <1>3, ContextsAssumption DEF GtInv, EngineInv, Contexts
    <1>5. IoInv'
        BY <1>1, <1>3, <1>4 DEF IoInv
    <1>6. \A d \in Users : at[d] # "timeout"
        BY <1>1, ContextsAssumption DEF GtInv, PlaceInv
    <1>7. /\ InFlight' = InFlight /\ QueueTypes' /\ SlotsAccountedFor'
          /\ link_timeouts' \subseteq link_timeouts /\ link_timeouts' \subseteq submission'
          /\ armed' \subseteq kernel' \cap holders
          /\ timeouts_done' = timeouts_done /\ timeouts_done \in Nat /\ completion' = completion
          /\ MayHaveFired \subseteq MayHaveFired'
        <2>1. CASE Submit
            <3>1. /\ kernel' = kernel \cup submission /\ armed' = armed \cup link_timeouts
                  /\ submission' = {} /\ link_timeouts' = {}
                  /\ timeouts_done' = timeouts_done /\ completion' = completion
                  /\ Cardinality(kernel') = Cardinality(kernel) + Cardinality(submission)
                  /\ Cardinality(armed') = Cardinality(armed) + Cardinality(link_timeouts)
                  /\ Cardinality(submission') = 0 /\ Cardinality(link_timeouts') = 0
                BY <1>1, <2>1, SubmitMoves
            <3>2. InFlight' = InFlight
                BY <3>1 DEF InFlight
            <3>3. QueueTypes'
                BY <1>1, <3>1 DEF GtInv, QueueTypes
            <3>4. SlotsAccountedFor'
                <4>1. m_enqueued = Cardinality(submission) + Cardinality(link_timeouts) + Cardinality(kernel)
                                      + Cardinality(armed) + (Len(completion) + timeouts_done)
                    BY DEF GtInv, SlotsAccountedFor, InCompletionQueue
                <4>2. m_enqueued = Cardinality(submission') + Cardinality(link_timeouts')
                                      + Cardinality(kernel') + Cardinality(armed')
                                      + (Len(completion) + timeouts_done)
                    BY <3>1, <4>1, SlotsTyped
                <4> QED BY <1>1, <3>1, <4>2 DEF GtInv, SlotsAccountedFor, InCompletionQueue
            <3>5. armed' \subseteq kernel' \cap holders
                BY <3>1 DEF GtInv, TimeoutInv
            <3>6. MayHaveFired \subseteq MayHaveFired'
                BY <1>1, <3>1 DEF GtInv, MayHaveFired, TimeoutInv, QueueTypes
            <3> QED BY <3>1, <3>2, <3>3, <3>4, <3>5, <3>6 DEF GtInv, TimeoutInv
        <2>2. CASE NoSubmit
            <3>1. UNCHANGED <<submission, link_timeouts, kernel, armed, completion, timeouts_done>>
                BY <2>2 DEF NoSubmit, kernelVars, completionVars
            <3>2. InFlight' = InFlight /\ QueueTypes' /\ SlotsAccountedFor' /\ MayHaveFired' = MayHaveFired
                BY <1>1, <3>1 DEF GtInv, InFlight, QueueTypes, SlotsAccountedFor, InCompletionQueue,
                                  MayHaveFired
            <3> QED BY <3>1, <3>2 DEF GtInv, TimeoutInv
        <2> QED BY <1>1, <2>1, <2>2
    <1>8. timeouts_done' <= Cardinality(MayHaveFired')
        <2>1. MayHaveFired' \subseteq Users
            BY <1>1 DEF MayHaveFired, GtInv, TimeoutInv
        <2>2. /\ IsFiniteSet(MayHaveFired') /\ Cardinality(MayHaveFired') \in Nat
              /\ Cardinality(MayHaveFired) <= Cardinality(MayHaveFired')
              /\ Cardinality(MayHaveFired) \in Nat
            BY <1>7, <2>1, UsersFinite, FS_Subset
        <2> QED BY <1>7, <2>2 DEF GtInv, TimeoutInv
    <1>9. SleepsOnlyWhenIdle'
        <2> SUFFICES ASSUME label = "sleep"
                     PROVE  SleepsOnlyWhenIdle'
            BY <1>4 DEF SleepsOnlyWhenIdle
        <2>1. CanSleep /\ Submit
            BY <1>1, <1>2
        <2>2. In("WAITING")' = {}
            <3>1. {d \in Users : state[d] = "WAITING"} = {}
                BY <2>1, UsersFinite DEF CanSleep, GtInv, EngineInv
            <3>2. state[Io] = "RUNNING"
                BY <1>1 DEF GtInv, EngineInv
            <3> QED BY <1>3, <3>1, <3>2 DEF In, Contexts
        <2>3. /\ submission' = {} /\ link_timeouts' = {}
              /\ Cardinality(submission') = 0 /\ Cardinality(link_timeouts') = 0
            BY <1>1, <2>1, SubmitMoves
        <2>4. ASSUME kernel' = {} PROVE InCompletionQueue' # 0
            <3>1. armed' = {}
                BY <1>7, <2>4
            <3>2. Cardinality(kernel') = 0 /\ Cardinality(armed') = 0
                BY <2>4, <3>1, FS_EmptySet
            <3>3. m_enqueued' = 0 + 0 + 0 + 0 + InCompletionQueue'
                BY <1>7, <2>3, <3>2 DEF SlotsAccountedFor
            <3> QED BY <1>1, <3>3
        <2> QED BY <2>2, <2>3, <2>4 DEF SleepsOnlyWhenIdle
    <1> QED BY <1>1, <1>3, <1>4, <1>5, <1>6, <1>7, <1>8, <1>9, IoMoves

\* The kernel completes a request, and with it its timeout.
LEMMA StepComplete ==
    ASSUME GtInv, NEW c \in Users, Complete(c)
    PROVE  GtInv'
    <1>1. /\ c \in kernel /\ kernel' = kernel \ {c} /\ armed' = armed \ {c}
          /\ completion' = Append(completion, c)
          /\ timeouts_done' = timeouts_done + Cardinality(armed \cap {c})
          /\ UNCHANGED <<state, at, run_queue, current_ctx, user_ctx, user_ctx_waiting>>
          /\ UNCHANGED <<wait_queue, m_jobs, m_done, setting, holders, channel_queue, flow_queue,
                         m_enqueued, submission, link_timeouts>>
        BY DEF Complete, engineVars, waitVars, channelVars
    <1>2. /\ submission \cap kernel = {} /\ ToSet(completion) \cap (submission \cup kernel) = {}
          /\ completion \in Seq(Users) /\ IsInjective(completion)
          /\ armed \subseteq kernel \cap holders /\ holders \subseteq Users /\ kernel \subseteq Users
          /\ timeouts_done \in Nat /\ timeouts_done <= Cardinality(MayHaveFired)
        BY DEF GtInv, QueueTypes, TimeoutInv
    <1>3. /\ completion' \in Seq(Users) /\ IsInjective(completion')
          /\ ToSet(completion') = ToSet(completion) \cup {c} /\ Len(completion') = Len(completion) + 1
        BY <1>1, <1>2, AppendSet
    <1>4. EngineInv' /\ IoInv'
        BY <1>1 DEF GtInv, EngineInv, IoInv
    <1>5. InFlight' = InFlight
        BY <1>1, <1>3 DEF InFlight
    <1>6. QueueTypes'
        BY <1>1, <1>2, <1>3 DEF GtInv, QueueTypes
    <1>7. Cardinality(kernel') = Cardinality(kernel) - 1
        BY <1>1, <1>2, UsersFinite, FS_RemoveElement
    <1>8. /\ IsFiniteSet(MayHaveFired) /\ Cardinality(MayHaveFired) \in Nat
          /\ IsFiniteSet(armed) /\ Cardinality(armed) \in Nat
        <2>1. MayHaveFired \subseteq Users /\ armed \subseteq Users
            BY <1>2 DEF MayHaveFired
        <2> QED BY <2>1, UsersFinite
    <1>9. /\ timeouts_done' \in Nat /\ timeouts_done' <= Cardinality(MayHaveFired')
          /\ \/ Cardinality(armed') = Cardinality(armed) - 1 /\ timeouts_done' = timeouts_done + 1
             \/ Cardinality(armed') = Cardinality(armed) /\ timeouts_done' = timeouts_done
        <2>1. CASE c \in armed
            <3>1. armed \cap {c} = {c} /\ Cardinality({c}) = 1
                BY <2>1, FS_Singleton
            <3>2. Cardinality(armed') = Cardinality(armed) - 1
                BY <1>1, <1>8, <2>1, FS_RemoveElement
            <3>3. MayHaveFired' = MayHaveFired \cup {c} /\ c \notin MayHaveFired
                BY <1>1, <1>2, <1>3, <2>1 DEF MayHaveFired
            <3>4. Cardinality(MayHaveFired') = Cardinality(MayHaveFired) + 1
                BY <1>8, <3>3, FS_AddElement
            <3>5. timeouts_done' = timeouts_done + 1
                BY <1>1, <3>1
            <3> QED BY <1>2, <1>8, <3>2, <3>4, <3>5
        <2>2. CASE c \notin armed
            <3>1. armed \cap {c} = {} /\ Cardinality({}) = 0 /\ armed' = armed
                BY <1>1, <2>2, FS_EmptySet
            <3>2. MayHaveFired' = MayHaveFired
                BY <1>1, <1>2, <1>3, <3>1 DEF MayHaveFired
            <3>3. timeouts_done' = timeouts_done + 0
                BY <1>1, <3>1
            <3>4. timeouts_done' = timeouts_done
                BY <1>2, <3>3
            <3> QED BY <1>2, <1>8, <3>1, <3>2, <3>4
        <2> QED BY <2>1, <2>2
    <1>10. SlotsAccountedFor'
        <2>1. m_enqueued = Cardinality(submission) + Cardinality(link_timeouts) + Cardinality(kernel)
                              + Cardinality(armed) + (Len(completion) + timeouts_done)
            BY DEF GtInv, SlotsAccountedFor, InCompletionQueue
        <2>2. m_enqueued = Cardinality(submission) + Cardinality(link_timeouts) + Cardinality(kernel')
                              + Cardinality(armed') + (Len(completion') + timeouts_done')
            <3>1. Cardinality(kernel') = Cardinality(kernel) - 1 /\ Len(completion') = Len(completion) + 1
                BY <1>3, <1>7
            <3>2. CASE Cardinality(armed') = Cardinality(armed) - 1 /\ timeouts_done' = timeouts_done + 1
                BY <2>1, <3>1, <3>2, SlotsTyped, SMTT(30)
            <3>3. CASE Cardinality(armed') = Cardinality(armed) /\ timeouts_done' = timeouts_done
                BY <2>1, <3>1, <3>3, SlotsTyped
            <3> QED BY <1>9, <3>2, <3>3
        <2> QED BY <1>1, <2>2 DEF GtInv, SlotsAccountedFor, InCompletionQueue
    <1>11. SleepsOnlyWhenIdle'
        <2>1. InCompletionQueue' # 0
            BY <1>3, <1>9, SlotsTyped DEF InCompletionQueue
        <2> QED BY <1>1, <2>1 DEF GtInv, SleepsOnlyWhenIdle, In
    <1>12. /\ \A d \in Users : at[d] = "timeout" => d \in submission' \ link_timeouts'
           /\ link_timeouts' \subseteq submission'
           /\ armed' \subseteq kernel' \cap holders
        BY <1>1 DEF GtInv, TimeoutInv
    <1> QED BY <1>1, <1>4, <1>5, <1>6, <1>9, <1>10, <1>11, <1>12, IoMoves

\* A timeout fires.
LEMMA StepExpire ==
    ASSUME GtInv, NEW c \in Users, Expire(c)
    PROVE  GtInv'
    <1>1. /\ c \in armed /\ armed' = armed \ {c} /\ timeouts_done' = timeouts_done + 1
          /\ UNCHANGED <<state, at, run_queue, current_ctx, user_ctx, user_ctx_waiting>>
          /\ UNCHANGED <<wait_queue, m_jobs, m_done, setting, holders, channel_queue, flow_queue,
                         m_enqueued, submission, link_timeouts, kernel, completion>>
        BY DEF Expire, engineVars, waitVars, channelVars
    <1>2. /\ armed \subseteq kernel \cap holders /\ holders \subseteq Users
          /\ timeouts_done \in Nat /\ timeouts_done <= Cardinality(MayHaveFired)
        BY DEF GtInv, TimeoutInv
    <1>3. EngineInv' /\ IoInv' /\ QueueTypes' /\ InFlight' = InFlight
        BY <1>1 DEF GtInv, EngineInv, IoInv, QueueTypes, InFlight
    <1>4. /\ IsFiniteSet(MayHaveFired) /\ Cardinality(MayHaveFired) \in Nat
          /\ IsFiniteSet(armed) /\ Cardinality(armed) \in Nat
        <2>1. MayHaveFired \subseteq Users /\ armed \subseteq Users
            BY <1>2 DEF MayHaveFired
        <2> QED BY <2>1, UsersFinite
    <1>5. MayHaveFired' = MayHaveFired \cup {c} /\ c \notin MayHaveFired
        BY <1>1, <1>2 DEF MayHaveFired
    <1>6. Cardinality(MayHaveFired') = Cardinality(MayHaveFired) + 1
        BY <1>4, <1>5, FS_AddElement
    <1>7. Cardinality(armed') = Cardinality(armed) - 1
        BY <1>1, <1>4, FS_RemoveElement
    <1>8. timeouts_done' \in Nat /\ timeouts_done' <= Cardinality(MayHaveFired')
        BY <1>1, <1>2, <1>4, <1>6
    <1>9. SlotsAccountedFor'
        <2>1. m_enqueued = Cardinality(submission) + Cardinality(link_timeouts) + Cardinality(kernel)
                              + Cardinality(armed) + (Len(completion) + timeouts_done)
            BY DEF GtInv, SlotsAccountedFor, InCompletionQueue
        <2>2. m_enqueued = Cardinality(submission) + Cardinality(link_timeouts) + Cardinality(kernel)
                              + Cardinality(armed') + (Len(completion) + timeouts_done')
            BY <1>1, <1>7, <2>1, SlotsTyped
        <2> QED BY <1>1, <2>2 DEF GtInv, SlotsAccountedFor, InCompletionQueue
    <1>10. SleepsOnlyWhenIdle'
        <2>1. InCompletionQueue' # 0
            BY <1>1, SlotsTyped DEF InCompletionQueue
        <2> QED BY <1>1, <2>1 DEF GtInv, SleepsOnlyWhenIdle, In
    <1>11. /\ \A d \in Users : at[d] = "timeout" => d \in submission' \ link_timeouts'
           /\ link_timeouts' \subseteq submission'
           /\ armed' \subseteq kernel' \cap holders
        BY <1>1 DEF GtInv, TimeoutInv
    <1> QED BY <1>1, <1>3, <1>8, <1>9, <1>10, <1>11, IoMoves

\* The io thread wakes the contexts of completed requests and those that wait
\* for a slot.
LEMMA StepIoReap ==
    ASSUME GtInv, IoReap(Io)
    PROVE  GtInv'
    <1> DEFINE woken == completion \o flow_queue
    <1>1. /\ current_ctx = Io /\ Io \in Contexts /\ EngineInv /\ "run" \in AllLabels
          /\ m_enqueued' = m_enqueued - InCompletionQueue /\ flow_queue' = <<>>
          /\ completion' = <<>> /\ timeouts_done' = 0
          /\ yield(Io, woken, TRUE, "run")
          /\ UNCHANGED <<wait_queue, m_jobs, m_done, setting, holders, channel_queue,
                         submission, link_timeouts, kernel, armed>>
        BY DEF IoReap, release, Contexts, GtInv, waitVars, channelVars, kernelVars, AllLabels, UserLabels
    <1>2. /\ completion \in Seq(Users) /\ IsInjective(completion)
          /\ flow_queue \in Seq(Users) /\ IsInjective(flow_queue)
          /\ ToSet(completion) \subseteq Users /\ ToSet(flow_queue) \subseteq Users
        BY InToSet DEF GtInv, QueueTypes
    <1>3. \A d \in Users : at[d] \notin {"timeout", "channel", "jobs"}
        BY <1>1, ContextsAssumption DEF GtInv, PlaceInv
    <1>4. /\ \A d \in ToSet(completion) : state[d] = "SUSPENDED" /\ at[d] = "io"
          /\ \A d \in ToSet(flow_queue) : state[d] = "SUSPENDED" /\ at[d] = "flow"
        BY <1>2, <1>3 DEF GtInv, PlaceInv, Suspended, InFlight
    <1>5. /\ woken \in Seq(Users) /\ IsInjective(woken)
          /\ ToSet(woken) = ToSet(completion) \cup ToSet(flow_queue)
        <2>1. ToSet(completion) \cap ToSet(flow_queue) = {}
            BY <1>4
        <2> QED BY <1>2, <2>1, ConcatSet
    <1> HIDE DEF woken
    <1>6. Wakeable(woken)
        BY <1>4, <1>5 DEF Wakeable
    <1>7. /\ EngineInv'
          /\ at' = [at EXCEPT ![Io] = "run"]
          /\ user_ctx' = user_ctx
          /\ \A d \in Contexts : state'[d] = "FREE" <=> state[d] = "FREE"
          /\ \A d \in Contexts :
                state'[d] = "SUSPENDED" <=>
                    d # Io /\ state[d] = "SUSPENDED" /\ d \notin ToSet(woken)
        BY <1>1, <1>6, YieldAgain, ZenonT(30)
    <1>8. /\ at'[Io] = "run" /\ \A d \in Users : at'[d] = at[d]
          /\ \A d \in Users : state'[d] = "FREE" <=> state[d] = "FREE"
          /\ \A d \in Users :
                state'[d] = "SUSPENDED" <=>
                    state[d] = "SUSPENDED" /\ d \notin ToSet(completion) /\ d \notin ToSet(flow_queue)
        BY <1>5, <1>7, ContextsAssumption DEF GtInv, EngineInv, Contexts
    <1>9. IoInv' /\ SleepsOnlyWhenIdle'
        BY <1>8 DEF IoInv, SleepsOnlyWhenIdle
    <1>10. /\ ToSet(completion') = {} /\ ToSet(flow_queue') = {}
           /\ QueueTypes'
        BY <1>1, ShortSeqs DEF GtInv, QueueTypes
    <1>11. JobInv'
        BY <1>1, <1>8, JobQuiet DEF GtInv, Suspended
    <1>12. PlaceInv'
        <2>1. InFlight = InFlight' \cup ToSet(completion) /\ InFlight' \cap ToSet(completion) = {}
            BY <1>1, <1>10 DEF InFlight, GtInv, QueueTypes
        <2> SUFFICES ASSUME NEW d \in Users
                     PROVE  /\ d \in ToSet(wait_queue) <=> Suspended(d)' /\ at'[d] = "cond"
                            /\ d \in ToSet(channel_queue) <=> Suspended(d)' /\ at'[d] = "channel wait"
                            /\ d \in ToSet(flow_queue') <=> Suspended(d)' /\ at'[d] = "flow"
                            /\ d \in InFlight' <=> (Suspended(d)' /\ at'[d] = "io") \/ at'[d] = "timeout"
                            /\ Suspended(d)' => at'[d] \in {"cond", "channel wait", "flow", "io", "job"}
                            /\ at'[d] \in {"timeout", "channel", "jobs"} => current_ctx' = d
                            /\ state'[d] = "FREE" => at'[d] = "run"
            BY <1>1 DEF PlaceInv
        <2>2. CASE d \in ToSet(completion)
            BY <1>3, <1>4, <1>8, <1>10, <2>1, <2>2 DEF GtInv, PlaceInv, Suspended
        <2>3. CASE d \in ToSet(flow_queue)
            BY <1>3, <1>4, <1>8, <1>10, <2>1, <2>3 DEF GtInv, PlaceInv, Suspended
        <2>4. CASE d \notin ToSet(completion) /\ d \notin ToSet(flow_queue)
            BY <1>3, <1>8, <1>10, <2>1, <2>4 DEF GtInv, PlaceInv, Suspended
        <2> QED BY <2>2, <2>3, <2>4
    <1>13. TimeoutInv'
        <2>1. MayHaveFired' \subseteq Users
            BY <1>1 DEF GtInv, TimeoutInv, MayHaveFired
        <2>2. Cardinality(MayHaveFired') \in Nat
            BY <2>1, UsersFinite
        <2>3. timeouts_done' \in Nat /\ timeouts_done' <= Cardinality(MayHaveFired')
            BY <1>1, <2>2
        <2>4. \A d \in holders : at'[d] \in {"channel", "flow", "timeout", "io"}
            BY <1>8 DEF GtInv, TimeoutInv
        <2> QED BY <1>1, <1>3, <1>7, <1>8, <2>3, <2>4 DEF GtInv, TimeoutInv
    <1>14. SlotsAccountedFor'
        <2>1. m_enqueued = Cardinality(submission) + Cardinality(link_timeouts) + Cardinality(kernel)
                              + Cardinality(armed) + InCompletionQueue
            BY DEF GtInv, SlotsAccountedFor
        <2>2. InCompletionQueue \in Nat
            BY SlotsTyped DEF InCompletionQueue
        <2>3. m_enqueued' = Cardinality(submission) + Cardinality(link_timeouts) + Cardinality(kernel)
                               + Cardinality(armed) /\ m_enqueued' <= setting.io
            BY <1>1, <2>1, <2>2, SlotsTyped, SMTT(30)
        <2>4. Len(completion') + timeouts_done' = 0
            BY <1>1, ShortSeqs
        <2> QED BY <1>1, <2>3, <2>4, SlotsTyped DEF GtInv, SlotsAccountedFor, InCompletionQueue
    <1> QED BY <1>7, <1>9, <1>10, <1>11, <1>12, <1>13, <1>14 DEF GtInv

-----------------------------------------------------------------------------
(* The invariant. *)

LEMMA InitInv ==
    ASSUME RoomForTimeouts, GtInit
    PROVE  GtInv
    <1>1. /\ state = [c \in Contexts |->
                          IF c \in ToSet(Started) \cup {Io} THEN "WAITING" ELSE "FREE"]
          /\ at = [c \in Contexts |-> "run"]
          /\ run_queue = <<Io>> \o Started /\ current_ctx = Idle
          /\ user_ctx = Len(Started) /\ user_ctx_waiting = Len(Started)
          /\ wait_queue = <<>> /\ flow_queue = <<>> /\ channel_queue = <<>> /\ completion = <<>>
          /\ m_jobs = [c \in Users |-> <<>>] /\ m_done = [c \in Users |-> TRUE]
          /\ setting \in Settings
          /\ holders = {} /\ m_enqueued = 0 /\ submission = {} /\ link_timeouts = {}
          /\ kernel = {} /\ armed = {} /\ timeouts_done = 0
        BY DEF GtInit
    <1>2. /\ Started \in Seq(Users) /\ IsInjective(Started) /\ ToSet(Started) \subseteq Users
          /\ Started \in Seq(Contexts)
        BY StartedAssumption, InToSet, SeqMonotonic DEF IsInjective, Contexts
    <1>3. /\ Io \notin Users /\ Idle \notin Contexts /\ Io \in Contexts /\ Users \subseteq Contexts
        BY ContextsAssumption DEF Contexts
    <1>4. ToSet(<<>>) = {} /\ IsInjective(<<>>) /\ Len(<<>>) = 0 /\ <<>> \in Seq(Users)
        BY ShortSeqs
    <1>5. EngineInv
        <2> DEFINE one == <<Io>>
        <2>1. one \in Seq(Contexts) /\ ToSet(one) = {Io} /\ IsInjective(one) /\ run_queue = one \o Started
            BY <1>1, <1>3, ShortSeqs
        <2> HIDE DEF one
        <2>2. /\ run_queue \in Seq(Contexts) /\ IsInjective(run_queue)
              /\ ToSet(run_queue) = {Io} \cup ToSet(Started)
            <3>1. ToSet(one) \cap ToSet(Started) = {}
                BY <1>2, <1>3, <2>1
            <3> QED BY <1>2, <2>1, <3>1, ConcatSet
        <2>3. /\ {c \in Users : state[c] = "WAITING"} = ToSet(Started)
              /\ {c \in Users : state[c] # "FREE"} = ToSet(Started)
            BY <1>1, <1>2, <1>3
        <2>4. Cardinality(ToSet(Started)) = Len(Started)
            BY <1>2, InjectiveLen
        <2>5. /\ state \in [Contexts -> {"FREE", "WAITING", "RUNNING", "SUSPENDED"}]
              /\ at \in [Contexts -> UserLabels \cup {"sleep", "reap"}]
            BY <1>1 DEF UserLabels
        <2>6. /\ \A c \in Contexts : c \in ToSet(run_queue) <=> state[c] = "WAITING"
              /\ \A c \in Contexts : state[c] = "RUNNING" <=> c = current_ctx
              /\ state[Io] # "SUSPENDED"
            BY <1>1, <1>3, <2>2
        <2> QED BY <1>1, <2>2, <2>3, <2>4, <2>5, <2>6 DEF EngineInv
    <1>6. QueueTypes
        BY <1>1, <1>4 DEF QueueTypes
    <1>7. PlaceInv
        BY <1>1, <1>3, <1>4 DEF PlaceInv, Suspended, InFlight
    <1>8. JobInv
        BY <1>1, <1>3, <1>4 DEF JobInv, Suspended
    <1>9. Cardinality({}) = 0
        BY FS_EmptySet
    <1>10. /\ setting.channel \in Nat /\ setting.io \in Nat /\ setting.threads \in Nat
           /\ setting.timeouts => Len(Started) <= setting.threads
        BY <1>1, SettingsAssumption DEF RoomForTimeouts
    <1>11. TimeoutInv
        <2>1. MayHaveFired = {}
            BY <1>1 DEF MayHaveFired
        <2> QED BY <1>1, <1>3, <1>9, <1>10, <2>1 DEF TimeoutInv
    <1>12. IoInv /\ SleepsOnlyWhenIdle
        BY <1>1, <1>3 DEF IoInv, SleepsOnlyWhenIdle
    <1>13. SlotsAccountedFor
        BY <1>1, <1>4, <1>9, <1>10 DEF SlotsAccountedFor, InCompletionQueue
    <1> QED BY <1>5, <1>6, <1>7, <1>8, <1>11, <1>12, <1>13 DEF GtInv

LEMMA NextInv ==
    ASSUME RoomForTimeouts, GtInv, [GtNext]_gtVars
    PROVE  GtInv'
    <1>1. ASSUME NEW c \in Users, UserStep(c) PROVE GtInv'
        <2>1. ASSUME NEW d \in Users, CreateThread(c, d) \/ RunJob(c, d) PROVE GtInv'
            BY <2>1, StepCreate
        <2>2. CASE YieldTurn(c) \/ Resumed(c)
            BY <2>2, StepTurn
        <2>3. CASE wait(c)
            BY <2>3, StepWait
        <2>4. CASE signal(c) \/ signal_all(c)
            BY <2>4, StepSignal
        <2>5. CASE WaitJob(c)
            BY <2>5, StepWaitJob
        <2>6. CASE EndThread(c)
            BY <2>6, StepEndThread
        <2>7. CASE AcquireChannel(c)
            BY <2>7, StepTakeChannel, StepWaitChannel
        <2>8. CASE ReleaseChannel(c)
            BY <2>8, StepReleaseChannel
        <2>9. CASE acquire(c)
            BY <2>9, StepAcquire
        <2>10. ASSUME NEW timed \in BOOLEAN, Request(c, timed) PROVE GtInv'
            BY <2>10, StepRequest
        <2>11. CASE add_timeout_to(c)
            BY <2>11, StepAddTimeout
        <2> QED BY <1>1, <2>1, <2>2, <2>3, <2>4, <2>5, <2>6, <2>7, <2>8, <2>9, <2>10, <2>11
                DEF UserStep
    <1>2. CASE RunNext
        BY <1>2, StepRunNext
    <1>3. CASE RunReturns \/ UNCHANGED gtVars
        BY <1>3, StepRunReturns
    <1>4. CASE IoIdle(Io)
        BY <1>4, StepIoIdle
    <1>5. CASE IoSubmit(Io)
        BY <1>5, StepIoSubmit
    <1>6. CASE IoReap(Io)
        BY <1>6, StepIoReap
    <1>7. ASSUME NEW c \in Users, Complete(c) PROVE GtInv'
        BY <1>7, StepComplete
    <1>8. ASSUME NEW c \in Users, Expire(c) PROVE GtInv'
        BY <1>8, StepExpire
    <1> QED BY <1>1, <1>2, <1>3, <1>4, <1>5, <1>6, <1>7, <1>8 DEF GtNext, CpuStep

\* The invariant says where every context is.
LEMMA InvOnePlace ==
    ASSUME GtInv
    PROVE  OnePlaceEach
    <1>1. EnqueuedOnce /\ ToSet(run_queue) = In("WAITING")
        BY InToSet DEF GtInv, EngineInv, EnqueuedOnce, In
    <1>2. In("RUNNING") = {current_ctx} \ {Idle}
        BY ContextsAssumption DEF GtInv, EngineInv, In, Contexts
    <1>3. /\ IsInjective(wait_queue) /\ IsInjective(flow_queue)
          /\ IsInjective(channel_queue) /\ IsInjective(completion)
        BY DEF GtInv, QueueTypes
    <1>4. ASSUME NEW c \in In("SUSPENDED")
          PROVE  /\ c \in Users
                 /\ c \in ToSet(wait_queue) <=> at[c] = "cond"
                 /\ c \in ToSet(channel_queue) <=> at[c] = "channel wait"
                 /\ c \in ToSet(flow_queue) <=> at[c] \in {"flow", "timeout"}
                 /\ c \in InFlight <=> at[c] = "io"
                 /\ at[c] = "job" => m_jobs[c] # <<>> /\ ~m_done[Head(m_jobs[c])]
                 /\ at[c] # "run"
        <2>1. c \in Users /\ Suspended(c)
            BY DEF In, Contexts, GtInv, EngineInv, Suspended
        <2> QED BY <2>1 DEF GtInv, PlaceInv, JobInv
    <1>5. ToSet(wait_queue) \cup ToSet(flow_queue) \cup ToSet(channel_queue)
             \cup (InFlight \ {c \in Users : current_ctx = c /\ at[c] = "timeout"})
          \subseteq In("SUSPENDED")
        <2>1. /\ ToSet(wait_queue) \subseteq Users /\ ToSet(flow_queue) \subseteq Users
              /\ ToSet(channel_queue) \subseteq Users /\ InFlight \subseteq Users
            BY InToSet DEF GtInv, QueueTypes, InFlight
        <2>2. \A c \in Users : Suspended(c) => c \in In("SUSPENDED")
            BY DEF Suspended, In, Contexts
        <2> QED BY <2>1, <2>2 DEF GtInv, PlaceInv
    <1> QED BY <1>1, <1>2, <1>3, <1>4, <1>5 DEF OnePlaceEach

LEMMA AlwaysInv == RoomForTimeouts => (GtSpec => []GtInv)
    <1> SUFFICES ASSUME RoomForTimeouts
                 PROVE  GtSpec => []GtInv
        OBVIOUS
    <1>1. GtInit => GtInv
        BY InitInv
    <1>2. GtInv /\ [GtNext]_gtVars => GtInv'
        BY NextInv
    <1> QED BY <1>1, <1>2, PTL DEF GtSpec

\* No context is woken twice and none is lost: enqueue always meets a suspended
\* context, for every number of threads and slots.
THEOREM GtNobodyLost ==
    ASSUME RoomForTimeouts
    PROVE  GtSpec => []OnePlaceEach
    BY AlwaysInv, InvOnePlace, PTL

\* No slot of the io queue leaks, io_uring_get_sqe never fails, and nobody waits
\* for a slot or a channel's resource that is free.
THEOREM GtSlotsAccountedFor ==
    ASSUME RoomForTimeouts
    PROVE  GtSpec => []SlotsAccountedFor
    <1>1. GtInv => SlotsAccountedFor
        BY DEF GtInv
    <1> QED BY <1>1, AlwaysInv, PTL

\* io_uring_thread blocks in the kernel only when no thread could run and all
\* that is prepared has been submitted.
THEOREM GtSleepsOnlyWhenIdle ==
    ASSUME RoomForTimeouts
    PROVE  GtSpec => []SleepsOnlyWhenIdle
    <1>1. GtInv => SleepsOnlyWhenIdle
        BY DEF GtInv
    <1> QED BY <1>1, AlwaysInv, PTL

(***************************************************************************)
(* SlabList: the lists of threads and of open files                        *)
(***************************************************************************)

(* Linked lists. *)

\* What is at place i of a list, if anything.
Nth(s, i) == IF i \in 1 .. Len(s) THEN s[i] ELSE Nil

Links == [prev : Handles \cup {Nil}, next : Handles \cup {Nil}]

\* front, back and lks are a list of the entries s.
Linked(s, front, back, lks) ==
    /\ s \in Seq(Handles) /\ IsInjective(s)
    /\ lks \in [Handles -> Links]
    /\ front = Nth(s, 1) /\ back = Nth(s, Len(s))
    /\ \A i \in 1 .. Len(s) : lks[s[i]].prev = Nth(s, i - 1) /\ lks[s[i]].next = Nth(s, i + 1)

LEMMA NilIsNoHandle == Nil \notin Handles
    <1>1. ASSUME NEW h \in Handles PROVE h[1] \in 1 .. MaxSlabs
        BY DEF Handles
    <1>2. Nil[1] \notin 1 .. MaxSlabs
        BY SlabAssumption DEF Nil
    <1> QED BY <1>1, <1>2

LEMMA HandlesFinite ==
    /\ IsFiniteSet(Handles) /\ Cardinality(Handles) = MaxSlabs * SlabSize
    /\ MaxSlabs * SlabSize \in Nat
    <1>1. /\ IsFiniteSet(1 .. MaxSlabs) /\ Cardinality(1 .. MaxSlabs) = MaxSlabs
          /\ IsFiniteSet(1 .. SlabSize) /\ Cardinality(1 .. SlabSize) = SlabSize
        <2>1. 1 \in Int /\ MaxSlabs \in Int /\ SlabSize \in Int
            BY SlabAssumption
        <2>2. IsFiniteSet(1 .. MaxSlabs)
              /\ Cardinality(1 .. MaxSlabs) = IF 1 > MaxSlabs THEN 0 ELSE MaxSlabs - 1 + 1
            BY <2>1, FS_Interval
        <2>3. IsFiniteSet(1 .. SlabSize)
              /\ Cardinality(1 .. SlabSize) = IF 1 > SlabSize THEN 0 ELSE SlabSize - 1 + 1
            BY <2>1, FS_Interval
        <2> QED BY <2>2, <2>3, SlabAssumption
    <1>2. /\ IsFiniteSet((1 .. MaxSlabs) \X (1 .. SlabSize))
          /\ Cardinality((1 .. MaxSlabs) \X (1 .. SlabSize))
                = Cardinality(1 .. MaxSlabs) * Cardinality(1 .. SlabSize)
        BY <1>1, FS_Product
    <1>3. MaxSlabs * SlabSize \in Nat
        BY SlabAssumption
    <1> QED BY <1>1, <1>2, <1>3 DEF Handles

\* A list has no more entries than there are handles.
LEMMA ListLength ==
    ASSUME NEW s \in Seq(Handles), IsInjective(s)
    PROVE  Len(s) \in Nat /\ Len(s) <= MaxSlabs * SlabSize
    <1>1. IsFiniteSet(ToSet(s)) /\ Cardinality(ToSet(s)) = Len(s) /\ Len(s) \in Nat
        BY InjectiveLen
    <1>2. ToSet(s) \subseteq Handles
        BY InToSet
    <1>3. Cardinality(ToSet(s)) <= Cardinality(Handles)
        BY <1>2, HandlesFinite, FS_Subset
    <1> QED BY <1>1, <1>3, HandlesFinite

LEMMA NthProperties ==
    ASSUME NEW s \in Seq(Handles), IsInjective(s)
    PROVE  /\ Len(s) \in Nat
           /\ \A i \in 1 .. Len(s) : Nth(s, i) = s[i] /\ s[i] \in Handles /\ s[i] \in ToSet(s)
           /\ \A i \in Int : Nth(s, i) \in Handles \cup {Nil}
           /\ \A i \in Int : Nth(s, i) = Nil <=> i \notin 1 .. Len(s)
           /\ \A i \in 1 .. Len(s), j \in Int : Nth(s, j) = s[i] => j = i
    <1>1. Len(s) \in Nat /\ DOMAIN s = 1 .. Len(s)
        BY LenProperties
    <1>2. \A i \in 1 .. Len(s) : Nth(s, i) = s[i] /\ s[i] \in Handles /\ s[i] \in ToSet(s)
        BY ElementOfSeq, InToSet DEF Nth
    <1>3. \A i \in Int : Nth(s, i) \in Handles \cup {Nil}
        BY <1>2 DEF Nth
    <1>4. \A i \in Int : Nth(s, i) = Nil <=> i \notin 1 .. Len(s)
        BY <1>2, NilIsNoHandle DEF Nth
    <1>5. ASSUME NEW i \in 1 .. Len(s), NEW j \in Int, Nth(s, j) = s[i] PROVE j = i
        <2>1. j \in 1 .. Len(s)
            BY <1>2, <1>4, <1>5, NilIsNoHandle
        <2> QED BY <1>1, <1>2, <1>5, <2>1 DEF IsInjective
    <1> QED BY <1>1, <1>2, <1>3, <1>4, <1>5

\* The places of a list, one after the other.
IsWalk(walk, front, lks) ==
    walk = [n \in 1 .. MaxSlabs * SlabSize + 1 |->
            IF n = 1 THEN front
            ELSE LET e == walk[n - 1] IN IF e = Nil THEN Nil ELSE lks[e].next]

LEMMA WalkOfList ==
    ASSUME NEW s, NEW front, NEW back, NEW lks, Linked(s, front, back, lks), NEW walk,
           IsWalk(walk, front, lks)
    PROVE  \A n \in 1 .. MaxSlabs * SlabSize + 1 : walk[n] = Nth(s, n)
    <1> DEFINE M == MaxSlabs * SlabSize + 1
               T == {n \in 1 .. M : walk[n] # Nth(s, n)}
    <1>1. /\ s \in Seq(Handles) /\ IsInjective(s) /\ front = Nth(s, 1)
          /\ \A i \in 1 .. Len(s) : lks[s[i]].next = Nth(s, i + 1)
        BY DEF Linked
    <1>2. M \in Nat
        BY HandlesFinite
    <1>3. \A n \in 1 .. M : walk[n] = IF n = 1 THEN front
                                    ELSE IF walk[n - 1] = Nil THEN Nil ELSE lks[walk[n - 1]].next
        BY DEF IsWalk
    <1> HIDE DEF M
    <1> SUFFICES ASSUME T # {} PROVE FALSE
        BY DEF M
    <1>4. T \subseteq Nat
        BY <1>2
    <1>5. PICK n \in T : \A m \in T : n <= m
        BY <1>4, LeastNatural
    <1>6. n \in 1 .. M /\ walk[n] # Nth(s, n)
        BY <1>5
    <1>7. n # 1
        BY <1>1, <1>2, <1>3, <1>6
    <1>8. n - 1 \in 1 .. M /\ n - 1 \notin T /\ n - 1 \in Int /\ (n - 1) + 1 = n
        BY <1>2, <1>5, <1>6, <1>7
    <1>9. walk[n - 1] = Nth(s, n - 1)
        BY <1>8
    <1>10. CASE n - 1 \in 1 .. Len(s)
        <2>1. walk[n - 1] = s[n - 1] /\ walk[n - 1] # Nil
            BY <1>1, <1>8, <1>9, <1>10, NthProperties, NilIsNoHandle
        <2>2. lks[s[n - 1]].next = Nth(s, (n - 1) + 1)
            BY <1>1, <1>10
        <2> QED BY <1>3, <1>6, <1>7, <1>8, <2>1, <2>2
    <1>11. CASE n - 1 \notin 1 .. Len(s)
        <2>1. walk[n - 1] = Nil
            BY <1>1, <1>8, <1>9, <1>11, NthProperties
        <2>2. Len(s) \in Nat
            BY <1>1, NthProperties
        <2>3. n \notin 1 .. Len(s) /\ n \in Int
            BY <1>2, <1>6, <1>7, <1>11, <2>2
        <2>4. Nth(s, n) = Nil
            BY <1>1, <2>3, NthProperties
        <2> QED BY <1>3, <1>6, <1>7, <2>1, <2>4
    <1> QED BY <1>10, <1>11

\* A walk through a list gives its entries.
LEMMA ForwardIsList ==
    ASSUME NEW s, NEW front, NEW back, NEW lks, Linked(s, front, back, lks)
    PROVE  Forward(front, lks) = s
    <1> DEFINE N == MaxSlabs * SlabSize
               g == [n \in 1 .. N + 1 |-> Nth(s, n)]
               walk == CHOOSE f : IsWalk(f, front, lks)
               size == CHOOSE n \in 0 .. N : \A i \in 1 .. n + 1 : walk[i] = Nil <=> i = n + 1
    <1>1. /\ s \in Seq(Handles) /\ IsInjective(s) /\ front = Nth(s, 1)
          /\ \A i \in 1 .. Len(s) : lks[s[i]].next = Nth(s, i + 1)
        BY DEF Linked
    <1>2. N \in Nat
        BY HandlesFinite
    <1>3. Len(s) \in Nat /\ Len(s) <= N
        BY <1>1, ListLength
    <1>4. IsWalk(g, front, lks)
        <2> HIDE DEF N
        <2>1. ASSUME NEW n \in 1 .. N + 1
              PROVE  g[n] = IF n = 1 THEN front
                            ELSE IF g[n - 1] = Nil THEN Nil ELSE lks[g[n - 1]].next
            <3>1. g[n] = Nth(s, n)
                OBVIOUS
            <3>2. CASE n = 1
                BY <1>1, <3>1, <3>2
            <3>3. CASE n # 1
                <4>1. n - 1 \in 1 .. N + 1 /\ n - 1 \in Int /\ n \in Int /\ (n - 1) + 1 = n
                    BY <1>2, <3>3
                <4>2. g[n - 1] = Nth(s, n - 1)
                    BY <4>1
                <4>3. CASE n - 1 \in 1 .. Len(s)
                    <5>1. Nth(s, n - 1) = s[n - 1] /\ Nth(s, n - 1) # Nil
                        BY <1>1, <4>1, <4>3, NthProperties, NilIsNoHandle
                    <5>2. lks[s[n - 1]].next = Nth(s, (n - 1) + 1)
                        BY <1>1, <4>3
                    <5> QED BY <3>1, <3>3, <4>1, <4>2, <5>1, <5>2
                <4>4. CASE n - 1 \notin 1 .. Len(s)
                    <5>1. n \notin 1 .. Len(s)
                        BY <1>2, <1>3, <3>3, <4>1, <4>4
                    <5>2. Nth(s, n - 1) = Nil /\ Nth(s, n) = Nil
                        BY <1>1, <4>1, <4>4, <5>1, NthProperties
                    <5> QED BY <3>1, <3>3, <4>2, <5>2
                <4> QED BY <4>3, <4>4
            <3> QED BY <3>2, <3>3
        <2> DEFINE h == [n \in 1 .. N + 1 |-> IF n = 1 THEN front
                            ELSE IF g[n - 1] = Nil THEN Nil ELSE lks[g[n - 1]].next]
        <2>2. g = h
            BY <2>1
        <2> HIDE DEF g
        <2> QED BY <2>2 DEF IsWalk, N
    <1>5. IsWalk(walk, front, lks)
        <2> HIDE DEF g
        <2> QED BY <1>4
    <1>6. Forward(front, lks) = [n \in 1 .. size |-> walk[n]]
        BY DEF Forward, IsWalk
    <1> HIDE DEF walk, g
    <1>7. \A n \in 1 .. N + 1 : walk[n] = Nth(s, n)
        BY <1>5, WalkOfList
    <1> HIDE DEF N
    <1>8. \A n \in 1 .. N + 1 : walk[n] = Nil <=> n \notin 1 .. Len(s)
        <2>1. \A n \in 1 .. N + 1 : n \in Int
            BY <1>2
        <2> QED BY <1>1, <1>7, <2>1, NthProperties
    <1>9. /\ Len(s) \in 0 .. N
          /\ \A i \in 1 .. Len(s) + 1 : walk[i] = Nil <=> i = Len(s) + 1
        BY <1>2, <1>3, <1>8
    <1>10. ASSUME NEW n \in 0 .. N, \A i \in 1 .. n + 1 : walk[i] = Nil <=> i = n + 1
           PROVE  n = Len(s)
        <2>1. n + 1 \in 1 .. N + 1 /\ n + 1 \in 1 .. n + 1
            BY <1>2
        <2>2. walk[n + 1] = Nil
            BY <1>10, <2>1
        <2>3. ~(n + 1 \in 1 .. Len(s))
            BY <1>8, <2>1, <2>2
        <2>4. ~(Len(s) < n)
            <3> SUFFICES ASSUME Len(s) < n PROVE FALSE
                OBVIOUS
            <3>1. Len(s) + 1 \in 1 .. n + 1 /\ Len(s) + 1 # n + 1 /\ Len(s) + 1 \in 1 .. N + 1
                  /\ Len(s) + 1 \notin 1 .. Len(s)
                BY <1>2, <1>3
            <3> QED BY <1>8, <1>10, <3>1
        <2> QED BY <1>2, <1>3, <2>3, <2>4
    <1>11. size = Len(s)
        BY <1>9, <1>10
    <1> HIDE DEF size
    <1>12. \A n \in 1 .. Len(s) : walk[n] = s[n]
        <2>1. \A n \in 1 .. Len(s) : n \in 1 .. N + 1
            BY <1>2, <1>3
        <2> QED BY <1>1, <1>7, <2>1, NthProperties
    <1>13. s = [n \in 1 .. Len(s) |-> s[n]]
        <2>1. s \in [1 .. Len(s) -> Handles]
            BY <1>1, LenProperties
        <2> QED BY <2>1
    <1> QED BY <1>6, <1>11, <1>12, <1>13

-----------------------------------------------------------------------------
(* slabs *)

\* What is at place i of the free entries of a slab, if anything.
Place(f, i) == IF i \in 1 .. Len(f) THEN f[i] ELSE 0

Slab == [table : [1 .. SlabSize -> 0 .. SlabSize], next : 0 .. SlabSize, size : Int]

\* f are the free entries of slab, in the order in which they are given out.
FreeList(slab, f) ==
    /\ slab \in Slab
    /\ f \in Seq(1 .. SlabSize) /\ IsInjective(f)
    /\ slab.next = Place(f, 1)
    /\ \A i \in 1 .. Len(f) : slab.table[f[i]] = Place(f, i + 1)
    /\ \A j \in 1 .. SlabSize : j \notin ToSet(f) => slab.table[j] = 0
    /\ slab.size = SlabSize - Len(f)

LEMMA NewSlabIsFree == \E f : FreeList(NewSlab, f) /\ f # <<>> /\ ToSet(f) = 1 .. SlabSize
    <1> DEFINE f == [i \in 1 .. SlabSize |-> i]
    <1>1. SlabSize \in Nat /\ SlabSize # 0
        BY SlabAssumption
    <1>2. f \in Seq(1 .. SlabSize) /\ Len(f) = SlabSize /\ DOMAIN f = 1 .. SlabSize
        <2>1. f \in [1 .. SlabSize -> 1 .. SlabSize]
            OBVIOUS
        <2> HIDE DEF f
        <2>2. f \in Seq(1 .. SlabSize)
            BY <1>1, <2>1, SeqDef
        <2> QED BY <1>1, <2>1, <2>2, LenProperties
    <1>3. \A i \in 1 .. SlabSize : f[i] = i
        OBVIOUS
    <1> HIDE DEF f
    <1>4. IsInjective(f) /\ ToSet(f) = 1 .. SlabSize
        BY <1>2, <1>3 DEF IsInjective, ToSet
    <1>5. f # <<>>
        BY <1>1, <1>2
    <1>6. NewSlab \in Slab
        BY <1>1 DEF NewSlab, Slab
    <1>7. NewSlab.next = Place(f, 1)
        BY <1>1, <1>2, <1>3 DEF NewSlab, Place
    <1>8. ASSUME NEW i \in 1 .. Len(f) PROVE NewSlab.table[f[i]] = Place(f, i + 1)
        BY <1>1, <1>2, <1>3 DEF NewSlab, Place
    <1>9. NewSlab.size = SlabSize - Len(f)
        BY <1>1, <1>2 DEF NewSlab
    <1> QED BY <1>2, <1>4, <1>5, <1>6, <1>7, <1>8, <1>9 DEF FreeList

LEMMA AllocateFrees ==
    ASSUME NEW slab, NEW f, FreeList(slab, f), f # <<>>
    PROVE  /\ slab.next = Head(f) /\ Head(f) \in ToSet(f) /\ Head(f) \in 1 .. SlabSize
           /\ FreeList(SlabAllocate(slab), Tail(f))
           /\ ToSet(Tail(f)) = ToSet(f) \ {Head(f)}
           /\ SlabAllocate(slab).size = SlabSize <=> Tail(f) = <<>>
    <1> DEFINE t == Tail(f)
               new == SlabAllocate(slab)
    <1>1. /\ slab \in Slab
          /\ f \in Seq(1 .. SlabSize) /\ IsInjective(f)
          /\ slab.next = Place(f, 1)
          /\ \A i \in 1 .. Len(f) : slab.table[f[i]] = Place(f, i + 1)
          /\ \A j \in 1 .. SlabSize : j \notin ToSet(f) => slab.table[j] = 0
          /\ slab.size = SlabSize - Len(f)
        BY DEF FreeList
    <1>2. /\ slab.table \in [1 .. SlabSize -> 0 .. SlabSize] /\ slab.size \in Int
          /\ SlabSize \in Nat
        BY <1>1, SlabAssumption DEF Slab
    <1>3. /\ t \in Seq(1 .. SlabSize) /\ IsInjective(t)
          /\ Head(f) \in ToSet(f) /\ Head(f) \in 1 .. SlabSize
          /\ ToSet(t) = ToSet(f) \ {Head(f)}
        BY <1>1, TailSet
    <1>4. /\ Len(f) \in Nat \ {0} /\ DOMAIN f = 1 .. Len(f) /\ Len(t) = Len(f) - 1
          /\ \A i \in 1 .. Len(t) : t[i] = f[i + 1]
          /\ Head(f) = f[1]
        BY <1>1, HeadTailProperties, LenProperties, EmptySeq
    <1> HIDE DEF t
    <1>5. slab.next = f[1] /\ 1 \in 1 .. Len(f)
        BY <1>1, <1>4 DEF Place
    <1>6. \A i \in 1 .. Len(f) : f[i] \in 1 .. SlabSize
        BY <1>1, ElementOfSeq
    <1>7. ASSUME NEW i \in Nat \ {0} PROVE Place(t, i) = Place(f, i + 1) /\ Place(t, i) \in 0 .. SlabSize
        <2>1. CASE i \in 1 .. Len(t)
            <3>1. i + 1 \in 1 .. Len(f)
                BY <1>4, <2>1
            <3> QED BY <1>2, <1>4, <1>6, <2>1, <3>1 DEF Place
        <2>2. CASE i \notin 1 .. Len(t)
            <3>1. i + 1 \notin 1 .. Len(f)
                BY <1>4, <2>2
            <3> QED BY <1>2, <2>2, <3>1 DEF Place
        <2> QED BY <2>1, <2>2
    <1>8. /\ new.table = [slab.table EXCEPT ![f[1]] = 0]
          /\ new.next = Place(t, 1) /\ new.size = SlabSize - Len(t)
          /\ new = [table |-> new.table, next |-> new.next, size |-> new.size]
        <2>1. new = [table |-> [slab.table EXCEPT ![f[1]] = 0], next |-> slab.table[f[1]],
                     size |-> slab.size + 1]
            BY <1>5 DEF SlabAllocate
        <2>2. slab.table[f[1]] = Place(f, 1 + 1)
            BY <1>1, <1>5
        <2>3. Place(t, 1) = Place(f, 1 + 1)
            BY <1>7
        <2>4. slab.size + 1 = SlabSize - Len(t)
            BY <1>1, <1>2, <1>4
        <2> HIDE DEF new
        <2> QED BY <2>1, <2>2, <2>3, <2>4
    <1> HIDE DEF new
    <1>9. new.table \in [1 .. SlabSize -> 0 .. SlabSize]
        <2>1. new.table = [slab.table EXCEPT ![f[1]] = 0]
            BY <1>8
        <2>2. 0 \in 0 .. SlabSize
            BY <1>2
        <2> QED BY <1>2, <2>1, <2>2
    <1>10. new \in Slab
        <2>1. new.next \in 0 .. SlabSize
            BY <1>7, <1>8
        <2>2. new.size \in Int
            BY <1>2, <1>4, <1>8
        <2> QED BY <1>8, <1>9, <2>1, <2>2 DEF Slab
    <1>11. ASSUME NEW i \in 1 .. Len(t) PROVE new.table[t[i]] = Place(t, i + 1)
        <2>1. t[i] = f[i + 1] /\ i + 1 \in 1 .. Len(f) /\ i + 1 # 1 /\ i + 1 \in Nat \ {0}
            BY <1>4
        <2>2. t[i] # f[1] /\ t[i] \in 1 .. SlabSize
            BY <1>1, <1>4, <1>5, <1>6, <2>1 DEF IsInjective
        <2>3. new.table[t[i]] = slab.table[f[i + 1]]
            BY <1>2, <1>8, <2>1, <2>2
        <2>4. slab.table[f[i + 1]] = Place(f, (i + 1) + 1)
            BY <1>1, <2>1
        <2> QED BY <1>7, <2>1, <2>3, <2>4
    <1>12. ASSUME NEW j \in 1 .. SlabSize, j \notin ToSet(t) PROVE new.table[j] = 0
        BY <1>1, <1>2, <1>3, <1>4, <1>8, <1>12
    <1>13. FreeList(new, t)
        BY <1>3, <1>8, <1>10, <1>11, <1>12 DEF FreeList
    <1>14. new.size = SlabSize <=> t = <<>>
        <2>1. Len(t) = 0 <=> t = <<>>
            BY <1>3, EmptySeq
        <2>2. Len(t) \in Nat
            BY <1>3, LenProperties
        <2> QED BY <1>2, <1>8, <2>1, <2>2
    <1> QED BY <1>3, <1>4, <1>5, <1>13, <1>14 DEF t, new

LEMMA FreeFrees ==
    ASSUME NEW slab, NEW f, FreeList(slab, f), NEW ndx \in 1 .. SlabSize, ndx \notin ToSet(f)
    PROVE  /\ FreeList(SlabFree(slab, ndx), <<ndx>> \o f)
           /\ ToSet(<<ndx>> \o f) = {ndx} \cup ToSet(f)
           /\ <<ndx>> \o f # <<>>
           /\ slab.size = SlabSize <=> f = <<>>
    <1> DEFINE t == <<ndx>> \o f
               new == SlabFree(slab, ndx)
    <1>1. /\ slab \in Slab
          /\ f \in Seq(1 .. SlabSize) /\ IsInjective(f)
          /\ slab.next = Place(f, 1)
          /\ \A i \in 1 .. Len(f) : slab.table[f[i]] = Place(f, i + 1)
          /\ \A j \in 1 .. SlabSize : j \notin ToSet(f) => slab.table[j] = 0
          /\ slab.size = SlabSize - Len(f)
        BY DEF FreeList
    <1>2. /\ slab.table \in [1 .. SlabSize -> 0 .. SlabSize] /\ slab.size \in Int
          /\ SlabSize \in Nat
        BY <1>1, SlabAssumption DEF Slab
    <1>3. /\ t \in Seq(1 .. SlabSize) /\ IsInjective(t)
          /\ ToSet(t) = {ndx} \cup ToSet(f) /\ Len(t) = Len(f) + 1
        BY <1>1, ConsSet
    <1>4. t[1] = ndx /\ \A i \in 1 .. Len(f) : t[i + 1] = f[i]
        BY <1>1, ConsPlaces
    <1> HIDE DEF t
    <1>5. Len(f) \in Nat
        BY <1>1, LenProperties
    <1>6. \A i \in 1 .. Len(f) : f[i] \in 1 .. SlabSize /\ f[i] \in ToSet(f)
        BY <1>1, ElementOfSeq, InToSet
    <1>7. ASSUME NEW i \in Nat \ {0} PROVE Place(t, i + 1) = Place(f, i)
        <2>1. CASE i \in 1 .. Len(f)
            <3>1. i + 1 \in 1 .. Len(t)
                BY <1>3, <1>5, <2>1
            <3> QED BY <1>4, <2>1, <3>1 DEF Place
        <2>2. CASE i \notin 1 .. Len(f)
            <3>1. i + 1 \notin 1 .. Len(t)
                BY <1>3, <1>5, <2>2
            <3> QED BY <2>2, <3>1 DEF Place
        <2> QED BY <2>1, <2>2
    <1>8. /\ new.table \in [1 .. SlabSize -> 0 .. SlabSize]
          /\ new.table[ndx] = slab.next
          /\ \A j \in 1 .. SlabSize : j # ndx => new.table[j] = slab.table[j]
          /\ new.next = ndx /\ new.size = slab.size - 1
          /\ new = [table |-> new.table, next |-> new.next, size |-> new.size]
        <2> DEFINE tb == IF slab.next = 0 THEN slab.table ELSE [slab.table EXCEPT ![ndx] = slab.next]
        <2>1. new = [table |-> tb, next |-> ndx, size |-> slab.size - 1]
            BY DEF SlabFree
        <2>2. slab.next \in 0 .. SlabSize
            BY <1>1 DEF Slab
        <2>3. /\ tb \in [1 .. SlabSize -> 0 .. SlabSize] /\ tb[ndx] = slab.next
              /\ \A j \in 1 .. SlabSize : j # ndx => tb[j] = slab.table[j]
            BY <1>1, <1>2, <2>2
        <2> HIDE DEF new, tb
        <2> QED BY <2>1, <2>3
    <1> HIDE DEF new
    <1>9. new \in Slab
        <2>1. new.size \in Int /\ new.next \in 0 .. SlabSize
            BY <1>2, <1>8
        <2> QED BY <1>8, <2>1 DEF Slab
    <1>10. new.next = Place(t, 1)
        <2>1. 1 \in 1 .. Len(t)
            BY <1>3, <1>5
        <2> QED BY <1>4, <1>8, <2>1 DEF Place
    <1>11. ASSUME NEW i \in 1 .. Len(t) PROVE new.table[t[i]] = Place(t, i + 1)
        <2>1. CASE i = 1
            BY <1>1, <1>4, <1>7, <1>8, <2>1
        <2>2. CASE i # 1
            <3>1. i - 1 \in 1 .. Len(f) /\ (i - 1) + 1 = i /\ i \in Nat \ {0}
                BY <1>3, <1>5, <2>2
            <3>2. t[i] = f[i - 1]
                BY <1>4, <3>1
            <3>3. f[i - 1] # ndx /\ f[i - 1] \in 1 .. SlabSize
                BY <1>6, <3>1
            <3>4. slab.table[f[i - 1]] = Place(f, (i - 1) + 1)
                BY <1>1, <3>1
            <3> QED BY <1>7, <1>8, <3>1, <3>2, <3>3, <3>4
        <2> QED BY <2>1, <2>2
    <1>12. ASSUME NEW j \in 1 .. SlabSize, j \notin ToSet(t) PROVE new.table[j] = 0
        BY <1>1, <1>3, <1>8, <1>12
    <1>13. new.size = SlabSize - Len(t)
        BY <1>1, <1>2, <1>3, <1>5, <1>8
    <1>14. FreeList(new, t)
        BY <1>3, <1>9, <1>10, <1>11, <1>12, <1>13 DEF FreeList
    <1>15. t # <<>>
        BY <1>3, <1>5
    <1>16. slab.size = SlabSize <=> f = <<>>
        <2>1. Len(f) = 0 <=> f = <<>>
            BY <1>1, EmptySeq
        <2> QED BY <1>1, <1>2, <1>5, <2>1
    <1> QED BY <1>3, <1>14, <1>15, <1>16 DEF t, new

\* The pool: used are the handles that were given out, F the free entries of each
\* slab, and partial the slabs that have any.
Pool(slabs, partial, F, used) ==
    /\ slabs \in Seq(Slab) /\ Len(slabs) <= MaxSlabs
    /\ \A k \in 1 .. Len(slabs) : FreeList(slabs[k], F[k])
    /\ partial \in Seq(1 .. Len(slabs)) /\ IsInjective(partial)
    /\ \A k \in 1 .. Len(slabs) : k \in ToSet(partial) <=> F[k] # <<>>
    /\ used = {h \in Handles : h[1] \in 1 .. Len(slabs) /\ h[2] \notin ToSet(F[h[1]])}

LEMMA HandleParts ==
    /\ \A h \in Handles : h[1] \in 1 .. MaxSlabs /\ h[2] \in 1 .. SlabSize /\ h = <<h[1], h[2]>>
    /\ \A k \in 1 .. MaxSlabs, j \in 1 .. SlabSize :
            <<k, j>> \in Handles /\ <<k, j>>[1] = k /\ <<k, j>>[2] = j
    BY DEF Handles

LEMMA ExtendPool ==
    ASSUME NEW slabs, NEW F, NEW used, Pool(slabs, <<>>, F, used), Len(slabs) + 1 <= MaxSlabs
    PROVE  \E G : Pool(Append(slabs, NewSlab), <<Len(slabs) + 1>>, G, used)
    <1> DEFINE N == Len(slabs) + 1
    <1>1. PICK f : FreeList(NewSlab, f) /\ f # <<>> /\ ToSet(f) = 1 .. SlabSize
        BY NewSlabIsFree
    <1> DEFINE G == [k \in 1 .. N |-> IF k = N THEN f ELSE F[k]]
               new == Append(slabs, NewSlab)
    <1>2. /\ slabs \in Seq(Slab) /\ Len(slabs) \in Nat /\ NewSlab \in Slab
        BY <1>1, LenProperties DEF Pool, FreeList
    <1>3. /\ new \in Seq(Slab) /\ Len(new) = N
          /\ \A k \in 1 .. Len(slabs) : new[k] = slabs[k]
          /\ new[N] = NewSlab
        BY <1>2, AppendProperties
    <1>4. /\ N \in 1 .. N /\ N \notin 1 .. Len(slabs)
          /\ \A k \in 1 .. N : k = N \/ k \in 1 .. Len(slabs)
          /\ \A k \in 1 .. Len(slabs) : k \in 1 .. N
        BY <1>2
    <1>5. G[N] = f /\ \A k \in 1 .. Len(slabs) : G[k] = F[k]
        BY <1>4
    <1> HIDE DEF G, new, N
    <1>6. \A k \in 1 .. N : FreeList(new[k], G[k])
        BY <1>1, <1>3, <1>4, <1>5 DEF Pool
    <1>7. \A k \in 1 .. Len(slabs) : F[k] = <<>>
        BY ShortSeqs DEF Pool
    <1>8. /\ <<N>> \in Seq(1 .. N) /\ IsInjective(<<N>>) /\ ToSet(<<N>>) = {N}
        BY <1>4, ShortSeqs
    <1>9. \A k \in 1 .. N : k \in ToSet(<<N>>) <=> G[k] # <<>>
        BY <1>1, <1>4, <1>5, <1>7, <1>8
    <1>10. ASSUME NEW h \in Handles
           PROVE  (h[1] \in 1 .. Len(slabs) /\ h[2] \notin ToSet(F[h[1]]))
                    <=> (h[1] \in 1 .. N /\ h[2] \notin ToSet(G[h[1]]))
        BY <1>1, <1>4, <1>5, HandleParts
    <1>11. used = {h \in Handles : h[1] \in 1 .. N /\ h[2] \notin ToSet(G[h[1]])}
        <2>1. used = {h \in Handles : h[1] \in 1 .. Len(slabs) /\ h[2] \notin ToSet(F[h[1]])}
            BY DEF Pool
        <2> QED BY <1>10, <2>1
    <1>12. N <= MaxSlabs
        BY DEF N
    <1>13. Pool(new, <<N>>, G, used)
        BY <1>3, <1>6, <1>8, <1>9, <1>11, <1>12 DEF Pool
    <1> QED BY <1>13 DEF new, N

\* What a pool gives out was not given out before.
LEMMA PoolAllocates ==
    ASSUME NEW slabs, NEW partial, NEW F, NEW used, Pool(slabs, partial, F, used),
           partial # <<>>
    PROVE  LET k == Head(partial)
               h == <<k, slabs[k].next>>
               slab == SlabAllocate(slabs[k])
           IN  /\ h \in Handles \ used
               /\ \E G : Pool([slabs EXCEPT ![k] = slab],
                              IF slab.size = SlabSize THEN RemoveFirst(partial, k) ELSE partial,
                              G, used \cup {h})
    <1> DEFINE k == Head(partial)
               h == <<k, slabs[k].next>>
               slab == SlabAllocate(slabs[k])
               rest == IF slab.size = SlabSize THEN RemoveFirst(partial, k) ELSE partial
               G == [i \in 1 .. Len(slabs) |-> IF i = k THEN Tail(F[k]) ELSE F[i]]
               new == [slabs EXCEPT ![k] = slab]
    <1>1. /\ slabs \in Seq(Slab) /\ Len(slabs) <= MaxSlabs
          /\ \A i \in 1 .. Len(slabs) : FreeList(slabs[i], F[i])
          /\ partial \in Seq(1 .. Len(slabs)) /\ IsInjective(partial)
          /\ \A i \in 1 .. Len(slabs) : i \in ToSet(partial) <=> F[i] # <<>>
          /\ used = {x \in Handles : x[1] \in 1 .. Len(slabs) /\ x[2] \notin ToSet(F[x[1]])}
        BY DEF Pool
    <1>2. Len(slabs) \in Nat /\ DOMAIN slabs = 1 .. Len(slabs) /\ MaxSlabs \in Nat
        BY <1>1, LenProperties, SlabAssumption
    <1>3. k \in 1 .. Len(slabs) /\ k \in ToSet(partial) /\ k \in 1 .. MaxSlabs
        <2>1. k \in 1 .. Len(slabs) /\ k \in ToSet(partial)
            BY <1>1, TailSet
        <2> HIDE DEF k
        <2> QED BY <1>1, <1>2, <2>1
    <1> HIDE DEF k
    <1>4. FreeList(slabs[k], F[k]) /\ F[k] # <<>>
        BY <1>1, <1>3
    <1>5. /\ slabs[k].next = Head(F[k]) /\ Head(F[k]) \in ToSet(F[k]) /\ Head(F[k]) \in 1 .. SlabSize
          /\ FreeList(slab, Tail(F[k]))
          /\ ToSet(Tail(F[k])) = ToSet(F[k]) \ {Head(F[k])}
          /\ slab.size = SlabSize <=> Tail(F[k]) = <<>>
        BY <1>4, AllocateFrees
    <1> HIDE DEF slab
    <1>6. h \in Handles /\ h[1] = k /\ h[2] = Head(F[k])
        BY <1>3, <1>5, HandleParts
    <1> HIDE DEF h
    <1>7. h \notin used
        BY <1>1, <1>5, <1>6
    <1>8. /\ new \in Seq(Slab) /\ Len(new) = Len(slabs)
          /\ \A i \in 1 .. Len(slabs) : new[i] = IF i = k THEN slab ELSE slabs[i]
        <2>1. slab \in Slab
            BY <1>5 DEF FreeList
        <2> QED BY <1>1, <1>2, <1>3, <2>1, ExceptSeq
    <1>9. G[k] = Tail(F[k]) /\ \A i \in 1 .. Len(slabs) : i # k => G[i] = F[i]
        BY <1>3
    <1> HIDE DEF G, new
    <1>10. \A i \in 1 .. Len(slabs) : FreeList(new[i], G[i])
        BY <1>1, <1>5, <1>8, <1>9
    <1>11. /\ rest \in Seq(1 .. Len(slabs)) /\ IsInjective(rest)
           /\ ToSet(rest) = IF slab.size = SlabSize THEN ToSet(partial) \ {k} ELSE ToSet(partial)
        BY <1>1, <1>3, RemoveFirstSet
    <1> HIDE DEF rest
    <1>12. \A i \in 1 .. Len(slabs) : i \in ToSet(rest) <=> G[i] # <<>>
        BY <1>1, <1>3, <1>5, <1>9, <1>11
    <1>13. ASSUME NEW x \in Handles
           PROVE  (x[1] \in 1 .. Len(slabs) /\ x[2] \notin ToSet(G[x[1]]))
                    <=> x \in used \cup {h}
        <2>1. x = h <=> x[1] = k /\ x[2] = Head(F[k])
            BY <1>6, HandleParts
        <2>2. CASE x[1] = k
            BY <1>1, <1>3, <1>5, <1>9, <2>1, <2>2
        <2>3. CASE x[1] # k
            BY <1>1, <1>9, <2>1, <2>3
        <2> QED BY <2>2, <2>3
    <1>14. used \cup {h} = {x \in Handles : x[1] \in 1 .. Len(slabs) /\ x[2] \notin ToSet(G[x[1]])}
        <2>1. used \subseteq Handles
            BY <1>1
        <2> QED BY <1>6, <1>13, <2>1
    <1>15. Pool(new, rest, G, used \cup {h})
        BY <1>1, <1>8, <1>10, <1>11, <1>12, <1>14 DEF Pool
    <1> QED BY <1>6, <1>7, <1>15 DEF k, h, slab, rest, new

LEMMA PoolFrees ==
    ASSUME NEW slabs, NEW partial, NEW F, NEW used, Pool(slabs, partial, F, used),
           NEW h \in used
    PROVE  \E G : Pool([slabs EXCEPT ![h[1]] = SlabFree(@, h[2])],
                       IF slabs[h[1]].size = SlabSize THEN Append(partial, h[1]) ELSE partial,
                       G, used \ {h})
    <1> DEFINE k == h[1]
               ndx == h[2]
               slab == SlabFree(slabs[k], ndx)
               more == IF slabs[k].size = SlabSize THEN Append(partial, k) ELSE partial
               G == [i \in 1 .. Len(slabs) |-> IF i = k THEN <<ndx>> \o F[k] ELSE F[i]]
               new == [slabs EXCEPT ![k] = slab]
    <1>1. /\ slabs \in Seq(Slab) /\ Len(slabs) <= MaxSlabs
          /\ \A i \in 1 .. Len(slabs) : FreeList(slabs[i], F[i])
          /\ partial \in Seq(1 .. Len(slabs)) /\ IsInjective(partial)
          /\ \A i \in 1 .. Len(slabs) : i \in ToSet(partial) <=> F[i] # <<>>
          /\ used = {x \in Handles : x[1] \in 1 .. Len(slabs) /\ x[2] \notin ToSet(F[x[1]])}
        BY DEF Pool
    <1>2. Len(slabs) \in Nat /\ DOMAIN slabs = 1 .. Len(slabs)
        BY <1>1, LenProperties
    <1>3. h \in Handles /\ k \in 1 .. Len(slabs) /\ ndx \in 1 .. SlabSize /\ ndx \notin ToSet(F[k])
        BY <1>1, HandleParts
    <1> HIDE DEF k, ndx
    <1>4. FreeList(slabs[k], F[k])
        BY <1>1, <1>3
    <1>5. /\ FreeList(slab, <<ndx>> \o F[k])
          /\ ToSet(<<ndx>> \o F[k]) = {ndx} \cup ToSet(F[k])
          /\ <<ndx>> \o F[k] # <<>>
          /\ slabs[k].size = SlabSize <=> F[k] = <<>>
        BY <1>3, <1>4, FreeFrees
    <1> HIDE DEF slab
    <1>6. /\ new \in Seq(Slab) /\ Len(new) = Len(slabs)
          /\ \A i \in 1 .. Len(slabs) : new[i] = IF i = k THEN slab ELSE slabs[i]
        <2>1. slab \in Slab
            BY <1>5 DEF FreeList
        <2> QED BY <1>1, <1>2, <1>3, <2>1, ExceptSeq
    <1>7. G[k] = <<ndx>> \o F[k] /\ \A i \in 1 .. Len(slabs) : i # k => G[i] = F[i]
        BY <1>3
    <1> HIDE DEF G, new
    <1>8. \A i \in 1 .. Len(slabs) : FreeList(new[i], G[i])
        BY <1>1, <1>5, <1>6, <1>7
    <1>9. /\ more \in Seq(1 .. Len(slabs)) /\ IsInjective(more)
          /\ ToSet(more) = IF F[k] = <<>> THEN ToSet(partial) \cup {k} ELSE ToSet(partial)
        <2>1. CASE F[k] = <<>>
            <3>1. k \notin ToSet(partial) /\ more = Append(partial, k)
                BY <1>1, <1>3, <1>5, <2>1
            <3>2. /\ Append(partial, k) \in Seq(1 .. Len(slabs))
                  /\ IsInjective(Append(partial, k))
                  /\ ToSet(Append(partial, k)) = ToSet(partial) \cup {k}
                BY <1>1, <1>3, <3>1, AppendSet
            <3> QED BY <2>1, <3>1, <3>2
        <2>2. CASE F[k] # <<>>
            BY <1>1, <1>5, <2>2
        <2> QED BY <2>1, <2>2
    <1> HIDE DEF more
    <1>10. \A i \in 1 .. Len(slabs) : i \in ToSet(more) <=> G[i] # <<>>
        BY <1>1, <1>3, <1>5, <1>7, <1>9
    <1>11. ASSUME NEW x \in Handles
           PROVE  (x[1] \in 1 .. Len(slabs) /\ x[2] \notin ToSet(G[x[1]]))
                    <=> x \in used \ {h}
        <2>1. x = h <=> x[1] = k /\ x[2] = ndx
            BY <1>3, HandleParts DEF k, ndx
        <2>2. CASE x[1] = k
            BY <1>1, <1>3, <1>5, <1>7, <2>1, <2>2
        <2>3. CASE x[1] # k
            BY <1>1, <1>7, <2>1, <2>3
        <2> QED BY <2>2, <2>3
    <1>12. used \ {h} = {x \in Handles : x[1] \in 1 .. Len(slabs) /\ x[2] \notin ToSet(G[x[1]])}
        <2>1. used \subseteq Handles
            BY <1>1
        <2> QED BY <1>11, <2>1
    <1>13. Pool(new, more, G, used \ {h})
        BY <1>1, <1>6, <1>8, <1>9, <1>10, <1>12 DEF Pool
    <1>14. new = [slabs EXCEPT ![h[1]] = SlabFree(@, h[2])]
        BY DEF new, slab, k, ndx
    <1> QED BY <1>13, <1>14 DEF k, more

-----------------------------------------------------------------------------
(* slab_list *)

\* The list s with e before its first entry.
LEMMA PushFront ==
    ASSUME NEW s, NEW front, NEW back, NEW lks, Linked(s, front, back, lks),
           NEW e \in Handles, e \notin ToSet(s)
    PROVE  Linked(<<e>> \o s, e, IF front = Nil THEN e ELSE back,
                  IF front = Nil THEN [lks EXCEPT ![e] = NoLinks]
                  ELSE [lks EXCEPT ![e] = [prev |-> lks[front].prev, next |-> front],
                                   ![front].prev = e])
    <1> DEFINE t == <<e>> \o s
               new == IF front = Nil THEN [lks EXCEPT ![e] = NoLinks]
                      ELSE [lks EXCEPT ![e] = [prev |-> lks[front].prev, next |-> front],
                                       ![front].prev = e]
    <1>1. /\ s \in Seq(Handles) /\ IsInjective(s) /\ lks \in [Handles -> Links]
          /\ front = Nth(s, 1) /\ back = Nth(s, Len(s))
          /\ \A i \in 1 .. Len(s) : lks[s[i]].prev = Nth(s, i - 1) /\ lks[s[i]].next = Nth(s, i + 1)
        BY DEF Linked
    <1>2. /\ t \in Seq(Handles) /\ IsInjective(t) /\ Len(t) = Len(s) + 1
        BY <1>1, ConsSet
    <1>3. t[1] = e /\ \A i \in 1 .. Len(s) : t[i + 1] = s[i]
        BY <1>1, ConsPlaces
    <1> HIDE DEF t
    <1>4. /\ Len(s) \in Nat
          /\ \A i \in 1 .. Len(s) : Nth(s, i) = s[i] /\ s[i] \in Handles /\ s[i] \in ToSet(s)
          /\ \A i \in Int : Nth(s, i) \in Handles \cup {Nil}
          /\ \A i \in Int : Nth(s, i) = Nil <=> i \notin 1 .. Len(s)
          /\ \A i \in 1 .. Len(s), j \in Int : Nth(s, j) = s[i] => j = i
        BY <1>1, NthProperties
    <1>5. /\ Nth(t, 0) = Nil /\ Nth(t, 1) = e
          /\ \A i \in Nat \ {0} : Nth(t, i + 1) = Nth(s, i)
        <2>1. 1 \in 1 .. Len(t) /\ 0 \notin 1 .. Len(t)
            BY <1>2, <1>4
        <2>2. ASSUME NEW i \in Nat \ {0} PROVE Nth(t, i + 1) = Nth(s, i)
            <3>1. i + 1 \in 1 .. Len(t) <=> i \in 1 .. Len(s)
                BY <1>2, <1>4
            <3> QED BY <1>3, <3>1 DEF Nth
        <2> QED BY <1>3, <2>1, <2>2 DEF Nth
    <1>6. CASE front = Nil
        <2>1. Len(s) = 0
            BY <1>1, <1>4, <1>6
        <2>2. /\ new = [lks EXCEPT ![e] = NoLinks]
              /\ new \in [Handles -> Links] /\ new[e] = NoLinks
            BY <1>1, <1>6 DEF Links, NoLinks
        <2>3. Len(t) = 1 /\ Nth(t, 1 - 1) = Nil /\ Nth(t, 1 + 1) = Nil
            BY <1>2, <2>1 DEF Nth
        <2>4. \A i \in 1 .. Len(t) : i = 1
            BY <2>3
        <2>5. \A i \in 1 .. Len(t) : new[t[i]].prev = Nth(t, i - 1) /\ new[t[i]].next = Nth(t, i + 1)
            BY <1>3, <2>2, <2>3, <2>4 DEF NoLinks
        <2>6. Linked(t, e, e, new)
            BY <1>2, <1>5, <2>2, <2>3, <2>5 DEF Linked
        <2> QED BY <1>6, <2>6 DEF t
    <1>7. CASE front # Nil
        <2>1. 1 \in 1 .. Len(s) /\ front = s[1] /\ front \in Handles /\ front # e
            BY <1>1, <1>4, <1>7
        <2>2. lks[front].prev = Nil
            <3>1. 1 - 1 \in Int /\ 1 - 1 \notin 1 .. Len(s)
                BY <1>4
            <3> QED BY <1>1, <1>4, <2>1, <3>1
        <2>3. /\ new \in [Handles -> Links]
              /\ new[e] = [prev |-> Nil, next |-> front]
              /\ new[front].prev = e /\ new[front].next = lks[front].next
              /\ \A x \in Handles : x # e /\ x # front => new[x] = lks[x]
            <3>1. new = [lks EXCEPT ![e] = [prev |-> Nil, next |-> front], ![front].prev = e]
                BY <1>7, <2>2
            <3> HIDE DEF new
            <3> QED BY <1>1, <2>1, <3>1 DEF Links
        <2> HIDE DEF new
        <2>4. ASSUME NEW i \in 1 .. Len(t)
              PROVE  new[t[i]].prev = Nth(t, i - 1) /\ new[t[i]].next = Nth(t, i + 1)
            <3>1. CASE i = 1
                <4>1. Nth(t, 1 + 1) = Nth(s, 1) /\ 1 - 1 = 0
                    BY <1>5
                <4>2. t[i] = e /\ i - 1 = 0 /\ i + 1 = 1 + 1
                    BY <1>3, <3>1
                <4>3. new[e].prev = Nil /\ new[e].next = front
                    BY <2>3
                <4> QED BY <1>1, <1>5, <4>1, <4>2, <4>3
            <3>2. CASE i = 2
                <4>1. t[i] = front /\ i - 1 = 1
                    BY <1>3, <2>1, <3>2
                <4>2. Nth(t, i + 1) = Nth(s, 1 + 1)
                    BY <1>5, <3>2
                <4>3. lks[front].next = Nth(s, 1 + 1)
                    BY <1>1, <2>1
                <4> QED BY <1>5, <2>3, <4>1, <4>2, <4>3
            <3>3. CASE i # 1 /\ i # 2
                <4>1. /\ i - 1 \in 1 .. Len(s) /\ i - 1 # 1 /\ (i - 1) + 1 = i
                      /\ i \in Nat \ {0} /\ i - 1 \in Nat \ {0} /\ (i - 1) - 1 \in Nat \ {0}
                      /\ ((i - 1) - 1) + 1 = i - 1 /\ i - 1 \in Int
                    BY <1>2, <1>4, <3>3
                <4>2. t[i] = s[i - 1]
                    BY <1>3, <4>1
                <4>3. t[i] \in Handles /\ t[i] # e
                    BY <1>4, <4>1, <4>2
                <4>4. t[i] # front
                    BY <1>4, <2>1, <4>1, <4>2
                <4>5. new[t[i]] = lks[s[i - 1]]
                    BY <2>3, <4>2, <4>3, <4>4
                <4>6. /\ lks[s[i - 1]].prev = Nth(s, (i - 1) - 1)
                      /\ lks[s[i - 1]].next = Nth(s, (i - 1) + 1)
                    BY <1>1, <4>1
                <4>7. Nth(t, ((i - 1) - 1) + 1) = Nth(s, (i - 1) - 1) /\ Nth(t, i + 1) = Nth(s, i)
                    BY <1>5, <4>1
                <4> QED BY <4>1, <4>5, <4>6, <4>7
            <3> QED BY <3>1, <3>2, <3>3
        <2>5. back = Nth(t, Len(t))
            BY <1>1, <1>2, <1>4, <1>5, <2>1
        <2>6. Linked(t, e, back, new)
            BY <1>2, <1>5, <2>3, <2>4, <2>5 DEF Linked
        <2> QED BY <1>7, <2>6 DEF t, new
    <1> QED BY <1>6, <1>7

\* The list s with e after its last entry.
LEMMA PushBack ==
    ASSUME NEW s, NEW front, NEW back, NEW lks, Linked(s, front, back, lks),
           NEW e \in Handles, e \notin ToSet(s)
    PROVE  Linked(Append(s, e), IF front = Nil THEN e ELSE front, e,
                  IF front = Nil THEN [lks EXCEPT ![e] = NoLinks]
                  ELSE [lks EXCEPT ![e] = [prev |-> back, next |-> lks[back].next],
                                   ![back].next = e])
    <1> DEFINE t == Append(s, e)
               new == IF front = Nil THEN [lks EXCEPT ![e] = NoLinks]
                      ELSE [lks EXCEPT ![e] = [prev |-> back, next |-> lks[back].next],
                                       ![back].next = e]
    <1>1. /\ s \in Seq(Handles) /\ IsInjective(s) /\ lks \in [Handles -> Links]
          /\ front = Nth(s, 1) /\ back = Nth(s, Len(s))
          /\ \A i \in 1 .. Len(s) : lks[s[i]].prev = Nth(s, i - 1) /\ lks[s[i]].next = Nth(s, i + 1)
        BY DEF Linked
    <1>2. /\ t \in Seq(Handles) /\ IsInjective(t) /\ Len(t) = Len(s) + 1
        BY <1>1, AppendSet
    <1>3. t[Len(s) + 1] = e /\ \A i \in 1 .. Len(s) : t[i] = s[i]
        BY <1>1, AppendProperties
    <1> HIDE DEF t
    <1>4. /\ Len(s) \in Nat
          /\ \A i \in 1 .. Len(s) : Nth(s, i) = s[i] /\ s[i] \in Handles /\ s[i] \in ToSet(s)
          /\ \A i \in Int : Nth(s, i) \in Handles \cup {Nil}
          /\ \A i \in Int : Nth(s, i) = Nil <=> i \notin 1 .. Len(s)
          /\ \A i \in 1 .. Len(s), j \in Int : Nth(s, j) = s[i] => j = i
        BY <1>1, NthProperties
    <1>5. /\ Nth(t, Len(s) + 1) = e /\ Nth(t, (Len(s) + 1) + 1) = Nil
          /\ \A i \in Int : i <= Len(s) => Nth(t, i) = Nth(s, i)
        <2>1. Len(s) + 1 \in 1 .. Len(t) /\ (Len(s) + 1) + 1 \notin 1 .. Len(t)
            BY <1>2, <1>4
        <2>2. ASSUME NEW i \in Int, i <= Len(s) PROVE Nth(t, i) = Nth(s, i)
            <3>1. i \in 1 .. Len(t) <=> i \in 1 .. Len(s)
                BY <1>2, <1>4, <2>2
            <3> QED BY <1>3, <3>1 DEF Nth
        <2> QED BY <1>3, <2>1, <2>2 DEF Nth
    <1>6. CASE front = Nil
        <2>1. Len(s) = 0
            BY <1>1, <1>4, <1>6
        <2>2. /\ new = [lks EXCEPT ![e] = NoLinks]
              /\ new \in [Handles -> Links] /\ new[e] = NoLinks
            BY <1>1, <1>6 DEF Links, NoLinks
        <2>3. Len(t) = 1 /\ Nth(t, 1 - 1) = Nil /\ Nth(t, 1 + 1) = Nil /\ t[1] = e
            BY <1>2, <1>3, <2>1 DEF Nth
        <2>4. \A i \in 1 .. Len(t) : i = 1
            BY <2>3
        <2>5. \A i \in 1 .. Len(t) : new[t[i]].prev = Nth(t, i - 1) /\ new[t[i]].next = Nth(t, i + 1)
            BY <2>2, <2>3, <2>4 DEF NoLinks
        <2>6. Nth(t, 1) = e
            BY <2>3 DEF Nth
        <2>7. Linked(t, e, e, new)
            BY <1>2, <2>2, <2>3, <2>5, <2>6 DEF Linked
        <2> QED BY <1>6, <2>7 DEF t
    <1>7. CASE front # Nil
        <2>1. /\ Len(s) \in 1 .. Len(s) /\ back = s[Len(s)] /\ back \in Handles /\ back # e
              /\ 1 <= Len(s)
            <3>1. 1 \in 1 .. Len(s)
                BY <1>1, <1>4, <1>7
            <3>2. Len(s) \in 1 .. Len(s) /\ 1 <= Len(s)
                BY <1>4, <3>1
            <3> QED BY <1>1, <1>4, <3>2
        <2>2. lks[back].next = Nil
            <3>1. Len(s) + 1 \in Int /\ Len(s) + 1 \notin 1 .. Len(s)
                BY <1>4
            <3> QED BY <1>1, <1>4, <2>1, <3>1
        <2>3. /\ new \in [Handles -> Links]
              /\ new[e] = [prev |-> back, next |-> Nil]
              /\ new[back].next = e /\ new[back].prev = lks[back].prev
              /\ \A x \in Handles : x # e /\ x # back => new[x] = lks[x]
            <3>1. new = [lks EXCEPT ![e] = [prev |-> back, next |-> Nil], ![back].next = e]
                BY <1>7, <2>2
            <3> HIDE DEF new
            <3> QED BY <1>1, <2>1, <3>1 DEF Links
        <2> HIDE DEF new
        <2>4. ASSUME NEW i \in 1 .. Len(t)
              PROVE  new[t[i]].prev = Nth(t, i - 1) /\ new[t[i]].next = Nth(t, i + 1)
            <3>0. i \in Int
                OBVIOUS
            <3>1. CASE i = Len(s) + 1
                <4>1. i - 1 = Len(s)
                    BY <1>4, <3>1
                <4>2. Nth(t, Len(s)) = back
                    BY <1>1, <1>4, <1>5
                <4> QED BY <1>3, <1>5, <2>3, <3>1, <4>1, <4>2
            <3>2. CASE i = Len(s)
                <4>1. t[i] = back /\ i - 1 \in Int /\ i - 1 <= Len(s)
                    BY <1>3, <1>4, <2>1, <3>2
                <4>2. lks[back].prev = Nth(s, i - 1)
                    BY <1>1, <2>1, <3>2
                <4> QED BY <1>5, <2>3, <3>2, <4>1, <4>2
            <3>3. CASE i # Len(s) + 1 /\ i # Len(s)
                <4>1. /\ i \in 1 .. Len(s) /\ i - 1 \in Int /\ i + 1 \in Int
                      /\ i - 1 <= Len(s) /\ i + 1 <= Len(s)
                    BY <1>2, <1>4, <3>3
                <4>2. t[i] = s[i] /\ s[i] \in Handles /\ s[i] # e
                    BY <1>3, <1>4, <4>1
                <4>3. s[i] # back
                    BY <1>1, <1>4, <3>3, <4>1
                <4>4. new[t[i]] = lks[s[i]]
                    BY <2>3, <4>2, <4>3
                <4>5. lks[s[i]].prev = Nth(s, i - 1) /\ lks[s[i]].next = Nth(s, i + 1)
                    BY <1>1, <4>1
                <4> QED BY <1>5, <4>1, <4>4, <4>5
            <3> QED BY <3>1, <3>2, <3>3
        <2>5. front = Nth(t, 1) /\ e = Nth(t, Len(t))
            BY <1>1, <1>2, <1>5, <2>1
        <2>6. Linked(t, front, e, new)
            BY <1>2, <2>3, <2>4, <2>5 DEF Linked
        <2> QED BY <1>7, <2>6 DEF t, new
    <1> QED BY <1>6, <1>7

\* The list s without its entry e.
LEMMA EraseEntry ==
    ASSUME NEW s, NEW front, NEW back, NEW lks, Linked(s, front, back, lks),
           NEW e \in ToSet(s)
    PROVE  Linked(RemoveFirst(s, e), IF front = e THEN lks[e].next ELSE front,
                  IF back = e THEN lks[e].prev ELSE back,
                  [f \in Handles |->
                        IF f = e THEN NoLinks
                        ELSE [prev |-> IF f = lks[e].next THEN lks[e].prev ELSE lks[f].prev,
                              next |-> IF f = lks[e].prev THEN lks[e].next ELSE lks[f].next]])
    <1> DEFINE r == RemoveFirst(s, e)
               new == [f \in Handles |->
                        IF f = e THEN NoLinks
                        ELSE [prev |-> IF f = lks[e].next THEN lks[e].prev ELSE lks[f].prev,
                              next |-> IF f = lks[e].prev THEN lks[e].next ELSE lks[f].next]]
    <1>1. /\ s \in Seq(Handles) /\ IsInjective(s) /\ lks \in [Handles -> Links]
          /\ front = Nth(s, 1) /\ back = Nth(s, Len(s))
          /\ \A i \in 1 .. Len(s) : lks[s[i]].prev = Nth(s, i - 1) /\ lks[s[i]].next = Nth(s, i + 1)
        BY DEF Linked
    <1>2. PICK n \in 1 .. Len(s) : s[n] = e
        BY <1>1, InToSet
    <1>3. r \in Seq(Handles) /\ IsInjective(r) /\ Len(r) = Len(s) - 1
        BY <1>1, RemoveFirstSet
    <1>4. \A i \in 1 .. Len(s) - 1 : r[i] = IF i < n THEN s[i] ELSE s[i + 1]
        BY <1>1, <1>2, RemoveFirstPlaces
    <1> HIDE DEF r
    <1>5. /\ Len(s) \in Nat
          /\ \A i \in 1 .. Len(s) : Nth(s, i) = s[i] /\ s[i] \in Handles /\ s[i] \in ToSet(s)
          /\ \A i \in Int : Nth(s, i) \in Handles \cup {Nil}
          /\ \A i \in Int : Nth(s, i) = Nil <=> i \notin 1 .. Len(s)
          /\ \A i \in 1 .. Len(s), j \in Int : Nth(s, j) = s[i] => j = i
        BY <1>1, NthProperties
    <1>6. ASSUME NEW i \in Int PROVE Nth(r, i) = IF i < n THEN Nth(s, i) ELSE Nth(s, i + 1)
        <2>1. i \in 1 .. Len(r) <=> i \in 1 .. Len(s) - 1
            BY <1>3
        <2>2. CASE i < n
            <3>1. i \in 1 .. Len(s) - 1 <=> i \in 1 .. Len(s)
                BY <1>5, <2>2
            <3> QED BY <1>4, <2>1, <2>2, <3>1 DEF Nth
        <2>3. CASE ~(i < n)
            <3>1. i \in 1 .. Len(s) - 1 <=> i + 1 \in 1 .. Len(s)
                BY <1>5, <2>3
            <3> QED BY <1>4, <2>1, <2>3, <3>1 DEF Nth
        <2> QED BY <2>2, <2>3
    <1>7. /\ lks[e].prev = Nth(s, n - 1) /\ lks[e].next = Nth(s, n + 1)
          /\ n - 1 \in Int /\ n + 1 \in Int /\ n \in Int /\ e \in Handles
        BY <1>1, <1>2, <1>5
    <1>8. new \in [Handles -> Links]
        <2>1. ASSUME NEW f \in Handles
              PROVE  (IF f = e THEN NoLinks
                      ELSE [prev |-> IF f = lks[e].next THEN lks[e].prev ELSE lks[f].prev,
                            next |-> IF f = lks[e].prev THEN lks[e].next ELSE lks[f].next]) \in Links
            <3>1. lks[f] \in Links /\ lks[e] \in Links
                BY <1>1, <1>7
            <3>2. /\ lks[f].prev \in Handles \cup {Nil} /\ lks[f].next \in Handles \cup {Nil}
                  /\ lks[e].prev \in Handles \cup {Nil} /\ lks[e].next \in Handles \cup {Nil}
                BY <3>1 DEF Links
            <3> QED BY <3>2 DEF Links, NoLinks
        <2> QED BY <2>1
    <1>9. \A f \in Handles : f # e =>
            /\ new[f].prev = IF f = Nth(s, n + 1) THEN Nth(s, n - 1) ELSE lks[f].prev
            /\ new[f].next = IF f = Nth(s, n - 1) THEN Nth(s, n + 1) ELSE lks[f].next
        BY <1>7
    <1> HIDE DEF new
    <1>10. ASSUME NEW i \in 1 .. Len(r)
           PROVE  new[r[i]].prev = Nth(r, i - 1) /\ new[r[i]].next = Nth(r, i + 1)
        <2>0. i \in Int /\ i \in 1 .. Len(s) - 1 /\ i - 1 \in Int /\ i + 1 \in Int /\ i \in 1 .. Len(s)
              /\ i + 1 \in 1 .. Len(s)
            BY <1>3, <1>5
        <2>1. CASE i < n
            <3>1. r[i] = s[i] /\ s[i] \in Handles /\ s[i] # e
                BY <1>2, <1>4, <1>5, <1>7, <2>0, <2>1
            <3>2. lks[s[i]].prev = Nth(s, i - 1) /\ lks[s[i]].next = Nth(s, i + 1)
                BY <1>1, <2>0
            <3>3. s[i] # Nth(s, n + 1)
                <4>1. n + 1 # i
                    BY <2>0, <2>1
                <4> QED BY <1>5, <1>7, <2>0, <4>1
            <3>4. s[i] = Nth(s, n - 1) <=> i = n - 1
                BY <1>5, <1>7, <2>0
            <3>5. Nth(r, i - 1) = Nth(s, i - 1)
                <4>1. i - 1 < n
                    BY <2>0, <2>1
                <4> QED BY <1>6, <2>0, <4>1
            <3>6. Nth(r, i + 1) = IF i = n - 1 THEN Nth(s, n + 1) ELSE Nth(s, i + 1)
                <4>1. CASE i = n - 1
                    <5>1. i + 1 = n /\ ~(n < n) /\ n \in Int
                        BY <2>0, <4>1
                    <5> QED BY <1>6, <4>1, <5>1
                <4>2. CASE i # n - 1
                    <5>1. i + 1 < n
                        BY <2>0, <2>1, <4>2
                    <5> QED BY <1>6, <2>0, <4>2, <5>1
                <4> QED BY <4>1, <4>2
            <3> QED BY <1>9, <3>1, <3>2, <3>3, <3>4, <3>5, <3>6
        <2>2. CASE ~(i < n)
            <3>1. r[i] = s[i + 1] /\ s[i + 1] \in Handles /\ s[i + 1] # e
                <4>1. i + 1 # n
                    BY <2>0, <2>2
                <4> QED BY <1>2, <1>4, <1>5, <1>7, <2>0, <2>2, <4>1
            <3>2. lks[s[i + 1]].prev = Nth(s, (i + 1) - 1) /\ lks[s[i + 1]].next = Nth(s, (i + 1) + 1)
                BY <1>1, <2>0
            <3>3. s[i + 1] # Nth(s, n - 1)
                <4>1. n - 1 # i + 1
                    BY <2>0, <2>2
                <4> QED BY <1>5, <1>7, <2>0, <4>1
            <3>4. s[i + 1] = Nth(s, n + 1) <=> i = n
                <4>1. i + 1 = n + 1 <=> i = n
                    BY <2>0
                <4> QED BY <1>5, <1>7, <2>0, <4>1
            <3>5. Nth(r, i + 1) = Nth(s, (i + 1) + 1)
                <4>1. ~(i + 1 < n)
                    BY <2>0, <2>2
                <4> QED BY <1>6, <2>0, <4>1
            <3>6. Nth(r, i - 1) = IF i = n THEN Nth(s, n - 1) ELSE Nth(s, (i + 1) - 1)
                <4>1. CASE i = n
                    <5>1. n - 1 < n
                        BY <2>0
                    <5> QED BY <1>6, <1>7, <4>1, <5>1
                <4>2. CASE i # n
                    <5>1. ~(i - 1 < n) /\ (i - 1) + 1 = (i + 1) - 1
                        BY <2>0, <2>2, <4>2
                    <5> QED BY <1>6, <2>0, <4>2, <5>1
                <4> QED BY <4>1, <4>2
            <3> QED BY <1>9, <3>1, <3>2, <3>3, <3>4, <3>5, <3>6
        <2> QED BY <2>1, <2>2
    <1>11. Nth(r, 1) = IF front = e THEN lks[e].next ELSE front
        <2>1. front = e <=> n = 1
            <3>1. 1 \in Int /\ front = Nth(s, 1)
                BY <1>1
            <3> QED BY <1>2, <1>5, <3>1
        <2>2. CASE n = 1
            <3>1. ~(1 < n) /\ 1 + 1 = n + 1
                BY <2>2
            <3> QED BY <1>6, <1>7, <2>1, <2>2, <3>1
        <2>3. CASE n # 1
            <3>1. 1 < n
                BY <1>5, <2>3
            <3> QED BY <1>1, <1>6, <2>1, <2>3, <3>1
        <2> QED BY <2>2, <2>3
    <1>12. Nth(r, Len(r)) = IF back = e THEN lks[e].prev ELSE back
        <2>0. Len(s) \in Int /\ Len(s) - 1 \in Int /\ Len(r) = Len(s) - 1
            BY <1>3, <1>5
        <2>1. back = e <=> n = Len(s)
            BY <1>1, <1>2, <1>5, <2>0
        <2>2. CASE n = Len(s)
            <3>1. Len(s) - 1 < n
                BY <2>0, <2>2
            <3> QED BY <1>6, <1>7, <2>0, <2>1, <2>2, <3>1
        <2>3. CASE n # Len(s)
            <3>1. ~(Len(s) - 1 < n) /\ (Len(s) - 1) + 1 = Len(s)
                BY <1>5, <2>0, <2>3
            <3> QED BY <1>1, <1>6, <2>0, <2>1, <2>3, <3>1
        <2> QED BY <2>2, <2>3
    <1>13. Linked(r, IF front = e THEN lks[e].next ELSE front,
                  IF back = e THEN lks[e].prev ELSE back, new)
        BY <1>3, <1>8, <1>10, <1>11, <1>12 DEF Linked
    <1> QED BY <1>13 DEF r, new

\* The invariant: the handles in use are the entries of a list, and no others.
SlabInv ==
    \E s, F : /\ Linked(s, m_front, m_back, links)
              /\ Pool(m_slabs, m_partial, F, ToSet(s))

LEMMA InvEntries ==
    ASSUME NEW s, Linked(s, m_front, m_back, links)
    PROVE  Entries = s
    BY ForwardIsList DEF Entries

LEMMA SlabInitInv ==
    ASSUME SlabListInit
    PROVE  SlabInv /\ Entries = <<>>
    <1>1. Linked(<<>>, m_front, m_back, links)
        <2>1. links \in [Handles -> Links]
            BY DEF SlabListInit, NoLinks, Links
        <2>2. Nth(<<>>, 1) = Nil /\ Nth(<<>>, Len(<<>>)) = Nil
            BY DEF Nth
        <2> QED BY <2>1, <2>2, ShortSeqs DEF Linked, SlabListInit
    <1>2. Pool(m_slabs, m_partial, <<>>, ToSet(<<>>))
        <2>1. m_slabs = <<>> /\ m_partial = <<>>
            BY DEF SlabListInit
        <2>2. Len(<<>>) = 0 /\ 1 .. 0 = {} /\ 0 <= MaxSlabs
            BY SlabAssumption
        <2> QED BY <2>1, <2>2, ShortSeqs DEF Pool
    <1> QED BY <1>1, <1>2, InvEntries DEF SlabInv

\* allocate_entry gives out an entry that is not in the list.
LEMMA AllocateGives ==
    ASSUME NEW F, NEW used, Pool(m_slabs, m_partial, F, used), AllocateEntry
    PROVE  /\ NextHandle \in Handles \ used
           /\ \E G : Pool(m_slabs', m_partial', G, used \cup {NextHandle})
    <1> DEFINE slabs == Extended.slabs
               partial == Extended.partial
    <1>1. slabs = IF m_partial # <<>> THEN m_slabs ELSE Append(m_slabs, NewSlab)
        BY DEF Extended
    <1>2. partial = IF m_partial # <<>> THEN m_partial ELSE <<Len(m_slabs) + 1>>
        BY DEF Extended
    <1>3. partial # <<>> /\ \E G : Pool(slabs, partial, G, used)
        <2>1. CASE m_partial # <<>>
            BY <1>1, <1>2, <2>1
        <2>2. CASE m_partial = <<>>
            <3>1. m_slabs \in Seq(Slab) /\ NewSlab \in Slab
                BY NewSlabIsFree DEF Pool, FreeList
            <3>2. Len(Append(m_slabs, NewSlab)) = Len(m_slabs) + 1
                BY <3>1, AppendProperties
            <3>3. Len(m_slabs) + 1 <= MaxSlabs
                BY <1>1, <2>2, <3>2 DEF AllocateEntry
            <3>4. \E G : Pool(Append(m_slabs, NewSlab), <<Len(m_slabs) + 1>>, G, used)
                BY <2>2, <3>3, ExtendPool
            <3>5. <<Len(m_slabs) + 1>> # <<>>
                OBVIOUS
            <3> QED BY <1>1, <1>2, <2>2, <3>4, <3>5
        <2> QED BY <2>1, <2>2
    <1>4. PICK G : Pool(slabs, partial, G, used)
        BY <1>3
    <1> DEFINE k == Head(partial)
               slab == SlabAllocate(slabs[k])
    <1>5. NextHandle = <<k, slabs[k].next>>
        BY DEF NextHandle
    <1>6. /\ m_slabs' = [slabs EXCEPT ![k] = slab]
          /\ m_partial' = IF slab.size = SlabSize THEN RemoveFirst(partial, k) ELSE partial
        BY DEF AllocateEntry, move_to_full
    <1> HIDE DEF slabs, partial
    <1>7. /\ <<k, slabs[k].next>> \in Handles \ used
          /\ \E H : Pool([slabs EXCEPT ![k] = slab],
                         IF slab.size = SlabSize THEN RemoveFirst(partial, k) ELSE partial,
                         H, used \cup {<<k, slabs[k].next>>})
        BY <1>3, <1>4, PoolAllocates
    <1> HIDE DEF k, slab
    <1> QED BY <1>5, <1>6, <1>7

\* A step keeps the invariant and is a step of the deque.
LEMMA SlabStep ==
    ASSUME SlabInv, SlabListNext
    PROVE  SlabInv' /\ List!DequeNext
    <1>0. /\ List!ToSet(Entries) = ToSet(Entries)
          /\ \A h : List!RemoveFirst(Entries, h) = RemoveFirst(Entries, h)
        BY DEF List!ToSet, ToSet, List!RemoveFirst, RemoveFirst, List!RemoveAt, RemoveAt,
               List!SelectInSeq, SelectInSeq, List!Min, Min
    <1>1. PICK s, F : Linked(s, m_front, m_back, links) /\ Pool(m_slabs, m_partial, F, ToSet(s))
        BY DEF SlabInv
    <1>2. Entries = s /\ s \in Seq(Handles)
        BY <1>1, InvEntries DEF Linked
    <1>3. ASSUME NEW t, NEW G, Linked(t, m_front', m_back', links'),
                 Pool(m_slabs', m_partial', G, ToSet(t))
          PROVE  SlabInv' /\ Entries' = t
        <2>1. Entries' = t
            BY <1>3, ForwardIsList DEF Entries
        <2>2. SlabInv'
            BY <1>3 DEF SlabInv
        <2> QED BY <2>1, <2>2
    <1> DEFINE e == NextHandle
    <1>4. CASE push_front
        <2>1. AllocateEntry
            BY <1>4 DEF push_front
        <2>2. e \in Handles \ ToSet(s) /\ \E G : Pool(m_slabs', m_partial', G, ToSet(s) \cup {e})
            BY <1>1, <2>1, AllocateGives
        <2>3. Linked(<<e>> \o s, m_front', m_back', links')
            BY <1>1, <1>4, <2>2, PushFront DEF push_front
        <2> HIDE DEF e
        <2>4. ToSet(<<e>> \o s) = ToSet(s) \cup {e}
            BY <1>2, <2>2, ConsSet
        <2>5. SlabInv' /\ Entries' = <<e>> \o s
            BY <1>3, <2>2, <2>3, <2>4
        <2> QED BY <1>0, <1>2, <2>2, <2>5 DEF List!DequeNext
    <1>5. CASE push_back
        <2>1. AllocateEntry
            BY <1>5 DEF push_back
        <2>2. e \in Handles \ ToSet(s) /\ \E G : Pool(m_slabs', m_partial', G, ToSet(s) \cup {e})
            BY <1>1, <2>1, AllocateGives
        <2>3. Linked(Append(s, e), m_front', m_back', links')
            BY <1>1, <1>5, <2>2, PushBack DEF push_back
        <2> HIDE DEF e
        <2>4. ToSet(Append(s, e)) = ToSet(s) \cup {e}
            BY <1>2, <2>2, AppendSet
        <2>5. SlabInv' /\ Entries' = Append(s, e)
            BY <1>3, <2>2, <2>3, <2>4
        <2> QED BY <1>0, <1>2, <2>2, <2>5 DEF List!DequeNext
    <1>6. ASSUME NEW h \in ToSet(Entries), erase(h) PROVE SlabInv' /\ List!DequeNext
        <2>1. h \in ToSet(s) /\ IsInjective(s)
            BY <1>1, <1>2 DEF Linked
        <2>2. Linked(RemoveFirst(s, h), m_front', m_back', links')
            BY <1>1, <1>6, <2>1, EraseEntry DEF erase, BackAfterErase, Unlinked
        <2>3. \E G : Pool([m_slabs EXCEPT ![h[1]] = SlabFree(@, h[2])],
                          IF m_slabs[h[1]].size = SlabSize THEN Append(m_partial, h[1]) ELSE m_partial,
                          G, ToSet(s) \ {h})
            BY <1>1, <2>1, PoolFrees
        <2>4. /\ m_slabs' = [m_slabs EXCEPT ![h[1]] = SlabFree(@, h[2])]
              /\ m_partial' = IF m_slabs[h[1]].size = SlabSize THEN Append(m_partial, h[1])
                              ELSE m_partial
            BY <1>6 DEF erase, FreeEntry, move_to_partial
        <2>5. ToSet(RemoveFirst(s, h)) = ToSet(s) \ {h}
            BY <1>2, <2>1, RemoveFirstSet
        <2>6. SlabInv' /\ Entries' = RemoveFirst(s, h)
            BY <1>3, <2>2, <2>3, <2>4, <2>5
        <2> QED BY <1>0, <1>2, <2>1, <2>6 DEF List!DequeNext
    <1> QED BY <1>4, <1>5, <1>6 DEF SlabListNext

\* slab_list is a sequence of distinct entries that grows at its ends and shrinks
\* anywhere: push_front and push_back take an entry that is not in the list from the
\* slabs, erase gives one back, and next() leads through the others as before.
THEOREM SlabListIsDeque == SlabListSpec => RefinesDeque
    <1>1. ASSUME SlabListInit PROVE SlabInv /\ List!DequeInit
        BY <1>1, SlabInitInv DEF List!DequeInit
    <1>2. ASSUME SlabInv, [SlabListNext]_slabVars PROVE SlabInv' /\ [List!DequeNext]_Entries
        <2>1. CASE SlabListNext
            BY <1>2, <2>1, SlabStep
        <2>2. CASE UNCHANGED slabVars
            BY <1>2, <2>2 DEF slabVars, SlabInv, Entries
        <2> QED BY <1>2, <2>1, <2>2
    <1> QED BY <1>1, <1>2, PTL DEF SlabListSpec, RefinesDeque, List!DequeSpec
=============================================================================
