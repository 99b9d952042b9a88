------------------------------ MODULE CallProofs ------------------------------
(***************************************************************************)
(* Proofs about the calls of clients, for every number of clients, updates *)
(* and ushards and for every size of message and buffer: an update whose   *)
(* first call overlapped no other is in all ushards it was sent to or in   *)
(* none (DbServer); and a call of rpc_client gets the answer to its own    *)
(* request, as it was sent, wherever the connection cuts the bytes (Rpc).  *)
(* About the rings that threads hand each other work through (RingQueue),  *)
(* about a fetch, whose client puts together the values of a range from    *)
(* answers that cut them anywhere (Fetch), and about the requests that an  *)
(* http_server reads from a connection and answers (Http).                 *)
(***************************************************************************)
EXTENDS DbServer, Rpc, RingQueue, Fetch, Http, ListTheorems

(***************************************************************************)
(* DbServer                                                                *)
(***************************************************************************)

Places == {"idle", "asks", "writing", "open", "complete", "gone"}

ClientRecord == [at : Places, handle : Nat, update : Nat]

Entry == Nat \X Nat

\* The slice writers of update n: one for each ushard that it was sent to, with
\* its entries under its idx.
UpdateWriter(n) == [idx |-> n, slices |-> [u \in sent[n] |-> {<<n, n>>}]]

\* A writer with entries of the updates in S only, under any idx.
WriterOf(S, w) ==
    /\ w = [idx |-> w.idx, slices |-> w.slices] /\ w.idx \in Nat
    /\ w.slices = [u \in DOMAIN w.slices |-> w.slices[u]]
    /\ \A u \in DOMAIN w.slices : w.slices[u] \subseteq S \X Nat

DbTypes ==
    /\ idx \in 0 .. MaxUpdates
    /\ DOMAIN writers \subseteq 1 .. idx
    /\ writers = [h \in DOMAIN writers |-> writers[h]]
    /\ ushards \in [Ushards -> Seq(SUBSET Entry)]
    /\ DOMAIN merging = Ushards
    /\ clients \in [Clients -> ClientRecord]
    /\ DOMAIN stack = Clients
    /\ sent \in [0 .. MaxUpdates - 1 -> SUBSET Ushards]
    /\ acked \subseteq 0 .. idx - 1
    /\ overlapped \subseteq 0 .. idx - 1

\* A handle is one more than the newest idx.  If that update started alone the
\* handle names it, not committed, and all that was sent of it; if it overlapped
\* another, the handle names a writer with entries of such updates only.
HandlesNameUpdates ==
    \A h \in DOMAIN writers :
        /\ h - 1 \in overlapped => WriterOf(overlapped, writers[h])
        /\ h - 1 \notin overlapped => h - 1 \notin acked /\ writers[h] = UpdateWriter(h - 1)

InUpdate(c) == clients[c].at \in {"writing", "open", "complete"}

\* The handle of a client with an update that started alone is its own; the others
\* have handles that do not name such an update.
HandleOf(c) ==
    /\ clients[c].handle \in 1 .. idx
    /\ clients[c].update \in overlapped => clients[c].handle - 1 \in overlapped
    /\ clients[c].update \notin overlapped =>
          clients[c].handle \in DOMAIN writers /\ clients[c].handle = clients[c].update + 1

\* While the first call of an update is served alone it is the newest one, and its
\* handle is not taken; while others are, the newest one is one of those.
FirstCall(c) ==
    /\ clients[c].update \in overlapped =>
          idx - 1 \in overlapped /\ WriterOf(overlapped, stack[c])
    /\ clients[c].update \notin overlapped =>
          /\ idx = clients[c].update + 1
          /\ idx \notin DOMAIN writers /\ clients[c].update \notin acked
          /\ stack[c] = UpdateWriter(clients[c].update)

ClientsOwnUpdates ==
    /\ \A c \in Clients : InUpdate(c) => clients[c].update \in 0 .. idx - 1
    /\ \A c \in Clients : clients[c].at \in {"open", "complete"} => HandleOf(c)
    /\ \A c \in Clients : clients[c].at = "writing" => FirstCall(c)
    /\ \A c, d \in Clients :
          InUpdate(c) /\ InUpdate(d) /\ clients[c].update = clients[d].update => c = d

\* A merge replaces slices that are still there.
MergingSlices == \A u \in Ushards : merging[u] \in 0 .. Len(ushards[u])

DbInv ==
    /\ DbTypes
    /\ HandlesNameUpdates
    /\ ClientsOwnUpdates
    /\ MergingSlices
    /\ UpdatesStartedAloneAreWhole

-----------------------------------------------------------------------------
(* Writers and slices *)

LEMMA WriterOfMore ==
    ASSUME NEW S, NEW T, S \subseteq T, NEW w, WriterOf(S, w)
    PROVE  WriterOf(T, w)
    <1>1. S \X Nat \subseteq T \X Nat
        OBVIOUS
    <1> QED BY <1>1, Zenon DEF WriterOf

\* update_entries adds the entries of a call to what the update has.
LEMMA SlicesOfUpdate ==
    ASSUME NEW n, NEW S, NEW batch
    PROVE  SlicesFor([idx |-> n, slices |-> [u \in S |-> {<<n, n>>}]], n, batch)
              = [idx |-> n, slices |-> [u \in S \cup batch |-> {<<n, n>>}]]
    <1> DEFINE w == [idx |-> n, slices |-> [u \in S |-> {<<n, n>>}]]
               all == [u \in S \cup batch |-> {<<n, n>>}]
               F == [u \in DOMAIN w.slices \cup batch |->
                        (IF u \in DOMAIN w.slices THEN w.slices[u] ELSE {})
                            \cup (IF u \in batch THEN {<<n, w.idx>>} ELSE {})]
    <1>1. F = all
        OBVIOUS
    <1>2. [w EXCEPT !.slices = all] = [idx |-> n, slices |-> all]
        BY SMTT(30)
    <1> QED BY <1>1, <1>2 DEF SlicesFor

\* The first slices of an update.
LEMMA FirstSlices ==
    ASSUME NEW n, NEW batch
    PROVE  SlicesFor([NoWriter EXCEPT !.idx = n], n, batch)
              = [idx |-> n, slices |-> [u \in batch |-> {<<n, n>>}]]
    <1>1. [NoWriter EXCEPT !.idx = n] = [idx |-> n, slices |-> [u \in {} |-> {<<n, n>>}]]
        BY DEF NoWriter
    <1>2. {} \cup batch = batch
        OBVIOUS
    <1>3. SlicesFor([idx |-> n, slices |-> [u \in {} |-> {<<n, n>>}]], n, batch)
             = [idx |-> n, slices |-> [u \in {} \cup batch |-> {<<n, n>>}]]
        BY SlicesOfUpdate
    <1> QED BY <1>1, <1>2, <1>3

\* Whoever adds to a writer of the updates in S, if its own update is one of them,
\* leaves such a writer.
LEMMA SlicesOfWriter ==
    ASSUME NEW S, NEW w, WriterOf(S, w), NEW n \in S, NEW batch
    PROVE  WriterOf(S, SlicesFor(w, n, batch))
    <1> DEFINE F == [u \in DOMAIN w.slices \cup batch |->
                        (IF u \in DOMAIN w.slices THEN w.slices[u] ELSE {})
                            \cup (IF u \in batch THEN {<<n, w.idx>>} ELSE {})]
               i == w.idx
               s == w.slices
    <1>1. w = [idx |-> i, slices |-> s] /\ i \in Nat /\ \A u \in DOMAIN s : s[u] \subseteq S \X Nat
        BY DEF WriterOf
    <1>2. \A u \in DOMAIN F : F[u] \subseteq S \X Nat
        <2> SUFFICES ASSUME NEW u \in DOMAIN F, NEW e \in F[u] PROVE e \in S \X Nat
            OBVIOUS
        <2>1. u \in DOMAIN w.slices \cup batch
            OBVIOUS
        <2>2. (u \in DOMAIN s /\ e \in s[u]) \/ e = <<n, i>>
            BY <2>1
        <2> HIDE DEF F, s, i
        <2> QED BY <1>1, <2>2
    <1>3. F = [u \in DOMAIN F |-> F[u]]
        OBVIOUS
    <1>4. SlicesFor(w, n, batch) = [w EXCEPT !.slices = F]
        BY DEF SlicesFor
    <1> HIDE DEF F, i, s
    <1>5. [w EXCEPT !.slices = F] = [idx |-> i, slices |-> F]
        BY <1>1
    <1> QED BY <1>1, <1>2, <1>3, <1>4, <1>5 DEF WriterOf

\* The writer of one update has entries of that update only.
LEMMA OneUpdate ==
    ASSUME NEW S, NEW n \in S, n \in Nat, NEW R
    PROVE  WriterOf(S, [idx |-> n, slices |-> [u \in R |-> {<<n, n>>}]])
    <1>1. {<<n, n>>} \subseteq S \X Nat
        OBVIOUS
    <1> QED BY <1>1 DEF WriterOf

LEMMA NoWriterOf == \A S : WriterOf(S, NoWriter)
    BY DEF WriterOf, NoWriter

LEMMA CutSet ==
    ASSUME NEW S, NEW s \in Seq(S), NEW n \in 0 .. Len(s)
    PROVE  /\ SubSeq(s, 1, n) \in Seq(S) /\ SubSeq(s, n + 1, Len(s)) \in Seq(S)
           /\ ToSet(s) = ToSet(SubSeq(s, 1, n)) \cup ToSet(SubSeq(s, n + 1, Len(s)))
    <1> DEFINE a == SubSeq(s, 1, n)
               b == SubSeq(s, n + 1, Len(s))
    <1>1. /\ a \in Seq(S) /\ Len(a) = n /\ \A i \in 1 .. n : a[i] = s[i]
          /\ b \in Seq(S) /\ Len(b) = Len(s) - n /\ \A i \in 1 .. Len(s) - n : b[i] = s[n + i]
          /\ Len(s) \in Nat
        BY SubSeqPlaces
    <1> HIDE DEF a, b
    <1>2. ASSUME NEW x PROVE x \in ToSet(s) <=> x \in ToSet(a) \/ x \in ToSet(b)
        <2>1. /\ x \in ToSet(s) <=> \E i \in 1 .. Len(s) : s[i] = x
              /\ x \in ToSet(a) <=> \E i \in 1 .. n : a[i] = x
              /\ x \in ToSet(b) <=> \E i \in 1 .. Len(s) - n : b[i] = x
            <3>1. \A t \in Seq(S) : x \in ToSet(t) <=> \E i \in 1 .. Len(t) : t[i] = x
                BY InToSet
            <3> QED BY <1>1, <3>1
        <2>2. ASSUME NEW i \in 1 .. Len(s), s[i] = x PROVE x \in ToSet(a) \/ x \in ToSet(b)
            <3>1. CASE i <= n
                BY <1>1, <2>1, <2>2, <3>1
            <3>2. CASE i > n
                <4>1. i - n \in 1 .. Len(s) - n /\ n + (i - n) = i
                    BY <1>1, <3>2
                <4> QED BY <1>1, <2>1, <2>2, <4>1
            <3> QED BY <1>1, <3>1, <3>2
        <2>3. \A i \in 1 .. n : i \in 1 .. Len(s)
            BY <1>1
        <2>4. \A i \in 1 .. Len(s) - n : n + i \in 1 .. Len(s)
            BY <1>1
        <2> QED BY <1>1, <2>1, <2>2, <2>3, <2>4
    <1>3. ToSet(s) = ToSet(a) \cup ToSet(b)
        BY <1>2
    <1> QED BY <1>1, <1>3 DEF a, b

-----------------------------------------------------------------------------
(* update_data *)

\* What keeps UpdatesStartedAloneAreWhole: no entry of an update that started alone
\* comes or goes, and none of those is sent or acknowledged.
LEMMA StillWhole ==
    ASSUME DbInv, overlapped \subseteq overlapped',
           \A n \in (0 .. MaxUpdates - 1) \ overlapped' :
              /\ n \in acked' <=> n \in acked
              /\ n \in acked => sent'[n] = sent[n]
              /\ \A u \in Ushards : <<n, n>> \in Contents(u)' <=> <<n, n>> \in Contents(u)
    PROVE  UpdatesStartedAloneAreWhole'
    BY DEF DbInv, UpdatesStartedAloneAreWhole, WholeUpdate

LEMMA BeginKeeps ==
    ASSUME DbInv, NEW c \in Clients, NEW batch \in SUBSET Ushards, Begin(c, batch)
    PROVE  DbInv'
    <1> DEFINE firstCalls == {clients[d].update : d \in {e \in Clients : clients[e].at = "writing"}}
    <1>1. /\ idx \in 0 .. MaxUpdates - 1 /\ idx' = idx + 1 /\ idx' \in 0 .. MaxUpdates
          /\ idx \in Nat /\ acked' = acked /\ ushards' = ushards /\ merging' = merging
          /\ writers' = writers /\ DOMAIN writers \subseteq 1 .. idx
          /\ acked \subseteq 0 .. idx - 1 /\ overlapped \subseteq 0 .. idx - 1
        BY UpdatesAssumption DEF DbInv, DbTypes, Begin
    <1>2. /\ idx \notin acked /\ idx \notin overlapped /\ idx' \notin DOMAIN writers
          /\ firstCalls \subseteq 0 .. idx - 1
        BY <1>1 DEF DbInv, ClientsOwnUpdates, InUpdate
    <1>3. /\ clients' \in [Clients -> ClientRecord]
          /\ clients[c].at = "asks" /\ clients'[c].at = "writing" /\ clients'[c].update = idx
          /\ \A d \in Clients \ {c} : clients'[d] = clients[d]
        <2> DEFINE r == [[clients[c] EXCEPT !.at = "writing"] EXCEPT !.update = idx]
        <2>1. /\ clients \in [Clients -> ClientRecord] /\ clients[c].at = "asks"
              /\ clients' = [clients EXCEPT ![c].at = "writing", ![c].update = idx]
            BY DEF DbInv, DbTypes, Begin
        <2>2. r \in ClientRecord /\ r.at = "writing" /\ r.update = idx
            BY <1>1, <2>1 DEF Places, ClientRecord
        <2>3. clients' = [clients EXCEPT ![c] = r]
            BY <2>1
        <2> QED BY <2>1, <2>2, <2>3
    <1>4. /\ sent' = [sent EXCEPT ![idx] = batch] /\ sent'[idx] = batch
          /\ sent' \in [0 .. MaxUpdates - 1 -> SUBSET Ushards]
          /\ \A n \in 0 .. MaxUpdates - 1 : n # idx => sent'[n] = sent[n]
        BY <1>1 DEF DbInv, DbTypes, Begin
    <1>5. /\ DOMAIN stack' = Clients
          /\ stack'[c] = [idx |-> idx, slices |-> [u \in batch |-> {<<idx, idx>>}]]
          /\ \A d \in Clients \ {c} : stack'[d] = stack[d]
        BY FirstSlices DEF DbInv, DbTypes, Begin
    <1>6. /\ \A n \in 0 .. MaxUpdates - 1 : n # idx => UpdateWriter(n)' = UpdateWriter(n)
          /\ stack'[c] = UpdateWriter(clients[c].update)'
        BY <1>3, <1>4, <1>5 DEF UpdateWriter
    <1>7. overlapped' = overlapped \cup (IF firstCalls = {} THEN {} ELSE firstCalls \cup {idx})
        BY DEF Begin, Overlapping
    <1> HIDE DEF firstCalls
    <1>8. overlapped \subseteq overlapped' /\ overlapped' \subseteq 0 .. idx
        <2>1. 0 .. idx - 1 \subseteq 0 .. idx /\ idx \in 0 .. idx
            BY <1>1
        <2>2. overlapped \subseteq 0 .. idx - 1 /\ firstCalls \subseteq 0 .. idx - 1
            BY <1>1, <1>2, Zenon
        <2>3. overlapped' \subseteq overlapped \cup (firstCalls \cup {idx})
            BY <1>7, Zenon
        <2>4. overlapped \subseteq overlapped'
            BY <1>7, Zenon
        <2> QED BY <2>1, <2>2, <2>3, <2>4, Zenon
    <1>9. DbTypes'
        BY <1>1, <1>3, <1>4, <1>5, <1>8 DEF DbInv, DbTypes
    <1>10. HandlesNameUpdates'
        <2> SUFFICES ASSUME NEW h \in DOMAIN writers
                     PROVE  /\ h - 1 \in overlapped' => WriterOf(overlapped', writers[h])
                            /\ h - 1 \notin overlapped' =>
                                  h - 1 \notin acked /\ writers[h] = UpdateWriter(h - 1)'
            BY <1>1 DEF HandlesNameUpdates
        <2>1. h \in 1 .. idx /\ h - 1 \in 0 .. MaxUpdates - 1 /\ h - 1 # idx
            BY <1>1, UpdatesAssumption
        <2>2. /\ h - 1 \in overlapped => WriterOf(overlapped, writers[h])
              /\ h - 1 \notin overlapped =>
                    h - 1 \notin acked /\ writers[h] = UpdateWriter(h - 1)
            BY DEF DbInv, HandlesNameUpdates
        <2>3. h - 1 \in firstCalls => h - 1 \in overlapped
            <3> SUFFICES ASSUME NEW d \in Clients, clients[d].at = "writing",
                                h - 1 = clients[d].update, h - 1 \notin overlapped
                         PROVE  FALSE
                BY DEF firstCalls
            <3>1. idx = clients[d].update + 1 /\ idx \notin DOMAIN writers
                BY DEF DbInv, ClientsOwnUpdates, FirstCall
            <3> QED BY <2>1, <3>1
        <2>4. h - 1 \in overlapped' => h - 1 \in overlapped
            BY <1>7, <2>1, <2>3
        <2> QED BY <1>6, <1>8, <2>1, <2>2, <2>4, WriterOfMore
    <1>11. ClientsOwnUpdates'
        <2>1. /\ InUpdate(c)' /\ \A d \in Clients \ {c} : InUpdate(d)' = InUpdate(d)
            BY <1>3 DEF InUpdate
        <2>2. \A d \in Clients \ {c} : InUpdate(d) => clients[d].update \in 0 .. idx - 1
            BY DEF DbInv, ClientsOwnUpdates
        <2>3. \A d \in Clients : InUpdate(d)' => clients'[d].update \in 0 .. idx' - 1
            BY <1>1, <1>3, <2>1, <2>2
        <2>4. ASSUME NEW d \in Clients, clients'[d].at \in {"open", "complete"}
              PROVE  HandleOf(d)'
            <3>1. d # c /\ clients'[d] = clients[d] /\ HandleOf(d) /\ InUpdate(d)
                BY <1>3, <2>4 DEF DbInv, ClientsOwnUpdates, InUpdate
            <3>2. clients[d].update \notin firstCalls
                <4> SUFFICES ASSUME NEW e \in Clients, clients[e].at = "writing",
                                    clients[e].update = clients[d].update
                             PROVE  FALSE
                    BY DEF firstCalls
                <4>1. e = d
                    BY <3>1 DEF DbInv, ClientsOwnUpdates, InUpdate
                <4> QED BY <1>3, <2>4, <3>1, <4>1
            <3>3. clients[d].update \in overlapped' <=> clients[d].update \in overlapped
                BY <1>1, <1>7, <2>2, <3>1, <3>2
            <3> QED BY <1>1, <1>8, <3>1, <3>3 DEF HandleOf
        <2>5. ASSUME NEW d \in Clients, clients'[d].at = "writing", d # c
              PROVE  FirstCall(d)'
            <3>1. /\ clients'[d] = clients[d] /\ FirstCall(d) /\ clients[d].update \in firstCalls
                  /\ clients[d].update \in 0 .. idx - 1
                BY <1>3, <2>5 DEF DbInv, ClientsOwnUpdates, firstCalls, InUpdate
            <3>2. clients[d].update \in overlapped' /\ idx \in overlapped'
                BY <1>7, <3>1
            <3>3. WriterOf(overlapped', stack[d])
                <4>1. CASE clients[d].update \in overlapped
                    BY <1>8, <3>1, <4>1, WriterOfMore DEF FirstCall
                <4>2. CASE clients[d].update \notin overlapped
                    BY <3>1, <3>2, <4>2, OneUpdate DEF FirstCall, UpdateWriter
                <4> QED BY <4>1, <4>2
            <3> QED BY <1>1, <1>5, <2>5, <3>1, <3>2, <3>3 DEF FirstCall
        <2>6. FirstCall(c)'
            <3>1. CASE firstCalls = {}
                BY <1>1, <1>2, <1>3, <1>6, <1>7, <3>1 DEF FirstCall
            <3>2. CASE firstCalls # {}
                <4>1. idx \in overlapped'
                    BY <1>7, <3>2
                <4>2. WriterOf(overlapped', stack'[c])
                    BY <1>1, <1>5, <4>1, OneUpdate
                <4> QED BY <1>1, <1>3, <4>1, <4>2 DEF FirstCall
            <3> QED BY <3>1, <3>2
        <2>7. \A d, e \in Clients :
                 InUpdate(d)' /\ InUpdate(e)' /\ clients'[d].update = clients'[e].update => d = e
            BY <1>1, <1>3, <2>1, <2>2 DEF DbInv, ClientsOwnUpdates
        <2> QED BY <2>3, <2>4, <2>5, <2>6, <2>7 DEF ClientsOwnUpdates
    <1>12. MergingSlices'
        BY <1>1 DEF DbInv, MergingSlices
    <1>13. UpdatesStartedAloneAreWhole'
        <2>1. \A n \in acked : sent'[n] = sent[n]
            BY <1>1, <1>2, <1>4, UpdatesAssumption
        <2> QED BY <1>1, <1>8, <2>1, StillWhole DEF Contents
    <1> QED BY <1>9, <1>10, <1>11, <1>12, <1>13 DEF DbInv

LEMMA AnswerKeeps ==
    ASSUME DbInv, NEW c \in Clients, NEW last \in BOOLEAN, AnswerUpdate(c, last)
    PROVE  DbInv'
    <1> DEFINE n == clients[c].update
    <1>1. /\ FirstCall(c) /\ n \in 0 .. idx - 1 /\ clients[c].at = "writing"
          /\ idx \in 1 .. MaxUpdates /\ idx \in Nat /\ n \in Nat
          /\ idx - 1 \in 0 .. MaxUpdates - 1 /\ DOMAIN writers \subseteq 1 .. idx
        BY UpdatesAssumption DEF DbInv, DbTypes, ClientsOwnUpdates, InUpdate, AnswerUpdate
    <1>2. /\ idx' = idx /\ acked' = acked /\ ushards' = ushards /\ merging' = merging
          /\ sent' = sent /\ overlapped' = overlapped
          /\ writers' = StoredWriter(idx, stack[c])
          /\ DOMAIN stack' = Clients /\ \A d \in Clients \ {c} : stack'[d] = stack[d]
        BY DEF DbInv, DbTypes, AnswerUpdate
    <1>3. /\ DOMAIN writers' = DOMAIN writers \cup {idx}
          /\ writers' = [h \in DOMAIN writers' |-> writers'[h]]
          /\ writers'[idx] = stack[c]
          /\ \A h \in DOMAIN writers \ {idx} : writers'[h] = writers[h]
        BY <1>2 DEF StoredWriter
    <1>4. /\ clients' \in [Clients -> ClientRecord]
          /\ clients'[c].at \in {"open", "complete"} /\ clients'[c].handle = idx
          /\ clients'[c].update = n
          /\ \A d \in Clients \ {c} : clients'[d] = clients[d]
        <2> DEFINE place == IF last THEN "complete" ELSE "open"
                   r == [[clients[c] EXCEPT !.at = place] EXCEPT !.handle = idx]
        <2>1. /\ clients \in [Clients -> ClientRecord]
              /\ clients' = [clients EXCEPT ![c].at = place, ![c].handle = idx]
            BY DEF DbInv, DbTypes, AnswerUpdate
        <2>2. place \in {"open", "complete"}
            OBVIOUS
        <2> HIDE DEF place
        <2>3. r \in ClientRecord /\ r.at = place /\ r.handle = idx /\ r.update = n
            BY <1>1, <2>1, <2>2 DEF Places, ClientRecord
        <2>4. clients' = [clients EXCEPT ![c] = r]
            BY <2>1
        <2> QED BY <2>1, <2>2, <2>3, <2>4
    <1>5. \A m : UpdateWriter(m)' = UpdateWriter(m)
        BY <1>2 DEF UpdateWriter
    <1>6. DbTypes'
        BY <1>1, <1>2, <1>3, <1>4 DEF DbInv, DbTypes
    <1>7. HandlesNameUpdates'
        <2>1. ASSUME n \in overlapped
              PROVE  idx - 1 \in overlapped /\ WriterOf(overlapped, writers'[idx])
            BY <1>1, <1>3, <2>1 DEF FirstCall
        <2>2. ASSUME n \notin overlapped
              PROVE  /\ idx - 1 \notin overlapped /\ idx - 1 \notin acked
                     /\ writers'[idx] = UpdateWriter(idx - 1)
            <3>1. idx - 1 = n
                BY <1>1, <2>2 DEF FirstCall
            <3> QED BY <1>1, <1>3, <2>2, <3>1 DEF FirstCall
        <2>3. \A h \in DOMAIN writers \ {idx} :
                 /\ h - 1 \in overlapped => WriterOf(overlapped, writers'[h])
                 /\ h - 1 \notin overlapped =>
                       h - 1 \notin acked /\ writers'[h] = UpdateWriter(h - 1)
            BY <1>3 DEF DbInv, HandlesNameUpdates
        <2> QED BY <1>2, <1>3, <1>5, <2>1, <2>2, <2>3 DEF HandlesNameUpdates
    <1>8. ClientsOwnUpdates'
        <2>1. InUpdate(c) /\ \A d \in Clients : InUpdate(d)' = InUpdate(d)
            BY <1>1, <1>4 DEF InUpdate
        <2>2. \A d \in Clients : clients'[d].update = clients[d].update
            BY <1>4
        <2>3. HandleOf(c)'
            BY <1>1, <1>2, <1>3, <1>4 DEF HandleOf, FirstCall
        <2>4. ASSUME NEW d \in Clients \ {c}, clients'[d].at \in {"open", "complete"}
              PROVE  HandleOf(d)'
            <3>1. HandleOf(d) /\ clients'[d] = clients[d]
                BY <1>4, <2>4 DEF DbInv, ClientsOwnUpdates
            <3> QED BY <1>2, <1>3, <3>1 DEF HandleOf
        <2>5. ASSUME NEW d \in Clients, clients'[d].at = "writing"
              PROVE  FirstCall(d)'
            <3>1. d # c /\ clients'[d] = clients[d] /\ FirstCall(d) /\ InUpdate(d)
                  /\ clients[d].update \in 0 .. idx - 1
                BY <1>4, <2>5 DEF DbInv, ClientsOwnUpdates, InUpdate
            <3>2. clients[d].update # n
                BY <2>1, <3>1 DEF DbInv, ClientsOwnUpdates
            <3>3. clients[d].update \in overlapped
                <4> SUFFICES ASSUME clients[d].update \notin overlapped PROVE FALSE
                    OBVIOUS
                <4>1. idx - 1 = clients[d].update
                    BY <3>1 DEF FirstCall
                <4>2. n \notin overlapped
                    BY <1>1, <4>1 DEF FirstCall
                <4>3. idx = n + 1
                    BY <1>1, <4>2 DEF FirstCall
                <4> QED BY <1>1, <3>2, <4>1, <4>3
            <3> QED BY <1>2, <3>1, <3>3 DEF FirstCall
        <2>6. \A d \in Clients : InUpdate(d)' => clients'[d].update \in 0 .. idx' - 1
            BY <1>2, <2>1, <2>2 DEF DbInv, ClientsOwnUpdates
        <2>7. \A d, e \in Clients :
                 InUpdate(d)' /\ InUpdate(e)' /\ clients'[d].update = clients'[e].update => d = e
            BY <2>1, <2>2 DEF DbInv, ClientsOwnUpdates
        <2> QED BY <2>3, <2>4, <2>5, <2>6, <2>7 DEF ClientsOwnUpdates
    <1>9. MergingSlices'
        BY <1>2 DEF DbInv, MergingSlices
    <1>10. UpdatesStartedAloneAreWhole'
        BY <1>2, StillWhole DEF Contents
    <1> QED BY <1>6, <1>7, <1>8, <1>9, <1>10 DEF DbInv

LEMMA MoreKeeps ==
    ASSUME DbInv, NEW c \in Clients, NEW batch \in SUBSET Ushards, NEW last \in BOOLEAN,
           More(c, batch, last)
    PROVE  DbInv'
    <1> SUFFICES ASSUME NEW n, n = clients[c].update, NEW h, h = clients[c].handle,
                        NEW w, w = WriterAt(h)
                 PROVE  DbInv'
        OBVIOUS
    <1>1. /\ HandleOf(c) /\ InUpdate(c) /\ h \in 1 .. idx /\ n \in 0 .. MaxUpdates - 1
          /\ n \in 0 .. idx - 1 /\ idx \in 0 .. MaxUpdates /\ DOMAIN writers \subseteq 1 .. idx
        BY UpdatesAssumption DEF DbInv, DbTypes, ClientsOwnUpdates, HandleOf, InUpdate, More
    <1>2. /\ idx' = idx /\ acked' = acked /\ ushards' = ushards /\ merging' = merging
          /\ stack' = stack /\ overlapped' = overlapped
          /\ writers' = StoredWriter(h, SlicesFor(w, n, batch))
        BY DEF More
    <1>3. /\ sent'[n] = sent[n] \cup batch
          /\ sent' \in [0 .. MaxUpdates - 1 -> SUBSET Ushards]
          /\ \A m \in 0 .. MaxUpdates - 1 : m # n => sent'[m] = sent[m]
        BY <1>1 DEF DbInv, DbTypes, More
    <1>4. \A m \in 0 .. MaxUpdates - 1 : m # n => UpdateWriter(m)' = UpdateWriter(m)
        BY <1>3 DEF UpdateWriter
    <1>5. /\ DOMAIN writers' = DOMAIN writers \cup {h}
          /\ writers' = [k \in DOMAIN writers' |-> writers'[k]]
          /\ writers'[h] = SlicesFor(w, n, batch)
          /\ \A k \in DOMAIN writers \ {h} : writers'[k] = writers[k]
        BY <1>2 DEF StoredWriter
    <1>6. /\ clients' \in [Clients -> ClientRecord]
          /\ clients[c].at = "open" /\ clients'[c].at \in {"open", "complete"}
          /\ clients'[c].handle = h /\ clients'[c].update = n
          /\ \A d \in Clients \ {c} : clients'[d] = clients[d]
        BY DEF DbInv, DbTypes, More, At, Places, ClientRecord
    <1>7. ASSUME n \in overlapped
          PROVE  h - 1 \in overlapped /\ WriterOf(overlapped, writers'[h])
        <2>1. h - 1 \in overlapped
            BY <1>1, <1>7 DEF HandleOf
        <2>2. WriterOf(overlapped, w)
            BY <2>1, NoWriterOf DEF DbInv, HandlesNameUpdates, WriterAt
        <2> QED BY <1>5, <1>7, <2>1, <2>2, SlicesOfWriter
    <1>8. ASSUME n \notin overlapped
          PROVE  /\ h \in DOMAIN writers /\ h = n + 1 /\ h - 1 = n /\ n \notin acked
                 /\ writers'[h] = UpdateWriter(n)'
        <2>1. h \in DOMAIN writers /\ h = n + 1 /\ h - 1 = n
            BY <1>1, <1>8 DEF HandleOf
        <2>2. n \notin acked /\ w = UpdateWriter(n)
            BY <1>8, <2>1 DEF DbInv, HandlesNameUpdates, WriterAt
        <2>3. SlicesFor(w, n, batch)
                 = [idx |-> n, slices |-> [u \in sent[n] \cup batch |-> {<<n, n>>}]]
            <3>1. w = [idx |-> n, slices |-> [u \in sent[n] |-> {<<n, n>>}]]
                BY <2>2 DEF UpdateWriter
            <3>2. SlicesFor([idx |-> n, slices |-> [u \in sent[n] |-> {<<n, n>>}]], n, batch)
                     = [idx |-> n, slices |-> [u \in sent[n] \cup batch |-> {<<n, n>>}]]
                BY SlicesOfUpdate
            <3> QED BY <3>1, <3>2, Zenon
        <2>4. UpdateWriter(n)' = [idx |-> n, slices |-> [u \in sent'[n] |-> {<<n, n>>}]]
            BY DEF UpdateWriter
        <2> QED BY <1>3, <1>5, <2>1, <2>2, <2>3, <2>4
    <1>9. DbTypes'
        BY <1>1, <1>2, <1>3, <1>5, <1>6 DEF DbInv, DbTypes
    <1>10. HandlesNameUpdates'
        <2> SUFFICES ASSUME NEW k \in DOMAIN writers'
                     PROVE  /\ k - 1 \in overlapped => WriterOf(overlapped, writers'[k])
                            /\ k - 1 \notin overlapped =>
                                  k - 1 \notin acked /\ writers'[k] = UpdateWriter(k - 1)'
            BY <1>2 DEF HandlesNameUpdates
        <2>1. CASE k = h
            BY <1>7, <1>8, <2>1
        <2>2. CASE k # h
            <3>1. k \in DOMAIN writers /\ writers'[k] = writers[k] /\ k - 1 \in 0 .. MaxUpdates - 1
                BY <1>1, <1>5, <2>2, UpdatesAssumption
            <3>2. /\ k - 1 \in overlapped => WriterOf(overlapped, writers[k])
                  /\ k - 1 \notin overlapped =>
                        k - 1 \notin acked /\ writers[k] = UpdateWriter(k - 1)
                BY <3>1 DEF DbInv, HandlesNameUpdates
            <3>3. k - 1 = n => n \in overlapped
                BY <1>1, <1>8, <2>2, <3>1
            <3> QED BY <1>4, <3>1, <3>2, <3>3
        <2> QED BY <2>1, <2>2
    <1>11. ClientsOwnUpdates'
        <2>1. \A d \in Clients : InUpdate(d)' = InUpdate(d) /\ clients'[d].update = clients[d].update
            BY <1>6 DEF InUpdate
        <2>2. ASSUME NEW d \in Clients, clients'[d].at \in {"open", "complete"}
              PROVE  HandleOf(d)'
            <3>1. HandleOf(d) /\ clients'[d].handle = clients[d].handle
                BY <1>1, <1>6, <2>2 DEF DbInv, ClientsOwnUpdates
            <3> QED BY <1>2, <1>5, <2>1, <3>1 DEF HandleOf
        <2>3. ASSUME NEW d \in Clients, clients'[d].at = "writing"
              PROVE  FirstCall(d)'
            <3>1. /\ d # c /\ clients'[d] = clients[d] /\ FirstCall(d) /\ InUpdate(d)
                  /\ clients[d].update \in 0 .. MaxUpdates - 1
                BY <1>1, <1>6, <2>3, UpdatesAssumption DEF DbInv, ClientsOwnUpdates, InUpdate
            <3>2. clients[d].update # n
                BY <1>1, <3>1 DEF DbInv, ClientsOwnUpdates
            <3>3. UpdateWriter(clients[d].update)' = UpdateWriter(clients[d].update)
                <4>1. ASSUME NEW m \in 0 .. MaxUpdates - 1, m # n, m = clients[d].update
                      PROVE  UpdateWriter(m)' = UpdateWriter(m)
                    BY <1>4, <4>1
                <4> QED BY <2>1, <3>1, <3>2, <1>3 DEF UpdateWriter
            <3>4. clients[d].update \notin overlapped => idx # h
                BY <1>1, <1>7, <1>8, <3>1 DEF FirstCall
            <3> QED BY <1>2, <1>5, <3>1, <3>3, <3>4 DEF FirstCall
        <2>4. \A d \in Clients : InUpdate(d)' => clients'[d].update \in 0 .. idx' - 1
            BY <1>2, <2>1 DEF DbInv, ClientsOwnUpdates
        <2>5. \A d, e \in Clients :
                 InUpdate(d)' /\ InUpdate(e)' /\ clients'[d].update = clients'[e].update => d = e
            BY <2>1 DEF DbInv, ClientsOwnUpdates
        <2> QED BY <2>2, <2>3, <2>4, <2>5 DEF ClientsOwnUpdates
    <1>12. MergingSlices'
        BY <1>2 DEF DbInv, MergingSlices
    <1>13. UpdatesStartedAloneAreWhole'
        <2>1. \A m \in (0 .. MaxUpdates - 1) \ overlapped : m \in acked => sent'[m] = sent[m]
            BY <1>3, <1>8
        <2> QED BY <1>2, <2>1, StillWhole DEF Contents
    <1> QED BY <1>9, <1>10, <1>11, <1>12, <1>13 DEF DbInv

-----------------------------------------------------------------------------
(* commit_update, rollback_update, and clients that leave *)

\* A writer is erased, unless another client of the same handle was first, and its
\* client has no update any more.
LEMMA EndKeeps ==
    ASSUME DbInv, NEW c \in Clients, NEW h, h = clients[c].handle,
           clients[c].at \in {"open", "complete"},
           NEW ended \in [at : {"idle", "gone"}, handle : Nat, update : Nat],
           clients' = [clients EXCEPT ![c] = ended],
           writers' = Erased(h), UNCHANGED <<idx, stack, sent, overlapped>>,
           acked' \subseteq acked \cup {clients[c].update}
    PROVE  HandlesNameUpdates' /\ ClientsOwnUpdates' /\ DOMAIN writers' \subseteq 1 .. idx
           /\ writers' = [k \in DOMAIN writers' |-> writers'[k]]
           /\ clients' \in [Clients -> ClientRecord]
    <1> DEFINE n == clients[c].update
    <1>1. /\ HandleOf(c) /\ InUpdate(c) /\ n \in 0 .. idx - 1 /\ h \in 1 .. idx
          /\ DOMAIN writers \subseteq 1 .. idx /\ idx \in Nat
        BY UpdatesAssumption DEF DbInv, DbTypes, ClientsOwnUpdates, HandleOf, InUpdate
    <1>2. /\ DOMAIN writers' = DOMAIN writers \ {h}
          /\ \A k \in DOMAIN writers' : writers'[k] = writers[k]
          /\ writers' = [k \in DOMAIN writers' |-> writers'[k]]
        BY DEF Erased, Restrict
    <1>3. /\ clients' \in [Clients -> ClientRecord]
          /\ clients'[c] = ended /\ ended.at \in {"idle", "gone"}
          /\ \A d \in Clients \ {c} : clients'[d] = clients[d]
        BY DEF DbInv, DbTypes, Places, ClientRecord
    <1>4. /\ ~InUpdate(c)'
          /\ \A d \in Clients \ {c} : InUpdate(d)' = InUpdate(d)
        BY <1>3 DEF InUpdate
    <1>5. \A d \in Clients \ {c} : InUpdate(d) => clients[d].update # n
        BY <1>1 DEF DbInv, ClientsOwnUpdates
    <1>6. \A m : UpdateWriter(m)' = UpdateWriter(m)
        BY DEF UpdateWriter
    <1>7. /\ n \in overlapped => h - 1 \in overlapped
          /\ n \notin overlapped => h = n + 1
        BY <1>1 DEF HandleOf
    <1>8. HandlesNameUpdates'
        <2> SUFFICES ASSUME NEW k \in DOMAIN writers'
                     PROVE  /\ k - 1 \in overlapped => WriterOf(overlapped, writers[k])
                            /\ k - 1 \notin overlapped =>
                                  k - 1 \notin acked' /\ writers[k] = UpdateWriter(k - 1)
            BY <1>2, <1>6 DEF HandlesNameUpdates
        <2>1. k \in DOMAIN writers /\ k # h /\ k \in 1 .. idx
            BY <1>1, <1>2
        <2>2. k - 1 \notin overlapped => k - 1 # n
            BY <1>1, <1>7, <2>1
        <2> QED BY <2>1, <2>2 DEF DbInv, HandlesNameUpdates
    <1>9. ClientsOwnUpdates'
        <2>1. ASSUME NEW d \in Clients, clients'[d].at \in {"open", "complete"}
              PROVE  HandleOf(d)'
            <3>1. /\ d # c /\ clients'[d] = clients[d] /\ HandleOf(d) /\ InUpdate(d)
                  /\ clients[d].update # n /\ clients[d].update \in 0 .. idx - 1
                BY <1>3, <1>5, <2>1 DEF DbInv, ClientsOwnUpdates, InUpdate
            <3>2. clients[d].update \notin overlapped => clients[d].handle # h
                BY <1>1, <1>7, <3>1 DEF HandleOf
            <3> QED BY <1>2, <3>1, <3>2 DEF HandleOf
        <2>2. ASSUME NEW d \in Clients, clients'[d].at = "writing"
              PROVE  FirstCall(d)'
            <3>1. /\ d # c /\ clients'[d] = clients[d] /\ FirstCall(d)
                  /\ clients[d].update # n
                BY <1>3, <1>5, <2>2 DEF DbInv, ClientsOwnUpdates, InUpdate
            <3>2. UpdateWriter(clients[d].update)' = UpdateWriter(clients[d].update)
                BY <3>1 DEF UpdateWriter
            <3> QED BY <1>2, <3>1, <3>2 DEF FirstCall
        <2>3. \A d \in Clients : InUpdate(d)' => clients'[d].update \in 0 .. idx' - 1
            BY <1>3, <1>4 DEF DbInv, ClientsOwnUpdates
        <2>4. \A d, e \in Clients :
                 InUpdate(d)' /\ InUpdate(e)' /\ clients'[d].update = clients'[e].update => d = e
            BY <1>3, <1>4 DEF DbInv, ClientsOwnUpdates
        <2> QED BY <2>1, <2>2, <2>3, <2>4 DEF ClientsOwnUpdates
    <1> QED BY <1>1, <1>2, <1>3, <1>8, <1>9

LEMMA AwayIsRecord ==
    /\ Away \in [at : {"idle", "gone"}, handle : Nat, update : Nat]
    /\ [Away EXCEPT !.at = "gone"] \in [at : {"idle", "gone"}, handle : Nat, update : Nat]
    BY DEF Away

LEMMA CommitKeeps ==
    ASSUME DbInv, NEW c \in Clients, commit_update(c)
    PROVE  DbInv'
    <1> SUFFICES ASSUME NEW n, n = clients[c].update, NEW h, h = clients[c].handle,
                        NEW slices, slices = WriterAt(h).slices
                 PROVE  DbInv'
        OBVIOUS
    <1>1. /\ clients[c].at \in {"open", "complete"} /\ clients' = [clients EXCEPT ![c] = Away]
          /\ writers' = Erased(h) /\ UNCHANGED <<idx, stack, sent, merging, overlapped>>
          /\ acked' = acked \cup {n} /\ ushards' = AddSlices(slices)
        BY DEF commit_update
    <1>2. /\ HandlesNameUpdates' /\ ClientsOwnUpdates' /\ DOMAIN writers' \subseteq 1 .. idx
          /\ writers' = [k \in DOMAIN writers' |-> writers'[k]]
          /\ clients' \in [Clients -> ClientRecord]
        BY <1>1, AwayIsRecord, EndKeeps
    <1>3. /\ HandleOf(c) /\ n \in 0 .. idx - 1 /\ n \in 0 .. MaxUpdates - 1 /\ n \in Nat
          /\ overlapped \subseteq Nat
        BY <1>1, UpdatesAssumption DEF DbInv, DbTypes, ClientsOwnUpdates, InUpdate
    <1>4. ASSUME n \in overlapped
          PROVE  WriterOf(overlapped, WriterAt(h))
        BY <1>3, <1>4, NoWriterOf DEF DbInv, HandlesNameUpdates, WriterAt, HandleOf
    <1>5. ASSUME n \notin overlapped
          PROVE  slices = [u \in sent[n] |-> {<<n, n>>}]
        <2>1. h \in DOMAIN writers /\ h - 1 = n
            BY <1>3, <1>5 DEF HandleOf
        <2>2. WriterAt(h) = UpdateWriter(n)
            BY <1>5, <2>1 DEF DbInv, HandlesNameUpdates, WriterAt
        <2> QED BY <2>2 DEF UpdateWriter
    <1>6. \A u \in DOMAIN slices : slices[u] \in SUBSET Entry
        <2>1. CASE n \in overlapped
            BY <1>3, <1>4, <2>1 DEF WriterOf, Entry
        <2>2. CASE n \notin overlapped
            BY <1>3, <1>5, <2>2 DEF Entry
        <2> QED BY <2>1, <2>2
    <1>7. ASSUME NEW u \in Ushards
          PROVE  /\ ushards'[u] \in Seq(SUBSET Entry) /\ ushards[u] \in Seq(SUBSET Entry)
                 /\ Len(ushards'[u]) >= Len(ushards[u])
                 /\ Contents(u)' = IF u \in DOMAIN slices THEN Contents(u) \cup slices[u]
                                                           ELSE Contents(u)
        <2>1. /\ ushards[u] \in Seq(SUBSET Entry)
              /\ ushards'[u] = IF u \in DOMAIN slices THEN Append(ushards[u], slices[u])
                                                      ELSE ushards[u]
            BY <1>1 DEF DbInv, DbTypes, AddSlices
        <2>2. CASE u \in DOMAIN slices
            <3>1. /\ ushards'[u] = Append(ushards[u], slices[u]) /\ slices[u] \in SUBSET Entry
                  /\ ushards'[u] \in Seq(SUBSET Entry)
                  /\ ToSet(ushards'[u]) = ToSet(ushards[u]) \cup {slices[u]}
                  /\ Len(ushards'[u]) = Len(ushards[u]) + 1
                BY <1>6, <2>1, <2>2, AppendSet
            <3>2. Len(ushards[u]) \in Nat
                BY <2>1
            <3>3. \A A, x : UNION (A \cup {x}) = (UNION A) \cup x
                OBVIOUS
            <3> QED BY <2>1, <2>2, <3>1, <3>2, <3>3 DEF Contents
        <2>3. CASE u \notin DOMAIN slices
            BY <2>1, <2>3 DEF Contents
        <2> QED BY <2>2, <2>3
    <1>8. DbTypes'
        <2>1. ushards' \in [Ushards -> Seq(SUBSET Entry)]
            <3>1. ushards' = [u \in Ushards |-> ushards'[u]]
                BY <1>1 DEF AddSlices
            <3> QED BY <1>7, <3>1
        <2> QED BY <1>1, <1>2, <1>3, <2>1 DEF DbInv, DbTypes
    <1>9. MergingSlices'
        <2>1. \A u \in Ushards : Len(ushards[u]) \in Nat /\ Len(ushards'[u]) \in Nat
            BY <1>7
        <2> QED BY <1>1, <1>7, <2>1 DEF DbInv, MergingSlices
    <1>10. UpdatesStartedAloneAreWhole'
        <2> SUFFICES ASSUME NEW m \in (0 .. MaxUpdates - 1) \ overlapped, NEW u \in Ushards
                     PROVE  <<m, m>> \in Contents(u)' <=> m \in acked' /\ u \in sent[m]
            BY <1>1 DEF UpdatesStartedAloneAreWhole, WholeUpdate
        <2>1. <<m, m>> \in Contents(u) <=> m \in acked /\ u \in sent[m]
            BY DEF DbInv, UpdatesStartedAloneAreWhole, WholeUpdate
        <2>2. CASE n \in overlapped
            <3>1. u \in DOMAIN slices => <<m, m>> \notin slices[u]
                BY <1>4, <2>2 DEF WriterOf
            <3> QED BY <1>1, <1>7, <2>1, <2>2, <3>1
        <2>3. CASE n \notin overlapped
            <3>1. DOMAIN slices = sent[n] /\ \A v \in sent[n] : slices[v] = {<<n, n>>}
                BY <1>5, <2>3
            <3>2. <<m, m>> = <<n, n>> <=> m = n
                OBVIOUS
            <3> QED BY <1>1, <1>7, <2>1, <3>1, <3>2
        <2> QED BY <2>2, <2>3
    <1> QED BY <1>2, <1>8, <1>9, <1>10 DEF DbInv

LEMMA RollbackKeeps ==
    ASSUME DbInv, NEW c \in Clients, rollback_update(c)
    PROVE  DbInv'
    <1> SUFFICES ASSUME NEW h, h = clients[c].handle PROVE DbInv'
        OBVIOUS
    <1>1. /\ clients[c].at \in {"open", "complete"} /\ clients' = [clients EXCEPT ![c] = Away]
          /\ writers' = Erased(h)
          /\ UNCHANGED <<idx, stack, sent, merging, ushards, acked, overlapped>>
        BY DEF rollback_update
    <1>2. /\ HandlesNameUpdates' /\ ClientsOwnUpdates' /\ DOMAIN writers' \subseteq 1 .. idx
          /\ writers' = [k \in DOMAIN writers' |-> writers'[k]]
          /\ clients' \in [Clients -> ClientRecord]
        BY <1>1, AwayIsRecord, EndKeeps
    <1>3. UpdatesStartedAloneAreWhole'
        BY <1>1, StillWhole DEF Contents
    <1> QED BY <1>1, <1>2, <1>3 DEF DbInv, DbTypes, MergingSlices

\* A step of a client that is in no update, or that leaves it and its writer.
LEMMA OutsideKeeps ==
    ASSUME DbInv, NEW c \in Clients, Ask(c) \/ LeaveUpdate(c)
    PROVE  DbInv'
    <1>1. UNCHANGED <<idx, writers, ushards, merging, stack, sent, acked, overlapped>>
        BY DEF Ask, LeaveUpdate
    <1>2. /\ clients' \in [Clients -> ClientRecord]
          /\ clients'[c].at \in {"asks", "gone"}
          /\ \A d \in Clients \ {c} : clients'[d] = clients[d]
        <2>1. clients \in [Clients -> ClientRecord]
            BY DEF DbInv, DbTypes
        <2>2. CASE Ask(c)
            BY <2>1, <2>2 DEF Ask, At, Places, ClientRecord
        <2>3. CASE LeaveUpdate(c)
            <3>1. /\ [Away EXCEPT !.at = "gone"] \in ClientRecord
                  /\ [Away EXCEPT !.at = "gone"].at = "gone"
                BY DEF Away, Places, ClientRecord
            <3>2. clients' = [clients EXCEPT ![c] = [Away EXCEPT !.at = "gone"]]
                BY <2>3 DEF LeaveUpdate
            <3> QED BY <2>1, <3>1, <3>2
        <2> QED BY <2>2, <2>3
    <1>3. \A m : UpdateWriter(m)' = UpdateWriter(m)
        BY <1>1 DEF UpdateWriter
    <1>4. HandlesNameUpdates'
        BY <1>1, <1>3 DEF DbInv, HandlesNameUpdates
    <1>5. ClientsOwnUpdates'
        <2>1. \A d \in Clients : InUpdate(d)' => d # c /\ InUpdate(d) /\ clients'[d] = clients[d]
            BY <1>2 DEF InUpdate
        <2>2. ASSUME NEW d \in Clients, clients'[d].at \in {"open", "complete"}
              PROVE  HandleOf(d)'
            <3>1. clients'[d] = clients[d] /\ HandleOf(d)
                BY <2>1, <2>2 DEF DbInv, ClientsOwnUpdates, InUpdate
            <3> QED BY <1>1, <3>1 DEF HandleOf
        <2>3. ASSUME NEW d \in Clients, clients'[d].at = "writing"
              PROVE  FirstCall(d)'
            <3>1. clients'[d] = clients[d] /\ FirstCall(d)
                BY <2>1, <2>3 DEF DbInv, ClientsOwnUpdates, InUpdate
            <3>2. UpdateWriter(clients[d].update)' = UpdateWriter(clients[d].update)
                BY <1>1, <3>1 DEF UpdateWriter
            <3> QED BY <1>1, <3>1, <3>2 DEF FirstCall
        <2> QED BY <1>1, <2>1, <2>2, <2>3 DEF DbInv, ClientsOwnUpdates
    <1>6. UpdatesStartedAloneAreWhole'
        BY <1>1, StillWhole DEF Contents
    <1> QED BY <1>1, <1>2, <1>4, <1>5, <1>6 DEF DbInv, DbTypes, MergingSlices

-----------------------------------------------------------------------------
(* Merges *)

\* A merged slice has what the slices had that it takes the place of.
LEMMA MergedSlices ==
    ASSUME NEW s \in Seq(SUBSET Entry), NEW n \in 0 .. Len(s)
    PROVE  LET merged == <<UNION ToSet(SubSeq(s, 1, n))>> \o SubSeq(s, n + 1, Len(s))
           IN  merged \in Seq(SUBSET Entry) /\ UNION ToSet(merged) = UNION ToSet(s)
    <1> DEFINE first == SubSeq(s, 1, n)
               one == UNION ToSet(first)
               rest == SubSeq(s, n + 1, Len(s))
    <1>1. /\ first \in Seq(SUBSET Entry) /\ rest \in Seq(SUBSET Entry)
          /\ ToSet(s) = ToSet(first) \cup ToSet(rest)
        BY CutSet
    <1> HIDE DEF first, one, rest
    <1>2. ToSet(first) \subseteq SUBSET Entry
        BY <1>1, InToSet
    <1>3. one = UNION ToSet(first)
        BY DEF one
    <1>4. one \in SUBSET Entry
        BY <1>2, <1>3
    <1>5. <<one>> \o rest \in Seq(SUBSET Entry) /\ ToSet(<<one>> \o rest) = {one} \cup ToSet(rest)
        BY <1>1, <1>4, ConsSet
    <1>6. UNION ({one} \cup ToSet(rest)) = UNION (ToSet(first) \cup ToSet(rest))
        BY <1>3
    <1>7. <<one>> \o rest \in Seq(SUBSET Entry) /\ UNION ToSet(<<one>> \o rest) = UNION ToSet(s)
        BY <1>1, <1>5, <1>6
    <1> QED BY <1>7 DEF first, one, rest

LEMMA MergeKeeps ==
    ASSUME DbInv, NEW u \in Ushards, MergeStart(u) \/ MergeEnd(u)
    PROVE  DbInv'
    <1>1. UNCHANGED <<idx, writers, clients, stack, sent, acked, overlapped>>
        BY DEF MergeStart, MergeEnd
    <1>2. /\ ushards' \in [Ushards -> Seq(SUBSET Entry)] /\ DOMAIN merging' = Ushards
          /\ MergingSlices' /\ \A v \in Ushards : Contents(v)' = Contents(v)
        <2>1. /\ ushards \in [Ushards -> Seq(SUBSET Entry)] /\ DOMAIN merging = Ushards
              /\ \A v \in Ushards : merging[v] \in 0 .. Len(ushards[v]) /\ Len(ushards[v]) \in Nat
            BY DEF DbInv, DbTypes, MergingSlices
        <2>2. CASE MergeStart(u)
            BY <2>1, <2>2 DEF MergeStart, MergingSlices, Contents
        <2>3. CASE MergeEnd(u)
            <3> DEFINE merged == <<UNION ToSet(Captured(u))>> \o CommittedSince(u)
            <3>1. /\ ushards' = [ushards EXCEPT ![u] = merged]
                  /\ merging' = [merging EXCEPT ![u] = 0]
                BY <2>3 DEF MergeEnd
            <3>2. merged \in Seq(SUBSET Entry) /\ UNION ToSet(merged) = UNION ToSet(ushards[u])
                <4>1. ushards[u] \in Seq(SUBSET Entry) /\ merging[u] \in 0 .. Len(ushards[u])
                    BY <2>1
                <4> QED BY <4>1, MergedSlices DEF Captured, CommittedSince
            <3> HIDE DEF merged
            <3>3. /\ ushards' \in [Ushards -> Seq(SUBSET Entry)] /\ ushards'[u] = merged
                  /\ \A v \in Ushards \ {u} : ushards'[v] = ushards[v] /\ merging'[v] = merging[v]
                  /\ DOMAIN merging' = Ushards /\ merging'[u] = 0 /\ Len(merged) \in Nat
                BY <2>1, <3>1, <3>2
            <3>4. MergingSlices'
                <4>1. merging'[u] \in 0 .. Len(ushards'[u])
                    BY <3>3
                <4>2. \A v \in Ushards \ {u} : merging'[v] \in 0 .. Len(ushards'[v])
                    BY <2>1, <3>3
                <4> QED BY <4>1, <4>2 DEF MergingSlices
            <3>5. \A v \in Ushards : Contents(v)' = Contents(v)
                BY <3>2, <3>3 DEF Contents
            <3> QED BY <3>3, <3>4, <3>5
        <2> QED BY <2>2, <2>3
    <1>3. UpdatesStartedAloneAreWhole'
        BY <1>1, <1>2, StillWhole
    <1>4. \A m : UpdateWriter(m)' = UpdateWriter(m)
        BY <1>1 DEF UpdateWriter
    <1>5. \A d \in Clients : UpdateWriter(clients[d].update)' = UpdateWriter(clients[d].update)
        BY <1>1 DEF UpdateWriter
    <1>6. ClientsOwnUpdates'
        BY <1>1, <1>5 DEF DbInv, ClientsOwnUpdates, InUpdate, HandleOf, FirstCall
    <1> QED BY <1>1, <1>2, <1>3, <1>4, <1>6 DEF DbInv, DbTypes, HandlesNameUpdates

-----------------------------------------------------------------------------
(* The theorem *)

LEMMA DbInitially == DbInit => DbInv
    <1> SUFFICES ASSUME DbInit PROVE DbInv
        OBVIOUS
    <1>1. \A u \in Ushards : ushards[u] = <<>> /\ merging[u] = 0
        BY DEF DbInit
    <1>2. DbTypes
        BY UpdatesAssumption DEF DbInit, DbTypes, Places, Away, ClientRecord
    <1>3. HandlesNameUpdates /\ ClientsOwnUpdates
        BY DEF DbInit, HandlesNameUpdates, ClientsOwnUpdates, InUpdate, Away
    <1>4. MergingSlices
        BY <1>1 DEF MergingSlices
    <1>5. \A u \in Ushards : Contents(u) = {}
        BY <1>1, ShortSeqs DEF Contents
    <1>6. UpdatesStartedAloneAreWhole
        BY <1>5 DEF DbInit, UpdatesStartedAloneAreWhole, WholeUpdate
    <1> QED BY <1>2, <1>3, <1>4, <1>6 DEF DbInv

\* The invariant of the updates, whatever first calls overlap.
LEMMA DbStep ==
    ASSUME DbInv, [DbNext]_dbVars
    PROVE  DbInv'
    <1>1. CASE UNCHANGED dbVars
        <2>1. \A m : UpdateWriter(m)' = UpdateWriter(m)
            BY <1>1 DEF UpdateWriter, dbVars
        <2>2. \A d \in Clients : UpdateWriter(clients[d].update)' = UpdateWriter(clients[d].update)
            BY <1>1 DEF UpdateWriter, dbVars
        <2>3. HandlesNameUpdates' /\ ClientsOwnUpdates'
            BY <1>1, <2>1, <2>2 DEF dbVars, DbInv, HandlesNameUpdates,
               ClientsOwnUpdates, InUpdate, HandleOf, FirstCall
        <2> QED BY <1>1, <2>3 DEF dbVars, DbInv, DbTypes, MergingSlices,
                    UpdatesStartedAloneAreWhole, WholeUpdate, Contents
    <1>2. ASSUME NEW c \in Clients, Ask(c) \/ LeaveUpdate(c) PROVE DbInv'
        BY <1>2, OutsideKeeps
    <1>3. ASSUME NEW c \in Clients, Goes(c) PROVE DbInv'
        BY <1>3, BeginKeeps, AnswerKeeps DEF Goes
    <1>4. ASSUME NEW c \in Clients, NEW batch \in SUBSET Ushards \ {{}}, NEW last \in BOOLEAN,
                 More(c, batch, last)
          PROVE  DbInv'
        BY <1>4, MoreKeeps
    <1>5. ASSUME NEW c \in Clients, commit_update(c) PROVE DbInv'
        BY <1>5, CommitKeeps
    <1>6. ASSUME NEW c \in Clients, rollback_update(c) PROVE DbInv'
        BY <1>6, RollbackKeeps
    <1>7. ASSUME NEW u \in Ushards, MergeStart(u) \/ MergeEnd(u) PROVE DbInv'
        BY <1>7, MergeKeeps
    <1> QED BY <1>1, <1>2, <1>3, <1>4, <1>5, <1>6, <1>7 DEF DbNext

\* A reader of db_server sees all of an update or nothing if its first call
\* overlapped no other, whatever those that overlap do with the writers they share,
\* through every commit, rollback, disconnect and merge and for every number of
\* clients, ushards and updates.
THEOREM DbUpdatesAreWhole == DbSpec => []UpdatesStartedAloneAreWhole
    <1>1. DbInv /\ [DbNext]_dbVars => DbInv'
        BY DbStep
    <1>2. DbInv => UpdatesStartedAloneAreWhole
        BY DEF DbInv
    <1> QED BY <1>1, <1>2, DbInitially, PTL DEF DbSpec

(***************************************************************************)
(* Rpc                                                                     *)
(***************************************************************************)

EndRecord ==
    [at : {"idle", "sends", "reads", "gone"}, out : Seq(Nat), late : BOOLEAN,
     buffer : Seq(Nat), message : Seq(Nat)]

RpcTypes ==
    /\ wire \in [Ends -> Seq(Nat)]
    /\ ends \in [Ends -> EndRecord]
    /\ calls \in Nat
    /\ answers \in [sent : Seq(Nat), read : Seq(Nat)]

\* The bytes that an end was sent and has not used up, the oldest first.
Inbound(e) == (ends[e].message \o ends[e].buffer) \o wire[e]

\* Nothing is on its way, and the last call has its answer.
AtRest ==
    /\ ends["client"].at = "idle"
    /\ Inbound("client") = <<>>
    /\ ends["server"].at # "gone" =>
          ends["server"].at = "reads" /\ ends["server"].out = <<>> /\ Inbound("server") = <<>>
    /\ calls > 0 => answers.read = answers.sent /\ Last(answers.read) = calls

\* The request of the last call is on its way, all of it and nothing else.
InRequest ==
    /\ ends["client"].at \in {"sends", "reads"} /\ calls > 0
    /\ ends["client"].at = "reads" <=> ends["client"].out = <<>>
    /\ Inbound("client") = <<>>
    /\ ends["server"].at \in {"reads", "gone"}
    /\ ends["server"].at = "reads" =>
          /\ ends["server"].out = <<>>
          /\ \E size \in Nat \ {0} : Inbound("server") \o ends["client"].out = Frame(calls, size)

\* The answer to the last call is on its way.
InAnswer ==
    /\ ends["client"].at = "reads" /\ calls > 0
    /\ Inbound("client") \o ends["server"].out = answers.sent
    /\ \E size \in Nat \ {0} : answers.sent = Frame(calls, size)
    /\ ends["server"].at \in {"sends", "reads", "gone"}
    /\ ends["server"].at = "sends" =>
          ends["server"].out # <<>> /\ ends["server"].buffer = <<>> /\ wire["server"] = <<>>
    /\ ends["server"].at = "reads" => ends["server"].out = <<>> /\ Inbound("server") = <<>>

Talking == RpcTypes /\ (AtRest \/ InRequest \/ InAnswer)

\* Nobody waits for an answer any more.
ClientGone == DOMAIN ends = Ends /\ ends["client"].at = "gone"

RpcInv == Talking \/ ClientGone

-----------------------------------------------------------------------------
(* Frames and bytes. *)

LEMMA FrameBytes ==
    ASSUME NEW n \in Nat, NEW size \in Nat
    PROVE  /\ Frame(n, size) \in Seq(Nat) /\ Len(Frame(n, size)) = size + 2
           /\ Frame(n, size)[1] = size /\ Frame(n, size)[2] = 0
           /\ \A i \in 3 .. size + 2 : Frame(n, size)[i] = n
    <1> DEFINE head == <<size, 0>>
               body == [i \in 1 .. size |-> n]
    <1>1. head \in Seq(Nat) /\ Len(head) = 2 /\ head[1] = size /\ head[2] = 0
        OBVIOUS
    <1>2. body \in Seq(Nat) /\ Len(body) = size /\ \A i \in 1 .. size : body[i] = n
        OBVIOUS
    <1>3. Frame(n, size) = head \o body
        BY DEF Frame
    <1> HIDE DEF head, body
    <1>4. /\ head \o body \in Seq(Nat) /\ Len(head \o body) = Len(head) + Len(body)
          /\ \A i \in 1 .. Len(head) + Len(body) :
                (head \o body)[i] = IF i <= Len(head) THEN head[i] ELSE body[i - Len(head)]
        BY <1>1, <1>2, ConcatProperties
    <1> QED BY <1>1, <1>2, <1>3, <1>4

\* A message is complete when it is the whole frame, and not before.
LEMMA WholeFrame ==
    ASSUME NEW n \in Nat, NEW size \in Nat \ {0}, NEW m \in Seq(Nat), NEW rest \in Seq(Nat),
           m \o rest = Frame(n, size), Len(m) = Wanted(m)
    PROVE  m = Frame(n, size) /\ rest = <<>>
    <1>1. /\ Len(m \o rest) = Len(m) + Len(rest) /\ Len(m) \in Nat /\ Len(rest) \in Nat
          /\ \A i \in 1 .. Len(m) + Len(rest) :
                (m \o rest)[i] = IF i <= Len(m) THEN m[i] ELSE rest[i - Len(m)]
        BY ConcatProperties, LenProperties
    <1>2. /\ Len(Frame(n, size)) = size + 2
          /\ Frame(n, size)[1] = size /\ Frame(n, size)[2] = 0
        BY FrameBytes
    <1>3. Len(m) >= 2
        <2>1. Len(m) \in Nat
            BY <1>1
        <2>2. Len(m) < 2 => Wanted(m) = 2
            BY DEF Wanted, Header
        <2> HIDE DEF Wanted
        <2> QED BY <2>1, <2>2
    <1>4. m[1] = size /\ m[2] = 0
        BY <1>1, <1>2, <1>3
    <1>5. Len(m) = 2 + size
        BY <1>3, <1>4 DEF Wanted, Header, SizeOf
    <1>6. Len(rest) = 0
        BY <1>1, <1>2, <1>5
    <1>7. rest = <<>>
        BY <1>6, EmptySeq
    <1> QED BY <1>7, ConcatEmptySeq

LEMMA Reassociate == \A k, x, y \in Seq(Nat) : (k \o x) \o y = k \o (x \o y)
    BY ConcatAssociative, SMTT(30)

LEMMA CutInTwo ==
    ASSUME NEW s \in Seq(Nat), NEW n \in 0 .. Len(s)
    PROVE  /\ SubSeq(s, 1, n) \in Seq(Nat) /\ SubSeq(s, n + 1, Len(s)) \in Seq(Nat)
           /\ SubSeq(s, 1, n) \o SubSeq(s, n + 1, Len(s)) = s
    <1>1. Len(s) \in Nat /\ \A i \in 1 .. Len(s) : s[i] \in Nat
        BY LenProperties, ElementOfSeq
    <1> DEFINE a == SubSeq(s, 1, n)
               b == SubSeq(s, n + 1, Len(s))
    <1>2. a \in Seq(Nat) /\ Len(a) = n /\ \A i \in 1 .. n : a[i] = s[i]
        BY <1>1, SubSeqProperties
    <1>3. b \in Seq(Nat) /\ Len(b) = Len(s) - n /\ \A i \in 1 .. Len(s) - n : b[i] = s[n + i]
        BY <1>1, SubSeqProperties
    <1> HIDE DEF a, b
    <1>4. /\ a \o b \in Seq(Nat) /\ Len(a \o b) = Len(a) + Len(b)
          /\ \A i \in 1 .. Len(a) + Len(b) : (a \o b)[i] = IF i <= Len(a) THEN a[i] ELSE b[i - Len(a)]
        BY <1>2, <1>3, ConcatProperties
    <1>5. Len(a \o b) = Len(s) /\ \A i \in 1 .. Len(a \o b) : (a \o b)[i] = s[i]
        <2>1. Len(a \o b) = Len(s)
            BY <1>1, <1>2, <1>3, <1>4
        <2>2. ASSUME NEW i \in 1 .. Len(s), i > n PROVE b[i - n] = s[i]
            <3>1. i - n \in 1 .. Len(s) - n /\ n + (i - n) = i
                BY <1>1, <2>2
            <3> QED BY <1>3, <3>1
        <2> QED BY <1>1, <1>2, <1>3, <1>4, <2>1, <2>2
    <1>6. a \o b = s
        BY <1>4, <1>5, SeqEqual
    <1> QED BY <1>2, <1>3, <1>6 DEF a, b

-----------------------------------------------------------------------------
(* Steps of one end. *)

LEMMA EndFields ==
    ASSUME RpcTypes, NEW e \in Ends
    PROVE  /\ ends[e] \in EndRecord
           /\ ends[e].out \in Seq(Nat) /\ ends[e].buffer \in Seq(Nat) /\ ends[e].message \in Seq(Nat)
           /\ wire[e] \in Seq(Nat) /\ Inbound(e) \in Seq(Nat)
           /\ Inbound(e) = <<>> <=> ends[e].message = <<>> /\ ends[e].buffer = <<>> /\ wire[e] = <<>>
    <1>1. /\ ends[e] \in EndRecord
          /\ ends[e].out \in Seq(Nat) /\ ends[e].buffer \in Seq(Nat) /\ ends[e].message \in Seq(Nat)
          /\ wire[e] \in Seq(Nat)
        BY DEF RpcTypes, EndRecord
    <1>2. ends[e].message \o ends[e].buffer \in Seq(Nat)
        BY <1>1, ConcatProperties
    <1>3. Inbound(e) \in Seq(Nat)
        BY <1>1, <1>2, ConcatProperties DEF Inbound
    <1>4. Inbound(e) = <<>> <=> ends[e].message \o ends[e].buffer = <<>> /\ wire[e] = <<>>
        BY <1>1, <1>2, ConcatEqualIffEmpty DEF Inbound
    <1>5. ends[e].message \o ends[e].buffer = <<>> <=> ends[e].message = <<>> /\ ends[e].buffer = <<>>
        BY <1>1, ConcatEqualIffEmpty
    <1> QED BY <1>1, <1>3, <1>4, <1>5

LEMMA EmptyInbound ==
    \A e : ends'[e].message = <<>> /\ ends'[e].buffer = <<>> /\ wire'[e] = <<>> => Inbound(e)' = <<>>
    BY DEF Inbound

LEMMA TwoEnds ==
    /\ "client" \in Ends /\ "server" \in Ends /\ "client" # "server"
    /\ Peer("client") = "server" /\ Peer("server") = "client"
    /\ \A e \in Ends : e = "client" \/ e = "server"
    BY DEF Ends, Peer

\* An end that has closed its socket takes nothing back.
LEMMA GoneKeeps ==
    ASSUME Talking, NEW e \in Ends, ends' = [ends EXCEPT ![e].at = "gone"],
           UNCHANGED <<wire, calls, answers>>
    PROVE  RpcInv'
    <1>1. /\ RpcTypes' /\ ends'[e].at = "gone"
          /\ \A d \in Ends \ {e} : ends'[d] = ends[d]
          /\ \A d \in Ends : /\ ends'[d].out = ends[d].out /\ ends'[d].buffer = ends[d].buffer
                             /\ ends'[d].message = ends[d].message
        BY DEF Talking, RpcTypes, EndRecord
    <1>2. \A d \in Ends : Inbound(d)' = Inbound(d)
        BY <1>1 DEF Inbound
    <1>3. CASE e = "client"
        BY <1>1, <1>3 DEF RpcInv, ClientGone, RpcTypes
    <1>4. CASE e = "server"
        <2>1. /\ ends'["client"] = ends["client"] /\ ends'["server"].at = "gone"
              /\ ends'["server"].out = ends["server"].out
              /\ Inbound("client")' = Inbound("client")
            BY <1>1, <1>2, <1>4, TwoEnds
        <2>2. AtRest => AtRest'
            BY <2>1 DEF AtRest
        <2>3. InRequest => InRequest'
            BY <2>1 DEF InRequest
        <2>4. InAnswer => InAnswer'
            BY <2>1 DEF InAnswer
        <2> QED BY <1>1, <2>1, <2>2, <2>3, <2>4 DEF RpcInv, Talking
    <1> QED BY <1>3, <1>4, TwoEnds

\* recv and read move the bytes of an end towards its message.
LEMMA MoveKeeps ==
    ASSUME Talking, RpcTypes', NEW e \in Ends, ends[e].at = "reads",
           \A d \in Ends : ends'[d].at = ends[d].at /\ ends'[d].out = ends[d].out,
           Inbound(e)' = Inbound(e),
           \A d \in Ends \ {e} : ends'[d] = ends[d] /\ wire'[d] = wire[d],
           UNCHANGED <<calls, answers>>
    PROVE  Talking'
    <1>1. \A d \in Ends : Inbound(d)' = Inbound(d)
        BY DEF Inbound
    <1>2. /\ Inbound("client")' = Inbound("client") /\ Inbound("server")' = Inbound("server")
          /\ ends'["client"].at = ends["client"].at /\ ends'["server"].at = ends["server"].at
          /\ ends'["client"].out = ends["client"].out /\ ends'["server"].out = ends["server"].out
        BY <1>1, TwoEnds
    <1>3. AtRest => AtRest'
        BY <1>2 DEF AtRest
    <1>4. InRequest => InRequest'
        BY <1>2 DEF InRequest
    <1>5. InAnswer => InAnswer'
        <2>1. ends["server"].at = "sends" =>
                 ends'["server"].buffer = ends["server"].buffer /\ wire'["server"] = wire["server"]
            BY TwoEnds
        <2> QED BY <1>2, <2>1 DEF InAnswer
    <1> QED BY <1>2, <1>3, <1>4, <1>5 DEF Talking

LEMMA LoadKeeps ==
    ASSUME Talking, NEW e \in Ends, NEW n \in 1 .. Len(wire[e]), Load(e, n)
    PROVE  Talking'
    <1> DEFINE w == wire[e]
               a == SubSeq(w, 1, n)
               b == SubSeq(w, n + 1, Len(w))
    <1>1. /\ RpcTypes /\ w \in Seq(Nat) /\ ends[e].message \in Seq(Nat) /\ ends[e].buffer = <<>>
          /\ ends[e].at = "reads" /\ Len(w) \in Nat
        BY EndFields, LenProperties DEF Talking, Load, Reading
    <1>2. a \in Seq(Nat) /\ b \in Seq(Nat) /\ a \o b = w
        BY <1>1, CutInTwo, SMTT(30)
    <1>3. /\ ends' = [ends EXCEPT ![e].buffer = a] /\ wire' = [wire EXCEPT ![e] = b]
          /\ UNCHANGED <<calls, answers>>
        BY DEF Load
    <1> HIDE DEF a, b
    <1>4. /\ RpcTypes'
          /\ \A d \in Ends : ends'[d].at = ends[d].at /\ ends'[d].out = ends[d].out
          /\ \A d \in Ends \ {e} : ends'[d] = ends[d] /\ wire'[d] = wire[d]
          /\ ends'[e].message = ends[e].message /\ ends'[e].buffer = a /\ wire'[e] = b
        BY <1>1, <1>2, <1>3 DEF RpcTypes, EndRecord
    <1>5. Inbound(e)' = (ends[e].message \o a) \o b
        BY <1>4 DEF Inbound
    <1>6. (ends[e].message \o a) \o b = ends[e].message \o w
        <2> HIDE DEF w
        <2> QED BY <1>1, <1>2, Reassociate
    <1>7. Inbound(e) = ends[e].message \o w
        BY <1>1, ConcatEmptySeq DEF Inbound
    <1> QED BY <1>1, <1>3, <1>4, <1>5, <1>6, <1>7, MoveKeeps

LEMMA ReadKeeps ==
    ASSUME Talking, NEW e \in Ends, Read(e)
    PROVE  Talking'
    <1> DEFINE m == ends[e].message
               buf == ends[e].buffer
               part == Min({Wanted(m) - Len(m), Len(buf)})
               a == SubSeq(buf, 1, part)
               b == SubSeq(buf, part + 1, Len(buf))
    <1>1. /\ RpcTypes /\ m \in Seq(Nat) /\ buf \in Seq(Nat) /\ wire[e] \in Seq(Nat)
          /\ ends[e].at = "reads" /\ Len(buf) \in Nat /\ Len(m) \in Nat /\ Len(m) < Wanted(m)
        BY EndFields, LenProperties DEF Talking, Read, Reading
    <1>2. Wanted(m) \in Nat
        <2>1. Len(m) >= 2 => m[1] \in Nat /\ m[2] \in Nat
            BY <1>1, ElementOfSeq, SMTT(30)
        <2>2. Len(m) >= 2 => SizeOf(m) \in Nat
            <3> DEFINE x == m[1]
                       y == m[2]
            <3>1. x \in Nat /\ y \in Nat => x + 256 * y \in Nat
                <4> HIDE DEF x, y
                <4> QED OBVIOUS
            <3> QED BY <2>1, <3>1 DEF SizeOf
        <2> HIDE DEF m
        <2> QED BY <1>1, <2>2 DEF Wanted, Header
    <1>3. part \in 0 .. Len(buf)
        <2> DEFINE x == Wanted(m) - Len(m)
                   y == Len(buf)
        <2>1. x \in Nat /\ y \in Nat
            BY <1>1, <1>2
        <2> HIDE DEF x, y
        <2>2. \E k \in {x, y} : \A j \in {x, y} : k <= j
            BY <2>1
        <2>3. Min({x, y}) \in {x, y} /\ \A j \in {x, y} : Min({x, y}) <= j
            BY <2>2 DEF Min
        <2>4. Min({x, y}) \in 0 .. y
            BY <2>1, <2>3
        <2> QED BY <2>4 DEF x, y
    <1>4. a \in Seq(Nat) /\ b \in Seq(Nat) /\ a \o b = buf
        BY <1>1, <1>3, CutInTwo
    <1>5. /\ ends' = [ends EXCEPT ![e].message = m \o a, ![e].buffer = b]
          /\ UNCHANGED <<wire, calls, answers>>
        BY DEF Read, Rest
    <1>6. m \o a \in Seq(Nat)
        BY <1>1, <1>4, ConcatProperties
    <1> HIDE DEF a, b, part
    <1>7. /\ RpcTypes'
          /\ \A d \in Ends : ends'[d].at = ends[d].at /\ ends'[d].out = ends[d].out
          /\ \A d \in Ends \ {e} : ends'[d] = ends[d] /\ wire'[d] = wire[d]
          /\ ends'[e].message = m \o a /\ ends'[e].buffer = b /\ wire'[e] = wire[e]
        BY <1>1, <1>4, <1>5, <1>6 DEF RpcTypes, EndRecord
    <1>8. Inbound(e)' = ((m \o a) \o b) \o wire[e]
        BY <1>7 DEF Inbound
    <1>9. (m \o a) \o b = m \o buf
        <2> HIDE DEF m, buf
        <2> QED BY <1>1, <1>4, Reassociate, ZenonT(40)
    <1>10. Inbound(e)' = Inbound(e)
        BY <1>8, <1>9 DEF Inbound
    <1> QED BY <1>1, <1>5, <1>7, <1>10, MoveKeeps

\* send_all moves bytes from one end to the other.
LEMMA SendMoves ==
    ASSUME RpcTypes, NEW e \in Ends, NEW n \in 1 .. Len(ends[e].out), Send(e, n), NEW p, p = Peer(e)
    PROVE  /\ RpcTypes' /\ Inbound(p)' \o ends'[e].out = Inbound(p) \o ends[e].out
           /\ ends'[p] = ends[p] /\ wire'[e] = wire[e]
           /\ ends'[e].at \in {"sends", "reads"}
           /\ ends'[e].at = "reads" <=> ends'[e].out = <<>>
           /\ ends'[e].buffer = ends[e].buffer /\ ends'[e].message = <<>>
           /\ UNCHANGED <<calls, answers>>
    <1> DEFINE out == ends[e].out
               a == SubSeq(out, 1, n)
               b == SubSeq(out, n + 1, Len(out))
               place == IF b = <<>> THEN "reads" ELSE "sends"
               more == (b # <<>>)
               r == [[[[ends[e] EXCEPT !.out = b] EXCEPT !.late = more]
                        EXCEPT !.message = <<>>] EXCEPT !.at = place]
    <1>1. /\ p \in Ends /\ p # e /\ out \in Seq(Nat) /\ Inbound(p) \in Seq(Nat)
          /\ Len(out) \in Nat
        BY EndFields, TwoEnds, LenProperties
    <1>2. a \in Seq(Nat) /\ b \in Seq(Nat) /\ a \o b = out
        <2>1. n \in 0 .. Len(out)
            BY <1>1
        <2> HIDE DEF out, place, more, r
        <2> QED BY <1>1, <2>1, CutInTwo
    <1>3. /\ ends' = [ends EXCEPT ![e].out = b, ![e].late = more, ![e].message = <<>>,
                                  ![e].at = place]
          /\ wire' = [wire EXCEPT ![p] = wire[p] \o a]
          /\ UNCHANGED <<calls, answers>>
        BY DEF Send
    <1>4. ends' = [ends EXCEPT ![e] = r]
        <2> HIDE DEF b, place, more
        <2> QED BY <1>3
    <1>5. place \in {"sends", "reads"} /\ (place = "reads" <=> b = <<>>)
        OBVIOUS
    <1>6. r \in EndRecord
        <2>1. more \in BOOLEAN
            OBVIOUS
        <2> HIDE DEF b, place, more
        <2>2. ends[e] \in EndRecord /\ <<>> \in Seq(Nat)
            BY EndFields, EmptySeq
        <2> QED BY <1>2, <1>5, <2>1, <2>2 DEF EndRecord
    <1>7. /\ r.at = place /\ r.out = b /\ r.buffer = ends[e].buffer /\ r.message = <<>>
        <2> HIDE DEF b, place, more
        <2>1. ends[e] \in EndRecord
            BY EndFields
        <2> QED BY <2>1 DEF EndRecord
    <1>8. /\ wire[p] \in Seq(Nat) /\ wire[p] \o a \in Seq(Nat)
          /\ ends[p].message \in Seq(Nat) /\ ends[p].buffer \in Seq(Nat)
          /\ ends[p].message \o ends[p].buffer \in Seq(Nat)
        BY <1>1, <1>2, EndFields, ConcatProperties
    <1> HIDE DEF a, b, r, place, more
    <1>9. /\ RpcTypes' /\ ends'[e] = r /\ ends'[p] = ends[p]
          /\ wire'[p] = wire[p] \o a /\ wire'[e] = wire[e]
        <2>1. ends' \in [Ends -> EndRecord] /\ ends'[e] = r /\ ends'[p] = ends[p]
            BY <1>1, <1>4, <1>6 DEF RpcTypes
        <2>2. wire' \in [Ends -> Seq(Nat)] /\ wire'[p] = wire[p] \o a /\ wire'[e] = wire[e]
            BY <1>1, <1>3, <1>8 DEF RpcTypes
        <2> QED BY <1>3, <2>1, <2>2 DEF RpcTypes
    <1>10. Inbound(p)' \o b = Inbound(p) \o out
        <2> DEFINE k == ends[p].message \o ends[p].buffer
                   w == wire[p]
        <2>1. Inbound(p)' = k \o (w \o a)
            BY <1>1, <1>9 DEF Inbound
        <2>2. Inbound(p) = k \o w
            BY DEF Inbound
        <2>3. k \in Seq(Nat) /\ w \in Seq(Nat)
            BY <1>8
        <2> HIDE DEF k, w, out
        <2>4. (k \o w) \o a = k \o (w \o a) /\ k \o w \in Seq(Nat)
            BY <1>2, <2>3, Reassociate, ConcatProperties
        <2>5. ((k \o w) \o a) \o b = (k \o w) \o (a \o b)
            BY <1>2, <2>4, Reassociate
        <2> QED BY <1>2, <2>1, <2>2, <2>4, <2>5
    <1> QED BY <1>3, <1>5, <1>7, <1>9, <1>10

LEMMA SendKeeps ==
    ASSUME Talking, NEW e \in Ends, NEW n \in 1 .. Len(ends[e].out), Send(e, n)
    PROVE  Talking'
    <1> SUFFICES ASSUME NEW p, p = Peer(e) PROVE Talking'
        OBVIOUS
    <1>1. /\ RpcTypes' /\ Inbound(p)' \o ends'[e].out = Inbound(p) \o ends[e].out
          /\ ends'[p] = ends[p] /\ wire'[e] = wire[e]
          /\ ends'[e].at \in {"sends", "reads"}
          /\ ends'[e].at = "reads" <=> ends'[e].out = <<>>
          /\ ends'[e].buffer = ends[e].buffer /\ ends'[e].message = <<>>
          /\ UNCHANGED <<calls, answers>>
        BY SendMoves DEF Talking
    <1>2. ends[e].at = "sends" /\ ends[p].at # "gone"
        BY DEF Send
    <1>3. CASE e = "client"
        <2>1. p = "server"
            BY <1>3, TwoEnds
        <2>2. InRequest
            BY <1>2, <1>3 DEF Talking, AtRest, InAnswer
        <2>3. Inbound("client")' = <<>>
            <3>1. ends["client"].buffer = <<>> /\ wire["client"] = <<>>
                BY <2>2, EndFields, TwoEnds DEF Talking, InRequest
            <3> QED BY <1>1, <1>3, <3>1, EmptyInbound
        <2> QED BY <1>1, <1>2, <1>3, <2>1, <2>2, <2>3 DEF Talking, InRequest
    <1>4. CASE e = "server"
        <2>1. p = "client"
            BY <1>4, TwoEnds
        <2>2. InAnswer
            BY <1>2, <1>4, <2>1 DEF Talking, AtRest, InRequest
        <2>3. ends["server"].buffer = <<>> /\ wire["server"] = <<>>
            BY <1>2, <1>4, <2>2 DEF InAnswer
        <2>4. Inbound("server")' = <<>>
            BY <1>1, <1>4, <2>3, EmptyInbound
        <2> QED BY <1>1, <1>4, <2>1, <2>2, <2>3, <2>4 DEF Talking, InAnswer
    <1> QED BY <1>3, <1>4, TwoEnds

-----------------------------------------------------------------------------
(* Calls. *)

LEMMA ExecuteKeeps ==
    ASSUME Talking, NEW size \in MinBody .. ClientBuffer - Header, Execute(size)
    PROVE  Talking'
    <1> DEFINE request == Frame(calls + 1, size)
               r == [[[ends["client"] EXCEPT !.at = "sends"] EXCEPT !.out = request]
                        EXCEPT !.late = FALSE]
    <1>1. /\ RpcTypes /\ AtRest /\ size \in Nat \ {0} /\ calls \in Nat
        BY BufferAssumption
           DEF Talking, RpcTypes, Execute, InRequest, InAnswer, MinBody, Header
    <1>2. request \in Seq(Nat) /\ Len(request) = size + 2
        <2>1. calls + 1 \in Nat /\ size \in Nat
            BY <1>1
        <2> QED BY <2>1, FrameBytes
    <1>3. request # <<>>
        BY <1>1, <1>2
    <1>4. /\ ends' = [ends EXCEPT !["client"].at = "sends", !["client"].out = request,
                                  !["client"].late = FALSE]
          /\ calls' = calls + 1 /\ UNCHANGED <<wire, answers>>
        BY DEF Execute
    <1> HIDE DEF request
    <1>5. ends' = [ends EXCEPT !["client"] = r]
        BY <1>4
    <1>6. /\ r \in EndRecord /\ r.at = "sends" /\ r.out = request
          /\ r.buffer = ends["client"].buffer /\ r.message = ends["client"].message
        <2>1. ends["client"] \in EndRecord
            BY <1>1, EndFields, TwoEnds
        <2> QED BY <1>2, <2>1 DEF EndRecord
    <1> HIDE DEF r
    <1>7. /\ ends' \in [Ends -> EndRecord] /\ ends'["client"] = r /\ ends'["server"] = ends["server"]
        BY <1>1, <1>5, <1>6, TwoEnds DEF RpcTypes
    <1>8. RpcTypes'
        BY <1>1, <1>4, <1>7 DEF RpcTypes
    <1>9. Inbound("client")' = Inbound("client") /\ Inbound("server")' = Inbound("server")
        BY <1>4, <1>6, <1>7 DEF Inbound
    <1>10. ends["server"].at = "reads" =>
              Inbound("server")' \o ends'["client"].out = Frame(calls', size)
        <2>1. <<>> \o request = request
            BY <1>2, ConcatEmptySeq
        <2> QED BY <1>1, <1>4, <1>6, <1>7, <1>9, <2>1 DEF AtRest, request
    <1>11. InRequest'
        BY <1>1, <1>3, <1>4, <1>6, <1>7, <1>9, <1>10 DEF AtRest, InRequest
    <1> QED BY <1>8, <1>11 DEF Talking

LEMMA WaitingFor ==
    ASSUME NEW e, Complete(e), Inbound(e) = <<>>, RpcTypes, e \in Ends
    PROVE  FALSE
    <1>1. ends[e].message = <<>>
        BY EndFields
    <1>2. Len(<<>>) = 0
        OBVIOUS
    <1> QED BY <1>1, <1>2 DEF Complete, Wanted, Header

\* A frame that begins with a complete message has nothing behind it.
LEMMA WholeInbound ==
    ASSUME RpcTypes, NEW e \in Ends, Complete(e), NEW n \in Nat, NEW size \in Nat \ {0},
           NEW rest \in Seq(Nat), Inbound(e) \o rest = Frame(n, size)
    PROVE  ends[e].message = Frame(n, size) /\ ends[e].buffer = <<>> /\ wire[e] = <<>> /\ rest = <<>>
    <1> DEFINE m == ends[e].message
               b == ends[e].buffer
               w == wire[e]
    <1>1. m \in Seq(Nat) /\ b \in Seq(Nat) /\ w \in Seq(Nat) /\ Len(m) = Wanted(m)
        BY EndFields DEF Complete
    <1>2. ((m \o b) \o w) \o rest = Frame(n, size)
        BY DEF Inbound
    <1> HIDE DEF m, b, w
    <1>3. b \o w \in Seq(Nat) /\ (b \o w) \o rest \in Seq(Nat)
        BY <1>1, ConcatProperties
    <1>4. (m \o b) \o w = m \o (b \o w)
        BY <1>1, Reassociate
    <1>5. (m \o (b \o w)) \o rest = m \o ((b \o w) \o rest)
        BY <1>1, <1>3, Reassociate, ZenonT(40)
    <1>6. m = Frame(n, size) /\ (b \o w) \o rest = <<>>
        BY <1>1, <1>2, <1>3, <1>4, <1>5, WholeFrame
    <1>7. b \o w = <<>> /\ rest = <<>>
        BY <1>3, <1>6, ConcatEqualIffEmpty
    <1>8. b = <<>> /\ w = <<>>
        BY <1>1, <1>7, ConcatEqualIffEmpty
    <1> QED BY <1>6, <1>7, <1>8 DEF m, b, w

LEMMA ProcessKeeps ==
    ASSUME Talking, NEW size \in MinBody .. ServerBuffer - Header, Process(size)
    PROVE  Talking'
    <1>1. /\ RpcTypes /\ Complete("server") /\ ends["server"].at = "reads"
          /\ size \in Nat \ {0} /\ calls \in Nat
        <2>1. Complete("server")
            BY DEF Process
        <2>2. size \in Nat \ {0}
            BY BufferAssumption DEF MinBody, Header
        <2> QED BY <2>1, <2>2 DEF Talking, RpcTypes, Complete
    <1>2. InRequest
        BY <1>1, WaitingFor, TwoEnds DEF Talking, AtRest, InAnswer
    <1>3. ends["client"].out \in Seq(Nat)
        BY <1>1, EndFields, TwoEnds
    <1>4. PICK k \in Nat \ {0} : Inbound("server") \o ends["client"].out = Frame(calls, k)
        BY <1>1, <1>2 DEF InRequest
    <1>5. /\ ends["server"].message = Frame(calls, k) /\ ends["client"].out = <<>>
          /\ ends["server"].buffer = <<>> /\ wire["server"] = <<>>
        <2>1. \A e \in Ends : \A n \in Nat : \A j \in Nat \ {0} : \A rest \in Seq(Nat) :
                 Complete(e) /\ Inbound(e) \o rest = Frame(n, j) =>
                    /\ ends[e].message = Frame(n, j) /\ ends[e].buffer = <<>> /\ wire[e] = <<>>
                    /\ rest = <<>>
            BY <1>1, WholeInbound
        <2> QED BY <1>1, <1>3, <1>4, <2>1, TwoEnds, ZenonT(40)
    <1>6. ends["server"].message[Header + 1] = calls
        BY <1>1, <1>5, FrameBytes DEF Header
    <1> DEFINE response == Frame(calls, size)
               r == [[[ends["server"] EXCEPT !.at = "sends"] EXCEPT !.late = FALSE]
                        EXCEPT !.out = response]
    <1>7. /\ ends' = [ends EXCEPT !["server"].at = "sends", !["server"].late = FALSE,
                                  !["server"].out = response]
          /\ answers' = [answers EXCEPT !.sent = response]
          /\ UNCHANGED <<wire, calls>>
        BY <1>6 DEF Process
    <1>8. response \in Seq(Nat) /\ Len(response) = size + 2
        BY <1>1, FrameBytes
    <1>9. response # <<>>
        BY <1>1, <1>8
    <1> HIDE DEF response
    <1>10. ends' = [ends EXCEPT !["server"] = r]
        BY <1>7
    <1>11. /\ r \in EndRecord /\ r.at = "sends" /\ r.out = response /\ r.buffer = ends["server"].buffer
        <2>1. ends["server"] \in EndRecord
            BY <1>1, EndFields, TwoEnds
        <2> QED BY <1>8, <2>1 DEF EndRecord
    <1> HIDE DEF r
    <1>12. /\ ends' \in [Ends -> EndRecord] /\ ends'["server"] = r /\ ends'["client"] = ends["client"]
        BY <1>1, <1>10, <1>11, TwoEnds DEF RpcTypes
    <1>13. RpcTypes'
        BY <1>1, <1>7, <1>8, <1>12 DEF RpcTypes
    <1>14. ends["client"].at = "reads" /\ calls > 0 /\ Inbound("client") = <<>>
        BY <1>2, <1>5 DEF InRequest
    <1>15. Inbound("client")' = <<>>
        BY <1>7, <1>12, <1>14 DEF Inbound
    <1>16. answers'.sent = response
        BY <1>1, <1>7 DEF RpcTypes
    <1>17. Inbound("client")' \o ends'["server"].out = answers'.sent
        BY <1>8, <1>11, <1>12, <1>15, <1>16, ConcatEmptySeq
    <1>18. \E j \in Nat \ {0} : answers'.sent = Frame(calls', j)
        BY <1>1, <1>7, <1>16 DEF response
    <1>19. InAnswer'
        BY <1>5, <1>7, <1>9, <1>11, <1>12, <1>14, <1>17, <1>18 DEF InAnswer
    <1> QED BY <1>13, <1>19 DEF Talking

LEMMA ReturnKeeps ==
    ASSUME Talking, Return
    PROVE  Talking'
    <1>1. /\ RpcTypes /\ Complete("client") /\ ends["client"].at = "reads" /\ calls \in Nat
        BY DEF Talking, RpcTypes, Return, Complete
    <1>2. InAnswer
        BY <1>1, WaitingFor, TwoEnds DEF Talking, AtRest, InRequest
    <1>3. ends["server"].out \in Seq(Nat)
        BY <1>1, EndFields, TwoEnds
    <1>4. PICK k \in Nat \ {0} : answers.sent = Frame(calls, k)
        BY <1>2 DEF InAnswer
    <1>5. Inbound("client") \o ends["server"].out = Frame(calls, k)
        BY <1>2, <1>4 DEF InAnswer
    <1>6. /\ ends["client"].message = answers.sent /\ ends["server"].out = <<>>
          /\ ends["client"].buffer = <<>> /\ wire["client"] = <<>>
        <2>1. \A e \in Ends : \A n \in Nat : \A j \in Nat \ {0} : \A rest \in Seq(Nat) :
                 Complete(e) /\ Inbound(e) \o rest = Frame(n, j) =>
                    /\ ends[e].message = Frame(n, j) /\ ends[e].buffer = <<>> /\ wire[e] = <<>>
                    /\ rest = <<>>
            BY <1>1, WholeInbound
        <2>2. /\ ends["client"].message = Frame(calls, k) /\ ends["server"].out = <<>>
              /\ ends["client"].buffer = <<>> /\ wire["client"] = <<>>
            BY <1>1, <1>3, <1>5, <2>1, TwoEnds, ZenonT(40)
        <2> QED BY <1>4, <2>2
    <1> DEFINE r == [[ends["client"] EXCEPT !.at = "idle"] EXCEPT !.message = <<>>]
    <1>7. /\ ends' = [ends EXCEPT !["client"].at = "idle", !["client"].message = <<>>]
          /\ answers' = [answers EXCEPT !.read = ends["client"].message]
          /\ UNCHANGED <<wire, calls>>
        BY DEF Return
    <1>8. ends' = [ends EXCEPT !["client"] = r]
        BY <1>7
    <1>9. r \in EndRecord /\ r.at = "idle" /\ r.message = <<>> /\ r.buffer = ends["client"].buffer
        <2>1. ends["client"] \in EndRecord /\ <<>> \in Seq(Nat)
            BY <1>1, EndFields, TwoEnds, EmptySeq
        <2> QED BY <2>1 DEF EndRecord
    <1> HIDE DEF r
    <1>10. /\ ends' \in [Ends -> EndRecord] /\ ends'["client"] = r /\ ends'["server"] = ends["server"]
        BY <1>1, <1>8, <1>9, TwoEnds DEF RpcTypes
    <1>11. RpcTypes'
        <2>1. ends["client"].message \in Seq(Nat)
            BY <1>1, EndFields, TwoEnds
        <2> QED BY <1>1, <1>7, <1>10, <2>1 DEF RpcTypes
    <1>12. Inbound("client")' = <<>>
        BY <1>6, <1>7, <1>9, <1>10, EmptyInbound
    <1>13. Inbound("server")' = Inbound("server")
        BY <1>7, <1>10 DEF Inbound
    <1>14. answers'.read = answers.sent /\ answers'.sent = answers.sent
        BY <1>1, <1>6, <1>7 DEF RpcTypes
    <1>15. Last(answers.sent) = calls
        <2>1. Len(answers.sent) = k + 2 /\ answers.sent[k + 2] = calls
            BY <1>1, <1>4, FrameBytes
        <2> QED BY <2>1 DEF Last
    <1>16. AtRest'
        BY <1>2, <1>6, <1>7, <1>9, <1>10, <1>12, <1>13, <1>14, <1>15 DEF AtRest, InAnswer
    <1> QED BY <1>11, <1>16 DEF Talking

-----------------------------------------------------------------------------
(* The theorem *)

LEMMA RpcInitially == RpcInit => RpcInv
    <1> SUFFICES ASSUME RpcInit PROVE Talking
        BY DEF RpcInv
    <1>1. <<>> \in Seq(Nat)
        BY EmptySeq
    <1>2. /\ ends["client"] = [at |-> "idle", out |-> <<>>, late |-> FALSE, buffer |-> <<>>,
                               message |-> <<>>]
          /\ ends["server"] = [at |-> "reads", out |-> <<>>, late |-> FALSE, buffer |-> <<>>,
                               message |-> <<>>]
          /\ ends = [e \in Ends |-> ends[e]]
        BY TwoEnds DEF RpcInit
    <1>3. ends \in [Ends -> EndRecord]
        <2>1. ends["client"] \in EndRecord /\ ends["server"] \in EndRecord
            BY <1>1, <1>2 DEF EndRecord
        <2> QED BY <1>2, <2>1, TwoEnds
    <1>4. RpcTypes
        BY <1>1, <1>3 DEF RpcInit, RpcTypes
    <1>5. \A e \in Ends : Inbound(e) = <<>>
        <2>1. \A e \in Ends : ends[e].message = <<>> /\ ends[e].buffer = <<>> /\ wire[e] = <<>>
            BY <1>2, TwoEnds DEF RpcInit
        <2> QED BY <1>4, <2>1, EndFields
    <1>6. AtRest
        BY <1>2, <1>5, TwoEnds DEF AtRest, RpcInit
    <1> QED BY <1>4, <1>6 DEF Talking

\* Without its client the server may do what it likes.
LEMMA GoneStays ==
    ASSUME ClientGone, RpcNext
    PROVE  ClientGone'
    <1>1. ASSUME NEW e \in Ends, Steps(e) \/ SendTimesOut(e) PROVE ClientGone'
        <2>1. CASE e = "client"
            BY <1>1, <2>1, TwoEnds
               DEF ClientGone, Steps, SendTimesOut, Send, Load, Read, Reading, Disconnected, Refuse,
                   Return, Complete
        <2>2. CASE e = "server"
            BY <1>1, <2>2, TwoEnds
               DEF ClientGone, Steps, SendTimesOut, Send, Load, Read, Disconnected, Refuse, Process
        <2> QED BY <2>1, <2>2, TwoEnds
    <1>2. ASSUME NEW size, Execute(size) PROVE ClientGone'
        BY <1>2 DEF ClientGone, Execute
    <1>3. CASE Leave
        BY <1>3 DEF ClientGone, Leave
    <1> QED BY <1>1, <1>2, <1>3 DEF RpcNext

LEMMA TalkingStep ==
    ASSUME Talking, RpcNext
    PROVE  RpcInv'
    <1>1. ASSUME NEW e \in Ends, Steps(e) PROVE RpcInv'
        <2>1. CASE \E n \in 1 .. Len(ends[e].out) : Send(e, n)
            BY <2>1, SendKeeps DEF RpcInv
        <2>2. CASE \E n \in 1 .. Len(wire[e]) : Load(e, n)
            BY <2>2, LoadKeeps DEF RpcInv
        <2>3. CASE Read(e)
            BY <2>3, ReadKeeps DEF RpcInv
        <2>4. CASE Disconnected(e) \/ Refuse(e)
            <3>1. ends' = [ends EXCEPT ![e].at = "gone"] /\ UNCHANGED <<wire, calls, answers>>
                BY <2>4 DEF Disconnected, Refuse
            <3> QED BY <3>1, GoneKeeps
        <2>5. CASE \E size \in MinBody .. ServerBuffer - Header : Process(size)
            BY <2>5, ProcessKeeps DEF RpcInv
        <2>6. CASE Return
            BY <2>6, ReturnKeeps DEF RpcInv
        <2> QED BY <1>1, <2>1, <2>2, <2>3, <2>4, <2>5, <2>6 DEF Steps
    <1>2. ASSUME NEW e \in Ends, SendTimesOut(e) PROVE RpcInv'
        BY <1>2, GoneKeeps DEF SendTimesOut
    <1>3. ASSUME NEW size \in MinBody .. ClientBuffer - Header, Execute(size) PROVE RpcInv'
        BY <1>3, ExecuteKeeps DEF RpcInv
    <1>4. CASE Leave
        BY <1>4, GoneKeeps, TwoEnds DEF Leave
    <1> QED BY <1>1, <1>2, <1>3, <1>4 DEF RpcNext

LEMMA RpcStep ==
    ASSUME RpcInv, [RpcNext]_rpcVars
    PROVE  RpcInv'
    <1>1. CASE UNCHANGED rpcVars
        BY <1>1 DEF rpcVars, RpcInv, Talking, ClientGone, RpcTypes, AtRest, InRequest, InAnswer, Inbound
    <1>2. CASE RpcNext
        BY <1>2, TalkingStep, GoneStays DEF RpcInv
    <1> QED BY <1>1, <1>2

\* Whatever the sizes of the buffers and wherever sends and receives cut the
\* bytes, a call of rpc_client that returns has read the answer that the server
\* sent last, and that answer is to this call.
THEOREM RpcAnswersMatchCalls == RpcSpec => []AnswersMatchCalls
    <1>1. RpcInv => AnswersMatchCalls
        BY DEF RpcInv, Talking, ClientGone, AtRest, InRequest, InAnswer, AnswersMatchCalls
    <1>2. RpcInv /\ [RpcNext]_rpcVars => RpcInv'
        BY RpcStep
    <1> QED BY <1>1, <1>2, RpcInitially, PTL DEF RpcSpec

(***************************************************************************)
(* RingQueue, the queue of the merge requests                              *)
(***************************************************************************)

\* The types of a ring_queue: at least two slots, and head and tail among them.
RingTypeOK ==
    /\ m_queue \in Seq(Items \cup {Free})
    /\ Len(m_queue) \in Nat \ {0, 1}
    /\ m_head \in 0 .. (Len(m_queue) - 1)
    /\ m_tail \in 0 .. (Len(m_queue) - 1)

-----------------------------------------------------------------------------
(* Arithmetic of the mask. *)

\* A number at most one turn of the ring out of range is brought into it.
LEMMA Turn ==
    ASSUME NEW n \in Nat \ {0}
    PROVE  /\ \A x \in 0 .. (n - 1) : x % n = x
           /\ \A x \in n .. (2 * n - 1) : x % n = x - n
           /\ \A x \in (1 - n) .. (-1) : x % n = x + n
    <1>1. \A x \in 0 .. (n - 1) : x % n = x
        OBVIOUS
    <1>2. \A x \in n .. (2 * n - 1) : x % n = x - n
        OBVIOUS
    <1>3. \A x \in (1 - n) .. (-1) : x % n = x + n
        OBVIOUS
    <1> QED BY <1>1, <1>2, <1>3

\* The number of items, and where the i-th is, without the mask.
Count(n, head, tail) == IF head >= tail THEN head - tail ELSE head - tail + n
Place(n, tail, i) == IF tail + i - 1 < n THEN tail + i - 1 ELSE tail + i - 1 - n

\* ItemsOf in those terms.
LEMMA ItemsPlaced ==
    ASSUME NEW slots \in Seq(Items \cup {Free}), Len(slots) \in Nat \ {0},
           NEW head \in 0 .. (Len(slots) - 1), NEW tail \in 0 .. (Len(slots) - 1)
    PROVE  /\ Count(Len(slots), head, tail) \in 0 .. (Len(slots) - 1)
           /\ \A i \in 1 .. Count(Len(slots), head, tail) :
                 Place(Len(slots), tail, i) \in 0 .. (Len(slots) - 1)
           /\ ItemsOf(slots, head, tail) =
                 [i \in 1 .. Count(Len(slots), head, tail) |->
                     slots[Place(Len(slots), tail, i) + 1]]
    <1> DEFINE n == Len(slots)
    <1>1. n \in Nat \ {0}
        OBVIOUS
    <1> HIDE DEF n
    <1>2. (head - tail) % n = Count(n, head, tail) /\ Count(n, head, tail) \in 0 .. (n - 1)
        <2>0. head \in 0 .. (n - 1) /\ tail \in 0 .. (n - 1)
            BY DEF n
        <2>1. CASE head >= tail
            <3>1. head - tail \in 0 .. (n - 1)
                BY <1>1, <2>0, <2>1
            <3> QED BY <1>1, <2>0, <2>1, <3>1, Turn DEF Count
        <2>2. CASE head < tail
            <3>1. head - tail \in (1 - n) .. (-1)
                BY <1>1, <2>0, <2>2
            <3>2. (head - tail) % n = head - tail + n
                BY <1>1, <3>1, Turn
            <3> QED BY <1>1, <2>0, <2>2, <3>2 DEF Count
        <2> QED BY <2>0, <2>1, <2>2
    <1>3. ASSUME NEW i \in 1 .. Count(n, head, tail)
          PROVE  (tail + i - 1) % n = Place(n, tail, i) /\ Place(n, tail, i) \in 0 .. (n - 1)
        <2>0. head \in 0 .. (n - 1) /\ tail \in 0 .. (n - 1) /\ i \in 1 .. (n - 1)
            BY <1>1, <1>2 DEF n
        <2>1. CASE tail + i - 1 < n
            <3>1. tail + i - 1 \in 0 .. (n - 1)
                BY <1>1, <2>0, <2>1
            <3> QED BY <1>1, <2>0, <2>1, <3>1, Turn DEF Place
        <2>2. CASE tail + i - 1 >= n
            <3>1. tail + i - 1 \in n .. (2 * n - 1)
                BY <1>1, <2>0, <2>2
            <3>2. (tail + i - 1) % n = tail + i - 1 - n
                <4>1. \A x \in n .. (2 * n - 1) : x % n = x - n
                    BY <1>1, Turn
                <4>2. PICK x \in n .. (2 * n - 1) : x = tail + i - 1
                    BY <3>1
                <4>3. x % n = x - n
                    BY <4>1
                <4> QED BY <1>1, <2>0, <4>2, <4>3
            <3> QED BY <1>1, <2>0, <2>2, <3>2 DEF Place
        <2> QED BY <1>1, <2>0, <2>1, <2>2
    <1>4. ItemsOf(slots, head, tail) =
             [i \in 1 .. Count(n, head, tail) |-> slots[Place(n, tail, i) + 1]]
        BY <1>2, <1>3 DEF ItemsOf, RingSize, SlotAt, n
    <1> QED BY <1>2, <1>3, <1>4 DEF n

\* The slot after head, without the mask.
LEMMA NextPlaced ==
    ASSUME NEW slots \in Seq(Items \cup {Free}), Len(slots) \in Nat \ {0, 1},
           NEW head \in 0 .. (Len(slots) - 1)
    PROVE  NextSlot(slots, head) = IF head + 1 < Len(slots) THEN head + 1 ELSE 0
    <1>1. CASE head + 1 < Len(slots)
        <2>1. head + 1 \in 0 .. (Len(slots) - 1)
            BY <1>1
        <2> QED BY <1>1, <2>1, Turn DEF NextSlot, RingSize
    <1>2. CASE head + 1 = Len(slots)
        <2>1. head + 1 \in Len(slots) .. (2 * Len(slots) - 1)
            BY <1>2
        <2>2. (head + 1) % Len(slots) = head + 1 - Len(slots)
            BY <2>1, Turn
        <2> QED BY <1>2, <2>2 DEF NextSlot, RingSize
    <1> QED BY <1>1, <1>2

-----------------------------------------------------------------------------
(* Append and Tail as functions. *)

LEMMA AppendIsFunction ==
    ASSUME NEW S, NEW s \in Seq(S), NEW e \in S
    PROVE  Append(s, e) = [i \in 1 .. (Len(s) + 1) |-> IF i <= Len(s) THEN s[i] ELSE e]
    <1>1. Append(s, e) \in [1 .. (Len(s) + 1) -> S]
        BY AppendProperties, LenProperties
    <1>2. \A i \in 1 .. (Len(s) + 1) : Append(s, e)[i] = IF i <= Len(s) THEN s[i] ELSE e
        BY AppendProperties, LenProperties
    <1> QED BY <1>1, <1>2

LEMMA TailIsFunction ==
    ASSUME NEW S, NEW s \in Seq(S), s # <<>>
    PROVE  Tail(s) = [i \in 1 .. (Len(s) - 1) |-> s[i + 1]]
    <1>1. Tail(s) \in Seq(S) /\ Len(Tail(s)) = Len(s) - 1
        BY HeadTailProperties
    <1>2. Tail(s) \in [1 .. (Len(s) - 1) -> S]
        BY <1>1, LenProperties
    <1>3. \A i \in 1 .. (Len(s) - 1) : Tail(s)[i] = s[i + 1]
        BY <1>1, HeadTailProperties
    <1> QED BY <1>2, <1>3

-----------------------------------------------------------------------------
(* The operations. *)

Abstract == ItemsOf(m_queue, m_head, m_tail)

\* push on a ring with room for one more.
LEMMA PushInPlace ==
    ASSUME RingTypeOK, NEW item \in Items, push(item),
           NextSlot(m_queue, m_head) # m_tail
    PROVE  RingTypeOK' /\ Abstract' = Append(Abstract, item)
    <1> DEFINE n == Len(m_queue)
               c == Count(n, m_head, m_tail)
    <1>1. /\ m_queue' = [m_queue EXCEPT ![m_head + 1] = item]
          /\ m_tail' = m_tail
          /\ m_head' = NextSlot(m_queue', m_head)
        <2> DEFINE stored == [m_queue EXCEPT ![m_head + 1] = item]
        <2>1. Len(stored) = Len(m_queue)
            BY DEF RingTypeOK
        <2>2. NextSlot(stored, m_head) # m_tail
            BY <2>1 DEF NextSlot, RingSize
        <2> HIDE DEF stored
        <2>3. /\ m_queue' = stored
              /\ m_tail' = m_tail
              /\ m_head' = NextSlot(stored, m_head)
            BY <2>2 DEF push, stored
        <2> QED BY <2>3 DEF stored
    <1>2. m_queue' \in Seq(Items \cup {Free}) /\ Len(m_queue') = n
        BY <1>1 DEF RingTypeOK
    <1>3. m_head' = IF m_head + 1 < n THEN m_head + 1 ELSE 0
        BY <1>1, <1>2, NextPlaced DEF RingTypeOK
    <1>4. RingTypeOK'
        BY <1>1, <1>2, <1>3 DEF RingTypeOK
    <1>5. IF m_head + 1 < n THEN m_head + 1 # m_tail ELSE m_tail # 0
        BY NextPlaced DEF RingTypeOK
    <1>6. Abstract = [i \in 1 .. c |-> m_queue[Place(n, m_tail, i) + 1]]
        BY ItemsPlaced DEF Abstract, RingTypeOK
    <1>7. Abstract' = [i \in 1 .. Count(n, m_head', m_tail) |-> m_queue'[Place(n, m_tail, i) + 1]]
        <2>1. Abstract' = ItemsOf(m_queue', m_head', m_tail')
            BY DEF Abstract
        <2>2. m_head' \in 0 .. (n - 1) /\ m_tail' \in 0 .. (n - 1) /\ n \in Nat \ {0}
            BY <1>1, <1>3 DEF RingTypeOK
        <2>7. ItemsOf(m_queue', m_head', m_tail') =
                 [i \in 1 .. Count(Len(m_queue'), m_head', m_tail') |->
                     m_queue'[Place(Len(m_queue'), m_tail', i) + 1]]
            BY <1>2, <2>2, ItemsPlaced, SMTT(30)
        <2> QED BY <1>1, <1>2, <2>1, <2>7
    <1>8. c \in 0 .. (n - 1) /\ Count(n, m_head', m_tail) = c + 1 /\ Place(n, m_tail, c + 1) = m_head
        BY <1>3, <1>5 DEF RingTypeOK, Count, Place
    <1>9. \A i \in 1 .. c : /\ Place(n, m_tail, i) \in 0 .. (n - 1)
                            /\ Place(n, m_tail, i) # m_head
        BY <1>8 DEF RingTypeOK, Count, Place
    <1> HIDE DEF c, n
    <1>10. Abstract \in Seq(Items \cup {Free}) /\ Len(Abstract) = c
        BY <1>6, <1>8, <1>9 DEF RingTypeOK, n
    <1>11. Append(Abstract, item) =
              [i \in 1 .. (c + 1) |-> IF i <= c THEN Abstract[i] ELSE item]
        BY <1>10, AppendIsFunction
    <1>12. ASSUME NEW i \in 1 .. (c + 1)
           PROVE  m_queue'[Place(n, m_tail, i) + 1] = IF i <= c THEN Abstract[i] ELSE item
        <2>1. CASE i <= c
            BY <1>1, <1>6, <1>8, <1>9, <2>1 DEF RingTypeOK, n
        <2>2. CASE i = c + 1
            BY <1>1, <1>8, <2>2 DEF RingTypeOK, n
        <2> QED BY <1>8, <2>1, <2>2
    <1> QED BY <1>4, <1>7, <1>8, <1>11, <1>12

\* push that fills the ring: it doubles, and what lies before the old end moves
\* to the new end unless it is the whole ring.
LEMMA PushReallocates ==
    ASSUME RingTypeOK, NEW item \in Items, push(item),
           NextSlot(m_queue, m_head) = m_tail
    PROVE  RingTypeOK' /\ Abstract' = Append(Abstract, item)
    <1> DEFINE n == Len(m_queue)
               wraps == m_tail = m_head + 1
               stored == [m_queue EXCEPT ![m_head + 1] = item]
               grown == [i \in 1 .. (2 * n) |->
                           IF wraps
                           THEN IF i <= m_tail THEN stored[i]
                                ELSE IF i > n + m_tail THEN stored[i - n] ELSE Free
                           ELSE IF i <= n THEN stored[i] ELSE Free]
    <1>0. stored \in Seq(Items \cup {Free}) /\ Len(stored) = n
        BY DEF RingTypeOK
    <1>1. /\ m_queue' = grown
          /\ m_tail' = IF wraps THEN m_tail + n ELSE m_tail
          /\ m_head' = NextSlot(m_queue', m_head)
        BY <1>0 DEF push, reallocate, NextSlot, RingSize, RingTypeOK
    <1>2. IF wraps THEN m_head + 1 < n ELSE m_head = n - 1 /\ m_tail = 0
        BY NextPlaced DEF RingTypeOK
    <1>3. m_queue' \in Seq(Items \cup {Free}) /\ Len(m_queue') = 2 * n
        <2>1. \A i \in 1 .. (2 * n) : grown[i] \in Items \cup {Free}
            <3> SUFFICES ASSUME NEW i \in 1 .. (2 * n)
                         PROVE  grown[i] \in Items \cup {Free}
                OBVIOUS
            <3>1. \A j \in 1 .. n : stored[j] \in Items \cup {Free}
                BY <1>0
            <3>2. n \in Nat /\ m_tail \in 0 .. (n - 1)
                BY DEF RingTypeOK
            <3> HIDE DEF stored, n
            <3> QED BY <3>1, <3>2
        <2>2. 2 * n \in Nat
            BY DEF RingTypeOK
        <2> HIDE DEF grown
        <2>3. grown = [i \in 1 .. (2 * n) |-> grown[i]]
            BY DEF grown
        <2> QED BY <1>1, <2>1, <2>2, <2>3
    <1>4. m_head' = m_head + 1
        <2>1. n \in Nat \ {0, 1} /\ 2 * n \in Nat \ {0, 1} /\ m_head \in 0 .. (2 * n - 1) /\ m_head + 1 < 2 * n
            BY DEF RingTypeOK
        <2> QED BY <1>1, <1>3, <2>1, NextPlaced
    <1>5. RingTypeOK'
        BY <1>1, <1>2, <1>3, <1>4 DEF RingTypeOK
    <1>6. Abstract = [i \in 1 .. (n - 1) |-> m_queue[Place(n, m_tail, i) + 1]]
        <2>1. Count(n, m_head, m_tail) = n - 1
            BY <1>2 DEF RingTypeOK, Count
        <2> QED BY <2>1, ItemsPlaced DEF Abstract, RingTypeOK
    <1>7. Abstract' = [i \in 1 .. n |-> m_queue'[Place(2 * n, m_tail', i) + 1]]
        <2>1. Count(2 * n, m_head', m_tail') = n
            <3>1. n \in Nat \ {0, 1} /\ m_head \in 0 .. (n - 1) /\ m_tail \in 0 .. (n - 1)
                BY DEF RingTypeOK
            <3> HIDE DEF n, grown
            <3>2. CASE wraps
                BY <1>1, <1>2, <1>4, <3>1, <3>2 DEF Count
            <3>3. CASE ~wraps
                BY <1>1, <1>2, <1>4, <3>1, <3>3 DEF Count
            <3> QED BY <3>2, <3>3
        <2>2. Abstract' = ItemsOf(m_queue', m_head', m_tail')
            BY DEF Abstract
        <2>3. /\ m_head' \in 0 .. (Len(m_queue') - 1) /\ m_tail' \in 0 .. (Len(m_queue') - 1)
              /\ Len(m_queue') \in Nat \ {0}
            BY <1>5 DEF RingTypeOK
        <2> HIDE DEF n, grown, stored, wraps
        <2>7. ItemsOf(m_queue', m_head', m_tail') =
                 [i \in 1 .. Count(Len(m_queue'), m_head', m_tail') |->
                     m_queue'[Place(Len(m_queue'), m_tail', i) + 1]]
            BY <1>3, <2>3, ItemsPlaced
        <2> QED BY <1>3, <2>1, <2>2, <2>7
    <1>8. \A i \in 1 .. n : Place(n, m_tail, i) \in 0 .. (n - 1)
        BY DEF RingTypeOK, Place
    <1>9. \A i \in 1 .. n : Place(n, m_tail, i) = m_head <=> i = n
        BY <1>2 DEF RingTypeOK, Place
    <1>10. ASSUME NEW i \in 1 .. n
           PROVE  m_queue'[Place(2 * n, m_tail', i) + 1] = stored[Place(n, m_tail, i) + 1]
        <2>0. n \in Nat \ {0, 1} /\ m_tail \in 0 .. (n - 1)
            BY DEF RingTypeOK
        <2> DEFINE p == Place(2 * n, m_tail', i) + 1
        <2> HIDE DEF stored, n
        <2>1. CASE ~wraps
            <3>1. p = i /\ Place(n, m_tail, i) + 1 = i /\ i <= n /\ i \in 1 .. (2 * n)
                BY <1>1, <1>2, <2>0, <2>1 DEF Place
            <3> QED BY <1>1, <2>1, <3>1
        <2>2. CASE wraps /\ m_tail + i <= n
            <3>1. p = m_tail + i + n /\ Place(n, m_tail, i) + 1 = p - n
                BY <1>1, <2>0, <2>2, SMTT(30) DEF Place
            <3>2. p \in 1 .. (2 * n) /\ p > n + m_tail /\ ~(p <= m_tail)
                BY <2>0, <2>2, <3>1
            <3> QED BY <1>1, <2>2, <3>1, <3>2
        <2>3. CASE wraps /\ m_tail + i > n
            <3>1. p = m_tail + i - n /\ Place(n, m_tail, i) + 1 = p
                BY <1>1, <2>0, <2>3, SMTT(30) DEF Place
            <3>2. p \in 1 .. (2 * n) /\ p <= m_tail
                BY <2>0, <2>3, <3>1
            <3> QED BY <1>1, <2>3, <3>1, <3>2
        <2> QED BY <2>0, <2>1, <2>2, <2>3
    <1>11. \A i \in 1 .. n : stored[Place(n, m_tail, i) + 1] = IF i <= n - 1 THEN Abstract[i] ELSE item
        BY <1>6, <1>8, <1>9 DEF RingTypeOK
    <1> HIDE DEF stored, grown, wraps
    <1>12. n \in Nat \ {0, 1} /\ m_queue \in Seq(Items \cup {Free})
        BY DEF RingTypeOK
    <1>13. Abstract \in Seq(Items \cup {Free}) /\ Len(Abstract) = n - 1
        BY <1>6, <1>8, <1>12
    <1>14. Append(Abstract, item) = [i \in 1 .. n |-> IF i <= n - 1 THEN Abstract[i] ELSE item]
        <2>1. n - 1 + 1 = n
            BY <1>12
        <2> QED BY <1>13, <2>1, AppendIsFunction
    <1> QED BY <1>5, <1>7, <1>10, <1>11, <1>14

\* pop gives the first item.
LEMMA PopTakesFirst ==
    ASSUME RingTypeOK, pop
    PROVE  RingTypeOK' /\ Abstract # <<>> /\ Abstract' = Tail(Abstract)
    <1> DEFINE n == Len(m_queue)
               c == Count(n, m_head, m_tail)
    <1>1. /\ m_queue' = [m_queue EXCEPT ![m_tail + 1] = Free]
          /\ m_tail' = IF m_tail + 1 < n THEN m_tail + 1 ELSE 0
          /\ m_head' = m_head /\ m_head # m_tail
        BY NextPlaced DEF pop, RingTypeOK
    <1>2. m_queue' \in Seq(Items \cup {Free}) /\ Len(m_queue') = n
        BY <1>1 DEF RingTypeOK
    <1>3. RingTypeOK'
        BY <1>1, <1>2 DEF RingTypeOK
    <1>4. Abstract = [i \in 1 .. c |-> m_queue[Place(n, m_tail, i) + 1]]
        BY ItemsPlaced DEF Abstract, RingTypeOK
    <1>5. Abstract' = [i \in 1 .. Count(n, m_head, m_tail') |-> m_queue'[Place(n, m_tail', i) + 1]]
        <2>1. Abstract' = ItemsOf(m_queue', m_head', m_tail')
            BY DEF Abstract
        <2>2. m_head' \in 0 .. (n - 1) /\ m_tail' \in 0 .. (n - 1) /\ n \in Nat \ {0}
            BY <1>1 DEF RingTypeOK
        <2>3. m_head' = m_head
            BY <1>1
        <2>7. ItemsOf(m_queue', m_head', m_tail') =
                 [i \in 1 .. Count(Len(m_queue'), m_head', m_tail') |->
                     m_queue'[Place(Len(m_queue'), m_tail', i) + 1]]
            BY <1>2, <2>2, ItemsPlaced, SMTT(30)
        <2> QED BY <1>2, <2>1, <2>3, <2>7
    <1>6. c \in 1 .. (n - 1) /\ Count(n, m_head, m_tail') = c - 1
        BY <1>1 DEF RingTypeOK, Count
    <1>7. \A i \in 1 .. (c - 1) : /\ Place(n, m_tail', i) = Place(n, m_tail, i + 1)
                                  /\ Place(n, m_tail', i) \in 0 .. (n - 1)
                                  /\ Place(n, m_tail', i) # m_tail
        BY <1>1, <1>6 DEF RingTypeOK, Place
    <1>8. \A i \in 1 .. c : Place(n, m_tail, i) \in 0 .. (n - 1)
        BY <1>6 DEF RingTypeOK, Place
    <1>9. n \in Nat \ {0, 1} /\ m_queue \in Seq(Items \cup {Free}) /\ m_tail \in 0 .. (n - 1)
        BY DEF RingTypeOK
    <1> HIDE DEF c
    <1>10. Abstract \in Seq(Items \cup {Free}) /\ Len(Abstract) = c
        <2>1. \A i \in 1 .. c : m_queue[Place(n, m_tail, i) + 1] \in Items \cup {Free}
            BY <1>8, <1>9
        <2>2. c \in Nat
            BY <1>6
        <2> QED BY <1>4, <2>1, <2>2
    <1>11. Abstract # <<>> /\ Tail(Abstract) = [i \in 1 .. (c - 1) |-> Abstract[i + 1]]
        <2>1. Abstract # <<>>
            BY <1>6, <1>10
        <2> QED BY <1>10, <2>1, TailIsFunction
    <1>12. ASSUME NEW i \in 1 .. (c - 1)
           PROVE  m_queue'[Place(n, m_tail', i) + 1] = Abstract[i + 1]
        <2>1. Abstract[i + 1] = m_queue[Place(n, m_tail, i + 1) + 1]
            BY <1>4, <1>6
        <2>2. m_queue'[Place(n, m_tail', i) + 1] = m_queue[Place(n, m_tail', i) + 1]
            BY <1>1, <1>7, <1>9
        <2> QED BY <1>7, <2>1, <2>2
    <1> QED BY <1>3, <1>5, <1>6, <1>11, <1>12

-----------------------------------------------------------------------------
(* The theorems. *)

\* Every step keeps the types and is a push, a pop or no step of the queue.
LEMMA RingStep ==
    ASSUME RingTypeOK, [RingNext]_ringVars
    PROVE  /\ RingTypeOK'
           /\ \/ Abstract # <<>> /\ Abstract' = Tail(Abstract)
              \/ \E item \in Items : Abstract' = Append(Abstract, item)
              \/ Abstract' = Abstract
    <1>1. CASE UNCHANGED ringVars
        BY <1>1 DEF ringVars, RingTypeOK, Abstract
    <1>2. CASE pop
        BY <1>2, PopTakesFirst
    <1>3. ASSUME NEW item \in Items, push(item)
          PROVE  RingTypeOK' /\ Abstract' = Append(Abstract, item)
        BY <1>3, PushInPlace, PushReallocates
    <1> QED BY <1>1, <1>2, <1>3 DEF RingNext

\* A new ring_queue is empty.
LEMMA RingStart == RingInit => RingTypeOK /\ Abstract = <<>>
    <1> SUFFICES ASSUME RingInit PROVE RingTypeOK /\ Abstract = <<>>
        OBVIOUS
    <1>1. RingTypeOK
        BY InitialSizeAssumption DEF RingInit, RingTypeOK
    <1>2. Count(Len(m_queue), m_head, m_tail) = 0
        BY DEF RingInit, Count
    <1>3. Abstract = [i \in 1 .. 0 |-> m_queue[Place(Len(m_queue), m_tail, i) + 1]]
        BY <1>1, <1>2, ItemsPlaced DEF Abstract, RingTypeOK
    <1> QED BY <1>1, <1>3

\* The head and the tail of a ring_queue stay in its slots.
THEOREM RingTypes == RingSpec => []RingTypeOK
    BY RingStart, RingStep, PTL DEF RingSpec

\* ring_queue implements Fifo: what is pushed is popped once and in order, for
\* every initial size, number of items and history of wraps and reallocations.
THEOREM RingIsFifo == RingSpec => RefinesFifo
    <1>1. RingInit => ItemsOf(m_queue, m_head, m_tail) = <<>>
        BY RingStart DEF Abstract
    <1>2. RingTypeOK /\ [RingNext]_ringVars
             => [Queue!Pop \/ \E item \in Items : Queue!Push(item)]_(ItemsOf(m_queue, m_head, m_tail))
        BY RingStep DEF Abstract, Queue!Pop, Queue!Push
    <1> QED BY <1>1, <1>2, RingTypes, PTL DEF RingSpec, RefinesFifo, Queue!FifoSpec

(***************************************************************************)
(* Fetch                                                                   *)
(***************************************************************************)

(* Pieces of values. *)

\* n bytes of a value, behind the first a.
Run(a, n) == [b \in 1 .. n |-> a + b]

Piece == [key : Keys, eor : BOOLEAN, bytes : Seq(Nat)]

\* The keys of a range, with the sizes of their values.
KeysAndSizes == Seq(Keys \X Nat)

\* In the range e, the piece p leads from byte b of the value behind m others to byte b2
\* of the one behind m2.
Leads(e, p, m, b, m2, b2) ==
    /\ m < Len(e) /\ p.key = e[m + 1][1] /\ p.bytes = Run(b, Len(p.bytes))
    /\ IF p.eor THEN b + Len(p.bytes) = e[m + 1][2] /\ m2 = m + 1 /\ b2 = 0
       ELSE m2 = m /\ b2 = b + Len(p.bytes)

\* The pieces q lead there one after the other, by way of pm and pb.
LeadBy(e, q, pm, pb) ==
    /\ q \in Seq(Piece)
    /\ pm \in [0 .. Len(q) -> Nat] /\ pb \in [0 .. Len(q) -> Nat]
    /\ \A i \in 1 .. Len(q) : Leads(e, q[i], pm[i - 1], pb[i - 1], pm[i], pb[i])

Lead(e, q, m, b, m2, b2) ==
    \E pm, pb : /\ LeadBy(e, q, pm, pb)
                /\ pm[0] = m /\ pb[0] = b /\ pm[Len(q)] = m2 /\ pb[Len(q)] = b2

LEMMA RunProperties ==
    ASSUME NEW a \in Nat, NEW n \in Nat
    PROVE  /\ Run(a, n) \in Seq(Nat) /\ Len(Run(a, n)) = n
           /\ \A i \in 1 .. n : Run(a, n)[i] = a + i
    <1>1. Run(a, n) \in [1 .. n -> Nat]
        BY DEF Run
    <1>2. Run(a, n) \in Seq(Nat)
        BY <1>1, SeqDef
    <1>3. Len(Run(a, n)) = n
        BY <1>1, <1>2, LenProperties
    <1> QED BY <1>2, <1>3 DEF Run

\* Runs that follow each other are one.
LEMMA RunConcat ==
    ASSUME NEW a \in Nat, NEW n \in Nat, NEW k \in Nat
    PROVE  Run(a, n) \o Run(a + n, k) = Run(a, n + k)
    <1> DEFINE r == Run(a, n)
               t == Run(a + n, k)
               c == Run(a, n + k)
    <1>1. r \in Seq(Nat) /\ Len(r) = n /\ \A i \in 1 .. n : r[i] = a + i
        BY RunProperties
    <1>0. a + n \in Nat /\ n + k \in Nat
        OBVIOUS
    <1>2. t \in Seq(Nat) /\ Len(t) = k /\ \A i \in 1 .. k : t[i] = (a + n) + i
        BY <1>0, RunProperties
    <1>3. c \in Seq(Nat) /\ Len(c) = n + k /\ \A i \in 1 .. n + k : c[i] = a + i
        BY <1>0, RunProperties
    <1> HIDE DEF r, t, c
    <1>4. /\ r \o t \in Seq(Nat) /\ Len(r \o t) = n + k
          /\ \A i \in 1 .. n + k : (r \o t)[i] = IF i <= n THEN r[i] ELSE t[i - n]
        BY <1>1, <1>2, ConcatProperties
    <1>5. ASSUME NEW i \in 1 .. n + k PROVE (r \o t)[i] = c[i]
        <2>1. CASE i <= n
            <3>1. i \in 1 .. n
                BY <2>1
            <3> QED BY <1>1, <1>3, <1>4, <2>1, <3>1
        <2>2. CASE ~(i <= n)
            <3>1. i - n \in 1 .. k /\ (a + n) + (i - n) = a + i
                BY <2>2
            <3> QED BY <1>2, <1>3, <1>4, <2>2, <3>1
        <2> QED BY <2>1, <2>2
    <1>6. \A i \in 1 .. Len(r \o t) : (r \o t)[i] = c[i]
        BY <1>4, <1>5
    <1>7. r \o t = c
        BY <1>3, <1>4, <1>6, SeqEqual
    <1> QED BY <1>7 DEF r, t, c

\* The two sides of a cut through a run.
LEMMA RunCut ==
    ASSUME NEW a \in Nat, NEW n \in Nat, NEW k \in 0 .. n
    PROVE  /\ SubSeq(Run(a, n), 1, k) = Run(a, k)
           /\ SubSeq(Run(a, n), k + 1, n) = Run(a + k, n - k)
    <1> DEFINE r == Run(a, n)
               f == SubSeq(r, 1, k)
               t == SubSeq(r, k + 1, n)
    <1>1. r \in Seq(Nat) /\ Len(r) = n /\ \A i \in 1 .. n : r[i] = a + i
        BY RunProperties
    <1>2. k \in Nat /\ k <= n /\ n - k \in Nat /\ a + k \in Nat
        OBVIOUS
    <1> HIDE DEF r
    <1>3. /\ f \in Seq(Nat) /\ Len(f) = k /\ \A i \in 1 .. k : f[i] = r[i]
          /\ t \in Seq(Nat) /\ Len(t) = n - k /\ \A i \in 1 .. n - k : t[i] = r[k + i]
        BY <1>1, SubSeqPlaces
    <1> HIDE DEF f, t
    <1>4. f = Run(a, k)
        <2>1. /\ Run(a, k) \in Seq(Nat) /\ Len(Run(a, k)) = k
              /\ \A i \in 1 .. k : Run(a, k)[i] = a + i
            BY <1>2, RunProperties
        <2>2. \A i \in 1 .. k : i \in 1 .. n
            BY <1>2
        <2> QED BY <1>1, <1>3, <2>1, <2>2, SeqEqual
    <1>5. t = Run(a + k, n - k)
        <2>1. /\ Run(a + k, n - k) \in Seq(Nat) /\ Len(Run(a + k, n - k)) = n - k
              /\ \A i \in 1 .. n - k : Run(a + k, n - k)[i] = (a + k) + i
            BY <1>2, RunProperties
        <2>2. \A i \in 1 .. n - k : k + i \in 1 .. n /\ a + (k + i) = (a + k) + i
            BY <1>2
        <2>3. \A i \in 1 .. n - k : t[i] = (a + k) + i
            BY <1>1, <1>3, <2>2
        <2> QED BY <1>3, <2>1, <2>3, SeqEqual
    <1> QED BY <1>4, <1>5 DEF r, f, t

LEMMA LeadNothing ==
    ASSUME NEW e, NEW m, NEW b, NEW m2, NEW b2, Lead(e, <<>>, m, b, m2, b2)
    PROVE  m2 = m /\ b2 = b
    <1>1. Len(<<>>) = 0
        OBVIOUS
    <1> QED BY <1>1 DEF Lead

LEMMA NothingLeads ==
    ASSUME NEW e, NEW m \in Nat, NEW b \in Nat
    PROVE  Lead(e, <<>>, m, b, m, b)
    <1> DEFINE pm == [i \in 0 .. 0 |-> m]
               pb == [i \in 0 .. 0 |-> b]
    <1>1. Len(<<>>) = 0 /\ 1 .. 0 = {} /\ <<>> \in Seq(Piece) /\ 0 \in 0 .. 0
        OBVIOUS
    <1>2. pm \in [0 .. 0 -> Nat] /\ pb \in [0 .. 0 -> Nat] /\ pm[0] = m /\ pb[0] = b
        BY <1>1
    <1> HIDE DEF pm, pb
    <1> QED BY <1>1, <1>2 DEF Lead, LeadBy

\* Where pieces lead to.
LEMMA LeadPlaces ==
    ASSUME NEW e, NEW q, NEW m, NEW b, NEW m2, NEW b2, Lead(e, q, m, b, m2, b2)
    PROVE  /\ q \in Seq(Piece) /\ Len(q) \in Nat
           /\ m \in Nat /\ b \in Nat /\ m2 \in Nat /\ b2 \in Nat
    <1>1. PICK pm, pb : LeadBy(e, q, pm, pb)
                        /\ pm[0] = m /\ pb[0] = b /\ pm[Len(q)] = m2 /\ pb[Len(q)] = b2
        BY DEF Lead
    <1>2. q \in Seq(Piece) /\ pm \in [0 .. Len(q) -> Nat] /\ pb \in [0 .. Len(q) -> Nat]
        BY <1>1 DEF LeadBy
    <1>3. Len(q) \in Nat
        BY <1>2, LenProperties
    <1>4. 0 \in 0 .. Len(q) /\ Len(q) \in 0 .. Len(q)
        BY <1>3
    <1> QED BY <1>1, <1>2, <1>3, <1>4

LEMMA LeadConcat ==
    ASSUME NEW e, NEW q, NEW r, NEW m, NEW b, NEW m2, NEW b2, NEW m3, NEW b3,
           Lead(e, q, m, b, m2, b2), Lead(e, r, m2, b2, m3, b3)
    PROVE  Lead(e, q \o r, m, b, m3, b3)
    <1>1. PICK pm, pb : LeadBy(e, q, pm, pb)
                        /\ pm[0] = m /\ pb[0] = b /\ pm[Len(q)] = m2 /\ pb[Len(q)] = b2
        BY DEF Lead
    <1>2. PICK qm, qb : LeadBy(e, r, qm, qb)
                        /\ qm[0] = m2 /\ qb[0] = b2 /\ qm[Len(r)] = m3 /\ qb[Len(r)] = b3
        BY DEF Lead
    <1>3. /\ q \in Seq(Piece) /\ pm \in [0 .. Len(q) -> Nat] /\ pb \in [0 .. Len(q) -> Nat]
          /\ \A i \in 1 .. Len(q) : Leads(e, q[i], pm[i - 1], pb[i - 1], pm[i], pb[i])
        BY <1>1 DEF LeadBy
    <1>4. /\ r \in Seq(Piece) /\ qm \in [0 .. Len(r) -> Nat] /\ qb \in [0 .. Len(r) -> Nat]
          /\ \A i \in 1 .. Len(r) : Leads(e, r[i], qm[i - 1], qb[i - 1], qm[i], qb[i])
        BY <1>2 DEF LeadBy
    <1> DEFINE N == Len(q)
               K == Len(r)
               c == q \o r
               rm == [i \in 0 .. N + K |-> IF i <= N THEN pm[i] ELSE qm[i - N]]
               rb == [i \in 0 .. N + K |-> IF i <= N THEN pb[i] ELSE qb[i - N]]
    <1>5. N \in Nat /\ K \in Nat
        BY <1>3, <1>4, LenProperties
    <1>6. /\ c \in Seq(Piece) /\ Len(c) = N + K
          /\ \A i \in 1 .. N + K : c[i] = IF i <= N THEN q[i] ELSE r[i - N]
        BY <1>3, <1>4, ConcatProperties
    <1> HIDE DEF N, K, c
    <1>7. ASSUME NEW i \in 0 .. N + K
          PROVE  /\ rm[i] \in Nat /\ rb[i] \in Nat
                 /\ i <= N => rm[i] = pm[i] /\ rb[i] = pb[i]
                 /\ i >= N => rm[i] = qm[i - N] /\ rb[i] = qb[i - N]
        <2>1. CASE i < N
            <3>1. i \in 0 .. N /\ i <= N /\ ~(i >= N)
                BY <1>5, <2>1
            <3> QED BY <1>3, <3>1 DEF N
        <2>2. CASE i = N
            <3>1. i <= N /\ i - N = 0 /\ 0 \in 0 .. K /\ N \in 0 .. N
                BY <1>5, <2>2
            <3>2. pm[N] = qm[0] /\ pb[N] = qb[0]
                BY <1>1, <1>2 DEF N
            <3>3. pm[N] \in Nat /\ pb[N] \in Nat
                BY <1>3, <3>1 DEF N
            <3> QED BY <2>2, <3>1, <3>2, <3>3
        <2>3. CASE i > N
            <3>1. i - N \in 0 .. K /\ ~(i <= N)
                BY <1>5, <2>3
            <3>2. qm[i - N] \in Nat /\ qb[i - N] \in Nat
                BY <1>4, <3>1 DEF K
            <3> QED BY <3>1, <3>2
        <2> QED BY <1>5, <2>1, <2>2, <2>3
    <1>8. rm \in [0 .. N + K -> Nat] /\ rb \in [0 .. N + K -> Nat]
        BY <1>7
    <1> HIDE DEF rm, rb
    <1>9. ASSUME NEW i \in 1 .. N + K PROVE Leads(e, c[i], rm[i - 1], rb[i - 1], rm[i], rb[i])
        <2>1. i - 1 \in 0 .. N + K /\ i \in 0 .. N + K
            BY <1>5
        <2>2. CASE i <= N
            <3>1. i - 1 <= N /\ i \in 1 .. N
                BY <1>5, <2>2
            <3>2. c[i] = q[i]
                BY <1>6, <2>2
            <3> QED BY <1>3, <1>7, <2>1, <2>2, <3>1, <3>2 DEF N
        <2>3. CASE ~(i <= N)
            <3>1. i - 1 >= N /\ i >= N /\ i - N \in 1 .. K /\ (i - 1) - N = (i - N) - 1
                BY <1>5, <2>3
            <3>2. c[i] = r[i - N]
                BY <1>6, <2>3
            <3>3. Leads(e, r[i - N], qm[(i - N) - 1], qb[(i - N) - 1], qm[i - N], qb[i - N])
                BY <1>4, <3>1 DEF K
            <3> QED BY <1>7, <2>1, <3>1, <3>2, <3>3
        <2> QED BY <2>2, <2>3
    <1>10. LeadBy(e, c, rm, rb)
        BY <1>6, <1>8, <1>9 DEF LeadBy
    <1>11. rm[0] = m /\ rb[0] = b /\ rm[N + K] = m3 /\ rb[N + K] = b3
        <2>1. 0 \in 0 .. N + K /\ N + K \in 0 .. N + K /\ 0 <= N /\ N + K >= N /\ (N + K) - N = K
            BY <1>5
        <2> QED BY <1>1, <1>2, <1>7, <2>1 DEF K
    <1> QED BY <1>6, <1>10, <1>11 DEF Lead, c

\* Pieces lead up to where the first n of them lead, and the others on from there.
LEMMA LeadSplit ==
    ASSUME NEW e, NEW q, NEW m, NEW b, NEW m2, NEW b2, Lead(e, q, m, b, m2, b2), NEW n \in 0 .. Len(q)
    PROVE  \E x, y : /\ Lead(e, SubSeq(q, 1, n), m, b, x, y)
                     /\ Lead(e, SubSeq(q, n + 1, Len(q)), x, y, m2, b2)
    <1>1. PICK pm, pb : LeadBy(e, q, pm, pb)
                        /\ pm[0] = m /\ pb[0] = b /\ pm[Len(q)] = m2 /\ pb[Len(q)] = b2
        BY DEF Lead
    <1> DEFINE N == Len(q)
               f == SubSeq(q, 1, n)
               t == SubSeq(q, n + 1, N)
    <1>2. /\ q \in Seq(Piece) /\ pm \in [0 .. N -> Nat] /\ pb \in [0 .. N -> Nat]
          /\ \A i \in 1 .. N : Leads(e, q[i], pm[i - 1], pb[i - 1], pm[i], pb[i])
        BY <1>1 DEF LeadBy
    <1>3. N \in Nat /\ n \in Nat /\ n <= N
        BY <1>2, LenProperties
    <1>4. f \in Seq(Piece) /\ Len(f) = n /\ \A i \in 1 .. n : f[i] = q[i]
        BY <1>2, SubSeqPlaces
    <1>5. t \in Seq(Piece) /\ Len(t) = N - n /\ \A i \in 1 .. N - n : t[i] = q[n + i]
        BY <1>2, SubSeqPlaces
    <1> HIDE DEF N, f, t
    <1> DEFINE fm == [i \in 0 .. n |-> pm[i]]
               fb == [i \in 0 .. n |-> pb[i]]
               tm == [i \in 0 .. N - n |-> pm[n + i]]
               tb == [i \in 0 .. N - n |-> pb[n + i]]
    <1>6. Lead(e, f, m, b, pm[n], pb[n])
        <2>1. \A i \in 0 .. n : i \in 0 .. N
            BY <1>3
        <2>2. fm \in [0 .. n -> Nat] /\ fb \in [0 .. n -> Nat]
            BY <1>2, <2>1
        <2>3. \A i \in 0 .. n : fm[i] = pm[i] /\ fb[i] = pb[i]
            OBVIOUS
        <2> HIDE DEF fm, fb
        <2>4. ASSUME NEW i \in 1 .. n PROVE Leads(e, f[i], fm[i - 1], fb[i - 1], fm[i], fb[i])
            <3>1. i - 1 \in 0 .. n /\ i \in 0 .. n /\ i \in 1 .. N
                BY <1>3
            <3> QED BY <1>2, <1>4, <2>3, <3>1
        <2>5. LeadBy(e, f, fm, fb)
            BY <1>4, <2>2, <2>4 DEF LeadBy
        <2>6. 0 \in 0 .. n /\ n \in 0 .. n
            BY <1>3
        <2> QED BY <1>1, <1>4, <2>3, <2>5, <2>6 DEF Lead
    <1>7. Lead(e, t, pm[n], pb[n], m2, b2)
        <2>1. \A i \in 0 .. N - n : n + i \in 0 .. N
            BY <1>3
        <2>2. tm \in [0 .. N - n -> Nat] /\ tb \in [0 .. N - n -> Nat]
            BY <1>2, <2>1
        <2>3. \A i \in 0 .. N - n : tm[i] = pm[n + i] /\ tb[i] = pb[n + i]
            OBVIOUS
        <2> HIDE DEF tm, tb
        <2>4. ASSUME NEW i \in 1 .. N - n PROVE Leads(e, t[i], tm[i - 1], tb[i - 1], tm[i], tb[i])
            <3>1. /\ i - 1 \in 0 .. N - n /\ i \in 0 .. N - n /\ n + i \in 1 .. N
                  /\ n + (i - 1) = (n + i) - 1
                BY <1>3
            <3>2. Leads(e, q[n + i], pm[(n + i) - 1], pb[(n + i) - 1], pm[n + i], pb[n + i])
                BY <1>2, <3>1
            <3> QED BY <1>5, <2>3, <3>1, <3>2
        <2>5. LeadBy(e, t, tm, tb)
            BY <1>5, <2>2, <2>4 DEF LeadBy
        <2>6. 0 \in 0 .. N - n /\ N - n \in 0 .. N - n /\ n + 0 = n /\ n + (N - n) = N
            BY <1>3
        <2> QED BY <1>1, <1>5, <2>3, <2>5, <2>6 DEF Lead, N
    <1> QED BY <1>6, <1>7 DEF f, t, N

LEMMA LeadOne ==
    ASSUME NEW e, NEW p \in Piece, NEW m \in Nat, NEW b \in Nat, NEW m2 \in Nat, NEW b2 \in Nat
    PROVE  Lead(e, <<p>>, m, b, m2, b2) <=> Leads(e, p, m, b, m2, b2)
    <1> DEFINE q == <<p>>
    <1>1. q \in Seq(Piece) /\ Len(q) = 1 /\ q[1] = p
        OBVIOUS
    <1> HIDE DEF q
    <1>2. ASSUME Lead(e, q, m, b, m2, b2) PROVE Leads(e, p, m, b, m2, b2)
        <2>1. PICK pm, pb : LeadBy(e, q, pm, pb)
                            /\ pm[0] = m /\ pb[0] = b /\ pm[Len(q)] = m2 /\ pb[Len(q)] = b2
            BY <1>2 DEF Lead
        <2>2. Leads(e, q[1], pm[1 - 1], pb[1 - 1], pm[1], pb[1])
            BY <1>1, <2>1 DEF LeadBy
        <2>3. 1 - 1 = 0
            OBVIOUS
        <2> QED BY <1>1, <2>1, <2>2, <2>3
    <1>3. ASSUME Leads(e, p, m, b, m2, b2) PROVE Lead(e, q, m, b, m2, b2)
        <2> DEFINE pm == [i \in 0 .. 1 |-> IF i = 0 THEN m ELSE m2]
                   pb == [i \in 0 .. 1 |-> IF i = 0 THEN b ELSE b2]
        <2>1. /\ pm \in [0 .. 1 -> Nat] /\ pb \in [0 .. 1 -> Nat]
              /\ pm[0] = m /\ pb[0] = b /\ pm[1] = m2 /\ pb[1] = b2
            OBVIOUS
        <2> HIDE DEF pm, pb
        <2>2. \A i \in 1 .. Len(q) : i = 1 /\ i - 1 = 0
            BY <1>1
        <2>3. \A i \in 1 .. Len(q) : Leads(e, q[i], pm[i - 1], pb[i - 1], pm[i], pb[i])
            BY <1>1, <1>3, <2>1, <2>2
        <2>4. LeadBy(e, q, pm, pb)
            BY <1>1, <2>1, <2>3 DEF LeadBy
        <2> QED BY <1>1, <2>1, <2>4 DEF Lead
    <1> QED BY <1>2, <1>3 DEF q

\* A piece that is cut in two leads to the same place.
LEMMA LeadsCut ==
    ASSUME NEW e, NEW p \in Piece, NEW m \in Nat, NEW b \in Nat, NEW m2, NEW b2,
           Leads(e, p, m, b, m2, b2), NEW k \in Nat, k < Len(p.bytes)
    PROVE  LET p1 == [key |-> p.key, eor |-> FALSE, bytes |-> SubSeq(p.bytes, 1, k)]
               p2 == [key |-> p.key, eor |-> p.eor, bytes |-> SubSeq(p.bytes, k + 1, Len(p.bytes))]
           IN  /\ p1 \in Piece /\ Leads(e, p1, m, b, m, b + k)
               /\ p2 \in Piece /\ Leads(e, p2, m, b + k, m2, b2)
    <1> DEFINE n == Len(p.bytes)
               x1 == SubSeq(p.bytes, 1, k)
               x2 == SubSeq(p.bytes, k + 1, n)
               p1 == [key |-> p.key, eor |-> FALSE, bytes |-> x1]
               p2 == [key |-> p.key, eor |-> p.eor, bytes |-> x2]
    <1>1. /\ p.key \in Keys /\ p.eor \in BOOLEAN /\ p.bytes \in Seq(Nat) /\ n \in Nat
          /\ k \in 0 .. n /\ n - k \in Nat /\ b + k \in Nat
        <2>1. p.key \in Keys /\ p.eor \in BOOLEAN /\ p.bytes \in Seq(Nat)
            BY DEF Piece
        <2>2. n \in Nat
            BY <2>1, LenProperties
        <2> HIDE DEF n
        <2>3. k < n
            BY DEF n
        <2> QED BY <2>1, <2>2, <2>3
    <1>2. /\ m < Len(e) /\ p.key = e[m + 1][1] /\ p.bytes = Run(b, n)
          /\ IF p.eor THEN b + n = e[m + 1][2] /\ m2 = m + 1 /\ b2 = 0
             ELSE m2 = m /\ b2 = b + n
        BY DEF Leads
    <1>3. x1 = Run(b, k) /\ x2 = Run(b + k, n - k)
        <2> HIDE DEF n
        <2>1. SubSeq(Run(b, n), 1, k) = Run(b, k) /\ SubSeq(Run(b, n), k + 1, n) = Run(b + k, n - k)
            BY <1>1, RunCut
        <2> QED BY <1>2, <2>1
    <1> HIDE DEF n, x1, x2
    <1>4. /\ x1 \in Seq(Nat) /\ Len(x1) = k /\ x2 \in Seq(Nat) /\ Len(x2) = n - k
        BY <1>1, <1>3, RunProperties
    <1>5. p1 \in Piece /\ Leads(e, p1, m, b, m, b + k)
        BY <1>1, <1>2, <1>3, <1>4 DEF Leads, Piece
    <1>6. (b + k) + (n - k) = b + n
        BY <1>1
    <1>7. p2 \in Piece
        BY <1>1, <1>4 DEF Piece
    <1>8. p2.key = p.key /\ p2.eor = p.eor /\ p2.bytes = x2
        OBVIOUS
    <1> HIDE DEF p2
    <1>9. Leads(e, p2, m, b + k, m2, b2)
        BY <1>1, <1>2, <1>3, <1>4, <1>6, <1>8 DEF Leads
    <1> QED BY <1>5, <1>7, <1>9 DEF p2, x1, x2, n

-----------------------------------------------------------------------------
(* The client. *)

Stages == {"start", "waits", "asks", "done", "stopped", "failed"}

ClientType ==
    [at : Stages, key : Nat, value : Seq(Nat), complete : Seq(Nat \X Seq(Nat))]

\* The client has got m values and the first b bytes of the next one.
ClientAt(e, c, m, b) ==
    /\ c \in ClientType
    /\ m = Len(c.complete) /\ m <= Len(e) /\ b \in Nat
    /\ c.value = Run(0, b)
    /\ \A i \in 1 .. m : c.complete[i] = <<e[i][1], Run(0, e[i][2])>>
    /\ IF c.key = NoKey THEN b = 0 ELSE m < Len(e) /\ c.key = e[m + 1][1]

LEMMA KeysAreNumbers == \A k \in Keys : k \in Nat /\ k # NoKey
    BY SpaceAssumption DEF NoKey

LEMMA TakenType ==
    ASSUME NEW c \in ClientType, NEW p \in Piece
    PROVE  Taken(c, p) \in ClientType
    <1>1. /\ c.at \in Stages /\ c.key \in Nat /\ c.value \in Seq(Nat)
          /\ c.complete \in Seq(Nat \X Seq(Nat))
          /\ p.key \in Nat /\ p.bytes \in Seq(Nat)
        BY KeysAreNumbers DEF ClientType, Piece
    <1>2. c.value \o p.bytes \in Seq(Nat)
        BY <1>1, ConcatProperties
    <1>3. Append(c.complete, <<p.key, c.value \o p.bytes>>) \in Seq(Nat \X Seq(Nat))
        BY <1>1, <1>2, AppendProperties
    <1>4. <<>> \in Seq(Nat) /\ NoKey \in Nat /\ "failed" \in Stages
        BY DEF NoKey, Stages
    <1> QED BY <1>1, <1>2, <1>3, <1>4 DEF Taken, ClientType

\* The client goes where a piece leads.
LEMMA TakenLeads ==
    ASSUME NEW e \in KeysAndSizes, NEW c, NEW m \in Nat, NEW b \in Nat, ClientAt(e, c, m, b),
           NEW p \in Piece, NEW m2 \in Nat, NEW b2 \in Nat, Leads(e, p, m, b, m2, b2)
    PROVE  ClientAt(e, Taken(c, p), m2, b2) /\ Taken(c, p).at = c.at
    <1> DEFINE v == c.value \o p.bytes
               n == Len(p.bytes)
               d == Taken(c, p)
    <1>1. /\ c \in ClientType /\ m = Len(c.complete) /\ m <= Len(e)
          /\ c.value = Run(0, b)
          /\ \A i \in 1 .. m : c.complete[i] = <<e[i][1], Run(0, e[i][2])>>
          /\ IF c.key = NoKey THEN b = 0 ELSE m < Len(e) /\ c.key = e[m + 1][1]
        BY DEF ClientAt
    <1>2. /\ m < Len(e) /\ p.key = e[m + 1][1] /\ p.bytes = Run(b, n)
          /\ IF p.eor THEN b + n = e[m + 1][2] /\ m2 = m + 1 /\ b2 = 0
             ELSE m2 = m /\ b2 = b + n
        BY DEF Leads
    <1>3. /\ c.at \in Stages /\ c.key \in Nat /\ c.complete \in Seq(Nat \X Seq(Nat))
          /\ c.value \in Seq(Nat)
          /\ p.key \in Nat /\ p.key # NoKey /\ n \in Nat
        BY <1>1, LenProperties, KeysAreNumbers DEF ClientType, Piece
    <1>4. v = Run(0, b + n)
        <2>1. Run(0, b) \o Run(0 + b, n) = Run(0, b + n)
            BY <1>3, RunConcat
        <2>2. 0 + b = b
            OBVIOUS
        <2> QED BY <1>1, <1>2, <2>1, <2>2
    <1>5. c.key \in {NoKey, p.key}
        BY <1>1, <1>2
    <1>6. d \in ClientType
        BY <1>1, TakenType
    <1> HIDE DEF v, n
    <1>7. CASE p.eor
        <2>1. d = [c EXCEPT !.key = NoKey, !.value = <<>>,
                            !.complete = Append(@, <<p.key, v>>)]
            BY <1>5, <1>7 DEF Taken, v
        <2>2. /\ d.at = c.at /\ d.key = NoKey /\ d.value = <<>>
              /\ d.complete = Append(c.complete, <<p.key, v>>)
            BY <1>1, <2>1 DEF ClientType
        <2> HIDE DEF d
        <2>3. v \in Seq(Nat) /\ <<p.key, v>> \in Nat \X Seq(Nat)
            <3>1. b + n \in Nat
                BY <1>3
            <3>2. v \in Seq(Nat)
                BY <1>4, <3>1, RunProperties
            <3> QED BY <1>3, <3>2
        <2>4. /\ Len(d.complete) = m + 1
              /\ \A i \in 1 .. m : d.complete[i] = c.complete[i]
              /\ d.complete[m + 1] = <<p.key, v>>
            BY <1>1, <1>3, <2>2, <2>3, AppendProperties
        <2>5. <<p.key, v>> = <<e[m + 1][1], Run(0, e[m + 1][2])>>
            BY <1>2, <1>4, <1>7 DEF n
        <2>6. \A i \in 1 .. m + 1 : d.complete[i] = <<e[i][1], Run(0, e[i][2])>>
            <3>1. \A i \in 1 .. m + 1 : i = m + 1 \/ i \in 1 .. m
                OBVIOUS
            <3> QED BY <1>1, <2>4, <2>5, <3>1
        <2>7. Run(0, 0) = <<>>
            <3>1. Run(0, 0) \in Seq(Nat) /\ Len(Run(0, 0)) = 0
                BY RunProperties
            <3> QED BY <3>1, EmptySeq
        <2>8. m + 1 <= Len(e)
            <3>1. Len(e) \in Nat
                BY LenProperties DEF KeysAndSizes
            <3> QED BY <1>2, <3>1
        <2>9. m2 = m + 1 /\ b2 = 0
            BY <1>2, <1>7
        <2> QED BY <1>6, <2>2, <2>4, <2>6, <2>7, <2>8, <2>9 DEF ClientAt, d
    <1>8. CASE ~p.eor
        <2>1. d = [c EXCEPT !.key = p.key, !.value = v]
            BY <1>5, <1>8 DEF Taken, v
        <2>2. d.at = c.at /\ d.key = p.key /\ d.value = v /\ d.complete = c.complete
            BY <1>1, <2>1 DEF ClientType
        <2>3. m2 = m /\ b2 = b + n
            BY <1>2, <1>8 DEF n
        <2> HIDE DEF d
        <2> QED BY <1>1, <1>2, <1>3, <1>4, <1>6, <2>2, <2>3 DEF ClientAt, d
    <1> QED BY <1>3, <1>7, <1>8 DEF Piece

\* The client goes where the pieces of an answer lead.
LEMMA EntriesLead ==
    ASSUME NEW e \in KeysAndSizes, NEW c, NEW m, NEW b, ClientAt(e, c, m, b),
           NEW q, NEW m2, NEW b2, Lead(e, q, m, b, m2, b2)
    PROVE  ClientAt(e, AfterEntries(c, q), m2, b2) /\ AfterEntries(c, q).at = c.at
    <1>1. PICK pm, pb : LeadBy(e, q, pm, pb)
                        /\ pm[0] = m /\ pb[0] = b /\ pm[Len(q)] = m2 /\ pb[Len(q)] = b2
        BY DEF Lead
    <1>2. /\ q \in Seq(Piece) /\ pm \in [0 .. Len(q) -> Nat] /\ pb \in [0 .. Len(q) -> Nat]
          /\ \A i \in 1 .. Len(q) : Leads(e, q[i], pm[i - 1], pb[i - 1], pm[i], pb[i])
        BY <1>1 DEF LeadBy
    <1>3. Len(q) \in Nat /\ \A i \in 1 .. Len(q) : q[i] \in Piece
        BY <1>2, LenProperties, ElementOfSeq
    <1>4. c \in ClientType
        BY DEF ClientAt
    <1> DEFINE n == Len(q)
               F == [i \in 1 .. n |-> [x \in ClientType |-> Taken(x, q[i])]]
               Is(g) == g = [i \in 0 .. n |-> IF i = 0 THEN c ELSE Taken(g[i - 1], q[i])]
               after == CHOOSE g : Is(g)
    <1>5. AfterEntries(c, q) = after[n]
        BY DEF AfterEntries
    <1>6. F \in StepsOf(n, ClientType)
        BY <1>3, TakenType DEF StepsOf
    <1>7. \A i \in 1 .. n, x \in ClientType : F[i][x] = Taken(x, q[i])
        OBVIOUS
    <1>0. n \in Nat
        BY <1>3
    <1> HIDE DEF F, n
    <1>a. PICK g : MadeBy(g, n, ClientType, c, F)
        BY <1>0, <1>4, <1>6, Recursion
    <1>8. /\ g \in [0 .. n -> ClientType] /\ g[0] = c
          /\ \A i \in 1 .. n : g[i] = F[i][g[i - 1]]
        BY <1>a DEF MadeBy
    <1>9. ASSUME NEW i \in 0 .. n PROVE g[i] = IF i = 0 THEN c ELSE Taken(g[i - 1], q[i])
        <2>1. CASE i = 0
            BY <1>8, <2>1
        <2>2. CASE i # 0
            <3>1. i \in 1 .. n /\ i - 1 \in 0 .. n
                BY <1>3, <2>2 DEF n
            <3> QED BY <1>7, <1>8, <2>2, <3>1
        <2> QED BY <2>1, <2>2
    <1>10. Is(g)
        <2> DEFINE h == [i \in 0 .. n |-> IF i = 0 THEN c ELSE Taken(g[i - 1], q[i])]
        <2>1. g = h
            BY <1>8, <1>9
        <2> QED BY <2>1
    <1>11. Is(after)
        BY <1>10
    <1>12. \A i \in 0 .. n : after[i] = IF i = 0 THEN c ELSE Taken(after[i - 1], q[i])
        BY <1>11
    <1> HIDE DEF after
    <1> DEFINE T == {i \in 0 .. n : ~(ClientAt(e, after[i], pm[i], pb[i]) /\ after[i].at = c.at)}
    <1>13. T = {}
        <2> SUFFICES ASSUME T # {} PROVE FALSE
            OBVIOUS
        <2>1. T \subseteq Nat
            OBVIOUS
        <2>2. PICK i \in T : \A y \in T : i <= y
            BY <2>1, LeastNatural
        <2>3. i # 0
            BY <1>1, <1>3, <1>12, <2>2 DEF n
        <2>4. i \in 1 .. n /\ i - 1 \in 0 .. n /\ i \in 0 .. n /\ ~(i <= i - 1)
            BY <1>3, <2>2, <2>3 DEF n
        <2>5. ClientAt(e, after[i - 1], pm[i - 1], pb[i - 1]) /\ after[i - 1].at = c.at
            BY <2>2, <2>4
        <2>6. /\ pm[i - 1] \in Nat /\ pb[i - 1] \in Nat /\ pm[i] \in Nat /\ pb[i] \in Nat
              /\ q[i] \in Piece /\ Leads(e, q[i], pm[i - 1], pb[i - 1], pm[i], pb[i])
            BY <1>2, <1>3, <2>4 DEF n
        <2>7. after[i] = Taken(after[i - 1], q[i])
            BY <1>12, <2>3, <2>4
        <2> DEFINE d == after[i - 1]
                   p == q[i]
                   x == pm[i]
                   y == pb[i]
        <2>8. ClientAt(e, Taken(d, p), x, y) /\ Taken(d, p).at = d.at
            <3> DEFINE x0 == pm[i - 1]
                       y0 == pb[i - 1]
            <3>1. /\ ClientAt(e, d, x0, y0) /\ Leads(e, p, x0, y0, x, y) /\ p \in Piece
                  /\ x0 \in Nat /\ y0 \in Nat /\ x \in Nat /\ y \in Nat
                BY <2>5, <2>6
            <3> HIDE DEF d, p, x, y, x0, y0
            <3> QED BY <3>1, TakenLeads
        <2> QED BY <2>2, <2>5, <2>7, <2>8
    <1>14. n \in 0 .. n
        BY <1>3 DEF n
    <1> QED BY <1>1, <1>5, <1>13, <1>14 DEF n

-----------------------------------------------------------------------------
(* Sums. *)

LEMMA SumsExist ==
    ASSUME NEW n \in Nat, NEW w \in [1 .. n -> Nat]
    PROVE  \E g : DOMAIN g = 0 .. n /\ g = [i \in 0 .. n |-> IF i = 0 THEN 0 ELSE g[i - 1] + w[i]]
    <1> DEFINE F == [i \in 1 .. n |-> [x \in Nat |-> x + w[i]]]
    <1>1. F \in StepsOf(n, Nat)
        BY DEF StepsOf
    <1>2. \A i \in 1 .. n, x \in Nat : F[i][x] = x + w[i]
        OBVIOUS
    <1> HIDE DEF F
    <1>3. PICK g : MadeBy(g, n, Nat, 0, F)
        BY <1>1, Recursion
    <1>4. g \in [0 .. n -> Nat] /\ g[0] = 0 /\ \A i \in 1 .. n : g[i] = F[i][g[i - 1]]
        BY <1>3 DEF MadeBy
    <1>5. ASSUME NEW i \in 0 .. n PROVE g[i] = IF i = 0 THEN 0 ELSE g[i - 1] + w[i]
        <2>1. CASE i = 0
            BY <1>4, <2>1
        <2>2. CASE i # 0
            <3>1. i \in 1 .. n /\ i - 1 \in 0 .. n
                BY <2>2
            <3> QED BY <1>2, <1>4, <2>2, <3>1
        <2> QED BY <2>1, <2>2
    <1> DEFINE h == [i \in 0 .. n |-> IF i = 0 THEN 0 ELSE g[i - 1] + w[i]]
    <1>6. DOMAIN g = 0 .. n /\ DOMAIN h = 0 .. n /\ g = [i \in 0 .. n |-> g[i]]
        BY <1>4
    <1>7. \A i \in 0 .. n : g[i] = h[i]
        BY <1>5
    <1>8. g = h
        <2> HIDE DEF h
        <2>1. h = [i \in 0 .. n |-> h[i]]
            BY DEF h
        <2> QED BY <1>6, <1>7, <2>1
    <1> QED BY <1>6, <1>8

LEMMA SumsAreNumbers ==
    ASSUME NEW n \in Nat, NEW w \in [1 .. n -> Nat], NEW u, u[0] = 0,
           \A i \in 1 .. n : u[i] = u[i - 1] + w[i]
    PROVE  \A i \in 0 .. n : u[i] \in Nat
    <1> DEFINE T == {i \in 0 .. n : u[i] \notin Nat}
    <1> SUFFICES ASSUME T # {} PROVE FALSE
        OBVIOUS
    <1>1. T \subseteq Nat
        OBVIOUS
    <1>2. PICK i \in T : \A y \in T : i <= y
        BY <1>1, LeastNatural
    <1>3. i \in 1 .. n /\ i - 1 \in 0 .. n /\ ~(i <= i - 1)
        BY <1>2
    <1>4. u[i - 1] \in Nat
        BY <1>2, <1>3
    <1> QED BY <1>2, <1>3, <1>4

LEMMA PartEndsAre ==
    ASSUME NEW cut \in Seq(Nat)
    PROVE  /\ PartEnds(cut)[0] = 0
           /\ \A i \in 1 .. Len(cut) : PartEnds(cut)[i] = PartEnds(cut)[i - 1] + cut[i]
           /\ \A i \in 0 .. Len(cut) : PartEnds(cut)[i] \in Nat
    <1> DEFINE n == Len(cut)
               Is(g) == g = [i \in 0 .. n |-> IF i = 0 THEN 0 ELSE g[i - 1] + cut[i]]
               u == CHOOSE g : Is(g)
    <1>1. n \in Nat /\ cut \in [1 .. n -> Nat]
        BY LenProperties
    <1>2. PartEnds(cut) = u
        BY DEF PartEnds
    <1> HIDE DEF n
    <1>3. \E g : Is(g)
        BY <1>1, SumsExist
    <1>4. Is(u)
        BY <1>3
    <1>5. \A i \in 0 .. n : u[i] = IF i = 0 THEN 0 ELSE u[i - 1] + cut[i]
        BY <1>4
    <1> HIDE DEF u
    <1>6. u[0] = 0 /\ \A i \in 1 .. n : u[i] = u[i - 1] + cut[i]
        BY <1>1, <1>5
    <1>7. \A i \in 0 .. n : u[i] \in Nat
        BY <1>1, <1>6, SumsAreNumbers
    <1> QED BY <1>2, <1>6, <1>7 DEF n

-----------------------------------------------------------------------------
(* The server. *)

\* What is yet to be sent.
RemainingAt(it, part, i) ==
    [key |-> it[i].key, eor |-> it[i].eor, bytes |-> IF i = 1 THEN part ELSE it[i].bytes]
RemainingOf(it, part) == [i \in 1 .. Len(it) |-> RemainingAt(it, part, i)]

LEMMA RemainingPlaces ==
    ASSUME NEW it \in Seq(Piece), NEW part \in Seq(Nat)
    PROVE  /\ RemainingOf(it, part) \in Seq(Piece) /\ Len(RemainingOf(it, part)) = Len(it)
           /\ \A i \in 1 .. Len(it) :
                 /\ it[i] \in Piece
                 /\ RemainingOf(it, part)[i] \in Piece
                 /\ RemainingOf(it, part)[i] = RemainingAt(it, part, i)
    <1> DEFINE n == Len(it)
               r == RemainingOf(it, part)
    <1>1. n \in Nat /\ \A i \in 1 .. n : it[i] \in Piece
        BY LenProperties, ElementOfSeq
    <1>2. \A i \in 1 .. n : it[i].key \in Keys /\ it[i].eor \in BOOLEAN /\ it[i].bytes \in Seq(Nat)
        BY <1>1 DEF Piece
    <1>3. \A i \in 1 .. n : r[i] = RemainingAt(it, part, i)
        BY DEF RemainingOf
    <1>4. \A i \in 1 .. n : RemainingAt(it, part, i) \in Piece
        BY <1>2 DEF Piece, RemainingAt
    <1>5. r \in [1 .. n -> Piece]
        BY <1>4 DEF RemainingOf
    <1>6. r \in Seq(Piece) /\ Len(r) = n
        BY <1>1, <1>5, SeqDef, LenProperties
    <1> QED BY <1>1, <1>3, <1>4, <1>6

LEMMA BytesUsedAre ==
    ASSUME iterator \in Seq(Piece), NEW part \in Seq(Nat)
    PROVE  LET U == BytesUsed(part)
           IN  /\ U[0] = 0
               /\ \A i \in 1 .. Len(iterator) :
                     U[i] = U[i - 1] + EntryBytes + iterator[i].key + Len(PartOf(part, i))
               /\ \A i \in 0 .. Len(iterator) : U[i] \in Nat
    <1> DEFINE n == Len(iterator)
               w == [i \in 1 .. n |-> EntryBytes + iterator[i].key + Len(PartOf(part, i))]
               Is(g) == g = [i \in 0 .. n |->
                                IF i = 0 THEN 0
                                ELSE g[i - 1] + EntryBytes + iterator[i].key + Len(PartOf(part, i))]
               u == CHOOSE g : Is(g)
    <1>1. n \in Nat /\ \A i \in 1 .. n : iterator[i] \in Piece
        BY LenProperties, ElementOfSeq
    <1>2. \A i \in 1 .. n : /\ iterator[i].key \in Nat /\ PartOf(part, i) \in Seq(Nat)
                            /\ Len(PartOf(part, i)) \in Nat
        <2>1. \A i \in 1 .. n : iterator[i].key \in Nat /\ PartOf(part, i) \in Seq(Nat)
            BY <1>1, KeysAreNumbers DEF Piece, PartOf
        <2> QED BY <2>1, LenProperties
    <1>3. BytesUsed(part) = u
        BY DEF BytesUsed
    <1>4. EntryBytes \in Nat
        BY SpaceAssumption
    <1>5. w \in [1 .. n -> Nat]
        BY <1>2, <1>4
    <1>6. \A i \in 1 .. n : w[i] = EntryBytes + iterator[i].key + Len(PartOf(part, i))
        OBVIOUS
    <1> HIDE DEF n, w
    <1>7. PICK g : DOMAIN g = 0 .. n /\ g = [i \in 0 .. n |-> IF i = 0 THEN 0 ELSE g[i - 1] + w[i]]
        BY <1>1, <1>5, SumsExist
    <1>8. g[0] = 0 /\ \A i \in 1 .. n : g[i] = g[i - 1] + w[i]
        BY <1>1, <1>7
    <1>9. \A i \in 0 .. n : g[i] \in Nat
        BY <1>1, <1>5, <1>8, SumsAreNumbers
    <1>10. ASSUME NEW i \in 0 .. n
           PROVE  g[i] = IF i = 0 THEN 0
                         ELSE g[i - 1] + EntryBytes + iterator[i].key + Len(PartOf(part, i))
        <2>1. CASE i = 0
            BY <1>8, <2>1
        <2>2. CASE i # 0
            <3>1. i \in 1 .. n /\ i - 1 \in 0 .. n
                BY <1>1, <2>2
            <3>2. g[i - 1] + w[i] = g[i - 1] + EntryBytes + iterator[i].key + Len(PartOf(part, i))
                <4> DEFINE a == g[i - 1]
                           k == iterator[i].key
                           l == Len(PartOf(part, i))
                <4>1. a \in Nat /\ k \in Nat /\ l \in Nat /\ w[i] = EntryBytes + k + l
                    BY <1>2, <1>6, <1>9, <3>1
                <4> HIDE DEF a, k, l
                <4>2. a + w[i] = a + EntryBytes + k + l
                    BY <1>4, <4>1
                <4> QED BY <4>2 DEF a, k, l
            <3> QED BY <1>8, <2>2, <3>1, <3>2
        <2> QED BY <2>1, <2>2
    <1>11. Is(g)
        BY <1>7, <1>10
    <1>12. Is(u)
        BY <1>11
    <1>13. \A i \in 0 .. n : u[i] = IF i = 0 THEN 0
                                   ELSE u[i - 1] + EntryBytes + iterator[i].key + Len(PartOf(part, i))
        BY <1>12
    <1> HIDE DEF u
    <1>14. /\ u[0] = 0
           /\ \A i \in 1 .. n : u[i] = u[i - 1] + EntryBytes + iterator[i].key + Len(PartOf(part, i))
        BY <1>1, <1>13
    <1> DEFINE T == {i \in 0 .. n : u[i] \notin Nat}
    <1>15. T = {}
        <2> SUFFICES ASSUME T # {} PROVE FALSE
            OBVIOUS
        <2>1. T \subseteq Nat
            OBVIOUS
        <2>2. PICK i \in T : \A y \in T : i <= y
            BY <2>1, LeastNatural
        <2>3. i # 0
            BY <1>14, <2>2
        <2>4. i \in 1 .. n /\ i - 1 \in 0 .. n /\ ~(i <= i - 1)
            BY <1>1, <2>2, <2>3
        <2>5. u[i - 1] \in Nat
            BY <2>2, <2>4
        <2>6. u[i] = u[i - 1] + EntryBytes + iterator[i].key + Len(PartOf(part, i))
            BY <1>14, <2>4
        <2>7. iterator[i].key \in Nat /\ Len(PartOf(part, i)) \in Nat
            BY <1>2, <2>4
        <2>8. u[i] \in Nat
            <3> DEFINE a == u[i - 1]
                       k == iterator[i].key
                       l == Len(PartOf(part, i))
            <3>1. a \in Nat /\ k \in Nat /\ l \in Nat /\ u[i] = a + EntryBytes + k + l
                BY <2>5, <2>6, <2>7
            <3> HIDE DEF a, k, l
            <3> QED BY <1>4, <3>1
        <2> QED BY <2>2, <2>8
    <1> QED BY <1>3, <1>14, <1>15 DEF n

\* A turn of the loop that does not break off sends what fits, the handle included; one
\* that goes on sends its part whole.
LEMMA TurnSends ==
    ASSUME iterator \in Seq(Piece), NEW part \in Seq(Nat), NEW i \in 1 .. Len(iterator),
           ~Breaks(part, i)
    PROVE  LET p == RemainingOf(iterator, part)[i]
               size == part_size(part, i)
               U == BytesUsed(part)
           IN  /\ size \in 0 .. Len(p.bytes)
               /\ U[i - 1] + EntryBytes + iterator[i].key + size + HandleBytes <= Space
               /\ GoesOn(part, i) => EntryFor(part, i) = p /\ U[i] + HandleBytes <= Space
               /\ ~GoesOn(part, i) =>
                     /\ size < Len(p.bytes)
                     /\ EntryFor(part, i)
                           = [key |-> p.key, eor |-> FALSE, bytes |-> SubSeq(p.bytes, 1, size)]
    <1> DEFINE p == RemainingOf(iterator, part)[i]
               U == BytesUsed(part)
               x == PartOf(part, i)
               k == iterator[i].key
               L == Len(x)
               req == EntryBytes + k + HandleBytes
               left == Space - U[i - 1]
               size == part_size(part, i)
    <1>1. /\ iterator[i] \in Piece /\ p \in Piece
          /\ p = [key |-> iterator[i].key, eor |-> iterator[i].eor, bytes |-> x]
        <2>1. iterator[i] \in Piece /\ p \in Piece /\ p = RemainingAt(iterator, part, i)
            BY RemainingPlaces
        <2> QED BY <2>1 DEF PartOf, RemainingAt
    <1>2. p.bytes = x /\ p.key = k /\ p.eor = iterator[i].eor /\ x \in Seq(Nat) /\ k \in Nat
        BY <1>1, KeysAreNumbers DEF Piece
    <1>3. L \in Nat
        BY <1>2, LenProperties
    <1>4. Len(iterator) \in Nat /\ i \in Nat /\ i - 1 \in 0 .. Len(iterator)
        BY LenProperties
    <1>5. U[i - 1] \in Nat /\ U[i] = U[i - 1] + EntryBytes + k + L
        BY <1>4, BytesUsedAre
    <1>6. Space \in Nat /\ EntryBytes \in Nat /\ HandleBytes \in Nat
        BY SpaceAssumption
    <1>7. left > req /\ left \in Int /\ req \in Nat
        <2>1. ~(left <= req)
            BY DEF Breaks, Full, SpaceLeft, bytes_required
        <2> DEFINE u == U[i - 1]
        <2>2. u \in Nat /\ ~(Space - u <= EntryBytes + k + HandleBytes)
            BY <1>5, <2>1
        <2> HIDE DEF u, k
        <2>3. /\ Space - u > EntryBytes + k + HandleBytes /\ Space - u \in Int
              /\ EntryBytes + k + HandleBytes \in Nat
            BY <1>2, <1>6, <2>2
        <2> QED BY <2>3 DEF u
    <1>8. size = Min({left - req, L})
        BY DEF part_size, SpaceLeft, bytes_required
    <1>9. size \in {left - req, L} /\ size <= left - req /\ size <= L
        <2> HIDE DEF left, req, L, size
        <2>1. left - req \in Int /\ L \in Int
            BY <1>3, <1>7
        <2> DEFINE d == left - req
        <2> HIDE DEF d
        <2>2. \E z \in {d, L} : \A y \in {d, L} : z <= y
            BY <2>1 DEF d
        <2>3. Min({d, L}) \in {d, L} /\ \A y \in {d, L} : Min({d, L}) <= y
            BY <2>2 DEF Min
        <2> QED BY <1>8, <2>3 DEF d
    <1>10. size \in 0 .. L
        <2> HIDE DEF left, req, L, size
        <2> QED BY <1>3, <1>7, <1>9
    <1>11. U[i - 1] + EntryBytes + k + size + HandleBytes <= Space
        <2>1. size <= (Space - U[i - 1]) - (EntryBytes + k + HandleBytes)
            BY <1>9
        <2> HIDE DEF k, size, L
        <2>2. size \in Nat
            BY <1>3, <1>10
        <2> DEFINE u == U[i - 1]
        <2>3. u \in Nat /\ size <= (Space - u) - (EntryBytes + k + HandleBytes)
            BY <1>5, <2>1
        <2> HIDE DEF u
        <2>4. u + EntryBytes + k + size + HandleBytes <= Space
            BY <1>2, <1>6, <2>2, <2>3
        <2> QED BY <2>4 DEF u
    <1>12. EntryFor(part, i) = [key |-> k, eor |-> iterator[i].eor /\ size = L,
                                bytes |-> SubSeq(x, 1, size)]
        BY DEF EntryFor, EndOfValue
    <1>13. GoesOn(part, i) <=> size = L
        BY DEF GoesOn
    <1> HIDE DEF x, k, L, size, U, p
    <1>14. ASSUME size = L
           PROVE  EntryFor(part, i) = p /\ U[i] + HandleBytes <= Space
        <2>1. SubSeq(x, 1, L) = x
            BY <1>2, <1>3, SubSeqFull DEF L
        <2>2. iterator[i].eor \in BOOLEAN
            BY <1>1 DEF Piece
        <2>3. p = [key |-> k, eor |-> iterator[i].eor, bytes |-> x]
            BY <1>1 DEF k
        <2>4. EntryFor(part, i) = p
            BY <1>12, <1>14, <2>1, <2>2, <2>3
        <2>5. U[i] + HandleBytes <= Space
            BY <1>2, <1>3, <1>5, <1>6, <1>11, <1>14
        <2> QED BY <2>4, <2>5
    <1>15. ASSUME size # L
           PROVE  /\ size < L
                  /\ EntryFor(part, i) = [key |-> k, eor |-> FALSE, bytes |-> SubSeq(x, 1, size)]
        <2>1. size < L
            BY <1>3, <1>10, <1>15
        <2> QED BY <1>12, <1>15, <2>1
    <1>16. Len(p.bytes) = L
        BY <1>2 DEF L
    <1> QED BY <1>2, <1>10, <1>11, <1>13, <1>14, <1>15, <1>16 DEF size, U, p, k

\* Pieces lead to one of them, through it and on.
LEMMA LeadAt ==
    ASSUME NEW e, NEW q, NEW m, NEW b, NEW m2, NEW b2, Lead(e, q, m, b, m2, b2),
           NEW n \in Nat, n < Len(q)
    PROVE  \E x, y, x2, y2 \in Nat :
              /\ Lead(e, SubSeq(q, 1, n), m, b, x, y)
              /\ Leads(e, q[n + 1], x, y, x2, y2)
              /\ Lead(e, SubSeq(q, n + 2, Len(q)), x2, y2, m2, b2)
    <1> DEFINE N == Len(q)
               r == SubSeq(q, n + 1, N)
               t == SubSeq(q, n + 2, N)
    <1>1. q \in Seq(Piece) /\ N \in Nat
        BY LeadPlaces
    <1>2. n \in 0 .. N /\ n + 1 \in 0 .. N /\ 1 \in 0 .. N - n /\ (n + 1) + 1 = n + 2 /\ n + 1 \in 1 .. N
        <2>1. n < N
            OBVIOUS
        <2> HIDE DEF N
        <2> QED BY <1>1, <2>1
    <1>3. PICK x, y : /\ Lead(e, SubSeq(q, 1, n), m, b, x, y)
                      /\ Lead(e, r, x, y, m2, b2)
        BY <1>2, LeadSplit
    <1>4. r \in Seq(Piece) /\ Len(r) = N - n /\ \A i \in 1 .. N - n : r[i] = q[n + i]
        BY <1>1, <1>2, SubSeqPlaces
    <1>5. t \in Seq(Piece) /\ Len(t) = N - (n + 1) /\ \A i \in 1 .. N - (n + 1) : t[i] = q[(n + 1) + i]
        <2>1. /\ SubSeq(q, (n + 1) + 1, N) \in Seq(Piece)
              /\ Len(SubSeq(q, (n + 1) + 1, N)) = N - (n + 1)
              /\ \A i \in 1 .. N - (n + 1) : SubSeq(q, (n + 1) + 1, N)[i] = q[(n + 1) + i]
            BY <1>1, <1>2, SubSeqPlaces
        <2> QED BY <1>2, <2>1
    <1>a. q[n + 1] \in Piece
        BY <1>1, <1>2, ElementOfSeq
    <1> HIDE DEF N, r, t
    <1> DEFINE f == SubSeq(r, 1, 1)
               u == SubSeq(r, 1 + 1, Len(r))
    <1>6. PICK x2, y2 : Lead(e, f, x, y, x2, y2) /\ Lead(e, u, x2, y2, m2, b2)
        BY <1>2, <1>3, <1>4, LeadSplit
    <1>7. /\ f \in Seq(Piece) /\ Len(f) = 1 /\ \A i \in 1 .. 1 : f[i] = r[i]
          /\ u \in Seq(Piece) /\ Len(u) = (N - n) - 1 /\ \A i \in 1 .. (N - n) - 1 : u[i] = r[1 + i]
        <2>1. 1 \in 0 .. Len(r)
            BY <1>2, <1>4
        <2> QED BY <1>4, <2>1, SubSeqPlaces
    <1> HIDE DEF f, u
    <1>8. f = <<q[n + 1]>>
        <2> DEFINE one == <<q[n + 1]>>
        <2>1. one \in Seq(Piece) /\ Len(one) = 1 /\ one[1] = q[n + 1]
            BY <1>a
        <2> HIDE DEF one
        <2>2. 1 \in 1 .. N - n
            BY <1>1, <1>2
        <2>3. \A i \in 1 .. 1 : i = 1
            OBVIOUS
        <2>4. \A i \in 1 .. 1 : f[i] = one[i]
            BY <1>4, <1>7, <2>1, <2>2, <2>3
        <2>5. f = one
            BY <1>7, <2>1, <2>4, SeqEqual
        <2> QED BY <2>5 DEF one
    <1>9. u = t
        <2>1. (N - n) - 1 = N - (n + 1)
            BY <1>1, <1>2
        <2>2. ASSUME NEW i \in 1 .. N - (n + 1) PROVE u[i] = t[i]
            <3>1. 1 + i \in 1 .. N - n /\ n + (1 + i) = (n + 1) + i
                BY <1>1, <1>2
            <3> QED BY <1>4, <1>5, <1>7, <2>1, <3>1
        <2> QED BY <1>5, <1>7, <2>1, <2>2, SeqEqual
    <1>10. x \in Nat /\ y \in Nat /\ x2 \in Nat /\ y2 \in Nat
        BY <1>3, <1>6, LeadPlaces
    <1>11. Leads(e, q[n + 1], x, y, x2, y2)
        BY <1>6, <1>8, <1>10, <1>a, LeadOne
    <1> QED BY <1>3, <1>6, <1>9, <1>10, <1>11 DEF t, N

\* What remains behind n parts, if v is left of the next one.
LEMMA RestRemains ==
    ASSUME NEW it \in Seq(Piece), NEW part \in Seq(Nat), NEW n \in Nat, n < Len(it),
           NEW v \in Seq(Nat)
    PROVE  LET q == RemainingOf(it, part)
           IN  RemainingOf(SubSeq(it, n + 1, Len(it)), v)
                  = <<[key |-> q[n + 1].key, eor |-> q[n + 1].eor, bytes |-> v]>>
                       \o SubSeq(q, n + 2, Len(q))
    <1> DEFINE q == RemainingOf(it, part)
               N == Len(it)
               s == SubSeq(it, n + 1, N)
               t == SubSeq(q, n + 2, N)
               p == [key |-> q[n + 1].key, eor |-> q[n + 1].eor, bytes |-> v]
               one == <<p>>
               c == one \o t
               r == RemainingOf(s, v)
    <1>0. q \in Seq(Piece) /\ Len(q) = N
        BY RemainingPlaces
    <1>b. \A i \in 1 .. N : q[i] \in Piece /\ q[i] = RemainingAt(it, part, i)
        BY RemainingPlaces
    <1>1. /\ q \in Seq(Piece) /\ Len(q) = N
          /\ \A i \in 1 .. N : q[i] \in Piece
                               /\ q[i] = [key |-> it[i].key, eor |-> it[i].eor,
                                          bytes |-> IF i = 1 THEN part ELSE it[i].bytes]
        BY <1>0, <1>b DEF RemainingAt
    <1>2. N \in Nat /\ n < N
        BY LenProperties
    <1> HIDE DEF N
    <1>3. n \in 0 .. N /\ n + 1 \in 0 .. N /\ (n + 1) + 1 = n + 2 /\ n + 1 \in 1 .. N
        BY <1>2
    <1>4. s \in Seq(Piece) /\ Len(s) = N - n /\ \A i \in 1 .. N - n : s[i] = it[n + i]
        BY <1>3, SubSeqPlaces DEF N
    <1> HIDE DEF q
    <1>5. t \in Seq(Piece) /\ Len(t) = N - (n + 1) /\ \A i \in 1 .. N - (n + 1) : t[i] = q[(n + 1) + i]
        <2>1. /\ SubSeq(q, (n + 1) + 1, N) \in Seq(Piece)
              /\ Len(SubSeq(q, (n + 1) + 1, N)) = N - (n + 1)
              /\ \A i \in 1 .. N - (n + 1) : SubSeq(q, (n + 1) + 1, N)[i] = q[(n + 1) + i]
            BY <1>1, <1>3, SubSeqPlaces
        <2> QED BY <1>3, <2>1
    <1>6. p \in Piece
        BY <1>1, <1>3 DEF Piece
    <1> HIDE DEF s, t, p
    <1>7. one \in Seq(Piece) /\ Len(one) = 1 /\ one[1] = p
        BY <1>6
    <1> HIDE DEF one
    <1>c. r \in Seq(Piece) /\ Len(r) = N - n
        BY <1>4, RemainingPlaces
    <1>d. \A i \in 1 .. N - n : r[i] = RemainingAt(s, v, i)
        BY <1>4, RemainingPlaces
    <1>8. \A i \in 1 .. N - n : r[i] = [key |-> s[i].key, eor |-> s[i].eor,
                                        bytes |-> IF i = 1 THEN v ELSE s[i].bytes]
        BY <1>d DEF RemainingAt
    <1>9. /\ c \in Seq(Piece) /\ Len(c) = Len(one) + Len(t)
          /\ \A i \in 1 .. Len(one) + Len(t) : c[i] = IF i <= Len(one) THEN one[i] ELSE t[i - Len(one)]
        BY <1>5, <1>7, ConcatProperties
    <1> HIDE DEF r, c
    <1>10. Len(one) + Len(t) = N - n
        BY <1>2, <1>5, <1>7
    <1>11. ASSUME NEW i \in 1 .. N - n PROVE r[i] = c[i]
        <2>1. s[i] = it[n + i] /\ n + i \in 1 .. N
            BY <1>2, <1>4
        <2>2. q[n + i].key = it[n + i].key /\ q[n + i].eor = it[n + i].eor
            BY <1>1, <2>1
        <2>3. CASE i = 1
            <3>1. c[1] = p
                <4>1. 1 \in 1 .. Len(one) + Len(t) /\ 1 <= Len(one)
                    BY <1>7, <1>10, <2>3
                <4> QED BY <1>7, <1>9, <4>1
            <3>2. r[1] = [key |-> s[1].key, eor |-> s[1].eor, bytes |-> v]
                BY <1>8, <2>3
            <3> QED BY <2>1, <2>2, <2>3, <3>1, <3>2 DEF p
        <2>4. CASE i # 1
            <3>1. i - 1 \in 1 .. N - (n + 1) /\ ~(i <= 1) /\ (n + 1) + (i - 1) = n + i /\ n + i # 1
                BY <1>2, <2>4
            <3>2. c[i] = t[i - 1] /\ t[i - 1] = q[n + i]
                BY <1>5, <1>7, <1>9, <1>10, <3>1
            <3>3. q[n + i] = [key |-> it[n + i].key, eor |-> it[n + i].eor, bytes |-> it[n + i].bytes]
                BY <1>1, <2>1, <3>1
            <3>4. r[i] = [key |-> it[n + i].key, eor |-> it[n + i].eor, bytes |-> it[n + i].bytes]
                BY <1>8, <2>1, <2>4
            <3> QED BY <3>2, <3>3, <3>4
        <2> QED BY <2>3, <2>4
    <1>12. r = c
        <2>1. Len(r) = Len(c) /\ \A i \in 1 .. Len(r) : r[i] = c[i]
            BY <1>c, <1>9, <1>10, <1>11
        <2> QED BY <1>c, <1>9, <2>1, SeqEqual
    <1> QED BY <1>1, <1>12 DEF r, c, one, p, t, s, q, N

\* An answer and what remains behind it lead where all that remained led; its entries
\* and a handle fit into it.
LEMMA EntriesSent ==
    ASSUME iterator \in Seq(Piece), iterator # <<>>, NEW part \in Seq(Nat),
           NEW n \in 0 .. Len(iterator), fetch_entries(part, n),
           NEW e, NEW m, NEW b, NEW m2, NEW b2, Lead(e, RemainingOf(iterator, part), m, b, m2, b2)
    PROVE  /\ \E x, y : /\ Lead(e, answer'.entries, m, b, x, y)
                        /\ Lead(e, RemainingOf(iterator', value_part'), x, y, m2, b2)
           /\ iterator' \in Seq(Piece) /\ value_part' \in Seq(Nat)
           /\ answer'.handle = (iterator' # <<>>) /\ answer'.used \in Nat
           /\ answer'.used + HandleBytes <= Space
    <1> DEFINE q == RemainingOf(iterator, part)
               N == Len(iterator)
               U == BytesUsed(part)
               last == n = N
               piece == ~last /\ ~Breaks(part, n + 1)
               size == part_size(part, n + 1)
               E(k) == [i \in 1 .. k |-> EntryFor(part, i)]
               rest == SubSeq(iterator, n + 1, N)
               f == SubSeq(q, 1, n)
               k1 == iterator[n + 1].key
    <1>1. /\ \A i \in 1 .. n : GoesOn(part, i)
          /\ ~last => ~GoesOn(part, n + 1)
          /\ answer'.entries = E(IF piece THEN n + 1 ELSE n)
          /\ answer'.used = U[n] + IF piece THEN EntryBytes + k1 + size ELSE 0
          /\ answer'.handle = ~last
          /\ iterator' = rest
          /\ value_part' = IF last THEN <<>>
                           ELSE IF piece THEN Unsent(PartOf(part, n + 1), size)
                           ELSE PartOf(part, n + 1)
        BY DEF fetch_entries
    <1>2. N \in Nat /\ n \in Nat /\ n <= N /\ N # 0 /\ 1 \in 1 .. N
        <2>1. N \in Nat /\ N # 0
            BY LenProperties, EmptySeq
        <2> QED BY <2>1
    <1>3. /\ q \in Seq(Piece) /\ Len(q) = N
          /\ \A i \in 1 .. N : q[i] \in Piece /\ iterator[i] \in Piece
        BY RemainingPlaces
    <1>4. ASSUME NEW i \in 1 .. n PROVE EntryFor(part, i) = q[i] /\ U[i] + HandleBytes <= Space
        <2>1. i \in 1 .. N /\ GoesOn(part, i) /\ ~Breaks(part, i)
            BY <1>1, <1>2 DEF GoesOn
        <2> QED BY <2>1, TurnSends
    <1>5. U[n] \in Nat /\ U[n] + HandleBytes <= Space
        <2>1. n \in 0 .. N
            BY <1>2
        <2>2. U[0] = 0 /\ U[n] \in Nat
            BY <2>1, BytesUsedAre
        <2>3. CASE n = 0
            <3>1. iterator[1].key \in Keys
                BY <1>2, <1>3 DEF Piece
            <3>2. Space > EntryBytes + iterator[1].key + HandleBytes /\ iterator[1].key \in Nat
                BY <3>1, SpaceAssumption, KeysAreNumbers
            <3>3. 0 + HandleBytes <= Space
                BY <3>2, SpaceAssumption
            <3> QED BY <2>2, <2>3, <3>3
        <2>4. CASE n # 0
            <3>1. n \in 1 .. n
                BY <1>2, <2>4
            <3> QED BY <1>4, <2>2, <3>1
        <2> QED BY <2>3, <2>4
    <1>6. f \in Seq(Piece) /\ Len(f) = n /\ \A i \in 1 .. n : f[i] = q[i]
        <2> HIDE DEF q
        <2> QED BY <1>3, SubSeqPlaces
    <1>7. rest \in Seq(Piece) /\ Len(rest) = N - n
        BY SubSeqPlaces
    <1>8. E(n) = f
        <2>1. \A i \in 1 .. n : EntryFor(part, i) = f[i]
            BY <1>4, <1>6
        <2>2. f = [i \in 1 .. n |-> f[i]]
            BY <1>6, LenProperties
        <2> HIDE DEF f
        <2> QED BY <2>1, <2>2
    <1>9. (iterator' # <<>>) = ~last
        <2>1. last <=> Len(rest) = 0
            BY <1>2, <1>7
        <2>2. rest = <<>> <=> Len(rest) = 0
            BY <1>7, EmptySeq
        <2> QED BY <1>1, <2>1, <2>2
    <1>10. CASE last
        <2>1. f = q
            BY <1>3, <1>10, SubSeqFull
        <2>2. answer'.entries = q /\ answer'.used = U[n] /\ value_part' = <<>> /\ iterator' = <<>>
            <3>1. U[n] + 0 = U[n]
                BY <1>5
            <3> QED BY <1>1, <1>8, <1>9, <1>10, <2>1, <3>1
        <2>3. RemainingOf(iterator', value_part') = <<>>
            <3>1. iterator' \in Seq(Piece) /\ value_part' \in Seq(Nat) /\ Len(iterator') = 0
                BY <2>2
            <3>2. /\ RemainingOf(iterator', value_part') \in Seq(Piece)
                  /\ Len(RemainingOf(iterator', value_part')) = 0
                BY <3>1, RemainingPlaces
            <3> QED BY <3>2, EmptySeq
        <2>4. m2 \in Nat /\ b2 \in Nat
            BY LeadPlaces
        <2>5. Lead(e, <<>>, m2, b2, m2, b2)
            BY <2>4, NothingLeads
        <2>6. \E x, y : /\ Lead(e, answer'.entries, m, b, x, y)
                        /\ Lead(e, RemainingOf(iterator', value_part'), x, y, m2, b2)
            BY <2>2, <2>3, <2>5
        <2>7. iterator' \in Seq(Piece) /\ value_part' \in Seq(Nat)
            BY <2>2
        <2> HIDE DEF q, rest, f, U
        <2> QED BY <1>1, <1>5, <1>9, <2>2, <2>6, <2>7
    <1>11. CASE ~last
        <2> DEFINE p == q[n + 1]
                   t == SubSeq(q, n + 2, N)
                   pp(v) == [key |-> p.key, eor |-> p.eor, bytes |-> v]
        <2>1. n < N /\ n + 1 \in 1 .. N
            BY <1>2, <1>11
        <2>2. PICK x \in Nat, y \in Nat, x2 \in Nat, y2 \in Nat :
                  /\ Lead(e, f, m, b, x, y)
                  /\ Leads(e, p, x, y, x2, y2)
                  /\ Lead(e, t, x2, y2, m2, b2)
            BY <1>2, <1>3, <2>1, LeadAt
        <2>3. ASSUME NEW v \in Seq(Nat) PROVE RemainingOf(rest, v) = <<pp(v)>> \o t
            BY <1>2, <1>3, <2>1, RestRemains
        <2>4. p \in Piece /\ p.bytes = PartOf(part, n + 1) /\ p.key = k1 /\ k1 \in Nat
            <3>1. p = RemainingAt(iterator, part, n + 1)
                BY <2>1, RemainingPlaces
            <3>2. p.bytes = PartOf(part, n + 1) /\ p.key = k1
                BY <3>1 DEF RemainingAt, PartOf
            <3> QED BY <1>3, <2>1, <3>2, KeysAreNumbers DEF Piece
        <2>5. p.key \in Keys /\ p.eor \in BOOLEAN /\ p.bytes \in Seq(Nat) /\ Len(p.bytes) \in Nat
            BY <2>4, LenProperties DEF Piece
        <2> HIDE DEF p, t
        <2>6. CASE ~piece
            <3>1. value_part' = p.bytes
                BY <1>1, <1>11, <2>4, <2>6
            <3>2. answer'.entries = f /\ answer'.used = U[n]
                <4>1. U[n] + 0 = U[n]
                    BY <1>5
                <4> QED BY <1>1, <1>8, <2>6, <4>1
            <3>3. pp(p.bytes) = p
                BY <2>4 DEF Piece
            <3>4. RemainingOf(iterator', value_part') = <<p>> \o t
                BY <1>1, <2>3, <2>5, <3>1, <3>3
            <3>5. Lead(e, <<p>>, x, y, x2, y2)
                BY <2>2, <2>4, LeadOne
            <3>6. Lead(e, <<p>> \o t, x, y, m2, b2)
                BY <2>2, <3>5, LeadConcat
            <3> HIDE DEF f, rest, q, U
            <3>7. \E a, c : /\ Lead(e, answer'.entries, m, b, a, c)
                            /\ Lead(e, RemainingOf(iterator', value_part'), a, c, m2, b2)
                BY <2>2, <3>2, <3>4, <3>6
            <3> QED BY <1>1, <1>5, <1>7, <1>9, <2>5, <3>1, <3>2, <3>7
        <2>7. CASE piece
            <3> DEFINE p1 == [key |-> p.key, eor |-> FALSE, bytes |-> SubSeq(p.bytes, 1, size)]
                       v == SubSeq(p.bytes, size + 1, Len(p.bytes))
                       p2 == pp(v)
                       used == U[n] + (EntryBytes + k1 + size)
            <3>0. ~Breaks(part, n + 1) /\ ~GoesOn(part, n + 1) /\ (n + 1) - 1 = n
                BY <1>1, <1>2, <2>7
            <3>1. /\ size \in 0 .. Len(p.bytes)
                  /\ U[(n + 1) - 1] + EntryBytes + k1 + size + HandleBytes <= Space
                  /\ size < Len(p.bytes) /\ EntryFor(part, n + 1) = p1
                BY <2>1, <3>0, TurnSends DEF p
            <3>2. value_part' = v
                BY <1>1, <1>11, <2>4, <2>7 DEF Unsent
            <3>3. size \in Nat
                BY <2>5, <3>1
            <3> HIDE DEF size, k1, U
            <3>4. p1 \in Piece /\ Leads(e, p1, x, y, x, y + size)
                BY <2>2, <2>4, <3>1, <3>3, LeadsCut
            <3>5. p2 \in Piece /\ Leads(e, p2, x, y + size, x2, y2)
                BY <2>2, <2>4, <3>1, <3>3, LeadsCut
            <3>6. v \in Seq(Nat)
                <4>1. p2.bytes \in Seq(Nat)
                    BY <3>5 DEF Piece
                <4> QED BY <4>1
            <3> HIDE DEF p1, v
            <3>7. RemainingOf(iterator', value_part') = <<p2>> \o t
                BY <1>1, <2>3, <3>2, <3>6
            <3> HIDE DEF p2
            <3>8. y + size \in Nat
                BY <3>3
            <3>9. Lead(e, <<p2>> \o t, x, y + size, m2, b2)
                <4>1. Lead(e, <<p2>>, x, y + size, x2, y2)
                    BY <3>5, <3>8, LeadOne
                <4> QED BY <2>2, <4>1, LeadConcat
            <3>10. Lead(e, f \o <<p1>>, m, b, x, y + size)
                <4>1. Lead(e, <<p1>>, x, y, x, y + size)
                    BY <3>4, <3>8, LeadOne
                <4> QED BY <2>2, <4>1, LeadConcat
            <3>11. answer'.entries = f \o <<p1>>
                <4>1. answer'.entries = E(n + 1)
                    BY <1>1, <2>7
                <4> DEFINE one == <<p1>>
                           c == f \o one
                <4>2. one \in Seq(Piece) /\ Len(one) = 1 /\ one[1] = p1
                    BY <3>4
                <4> HIDE DEF f, one
                <4>3. /\ c \in Seq(Piece) /\ Len(c) = n + 1
                      /\ \A i \in 1 .. n + 1 : c[i] = IF i <= n THEN f[i] ELSE one[i - n]
                    <5>1. f \in Seq(Piece) /\ one \in Seq(Piece) /\ Len(f) = n /\ Len(one) = 1
                        BY <1>6, <4>2 DEF f
                    <5>2. /\ c \in Seq(Piece) /\ Len(c) = Len(f) + Len(one)
                          /\ \A i \in 1 .. Len(f) + Len(one) :
                                c[i] = IF i <= Len(f) THEN f[i] ELSE one[i - Len(f)]
                        BY <5>1, ConcatProperties
                    <5> HIDE DEF c
                    <5> QED BY <5>1, <5>2
                <4>4. DOMAIN c = 1 .. n + 1
                    BY <4>3, LenProperties
                <4>5. ASSUME NEW i \in 1 .. n + 1 PROVE EntryFor(part, i) = c[i]
                    <5>1. CASE i <= n
                        <6>1. i \in 1 .. n
                            BY <1>2, <5>1
                        <6> QED BY <1>4, <1>6, <4>3, <5>1, <6>1
                    <5>2. CASE ~(i <= n)
                        <6>1. i = n + 1 /\ i - n = 1
                            BY <1>2, <5>2
                        <6>2. c[i] = one[1]
                            BY <4>3, <5>2, <6>1
                        <6>3. EntryFor(part, i) = p1
                            BY <3>1, <6>1
                        <6> QED BY <4>2, <6>2, <6>3
                    <5> QED BY <5>1, <5>2
                <4>6. c = [i \in 1 .. n + 1 |-> c[i]]
                    <5>1. c \in [1 .. n + 1 -> Piece]
                        BY <4>3, LenProperties
                    <5> QED BY <5>1
                <4> HIDE DEF c
                <4>7. E(n + 1) = c
                    BY <4>5, <4>6
                <4> QED BY <4>1, <4>7 DEF c, one
            <3>12. answer'.used = used
                BY <1>1, <2>7
            <3>13. used \in Nat /\ used + HandleBytes <= Space
                <4>1. U[n] + EntryBytes + k1 + size + HandleBytes <= Space
                    BY <3>0, <3>1
                <4> DEFINE u == U[n]
                <4>2. u \in Nat /\ u + EntryBytes + k1 + size + HandleBytes <= Space
                    BY <1>5, <4>1 DEF U
                <4> HIDE DEF u
                <4>3. EntryBytes \in Nat /\ HandleBytes \in Nat /\ Space \in Nat
                    BY SpaceAssumption
                <4>4. /\ u + (EntryBytes + k1 + size) \in Nat
                      /\ u + (EntryBytes + k1 + size) + HandleBytes <= Space
                    <5>1. k1 \in Nat
                        BY <2>4 DEF k1
                    <5> QED BY <3>3, <4>2, <4>3, <5>1
                <4> QED BY <4>4 DEF u
            <3> HIDE DEF f, rest, q, used
            <3>14. \E a, c : /\ Lead(e, answer'.entries, m, b, a, c)
                             /\ Lead(e, RemainingOf(iterator', value_part'), a, c, m2, b2)
                BY <3>7, <3>9, <3>10, <3>11
            <3> QED BY <1>1, <1>7, <1>9, <3>2, <3>6, <3>12, <3>13, <3>14
        <2> QED BY <2>6, <2>7
    <1> QED BY <1>10, <1>11

-----------------------------------------------------------------------------
(* The iterator at the beginning. *)

\* The parts of a value lead through it.
LEMMA PartsLead ==
    ASSUME NEW e \in KeysAndSizes, NEW m \in Nat, m < Len(e), NEW cut \in Seq(Nat), cut # <<>>,
           e[m + 1][2] = Total(cut), NEW key \in Keys, e[m + 1][1] = key
    PROVE  Lead(e, Parts(key, cut), m, 0, m + 1, 0)
    <1> DEFINE N == Len(cut)
               U == PartEnds(cut)
               q == Parts(key, cut)
               pm == [i \in 0 .. N |-> IF i = N THEN m + 1 ELSE m]
               pb == [i \in 0 .. N |-> IF i = N THEN 0 ELSE U[i]]
    <1>1. N \in Nat /\ N # 0 /\ \A i \in 1 .. N : cut[i] \in Nat
        BY LenProperties, ElementOfSeq, EmptySeq
    <1>2. /\ U[0] = 0 /\ \A i \in 1 .. N : U[i] = U[i - 1] + cut[i]
          /\ \A i \in 0 .. N : U[i] \in Nat
        BY PartEndsAre
    <1>3. Total(cut) = U[N]
        BY DEF Total
    <1>4. \A i \in 1 .. N : q[i] = [key |-> key, eor |-> (i = N), bytes |-> Run(U[i - 1], cut[i])]
        BY DEF Parts, Run
    <1>5. DOMAIN q = 1 .. N /\ q = [i \in 1 .. N |-> q[i]]
        BY DEF Parts
    <1> HIDE DEF q, U, N
    <1>6. ASSUME NEW i \in 1 .. N
          PROVE  /\ q[i] \in Piece /\ q[i].key = key /\ q[i].eor = (i = N)
                 /\ q[i].bytes = Run(U[i - 1], cut[i]) /\ Len(q[i].bytes) = cut[i]
        <2>1. i - 1 \in 0 .. N
            BY <1>1
        <2>2. Run(U[i - 1], cut[i]) \in Seq(Nat) /\ Len(Run(U[i - 1], cut[i])) = cut[i]
            BY <1>1, <1>2, <2>1, RunProperties
        <2>3. q[i] = [key |-> key, eor |-> (i = N), bytes |-> Run(U[i - 1], cut[i])]
            BY <1>4
        <2> QED BY <2>2, <2>3 DEF Piece
    <1>7. q \in Seq(Piece) /\ Len(q) = N
        <2>1. q \in [1 .. N -> Piece]
            BY <1>5, <1>6
        <2> QED BY <1>1, <2>1, SeqDef, LenProperties
    <1>8. /\ pm \in [0 .. N -> Nat] /\ pb \in [0 .. N -> Nat]
          /\ \A i \in 0 .. N : pm[i] = IF i = N THEN m + 1 ELSE m
          /\ \A i \in 0 .. N : pb[i] = IF i = N THEN 0 ELSE U[i]
        BY <1>2
    <1> HIDE DEF pm, pb
    <1>9. ASSUME NEW i \in 1 .. N PROVE Leads(e, q[i], pm[i - 1], pb[i - 1], pm[i], pb[i])
        <2>1. i - 1 \in 0 .. N /\ i - 1 # N /\ i \in 0 .. N
            BY <1>1
        <2>2. pm[i - 1] = m /\ pb[i - 1] = U[i - 1]
            BY <1>8, <2>1
        <2>3. U[i] = U[i - 1] + cut[i] /\ U[i - 1] \in Nat
            BY <1>2, <2>1
        <2>4. CASE i = N
            <3>1. pm[i] = m + 1 /\ pb[i] = 0
                BY <1>8, <2>1, <2>4
            <3>2. U[i - 1] + cut[i] = e[m + 1][2]
                BY <1>3, <2>3, <2>4
            <3>3. q[i].eor /\ q[i].key = key /\ q[i].bytes = Run(U[i - 1], Len(q[i].bytes))
                BY <1>6, <2>4
            <3>4. U[i - 1] + Len(q[i].bytes) = e[m + 1][2]
                BY <1>6, <3>2
            <3> QED BY <2>2, <3>1, <3>3, <3>4 DEF Leads
        <2>5. CASE i # N
            <3>1. pm[i] = m /\ pb[i] = U[i - 1] + cut[i]
                BY <1>8, <2>1, <2>3, <2>5
            <3>3. /\ ~q[i].eor /\ q[i].key = key /\ q[i].bytes = Run(U[i - 1], Len(q[i].bytes))
                  /\ pb[i] = U[i - 1] + Len(q[i].bytes)
                BY <1>6, <2>5, <3>1
            <3> QED BY <2>2, <3>1, <3>3 DEF Leads
        <2> QED BY <2>4, <2>5
    <1>10. LeadBy(e, q, pm, pb)
        BY <1>7, <1>8, <1>9 DEF LeadBy
    <1>11. pm[0] = m /\ pb[0] = 0 /\ pm[N] = m + 1 /\ pb[N] = 0
        <2>1. 0 \in 0 .. N /\ N \in 0 .. N
            BY <1>1
        <2> QED BY <1>1, <1>2, <1>8, <2>1
    <1> QED BY <1>7, <1>10, <1>11 DEF Lead, q

\* The values lead through the range.
LEMMA FlattenLeads ==
    ASSUME NEW e, NEW n \in Nat \ {0}, NEW seqs \in Seq(Seq(Piece)), Len(seqs) = n,
           \A i \in 1 .. n : Lead(e, seqs[i], i - 1, 0, i, 0)
    PROVE  Lead(e, FlattenSeq(seqs), 0, 0, n, 0)
    <1> DEFINE S == Seq(Piece)
               F == [i \in 1 .. n |-> [x \in S |-> x \o seqs[i]]]
               Is(g) == g = [i \in 1 .. n |-> IF i = 1 THEN seqs[i] ELSE g[i - 1] \o seqs[i]]
               flat == CHOOSE g : Is(g)
    <1>1. FlattenSeq(seqs) = flat[n]
        BY DEF FlattenSeq
    <1>2. \A i \in 1 .. n : seqs[i] \in S
        BY ElementOfSeq
    <1>3. F \in StepsOf(n, S)
        <2>1. \A i \in 1 .. n, x \in S : x \o seqs[i] \in S
            BY <1>2, ConcatProperties
        <2> HIDE DEF S
        <2> QED BY <2>1 DEF StepsOf
    <1>4. <<>> \in S
        OBVIOUS
    <1>5. \A i \in 1 .. n, x \in S : F[i][x] = x \o seqs[i]
        OBVIOUS
    <1>6. ASSUME NEW x \in S PROVE <<>> \o x = x
        BY ConcatEmptySeq
    <1> HIDE DEF S, F
    <1>7. PICK h : MadeBy(h, n, S, <<>>, F)
        BY <1>3, <1>4, Recursion
    <1>8. h \in [0 .. n -> S] /\ h[0] = <<>> /\ \A i \in 1 .. n : h[i] = F[i][h[i - 1]]
        BY <1>7 DEF MadeBy
    <1> DEFINE g == [i \in 1 .. n |-> h[i]]
    <1>9. ASSUME NEW i \in 1 .. n
          PROVE  h[i] = IF i = 1 THEN seqs[i] ELSE g[i - 1] \o seqs[i]
        <2>1. i - 1 \in 0 .. n /\ h[i - 1] \in S
            BY <1>8
        <2>2. h[i] = h[i - 1] \o seqs[i]
            BY <1>5, <1>8, <2>1
        <2>3. CASE i = 1
            BY <1>2, <1>6, <1>8, <2>2, <2>3
        <2>4. CASE i # 1
            <3>1. i - 1 \in 1 .. n
                BY <2>4
            <3> QED BY <2>2, <2>4, <3>1
        <2> QED BY <2>3, <2>4
    <1>10. Is(g)
        BY <1>9
    <1> HIDE DEF g
    <1>11. Is(flat)
        BY <1>10
    <1>12. \A i \in 1 .. n : flat[i] = IF i = 1 THEN seqs[i] ELSE flat[i - 1] \o seqs[i]
        BY <1>11
    <1> HIDE DEF flat
    <1> DEFINE T == {i \in 1 .. n : ~Lead(e, flat[i], 0, 0, i, 0)}
    <1>13. T = {}
        <2> SUFFICES ASSUME T # {} PROVE FALSE
            OBVIOUS
        <2>1. T \subseteq Nat
            OBVIOUS
        <2>2. PICK i \in T : \A y \in T : i <= y
            BY <2>1, LeastNatural
        <2>3. Lead(e, seqs[i], i - 1, 0, i, 0)
            BY <2>2
        <2>4. CASE i = 1
            <3>1. flat[i] = seqs[i] /\ i - 1 = 0
                BY <1>12, <2>2, <2>4
            <3> QED BY <2>2, <2>3, <3>1
        <2>5. CASE i # 1
            <3>1. i - 1 \in 1 .. n /\ ~(i <= i - 1)
                BY <2>2, <2>5
            <3>2. Lead(e, flat[i - 1], 0, 0, i - 1, 0)
                BY <2>2, <3>1
            <3>3. Lead(e, flat[i - 1] \o seqs[i], 0, 0, i, 0)
                BY <2>3, <3>2, LeadConcat
            <3>4. flat[i] = flat[i - 1] \o seqs[i]
                BY <1>12, <2>2, <2>5
            <3> QED BY <2>2, <3>3, <3>4
        <2> QED BY <2>4, <2>5
    <1>14. n \in 1 .. n
        OBVIOUS
    <1> QED BY <1>1, <1>13, <1>14

LEMMA CutsAre == \A cut \in Cuts : cut \in Seq(Nat) /\ cut # <<>>
    <1> SUFFICES ASSUME NEW cut \in Cuts PROVE cut \in Seq(Nat) /\ cut # <<>>
        OBVIOUS
    <1>1. CASE cut = <<0>>
        BY <1>1
    <1>2. CASE \E n \in 1 .. MaxParts : cut \in [1 .. n -> 1 .. MaxPart]
        <2>1. PICK n \in 1 .. MaxParts : cut \in [1 .. n -> 1 .. MaxPart]
            BY <1>2
        <2>2. n \in Nat /\ n # 0 /\ cut \in [1 .. n -> Nat]
            BY <2>1, PartsAssumption
        <2>3. cut \in Seq(Nat)
            BY <2>2, SeqDef
        <2>4. Len(cut) = n
            BY <2>2, <2>3, LenProperties
        <2> QED BY <2>2, <2>3, <2>4, EmptySeq
    <1> QED BY <1>1, <1>2 DEF Cuts

-----------------------------------------------------------------------------
(* The invariant of a fetch. *)

\* What is left of the current part, which fetch_data takes from the iterator at first.
LeftOf(at, it, part) == IF at = "start" THEN it[1].bytes ELSE part

\* The client, the answer and what remains lead from each to the next, to the end of
\* the range.
OnTheWay(e, c, entries, it, part) ==
    \E m, b, m2, b2 : /\ ClientAt(e, c, m, b)
                      /\ Lead(e, entries, m, b, m2, b2)
                      /\ Lead(e, RemainingOf(it, LeftOf(c.at, it, part)), m2, b2, Len(e), 0)

FetchInv ==
    /\ expected \in KeysAndSizes
    /\ iterator \in Seq(Piece) /\ value_part \in Seq(Nat)
    /\ client.at \in Stages \ {"failed"}
    /\ answer.used \in Nat
    /\ answer.used + (IF answer.handle THEN HandleBytes ELSE 0) <= Space
    /\ client.at \in {"start", "asks"} => iterator # <<>> /\ answer.entries = <<>>
    /\ client.at = "waits" => answer.handle = (iterator # <<>>)
    /\ client.at = "done" => iterator = <<>> /\ answer.entries = <<>>
    /\ OnTheWay(expected, client, answer.entries, iterator, value_part)

LEMMA FetchStarts == FetchInit => FetchInv
    <1> SUFFICES ASSUME FetchInit PROVE FetchInv
        OBVIOUS
    <1>1. PICK n \in 1 .. Cardinality(Keys) :
            \E keys \in [1 .. n -> Keys], cuts \in [1 .. n -> Cuts] :
                /\ iterator = FlattenSeq([i \in 1 .. n |-> Parts(keys[i], cuts[i])])
                /\ expected = [i \in 1 .. n |-> <<keys[i], Total(cuts[i])>>]
        BY DEF FetchInit
    <1>2. PICK keys \in [1 .. n -> Keys], cuts \in [1 .. n -> Cuts] :
                /\ iterator = FlattenSeq([i \in 1 .. n |-> Parts(keys[i], cuts[i])])
                /\ expected = [i \in 1 .. n |-> <<keys[i], Total(cuts[i])>>]
        BY <1>1
    <1>3. n \in Nat \ {0}
        <2>1. Cardinality(Keys) \in Nat
            BY SpaceAssumption, FS_CardinalityType
        <2> QED BY <2>1
    <1>4. \A i \in 1 .. n : keys[i] \in Keys /\ cuts[i] \in Seq(Nat) /\ cuts[i] # <<>>
        BY CutsAre
    <1>5. \A i \in 1 .. n : Total(cuts[i]) \in Nat
        <2> SUFFICES ASSUME NEW i \in 1 .. n PROVE Total(cuts[i]) \in Nat
            OBVIOUS
        <2>1. cuts[i] \in Seq(Nat)
            BY <1>4
        <2>2. Len(cuts[i]) \in Nat
            BY <2>1, LenProperties
        <2>3. Len(cuts[i]) \in 0 .. Len(cuts[i])
            BY <2>2
        <2> QED BY <2>1, <2>3, PartEndsAre DEF Total
    <1>6. /\ expected \in KeysAndSizes /\ Len(expected) = n
          /\ \A i \in 1 .. n : expected[i][1] = keys[i] /\ expected[i][2] = Total(cuts[i])
        <2>1. \A i \in 1 .. n : <<keys[i], Total(cuts[i])>> \in Keys \X Nat
            BY <1>4, <1>5
        <2>2. expected \in [1 .. n -> Keys \X Nat]
            BY <1>2, <2>1
        <2>3. expected \in KeysAndSizes /\ Len(expected) = n
            BY <1>3, <2>2, SeqDef, LenProperties DEF KeysAndSizes
        <2>4. \A i \in 1 .. n : expected[i] = <<keys[i], Total(cuts[i])>>
            BY <1>2
        <2> QED BY <2>3, <2>4
    <1> DEFINE seqs == [i \in 1 .. n |-> Parts(keys[i], cuts[i])]
               Q == iterator
    <1>7. \A i \in 1 .. n : Lead(expected, seqs[i], i - 1, 0, i, 0)
        <2> SUFFICES ASSUME NEW i \in 1 .. n PROVE Lead(expected, seqs[i], i - 1, 0, i, 0)
            OBVIOUS
        <2>1. i - 1 \in Nat /\ i - 1 < Len(expected) /\ (i - 1) + 1 = i
            BY <1>3, <1>6
        <2>2. Lead(expected, Parts(keys[i], cuts[i]), i - 1, 0, (i - 1) + 1, 0)
            BY <1>4, <1>6, <2>1, PartsLead
        <2> QED BY <2>1, <2>2
    <1>8. seqs \in Seq(Seq(Piece)) /\ Len(seqs) = n
        <2>1. \A i \in 1 .. n : seqs[i] \in Seq(Piece)
            BY <1>7, LeadPlaces
        <2>2. DOMAIN seqs = 1 .. n /\ seqs = [i \in 1 .. n |-> seqs[i]]
            OBVIOUS
        <2> HIDE DEF seqs
        <2>3. seqs \in [1 .. n -> Seq(Piece)]
            BY <2>1, <2>2
        <2> QED BY <1>3, <2>3, SeqDef, LenProperties
    <1>9. iterator = FlattenSeq(seqs)
        BY <1>2
    <1> HIDE DEF seqs
    <1>10. Lead(expected, iterator, 0, 0, n, 0)
        BY <1>3, <1>7, <1>8, <1>9, FlattenLeads
    <1>11. iterator \in Seq(Piece) /\ iterator # <<>>
        <2>1. iterator \in Seq(Piece)
            BY <1>10, LeadPlaces
        <2>2. ASSUME iterator = <<>> PROVE FALSE
            <3>1. Lead(expected, <<>>, 0, 0, n, 0)
                BY <1>10, <2>2
            <3>2. n = 0
                BY <3>1, LeadNothing
            <3> QED BY <1>3, <3>2
        <2> QED BY <2>1, <2>2
    <1>12. RemainingOf(iterator, iterator[1].bytes) = iterator
        <2> DEFINE r == RemainingOf(iterator, iterator[1].bytes)
        <2>1. Len(iterator) \in Nat /\ Len(iterator) # 0
            BY <1>11, LenProperties, EmptySeq
        <2>2. iterator[1] \in Piece
            BY <1>11, <2>1, ElementOfSeq
        <2>3. iterator[1].bytes \in Seq(Nat)
            BY <2>2 DEF Piece
        <2>4. /\ r \in Seq(Piece) /\ Len(r) = Len(iterator)
              /\ \A i \in 1 .. Len(iterator) :
                    iterator[i] \in Piece /\ r[i] = RemainingAt(iterator, iterator[1].bytes, i)
            BY <1>11, <2>3, RemainingPlaces
        <2> HIDE DEF r
        <2>5. ASSUME NEW i \in 1 .. Len(iterator) PROVE r[i] = iterator[i]
            <3>1. r[i] = [key |-> iterator[i].key, eor |-> iterator[i].eor, bytes |-> iterator[i].bytes]
                BY <2>4 DEF RemainingAt
            <3>2. iterator[i] \in Piece
                BY <2>4
            <3>3. iterator[i] = [key |-> iterator[i].key, eor |-> iterator[i].eor,
                                 bytes |-> iterator[i].bytes]
                BY <3>2 DEF Piece
            <3> QED BY <3>1, <3>3
        <2>6. r = iterator
            BY <1>11, <2>4, <2>5, SeqEqual
        <2> QED BY <2>6 DEF r
    <1>13. /\ value_part = <<>> /\ answer = NoAnswer
           /\ client = [at |-> "start", key |-> 0, value |-> <<>>, complete |-> <<>>]
        BY DEF FetchInit
    <1>14. /\ answer.entries = <<>> /\ answer.used = 0 /\ answer.handle = FALSE
           /\ client.at = "start"
        BY <1>13 DEF NoAnswer
    <1>15. ClientAt(expected, client, 0, 0)
        <2>1. client \in ClientType
            BY <1>13 DEF ClientType, Stages
        <2>2. Run(0, 0) = <<>>
            <3>1. Run(0, 0) \in Seq(Nat) /\ Len(Run(0, 0)) = 0
                BY RunProperties
            <3> QED BY <3>1, EmptySeq
        <2>3. /\ client.complete = <<>> /\ client.value = <<>> /\ client.key = NoKey
              /\ Len(<<>>) = 0 /\ 1 .. 0 = {} /\ 0 <= Len(expected)
            BY <1>3, <1>6, <1>13 DEF NoKey
        <2> QED BY <2>1, <2>2, <2>3 DEF ClientAt
    <1>16. Lead(expected, <<>>, 0, 0, 0, 0)
        BY NothingLeads
    <1>17. LeftOf(client.at, iterator, value_part) = iterator[1].bytes
        BY <1>14 DEF LeftOf
    <1>18. OnTheWay(expected, client, answer.entries, iterator, value_part)
        BY <1>6, <1>10, <1>12, <1>14, <1>15, <1>16, <1>17 DEF OnTheWay
    <1>19. 0 <= Space
        BY SpaceAssumption
    <1> QED BY <1>6, <1>11, <1>13, <1>14, <1>18, <1>19 DEF FetchInv, Stages

\* A stage is all that a client changes when it asks for an answer or stops.
LEMMA ClientStage ==
    ASSUME NEW e, NEW c, NEW m, NEW b, ClientAt(e, c, m, b), NEW at \in Stages
    PROVE  ClientAt(e, [c EXCEPT !.at = at], m, b) /\ [c EXCEPT !.at = at].at = at
    <1> DEFINE d == [c EXCEPT !.at = at]
    <1>1. c \in ClientType
        BY DEF ClientAt
    <1>2. /\ d \in ClientType /\ d.at = at /\ d.key = c.key /\ d.value = c.value
          /\ d.complete = c.complete
        BY <1>1 DEF ClientType
    <1> HIDE DEF d
    <1>3. ClientAt(e, d, m, b)
        BY <1>2 DEF ClientAt
    <1> QED BY <1>2, <1>3 DEF d

LEMMA FetchStep == FetchInv /\ [FetchNext]_fetchVars => FetchInv'
    <1> SUFFICES ASSUME FetchInv, [FetchNext]_fetchVars PROVE FetchInv'
        OBVIOUS
    <1>1. /\ expected \in KeysAndSizes
          /\ iterator \in Seq(Piece) /\ value_part \in Seq(Nat)
          /\ client.at \in Stages \ {"failed"}
          /\ answer.used \in Nat
          /\ answer.used + (IF answer.handle THEN HandleBytes ELSE 0) <= Space
          /\ client.at \in {"start", "asks"} => iterator # <<>> /\ answer.entries = <<>>
          /\ client.at = "waits" => answer.handle = (iterator # <<>>)
          /\ client.at = "done" => iterator = <<>> /\ answer.entries = <<>>
          /\ OnTheWay(expected, client, answer.entries, iterator, value_part)
        BY DEF FetchInv
    <1>2. PICK m, b, m2, b2 :
            /\ ClientAt(expected, client, m, b)
            /\ Lead(expected, answer.entries, m, b, m2, b2)
            /\ Lead(expected, RemainingOf(iterator, LeftOf(client.at, iterator, value_part)),
                    m2, b2, Len(expected), 0)
        BY <1>1 DEF OnTheWay
    <1>3. m \in Nat /\ b \in Nat /\ m2 \in Nat /\ b2 \in Nat
        BY <1>2, LeadPlaces
    <1>4. ASSUME NEW first \in BOOLEAN, fetch_data(first) PROVE FetchInv'
        <2> DEFINE part == IF first THEN iterator[1].bytes ELSE value_part
        <2>1. PICK n \in 0 .. Len(iterator) : fetch_entries(part, n)
            BY <1>4 DEF fetch_data
        <2>2. /\ client.at = (IF first THEN "start" ELSE "asks")
              /\ client' = [client EXCEPT !.at = "waits"] /\ expected' = expected
            BY <1>4 DEF fetch_data
        <2>3. part = LeftOf(client.at, iterator, value_part)
            BY <2>2 DEF LeftOf
        <2>4. iterator # <<>> /\ answer.entries = <<>>
            BY <1>1, <2>2
        <2>5. m2 = m /\ b2 = b
            BY <1>2, <2>4, LeadNothing
        <2>6. part \in Seq(Nat)
            <3>1. Len(iterator) \in Nat /\ Len(iterator) # 0
                BY <1>1, <2>4, LenProperties, EmptySeq
            <3>2. iterator[1] \in Piece
                BY <1>1, <3>1, ElementOfSeq
            <3> QED BY <1>1, <3>2 DEF Piece
        <2> HIDE DEF part
        <2>7. Lead(expected, RemainingOf(iterator, part), m, b, Len(expected), 0)
            BY <1>2, <2>3, <2>5
        <2>8. /\ \E x, y : /\ Lead(expected, answer'.entries, m, b, x, y)
                           /\ Lead(expected, RemainingOf(iterator', value_part'),
                                   x, y, Len(expected), 0)
              /\ iterator' \in Seq(Piece) /\ value_part' \in Seq(Nat)
              /\ answer'.handle = (iterator' # <<>>) /\ answer'.used \in Nat
              /\ answer'.used + HandleBytes <= Space
            BY <1>1, <2>1, <2>4, <2>6, <2>7, EntriesSent
        <2>9. "waits" \in Stages
            BY DEF Stages
        <2>10. ClientAt(expected, client', m, b) /\ client'.at = "waits"
            BY <1>2, <2>2, <2>9, ClientStage
        <2>11. LeftOf(client'.at, iterator', value_part') = value_part'
            BY <2>10 DEF LeftOf
        <2>12. OnTheWay(expected', client', answer'.entries, iterator', value_part')
            BY <2>2, <2>8, <2>10, <2>11 DEF OnTheWay
        <2>13. answer'.used + (IF answer'.handle THEN HandleBytes ELSE 0) <= Space
            BY <2>8, SpaceAssumption
        <2> QED BY <1>1, <2>2, <2>8, <2>9, <2>10, <2>12, <2>13 DEF FetchInv
    <1>5. CASE abort_fetch
        <2>1. /\ client.at = "asks" /\ client' = [client EXCEPT !.at = "stopped"]
              /\ UNCHANGED <<iterator, value_part, answer, expected>>
            BY <1>5 DEF abort_fetch
        <2>2. "stopped" \in Stages
            BY DEF Stages
        <2>3. ClientAt(expected, client', m, b) /\ client'.at = "stopped"
            BY <1>2, <2>1, <2>2, ClientStage
        <2>4. LeftOf(client'.at, iterator, value_part) = LeftOf(client.at, iterator, value_part)
            BY <2>1, <2>3 DEF LeftOf
        <2>5. OnTheWay(expected', client', answer'.entries, iterator', value_part')
            BY <1>2, <2>1, <2>3, <2>4 DEF OnTheWay
        <2> QED BY <1>1, <2>1, <2>2, <2>3, <2>5 DEF FetchInv
    <1>6. CASE TakeAnswer
        <2> DEFINE at == IF answer.handle THEN "asks" ELSE "done"
                   c == [client EXCEPT !.at = at]
        <2>1. /\ client.at = "waits" /\ client' = AfterEntries(c, answer.entries)
              /\ answer' = NoAnswer
              /\ UNCHANGED <<iterator, value_part, expected>>
            BY <1>6 DEF TakeAnswer
        <2>2. at \in Stages /\ at # "failed" /\ at # "start" /\ at # "waits"
            BY DEF Stages
        <2>3. ClientAt(expected, c, m, b) /\ c.at = at
            BY <1>2, <2>2, ClientStage
        <2> HIDE DEF c
        <2>4. ClientAt(expected, client', m2, b2) /\ client'.at = at
            <3> DEFINE got == AfterEntries(c, answer.entries)
            <3>1. ClientAt(expected, got, m2, b2) /\ got.at = c.at
                BY <1>1, <1>2, <2>3, EntriesLead
            <3> HIDE DEF got, at
            <3> QED BY <2>1, <2>3, <3>1 DEF got
        <2>5. /\ answer'.entries = <<>> /\ answer'.used = 0 /\ answer'.handle = FALSE
            BY <2>1 DEF NoAnswer
        <2>6. Lead(expected, <<>>, m2, b2, m2, b2)
            BY <1>3, NothingLeads
        <2>7. LeftOf(client'.at, iterator, value_part) = LeftOf(client.at, iterator, value_part)
            BY <2>1, <2>2, <2>4 DEF LeftOf
        <2>8. OnTheWay(expected', client', answer'.entries, iterator', value_part')
            BY <1>2, <2>1, <2>4, <2>5, <2>6, <2>7 DEF OnTheWay
        <2>9. /\ client'.at = "asks" => iterator' # <<>>
              /\ client'.at = "done" => iterator' = <<>>
            BY <1>1, <2>1, <2>4
        <2>10. 0 <= Space
            BY SpaceAssumption
        <2> HIDE DEF at
        <2> QED BY <1>1, <2>1, <2>2, <2>4, <2>5, <2>8, <2>9, <2>10 DEF FetchInv
    <1>7. CASE UNCHANGED fetchVars
        <2>1. UNCHANGED <<iterator, value_part, answer, client, expected>>
            BY <1>7 DEF fetchVars
        <2>2. OnTheWay(expected', client', answer'.entries, iterator', value_part')
            BY <1>1, <2>1
        <2> QED BY <1>1, <2>1, <2>2 DEF FetchInv
    <1> QED BY <1>4, <1>5, <1>6, <1>7 DEF FetchNext

LEMMA FetchInvReassembles == FetchInv => ValuesReassembled
    <1> SUFFICES ASSUME FetchInv PROVE ValuesReassembled
        OBVIOUS
    <1> DEFINE got == client.complete
               whole(v) == [k \in 1 .. v |-> k]
    <1>1. PICK m, b, m2, b2 :
            /\ ClientAt(expected, client, m, b)
            /\ Lead(expected, answer.entries, m, b, m2, b2)
            /\ Lead(expected, RemainingOf(iterator, LeftOf(client.at, iterator, value_part)),
                    m2, b2, Len(expected), 0)
        BY DEF FetchInv, OnTheWay
    <1>2. /\ client \in ClientType
          /\ m = Len(got) /\ m <= Len(expected) /\ b \in Nat
          /\ client.value = Run(0, b)
          /\ \A i \in 1 .. m : got[i] = <<expected[i][1], Run(0, expected[i][2])>>
          /\ IF client.key = NoKey THEN b = 0
             ELSE m < Len(expected) /\ client.key = expected[m + 1][1]
        BY <1>1 DEF ClientAt
    <1>3. \A v \in Nat : Run(0, v) = whole(v)
        BY DEF Run
    <1>4. m \in Nat /\ m2 \in Nat /\ got \in Seq(Nat \X Seq(Nat)) /\ Len(expected) \in Nat
        BY <1>1, <1>2, LeadPlaces, LenProperties DEF ClientType, FetchInv, KeysAndSizes
    <1>5. DOMAIN got = 1 .. m
        BY <1>2, <1>4, LenProperties
    <1>6. ASSUME NEW i \in DOMAIN got PROVE got[i] = <<expected[i][1], whole(expected[i][2])>>
        <2>1. i \in 1 .. m /\ i \in 1 .. Len(expected)
            BY <1>2, <1>4, <1>5
        <2>2. expected[i] \in Keys \X Nat
            BY <2>1, ElementOfSeq DEF FetchInv, KeysAndSizes
        <2>3. expected[i][2] \in Nat
            BY <2>2
        <2> QED BY <1>2, <1>3, <2>1, <2>3
    <1>7. client.value = whole(Len(client.value))
        <2>1. Len(client.value) = b
            BY <1>2, RunProperties
        <2> QED BY <1>2, <1>3, <2>1
    <1>8. ASSUME client.at = "done" PROVE Len(got) = Len(expected) /\ client.key = NoKey
        <2>1. iterator = <<>> /\ answer.entries = <<>> /\ value_part \in Seq(Nat)
            BY <1>8 DEF FetchInv
        <2>2. LeftOf(client.at, iterator, value_part) = value_part
            BY <1>8 DEF LeftOf
        <2>3. RemainingOf(<<>>, value_part) = <<>>
            <3>1. <<>> \in Seq(Piece) /\ Len(<<>>) = 0
                OBVIOUS
            <3>2. /\ RemainingOf(<<>>, value_part) \in Seq(Piece)
                  /\ Len(RemainingOf(<<>>, value_part)) = 0
                BY <2>1, <3>1, RemainingPlaces
            <3> QED BY <3>2, EmptySeq
        <2>4. Len(expected) = m2
            BY <1>1, <2>1, <2>2, <2>3, LeadNothing
        <2>5. m2 = m
            BY <1>1, <2>1, LeadNothing
        <2> QED BY <1>2, <1>4, <2>4, <2>5
    <1>9. /\ client.at # "failed"
          /\ answer.used + (IF answer.handle THEN HandleBytes ELSE 0) <= Space
        BY DEF FetchInv
    <1> QED BY <1>2, <1>6, <1>7, <1>8, <1>9 DEF ValuesReassembled

\* Whatever the sizes of keys, parts and answers, a client of fetch_data puts together the
\* values of the range byte by byte, from pieces that a full answer cuts anywhere, and all
\* of them are there at the end.
THEOREM FetchedValuesReassembled == FetchSpec => []ValuesReassembled
    BY FetchStarts, FetchStep, FetchInvReassembles, PTL DEF FetchSpec

(***************************************************************************)
(* Http                                                                    *)
(***************************************************************************)

(* Lines *)

Text == Seq(Characters)
Texts == Seq(Text)

LEMMA Literals == CR \in Characters /\ LF \in Characters /\ CR # LF
    BY DEF CR, LF, Characters

LEMMA EmptyLineIs ==
    EmptyLine \in Text /\ Len(EmptyLine) = 2 /\ EmptyLine[1] = CR /\ EmptyLine[2] = LF
    <1>1. EmptyLine = <<CR, LF>>
        BY DEF EmptyLine
    <1> QED BY <1>1, Literals DEF Text

LEMMA RequestIs ==
    ASSUME NEW r \in Requests
    PROVE  /\ r \in Texts /\ r # <<>> /\ Len(r) \in Nat /\ Len(r) > 0
           /\ \A i \in 1 .. Len(r) : /\ r[i] \in Text /\ IsLine(r[i])
                                     /\ r[i] = EmptyLine <=> i = Len(r)
    <1>1. /\ r \in Texts /\ r # <<>>
          /\ \A i \in 1 .. Len(r) : IsLine(r[i]) /\ (r[i] = EmptyLine <=> i = Len(r))
        BY RequestsAssumption DEF Texts, Text
    <1>2. Len(r) \in Nat /\ Len(r) > 0
        BY <1>1, LenProperties, EmptySeq DEF Texts
    <1>3. \A i \in 1 .. Len(r) : r[i] \in Text
        BY <1>1, ElementOfSeq DEF Texts
    <1> QED BY <1>1, <1>2, <1>3

\* The last two characters tell whether a line ends.
LEMMA LineEndsIs ==
    ASSUME NEW l \in Text
    PROVE  LineEnds(l) <=> Len(l) > 1 /\ l[Len(l) - 1] = CR /\ l[Len(l)] = LF
    <1> DEFINE n == Len(l)
               t == SubSeq(l, n - 1, n)
    <1>1. n \in Nat
        BY LenProperties DEF Text
    <1>2. CASE ~(n > 1)
        BY <1>2 DEF LineEnds
    <1>3. CASE n > 1
        <2> DEFINE m == n - 2
        <2>1. m \in 0 .. n /\ m + 1 = n - 1 /\ n - m = 2 /\ m + 2 = n
            BY <1>1, <1>3
        <2> HIDE DEF m
        <2>2. /\ SubSeq(l, m + 1, n) \in Text /\ Len(SubSeq(l, m + 1, n)) = n - m
              /\ \A i \in 1 .. n - m : SubSeq(l, m + 1, n)[i] = l[m + i]
            BY <2>1, SubSeqPlaces DEF Text
        <2>3. t \in Text /\ Len(t) = 2 /\ t[1] = l[n - 1] /\ t[2] = l[n]
            BY <2>1, <2>2
        <2> HIDE DEF n, t
        <2>4. t = EmptyLine <=> t[1] = CR /\ t[2] = LF
            <3>1. ASSUME t[1] = CR, t[2] = LF PROVE t = EmptyLine
                <4>1. \A i \in 1 .. 2 : i = 1 \/ i = 2
                    OBVIOUS
                <4>2. \A i \in 1 .. 2 : t[i] = EmptyLine[i]
                    BY <3>1, <4>1, EmptyLineIs
                <4> QED BY <2>3, <4>2, EmptyLineIs, SeqEqual DEF Text
            <3> QED BY <3>1, EmptyLineIs
        <2> QED BY <1>3, <2>3, <2>4 DEF LineEnds, n, t
    <1> QED BY <1>2, <1>3

LEMMA MatchesEnds ==
    ASSUME NEW l, NEW text, Matches(l, text)
    PROVE  LineEnds(l) /\ l # EmptyLine
    BY EmptyLineIs DEF Matches, LineEnds

LEMMA EmptyLineEnds == LineEnds(EmptyLine)
    BY EmptyLineIs, LineEndsIs

\* Where a line is in front, load_line takes it, or, if there is no room for it, what
\* does not end a line.
LEMMA NextLine ==
    ASSUME NEW x \in Text, IsLine(x), NEW rest \in Text, stream = x \o rest,
           Used \in Nat, Used <= HttpBuffer,
           NEW n \in 0 .. Len(stream), load_line(SubSeq(stream, 1, n))
    PROVE  /\ \/ Len(x) <= HttpBuffer - Used /\ SubSeq(stream, 1, n) = x /\ n = Len(x)
              \/ Len(x) > HttpBuffer - Used /\ ~LineEnds(SubSeq(stream, 1, n))
    <1> DEFINE s == x \o rest
               N == Len(x)
               room == HttpBuffer - Used
               line == SubSeq(s, 1, n)
               lengths == {k \in 1 .. Len(s) : LineEnds(SubSeq(s, 1, k))}
    <1>1. N \in Nat /\ Len(rest) \in Nat
        BY LenProperties DEF Text
    <1>2. /\ s \in Text /\ Len(s) = N + Len(rest)
          /\ \A i \in 1 .. N : s[i] = x[i]
        <2>1. /\ s \in Text /\ Len(s) = N + Len(rest)
              /\ \A i \in 1 .. N + Len(rest) : s[i] = IF i <= N THEN x[i] ELSE rest[i - N]
            BY ConcatProperties DEF Text
        <2> HIDE DEF s, N
        <2>2. \A i \in 1 .. N : i \in 1 .. N + Len(rest) /\ i <= N
            BY <1>1
        <2> QED BY <2>1, <2>2
    <1>3. N > 1 /\ \A i \in 1 .. N - 1 : (x[i] = CR /\ x[i + 1] = LF) <=> i = N - 1
        BY DEF IsLine
    <1> HIDE DEF s, N
    <1>4. ASSUME NEW k \in 0 .. Len(s)
          PROVE  /\ SubSeq(s, 1, k) \in Text /\ Len(SubSeq(s, 1, k)) = k
                 /\ \A i \in 1 .. k : SubSeq(s, 1, k)[i] = s[i]
        BY <1>2, SubSeqPlaces DEF Text
    <1>5. ASSUME NEW k \in 1 .. N PROVE LineEnds(SubSeq(s, 1, k)) <=> k = N
        <2> DEFINE l == SubSeq(s, 1, k)
        <2>1. k \in 0 .. Len(s)
            BY <1>1, <1>2
        <2>2. l \in Text /\ Len(l) = k /\ \A i \in 1 .. k : l[i] = s[i]
            BY <1>4, <2>1
        <2> HIDE DEF l
        <2>3. LineEnds(l) <=> k > 1 /\ l[k - 1] = CR /\ l[k] = LF
            BY <2>2, LineEndsIs
        <2>4. CASE k = 1
            BY <1>3, <2>3, <2>4 DEF l
        <2>5. CASE k # 1
            <3>1. k - 1 \in 1 .. N - 1 /\ k - 1 \in 1 .. k /\ k \in 1 .. k /\ k - 1 \in 1 .. N
                  /\ (k - 1) + 1 = k /\ k > 1 /\ (k - 1 = N - 1 <=> k = N)
                BY <1>1, <2>5
            <3>2. l[k - 1] = x[k - 1] /\ l[k] = x[k]
                BY <1>2, <2>2, <3>1
            <3>3. (x[k - 1] = CR /\ x[k] = LF) <=> k = N
                BY <1>3, <3>1
            <3> QED BY <2>3, <3>1, <3>2, <3>3 DEF l
        <2> QED BY <2>4, <2>5
    <1>6. N \in 1 .. N /\ N \in 1 .. Len(s) /\ N \in 0 .. Len(s)
        BY <1>1, <1>2, <1>3
    <1>7. N \in lengths
        BY <1>5, <1>6
    <1>8. \A k \in lengths : k \in Nat /\ N <= k
        <2> SUFFICES ASSUME NEW k \in lengths, ~(N <= k) PROVE FALSE
            BY <1>1, <1>2
        <2>1. k \in 1 .. N /\ k # N
            BY <1>1, <1>2
        <2> QED BY <1>5, <2>1
    <1> HIDE DEF lengths
    <1>9. Min(lengths) = N
        <2>1. \E z \in lengths : \A y \in lengths : z <= y
            BY <1>7, <1>8
        <2>2. Min(lengths) \in lengths /\ \A y \in lengths : Min(lengths) <= y
            BY <2>1 DEF Min
        <2>3. Min(lengths) <= N /\ N <= Min(lengths) /\ Min(lengths) \in Nat
            BY <1>7, <1>8, <2>2
        <2> QED BY <1>1, <2>3
    <1>10. SubSeq(s, 1, N) = x
        <2> DEFINE f == SubSeq(s, 1, N)
        <2>1. f \in Text /\ Len(f) = N /\ \A i \in 1 .. N : f[i] = s[i]
            BY <1>4, <1>6
        <2> HIDE DEF f
        <2>2. Len(x) = N /\ \A i \in 1 .. N : f[i] = x[i]
            BY <1>2, <2>1 DEF N
        <2>3. f = x
            BY <2>1, <2>2, SeqEqual DEF Text
        <2> QED BY <2>3 DEF f
    <1>11. s = stream /\ n \in 0 .. Len(s)
        BY DEF s
    <1>12. line \in Text /\ Len(line) = n
        BY <1>4, <1>11
    <1>13. room \in Int /\ HttpBuffer \in Nat /\ room >= 0
        BY HttpBufferAssumption
    <1>14. \/ room = 0 /\ line = <<>>
           \/ lengths # {} /\ Min(lengths) <= room /\ line = SubSeq(s, 1, Min(lengths))
           \/ (\A k \in lengths : k > room) /\ room > 0 /\ Len(s) >= room /\ line = SubSeq(s, 1, room)
        BY <1>11 DEF load_line, lengths
    <1>15. CASE room = 0 /\ line = <<>>
        <2>1. ~LineEnds(<<>>)
            BY DEF LineEnds
        <2>2. N > room
            BY <1>1, <1>3, <1>15
        <2> QED BY <1>11, <1>15, <2>1, <2>2 DEF N
    <1>16. CASE lengths # {} /\ Min(lengths) <= room /\ line = SubSeq(s, 1, Min(lengths))
        <2>1. N <= room /\ line = x /\ n = N
            BY <1>9, <1>10, <1>12, <1>16 DEF N
        <2> QED BY <1>11, <2>1 DEF N
    <1>17. CASE (\A k \in lengths : k > room) /\ room > 0 /\ Len(s) >= room /\ line = SubSeq(s, 1, room)
        <2> HIDE DEF room
        <2>1. N > room
            BY <1>7, <1>17
        <2>2. room \in 1 .. N /\ room # N
            BY <1>1, <1>13, <1>17, <2>1
        <2>3. ~LineEnds(line)
            BY <1>5, <1>17, <2>2
        <2> QED BY <1>11, <2>1, <2>3 DEF N, room
    <1> QED BY <1>14, <1>15, <1>16, <1>17

(* Answers *)

Bytes == Seq(Nat)
Fill(n, size) == [b \in 1 .. size |-> n]
Served == [lines : Texts, answer : Nat]
Before(s) == SubSeq(s, 1, Len(s) - 1)

LEMMA BytesConcat ==
    ASSUME NEW a \in Bytes, NEW b \in Bytes, NEW c \in Bytes
    PROVE  (a \o b) \o c = a \o (b \o c)
    BY ConcatAssociative, SMTT(30) DEF Bytes

LEMMA BytesType ==
    ASSUME NEW a \in Bytes, NEW b \in Bytes
    PROVE  a \o b \in Bytes
    BY ConcatProperties DEF Bytes

LEMMA FillIs ==
    ASSUME NEW n \in Nat, NEW k \in Nat
    PROVE  Fill(n, k) \in Bytes /\ Len(Fill(n, k)) = k /\ \A b \in 1 .. k : Fill(n, k)[b] = n
    BY DEF Fill, Bytes

LEMMA FillEmpty ==
    ASSUME NEW n \in Nat
    PROVE  Fill(n, 0) = <<>>
    BY FillIs, EmptySeq DEF Bytes

LEMMA FillStep ==
    ASSUME NEW n \in Nat, NEW k \in Nat \ {0}
    PROVE  Fill(n, k) = <<n>> \o Fill(n, k - 1)
    <1> DEFINE f == Fill(n, k)
               g == Fill(n, k - 1)
    <1>1. k \in Nat /\ k - 1 \in Nat
        OBVIOUS
    <1>2. f \in Bytes /\ Len(f) = k /\ \A b \in 1 .. k : f[b] = n
        BY <1>1, FillIs
    <1>3. g \in Bytes /\ Len(g) = k - 1 /\ \A b \in 1 .. k - 1 : g[b] = n
        BY <1>1, FillIs
    <1> HIDE DEF f, g
    <1>4. <<n>> \in Bytes /\ Len(<<n>>) = 1 /\ <<n>>[1] = n
        BY DEF Bytes
    <1> DEFINE one == <<n>>
               c == one \o g
    <1> HIDE DEF one
    <1>5. one \in Bytes /\ Len(one) = 1 /\ one[1] = n
        BY <1>4 DEF one
    <1>6. /\ c \in Bytes /\ Len(c) = Len(one) + Len(g)
          /\ \A i \in 1 .. Len(one) + Len(g) : c[i] = IF i <= Len(one) THEN one[i] ELSE g[i - Len(one)]
        BY <1>3, <1>5, ConcatProperties DEF Bytes
    <1> HIDE DEF c
    <1>7. Len(c) = k
        BY <1>1, <1>3, <1>5, <1>6
    <1>8. ASSUME NEW i \in 1 .. k PROVE c[i] = n
        <2>1. i \in 1 .. Len(one) + Len(g)
            BY <1>1, <1>3, <1>5
        <2>2. CASE i = 1
            <3>1. i <= Len(one)
                BY <1>5, <2>2
            <3> QED BY <1>5, <1>6, <2>1, <2>2, <3>1
        <2>3. CASE i # 1
            <3>1. ~(i <= Len(one)) /\ i - Len(one) \in 1 .. k - 1
                BY <1>1, <1>5, <2>3
            <3> QED BY <1>3, <1>6, <2>1, <3>1
        <2> QED BY <2>2, <2>3
    <1>9. f = c
        BY <1>2, <1>6, <1>7, <1>8, SeqEqual DEF Bytes
    <1> QED BY <1>9 DEF f, c, g, one

Fills(s) == [i \in DOMAIN s |-> Fill(i, s[i].answer)]

LEMMA FillsIs ==
    ASSUME NEW s \in Seq(Served)
    PROVE  /\ Answers(s) = FlattenSeq(Fills(s))
           /\ Fills(s) \in Seq(Bytes) /\ Len(Fills(s)) = Len(s)
           /\ \A i \in 1 .. Len(s) : Fills(s)[i] = Fill(i, s[i].answer) /\ Fill(i, s[i].answer) \in Bytes
    <1>1. Len(s) \in Nat /\ DOMAIN s = 1 .. Len(s) /\ \A i \in 1 .. Len(s) : s[i] \in Served
        BY LenProperties, ElementOfSeq
    <1>2. \A i \in 1 .. Len(s) : i \in Nat /\ s[i].answer \in Nat
        BY <1>1 DEF Served
    <1>3. \A i \in 1 .. Len(s) : Fill(i, s[i].answer) \in Bytes
        BY <1>2, FillIs
    <1>4. Answers(s) = FlattenSeq(Fills(s))
        BY DEF Answers, Fills, Fill
    <1>5. Fills(s) = [i \in 1 .. Len(s) |-> Fill(i, s[i].answer)]
        BY <1>1 DEF Fills
    <1>6. Fills(s) \in Seq(Bytes) /\ Len(Fills(s)) = Len(s)
        BY <1>1, <1>3, <1>5
    <1>7. \A i \in 1 .. Len(s) : Fills(s)[i] = Fill(i, s[i].answer)
        BY <1>5
    <1> QED BY <1>3, <1>4, <1>6, <1>7

LEMMA AnswersType ==
    ASSUME NEW s \in Seq(Served)
    PROVE  Answers(s) \in Bytes
    BY FillsIs, FlattenType DEF Bytes

LEMMA AnswersEmpty == Answers(<<>>) = <<>>
    <1>1. <<>> \in Seq(Served) /\ Len(<<>>) = 0
        BY EmptySeq
    <1>2. Answers(<<>>) = FlattenSeq(Fills(<<>>)) /\ Fills(<<>>) \in Seq(Bytes) /\ Len(Fills(<<>>)) = 0
        BY <1>1, FillsIs
    <1>3. Fills(<<>>) = <<>>
        BY <1>2, EmptySeq
    <1> QED BY <1>2, <1>3, FlattenEmpty

LEMMA AnswersAppend ==
    ASSUME NEW s \in Seq(Served), NEW x \in Served
    PROVE  Answers(Append(s, x)) = Answers(s) \o Fill(Len(s) + 1, x.answer)
    <1> DEFINE t == Append(s, x)
               n == Len(s)
               l == Fill(n + 1, x.answer)
               a == Append(Fills(s), l)
    <1>1. n \in Nat
        BY LenProperties
    <1>2. t \in Seq(Served) /\ Len(t) = n + 1 /\ t[n + 1] = x /\ \A i \in 1 .. n : t[i] = s[i]
        BY AppendProperties
    <1> HIDE DEF t, n
    <1>3. x.answer \in Nat /\ n + 1 \in Nat
        BY <1>1 DEF Served
    <1>4. l \in Bytes
        BY <1>3, FillIs
    <1>5. /\ Answers(s) = FlattenSeq(Fills(s)) /\ Fills(s) \in Seq(Bytes) /\ Len(Fills(s)) = n
          /\ \A i \in 1 .. n : Fills(s)[i] = Fill(i, s[i].answer)
        BY FillsIs DEF n
    <1>6. /\ Answers(t) = FlattenSeq(Fills(t)) /\ Fills(t) \in Seq(Bytes) /\ Len(Fills(t)) = n + 1
          /\ \A i \in 1 .. n + 1 : Fills(t)[i] = Fill(i, t[i].answer)
        BY <1>2, FillsIs
    <1> HIDE DEF l
    <1>7. /\ a \in Seq(Bytes) /\ Len(a) = n + 1 /\ a[n + 1] = l
          /\ \A i \in 1 .. n : a[i] = Fills(s)[i]
        BY <1>4, <1>5, AppendProperties
    <1>8. ASSUME NEW i \in 1 .. n + 1 PROVE Fills(t)[i] = a[i]
        <2>1. CASE i = n + 1
            BY <1>2, <1>6, <1>7, <2>1 DEF l
        <2>2. CASE i # n + 1
            <3>1. i \in 1 .. n
                BY <1>1, <2>2
            <3> QED BY <1>2, <1>5, <1>6, <1>7, <3>1
        <2> QED BY <2>1, <2>2
    <1> HIDE DEF a
    <1>9. Fills(t) = a
        BY <1>6, <1>7, <1>8, SeqEqual
    <1>10. FlattenSeq(a) = FlattenSeq(Fills(s)) \o l
        BY <1>4, <1>5, FlattenAppend DEF Bytes, a
    <1> QED BY <1>5, <1>6, <1>9, <1>10 DEF t, l, n

\* What was served before the last request.
LEMMA BeforeAppend ==
    ASSUME NEW s \in Seq(Served), NEW x \in Served
    PROVE  Before(Append(s, x)) = s
    <1> DEFINE t == Append(s, x)
    <1>1. Len(s) \in Nat
        BY LenProperties
    <1>2. t \in Seq(Served) /\ Len(t) = Len(s) + 1 /\ \A i \in 1 .. Len(s) : t[i] = s[i]
        BY AppendProperties
    <1> HIDE DEF t
    <1>3. Len(t) - 1 = Len(s) /\ Len(s) \in 0 .. Len(t)
        BY <1>1, <1>2
    <1> DEFINE b == SubSeq(t, 1, Len(s))
    <1>4. b \in Seq(Served) /\ Len(b) = Len(s) /\ \A i \in 1 .. Len(s) : b[i] = t[i]
        BY <1>2, <1>3, SubSeqPlaces
    <1>5. b = s
        BY <1>2, <1>4, SeqEqual
    <1> QED BY <1>3, <1>5 DEF Before, t

LEMMA AnswersBefore ==
    ASSUME NEW s \in Seq(Served)
    PROVE  /\ Answers(Before(s)) \in Bytes
           /\ \E w \in Bytes : Answers(s) = Answers(Before(s)) \o w
    <1>1. CASE s = <<>>
        <2>1. Before(<<>>) = <<>>
            BY SubSeqEmpty, EmptySeq DEF Before
        <2>2. <<>> \in Bytes /\ <<>> \o <<>> = <<>>
            BY EmptySeq, ConcatEmptySeq DEF Bytes
        <2> QED BY <1>1, <2>1, <2>2, AnswersEmpty
    <1>2. CASE s # <<>>
        <2>1. PICK t \in Seq(Served), x \in Served : s = Append(t, x)
            BY <1>2, SequenceEmptyOrAppend
        <2>2. Before(s) = t /\ Answers(s) = Answers(t) \o Fill(Len(t) + 1, x.answer)
            BY <2>1, BeforeAppend, AnswersAppend
        <2>3. Len(t) + 1 \in Nat /\ x.answer \in Nat
            BY <2>1, LenProperties DEF Served
        <2>4. Fill(Len(t) + 1, x.answer) \in Bytes
            BY <2>3, FillIs
        <2> QED BY <2>1, <2>2, <2>4, AnswersType
    <1> QED BY <1>1, <1>2

(* Requests *)

LEMMA RequestsAreTexts ==
    /\ \A r \in Requests : r \in Texts
    /\ \A V \in Seq(Requests) : V \in Seq(Texts)
    <1>1. Requests \subseteq Texts
        BY RequestIs
    <1> QED BY <1>1, SeqMonotonic

\* The characters of requests.
Chars(V) == FlattenSeq(FlattenSeq(V))

LEMMA CharsType ==
    ASSUME NEW V \in Seq(Texts)
    PROVE  FlattenSeq(V) \in Texts /\ Chars(V) \in Text
    <1>1. FlattenSeq(V) \in Texts
        BY FlattenType DEF Texts
    <1> QED BY <1>1, FlattenType DEF Texts, Text, Chars

LEMMA CharsAppend ==
    ASSUME NEW V \in Seq(Texts), NEW r \in Texts
    PROVE  Chars(Append(V, r)) = Chars(V) \o FlattenSeq(r)
    <1>1. FlattenSeq(Append(V, r)) = FlattenSeq(V) \o r
        BY FlattenAppend DEF Texts
    <1>2. FlattenSeq(V) \in Texts
        BY CharsType
    <1>3. FlattenSeq(FlattenSeq(V) \o r) = FlattenSeq(FlattenSeq(V)) \o FlattenSeq(r)
        BY <1>2, FlattenConcat DEF Texts, Text
    <1> QED BY <1>1, <1>3 DEF Chars

LEMMA CharsCons ==
    ASSUME NEW V \in Seq(Texts), NEW r \in Texts
    PROVE  Chars(<<r>> \o V) = FlattenSeq(r) \o Chars(V)
    <1>1. <<r>> \in Seq(Texts)
        OBVIOUS
    <1>2. FlattenSeq(<<r>> \o V) = FlattenSeq(<<r>>) \o FlattenSeq(V)
        BY <1>1, FlattenConcat DEF Texts
    <1>3. FlattenSeq(<<r>>) = r
        BY FlattenOne DEF Texts
    <1>4. FlattenSeq(V) \in Texts
        BY CharsType
    <1>5. FlattenSeq(r \o FlattenSeq(V)) = FlattenSeq(r) \o FlattenSeq(FlattenSeq(V))
        BY <1>4, FlattenConcat DEF Texts, Text
    <1> QED BY <1>2, <1>3, <1>5 DEF Chars

LEMMA CharsEmpty == Chars(<<>>) = <<>>
    BY FlattenEmpty DEF Chars

\* s is what the worker, with these lines, did not read of the requests T: the rest
\* of the first one, and the others.
Unread(s, lines, T) ==
    \/ T = <<>> /\ lines = <<>> /\ s = <<>>
    \/ \E t \in Requests, V \in Seq(Requests), u \in Texts :
          /\ T = <<t>> \o V /\ t = lines \o u /\ u # <<>>
          /\ s = FlattenSeq(u) \o Chars(V)

LEMMA UnreadAll ==
    ASSUME NEW T \in Seq(Requests)
    PROVE  Unread(Chars(T), <<>>, T)
    <1>1. CASE T = <<>>
        BY <1>1, CharsEmpty DEF Unread
    <1>2. CASE T # <<>>
        <2> DEFINE t == Head(T)
                   V == Tail(T)
        <2>1. t \in Requests /\ V \in Seq(Requests) /\ T = <<t>> \o V
            BY <1>2, HeadTailProperties, HeadTailCons
        <2> HIDE DEF t, V
        <2>2. t \in Texts /\ t # <<>> /\ V \in Seq(Texts)
            BY <2>1, RequestIs, RequestsAreTexts
        <2>3. t = <<>> \o t
            BY <2>2, ConcatEmptySeq DEF Texts
        <2>4. Chars(T) = FlattenSeq(t) \o Chars(V)
            BY <2>1, <2>2, CharsCons
        <2> QED BY <2>1, <2>2, <2>3, <2>4 DEF Unread
    <1> QED BY <1>1, <1>2

LEMMA UnreadSend ==
    ASSUME NEW T \in Seq(Requests), NEW s, NEW lines, Unread(s, lines, T), NEW r \in Requests
    PROVE  Unread(s \o FlattenSeq(r), lines, Append(T, r))
    <1>1. CASE T = <<>> /\ lines = <<>> /\ s = <<>>
        <2>1. r \in Texts
            BY RequestsAreTexts
        <2>2. FlattenSeq(r) \in Text
            BY <2>1, FlattenType DEF Texts, Text
        <2>3. <<>> \in Seq(Texts) /\ Append(<<>>, r) \in Seq(Requests)
            OBVIOUS
        <2>4. Chars(Append(<<>>, r)) = <<>> \o FlattenSeq(r)
            BY <2>1, <2>3, CharsAppend, CharsEmpty
        <2> QED BY <1>1, <2>3, <2>4, UnreadAll
    <1>2. CASE \E t \in Requests, V \in Seq(Requests), u \in Texts :
                  /\ T = <<t>> \o V /\ t = lines \o u /\ u # <<>>
                  /\ s = FlattenSeq(u) \o Chars(V)
        <2>1. PICK t \in Requests, V \in Seq(Requests), u \in Texts :
                  /\ T = <<t>> \o V /\ t = lines \o u /\ u # <<>>
                  /\ s = FlattenSeq(u) \o Chars(V)
            BY <1>2
        <2>2. r \in Texts /\ V \in Seq(Texts)
            BY RequestsAreTexts
        <2>3. Append(V, r) \in Seq(Requests) /\ Append(V, r) = V \o <<r>>
            BY AppendProperties, AppendIsConcat
        <2>4. Append(T, r) = T \o <<r>> /\ <<t>> \in Seq(Requests) /\ <<r>> \in Seq(Requests)
            BY AppendIsConcat
        <2>5. Append(T, r) = <<t>> \o Append(V, r)
            <3>1. (<<t>> \o V) \o <<r>> = <<t>> \o (V \o <<r>>)
                BY <2>4, ConcatAssociative, SMTT(30)
            <3> QED BY <2>1, <2>3, <2>4, <3>1
        <2>6. Chars(Append(V, r)) = Chars(V) \o FlattenSeq(r)
            BY <2>2, CharsAppend
        <2>7. FlattenSeq(u) \in Text /\ Chars(V) \in Text /\ FlattenSeq(r) \in Text
            BY <2>2, FlattenType, CharsType DEF Texts, Text
        <2>8. s \o FlattenSeq(r) = FlattenSeq(u) \o Chars(Append(V, r))
            <3> DEFINE a == FlattenSeq(u)
                       b == Chars(V)
                       c == FlattenSeq(r)
            <3>1. a \in Text /\ b \in Text /\ c \in Text
                BY <2>7
            <3> HIDE DEF a, b, c
            <3>2. (a \o b) \o c = a \o (b \o c)
                BY <3>1, ConcatAssociative, SMTT(30) DEF Text
            <3> QED BY <2>1, <2>6, <3>2 DEF a, b, c
        <2> QED BY <2>1, <2>3, <2>5, <2>8 DEF Unread
    <1> QED BY <1>1, <1>2 DEF Unread

\* The line at the front of what is unread.
LEMMA FirstUnread ==
    ASSUME NEW t \in Requests, NEW lines \in Texts, NEW u \in Texts, t = lines \o u, u # <<>>
    PROVE  LET x == Head(u)
               v == Tail(u)
               k == Len(lines)
           IN  /\ x \in Text /\ v \in Texts /\ IsLine(x) /\ k \in Nat
               /\ t = Append(lines, x) \o v
               /\ FlattenSeq(u) = x \o FlattenSeq(v)
               /\ FlattenSeq(t) = FlattenSeq(Append(lines, x)) \o FlattenSeq(v)
               /\ FlattenSeq(Append(lines, x)) = FlattenSeq(lines) \o x
               /\ k + 1 \in 1 .. Len(t) /\ t[k + 1] = x /\ \A i \in 1 .. k : t[i] = lines[i]
               /\ x = EmptyLine <=> v = <<>>
               /\ x = EmptyLine <=> k + 1 = Len(t)
    <1> DEFINE x == Head(u)
               v == Tail(u)
               k == Len(lines)
    <1>1. x \in Text /\ v \in Texts /\ u = <<x>> \o v /\ <<x>> \in Texts /\ Len(v) = Len(u) - 1 /\ x = u[1]
        BY HeadTailProperties, HeadTailCons DEF Texts
    <1>2. k \in Nat /\ Len(u) \in Nat \ {0} /\ Len(v) \in Nat
        BY <1>1, LenProperties, EmptySeq DEF Texts
    <1>3. /\ Len(t) = k + Len(u)
          /\ \A i \in 1 .. k + Len(u) : t[i] = IF i <= k THEN lines[i] ELSE u[i - k]
        BY ConcatProperties DEF Texts
    <1>4. Append(lines, x) = lines \o <<x>>
        BY <1>1, AppendIsConcat DEF Texts
    <1> HIDE DEF x, v, k
    <1>5. t = Append(lines, x) \o v
        <2>1. (lines \o <<x>>) \o v = lines \o (<<x>> \o v)
            BY <1>1, ConcatAssociative, SMTT(30) DEF Texts
        <2> QED BY <1>1, <1>4, <2>1
    <1>6. Append(lines, x) \in Texts
        BY <1>1, AppendProperties DEF Texts
    <1>7. FlattenSeq(u) = x \o FlattenSeq(v)
        <2>1. FlattenSeq(<<x>> \o v) = FlattenSeq(<<x>>) \o FlattenSeq(v)
            BY <1>1, FlattenConcat DEF Texts, Text
        <2>2. FlattenSeq(<<x>>) = x
            BY <1>1, FlattenOne DEF Text
        <2> QED BY <1>1, <2>1, <2>2
    <1>8. FlattenSeq(t) = FlattenSeq(Append(lines, x)) \o FlattenSeq(v)
        BY <1>1, <1>5, <1>6, FlattenConcat DEF Texts, Text
    <1>9. FlattenSeq(Append(lines, x)) = FlattenSeq(lines) \o x
        BY <1>1, FlattenAppend DEF Texts, Text
    <1>10. k + 1 \in 1 .. Len(t) /\ t[k + 1] = x
        <2>1. k + 1 \in 1 .. k + Len(u) /\ ~(k + 1 <= k) /\ (k + 1) - k = 1
            BY <1>2
        <2>2. t[k + 1] = u[(k + 1) - k]
            BY <1>3, <2>1
        <2> QED BY <1>1, <1>3, <2>1, <2>2
    <1>11. \A i \in 1 .. k : t[i] = lines[i]
        <2>1. \A i \in 1 .. k : i \in 1 .. k + Len(u) /\ i <= k
            BY <1>2
        <2> QED BY <1>3, <2>1
    <1>12. IsLine(x) /\ (x = EmptyLine <=> k + 1 = Len(t))
        BY <1>10, RequestIs
    <1>13. k + 1 = Len(t) <=> Len(v) = 0
        BY <1>1, <1>2, <1>3
    <1>14. Len(v) = 0 <=> v = <<>>
        BY <1>1, EmptySeq DEF Texts
    <1> QED BY <1>1, <1>2, <1>5, <1>7, <1>8, <1>9, <1>10, <1>11, <1>12, <1>13, <1>14 DEF x, v, k

LineKind(i) == IF i = 1 THEN "request" ELSE "header"

HttpTypes ==
    /\ stream \in Text
    /\ http_client \in [open : BOOLEAN, got : Bytes]
    /\ worker \in [at : {"parses", "serves", "bad request", "error", "closed", "aborted"},
                   lines : Texts, out : Bytes, left : Nat]
    /\ http_sent \in Seq(Requests)
    /\ served \in Seq(Served)

\* The lines that were read are good ones, and there was room for them.
LinesRead ==
    /\ \A i \in 1 .. Len(worker.lines) : Matches(worker.lines[i], LineKind(i))
    /\ Len(FlattenSeq(worker.lines)) <= HttpBuffer

\* The requests that were sent are those that were served, and others, of which
\* there is one if a request was found bad; the stream holds what the worker did
\* not read of them.
RequestsInOrder ==
    \E P \in Seq(Requests), T \in Seq(Requests) :
        /\ http_sent = P \o T /\ Len(P) = Len(served)
        /\ \A i \in 1 .. Len(P) : served[i].lines = P[i] /\ WellFormed(P[i])
        /\ worker.at = "bad request" => T # <<>> /\ ~WellFormed(T[1])
        /\ worker.at \in {"parses", "serves"} => Unread(stream, worker.lines, T)
        /\ worker.at = "serves" => worker.lines = <<>>

\* What load_line takes is the last line of a request, with which that is well
\* formed, or a good line before it, or neither, and then the request is not.
LEMMA AfterLine ==
    ASSUME HttpTypes, LinesRead, NEW T \in Seq(Requests),
           Unread(stream, worker.lines, T),
           NEW n \in 0 .. Len(stream), load_line(SubSeq(stream, 1, n))
    PROVE  LET line == SubSeq(stream, 1, n)
               rest == SubSeq(stream, n + 1, Len(stream))
               ended == worker.lines # <<>> /\ line = EmptyLine
           IN  \E t \in Requests, V \in Seq(Requests) :
                  /\ T = <<t>> \o V
                  /\ rest \in Text /\ line \in Text
                  /\ \/ /\ ended /\ Append(worker.lines, line) = t /\ WellFormed(t)
                        /\ rest = Chars(V)
                     \/ /\ ~ended /\ LineOk(line) /\ Unread(rest, Append(worker.lines, line), T)
                        /\ Len(FlattenSeq(Append(worker.lines, line))) <= HttpBuffer
                     \/ ~ended /\ ~LineOk(line) /\ ~WellFormed(t)
    <1> DEFINE line == SubSeq(stream, 1, n)
               rest == SubSeq(stream, n + 1, Len(stream))
               lines == worker.lines
               ended == lines # <<>> /\ line = EmptyLine
    <1>1. stream \in Text /\ lines \in Texts
        BY DEF HttpTypes
    <1>2. line \in Text /\ rest \in Text
        BY <1>1, SubSeqPlaces DEF Text
    <1>3. Used = Len(FlattenSeq(lines)) /\ FlattenSeq(lines) \in Text
        BY <1>1, FlattenType DEF Used, Texts, Text
    <1>4. Used \in Nat /\ Used <= HttpBuffer /\ HttpBuffer \in Nat \ {0}
        BY <1>3, LenProperties, HttpBufferAssumption DEF LinesRead, Text
    <1>5. ~(T = <<>> /\ lines = <<>> /\ stream = <<>>)
        <2> SUFFICES ASSUME lines = <<>>, stream = <<>> PROVE FALSE
            OBVIOUS
        <2>1. Used = 0 /\ Len(stream) = 0
            BY <1>3, FlattenEmpty, EmptySeq
        <2>2. {k \in 1 .. Len(stream) : LineEnds(SubSeq(stream, 1, k))} = {}
            BY <2>1
        <2> QED BY <1>4, <2>1, <2>2 DEF load_line
    <1>6. PICK t \in Requests, V \in Seq(Requests), u \in Texts :
              /\ T = <<t>> \o V /\ t = lines \o u /\ u # <<>>
              /\ stream = FlattenSeq(u) \o Chars(V)
        BY <1>5 DEF Unread
    <1> DEFINE x == Head(u)
               v == Tail(u)
               k == Len(lines)
    <1>7. /\ x \in Text /\ v \in Texts /\ IsLine(x) /\ k \in Nat
          /\ t = Append(lines, x) \o v
          /\ FlattenSeq(u) = x \o FlattenSeq(v)
          /\ FlattenSeq(t) = FlattenSeq(Append(lines, x)) \o FlattenSeq(v)
          /\ FlattenSeq(Append(lines, x)) = FlattenSeq(lines) \o x
          /\ k + 1 \in 1 .. Len(t) /\ t[k + 1] = x /\ \A i \in 1 .. k : t[i] = lines[i]
          /\ x = EmptyLine <=> v = <<>>
          /\ x = EmptyLine <=> k + 1 = Len(t)
        BY <1>1, <1>6, FirstUnread
    <1> HIDE DEF x, v
    <1>8. V \in Seq(Texts) /\ Chars(V) \in Text /\ FlattenSeq(v) \in Text
        BY <1>7, RequestsAreTexts, CharsType, FlattenType DEF Texts, Text
    <1> DEFINE y == FlattenSeq(v) \o Chars(V)
    <1>9. y \in Text /\ stream = x \o y
        <2>1. (x \o FlattenSeq(v)) \o Chars(V) = x \o (FlattenSeq(v) \o Chars(V))
            <3> DEFINE f == FlattenSeq(v)
                       c == Chars(V)
            <3>1. x \in Text /\ f \in Text /\ c \in Text
                BY <1>7, <1>8
            <3> HIDE DEF f, c
            <3>2. (x \o f) \o c = x \o (f \o c)
                BY <3>1, ConcatAssociative, SMTT(30) DEF Text
            <3> QED BY <3>2 DEF f, c
        <2>2. y \in Text
            BY <1>8, ConcatProperties DEF Text
        <2> QED BY <1>6, <1>7, <2>1, <2>2
    <1> HIDE DEF y
    <1>10. \/ Len(x) <= HttpBuffer - Used /\ line = x /\ n = Len(x)
           \/ Len(x) > HttpBuffer - Used /\ ~LineEnds(line)
        BY <1>4, <1>7, <1>9, NextLine
    <1>11. Len(x) \in Nat /\ Len(FlattenSeq(v)) \in Nat
        BY <1>7, <1>8, LenProperties DEF Text
    <1>12. /\ Len(FlattenSeq(Append(lines, x))) = Used + Len(x)
           /\ Len(FlattenSeq(t)) = (Used + Len(x)) + Len(FlattenSeq(v))
        <2>1. Len(FlattenSeq(lines) \o x) = Len(FlattenSeq(lines)) + Len(x) /\ FlattenSeq(lines) \o x \in Text
            BY <1>3, <1>7, ConcatProperties DEF Text
        <2>2. Len((FlattenSeq(lines) \o x) \o FlattenSeq(v)) = Len(FlattenSeq(lines) \o x) + Len(FlattenSeq(v))
            BY <1>8, <2>1, ConcatProperties DEF Text
        <2> QED BY <1>3, <1>7, <2>1, <2>2
    <1>13. lines = <<>> <=> k = 0
        BY <1>1, EmptySeq DEF Texts
    <1>14. LineOk(line) <=> Matches(line, LineKind(k + 1))
        <2>1. lines = <<>> <=> k + 1 = 1
            BY <1>7, <1>13
        <2> QED BY <2>1 DEF LineOk, LineKind
    <1>15. t \in Texts /\ Len(t) \in Nat /\ Len(t) > 0 /\ t # <<>>
        BY RequestIs
    <1>16. Head(t) = t[1] /\ Last(t) = t[Len(t)]
        BY <1>15, HeadTailCons DEF Texts, Last
    <1>17. CASE Len(x) > HttpBuffer - Used /\ ~LineEnds(line)
        <2>1. ~ended
            BY <1>17, EmptyLineEnds
        <2>2. ~LineOk(line)
            BY <1>14, <1>17, MatchesEnds
        <2>3. ~(Len(FlattenSeq(t)) <= HttpBuffer)
            BY <1>4, <1>11, <1>12, <1>17
        <2>4. ~WellFormed(t)
            BY <2>3 DEF WellFormed
        <2> QED BY <1>2, <1>6, <2>1, <2>2, <2>4
    <1>18. CASE Len(x) <= HttpBuffer - Used /\ line = x /\ n = Len(x)
        <2>1. rest = y
            BY <1>7, <1>9, <1>18, RestOfConcat DEF Text
        <2>2. Len(FlattenSeq(Append(lines, line))) <= HttpBuffer
            <3>1. Len(FlattenSeq(Append(lines, x))) <= HttpBuffer
                BY <1>4, <1>11, <1>12, <1>18
            <3> QED BY <1>18, <3>1
        <2>3. CASE ended
            <3>1. v = <<>> /\ k + 1 = Len(t) /\ lines # <<>> /\ k > 0
                <4>1. x = EmptyLine /\ lines # <<>>
                    BY <1>18, <2>3
                <4>2. k \in Nat /\ k # 0
                    BY <1>7, <1>13, <4>1
                <4> QED BY <1>7, <4>1, <4>2
            <3>2. Append(lines, line) = t
                <4>1. Append(lines, x) \in Texts
                    BY <1>1, <1>7, AppendProperties DEF Texts
                <4> QED BY <1>7, <1>18, <3>1, <4>1, ConcatEmptySeq DEF Texts
            <3>3. rest = Chars(V)
                BY <1>8, <2>1, <3>1, FlattenEmpty, ConcatEmptySeq DEF y, Text
            <3>4. WellFormed(t)
                <4>1. Len(FlattenSeq(t)) <= HttpBuffer
                    BY <2>2, <3>2
                <4>2. Matches(Head(t), "request")
                    <5>1. 1 \in 1 .. k
                        BY <1>7, <3>1
                    <5>2. t[1] = lines[1] /\ Matches(lines[1], LineKind(1))
                        BY <1>7, <5>1 DEF LinesRead
                    <5> QED BY <1>16, <5>2 DEF LineKind
                <4>3. Last(t) = EmptyLine
                    BY <1>7, <1>16, <2>3, <1>18, <3>1
                <4>4. ASSUME NEW i \in 2 .. Len(t) - 1 PROVE Matches(t[i], "header")
                    <5>1. i \in 1 .. k /\ i # 1
                        BY <1>7, <3>1
                    <5>2. t[i] = lines[i] /\ Matches(lines[i], LineKind(i))
                        BY <1>7, <5>1 DEF LinesRead
                    <5> QED BY <5>1, <5>2 DEF LineKind
                <4> QED BY <4>1, <4>2, <4>3, <4>4 DEF WellFormed
            <3> QED BY <1>2, <1>6, <2>3, <3>2, <3>3, <3>4
        <2>4. CASE ~ended /\ LineOk(line)
            <3>1. x # EmptyLine
                BY <1>14, <1>18, <2>4, MatchesEnds
            <3>2. v # <<>>
                BY <1>7, <3>1
            <3>3. Unread(rest, Append(lines, line), T)
                BY <1>6, <1>7, <1>18, <2>1, <3>2 DEF Unread, y
            <3> QED BY <1>2, <1>6, <2>2, <2>4, <3>3
        <2>5. CASE ~ended /\ ~LineOk(line)
            <3>1. CASE k = 0
                <4>1. LineKind(k + 1) = "request" /\ t[1] = x
                    BY <1>7, <3>1 DEF LineKind
                <4>2. ~Matches(Head(t), "request")
                    BY <1>14, <1>16, <1>18, <2>5, <4>1
                <4>3. ~WellFormed(t)
                    BY <4>2 DEF WellFormed
                <4> QED BY <1>2, <1>6, <2>5, <4>3
            <3>2. CASE k # 0
                <4>1. k + 1 # 1 /\ k + 1 # Len(t)
                    <5>1. lines # <<>> /\ x # EmptyLine
                        BY <1>13, <1>18, <2>5, <3>2
                    <5>2. k \in Nat /\ k + 1 # Len(t)
                        BY <1>7, <5>1
                    <5> QED BY <3>2, <5>2
                <4>2. k + 1 \in 2 .. Len(t) - 1
                    BY <1>7, <1>15, <3>2, <4>1
                <4>3. ~Matches(t[k + 1], "header")
                    BY <1>7, <1>14, <1>18, <2>5, <4>1 DEF LineKind
                <4>4. ~WellFormed(t)
                    BY <4>2, <4>3 DEF WellFormed
                <4> QED BY <1>2, <1>6, <2>5, <4>4
            <3> QED BY <3>1, <3>2
        <2> QED BY <2>3, <2>4, <2>5
    <1> QED BY <1>10, <1>17, <1>18

\* What a client that is there has got: all answers, when a request is read or was
\* found bad; with what is in the buffer and what is not written yet, while one is
\* served.  After an error, the answers before, a part of the last one and the error.
AnswersInOrder ==
    LET got == http_client.got
        out == worker.out
        all == Answers(served)
        before == Answers(Before(served))
    IN  http_client.open =>
            /\ worker.at \in {"parses", "bad request"} => out = <<>> /\ got = all
            /\ worker.at = "serves" =>
                  /\ (got \o out) \o Fill(Len(served), worker.left) = all
                  /\ \E w \in Bytes : got = before \o w
            /\ worker.at = "error" =>
                  \E w, v \in Bytes : got = before \o w /\ (got \o out) \o v = all
            /\ worker.at = "closed" =>
                  \E g, w, v \in Bytes : got = g \o <<0>> /\ g = before \o w /\ g \o v = all

HttpInv == HttpTypes /\ LinesRead /\ RequestsInOrder /\ AnswersInOrder

LEMMA HttpInvInit == HttpInit => HttpInv
    <1> SUFFICES ASSUME HttpInit PROVE HttpInv
        OBVIOUS
    <1>1. /\ stream = <<>> /\ http_client.open = TRUE /\ http_client.got = <<>>
          /\ worker.at = "parses" /\ worker.lines = <<>> /\ worker.out = <<>>
          /\ http_sent = <<>> /\ served = <<>>
        BY DEF HttpInit
    <1>2. HttpTypes
        BY DEF HttpTypes, HttpInit, Text, Texts, Bytes
    <1>3. LinesRead
        <2>1. FlattenSeq(worker.lines) = <<>> /\ Len(<<>>) = 0
            BY <1>1, FlattenEmpty, EmptySeq
        <2>2. 0 <= HttpBuffer
            BY HttpBufferAssumption
        <2>3. 1 .. Len(worker.lines) = {}
            BY <1>1
        <2> QED BY <2>1, <2>2, <2>3 DEF LinesRead
    <1>4. RequestsInOrder
        <2>1. <<>> \in Seq(Requests) /\ <<>> \o <<>> = <<>> /\ Len(<<>>) = 0 /\ 1 .. Len(<<>>) = {}
            BY EmptySeq, ConcatEmptySeq
        <2>2. Unread(stream, worker.lines, <<>>)
            BY <1>1 DEF Unread
        <2> QED BY <1>1, <2>1, <2>2 DEF RequestsInOrder
    <1>5. AnswersInOrder
        BY <1>1, AnswersEmpty DEF AnswersInOrder
    <1> QED BY <1>2, <1>3, <1>4, <1>5 DEF HttpInv

\* The fields of the records.
LEMMA HttpFields ==
    ASSUME HttpTypes
    PROVE  /\ worker.at \in {"parses", "serves", "bad request", "error", "closed", "aborted"}
           /\ worker.lines \in Texts /\ worker.out \in Bytes /\ worker.left \in Nat
           /\ http_client.open \in BOOLEAN /\ http_client.got \in Bytes
           /\ Len(served) \in Nat /\ Answers(served) \in Bytes
           /\ Answers(Before(served)) \in Bytes
    BY AnswersType, AnswersBefore, LenProperties DEF HttpTypes

\* Steps that leave the requests alone.
LEMMA RequestsStay ==
    ASSUME RequestsInOrder, LinesRead, UNCHANGED <<stream, http_sent, served>>,
           worker'.lines = worker.lines,
           worker'.at = "bad request" => worker.at = "bad request",
           worker'.at \in {"parses", "serves"} => worker.at \in {"parses", "serves"},
           worker'.at = "serves" => worker.at = "serves"
    PROVE  RequestsInOrder' /\ LinesRead'
    <1>1. LinesRead'
        BY DEF LinesRead
    <1>2. PICK P \in Seq(Requests), T \in Seq(Requests) :
              /\ http_sent = P \o T /\ Len(P) = Len(served)
              /\ \A i \in 1 .. Len(P) : served[i].lines = P[i] /\ WellFormed(P[i])
              /\ worker.at = "bad request" => T # <<>> /\ ~WellFormed(T[1])
              /\ worker.at \in {"parses", "serves"} => Unread(stream, worker.lines, T)
              /\ worker.at = "serves" => worker.lines = <<>>
        BY DEF RequestsInOrder
    <1>3. RequestsInOrder'
        BY <1>2 DEF RequestsInOrder
    <1> QED BY <1>1, <1>3

LEMMA SendRequestKeeps ==
    ASSUME HttpInv, NEW r \in Requests, SendRequest(r)
    PROVE  HttpInv'
    <1>1. /\ stream' = stream \o FlattenSeq(r) /\ http_sent' = Append(http_sent, r)
          /\ UNCHANGED <<http_client, worker, served>>
        BY DEF SendRequest
    <1>2. HttpTypes /\ LinesRead /\ RequestsInOrder /\ AnswersInOrder
        BY DEF HttpInv
    <1>3. r \in Texts /\ FlattenSeq(r) \in Text
        BY RequestsAreTexts, FlattenType DEF Texts, Text
    <1>4. HttpTypes'
        <2>1. stream' \in Text
            BY <1>1, <1>2, <1>3, ConcatProperties DEF HttpTypes, Text
        <2>2. http_sent' \in Seq(Requests)
            BY <1>1, <1>2, AppendProperties DEF HttpTypes
        <2> QED BY <1>1, <1>2, <2>1, <2>2 DEF HttpTypes
    <1>5. LinesRead'
        BY <1>1, <1>2 DEF LinesRead
    <1>6. AnswersInOrder'
        BY <1>1, <1>2 DEF AnswersInOrder
    <1>7. RequestsInOrder'
        <2>1. PICK P \in Seq(Requests), T \in Seq(Requests) :
                  /\ http_sent = P \o T /\ Len(P) = Len(served)
                  /\ \A i \in 1 .. Len(P) : served[i].lines = P[i] /\ WellFormed(P[i])
                  /\ worker.at = "bad request" => T # <<>> /\ ~WellFormed(T[1])
                  /\ worker.at \in {"parses", "serves"} => Unread(stream, worker.lines, T)
                  /\ worker.at = "serves" => worker.lines = <<>>
            BY <1>2 DEF RequestsInOrder
        <2> DEFINE T2 == Append(T, r)
        <2>2. T2 \in Seq(Requests) /\ T2 # <<>> /\ \A i \in 1 .. Len(T) : T2[i] = T[i]
            BY AppendProperties
        <2>3. http_sent' = P \o T2
            <3>1. (P \o T) \o <<r>> = P \o (T \o <<r>>) /\ P \o T \in Seq(Requests)
                BY ConcatAssociative, ConcatProperties, SMTT(30)
            <3>2. Append(P \o T, r) = (P \o T) \o <<r>> /\ Append(T, r) = T \o <<r>>
                BY <3>1, AppendIsConcat
            <3> QED BY <1>1, <2>1, <3>1, <3>2
        <2>4. worker.at = "bad request" => T2[1] = T[1]
            <3>1. T # <<>> => 1 \in 1 .. Len(T)
                BY EmptySeq
            <3> QED BY <2>1, <2>2, <3>1
        <2>5. worker.at \in {"parses", "serves"} => Unread(stream', worker.lines, T2)
            BY <1>1, <2>1, UnreadSend
        <2> HIDE DEF T2
        <2> QED BY <1>1, <2>1, <2>2, <2>3, <2>4, <2>5 DEF RequestsInOrder
    <1> QED BY <1>4, <1>5, <1>6, <1>7 DEF HttpInv

LEMMA CloseConnectionKeeps ==
    ASSUME HttpInv, CloseConnection
    PROVE  HttpInv'
    <1>1. /\ http_client' = [http_client EXCEPT !.open = FALSE]
          /\ UNCHANGED <<stream, worker, http_sent, served>>
        BY DEF CloseConnection
    <1>2. HttpTypes /\ LinesRead /\ RequestsInOrder /\ AnswersInOrder
        BY DEF HttpInv
    <1>3. HttpTypes' /\ ~http_client'.open
        BY <1>1, <1>2 DEF HttpTypes
    <1>4. RequestsInOrder' /\ LinesRead'
        BY <1>1, <1>2, RequestsStay
    <1>5. AnswersInOrder'
        BY <1>3 DEF AnswersInOrder
    <1> QED BY <1>3, <1>4, <1>5 DEF HttpInv

LEMMA ReadDisconnectedKeeps ==
    ASSUME HttpInv, ReadDisconnected
    PROVE  HttpInv'
    <1>1. /\ worker' = [worker EXCEPT !.at = "closed"] /\ ~http_client.open
          /\ UNCHANGED <<stream, http_client, http_sent, served>>
        BY DEF ReadDisconnected
    <1>2. HttpTypes /\ LinesRead /\ RequestsInOrder /\ AnswersInOrder
        BY DEF HttpInv
    <1>3. HttpTypes' /\ worker'.at = "closed" /\ worker'.lines = worker.lines
        BY <1>1, <1>2 DEF HttpTypes
    <1>4. RequestsInOrder' /\ LinesRead'
        BY <1>1, <1>2, <1>3, RequestsStay
    <1>5. AnswersInOrder'
        BY <1>1 DEF AnswersInOrder
    <1> QED BY <1>3, <1>4, <1>5 DEF HttpInv

LEMMA FlushDisconnectedKeeps ==
    ASSUME HttpInv, FlushDisconnected
    PROVE  HttpInv'
    <1>1. PICK end \in {"closed", "aborted"} :
              /\ worker' = [worker EXCEPT !.at = end] /\ ~http_client.open
              /\ UNCHANGED <<stream, http_client, http_sent, served>>
        BY DEF FlushDisconnected
    <1>2. HttpTypes /\ LinesRead /\ RequestsInOrder /\ AnswersInOrder
        BY DEF HttpInv
    <1>3. HttpTypes' /\ worker'.at = end /\ worker'.lines = worker.lines
        BY <1>1, <1>2 DEF HttpTypes
    <1>4. RequestsInOrder' /\ LinesRead'
        BY <1>1, <1>2, <1>3, RequestsStay
    <1>5. AnswersInOrder'
        BY <1>1 DEF AnswersInOrder
    <1> QED BY <1>3, <1>4, <1>5 DEF HttpInv

LEMMA WriteKeeps ==
    ASSUME HttpInv, Write
    PROVE  HttpInv'
    <1> DEFINE n == Len(served)
               got == http_client.got
               out == worker.out
               left == worker.left
    <1>1. /\ worker' = [worker EXCEPT !.out = Append(@, n), !.left = @ - 1]
          /\ worker.at = "serves" /\ left > 0
          /\ UNCHANGED <<stream, http_client, http_sent, served>>
        BY DEF Write
    <1>2. HttpTypes /\ LinesRead /\ RequestsInOrder /\ AnswersInOrder
        BY DEF HttpInv
    <1>3. out \in Bytes /\ got \in Bytes /\ n \in Nat /\ left \in Nat \ {0} /\ left - 1 \in Nat
        BY <1>1, <1>2, HttpFields
    <1>4. Append(out, n) \in Bytes /\ Append(out, n) = out \o <<n>> /\ <<n>> \in Bytes
        BY <1>3, AppendProperties, AppendIsConcat DEF Bytes
    <1>5. /\ worker'.at = "serves" /\ worker'.lines = worker.lines
          /\ worker'.out = Append(out, n) /\ worker'.left = left - 1
        BY <1>1, <1>2 DEF HttpTypes
    <1>6. HttpTypes'
        BY <1>1, <1>2, <1>3, <1>4 DEF HttpTypes
    <1>7. RequestsInOrder' /\ LinesRead'
        BY <1>1, <1>2, <1>5, RequestsStay
    <1>8. AnswersInOrder'
        <2> SUFFICES ASSUME http_client.open
                     PROVE  /\ (got \o Append(out, n)) \o Fill(n, left - 1) = Answers(served)
                            /\ \E w \in Bytes : got = Answers(Before(served)) \o w
            BY <1>1, <1>5 DEF AnswersInOrder
        <2>1. /\ (got \o out) \o Fill(n, left) = Answers(served)
              /\ \E w \in Bytes : got = Answers(Before(served)) \o w
            BY <1>1, <1>2 DEF AnswersInOrder
        <2> HIDE DEF n, got, out, left
        <2> DEFINE f == Fill(n, left - 1)
                   one == <<n>>
        <2>2. Fill(n, left) = one \o f /\ f \in Bytes
            BY <1>3, FillStep, FillIs
        <2>3. one \in Bytes
            BY <1>4
        <2> HIDE DEF f, one
        <2>4. got \o (out \o one) = (got \o out) \o one /\ got \o out \in Bytes
            BY <1>3, <2>3, BytesType, BytesConcat, SMTT(30)
        <2>5. ((got \o out) \o one) \o f = (got \o out) \o (one \o f)
            BY <2>2, <2>3, <2>4, BytesType, BytesConcat, SMTT(30)
        <2>6. (got \o Append(out, n)) \o f = Answers(served)
            BY <1>4, <2>1, <2>2, <2>4, <2>5 DEF one
        <2> QED BY <2>1, <2>6 DEF f
    <1> QED BY <1>6, <1>7, <1>8 DEF HttpInv

LEMMA FlushKeeps ==
    ASSUME HttpInv, Flush
    PROVE  HttpInv'
    <1> DEFINE n == Len(served)
               got == http_client.got
               out == worker.out
               left == worker.left
               end == IF left = 0 THEN "parses" ELSE "serves"
    <1>1. /\ worker.at = "serves"
          /\ worker' = [worker EXCEPT !.out = <<>>, !.at = end]
          /\ Delivered(out) /\ UNCHANGED <<stream, http_sent, served>>
        BY DEF Flush
    <1>2. HttpTypes /\ LinesRead /\ RequestsInOrder /\ AnswersInOrder
        BY DEF HttpInv
    <1>3. /\ out \in Bytes /\ got \in Bytes /\ n \in Nat /\ left \in Nat /\ <<>> \in Bytes
          /\ Answers(Before(served)) \in Bytes /\ http_client.open \in BOOLEAN
        BY <1>1, <1>2, HttpFields, EmptySeq DEF Bytes
    <1>4. got \o out \in Bytes
        BY <1>3, ConcatProperties DEF Bytes
    <1>5. /\ worker'.at = end /\ worker'.lines = worker.lines
          /\ worker'.out = <<>> /\ worker'.left = left
        BY <1>1, <1>2 DEF HttpTypes
    <1>6. /\ http_client' \in [open : BOOLEAN, got : Bytes]
          /\ http_client'.open = http_client.open
          /\ http_client.open => http_client'.got = got \o out
        BY <1>1, <1>2, <1>4 DEF HttpTypes, Delivered
    <1>7. HttpTypes'
        BY <1>1, <1>2, <1>3, <1>6 DEF HttpTypes
    <1>8. RequestsInOrder' /\ LinesRead'
        BY <1>1, <1>2, <1>5, RequestsStay
    <1>9. AnswersInOrder'
        <2> SUFFICES ASSUME http_client.open
                     PROVE  /\ left = 0 => got \o out = Answers(served)
                            /\ ((got \o out) \o <<>>) \o Fill(n, left) = Answers(served)
                            /\ \E w \in Bytes : got \o out = Answers(Before(served)) \o w
            <3>1. (worker'.at = "parses" /\ left = 0) \/ worker'.at = "serves"
                BY <1>5
            <3> HIDE DEF end
            <3> QED BY <1>1, <1>5, <1>6, <3>1 DEF AnswersInOrder
        <2>1. /\ (got \o out) \o Fill(n, left) = Answers(served)
              /\ \E w \in Bytes : got = Answers(Before(served)) \o w
            BY <1>1, <1>2 DEF AnswersInOrder
        <2> DEFINE b == Answers(Before(served))
        <2> HIDE DEF n, got, out, left
        <2>2. PICK w \in Bytes : got = b \o w
            BY <2>1
        <2>3. b \in Bytes
            BY <1>3
        <2> HIDE DEF b
        <2>4. w \o out \in Bytes /\ (b \o w) \o out = b \o (w \o out)
            BY <1>3, <2>2, <2>3, BytesType, BytesConcat, SMTT(30)
        <2>5. (got \o out) \o <<>> = got \o out
            BY <1>4, ConcatEmptySeq DEF Bytes
        <2>6. left = 0 => Fill(n, left) = <<>>
            BY <1>3, FillEmpty
        <2> QED BY <2>1, <2>2, <2>4, <2>5, <2>6 DEF b
    <1> QED BY <1>7, <1>8, <1>9 DEF HttpInv

LEMMA ThrowKeeps ==
    ASSUME HttpInv, Throw
    PROVE  HttpInv'
    <1>1. /\ worker' = [worker EXCEPT !.at = "error", !.left = 0]
          /\ worker.at = "serves"
          /\ UNCHANGED <<stream, http_client, http_sent, served>>
        BY DEF Throw
    <1>2. HttpTypes /\ LinesRead /\ RequestsInOrder /\ AnswersInOrder
        BY DEF HttpInv
    <1>3. HttpTypes' /\ worker'.at = "error" /\ worker'.lines = worker.lines /\ worker'.out = worker.out
        BY <1>1, <1>2 DEF HttpTypes
    <1>4. RequestsInOrder' /\ LinesRead'
        BY <1>1, <1>2, <1>3, RequestsStay
    <1>5. AnswersInOrder'
        <2>1. Fill(Len(served), worker.left) \in Bytes
            BY <1>2, HttpFields, FillIs
        <2> QED BY <1>1, <1>2, <1>3, <2>1 DEF AnswersInOrder
    <1> QED BY <1>3, <1>4, <1>5 DEF HttpInv

LEMMA AnswerErrorKeeps ==
    ASSUME HttpInv, AnswerError
    PROVE  HttpInv'
    <1> DEFINE got == http_client.got
               out == worker.out
               all == Answers(served)
               b == Answers(Before(served))
               zero == <<0>>
    <1>1. /\ worker.at \in {"bad request", "error"}
          /\ worker' = [worker EXCEPT !.at = "closed", !.out = <<>>]
          /\ Delivered(Append(out, 0)) /\ UNCHANGED <<stream, http_sent, served>>
        BY DEF AnswerError, ErrorByte
    <1>2. HttpTypes /\ LinesRead /\ RequestsInOrder /\ AnswersInOrder
        BY DEF HttpInv
    <1>3. /\ out \in Bytes /\ got \in Bytes /\ <<>> \in Bytes
          /\ b \in Bytes /\ all \in Bytes /\ http_client.open \in BOOLEAN
        BY <1>1, <1>2, HttpFields, EmptySeq DEF Bytes
    <1>4. Append(out, 0) \in Bytes /\ Append(out, 0) = out \o zero /\ zero \in Bytes
        BY <1>3, AppendProperties, AppendIsConcat DEF Bytes
    <1>5. worker'.at = "closed" /\ worker'.lines = worker.lines
        BY <1>1, <1>2 DEF HttpTypes
    <1>6. /\ got \o Append(out, 0) \in Bytes /\ got \o out \in Bytes
          /\ got \o Append(out, 0) = (got \o out) \o zero
        <2>1. got \in Bytes /\ out \in Bytes /\ zero \in Bytes
            BY <1>3, <1>4
        <2> HIDE DEF got, out, zero
        <2>2. got \o out \in Bytes /\ (got \o out) \o zero = got \o (out \o zero)
            BY <2>1, BytesType, BytesConcat, SMTT(30)
        <2> QED BY <1>4, <2>1, <2>2, BytesType
    <1>7. /\ http_client' \in [open : BOOLEAN, got : Bytes]
          /\ http_client'.open = http_client.open
          /\ http_client.open => http_client'.got = (got \o out) \o zero
        BY <1>1, <1>2, <1>6 DEF HttpTypes, Delivered
    <1>8. HttpTypes'
        BY <1>1, <1>2, <1>3, <1>7 DEF HttpTypes
    <1>9. RequestsInOrder' /\ LinesRead'
        BY <1>1, <1>2, <1>5, RequestsStay
    <1>10. AnswersInOrder'
        <2> SUFFICES ASSUME http_client.open
                     PROVE  \E w, v \in Bytes : got \o out = b \o w /\ (got \o out) \o v = all
            BY <1>1, <1>5, <1>6, <1>7 DEF AnswersInOrder
        <2>1. CASE worker.at = "bad request"
            <3>1. out = <<>> /\ got = all
                BY <1>2, <2>1 DEF AnswersInOrder
            <3>2. PICK w \in Bytes : all = b \o w
                BY <1>2, AnswersBefore DEF HttpTypes
            <3> HIDE DEF got, out, all, b
            <3>3. got \o out = all /\ all \o <<>> = all
                BY <1>3, <3>1, ConcatEmptySeq DEF Bytes
            <3> QED BY <1>3, <3>2, <3>3
        <2>2. CASE worker.at = "error"
            <3>1. PICK w \in Bytes, v \in Bytes : got = b \o w /\ (got \o out) \o v = all
                BY <1>2, <2>2 DEF AnswersInOrder
            <3> HIDE DEF got, out, all, b
            <3>2. w \in Bytes /\ out \in Bytes /\ b \in Bytes
                BY <1>3, <3>1
            <3>3. w \o out \in Bytes /\ (b \o w) \o out = b \o (w \o out)
                BY <3>2, BytesType, BytesConcat, SMTT(30)
            <3> QED BY <3>1, <3>3
        <2> QED BY <1>1, <2>1, <2>2
    <1> QED BY <1>8, <1>9, <1>10 DEF HttpInv

LEMMA ParseLineKeeps ==
    ASSUME HttpInv, ParseLine
    PROVE  HttpInv'
    <1> DEFINE lines == worker.lines
    <1>1. HttpTypes /\ LinesRead /\ RequestsInOrder /\ AnswersInOrder
        BY DEF HttpInv
    <1>2. worker.at = "parses" /\ UNCHANGED <<http_client, http_sent>>
        BY DEF ParseLine
    <1>3. PICK n \in 0 .. Len(stream) :
              LET line == SubSeq(stream, 1, n)
                  ended == lines # <<>> /\ line = EmptyLine
              IN  /\ load_line(line)
                  /\ stream' = SubSeq(stream, n + 1, Len(stream))
                  /\ IF ended
                     THEN \E size \in AnswerSizes :
                            /\ worker' = [worker EXCEPT !.at = "serves", !.lines = <<>>, !.left = size]
                            /\ served' = Append(served, [lines |-> Append(lines, line), answer |-> size])
                     ELSE /\ worker' = IF LineOk(line) THEN [worker EXCEPT !.lines = Append(@, line)]
                                       ELSE [worker EXCEPT !.at = "bad request"]
                          /\ UNCHANGED served
        BY DEF ParseLine
    <1> DEFINE line == SubSeq(stream, 1, n)
               ended == lines # <<>> /\ line = EmptyLine
               rest == SubSeq(stream, n + 1, Len(stream))
    <1>4. PICK P \in Seq(Requests), T \in Seq(Requests) :
              /\ http_sent = P \o T /\ Len(P) = Len(served)
              /\ \A i \in 1 .. Len(P) : served[i].lines = P[i] /\ WellFormed(P[i])
              /\ Unread(stream, lines, T)
        BY <1>1, <1>2 DEF RequestsInOrder
    <1>5. PICK t \in Requests, V \in Seq(Requests) :
              /\ T = <<t>> \o V
              /\ rest \in Text /\ line \in Text
              /\ \/ /\ ended /\ Append(lines, line) = t /\ WellFormed(t)
                    /\ rest = Chars(V)
                 \/ /\ ~ended /\ LineOk(line) /\ Unread(rest, Append(lines, line), T)
                    /\ Len(FlattenSeq(Append(lines, line))) <= HttpBuffer
                 \/ ~ended /\ ~LineOk(line) /\ ~WellFormed(t)
        BY <1>1, <1>3, <1>4, AfterLine
    <1>6. stream' = rest /\ load_line(line)
        BY <1>3
    <1>7. /\ ended => \E size \in AnswerSizes :
                /\ worker' = [worker EXCEPT !.at = "serves", !.lines = <<>>, !.left = size]
                /\ served' = Append(served, [lines |-> Append(lines, line), answer |-> size])
          /\ ~ended /\ LineOk(line) => worker' = [worker EXCEPT !.lines = Append(lines, line)]
          /\ ~ended /\ ~LineOk(line) => worker' = [worker EXCEPT !.at = "bad request"]
          /\ ~ended => UNCHANGED served
        BY <1>3
    <1> HIDE DEF line, rest, ended
    <1>8. /\ lines \in Texts /\ worker.out \in Bytes /\ worker.left \in Nat /\ Len(served) \in Nat
          /\ Answers(served) \in Bytes
          /\ http_client.got \in Bytes /\ served \in Seq(Served)
        BY <1>1, HttpFields DEF HttpTypes
    <1>9. Append(lines, line) \in Texts
        BY <1>5, <1>8, AppendProperties DEF Texts
    <1>10. http_client.open => worker.out = <<>> /\ http_client.got = Answers(served)
        BY <1>1, <1>2 DEF AnswersInOrder
    <1>11. CASE ended
        <2>1. PICK size \in AnswerSizes :
                /\ worker' = [worker EXCEPT !.at = "serves", !.lines = <<>>, !.left = size]
                /\ served' = Append(served, [lines |-> Append(lines, line), answer |-> size])
            BY <1>7, <1>11
        <2>2. Append(lines, line) = t /\ WellFormed(t) /\ rest = Chars(V)
            BY <1>5, <1>11
        <2> DEFINE m == [lines |-> t, answer |-> size]
        <2>3. size \in Nat /\ <<>> \in Texts
            BY AnswerSizesAssumption, EmptySeq DEF Texts
        <2>4. m \in Served /\ m.lines = t /\ m.answer = size /\ served' = Append(served, m)
            BY <1>9, <2>1, <2>2, <2>3 DEF Served
        <2>5. worker'.at = "serves" /\ worker'.lines = <<>> /\ worker'.left = size /\ worker'.out = worker.out
            BY <1>1, <2>1 DEF HttpTypes
        <2> HIDE DEF m
        <2>6. /\ served' \in Seq(Served) /\ Len(served') = Len(served) + 1 /\ served'[Len(served) + 1] = m
              /\ \A i \in 1 .. Len(served) : served'[i] = served[i]
            BY <1>8, <2>4, AppendProperties
        <2>7. HttpTypes'
            BY <1>1, <1>2, <1>5, <1>6, <2>1, <2>3, <2>6 DEF HttpTypes
        <2>8. LinesRead'
            <3>1. 1 .. Len(worker'.lines) = {} /\ Len(FlattenSeq(worker'.lines)) = 0
                BY <2>5, FlattenEmpty, EmptySeq
            <3> QED BY <3>1, HttpBufferAssumption DEF LinesRead
        <2>9. RequestsInOrder'
            <3> DEFINE Q == Append(P, t)
            <3>1. /\ Q \in Seq(Requests) /\ Len(Q) = Len(P) + 1 /\ Q[Len(P) + 1] = t
                  /\ \A i \in 1 .. Len(P) : Q[i] = P[i]
                BY AppendProperties
            <3>2. http_sent' = Q \o V
                <4>1. (P \o <<t>>) \o V = P \o (<<t>> \o V) /\ Append(P, t) = P \o <<t>>
                    <5>1. <<t>> \in Seq(Requests)
                        OBVIOUS
                    <5>2. (P \o <<t>>) \o V = P \o (<<t>> \o V)
                        BY <5>1, ConcatAssociative, SMTT(30)
                    <5> QED BY <5>2, AppendIsConcat
                <4> QED BY <1>2, <1>4, <1>5, <4>1
            <3> HIDE DEF Q
            <3>3. ASSUME NEW i \in 1 .. Len(Q) PROVE served'[i].lines = Q[i] /\ WellFormed(Q[i])
                <4>1. CASE i = Len(P) + 1
                    BY <1>4, <2>2, <2>4, <2>6, <3>1, <4>1
                <4>2. CASE i # Len(P) + 1
                    <5>1. i \in 1 .. Len(P)
                        BY <1>4, <1>8, <3>1, <4>2
                    <5> QED BY <1>4, <2>6, <3>1, <5>1
                <4> QED BY <4>1, <4>2
            <3>4. Unread(stream', worker'.lines, V)
                BY <1>6, <2>2, <2>5, UnreadAll
            <3>5. Len(Q) = Len(served')
                BY <1>4, <2>6, <3>1
            <3> QED BY <2>5, <3>1, <3>2, <3>3, <3>4, <3>5 DEF RequestsInOrder
        <2>10. AnswersInOrder'
            <3> DEFINE a == Answers(served)
                       f == Fill(Len(served) + 1, size)
            <3>1. Before(served') = served /\ Answers(served') = a \o f
                BY <1>8, <2>4, BeforeAppend, AnswersAppend
            <3>2. a \o <<>> = a /\ <<>> \in Bytes
                BY <1>8, ConcatEmptySeq, EmptySeq DEF Bytes
            <3> SUFFICES ASSUME http_client.open
                         PROVE  /\ (http_client.got \o worker.out) \o Fill(Len(served'), size) = Answers(served')
                                /\ \E w \in Bytes : http_client.got = Answers(Before(served')) \o w
                BY <1>2, <2>5 DEF AnswersInOrder
            <3> QED BY <1>10, <2>6, <3>1, <3>2
        <2> QED BY <2>7, <2>8, <2>9, <2>10 DEF HttpInv
    <1>12. CASE ~ended /\ LineOk(line)
        <2>1. worker' = [worker EXCEPT !.lines = Append(lines, line)] /\ UNCHANGED served
            BY <1>7, <1>12
        <2>2. worker'.at = "parses" /\ worker'.lines = Append(lines, line) /\ worker'.out = worker.out
            BY <1>1, <1>2, <2>1 DEF HttpTypes
        <2>3. HttpTypes'
            BY <1>1, <1>2, <1>5, <1>6, <1>9, <2>1 DEF HttpTypes
        <2>4. Unread(rest, Append(lines, line), T) /\ Len(FlattenSeq(Append(lines, line))) <= HttpBuffer
            BY <1>5, <1>12
        <2>5. LinesRead'
            <3> DEFINE all == Append(lines, line)
            <3>1. /\ Len(all) = Len(lines) + 1 /\ all[Len(lines) + 1] = line /\ Len(lines) \in Nat
                  /\ \A i \in 1 .. Len(lines) : all[i] = lines[i]
                BY <1>5, <1>8, AppendProperties, LenProperties DEF Texts
            <3>2. Matches(line, LineKind(Len(lines) + 1))
                <4>1. lines = <<>> <=> Len(lines) = 0
                    BY <1>8, EmptySeq DEF Texts
                <4>2. lines = <<>> <=> Len(lines) + 1 = 1
                    BY <3>1, <4>1
                <4> QED BY <1>12, <4>2 DEF LineOk, LineKind
            <3> HIDE DEF all
            <3>3. ASSUME NEW i \in 1 .. Len(all) PROVE Matches(all[i], LineKind(i))
                <4>1. CASE i = Len(lines) + 1
                    BY <3>1, <3>2, <4>1
                <4>2. CASE i # Len(lines) + 1
                    <5>1. i \in 1 .. Len(lines)
                        BY <3>1, <4>2
                    <5> QED BY <1>1, <3>1, <5>1 DEF LinesRead
                <4> QED BY <4>1, <4>2
            <3> QED BY <2>2, <2>4, <3>3 DEF LinesRead, all
        <2>6. RequestsInOrder'
            BY <1>2, <1>4, <1>6, <2>1, <2>2, <2>4 DEF RequestsInOrder
        <2>7. AnswersInOrder'
            BY <1>2, <1>10, <2>1, <2>2 DEF AnswersInOrder
        <2> QED BY <2>3, <2>5, <2>6, <2>7 DEF HttpInv
    <1>13. CASE ~ended /\ ~LineOk(line)
        <2>1. worker' = [worker EXCEPT !.at = "bad request"] /\ UNCHANGED served
            BY <1>7, <1>13
        <2>2. worker'.at = "bad request" /\ worker'.lines = lines /\ worker'.out = worker.out
            BY <1>1, <2>1 DEF HttpTypes
        <2>3. HttpTypes'
            BY <1>1, <1>2, <1>5, <1>6, <2>1 DEF HttpTypes
        <2>4. LinesRead'
            BY <1>1, <2>2 DEF LinesRead
        <2>5. T # <<>> /\ T[1] = t /\ ~WellFormed(t)
            <3>1. T[1] = t
                BY <1>5, ConsPlaces
            <3>2. <<t>> \in Seq(Requests) /\ <<t>> # <<>>
                OBVIOUS
            <3>3. T # <<>>
                BY <1>5, <3>2, TailOfConcat
            <3> QED BY <1>5, <1>13, <3>1, <3>3
        <2>6. RequestsInOrder'
            BY <1>2, <1>4, <2>1, <2>2, <2>5 DEF RequestsInOrder
        <2>7. AnswersInOrder'
            BY <1>2, <1>10, <2>1, <2>2 DEF AnswersInOrder
        <2> QED BY <2>3, <2>4, <2>6, <2>7 DEF HttpInv
    <1> QED BY <1>11, <1>12, <1>13

LEMMA HttpInvStep == HttpInv /\ [HttpNext]_httpVars => HttpInv'
    <1> SUFFICES ASSUME HttpInv, [HttpNext]_httpVars PROVE HttpInv'
        OBVIOUS
    <1>1. CASE \E r \in Requests : SendRequest(r)
        BY <1>1, SendRequestKeeps
    <1>2. CASE CloseConnection
        BY <1>2, CloseConnectionKeeps
    <1>3. CASE ParseLine
        BY <1>3, ParseLineKeeps
    <1>4. CASE ReadDisconnected
        BY <1>4, ReadDisconnectedKeeps
    <1>5. CASE Write
        BY <1>5, WriteKeeps
    <1>6. CASE Flush
        BY <1>6, FlushKeeps
    <1>7. CASE Throw
        BY <1>7, ThrowKeeps
    <1>8. CASE AnswerError
        BY <1>8, AnswerErrorKeeps
    <1>9. CASE FlushDisconnected
        BY <1>9, FlushDisconnectedKeeps
    <1>10. CASE UNCHANGED httpVars
        <2>1. HttpTypes /\ LinesRead /\ RequestsInOrder /\ AnswersInOrder
            BY DEF HttpInv
        <2>2. UNCHANGED <<stream, http_client, worker, http_sent, served>>
            BY <1>10 DEF httpVars
        <2>3. HttpTypes'
            BY <2>1, <2>2 DEF HttpTypes
        <2>4. RequestsInOrder' /\ LinesRead'
            BY <2>1, <2>2, RequestsStay
        <2>5. AnswersInOrder'
            BY <2>1, <2>2 DEF AnswersInOrder
        <2> QED BY <2>3, <2>4, <2>5 DEF HttpInv
    <1> QED BY <1>1, <1>2, <1>3, <1>4, <1>5, <1>6, <1>7, <1>8, <1>9, <1>10 DEF HttpNext, WorkerStep

LEMMA PrefixOfConcat ==
    ASSUME NEW a \in Bytes, NEW b \in Bytes
    PROVE  IsPrefix(a, a \o b)
    <1> DEFINE c == a \o b
    <1>1. Len(a) \in Nat /\ Len(b) \in Nat
        BY LenProperties DEF Bytes
    <1>2. /\ c \in Bytes /\ Len(c) = Len(a) + Len(b)
          /\ \A i \in 1 .. Len(a) + Len(b) : c[i] = IF i <= Len(a) THEN a[i] ELSE b[i - Len(a)]
        BY ConcatProperties DEF Bytes
    <1> HIDE DEF c
    <1>3. Len(a) \in 0 .. Len(c) /\ Len(a) <= Len(c)
        BY <1>1, <1>2
    <1> DEFINE p == SubSeq(c, 1, Len(a))
    <1>4. p \in Bytes /\ Len(p) = Len(a) /\ \A i \in 1 .. Len(a) : p[i] = c[i]
        BY <1>2, <1>3, SubSeqPlaces DEF Bytes
    <1> HIDE DEF p
    <1>5. \A i \in 1 .. Len(a) : i \in 1 .. Len(a) + Len(b) /\ i <= Len(a)
        BY <1>1
    <1>6. p = a
        BY <1>2, <1>4, <1>5, SeqEqual DEF Bytes
    <1>7. SubSeq(a, 1, Len(a)) = a
        BY SubSeqFull DEF Bytes
    <1> QED BY <1>3, <1>6, <1>7 DEF IsPrefix, c, p

LEMMA HttpInvImplies == HttpInv => RequestsAnsweredInOrder
    <1> SUFFICES ASSUME HttpInv PROVE RequestsAnsweredInOrder
        OBVIOUS
    <1> DEFINE n == Len(served)
               all == Answers(served)
               got == http_client.got
               b == Answers(SubSeq(served, 1, n - 1))
    <1>1. HttpTypes /\ LinesRead /\ RequestsInOrder /\ AnswersInOrder
        BY DEF HttpInv
    <1>2. PICK P \in Seq(Requests), T \in Seq(Requests) :
              /\ http_sent = P \o T /\ Len(P) = n
              /\ \A i \in 1 .. Len(P) : served[i].lines = P[i] /\ WellFormed(P[i])
              /\ worker.at = "bad request" => T # <<>> /\ ~WellFormed(T[1])
        BY <1>1 DEF RequestsInOrder
    <1>3. n \in Nat /\ Len(T) \in Nat /\ got \in Bytes /\ all \in Bytes /\ b \in Bytes
        BY <1>1, HttpFields, LenProperties DEF Before
    <1>4. /\ Len(http_sent) = n + Len(T)
          /\ \A i \in 1 .. n + Len(T) : http_sent[i] = IF i <= n THEN P[i] ELSE T[i - n]
        <2>1. /\ Len(P \o T) = Len(P) + Len(T)
              /\ \A i \in 1 .. Len(P) + Len(T) : (P \o T)[i] = IF i <= Len(P) THEN P[i] ELSE T[i - Len(P)]
            BY ConcatProperties
        <2>2. http_sent = P \o T /\ Len(P) = n
            BY <1>2
        <2> HIDE DEF n
        <2> QED BY <2>1, <2>2
    <1>5. n <= Len(http_sent)
        BY <1>3, <1>4
    <1>6. ASSUME NEW i \in 1 .. n
          PROVE  served[i].lines = http_sent[i] /\ WellFormed(http_sent[i])
        <2>1. i \in 1 .. n + Len(T) /\ i <= n
            BY <1>3
        <2> QED BY <1>2, <1>4, <2>1
    <1>7. ASSUME worker.at = "bad request"
          PROVE  n < Len(http_sent) /\ ~WellFormed(http_sent[n + 1])
        <2>1. T # <<>> /\ ~WellFormed(T[1]) /\ Len(T) > 0
            <3>1. T # <<>> /\ ~WellFormed(T[1])
                BY <1>2, <1>7
            <3>2. T # <<>> => Len(T) \in Nat \ {0}
                BY EmptySeq
            <3> QED BY <3>1, <3>2
        <2>2. n + 1 \in 1 .. n + Len(T) /\ ~(n + 1 <= n) /\ (n + 1) - n = 1 /\ n < n + Len(T)
            BY <1>3, <2>1
        <2>3. http_sent[n + 1] = T[1]
            BY <1>4, <2>2
        <2> QED BY <1>4, <2>1, <2>2, <2>3
    <1>8. ASSUME http_client.open, worker.at = "parses" PROVE got = all
        BY <1>1, <1>8 DEF AnswersInOrder
    <1>9. ASSUME http_client.open, worker.at = "serves"
          PROVE  got \o worker.out \o [i \in 1 .. worker.left |-> n] = all
        BY <1>1, <1>9 DEF AnswersInOrder, Fill
    <1>10. ASSUME http_client.open, worker.at = "closed"
           PROVE  Last(got) = ErrorByte /\ IsPrefix(b, got) /\ IsPrefix(Front(got), all)
        <2>1. PICK g \in Bytes, w \in Bytes, v \in Bytes : got = g \o <<0>> /\ g = b \o w /\ g \o v = all
            BY <1>1, <1>10 DEF AnswersInOrder, Before
        <2> HIDE DEF got, all, b
        <2>2. Append(g, 0) = g \o <<0>> /\ <<0>> \in Bytes /\ 0 \in Nat
            BY <2>1, AppendIsConcat DEF Bytes
        <2>3. got = Append(g, 0)
            BY <2>1, <2>2
        <2>4. Len(g) \in Nat /\ Len(got) = Len(g) + 1 /\ got[Len(g) + 1] = 0 /\ got \in Bytes
              /\ \A i \in 1 .. Len(g) : got[i] = g[i]
            BY <2>2, <2>3, AppendProperties, LenProperties DEF Bytes
        <2>5. Last(got) = ErrorByte
            BY <2>4 DEF Last, ErrorByte
        <2>6. Front(got) = g
            <3>1. Front(got) = SubSeq(got, 1, Len(g)) /\ Len(g) \in 0 .. Len(got)
                BY <2>4 DEF Front
            <3> DEFINE f == SubSeq(got, 1, Len(g))
            <3>2. f \in Bytes /\ Len(f) = Len(g) /\ \A i \in 1 .. Len(g) : f[i] = got[i]
                <4>1. got \in Seq(Nat) /\ Len(g) \in 0 .. Len(got)
                    BY <2>4, <3>1 DEF Bytes
                <4> QED BY <4>1, SubSeqPlaces DEF Bytes
            <3>3. f = g
                BY <2>4, <3>2, SeqEqual DEF Bytes
            <3> QED BY <3>1, <3>3
        <2>7. IsPrefix(g, all)
            BY <2>1, PrefixOfConcat
        <2>8. IsPrefix(b, got)
            <3> DEFINE zero == <<0>>
            <3>1. b \in Bytes /\ w \in Bytes /\ zero \in Bytes /\ got = (b \o w) \o zero
                BY <1>3, <2>1, <2>2
            <3> HIDE DEF zero
            <3>2. w \o zero \in Bytes /\ got = b \o (w \o zero)
                <4>1. w \o zero \in Bytes
                    BY <3>1, BytesType
                <4>2. (b \o w) \o zero = b \o (w \o zero)
                    BY <3>1, BytesConcat, SMTT(30)
                <4> QED BY <3>1, <4>1, <4>2
            <3> QED BY <3>1, <3>2, PrefixOfConcat
        <2> QED BY <2>5, <2>6, <2>7, <2>8
    <1> QED BY <1>5, <1>6, <1>7, <1>8, <1>9, <1>10 DEF RequestsAnsweredInOrder

\* The requests that a client sends down a connection, one behind the other, reach the
\* service as they were sent and in order, up to the first that is malformed or too
\* long, and the client gets the answers whole and in order, for every size of the
\* buffers, of the requests and of the answers (http_server.h:96-151).
THEOREM RequestsServedInOrder == HttpSpec => []RequestsAnsweredInOrder
    <1>1. HttpSpec => []HttpInv
        BY HttpInvInit, HttpInvStep, PTL DEF HttpSpec
    <1> QED BY <1>1, HttpInvImplies, PTL

===============================================================================
