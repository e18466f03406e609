------------------------------ MODULE CqMirror ------------------------------
(***************************************************************************)
(* One completion queue of the native driver, reported from user space     *)
(* (MCDMA_CQ_MAP=2): the adapter writes entries into a ring of SLOTS, the  *)
(* user provider (user_provider.c) reads them ahead of the kernel with a   *)
(* mirror of the kernel's work records, and lets the kernel (kernel_hca.cpp *)
(* behind apple_data_verbs.cpp) consume them later, comparing each one.    *)
(* In a context that posts for itself (MCDMA_USER_POST=1) the kernel holds *)
(* no records, and the mirror is the only queue.                           *)
(*                                                                         *)
(* A queue pair has one work queue here, standing for its sends or its     *)
(* receives: the two are alike and complete into a queue like this one.    *)
(* A request is its number among its queue pair's; what it carries is left *)
(* out, and so are entries that report an error, which are consumed alike. *)
(* The provider's operations hold the context's lock; a reset or a         *)
(* destroy lets it go around the kernel's part.                            *)
(***************************************************************************)
EXTENDS Integers, Sequences, FiniteSets, Functions

CONSTANTS
    QPs,         \* the queue pairs completing here
    SLOTS,       \* ring entries: 32; a queue holds one less
    ACK_BATCH,   \* MCDMA_ACK_BATCH: 8
    ACK_SAFETY,  \* MCDMA_ACK_SAFETY: 24
    Modes,       \* the values of user_posted to start from
    Concurrent,  \* do other threads go on while one resets a queue pair?
    MaxPosts,    \* bound: requests of a queue pair
    MaxResets    \* bound: resets and destroys

ASSUME MirrorAssumption ==
    /\ {SLOTS, ACK_BATCH, ACK_SAFETY, MaxPosts, MaxResets} \subseteq Nat
    /\ SLOTS > 1 /\ ACK_BATCH > 0 /\ ACK_SAFETY \in 1..(SLOTS - 1)
    /\ Modes \subseteq BOOLEAN /\ Concurrent \in BOOLEAN

VARIABLES
    c,         \* the kernel's and the provider's state of the completion queue
    hw,        \* the adapter: hw.work[q], counters it has yet to finish; hw.index, its next entry
    user,      \* are the queue pairs posted from user space?
    live,      \* the queue pairs that are not destroyed
    resetting, \* who is being reset: [qp, how, pc]
    next,      \* next[q]: the number of q's next request
    reported,  \* history: reported[q], the numbers its application was given
    flushed,   \* history: flushed[q], the numbers a reset did away with
    resets, overrun
vars == <<c, hw, user, live, resetting, next, reported, flushed, resets, overrun>>

\* cx5_work_queue.hpp, cx5_user_completion.h: a queue's records, by WQE counter.
EmptyQueue == [producer |-> 0, records |-> {}]
CanPost(w) == /\ Cardinality(w.records) < SLOTS - 1
              /\ \A r \in w.records : r.counter % SLOTS # w.producer % SLOTS
Recorded(w, id) == [producer |-> w.producer + 1,
                    records |-> w.records \cup {[counter |-> w.producer, id |-> id]}]
\* the record that the entry for this counter completes, if any
Matching(w, counter) == {r \in w.records : r.counter = counter}

NoEntry == [valid |-> FALSE, owner |-> 1, qp |-> 0, counter |-> 0]
NoWc == -1
None == [qp |-> 0, how |-> "none", pc |-> "none"]

Init == /\ c = [ring |-> [i \in 0..(SLOTS - 1) |-> NoEntry], consumer |-> 0, outstanding |-> 0,
                kernel |-> [q \in QPs |-> EmptyQueue], mirror |-> [q \in QPs |-> EmptyQueue],
                pending |-> <<>>, retired |-> FALSE, quarantined |-> FALSE]
        /\ hw = [work |-> [q \in QPs |-> <<>>], index |-> 0]
        /\ user \in Modes /\ live = QPs /\ resetting = None
        /\ next = [q \in QPs |-> 1]
        /\ reported = [q \in QPs |-> <<>>] /\ flushed = [q \in QPs |-> {}]
        /\ resets = 0 /\ overrun = FALSE

-----------------------------------------------------------------------------
(* The adapter.                                                            *)

Phase(i) == (i \div SLOTS) % 2
Entry(d, i) == d.ring[i % SLOTS]
\* mcdma_cq_entry_ready, and the kernel's same test
Ready(d, i) == Entry(d, i).valid /\ Entry(d, i).owner = Phase(i)

\* It finishes the oldest request of q and writes the entry, if the ring has room.
Complete(q) ==
    /\ hw.work[q] # <<>> /\ ~overrun
    /\ IF hw.index - c.consumer < SLOTS
       THEN /\ c' = [c EXCEPT !.ring[hw.index % SLOTS] =
                      [valid |-> TRUE, owner |-> Phase(hw.index), qp |-> q, counter |-> Head(hw.work[q])]]
            /\ hw' = [hw EXCEPT !.work[q] = Tail(@), !.index = @ + 1]
            /\ UNCHANGED overrun
       ELSE overrun' = TRUE /\ UNCHANGED <<c, hw>>
    /\ UNCHANGED <<user, live, resetting, next, reported, flushed, resets>>

-----------------------------------------------------------------------------
(* The kernel: Hca::poll and Hca::post (d is a value of c).                *)

\* One entry is consumed: wc is what the kernel takes the completion for.
KernelPoll(d) ==
    LET e == Entry(d, d.consumer)
        m == IF e.qp \in QPs THEN Matching(d.kernel[e.qp], e.counter) ELSE {}
        consumed == [d EXCEPT !.consumer = @ + 1]
    IN  IF d.quarantined \/ ~Ready(d, d.consumer) THEN [d |-> d, wc |-> NoWc]
        ELSE IF user THEN [d |-> consumed, wc |-> e.counter]
        ELSE IF d.outstanding = 0 \/ m = {} THEN [d |-> [d EXCEPT !.quarantined = TRUE], wc |-> NoWc]
        ELSE [d |-> [consumed EXCEPT !.outstanding = @ - 1, !.kernel[e.qp].records = @ \ m],
              wc |-> (CHOOSE r \in m : TRUE).id]

KernelRoom(d, q) == CanPost(d.kernel[q]) /\ d.outstanding < SLOTS - 1 /\ ~d.quarantined
KernelPost(d, q, id) == [d EXCEPT !.kernel[q] = Recorded(@, id), !.outstanding = @ + 1]

-----------------------------------------------------------------------------
(* The provider, under the context's lock.                                 *)

\* same: the counter of a request the kernel knows nothing of, or its number
Same(wc, p) == wc = IF user THEN p.counter ELSE p.id

\* acknowledge: the kernel consumes what was reported; a difference retires
\* the queue, which is then only drained.
RECURSIVE Acknowledge(_)
Acknowledge(d) ==
    LET k == KernelPoll(d)
    IN  IF d.pending = <<>> THEN d
        ELSE IF k.wc = NoWc THEN IF d.retired THEN k.d ELSE Acknowledge([k.d EXCEPT !.retired = TRUE])
        ELSE Acknowledge([k.d EXCEPT !.pending = Tail(@),
                                     !.retired = @ \/ ~Same(k.wc, Head(d.pending))])

\* mcdma_user_decode: the mirror's record of the entry, whose slot it frees
Decode(d, i) == LET e == Entry(d, i)
                IN IF e.qp \in live THEN Matching(d.mirror[e.qp], e.counter) ELSE {}

\* user_poll: up to max entries are reported; an entry without record retires.
RECURSIVE Report(_, _, _)
ReportTwice(d, max, out) ==   \* mutant: an entry's record is left in the mirror, and the entry unread
    LET i == d.consumer IN
    IF max = 0 \/ Len(d.pending) = SLOTS - 1 \/ ~Ready(d, i) THEN [d |-> d, out |-> out]
    ELSE IF Decode(d, i) = {} THEN [d |-> [d EXCEPT !.retired = TRUE], out |-> out]
    ELSE LET e == Entry(d, i) r == CHOOSE r \in Decode(d, i) : TRUE
         IN [d |-> [d EXCEPT !.pending = Append(@, [qp |-> e.qp, id |-> r.id, counter |-> e.counter])],
             out |-> Append(out, [qp |-> e.qp, id |-> r.id])]
Report(d, max, out) ==
    LET i == d.consumer + Len(d.pending) IN
    IF max = 0 \/ Len(d.pending) = SLOTS - 1 \/ ~Ready(d, i) THEN [d |-> d, out |-> out]
    ELSE IF Decode(d, i) = {} THEN [d |-> [d EXCEPT !.retired = TRUE], out |-> out]
    ELSE LET e == Entry(d, i) r == CHOOSE r \in Decode(d, i) : TRUE
         IN Report([d EXCEPT !.mirror[e.qp].records = @ \ {r},
                             !.pending = Append(@, [qp |-> e.qp, id |-> r.id, counter |-> e.counter])],
                   max - 1, Append(out, [qp |-> e.qp, id |-> r.id]))

\* Nothing was read: the kernel may be asked, and consumes an entry that came
\* meanwhile (kernel_fresh), which the mirror must know.
Fresh(d) ==
    LET k == KernelPoll(d) r == Decode(d, d.consumer) q == Entry(d, d.consumer).qp
    IN  IF k.wc = NoWc THEN [d |-> k.d, out |-> <<>>]
        ELSE IF r = {} \/ \E x \in r : ~Same(k.wc, [id |-> x.id, counter |-> x.counter])
        THEN [d |-> [k.d EXCEPT !.retired = TRUE], out |-> <<>>]
        ELSE [d |-> [k.d EXCEPT !.mirror[q].records = @ \ r],
              out |-> <<[qp |-> q, id |-> (CHOOSE x \in r : TRUE).id]>>]

\* What the application gets: nothing from a queue that is retired.
Given(p) == IF p.d.retired THEN [q \in QPs |-> <<>>]
            ELSE [q \in QPs |-> LET mine == SelectSeq(p.out, LAMBDA x : x.qp = q)
                                IN [i \in 1..Len(mine) |-> mine[i].id]]
Take(p) == c' = p.d /\ reported' = [q \in QPs |-> reported[q] \o Given(p)[q]]

Free == resetting = None \/ Concurrent
PollCq(max) ==
    /\ Free /\ ~c.retired
    /\ LET p == Report(c, max, <<>>)
       IN \/ p.out # <<>> /\ Take([p EXCEPT !.d = IF Len(@.pending) >= ACK_SAFETY THEN Acknowledge(@) ELSE @])
          \/ p.out = <<>> /\ Take(p)
          \/ p.out = <<>> /\ p.d.pending # <<>> /\ Take([p EXCEPT !.d = Acknowledge(@)])
    /\ UNCHANGED <<hw, user, live, resetting, next, flushed, resets, overrun>>
\* The 256th empty poll, when the entry comes after it was looked for.
PollKernel ==
    /\ Free /\ ~c.retired /\ c.pending = <<>> /\ Take(Fresh(c))
    /\ UNCHANGED <<hw, user, live, resetting, next, flushed, resets, overrun>>

\* Requests of q without a completion yet, as its application knows them.
Unreported(q) == {id \in 1..(next[q] - 1) : /\ \A i \in DOMAIN reported[q] : reported[q][i] # id
                                            /\ id \notin flushed[q]}

\* mcdma_post_send and mcdma_post_recv through the kernel: what it accepts of
\* the n requests is what the mirror keeps.
RECURSIVE KernelPosts(_, _, _, _), MirrorPosts(_, _, _), UserPosts(_, _, _, _)
KernelPosts(d, q, id, n) ==
    IF n = 0 \/ ~KernelRoom(d, q) THEN d ELSE KernelPosts(KernelPost(d, q, id), q, id + 1, n - 1)
MirrorPosts(w, id, n) ==
    IF n = 0 \/ ~CanPost(w) THEN w ELSE MirrorPosts(Recorded(w, id), id + 1, n - 1)
Attempt(d, q, n) ==
    LET k == KernelPosts(d, q, next[q], n)
        accepted == k.kernel[q].producer - d.kernel[q].producer
        w == MirrorPosts(d.mirror[q], next[q], accepted)
    IN  [k EXCEPT !.mirror[q] = w, !.retired = w.producer - d.mirror[q].producer < accepted]
\* A list refused outright is tried again once the kernel has caught up.
ThroughKernel(d, q, n) ==
    LET t == Attempt(d, q, n)
        a == Acknowledge(d)
    IN  IF t.kernel[q].producer > d.kernel[q].producer \/ d.pending = <<>> THEN t
        ELSE IF a.retired THEN a ELSE Attempt(a, q, n)
\* user_post_send and user_post_recv: the mirror is the queue.
UserPosts(d, q, id, n) ==
    LET e == IF n > 0 /\ ~CanPost(d.mirror[q]) THEN Acknowledge(d) ELSE d
    IN  IF n = 0 \/ e.retired \/ ~CanPost(e.mirror[q]) THEN e
        ELSE UserPosts([e EXCEPT !.mirror[q] = Recorded(@, id)], q, id + 1, n - 1)

\* An application that posts for itself keeps to the queue it asked for.
Keeps(n) == ~user \/ Cardinality(UNION {Unreported(q) \X {q} : q \in QPs}) + n < SLOTS
CaughtUp(d) == IF Len(d.pending) >= ACK_BATCH THEN Acknowledge(d) ELSE d
Post(q, n) ==
    /\ Free /\ ~c.retired /\ q \in live /\ resetting.qp # q
    /\ next[q] + n <= MaxPosts + 1 /\ Keeps(n)
    /\ LET a == CaughtUp(c)
           t == IF a.retired THEN a
                ELSE IF user THEN UserPosts(a, q, next[q], n) ELSE ThroughKernel(a, q, n)
           first == c.mirror[q].producer
           accepted == t.mirror[q].producer - first
       IN /\ c' = t
          /\ next' = [next EXCEPT ![q] = @ + accepted]
          /\ hw' = [hw EXCEPT !.work[q] = @ \o [i \in 1..accepted |-> first + i - 1]]
    /\ UNCHANGED <<user, live, resetting, reported, flushed, resets, overrun>>

\* deregister_mr: the kernel catches up before it is asked; it refuses a key that its records
\* still hold, which leaves the queues alone.
DeregisterMr ==
    /\ Free /\ c' = Acknowledge(c)
    /\ UNCHANGED <<hw, user, live, resetting, next, reported, flushed, resets, overrun>>

-----------------------------------------------------------------------------
(* modify_qp to RESET, and destroy_qp.                                     *)

Acknowledged(d) == Acknowledge(d)
BeginReset(q, how) ==
    /\ resetting = None /\ q \in live /\ resets < MaxResets
    /\ c' = Acknowledged(c) /\ resets' = resets + 1
    /\ resetting' = [qp |-> q, how |-> how, pc |-> "kernel"]
    /\ UNCHANGED <<hw, user, live, next, reported, flushed, overrun>>

\* purge_qp_completions: q's entries go, the others close up towards the tail.
Visible(d) == CHOOSE v \in 0..SLOTS : /\ \A i \in 0..(v - 1) : Ready(d, d.consumer + i)
                                      /\ v = SLOTS \/ ~Ready(d, d.consumer + v)
PurgedInPlace(d, q) ==   \* mutant: a moved entry keeps its owner bit
    LET old  == [i \in 1..Visible(d) |-> Entry(d, d.consumer + i - 1)]
        kept == SelectSeq(old, LAMBDA e : e.qp # q)
        from == d.consumer + Len(old) - Len(kept)
    IN  [d EXCEPT !.consumer = from,
                  !.ring = [s \in DOMAIN @ |->
                     IF \E i \in 1..Len(kept) : s = (from + i - 1) % SLOTS
                     THEN kept[CHOOSE i \in 1..Len(kept) : s = (from + i - 1) % SLOTS] ELSE @[s]]]
Purged(d, q) ==
    LET old  == [i \in 1..Visible(d) |-> Entry(d, d.consumer + i - 1)]
        kept == SelectSeq(old, LAMBDA e : e.qp # q)
        from == d.consumer + Len(old) - Len(kept)
        Moved(i) == [kept[i] EXCEPT !.owner = Phase(from + i - 1)]
    IN  [d EXCEPT !.consumer = from,
                  !.ring = [s \in DOMAIN @ |->
                     IF \E i \in 1..Len(kept) : s = (from + i - 1) % SLOTS
                     THEN Moved(CHOOSE i \in 1..Len(kept) : s = (from + i - 1) % SLOTS) ELSE @[s]]]

\* Hca::reset_qp, and rebuild_cq_accounting after a destroy.
Pending(d, qs) == Cardinality(UNION {d.kernel[q].records \X {q} : q \in qs})
Corrupt(d, q) == ~user /\ (d.outstanding < Pending(d, {q}) \/ Visible(d) > d.outstanding)
\* The records of q go with its requests.
Cleared(d, q) == [d EXCEPT !.outstanding = @ - Pending(d, {q}), !.kernel[q] = EmptyQueue]
KernelReset == LET q == resetting.qp IN
    /\ resetting.pc = "kernel"
    /\ \/ \* the firmware refuses
          /\ resetting' = None /\ UNCHANGED <<c, hw, live, flushed>>
       \/ /\ c.quarantined \/ Corrupt(c, q)
          /\ c' = [c EXCEPT !.quarantined = TRUE]
          /\ resetting' = None /\ UNCHANGED <<hw, live, flushed>>
       \/ /\ ~c.quarantined /\ ~Corrupt(c, q)
          /\ LET d == Cleared(Purged(c, q), q)
             IN IF resetting.how = "reset" THEN c' = d /\ UNCHANGED live
                ELSE c' = [d EXCEPT !.outstanding = Pending(d, live \ {q})] /\ live' = live \ {q}
          /\ hw' = [hw EXCEPT !.work[q] = <<>>]
          /\ flushed' = [flushed EXCEPT ![q] = @ \cup Unreported(q)]
          /\ resetting' = [resetting EXCEPT !.pc = "mirror"]
    /\ UNCHANGED <<user, next, reported, resets, overrun>>
MirrorReset(d, q) == [d EXCEPT !.mirror[q] = EmptyQueue]
EndReset ==
    /\ resetting.pc = "mirror"
    /\ c' = MirrorReset(c, resetting.qp) /\ resetting' = None
    /\ UNCHANGED <<hw, user, live, next, reported, flushed, resets, overrun>>

-----------------------------------------------------------------------------

Next ==
    \/ \E q \in QPs : Complete(q) \/ \E n \in 1..2 : Post(q, n)
    \/ \E max \in {1, SLOTS} : PollCq(max)
    \/ PollKernel \/ DeregisterMr
    \/ \E q \in QPs, how \in {"reset", "destroy"} : BeginReset(q, how)
    \/ KernelReset \/ EndReset

Spec == Init /\ [][Next]_vars

-----------------------------------------------------------------------------

Queues == [producer : 0..MaxPosts, records : SUBSET [counter : 0..MaxPosts, id : 1..MaxPosts]]
\* The type of the state.
TypeOK ==
    /\ \A q \in QPs : c.kernel[q] \in Queues /\ c.mirror[q] \in Queues
    /\ c.consumer \in Nat /\ c.outstanding \in 0..(SLOTS - 1) /\ Len(c.pending) < SLOTS
    /\ hw.index \in Nat /\ user \in BOOLEAN /\ live \subseteq QPs
    /\ next \in [QPs -> 1..(MaxPosts + 1)]

\* A request's completion is handed to the application once, in the order its
\* queue pair was given the requests, and never after a reset took the request
\* back: whatever user_poll reads ahead and the kernel consumes later.
ReportedOnce == \A q \in QPs :
    /\ \A i, j \in DOMAIN reported[q] : i < j => reported[q][i] < reported[q][j]
    /\ \A i \in DOMAIN reported[q] : reported[q][i] \in 1..(next[q] - 1) \ flushed[q]

\* No completion is lost: a request the application still waits for is with the
\* adapter or in the ring, where user_poll has yet to come to it, even when a
\* reset of another queue pair moved the entries (purge_qp_completions).
InRing(q) == {i \in (c.consumer + Len(c.pending))..(c.consumer + SLOTS - 1) :
                /\ \A j \in c.consumer..i : Ready(c, j)
                /\ Entry(c, i).qp = q}
NothingLost == \A q \in live :
    ~c.retired /\ resetting = None /\ ~overrun
      => Cardinality(Unreported(q)) = Len(hw.work[q]) + Cardinality(InRing(q))


\* What the adapter may still have to write never exceeds what the application may have outstanding
\* (SLOTS - 1) and the completions reported to it that the kernel has not consumed, which a post
\* bounds by ACK_BATCH - 1 (acknowledge in post_send). The ring holds SLOTS.
Demand == hw.index + FoldFunction(LAMBDA w, n : Len(w) + n, 0, hw.work) - c.consumer
=============================================================================
