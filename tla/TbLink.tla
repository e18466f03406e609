------------------------------- MODULE TbLink -------------------------------
(***************************************************************************)
(* One Thunderbolt link (link_tb.c): two ends that send each other writes, *)
(* signals and fences as SENDs, which a queue pair cuts into packets that  *)
(* fill the other end's ring of one-packet receives in order.              *)
(*                                                                         *)
(* tb[e] is end e: the fields of struct tb, the caller inside an operation *)
(* under the lane's lock, and e's half of the queue pair.  The code's      *)
(* operations on a struct tb are operators from t to the t they leave.  A  *)
(* pass of tb_progress, by the caller while it waits and else by the       *)
(* progress thread, is one step: it holds the lock throughout, and what    *)
(* the queue pairs do meanwhile is as if it came after.                    *)
(*                                                                         *)
(* Bytes are not modelled.  A packet names the message it was read from at *)
(* the moment it left, and the class of its length: "full", or the class   *)
(* of a last packet.  A message the other end must apply has a number op,  *)
(* in the order of posting.                                                *)
(***************************************************************************)
EXTENDS Integers, SequencesExt

CONSTANTS
    SLOTS,        \* receives of each ring, as granted
    DEPTH,        \* packets a send queue holds, as granted
    TB_SEND_WR,   \* sends whose accounting is kept
    TB_STAGE,     \* staging slots for headers
    TB_RECV_BATCH,\* receives a progress thread posts a pass
    SEQ,          \* modulus of the 32-bit counters
    WIRE,         \* bound: packets that have left one end and not landed
    Jobs,         \* the messages callers send
    Tries,        \* the sequences of messages write_try posts at once
    Budget,       \* bound: Budget[e] messages end e sends
    Fences,       \* bound: Fences[e] fences end e makes
    MaxLost,      \* bound: packets the queue pairs lose
    Impatient     \* the ends whose waits may run out

Ends == {0, 1}
Peer(e) == 1 - e

\* A message: its kind, the packets of its bytes, the class of the last one.
Job(kind, n, tail) == [kind |-> kind, n |-> n, tail |-> tail]
AllJobs == Jobs \cup UNION {ToSet(js) : js \in Tries}

ASSUME RingAssumption == SLOTS \in Nat /\ DEPTH \in Nat /\ SLOTS >= 4 /\ DEPTH >= 4
ASSUME SendAssumption == TB_SEND_WR \in Nat /\ TB_STAGE \in Nat /\ TB_SEND_WR >= 3 /\ TB_STAGE >= 2
ASSUME SeqAssumption == SEQ \in Nat /\ SEQ >= 2
\* msg_max: bytes fill at most half the peer's ring and half the send queue.
ASSUME JobsAssumption == \A j \in AllJobs : j.n <= SLOTS \div 2 /\ j.n <= DEPTH \div 2

VARIABLES tb,    \* tb[e]: end e
          wire,  \* wire[e]: packets that have left e and not landed, in order
          lost   \* packets lost so far
vars == <<tb, wire, lost>>

NoJob  == Job("none", 0, "none")
Head_(kind, seq, op, job, value) ==
    [kind |-> kind, seq |-> seq, op |-> op, job |-> job, value |-> value]
NoHead == Head_("none", 0, 0, NoJob, 0)
NoPacket == [msg |-> NoHead, last |-> FALSE, len |-> "none"]
NoSlot == TB_STAGE

Fresh ==
    [pc |-> "idle",      \* the caller: "idle", "room" or "fence" (waits for either)
     job |-> NoJob,      \* what it waits to send
     tx_seq |-> 0, fences |-> 0, fence_acked |-> 0,
     tx_posted |-> 0, tx_done |-> 0, packets |-> 0, staged |-> 0, unstaged |-> 0,
     tx |-> [i \in 0 .. TB_SEND_WR - 1 |-> [packets |-> 0, staged |-> 0]],
     stage |-> [i \in 0 .. TB_STAGE - 1 |-> NoHead],
     sq |-> <<>>,        \* sends in the queue pair that have not left whole
     gone |-> 0,         \* send completions nobody polled yet
     ring |-> [i \in 0 .. SLOTS - 1 |-> NoPacket],
     posted |-> SLOTS, filled |-> 0, used |-> 0,
     landed |-> 0,       \* receive completions nobody polled yet
     rx_seq |-> 0,
     want |-> NoHead,    \* the WRITE header whose bytes are the next message
     poisoned |-> "none",
     ops |-> 0,          \* history: messages posted for the other end to apply,
     before |-> 0,       \* how many of them the last fence followed,
     made |-> 0,         \* fences made,
     applied |-> <<>>]   \* and what this end applied: the op, and whose bytes

Init == tb = [e \in Ends |-> Fresh] /\ wire = [e \in Ends |-> <<>>] /\ lost = 0

Poison(t, why) == IF t.poisoned = "none" THEN [t EXCEPT !.poisoned = why] ELSE t

-----------------------------------------------------------------------------
(* Sending.                                                                *)

\* f(1) + ... + f(n).
Sum1(n, f(_)) == LET s[i \in 0 .. n] == IF i = 0 THEN 0 ELSE s[i - 1] + f(i) IN s[n]

\* The queue pair's own count of packets not yet gone: past DEPTH it refuses.
InQueue(t) == Sum1(Len(t.sq), LAMBDA i : t.sq[i].left)

\* One SEND of n packets, from staging slot s or with contents m.
PostSend(t, m, s, n) ==
    IF InQueue(t) + n > DEPTH THEN Poison(t, "refused")
    ELSE [t EXCEPT !.sq = Append(@, [msg |-> m, slot |-> s, left |-> n]),
                   !.tx[t.tx_posted % TB_SEND_WR] =
                       [packets |-> n, staged |-> IF s = NoSlot THEN 0 ELSE 1],
                   !.packets = @ + n, !.tx_posted = @ + 1]

\* Room for n packets in k sends and a header, one of each held back for a
\* fence's answer unless this is one.
HasRoom(t, n, k, reply) ==
    LET spare == IF reply THEN 0 ELSE 1
    IN  /\ t.packets + n + spare <= DEPTH
        /\ t.tx_posted - t.tx_done + k + spare <= TB_SEND_WR
        /\ t.staged - t.unstaged + spare < TB_STAGE

\* A header message from the staging ring.
SendHead(t, h) ==
    LET s == t.staged % TB_STAGE
        u == PostSend([t EXCEPT !.stage[s] = h], NoHead, s, 1)
    IN  IF u.poisoned # "none" THEN u
        ELSE [u EXCEPT !.tx_seq = (@ + 1) % SEQ, !.staged = @ + 1]

\* What a message needs: tb_write's header and bytes, or a single SEND.
Packets(j) == CASE j.kind = "write" -> 1 + j.n [] j.kind = "write_signal" -> j.n [] OTHER -> 1
Sends(j)   == IF j.kind = "write" THEN 2 ELSE 1
Stages(j)  == IF j.kind = "write_signal" THEN 0 ELSE 1

\* tb_write (one piece), tb_signal, tb_write_signal and tb_fence, given room.
PostJob(t, j) ==
    LET op  == IF j.kind = "fence" THEN 0 ELSE t.ops + 1
        h   == Head_(j.kind, t.tx_seq, op, j, IF j.kind = "fence" THEN t.fences ELSE 0)
        u   == IF j.kind = "write_signal" THEN PostSend(t, h, NoSlot, j.n) ELSE SendHead(t, h)
        all == CASE j.kind = "write" -> PostSend(u, [h EXCEPT !.kind = "bytes"], NoSlot, j.n)
                 [] j.kind = "write_signal" -> [u EXCEPT !.tx_seq = (@ + 1) % SEQ]
                 [] OTHER -> u
    IN  IF all.poisoned # "none" THEN all
        ELSE IF j.kind = "fence" THEN [all EXCEPT !.before = t.ops]
        ELSE [all EXCEPT !.ops = @ + 1]

\* tb_can_write: room for every message of js, and one header held back.
SumOf(f(_), js) == Sum1(Len(js), LAMBDA i : f(js[i]))
CanWrite(t, js) ==
    /\ t.packets + SumOf(Packets, js) + 1 <= DEPTH
    /\ t.tx_posted - t.tx_done + SumOf(Sends, js) + 1 <= TB_SEND_WR
    /\ t.staged - t.unstaged + SumOf(Stages, js) + 1 <= TB_STAGE

-----------------------------------------------------------------------------
(* Receiving.                                                              *)

\* complete, for every completion the poll finds.
PolledKeepsStage(t) ==   \* mutant: staging slots are never given back
    [t EXCEPT !.packets = @ - Sum1(t.gone, LAMBDA i : t.tx[(t.tx_done + i - 1) % TB_SEND_WR].packets),
              !.tx_done = @ + t.gone, !.gone = 0, !.filled = @ + t.landed, !.landed = 0]
Polled(t) ==
    LET send(i) == t.tx[(t.tx_done + i - 1) % TB_SEND_WR]
    IN  [t EXCEPT !.packets = @ - Sum1(t.gone, LAMBDA i : send(i).packets),
                  !.unstaged = @ + Sum1(t.gone, LAMBDA i : send(i).staged),
                  !.tx_done = @ + t.gone, !.gone = 0,
                  !.filled = @ + t.landed, !.landed = 0]

\* The whole message at the head of the ring, if it has all arrived.
LastPackets(t) == {i \in t.used .. t.filled - 1 : t.ring[i % SLOTS].last}
Whole(t) == LastPackets(t) # {}
End(t)   == Min(LastPackets(t))
First(t) == t.ring[t.used % SLOTS].msg
Count(t) == End(t) - t.used + 1
Size(t)  == <<Count(t), t.ring[End(t) % SLOTS].len>>
Sources(t) == {t.ring[i % SLOTS].msg.op : i \in t.used .. End(t)}

\* A write's bytes are copied, or a signal's word stored.
Apply(t, op) == [t EXCEPT !.applied = Append(@, [op |-> op, from |-> Sources(t)])]

\* take: a fence's answer waits for room; everything else is taken or fails.
Waits(t) == /\ t.want = NoHead /\ First(t).kind = "fence" /\ First(t).seq = t.rx_seq
            /\ Count(t) = 1 /\ ~HasRoom(t, 1, 1, TRUE)
Advanced(t) == [t EXCEPT !.rx_seq = (@ + 1) % SEQ]
Take(t) ==
    LET h == First(t)
    IN  IF t.want # NoHead
        THEN IF Size(t) # <<t.want.job.n, t.want.job.tail>> THEN Poison(t, "length")
             ELSE Apply([t EXCEPT !.want = NoHead], t.want.op)
        ELSE IF h.kind \in {"bytes", "none"} \/ h.seq # t.rx_seq THEN Poison(t, "sequence")
        ELSE CASE h.kind = "write_signal" ->
                     IF Size(t) # <<h.job.n, h.job.tail>> THEN Poison(t, "length")
                     ELSE Apply(Advanced(t), h.op)
               [] h.kind # "write_signal" /\ Count(t) # 1 -> Poison(t, "length")
               [] h.kind \in {"inline", "signal"} /\ Count(t) = 1 -> Apply(Advanced(t), h.op)
               [] h.kind = "write" /\ Count(t) = 1 -> [Advanced(t) EXCEPT !.want = h]
               [] h.kind = "fence" /\ Count(t) = 1 ->
                     Advanced(SendHead(t, Head_("ack", t.tx_seq, 0, NoJob, h.value)))
               [] h.kind = "ack" /\ Count(t) = 1 -> [Advanced(t) EXCEPT !.fence_acked = h.value]

\* drain: messages are taken in order until one is missing a packet, waits
\* or fails; a message no ring could hold fails the link.
DrainOne(t) ==
    IF t.poisoned # "none" \/ ~Whole(t) THEN t
    ELSE IF Waits(t) THEN t
    ELSE LET u == Take(t)
         IN  IF u.poisoned # "none" THEN u ELSE [u EXCEPT !.used = End(t) + 1]
Drain(t) ==
    LET after[i \in 0 .. SLOTS] == IF i = 0 THEN t ELSE DrainOne(after[i - 1])
        u == after[SLOTS]
    IN  IF ~Whole(u) /\ u.filled - u.used = SLOTS THEN Poison(u, "length") ELSE u

\* repost: a caller's own pass posts every used receive again.  The progress
\* thread may leave them for later or post a batch, unless the ring is low;
\* then it stops only for a caller that waits for the lock.
UnpostedMore(t) == t.used + SLOTS + 1 - t.posted   \* mutant: off by one
Unposted(t) == t.used + SLOTS - t.posted
RepostCounts(t) == {n \in {0, TB_RECV_BATCH} : t.pc = "idle" /\ n < Unposted(t)}
Repost(t, n) == IF t.poisoned = "none" THEN [t EXCEPT !.posted = @ + n] ELSE t

-----------------------------------------------------------------------------
(* The caller.  Each operation holds the lane's lock from Call to return.  *)

Update(e, t) == tb' = [tb EXCEPT ![e] = t]
Live(e) == tb[e].poisoned = "none"

\* An operation posts at once when there is room, else waits for it.
SendIfRoom(t, j) ==
    IF HasRoom(t, Packets(j), Sends(j), FALSE)
    THEN [PostJob(t, j) EXCEPT !.pc = IF j.kind = "fence" THEN "fence" ELSE "idle", !.job = NoJob]
    ELSE [t EXCEPT !.pc = "room", !.job = j]

Call(e, j) ==
    /\ tb[e].pc = "idle" /\ Live(e) /\ tb[e].ops < Budget[e]
    /\ Update(e, SendIfRoom(tb[e], j))
    /\ UNCHANGED <<wire, lost>>

CallFence(e) ==
    /\ tb[e].pc = "idle" /\ Live(e) /\ tb[e].made < Fences[e]
    /\ Update(e, SendIfRoom([tb[e] EXCEPT !.made = @ + 1, !.fences = (@ + 1) % SEQ],
                            Job("fence", 0, "head")))
    /\ UNCHANGED <<wire, lost>>

\* tb_write_try: the whole of js or nothing, without waiting.
PostAll(t, js) ==
    LET after[i \in 0 .. Len(js)] == IF i = 0 THEN t ELSE PostJob(after[i - 1], js[i])
    IN  after[Len(js)]
Try(e, js) ==
    /\ tb[e].pc = "idle" /\ Live(e) /\ tb[e].ops + Len(js) <= Budget[e]
    /\ CanWrite(tb[e], js)
    /\ Update(e, PostAll(tb[e], js))
    /\ UNCHANGED <<wire, lost>>

\* tb_fence returns once (int32_t)(fence_acked - mine) is not negative.
AckedEarly(t) == (t.fence_acked - t.fences + 1) % SEQ < SEQ \div 2   \* mutant: off by one
Acked(t) == (t.fence_acked - t.fences) % SEQ < SEQ \div 2
Fenced(e) ==
    /\ tb[e].pc = "fence" /\ Live(e) /\ Acked(tb[e])
    /\ Update(e, [tb[e] EXCEPT !.pc = "idle"])
    /\ UNCHANGED <<wire, lost>>

\* A wait that runs out fails the link; a call on a failed link returns.
TimeOut(e) ==
    /\ e \in Impatient \/ ~Live(e)
    /\ tb[e].pc # "idle"
    /\ Update(e, [Poison(tb[e], "timeout") EXCEPT !.pc = "idle", !.job = NoJob])
    /\ UNCHANGED <<wire, lost>>

-----------------------------------------------------------------------------
(* tb_progress.                                                            *)

\* A pass polls, drains and posts n receives; the caller that waits for room
\* then looks again.  A pass with nothing due changes nothing.
Pass(t, n) == LET u == Repost(t, n)
              IN  IF u.pc = "room" /\ u.poisoned = "none" THEN SendIfRoom(u, u.job) ELSE u
Due(e) == Live(e) /\ tb[e].gone + tb[e].landed + Unposted(tb[e]) > 0
ProgressAll(e) ==
    /\ Live(e)
    /\ LET d == Drain(Polled(tb[e])) IN Update(e, Pass(d, Unposted(d)))
    /\ UNCHANGED <<wire, lost>>
ProgressSome(e) ==
    /\ Live(e)
    /\ LET d == Drain(Polled(tb[e])) IN \E n \in RepostCounts(d) : Update(e, Pass(d, n))
    /\ UNCHANGED <<wire, lost>>

-----------------------------------------------------------------------------
(* The queue pairs (external): packets leave in order, read as they leave, *)
(* and fill the peer's posted receives in order; a packet with no receive  *)
(* posted waits; a send completes when its last packet has left.           *)

Leave(e) ==
    LET t == tb[e]
        s == t.sq[1]
        m == IF s.slot = NoSlot THEN s.msg ELSE t.stage[s.slot]
        p == [msg |-> m, last |-> s.left = 1,
              len |-> IF s.left > 1 THEN "full"
                      ELSE IF m.kind \in {"bytes", "write_signal", "inline"} THEN m.job.tail ELSE "head"]
    IN  /\ t.sq # <<>> /\ Len(wire[e]) < WIRE
        /\ wire' = [wire EXCEPT ![e] = Append(@, p)]
        /\ Update(e, IF s.left = 1 THEN [t EXCEPT !.sq = Tail(@), !.gone = @ + 1]
                     ELSE [t EXCEPT !.sq[1].left = @ - 1])
        /\ UNCHANGED lost

Land(e) ==
    LET t == tb[e]
        i == t.filled + t.landed
    IN  /\ wire[Peer(e)] # <<>> /\ i < t.posted
        /\ Update(e, [t EXCEPT !.ring[i % SLOTS] = Head(wire[Peer(e)]), !.landed = @ + 1])
        /\ wire' = [wire EXCEPT ![Peer(e)] = Tail(@)]
        /\ UNCHANGED lost

Lose(e) ==
    /\ lost < MaxLost /\ wire[e] # <<>>
    /\ wire' = [wire EXCEPT ![e] = Tail(@)]
    /\ lost' = lost + 1
    /\ UNCHANGED tb

-----------------------------------------------------------------------------
\* Both ends have failed.
Rest == (\A e \in Ends : ~Live(e) /\ tb[e].pc = "idle") /\ UNCHANGED vars

Step(e) == \/ \E j \in Jobs : Call(e, j)
           \/ CallFence(e) \/ Fenced(e) \/ TimeOut(e)
           \/ \E js \in Tries : Try(e, js)
           \/ ProgressAll(e) \/ ProgressSome(e)
           \/ Leave(e) \/ Land(e) \/ Lose(e)
Next == (\E e \in Ends : Step(e)) \/ Rest

Spec == Init /\ [][Next]_vars

\* Both ends keep calling tb_progress, and the queue pairs keep moving
\* packets.  A progress thread leaves receives unposted only for
\* TB_REPOST_WAIT_NS after a message, or while a caller waits for the lock, so
\* in the end it posts them all.  ProgressAll, and nothing else, ends with
\* nothing due, so its weak fairness is []<>~Due(e).
Fairness ==
    \A e \in Ends : /\ WF_vars(Fenced(e)) /\ WF_vars(Leave(e)) /\ WF_vars(Land(e))
                    /\ []<>~Due(e)
FairSpec == Spec /\ Fairness

-----------------------------------------------------------------------------
(* Properties.                                                             *)

Failed(e) == tb[e].poisoned # "none"

\* Counters stay in their ranges: what is used was filled, what is filled was
\* posted, no more is in flight than the arrays that account for it hold.
TypeOK ==
    \A e \in Ends : LET t == tb[e] IN
        /\ t.pc \in {"idle", "room", "fence"}
        /\ t.used <= t.filled /\ t.filled + t.landed <= t.posted /\ t.posted <= t.used + SLOTS
        /\ t.tx_posted - t.tx_done \in 0 .. TB_SEND_WR /\ t.packets \in 0 .. DEPTH
        /\ t.staged - t.unstaged \in 0 .. TB_STAGE
        /\ t.poisoned \in {"none", "timeout", "refused", "length", "sequence"}

\* Without loss an end fails only by a timeout: has_room and tb_can_write
\* never let a post be refused, no header's staging slot is reused before the
\* header has left, and no message comes out of sequence or cut short.
FailsOnlyByTimeout == \A e \in Ends : tb[e].poisoned \in {"none", "timeout"}


\* tb_fence returns only once the peer has applied all that was posted before.
FenceMeansApplied ==
    \A e \in Ends :
        tb[e].pc = "fence" /\ Acked(tb[e]) => Len(tb[Peer(e)].applied) >= tb[e].before

\* Every call returns, two ends fencing each other over full queues included,
\* unless an end fails.
EveryCallReturns ==
    \A e \in Ends : (tb[e].pc # "idle") ~> (tb[e].pc = "idle" \/ \E f \in Ends : Failed(f))

=============================================================================
