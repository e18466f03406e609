-------------------------------- MODULE Bond --------------------------------
(***************************************************************************)
(* One direction of a bonded peer of libmcdma-fabric: a sender that        *)
(* spreads writes over N Thunderbolt lanes, and the receiving library,     *)
(* whose lane threads place the writes and publish the signals.            *)
(*                                                                         *)
(* The sender runs one call at a time under the peer's lock (write,        *)
(* signal, write_signal, flush).  Each lane is a FIFO of messages          *)
(* (TbLink models how a lane keeps that order).  At the receiver each lane *)
(* has one thread at a time inside tb_progress; the lanes share the window *)
(* memory, the placement counts, and the queue of signals behind rx_lock.  *)
(*                                                                         *)
(* Values in the window are call numbers: mem[c] is the number of the call *)
(* whose bytes, or whose signal, cell c holds.  A signal's contents are    *)
(* immutable once posted and live in signals[seq]; a message and a queue   *)
(* slot name them by seq.  The messages one call puts on one lane are      *)
(* consecutive there and are one message here.  Counts that travel as 32   *)
(* bits are whole here; WrapCount is about their width.                    *)
(***************************************************************************)
EXTENDS BondRanges, Sequences

CONSTANTS W,             \* cells of the receiver's window
          BOND_SIGNALS,  \* slots of the receiver's signal queue
          Payloads,      \* the <<off, end>> intervals calls may write
          Words,         \* the cells calls may signal
          MaxCalls       \* bound: calls the sender makes

Cells == 0 .. W - 1
Slots == 0 .. BOND_SIGNALS - 1

ASSUME WindowAssumption == W \in Nat
ASSUME SignalsAssumption == BOND_SIGNALS \in Nat /\ BOND_SIGNALS >= 1
ASSUME WordsAssumption == Words \subseteq Cells
ASSUME PayloadsAssumption ==
    \A p \in Payloads : /\ p[1] \in Cells /\ p[2] \in 1 .. W /\ p[1] < p[2]
ASSUME MaxCallsAssumption == MaxCalls \in Nat

VARIABLES
    \* sender, under the peer's lock
    pc,          \* "idle", or where the current call stands
    cur,         \* the current call: its operation, interval, word, affinity
    lane,        \* the lane a flush is fencing
    ack,         \* that lane's fence has been answered
    seen,        \* the range table
    posted,      \* tb_writes_posted of each lane
    tx_signal, tx_fenced,
    \* the lanes
    queue,       \* queue[k]: messages posted on lane k and not yet taken
    \* receiver
    at,          \* at[k]: where lane k's thread is in its message
    queued,      \* queued[k]: the signal of lane k's message is in the queue
    mem, placed,
    rx_lock,     \* the lane whose thread holds rx_lock, or None
    pending,     \* pending[i]: the seq in slot i of the signal queue, 0 empty
    rx_signal, waiting,
    down,        \* the peer has failed, for good
    \* history
    calls,       \* every call that wrote or signalled
    signals,     \* every signal posted: its call, word, need, and fenced
    flushed,     \* calls made before the last flush that returned
    refused      \* the receiver found a message out of sequence

sender   == <<pc, cur, lane, seen, posted, tx_signal, tx_fenced>>
receiver == <<at, queued, mem, placed, rx_lock, pending, rx_signal, waiting>>
history  == <<calls, signals, flushed>>
vars     == <<sender, receiver, history, ack, queue, down, refused>>

None == N

\* How a call reaches the lanes.  A write_signal is "fused" (one message:
\* bond_post on two lanes, inline on more), "parts" (bond_parallel) or, when
\* no message can carry it, "separate" (a write, then a signal).
Signalling == {"signal", "fused", "parts", "separate"}
Writing    == {"write", "fused", "parts", "separate"}
Prepared   == {"write", "separate"}
Ops        == Signalling \cup Writing \cup {"flush"}

NoWord == W
NoCall == [op |-> "flush", off |-> 0, end |-> 0, word |-> NoWord, aff |-> None]

Init ==
    /\ pc = "idle" /\ cur = NoCall /\ lane = 0 /\ ack = FALSE
    /\ seen = EmptyTable
    /\ posted = NoWrite /\ tx_signal = 0 /\ tx_fenced = 0
    /\ queue = [k \in Lanes |-> <<>>]
    /\ at = [k \in Lanes |-> "idle"]
    /\ queued = [k \in Lanes |-> FALSE]
    /\ mem = [c \in Cells |-> 0]
    /\ placed = NoWrite
    /\ rx_lock = None
    /\ pending = [i \in Slots |-> 0]
    /\ rx_signal = 1 /\ waiting = 0
    /\ down = FALSE
    /\ calls = <<>> /\ signals = <<>> /\ flushed = 0
    /\ refused = FALSE

-----------------------------------------------------------------------------
(* The sender.                                                             *)

\* A plain write stays on the last lane that carried bytes it overwrites.
Affinity(ord) == LET carried == {k \in Lanes : ord[k] # 0}
                 IN  IF carried = {} THEN None ELSE Max(carried)

\* A signalling call needs a free slot in the receiver's queue.
NoCreditLate == tx_signal - tx_fenced > BOND_SIGNALS   \* mutant: one signal too many
NoCredit == tx_signal - tx_fenced >= BOND_SIGNALS

MustFence(o) == o.signal \/ Cardinality({k \in Lanes : o.ord[k] # 0}) > 1

\* A call enters under the peer's lock and finds out whether it flushes first.
Call(op, off, end, word) ==
    LET o       == BondOverlap(seen, off, end)
        credit  == op \in Signalling /\ NoCredit
        prepare == op \in Prepared /\ ~credit
    IN  /\ pc = "idle"
        /\ ~down
        /\ op # "flush" => Len(calls) < MaxCalls
        /\ cur' = [op |-> op, off |-> off, end |-> end, word |-> word,
                   aff |-> IF prepare THEN Affinity(o.ord) ELSE None]
        /\ pc' = IF op = "flush" \/ credit \/ (prepare /\ MustFence(o))
                 THEN "fence" ELSE "post"
        /\ lane' = 0
        /\ UNCHANGED <<seen, posted, tx_signal, tx_fenced, receiver, history,
                       ack, queue, down, refused>>

\* bond_flush_locked fences the lanes in turn: tb_fence posts the fence ...
Fence ==
    /\ pc = "fence"
    /\ ~down
    /\ queue' = [queue EXCEPT ![lane] =
                   Append(@, [kind |-> "fence", call |-> 0, cells |-> {}, seq |-> 0,
                              wait |-> NoWrite, signals |-> FALSE, ord |-> posted[lane]])]
    /\ pc' = "await"
    /\ UNCHANGED <<cur, lane, seen, posted, tx_signal, tx_fenced, receiver,
                   history, ack, down, refused>>

\* The loop over the lanes has another one to fence.
MoreLanes == lane + 1 < N

\* ... and waits for its answer; the last one empties the range table and
\* gives every signal's credit back.
Fenced ==
    /\ pc = "await"
    /\ ack
    /\ ack' = FALSE
    /\ IF MoreLanes
       THEN /\ lane' = lane + 1 /\ pc' = "fence"
            /\ UNCHANGED <<cur, seen, tx_fenced, flushed>>
       ELSE /\ lane' = 0
            /\ pc' = IF cur.op = "flush" THEN "idle" ELSE "post"
            /\ cur' = IF cur.op = "flush" THEN NoCall ELSE cur
            /\ seen' = EmptyTable
            /\ tx_fenced' = tx_signal
            /\ flushed' = Len(calls)
    /\ UNCHANGED <<posted, tx_signal, receiver, calls, signals, queue, down, refused>>

\* A flush or a post that finds the peer down returns its failure.
GiveUp ==
    /\ pc # "idle"
    /\ down
    /\ pc' = "idle" /\ cur' = NoCall /\ lane' = 0
    /\ UNCHANGED <<seen, posted, tx_signal, tx_fenced, receiver, history, ack,
                   queue, down, refused>>

\* Which cells each lane carries.  A write goes to the lane of its affinity,
\* else its chunks go to whichever lanes have room; parts cut the interval
\* into one run of cells a lane, or stay whole on one lane when short
\* (only reached with more than two lanes); the rest goes whole on one lane.
CurCells == cur.off .. cur.end - 1
Whole(k) == [j \in Lanes |-> IF j = k THEN CurCells ELSE {}]
Scattered == {[k \in Lanes |-> {c \in CurCells : f[c] = k}] : f \in [CurCells -> Lanes]}
InRuns(part) == /\ \A k \in Lanes : part[k] # {}
                /\ \A j, k \in Lanes : j < k => \A a \in part[j], b \in part[k] : a < b
Splits ==
    CASE cur.op = "signal" -> {[k \in Lanes |-> {}]}
      [] cur.op = "write" /\ cur.aff = None -> Scattered
      [] cur.op \in Prepared /\ cur.aff # None -> {Whole(cur.aff)}
      [] cur.op = "parts" -> {p \in Scattered : InRuns(p)}
                             \cup (IF N > 2 THEN {Whole(k) : k \in Lanes} ELSE {})
      [] OTHER -> {Whole(k) : k \in Lanes}

\* The lane of the signal's own message, if it has one.
SignalLanes == IF cur.op \in {"signal", "parts", "separate"} THEN Lanes ELSE {None}

DataKind == CASE cur.op = "fused" -> "fused" [] cur.op = "parts" -> "write_n" [] OTHER -> "write"

\* The writes on other lanes a fused message or part must wait for.  A fused
\* message on two lanes names only the other one: its own lane is in order.
WaitFor(o, k) == IF N = 2 /\ cur.op = "fused" THEN [o.ord EXCEPT ![k] = 0] ELSE o.ord

DataMessage(k, cells, count) ==
    LET o     == BondOverlap(seen, cur.off, cur.end)
        waits == cur.op \in {"fused", "parts"}
    IN  [kind |-> DataKind, call |-> Len(calls) + 1, cells |-> cells,
         seq |-> IF waits THEN tx_signal + 1 ELSE 0,
         wait |-> IF waits THEN WaitFor(o, k) ELSE NoWrite,
         signals |-> waits /\ o.signal,
         ord |-> count]

SignalMessage(count) ==
    [kind |-> "signal", call |-> Len(calls) + 1, cells |-> {}, seq |-> tx_signal + 1,
     wait |-> NoWrite, signals |-> FALSE, ord |-> count]

\* bond_watermarks once the call's own writes are posted.
Watermarks(part) == [k \in Lanes |-> posted[k] + (IF part[k] # {} THEN 1 ELSE 0)]

\* bond_remember of the payload and, for a signal, of its word; bond_flagged.
Remembered(part) ==
    LET need == Watermarks(part)
        ord  == [k \in Lanes |-> IF part[k] # {} THEN need[k] ELSE 0]
        data == BondRemember(seen, cur.off, cur.end, ord, FALSE)
    IN  IF cur.op \in Signalling
        THEN BondFlagged(BondRemember(data, cur.word, cur.word + 1, NoWrite, TRUE))
        ELSE data

\* The messages of the call, then its signal's, appended to their lanes.
Posting(part, s) ==
    LET need == Watermarks(part)
        data == [k \in Lanes |-> IF part[k] = {} THEN queue[k]
                                 ELSE Append(queue[k], DataMessage(k, part[k], need[k]))]
    IN  [k \in Lanes |-> IF k = s THEN Append(data[k], SignalMessage(need[k])) ELSE data[k]]

PostAs(part, s) ==
    /\ queue' = Posting(part, s)
    /\ posted' = Watermarks(part)
    /\ seen' = Remembered(part)
    /\ calls' = Append(calls, [off |-> cur.off, end |-> cur.end, word |-> cur.word])
    /\ IF cur.op \in Signalling
       THEN /\ tx_signal' = tx_signal + 1
            /\ signals' = Append(signals, [call |-> Len(calls) + 1, word |-> cur.word,
                                          need |-> Watermarks(part), fenced |-> flushed])
       ELSE UNCHANGED <<tx_signal, signals>>

Post ==
    /\ pc = "post"
    /\ ~down
    /\ \E part \in Splits, s \in SignalLanes : PostAs(part, s)
    /\ pc' = "idle" /\ cur' = NoCall
    /\ UNCHANGED <<lane, tx_fenced, receiver, flushed, ack, down, refused>>

-----------------------------------------------------------------------------
(* A lane's thread at the receiver, inside tb_progress with the lane's lock. *)

\* bond_ready and bond_ready_n: the message's signal lies in the queue's window ...
InWindow(seq) == seq >= rx_signal /\ seq - rx_signal < BOND_SIGNALS
\* ... the writes it overlaps are placed, and no earlier signal is still out
\* when it covers bytes one of them covers.
ReadyStrict(m) == /\ m.signals => m.seq = rx_signal            \* mutant: waits for one write more
                  /\ \A k \in Lanes : placed[k] > m.wait[k]
Ready(m) == /\ m.signals => m.seq = rx_signal
            /\ \A k \in Lanes : placed[k] >= m.wait[k]

\* A message the receiver will not take poisons the link, and so the peer.
Refuse(k) ==
    /\ down' = TRUE /\ refused' = TRUE
    /\ at' = [at EXCEPT ![k] = "idle"]
    /\ queued' = [queued EXCEPT ![k] = FALSE]

\* The thread is done with its message.
Finish(k) ==
    /\ at' = [at EXCEPT ![k] = "idle"]
    /\ queued' = [queued EXCEPT ![k] = FALSE]
    /\ queue' = [queue EXCEPT ![k] = Tail(@)]

Fails(k, m) == \/ m.seq # 0 /\ ~InWindow(m.seq)
               \/ m.kind = "fused" /\ signals[m.seq].need[k] # placed[k] + 1

\* take: a write's bytes are copied once it is ready.  A header and its bytes
\* are one message here; readiness lasts from the one to the other.
TakeWrite(k) ==
    /\ at[k] = "idle" /\ queue[k] # <<>> /\ ~down
    /\ LET m == Head(queue[k])
       IN  /\ m.kind \in {"write", "write_n", "fused"}
           /\ \/ /\ Fails(k, m)
                 /\ Refuse(k)
                 /\ UNCHANGED mem
              \/ /\ ~Fails(k, m) /\ Ready(m)
                 /\ mem' = [c \in Cells |-> IF c \in m.cells THEN m.call ELSE mem[c]]
                 /\ at' = [at EXCEPT ![k] = "placing"]
                 /\ UNCHANGED <<queued, down, refused>>
    /\ UNCHANGED <<sender, history, ack, queue, placed, rx_lock, pending, rx_signal, waiting>>

TakeSignal(k) ==
    /\ at[k] = "idle" /\ queue[k] # <<>> /\ ~down
    /\ Head(queue[k]).kind = "signal"
    /\ at' = [at EXCEPT ![k] = "enqueue"]
    /\ UNCHANGED <<sender, history, ack, queue, queued, mem, placed, rx_lock, pending,
                   rx_signal, waiting, down, refused>>

\* A fence is answered in arrival order, after everything before it.
TakeFence(k) ==
    /\ at[k] = "idle" /\ queue[k] # <<>> /\ ~down
    /\ Head(queue[k]).kind = "fence"
    /\ queue' = [queue EXCEPT ![k] = Tail(@)]
    /\ ack' = TRUE
    /\ UNCHANGED <<sender, receiver, history, down, refused>>

\* bond_placed: the count first, then a look at waiting, both sequentially
\* consistent, so that either this thread sees a queued signal or the thread
\* that queues it sees the count.
StorePlaced(k) ==
    /\ at[k] = "placing"
    /\ placed' = [placed EXCEPT ![k] = @ + 1]
    /\ at' = [at EXCEPT ![k] = "looking"]
    /\ UNCHANGED <<sender, history, ack, queue, queued, mem, rx_lock, pending,
                   rx_signal, waiting, down, refused>>

\* After its write is counted, a fused message's signal joins the queue.
AfterPlaced(k) ==
    IF Head(queue[k]).kind = "fused"
    THEN at' = [at EXCEPT ![k] = "enqueue"] /\ UNCHANGED <<queued, queue>>
    ELSE Finish(k)

LookWaitingNever(k) ==   \* mutant: queued signals are left to others
    /\ at[k] = "looking"
    /\ AfterPlaced(k)
    /\ UNCHANGED <<sender, history, ack, mem, placed, rx_lock, pending,
                   rx_signal, waiting, down, refused>>

LookWaiting(k) ==
    /\ at[k] = "looking"
    /\ IF waiting # 0
       THEN at' = [at EXCEPT ![k] = "locking"] /\ UNCHANGED <<queued, queue>>
       ELSE AfterPlaced(k)
    /\ UNCHANGED <<sender, history, ack, mem, placed, rx_lock, pending,
                   rx_signal, waiting, down, refused>>

LockToDrain(k) ==
    /\ at[k] = "locking"
    /\ rx_lock = None
    /\ rx_lock' = k
    /\ at' = [at EXCEPT ![k] = "draining"]
    /\ UNCHANGED <<sender, history, ack, queue, queued, mem, placed, pending,
                   rx_signal, waiting, down, refused>>

\* bond_signal up to its bond_drain: refused outside the window or over an
\* occupied slot, which marks the peer down; else queued and counted.
Enqueue(k) ==
    LET seq == Head(queue[k]).seq
    IN  /\ at[k] = "enqueue"
        /\ rx_lock = None
        /\ IF down \/ ~InWindow(seq) \/ pending[seq % BOND_SIGNALS] # 0
           THEN /\ down' = TRUE /\ refused' = (refused \/ ~down)
                /\ at' = [at EXCEPT ![k] = "idle"]
                /\ UNCHANGED <<queued, rx_lock, pending, waiting>>
           ELSE /\ rx_lock' = k
                /\ pending' = [pending EXCEPT ![seq % BOND_SIGNALS] = seq]
                /\ waiting' = waiting + 1
                /\ queued' = [queued EXCEPT ![k] = TRUE]
                /\ at' = [at EXCEPT ![k] = "draining"]
                /\ UNCHANGED <<down, refused>>
        /\ UNCHANGED <<sender, history, ack, queue, mem, placed, rx_signal>>

\* bond_drain publishes only the next signal, once every lane's placed writes
\* cover its watermark.
NextReady == LET seq == pending[rx_signal % BOND_SIGNALS]
             IN  /\ seq = rx_signal
                 /\ \A k \in Lanes : signals[seq].need[k] <= placed[k]

\* One turn of bond_drain's loop: the word is stored ...
StoreWord(k) ==
    /\ at[k] = "draining"
    /\ ~down /\ NextReady
    /\ mem' = [mem EXCEPT ![signals[rx_signal].word] = signals[rx_signal].call]
    /\ at' = [at EXCEPT ![k] = "storing"]
    /\ UNCHANGED <<sender, history, ack, queue, queued, placed, rx_lock, pending,
                   rx_signal, waiting, down, refused>>

\* ... and only then the slot is freed and rx_signal moves on.  The decrement
\* of waiting that follows can only send a thread to an empty drain.
Advance(k) ==
    /\ at[k] = "storing"
    /\ pending' = [pending EXCEPT ![rx_signal % BOND_SIGNALS] = 0]
    /\ rx_signal' = rx_signal + 1
    /\ waiting' = waiting - 1
    /\ at' = [at EXCEPT ![k] = "draining"]
    /\ UNCHANGED <<sender, history, ack, queue, queued, mem, placed, rx_lock, down, refused>>

\* Nothing more to publish: unlock, and go on with the message.
Unlock(k) ==
    /\ at[k] = "draining"
    /\ down \/ ~NextReady
    /\ rx_lock' = None
    /\ IF queued[k] THEN Finish(k) ELSE AfterPlaced(k)
    /\ UNCHANGED <<sender, history, ack, mem, placed, pending, rx_signal, waiting,
                   down, refused>>

\* peer_fail for a reason outside this model: a poisoned link, a goodbye, a
\* restarted peer, a timeout.
Fail ==
    /\ ~down
    /\ down' = TRUE
    /\ UNCHANGED <<sender, receiver, history, ack, queue, refused>>

-----------------------------------------------------------------------------
\* Whoever holds the lane's lock takes it a step on: its progress thread, a
\* caller that found no room (bond_poll), or one that waits (wait_progress).
LaneStep(k) == \/ TakeWrite(k) \/ TakeSignal(k) \/ TakeFence(k)
               \/ StorePlaced(k) \/ LookWaiting(k) \/ LockToDrain(k)
               \/ Enqueue(k) \/ StoreWord(k) \/ Advance(k) \/ Unlock(k)

\* The calls an application may make.  Parts need an interval a lane each, or
\* more than two lanes; only two lanes ever send a write_signal separately.
AnyCall ==
    \/ \E p \in Payloads : Call("write", p[1], p[2], NoWord)
    \/ \E w \in Words : Call("signal", 0, 0, w)
    \/ \E p \in Payloads, w \in Words : Call("fused", p[1], p[2], w)
    \/ \E p \in Payloads, w \in Words :
          (N > 2 \/ p[2] - p[1] >= N) /\ Call("parts", p[1], p[2], w)
    \/ \E p \in Payloads, w \in Words : N = 2 /\ Call("separate", p[1], p[2], w)
    \/ Call("flush", 0, 0, NoWord)

\* Every call made and everything it sent taken, or the peer down and its
\* threads at rest.
AtRest == /\ pc = "idle" /\ \A k \in Lanes : at[k] = "idle"
          /\ down \/ (Len(calls) = MaxCalls /\ \A k \in Lanes : queue[k] = <<>>)
Rest == AtRest /\ UNCHANGED vars

Next == \/ AnyCall \/ Fence \/ Fenced \/ GiveUp \/ Post
        \/ \E k \in Lanes : LaneStep(k)
        \/ Fail \/ Rest

Spec == Init /\ [][Next]_vars

\* Each lane has a progress thread that keeps calling tb_progress, and a call
\* that has begun runs on; the application need not make any call.
Fairness == /\ WF_vars(Fence) /\ WF_vars(Fenced) /\ WF_vars(Post) /\ WF_vars(GiveUp)
            /\ \A k \in Lanes : WF_vars(LaneStep(k))

FairSpec == Spec /\ Fairness

-----------------------------------------------------------------------------
(* Properties.                                                             *)

Kinds  == {"write", "write_n", "fused", "signal", "fence"}
Places == {"idle", "placing", "looking", "locking", "enqueue", "draining", "storing"}
Message == [kind : Kinds, call : Nat, cells : SUBSET Cells, seq : Nat,
            wait : [Lanes -> Nat], signals : BOOLEAN, ord : Nat]
Entry == [off : 0 .. W, end : 0 .. W, ord : [Lanes -> Nat], signal : BOOLEAN]
Table == [ranges : SUBSET Entry, floored : BOOLEAN, ord : [Lanes -> Nat], signal : BOOLEAN]

\* The types of the variables.
TypeOK ==
    /\ pc \in {"idle", "fence", "await", "post"}
    /\ cur \in [op : Ops, off : 0 .. W, end : 0 .. W, word : 0 .. W, aff : 0 .. N]
    /\ lane \in Lanes /\ ack \in BOOLEAN /\ seen \in Table
    /\ posted \in [Lanes -> Nat] /\ tx_signal \in Nat /\ tx_fenced \in Nat
    /\ queue \in [Lanes -> Seq(Message)]
    /\ at \in [Lanes -> Places] /\ queued \in [Lanes -> BOOLEAN]
    /\ mem \in [Cells -> Nat] /\ placed \in [Lanes -> Nat]
    /\ rx_lock \in 0 .. N
    /\ pending \in [Slots -> Nat] /\ rx_signal \in Nat \ {0} /\ waiting \in Nat
    /\ down \in BOOLEAN /\ refused \in BOOLEAN
    /\ calls \in Seq([off : 0 .. W, end : 0 .. W, word : 0 .. W])
    /\ signals \in Seq([call : Nat, word : Cells, need : [Lanes -> Nat], fenced : Nat])
    /\ flushed \in Nat

\* Credit and watermarks keep every message inside the receiver's window: no
\* bonded signal, part or fused message is ever refused (bond_signal,
\* bond_ready, bond_ready_n and take_joined never answer -1 to this sender).
NeverRefused == ~refused

\* A flush gives credit back only for signals that are published: when
\* bond_flush_locked has set tx_fenced, rx_signal is past all of it, though
\* the fences are answered lane by lane while other lanes still publish.
CreditIsPublished == rx_signal > tx_fenced

\* Every signal posted is published unless the peer fails: no lane waits for
\* ever on another lane's writes or on an earlier signal.
EverySignalLands ==
    \A s \in 1 .. MaxCalls : (tx_signal >= s) ~> (rx_signal > s \/ down)

\* A call that has begun returns, flushes included.
EveryCallReturns == (pc # "idle") ~> (pc = "idle")
=============================================================================
