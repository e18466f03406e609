------------------------------ MODULE BondInv ------------------------------
(***************************************************************************)
(* The inductive invariant behind Bond's safety theorems: what links the   *)
(* sender's counts, the messages still on the lanes, the receiver's signal *)
(* queue and the places of its threads.                                    *)
(***************************************************************************)
EXTENDS Bond

WriteKinds   == {"write", "write_n", "fused"}
CarrierKinds == {"signal", "fused"}   \* messages that carry a signal to the queue

Msg(k, i) == queue[k][i]

\* The head message of lane k has had its write counted, if it has one.
Counted(k) == at[k] \in {"looking", "locking", "enqueue", "draining", "storing"}

\* Message i of lane k is a write that placed[k] does not count yet.
Unplaced(k, i) == Msg(k, i).kind \in WriteKinds /\ ~(i = 1 /\ Counted(k))

\* Message i of lane k carries a signal that is not in the queue yet.
Carrying(k, i) == Msg(k, i).kind \in CarrierKinds /\ ~(i = 1 /\ queued[k])

\* A call that has begun names the cells it writes and the word it signals.
CallShape == /\ cur.op \in Writing => cur.off < cur.end
             /\ cur.op \in Signalling => cur.word \in Cells
             /\ pc = "post" => cur.op # "flush"

\* The table t names only writes up to bound.
Bounded(t, bound) ==
    /\ \A k \in Lanes : t.ord[k] <= bound[k]
    /\ \A r \in t.ranges : \A k \in Lanes : r.ord[k] <= bound[k]

\* The range table names only writes that were posted.
RangesBounded == Bounded(seen, posted)

\* rx_lock is held exactly by the thread inside bond_drain.
LockHeld == \A k \in Lanes : (at[k] \in {"draining", "storing"}) <=> (rx_lock = k)

\* A busy thread works on the head of its lane, at a place that fits its kind.
ThreadPlace ==
    \A k \in Lanes :
        /\ at[k] # "idle" => queue[k] # <<>>
        /\ at[k] \in {"placing", "looking", "locking"} => Msg(k, 1).kind \in WriteKinds
        /\ at[k] = "enqueue" => Msg(k, 1).kind \in CarrierKinds
        /\ at[k] \in {"draining", "storing"} =>
              Msg(k, 1).kind \in (IF queued[k] THEN CarrierKinds ELSE WriteKinds)
        /\ queued[k] => at[k] \in {"draining", "storing"}

\* Ordinals run on along a lane from what is placed to what is posted.
Ordinal(k, i) ==
    /\ placed[k] <= Msg(k, i).ord /\ Msg(k, i).ord <= posted[k]
    /\ Unplaced(k, i) => placed[k] < Msg(k, i).ord
    /\ i = 1 => Msg(k, i).ord = placed[k] + (IF Unplaced(k, i) THEN 1 ELSE 0)
    /\ i > 1 => Msg(k, i).ord = Msg(k, i - 1).ord
                                + (IF Msg(k, i).kind \in WriteKinds THEN 1 ELSE 0)
    /\ \A j \in 1 .. i - 1 :
          /\ Msg(k, j).ord <= Msg(k, i).ord
          /\ Msg(k, i).kind \in WriteKinds => Msg(k, j).ord < Msg(k, i).ord

LaneOrdinals(k) ==
    /\ queue[k] = <<>> => placed[k] = posted[k]
    /\ queue[k] # <<>> => Msg(k, Len(queue[k])).ord = posted[k]
    /\ \A i \in 1 .. Len(queue[k]) : Ordinal(k, i)

Ordinals == ~down => \A k \in Lanes : LaneOrdinals(k)

\* The history has one entry a signal, whose watermark is of posted writes;
\* only posted signals are published.
Posted ==
    /\ Len(signals) = tx_signal /\ rx_signal <= tx_signal + 1
    /\ \A s \in 1 .. tx_signal, k \in Lanes : signals[s].need[k] <= posted[k]

\* A message names a posted signal, whose watermark covers the message's
\* write; the signal of a write that is not placed is not published.
SignalNumber(k, i) ==
    /\ Msg(k, i).kind \in {"write", "fence"} => Msg(k, i).seq = 0
    /\ Msg(k, i).kind \notin {"write", "fence"} => Msg(k, i).seq \in 1 .. tx_signal
    /\ Msg(k, i).kind = "write_n" => Msg(k, i).ord <= signals[Msg(k, i).seq].need[k]
    /\ Msg(k, i).kind = "fused" => Msg(k, i).ord = signals[Msg(k, i).seq].need[k]
    /\ Unplaced(k, i) /\ Msg(k, i).seq # 0 => rx_signal <= Msg(k, i).seq

SignalNumbers == ~down => \A k \in Lanes : \A i \in 1 .. Len(queue[k]) : SignalNumber(k, i)

\* A signal still carried is neither published, nor queued, nor carried twice.
NotElsewhere(k, i) ==
    /\ rx_signal <= Msg(k, i).seq
    /\ \A n \in Slots : pending[n] # Msg(k, i).seq
    /\ \A l \in Lanes : \A j \in 1 .. Len(queue[l]) :
          Carrying(l, j) /\ Msg(l, j).seq = Msg(k, i).seq => l = k /\ j = i

CarriedOnce == ~down => \A k \in Lanes : \A i \in 1 .. Len(queue[k]) :
                            Carrying(k, i) => NotElsewhere(k, i)

\* A queued signal is posted, not published, and in its slot.
Queued ==
    \A n \in Slots : pending[n] # 0 =>
        /\ rx_signal <= pending[n] /\ pending[n] <= tx_signal
        /\ n = pending[n] % BOND_SIGNALS

\* Every posted signal is published, or queued, or carried by a message.
Carried(s) == \E k \in Lanes : \E i \in 1 .. Len(queue[k]) : Carrying(k, i) /\ Msg(k, i).seq = s

NoneLost == ~down => \A s \in rx_signal .. tx_signal : pending[s % BOND_SIGNALS] = s \/ Carried(s)

\* The signal being stored is the next one, and it is ready.
Storing == (\E k \in Lanes : at[k] = "storing") => NextReady

\* waiting counts the queued signals.
WaitingCounts == waiting = Cardinality({n \in Slots : pending[n] # 0})

\* No lost wakeup: while the next signal is ready some thread is about to
\* publish it, or has yet to look at waiting.
SomeoneDrains ==
    NextReady /\ ~down =>
        \E k \in Lanes : at[k] \in {"looking", "locking", "draining", "storing"}

\* While a flush runs nothing is behind the fences it has posted.
Flushing ==
    ~(down /\ pc = "idle") =>
        /\ pc \in {"fence", "await"} => \A k \in Lanes : k < lane => queue[k] = <<>>
        /\ pc = "await" /\ ack => queue[lane] = <<>>
        /\ pc # "await" => ~ack
        /\ \A k \in Lanes : \A i \in 1 .. Len(queue[k]) :
              Msg(k, i).kind = "fence" => pc = "await" /\ ~ack /\ k = lane /\ i = Len(queue[k])

\* The sender never runs more than BOND_SIGNALS ahead of the last flush, and
\* the last fence's answer finds every signal published.
Credit ==
    /\ tx_fenced < rx_signal
    /\ tx_fenced <= tx_signal
    /\ tx_signal - tx_fenced <= BOND_SIGNALS
    /\ pc = "post" /\ cur.op \in Signalling => tx_signal - tx_fenced < BOND_SIGNALS
    /\ pc = "await" /\ ack /\ lane = N - 1 => tx_signal < rx_signal

\* What holds of the lanes and the receiver, whatever the sender is doing.
LaneInv == /\ LockHeld /\ ThreadPlace /\ Ordinals /\ Posted /\ SignalNumbers /\ CarriedOnce
           /\ Queued /\ NoneLost /\ Storing /\ WaitingCounts /\ SomeoneDrains

\* The inductive invariant: the parts above and that nothing was refused.
IInv == TypeOK /\ CallShape /\ RangesBounded /\ LaneInv /\ Flushing /\ Credit /\ NeverRefused
=============================================================================
