-------------------------- MODULE BondSteps_proof ---------------------------
(***************************************************************************)
(* Lemmas for Bond_proof: the steps of the sender that post nothing and the *)
(* steps of a lane's thread up to the drain, each of which preserves the   *)
(* inductive invariant of BondInv.                                         *)
(***************************************************************************)
EXTENDS BondFacts_proof

\* The leaves expand the whole inductive invariant and need more than the default time.
USE SMTT(15), ZenonT(20)

\* A lane's thread turns to a signal message.
LEMMA TakeSignalInv ==
    ASSUME IInv, NEW k \in Lanes, TakeSignal(k)
    PROVE  IInv'
<1>1. /\ at[k] = "idle" /\ at' = [at EXCEPT ![k] = "enqueue"] /\ queue[k] # <<>>
      /\ Msg(k, 1).kind = "signal" /\ UNCHANGED <<sender, history, ack, down, refused>>
      /\ UNCHANGED <<queue, queued, mem, placed, rx_lock, pending, rx_signal, waiting>>
  BY Parts DEF TakeSignal, Msg, TypeOK
<1>2. at \in [Lanes -> Places] /\ "enqueue" \in Places
  BY Parts DEF TypeOK, Places
<1>3. TypeOK'
  <2>1. at' \in [Lanes -> Places]
    BY <1>1, <1>2
  <2> QED BY <1>1, <2>1, Parts, LaneTypes, Zenon DEF TypeOK
<1>4. /\ CallShape' /\ RangesBounded' /\ NeverRefused' /\ Credit' /\ Flushing'
      /\ Posted' /\ Queued' /\ WaitingCounts' /\ (NextReady' <=> NextReady)
  BY <1>1, SameSender
<1>5. Ordinals' /\ SignalNumbers' /\ CarriedOnce' /\ NoneLost'
  BY <1>1, <1>2, SamePlace, Zenon DEF WriteKinds
<1>6. LockHeld'
  BY <1>1, <1>2, Parts DEF LockHeld
<1>7. ThreadPlace'
  BY <1>1, <1>2, Parts DEF ThreadPlace, CarrierKinds, Msg
<1>8. Storing' /\ SomeoneDrains'
  BY <1>1, <1>2, <1>4, Parts DEF Storing, SomeoneDrains
<1> QED BY <1>3, <1>4, <1>5, <1>6, <1>7, <1>8, Zenon DEF IInv, LaneInv

\* A call enters, and flushes first unless it has credit for its signal.
LEMMA CallInv ==
    ASSUME SetFacts, IInv, NEW op \in Ops, NEW off \in 0 .. W, NEW end \in 0 .. W, NEW word \in 0 .. W,
           op \in Writing => off < end, op \in Signalling => word \in Cells,
           Call(op, off, end, word)
    PROVE  IInv'
<1> USE DEF IInv
<1> DEFINE o       == BondOverlap(seen, off, end)
           credit  == op \in Signalling /\ NoCredit
           prepare == op \in Prepared /\ ~credit
<1>1. /\ pc = "idle" /\ ~down /\ lane' = 0
      /\ cur' = [op |-> op, off |-> off, end |-> end, word |-> word,
                 aff |-> IF prepare THEN Affinity(o.ord) ELSE None]
      /\ pc' = IF op = "flush" \/ credit \/ (prepare /\ MustFence(o)) THEN "fence" ELSE "post"
      /\ UNCHANGED <<seen, posted, tx_signal, tx_fenced, receiver, history, ack, queue, down, refused>>
  BY DEF Call
<1> HIDE DEF o, prepare
<1>2. LaneInv'
  BY <1>1, SameLanes DEF history
<1>3. (IF prepare THEN Affinity(o.ord) ELSE None) \in 0 .. N
  BY AffinityLane, LanesAssumption DEF None
<1>4. /\ cur' \in [op : Ops, off : 0 .. W, end : 0 .. W, word : 0 .. W, aff : 0 .. N]
      /\ cur'.op = op /\ cur'.off = off /\ cur'.end = end /\ cur'.word = word
  BY <1>1, <1>3
<1>5. pc' \in {"fence", "post"} /\ (pc' = "post" => op # "flush" /\ ~credit)
  BY <1>1
<1>6. lane' \in Lanes
  BY <1>1, LanesAssumption DEF Lanes
<1>7. TypeOK'
  BY <1>1, <1>4, <1>5, <1>6, Zenon DEF TypeOK, receiver, history
<1>8. CallShape'
  BY <1>4, <1>5 DEF CallShape
<1>9. RangesBounded'
  BY <1>1, Zenon DEF RangesBounded, Bounded
<1>10. Flushing'
  BY <1>1, <1>5 DEF Flushing, Msg, Lanes
<1>11. Credit'
  <2>1. UNCHANGED <<tx_signal, tx_fenced, rx_signal>>
    BY <1>1 DEF receiver
  <2>2. pc' = "post" /\ cur'.op \in Signalling => ~(tx_signal - tx_fenced >= BOND_SIGNALS)
    BY <1>4, <1>5 DEF NoCredit
  <2>3. tx_signal \in Nat /\ tx_fenced \in Nat
    BY DEF TypeOK
  <2> QED BY <1>5, <2>1, <2>2, <2>3, SignalsAssumption DEF Credit
<1>12. NeverRefused'
  BY <1>1 DEF NeverRefused
<1> QED BY <1>2, <1>7, <1>8, <1>9, <1>10, <1>11, <1>12

\* A fence is answered: the next lane, or every lane is done.
LEMMA FencedInv ==
    ASSUME IInv, Fenced
    PROVE  IInv'
<1> USE DEF IInv
<1>1. /\ pc = "await" /\ ack /\ ack' = FALSE
      /\ UNCHANGED <<posted, tx_signal, receiver, calls, signals, queue, down, refused>>
  BY DEF Fenced, MoreLanes
<1>2. LaneInv'
  BY <1>1, SameLanes
<1>3. \A k \in Lanes : \A i \in 1 .. Len(queue[k]) : Msg(k, i).kind # "fence"
  BY <1>1 DEF Flushing
<1>4. \A k \in Lanes : k < lane \/ k = lane => queue[k] = <<>>
  BY <1>1 DEF Flushing
<1>5. lane \in Nat /\ lane < N /\ lane \in Lanes
  BY LanesAssumption DEF TypeOK, Lanes
<1>6. CASE lane + 1 < N
  <2>1. lane' = lane + 1 /\ pc' = "fence" /\ UNCHANGED <<cur, seen, tx_fenced, flushed>>
    BY <1>6 DEF Fenced, MoreLanes
  <2>2. lane' \in Lanes
    BY <1>5, <1>6, <2>1, LanesAssumption DEF Lanes
  <2>3. TypeOK'
    BY <1>1, <2>1, <2>2, Zenon DEF TypeOK, receiver
  <2>4. CallShape' /\ RangesBounded' /\ NeverRefused'
    BY <1>1, <2>1 DEF CallShape, RangesBounded, Bounded, NeverRefused
  <2>5. \A k \in Lanes : k < lane' => queue[k] = <<>>
    BY <1>4, <1>5, <2>1, LanesAssumption DEF Lanes
  <2>6. Flushing'
    BY <1>1, <1>3, <2>1, <2>5, Zenon DEF Flushing, Msg
  <2>7. Credit'
    BY <1>1, <2>1 DEF Credit, receiver
  <2> QED BY <1>2, <2>3, <2>4, <2>6, <2>7
<1>7. CASE ~(lane + 1 < N)
  <2>1. /\ lane' = 0 /\ seen' = EmptyTable /\ tx_fenced' = tx_signal /\ flushed' = Len(calls)
        /\ pc' = IF cur.op = "flush" THEN "idle" ELSE "post"
        /\ cur' = IF cur.op = "flush" THEN NoCall ELSE cur
    BY <1>7 DEF Fenced, MoreLanes
  <2>2. lane = N - 1
    BY <1>5, <1>7, LanesAssumption DEF Lanes
  <2>3. EmptyTable \in Table /\ Bounded(EmptyTable, posted')
    <3>1. posted' \in [Lanes -> Nat]
      BY <1>1 DEF TypeOK
    <3> QED BY <3>1 DEF EmptyTable, Table, NoWrite, Bounded
  <2>4. cur' \in [op : Ops, off : 0 .. W, end : 0 .. W, word : 0 .. W, aff : 0 .. N]
    <3>1. NoCall \in [op : Ops, off : 0 .. W, end : 0 .. W, word : 0 .. W, aff : 0 .. N]
      BY LanesAssumption, WindowAssumption DEF NoCall, NoWord, None, Ops, Signalling, Writing
    <3> QED BY <2>1, <3>1, Zenon DEF TypeOK
  <2>5. lane' \in Lanes /\ flushed' \in Nat /\ pc' \in {"idle", "post"} /\ tx_fenced' \in Nat
    BY <2>1, LanesAssumption, SeqLen DEF TypeOK, Lanes
  <2>6. TypeOK'
    BY <1>1, <2>1, <2>3, <2>4, <2>5, Zenon DEF TypeOK, receiver
  <2>7. CallShape'
    BY <2>1 DEF CallShape, NoCall, Writing, Signalling
  <2>8. RangesBounded' /\ NeverRefused'
    BY <1>1, <2>1, <2>3 DEF RangesBounded, NeverRefused
  <2>9. Flushing'
    BY <1>1, <1>3, <2>5 DEF Flushing, Msg
  <2>10. Credit'
    <3>1. tx_signal < rx_signal /\ tx_signal \in Nat /\ rx_signal' = rx_signal
      BY <1>1, <2>2 DEF Credit, TypeOK, receiver
    <3> QED BY <1>1, <2>1, <2>5, <3>1, SignalsAssumption DEF Credit
  <2> QED BY <1>2, <2>6, <2>7, <2>8, <2>9, <2>10
<1> QED BY <1>6, <1>7

\* A call on a peer that is down returns.
LEMMA GiveUpInv ==
    ASSUME IInv, GiveUp
    PROVE  IInv'
<1> USE DEF IInv
<1>1. /\ down /\ pc' = "idle" /\ cur' = NoCall /\ lane' = 0
      /\ UNCHANGED <<seen, posted, tx_signal, tx_fenced, receiver, history, ack, queue, down, refused>>
  BY DEF GiveUp
<1>2. LaneInv'
  BY <1>1, SameLanes DEF history
<1>3. NoCall \in [op : Ops, off : 0 .. W, end : 0 .. W, word : 0 .. W, aff : 0 .. N]
  BY LanesAssumption, WindowAssumption DEF NoCall, NoWord, None, Ops, Signalling, Writing
<1>4. lane' \in Lanes
  BY <1>1, LanesAssumption DEF Lanes
<1>5. TypeOK'
  BY <1>1, <1>3, <1>4, Zenon DEF TypeOK, receiver, history
<1>6. CallShape' /\ RangesBounded' /\ NeverRefused'
  BY <1>1, Zenon DEF CallShape, NoCall, Writing, Signalling, RangesBounded, Bounded, NeverRefused
<1>7. Flushing' /\ Credit'
  BY <1>1, Zenon DEF Flushing, Credit, receiver
<1> QED BY <1>2, <1>5, <1>6, <1>7

\* The peer fails: only what does not depend on its being up remains.
LEMMA FailInv ==
    ASSUME IInv, Fail
    PROVE  IInv'
<1>1. ~down /\ down' = TRUE /\ UNCHANGED <<sender, receiver, history, ack, queue, refused>>
  BY DEF Fail
<1>2. /\ pc' = pc /\ cur' = cur /\ lane' = lane /\ seen' = seen /\ posted' = posted
      /\ tx_signal' = tx_signal /\ tx_fenced' = tx_fenced /\ calls' = calls
      /\ signals' = signals /\ flushed' = flushed /\ ack' = ack /\ refused' = refused
  BY <1>1 DEF sender, history
<1>3. /\ at' = at /\ queued' = queued /\ mem' = mem /\ placed' = placed /\ rx_lock' = rx_lock
      /\ pending' = pending /\ rx_signal' = rx_signal /\ waiting' = waiting /\ queue' = queue
  BY <1>1 DEF receiver
<1>4. TypeOK'
  BY <1>1, <1>2, <1>3, Parts, Zenon DEF TypeOK
<1>5. CallShape' /\ RangesBounded' /\ NeverRefused'
  BY <1>2, Parts DEF CallShape, RangesBounded, Bounded, NeverRefused
<1>6. Credit'
  BY <1>2, <1>3, Parts, Zenon DEF Credit
<1>7. LockHeld' /\ ThreadPlace'
  BY <1>3, Parts, Zenon DEF LockHeld, ThreadPlace, Msg
<1>8. Posted' /\ Queued' /\ WaitingCounts'
  BY <1>2, <1>3, Parts, Zenon DEF Posted, Queued, WaitingCounts
<1>9. Ordinals' /\ SignalNumbers' /\ CarriedOnce' /\ NoneLost' /\ SomeoneDrains'
  BY <1>1, Zenon DEF Ordinals, SignalNumbers, CarriedOnce, NoneLost, SomeoneDrains
<1>10. Storing'
  BY <1>2, <1>3, Parts, Zenon DEF Storing, NextReady
<1>11. Flushing'
  BY <1>1, <1>2, <1>3, Parts DEF Flushing, Msg
<1> QED BY <1>4, <1>5, <1>6, <1>7, <1>8, <1>9, <1>10, <1>11, Zenon DEF IInv, LaneInv

\* A lane's thread copies a write: it is never refused.
LEMMA TakeWriteInv ==
    ASSUME SetFacts, IInv, NEW k \in Lanes, TakeWrite(k)
    PROVE  IInv'
<1> DEFINE m == Msg(k, 1)
<1>1. /\ at[k] = "idle" /\ queue[k] # <<>> /\ ~down /\ m.kind \in WriteKinds
      /\ 1 \in 1 .. Len(queue[k]) /\ Head(queue[k]) = m
  BY Parts, QueueTypes DEF TakeWrite, WriteKinds
<1>2. Unplaced(k, 1)
  BY <1>1 DEF Unplaced, Counted
<1>3. SignalNumber(k, 1) /\ Ordinal(k, 1)
  BY <1>1, Parts, Zenon DEF SignalNumbers, Ordinals, LaneOrdinals
<1>4. m.seq \in Nat /\ m.ord \in Nat /\ placed[k] \in Nat /\ m \in Message
  BY <1>1, Parts, QueueTypes, Zenon
<1>5. m.seq # 0 => InWindow(m.seq)
  <2> SUFFICES ASSUME m.seq # 0 PROVE InWindow(m.seq)
    OBVIOUS
  <2>1. rx_signal <= m.seq /\ m.seq \in 1 .. tx_signal
    BY <1>2, <1>3, Zenon DEF SignalNumber
  <2>2. tx_signal \in Nat
    BY Parts DEF TypeOK
  <2> QED BY <1>4, <2>1, <2>2, Parts, WindowFacts
<1>6. m.kind = "fused" => signals[m.seq].need[k] = placed[k] + 1
  BY <1>2, <1>3, Zenon DEF SignalNumber, Ordinal
<1> HIDE DEF m
<1>7. ~Fails(k, m)
  BY <1>5, <1>6 DEF Fails
<1>8. /\ mem' = [c \in Cells |-> IF c \in m.cells THEN m.call ELSE mem[c]]
      /\ at' = [at EXCEPT ![k] = "placing"] /\ UNCHANGED <<sender, history, ack, down, refused>>
      /\ UNCHANGED <<queue, queued, placed, pending, rx_signal>> /\ UNCHANGED <<rx_lock, waiting>>
  BY <1>1, <1>7, Zenon DEF TakeWrite
<1>9. at \in [Lanes -> Places] /\ "placing" \in Places /\ mem' \in [Cells -> Nat]
  <2>1. m.call \in Nat
    BY <1>4 DEF Message
  <2>2. at \in [Lanes -> Places] /\ mem \in [Cells -> Nat]
    BY Parts, Zenon DEF TypeOK
  <2>3. mem' \in [Cells -> Nat]
    BY <1>8, <2>1, <2>2, Zenon
  <2> QED BY <2>2, <2>3 DEF Places
<1>10. TypeOK'
  <2>1. at' \in [Lanes -> Places]
    BY <1>8, <1>9
  <2> QED BY <1>8, <1>9, <2>1, Parts, LaneTypes, Zenon DEF TypeOK
<1>11. /\ CallShape' /\ RangesBounded' /\ NeverRefused' /\ Credit' /\ Flushing'
       /\ Posted' /\ Queued' /\ WaitingCounts' /\ (NextReady' <=> NextReady)
  BY <1>8, SameSender, Zenon
<1>12. Ordinals' /\ SignalNumbers' /\ CarriedOnce' /\ NoneLost'
  <2>1. Counted(k) <=> "placing" \in {"looking", "locking", "enqueue", "draining", "storing"}
    BY <1>1 DEF Counted
  <2> QED BY <1>8, <1>9, <2>1, SamePlace, Zenon
<1>13. LockHeld' /\ ThreadPlace'
  BY <1>1, <1>8, <1>9, Parts, Zenon DEF LockHeld, ThreadPlace, Msg, m
<1>14. Storing' /\ SomeoneDrains'
  BY <1>1, <1>8, <1>9, <1>11, Parts, Zenon DEF Storing, SomeoneDrains
<1> QED BY <1>10, <1>11, <1>12, <1>13, <1>14, Zenon DEF IInv, LaneInv

\* A lane's thread counts its write.
LEMMA StorePlacedInv ==
    ASSUME SetFacts, IInv, NEW k \in Lanes, StorePlaced(k)
    PROVE  IInv'
<1>1. /\ at[k] = "placing" /\ placed' = [placed EXCEPT ![k] = @ + 1]
      /\ at' = [at EXCEPT ![k] = "looking"] /\ UNCHANGED <<sender, history, ack, down, refused>>
      /\ UNCHANGED <<queue, queued, mem, rx_lock, pending, rx_signal, waiting>>
  BY DEF StorePlaced
<1>2. /\ at \in [Lanes -> Places] /\ placed \in [Lanes -> Nat]
      /\ queue[k] # <<>> /\ Msg(k, 1).kind \in WriteKinds /\ 1 \in 1 .. Len(queue[k])
  <2>1. at \in [Lanes -> Places] /\ placed \in [Lanes -> Nat]
    BY Parts, Zenon DEF TypeOK
  <2>2. queue[k] # <<>> /\ Msg(k, 1).kind \in WriteKinds
    BY <1>1, Parts, Zenon DEF ThreadPlace
  <2> QED BY <2>1, <2>2, Parts, QueueTypes
<1>3. \A j \in Lanes : \A i : Msg(j, i)' = Msg(j, i)
  BY <1>1 DEF Msg
<1>4. \A j \in Lanes : \A i : Carrying(j, i)' <=> Carrying(j, i)
  BY <1>1, <1>3 DEF Carrying
<1>5. \A j \in Lanes : \A i : IF j = k /\ i = 1 THEN Unplaced(j, i) /\ ~Unplaced(j, i)'
                                               ELSE Unplaced(j, i)' <=> Unplaced(j, i)
  BY <1>1, <1>2, <1>3, Zenon DEF Unplaced, Counted
<1>6. /\ posted' = posted /\ signals' = signals /\ tx_signal' = tx_signal /\ queue' = queue
      /\ down' = down /\ rx_signal' = rx_signal /\ pending' = pending
  BY <1>1 DEF sender, history
<1>7. Ordinals'
  <2> SUFFICES ASSUME ~down, NEW j \in Lanes PROVE LaneOrdinals(j)'
    BY <1>6 DEF Ordinals
  <2>1. LaneOrdinals(j)
    BY Parts DEF Ordinals
  <2>2. CASE j # k
    <3>1. placed'[j] = placed[j]
      BY <1>1, <1>2, <2>2, Zenon
    <3>2. \A i : Ordinal(j, i) => Ordinal(j, i)'
      BY <2>2, <3>1, <1>3, <1>5, <1>6, Zenon DEF Ordinal
    <3> QED BY <2>1, <3>1, <3>2, <1>3, <1>6, Zenon DEF LaneOrdinals
  <2>3. CASE j = k
    <3>1. ASSUME NEW i \in 1 .. Len(queue[k]) PROVE Ordinal(k, i)'
      <4>1. Ordinal(k, i) /\ Ordinal(k, 1)
        BY <2>1, <2>3, <1>2, Zenon DEF LaneOrdinals
      <4>2. /\ Msg(k, i).ord \in Nat /\ Msg(k, 1).ord \in Nat /\ placed[k] \in Nat
            /\ posted[k] \in Nat /\ placed'[k] = placed[k] + 1 /\ Len(queue[k]) \in Nat
        BY <1>1, <1>2, Parts, QueueTypes, Zenon
      <4>3. Msg(k, 1).ord = placed'[k]
        <5>1. Unplaced(k, 1)
          BY <1>5
        <5>2. Msg(k, 1).ord = placed[k] + (IF Unplaced(k, 1) THEN 1 ELSE 0)
          BY <4>1, Zenon DEF Ordinal
        <5> QED BY <4>2, <5>1, <5>2, Zenon
      <4>4. i # 1 => /\ Msg(k, 1).ord <= Msg(k, i).ord
                     /\ Msg(k, i).kind \in WriteKinds => Msg(k, 1).ord < Msg(k, i).ord
        <5>1. i # 1 => 1 \in 1 .. i - 1
          BY <4>2
        <5> QED BY <4>1, <5>1, Zenon DEF Ordinal
      <4>5. Unplaced(k, i) => Msg(k, i).kind \in WriteKinds
        BY DEF Unplaced
      <4>6. IF i = 1 THEN ~Unplaced(k, i)' ELSE Unplaced(k, i)' <=> Unplaced(k, i)
        BY <1>5
      <4>7. /\ placed'[k] <= Msg(k, i).ord /\ Msg(k, i).ord <= posted[k]
            /\ Unplaced(k, i)' => placed'[k] < Msg(k, i).ord
            /\ i = 1 => Msg(k, i).ord = placed'[k] + (IF Unplaced(k, i)' THEN 1 ELSE 0)
        <5>1. Msg(k, i).ord <= posted[k]
          BY <4>1, Zenon DEF Ordinal
        <5> QED BY <4>2, <4>3, <4>4, <4>5, <4>6, <5>1
      <4>8. /\ i > 1 => Msg(k, i).ord = Msg(k, i - 1).ord
                                       + (IF Msg(k, i).kind \in WriteKinds THEN 1 ELSE 0)
            /\ \A l \in 1 .. i - 1 :
                  /\ Msg(k, l).ord <= Msg(k, i).ord
                  /\ Msg(k, i).kind \in WriteKinds => Msg(k, l).ord < Msg(k, i).ord
        BY <4>1, Zenon DEF Ordinal
      <4> QED BY <4>7, <4>8, <1>3, <1>6, Zenon DEF Ordinal
    <3> QED BY <2>1, <2>3, <3>1, <1>2, <1>3, <1>6, Zenon DEF LaneOrdinals
  <2> QED BY <2>2, <2>3
<1>8. SignalNumbers'
  <2>1. \A j \in Lanes : \A i : SignalNumber(j, i) => SignalNumber(j, i)'
    BY <1>3, <1>5, <1>6 DEF SignalNumber
  <2> QED BY <2>1, <1>6, Parts DEF SignalNumbers
<1>9. CarriedOnce'
  <2>1. \A j \in Lanes : \A i : NotElsewhere(j, i) => NotElsewhere(j, i)'
    BY <1>3, <1>4, <1>6 DEF NotElsewhere
  <2> QED BY <2>1, <1>4, <1>6, Parts DEF CarriedOnce
<1>10. NoneLost'
  <2>1. \A n : Carried(n)' <=> Carried(n)
    BY <1>3, <1>4, <1>6 DEF Carried
  <2> QED BY <2>1, <1>6, Parts DEF NoneLost
<1>11. TypeOK'
  <2>1. placed' \in [Lanes -> Nat]
    BY <1>1, <1>2
  <2>2. at' \in [Lanes -> Places]
    BY <1>1, <1>2, Zenon DEF Places
  <2> QED BY <1>1, <2>1, <2>2, Parts, LaneTypes, Zenon DEF TypeOK
<1>12. LockHeld' /\ ThreadPlace'
  BY <1>1, <1>2, <1>3, Parts, Zenon DEF LockHeld, ThreadPlace
<1>13. /\ CallShape' /\ RangesBounded' /\ NeverRefused' /\ Credit' /\ Flushing'
       /\ Posted' /\ Queued' /\ WaitingCounts'
  BY <1>1, SameSender, Zenon
<1>14. SomeoneDrains'
  BY <1>1, <1>2, Zenon DEF SomeoneDrains
<1>15. Storing'
  <2> SUFFICES ASSUME NEW j \in Lanes, at'[j] = "storing" PROVE NextReady'
    BY DEF Storing
  <2>1. NextReady
    BY <1>1, <1>2, Parts, Zenon DEF Storing
  <2>2. rx_signal \in 1 .. Len(signals)
    BY <2>1, Parts, WindowFacts, Zenon DEF Posted
  <2>3. signals \in Seq([call : Nat, word : Cells, need : [Lanes -> Nat], fenced : Nat])
    BY Parts, Zenon DEF TypeOK
  <2>4. signals[rx_signal] \in [call : Nat, word : Cells, need : [Lanes -> Nat], fenced : Nat]
    BY <2>2, <2>3, SeqElement, Zenon
  <2>5. \A l \in Lanes : signals[rx_signal].need[l] <= placed[l] => signals[rx_signal].need[l] <= placed'[l]
    BY <1>1, <1>2, <2>4
  <2> QED BY <1>6, <2>1, <2>5, Zenon DEF NextReady
<1> QED BY <1>7, <1>8, <1>9, <1>10, <1>11, <1>12, <1>13, <1>14, <1>15, Zenon DEF IInv, LaneInv

\* Taking a message that is not a fence leaves a flush where it was.
LEMMA TailFlushing ==
    ASSUME TypeOK, Flushing, NEW k \in Lanes, queue[k] # <<>>,
           queue' \in [Lanes -> Seq(Message)],
           \A j \in Lanes : j # k => queue'[j] = queue[j],
           Len(queue'[k]) = Len(queue[k]) - 1,
           \A i \in 1 .. Len(queue[k]) - 1 : Msg(k, i)' = Msg(k, i + 1),
           UNCHANGED <<pc, lane, ack, down>>
    PROVE  Flushing'
<1> SUFFICES ASSUME ~(down /\ pc = "idle") PROVE Flushing'
  BY Zenon DEF Flushing
<1>1. Len(queue[k]) \in Nat
  BY QueueTypes, Zenon
<1>2. pc \in {"fence", "await"} => \A j \in Lanes : j < lane => queue'[j] = <<>>
  BY Zenon DEF Flushing
<1>3. pc = "await" /\ ack => queue'[lane] = <<>>
  BY Zenon DEF Flushing, TypeOK
<1>4. ASSUME NEW j \in Lanes, NEW i \in 1 .. Len(queue'[j]), Msg(j, i)'.kind = "fence"
      PROVE  pc = "await" /\ ~ack /\ j = lane /\ i = Len(queue'[j])
  <2>1. CASE j # k
    BY <1>4, <2>1, Zenon DEF Flushing, Msg
  <2>2. CASE j = k
    BY <1>1, <1>4, <2>2 DEF Flushing
  <2> QED BY <2>1, <2>2, Zenon
<1> QED BY <1>2, <1>3, <1>4, Zenon DEF Flushing

\* A thread that leaves bond_placed or bond_drain with its message done.
LEMMA FinishInv ==
    ASSUME IInv, NEW k \in Lanes, at[k] \in {"looking", "draining"},
           IF queued[k] THEN TRUE ELSE Msg(k, 1).kind # "fused",
           Finish(k), NextReady => down,
           rx_lock' = IF at[k] = "draining" THEN None ELSE rx_lock,
           UNCHANGED <<sender, history, ack, down, refused>>,
           UNCHANGED <<mem, placed, pending, rx_signal, waiting>>
    PROVE  IInv'
<1>1. /\ at' = [at EXCEPT ![k] = "idle"] /\ queued' = [queued EXCEPT ![k] = FALSE]
      /\ queue' = [queue EXCEPT ![k] = Tail(@)]
  BY Zenon DEF Finish
<1>2. /\ at \in [Lanes -> Places] /\ queued \in [Lanes -> BOOLEAN] /\ rx_lock \in 0 .. N
      /\ queue \in [Lanes -> Seq(Message)]
  BY Parts, Zenon DEF TypeOK
<1>3. queue[k] # <<>>
  BY Parts, Zenon DEF ThreadPlace
<1>4. ~Unplaced(k, 1)
  BY Zenon DEF Unplaced, Counted
<1>5. ~Carrying(k, 1)
  BY Parts, Zenon DEF Carrying, ThreadPlace, WriteKinds, CarrierKinds
<1>6. UNCHANGED <<down, placed, posted, signals, tx_signal, rx_signal, pending>>
      /\ UNCHANGED <<pc, lane, ack, down>>
  BY Zenon DEF sender, history
<1>7. /\ queue' \in [Lanes -> Seq(Message)]
      /\ ThreadPlace' /\ Ordinals' /\ SignalNumbers' /\ CarriedOnce' /\ NoneLost'
      /\ Len(queue'[k]) = Len(queue[k]) - 1
      /\ \A i \in 1 .. Len(queue[k]) - 1 : Msg(k, i)' = Msg(k, i + 1)
  BY <1>1, <1>3, <1>4, <1>5, <1>6, Parts, TailInv, Zenon
<1>8. Flushing'
  <2>1. \A j \in Lanes : j # k => queue'[j] = queue[j]
    BY <1>1, <1>2, Zenon
  <2> QED BY <1>3, <1>6, <1>7, <2>1, Parts, TailFlushing, Zenon
<1>9. TypeOK'
  <2>1. at' \in [Lanes -> Places] /\ queued' \in [Lanes -> BOOLEAN]
    BY <1>1, <1>2, Zenon DEF Places
  <2>2. rx_lock' \in 0 .. N
    BY <1>2, LanesAssumption DEF None
  <2> QED BY <1>7, <2>1, <2>2, Parts, LaneTypes, Zenon DEF TypeOK
<1>10. LockHeld'
  BY <1>1, <1>2, Parts, LanesAssumption DEF LockHeld, Lanes, None
<1>11. /\ CallShape' /\ RangesBounded' /\ NeverRefused' /\ Credit'
       /\ Posted' /\ Queued' /\ WaitingCounts' /\ (NextReady' <=> NextReady)
  BY SameSender, Zenon
<1>12. Storing' /\ SomeoneDrains'
  BY <1>1, <1>2, <1>6, <1>11, Parts DEF Storing, SomeoneDrains
<1> QED BY <1>7, <1>8, <1>9, <1>10, <1>11, <1>12, Zenon DEF IInv, LaneInv

\* A thread moves to another place outside the drain and changes nothing else.
LEMMA MoveInv ==
    ASSUME IInv, NEW k \in Lanes, NEW to \in {"locking", "enqueue"},
           at[k] \in {"looking", "draining"}, at' = [at EXCEPT ![k] = to],
           to = "enqueue" => (NextReady => down) /\ Msg(k, 1).kind = "fused" /\ ~queued[k],
           at[k] = "draining" => to = "enqueue",
           rx_lock' = IF at[k] = "draining" THEN None ELSE rx_lock,
           UNCHANGED <<sender, history, ack, down, refused>>, UNCHANGED <<queue, queued>>,
           UNCHANGED <<mem, placed, pending, rx_signal, waiting>>
    PROVE  IInv'
<1>1. at \in [Lanes -> Places] /\ rx_lock \in 0 .. N
  BY Parts, Zenon DEF TypeOK
<1>2. to \in Places
  BY Zenon DEF Places
<1>3. Ordinals' /\ SignalNumbers' /\ CarriedOnce' /\ NoneLost'
  <2>1. Counted(k) <=> to \in {"looking", "locking", "enqueue", "draining", "storing"}
    BY Zenon DEF Counted
  <2>2. UNCHANGED <<queue, queued, placed, pending, rx_signal>>
    BY Zenon
  <2> QED BY <1>2, <2>1, <2>2, SamePlace, Zenon
<1>4. TypeOK'
  <2>1. at' \in [Lanes -> Places]
    BY <1>1, <1>2
  <2>2. rx_lock' \in 0 .. N
    BY <1>1, LanesAssumption DEF None
  <2> QED BY <2>1, <2>2, Parts, LaneTypes, Zenon DEF TypeOK
<1>5. LockHeld'
  BY <1>1, Parts, LanesAssumption DEF LockHeld, Lanes, None
<1>6. ThreadPlace'
  BY <1>1, Parts, Zenon DEF ThreadPlace, Msg, CarrierKinds
<1>7. /\ CallShape' /\ RangesBounded' /\ NeverRefused' /\ Credit' /\ Flushing'
      /\ Posted' /\ Queued' /\ WaitingCounts' /\ (NextReady' <=> NextReady)
  BY SameSender, Zenon
<1>8. Storing' /\ SomeoneDrains'
  <2>1. down' = down
    BY Zenon
  <2> QED BY <1>1, <1>7, <2>1, Parts DEF Storing, SomeoneDrains
<1> QED BY <1>3, <1>4, <1>5, <1>6, <1>7, <1>8, Zenon DEF IInv, LaneInv

\* After its write is counted a thread finds no signal waiting, or goes to drain.
LEMMA LookWaitingInv ==
    ASSUME SetFacts, IInv, NEW k \in Lanes, LookWaiting(k)
    PROVE  IInv'
<1>1. /\ at[k] = "looking" /\ UNCHANGED <<sender, history, ack, down, refused>>
      /\ UNCHANGED <<mem, placed, pending, rx_signal, waiting>>
      /\ rx_lock' = IF at[k] = "draining" THEN None ELSE rx_lock
  BY Zenon DEF LookWaiting
<1>2. NextReady => waiting # 0
  BY Parts, WindowFacts, Zenon
<1>3. ~queued[k] /\ Head(queue[k]) = Msg(k, 1)
  BY <1>1, Parts, QueueTypes, Zenon DEF ThreadPlace
<1>4. CASE waiting # 0
  <2>1. at' = [at EXCEPT ![k] = "locking"] /\ UNCHANGED <<queue, queued>>
    BY <1>4, Zenon DEF LookWaiting
  <2> QED BY <1>1, <2>1, MoveInv, Zenon
<1>5. CASE waiting = 0 /\ Msg(k, 1).kind = "fused"
  <2>1. at' = [at EXCEPT ![k] = "enqueue"] /\ UNCHANGED <<queue, queued>>
    BY <1>3, <1>5, Zenon DEF LookWaiting, AfterPlaced
  <2> QED BY <1>1, <1>2, <1>3, <1>5, <2>1, MoveInv, Zenon
<1>6. CASE waiting = 0 /\ Msg(k, 1).kind # "fused"
  <2>1. Finish(k)
    BY <1>3, <1>6, Zenon DEF LookWaiting, AfterPlaced
  <2> QED BY <1>1, <1>2, <1>6, <2>1, FinishInv, Zenon
<1> QED BY <1>4, <1>5, <1>6

\* A thread unlocks once nothing more can be published.
LEMMA UnlockInv ==
    ASSUME IInv, NEW k \in Lanes, Unlock(k)
    PROVE  IInv'
<1>1. /\ at[k] = "draining" /\ (NextReady => down)
      /\ rx_lock' = IF at[k] = "draining" THEN None ELSE rx_lock
      /\ UNCHANGED <<sender, history, ack, down, refused>>
      /\ UNCHANGED <<mem, placed, pending, rx_signal, waiting>>
  BY Zenon DEF Unlock
<1>2. Head(queue[k]) = Msg(k, 1)
  BY <1>1, Parts, QueueTypes, Zenon DEF ThreadPlace
<1>3. CASE queued[k]
  <2>1. Finish(k)
    BY <1>3, Zenon DEF Unlock
  <2> QED BY <1>1, <1>3, <2>1, FinishInv, Zenon
<1>4. CASE ~queued[k] /\ Msg(k, 1).kind = "fused"
  <2>1. at' = [at EXCEPT ![k] = "enqueue"] /\ UNCHANGED <<queue, queued>>
    BY <1>2, <1>4, Zenon DEF Unlock, AfterPlaced
  <2> QED BY <1>1, <1>4, <2>1, MoveInv, Zenon
<1>5. CASE ~queued[k] /\ Msg(k, 1).kind # "fused"
  <2>1. Finish(k)
    BY <1>2, <1>5, Zenon DEF Unlock, AfterPlaced
  <2> QED BY <1>1, <1>5, <2>1, FinishInv, Zenon
<1> QED BY <1>3, <1>4, <1>5

\* A thread takes rx_lock to drain.
LEMMA LockToDrainInv ==
    ASSUME IInv, NEW k \in Lanes, LockToDrain(k)
    PROVE  IInv'
<1>1. /\ at[k] = "locking" /\ rx_lock = None /\ rx_lock' = k
      /\ at' = [at EXCEPT ![k] = "draining"] /\ UNCHANGED <<sender, history, ack, down, refused>>
      /\ UNCHANGED <<queue, queued, placed, pending, rx_signal>> /\ UNCHANGED <<mem, waiting>>
  BY Zenon DEF LockToDrain
<1>2. at \in [Lanes -> Places]
  BY Parts, Zenon DEF TypeOK
<1>3. "draining" \in Places
  BY DEF Places
<1>4. TypeOK'
  <2>1. k \in 0 .. N
    BY LanesAssumption DEF Lanes
  <2>2. at' \in [Lanes -> Places]
    BY <1>1, <1>2, <1>3, Zenon
  <2> QED BY <1>1, <2>1, <2>2, Parts, LaneTypes, Zenon DEF TypeOK
<1>5. Ordinals' /\ SignalNumbers' /\ CarriedOnce' /\ NoneLost'
  <2>1. Counted(k)
    BY <1>1 DEF Counted
  <2> QED BY <1>1, <1>3, <2>1, SamePlace, Zenon
<1>6. LockHeld'
  BY <1>1, <1>2, Parts, LanesAssumption DEF LockHeld, None, Lanes
<1>7. ThreadPlace'
  BY <1>1, <1>2, Parts, Zenon DEF ThreadPlace, Msg
<1>8. /\ CallShape' /\ RangesBounded' /\ NeverRefused' /\ Credit' /\ Flushing'
      /\ Posted' /\ Queued' /\ WaitingCounts' /\ (NextReady' <=> NextReady)
  BY <1>1, SameSender, Zenon
<1>9. Storing' /\ SomeoneDrains'
  BY <1>1, <1>2, <1>8, Parts, Zenon DEF Storing, SomeoneDrains
<1> QED BY <1>4, <1>5, <1>6, <1>7, <1>8, <1>9, Zenon DEF IInv, LaneInv
=============================================================================
