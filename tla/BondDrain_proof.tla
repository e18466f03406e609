-------------------------- MODULE BondDrain_proof ---------------------------
(***************************************************************************)
(* Lemmas for Bond_proof: the steps of the drain (bond_drain and bond_signal) *)
(* and a fence's arrival preserve the inductive invariant of BondInv.      *)
(***************************************************************************)
EXTENDS BondFacts_proof

\* The leaves expand the whole inductive invariant and need more than the default time.
USE SMTT(15), ZenonT(20)

\* The next signal's word is stored.
LEMMA StoreWordInv ==
    ASSUME SetFacts, IInv, NEW k \in Lanes, StoreWord(k)
    PROVE  IInv'
<1>1. /\ at[k] = "draining" /\ NextReady
      /\ mem' = [mem EXCEPT ![signals[rx_signal].word] = signals[rx_signal].call]
      /\ at' = [at EXCEPT ![k] = "storing"] /\ UNCHANGED <<sender, history, ack, down, refused>>
      /\ UNCHANGED <<queue, queued, placed, pending, rx_signal>> /\ UNCHANGED <<rx_lock, waiting>>
  BY DEF StoreWord, NextReady
<1>2. at \in [Lanes -> Places] /\ mem \in [Cells -> Nat]
  BY Parts, Zenon DEF TypeOK
<1>3. "storing" \in Places
  BY DEF Places
<1>4. TypeOK'
  <2>1. signals[rx_signal].call \in Nat /\ signals[rx_signal].word \in Cells
    BY <1>1, Parts, WindowFacts
  <2>2. mem' \in [Cells -> Nat] /\ at' \in [Lanes -> Places]
    BY <1>1, <1>2, <1>3, <2>1
  <2> QED BY <1>1, <2>2, Parts, LaneTypes, Zenon DEF TypeOK
<1>5. Ordinals' /\ SignalNumbers' /\ CarriedOnce' /\ NoneLost'
  <2>1. Counted(k)
    BY <1>1 DEF Counted
  <2> QED BY <1>1, <1>3, <2>1, SamePlace, Zenon
<1>6. LockHeld'
  BY <1>1, <1>2, Parts DEF LockHeld
<1>7. ThreadPlace'
  BY <1>1, <1>2, Parts DEF ThreadPlace, Msg
<1>8. /\ CallShape' /\ RangesBounded' /\ NeverRefused' /\ Credit' /\ Flushing'
      /\ Posted' /\ Queued' /\ WaitingCounts' /\ (NextReady' <=> NextReady)
  BY <1>1, SameSender
<1>9. Storing' /\ SomeoneDrains'
  BY <1>1, <1>2, <1>8, Parts DEF Storing, SomeoneDrains
<1> QED BY <1>4, <1>5, <1>6, <1>7, <1>8, <1>9, Zenon DEF IInv, LaneInv

\* The stored signal's slot is freed and the next signal's turn comes.
LEMMA AdvanceInv ==
    ASSUME SetFacts, IInv, NEW k \in Lanes, Advance(k)
    PROVE  IInv'
<1> DEFINE n == rx_signal % BOND_SIGNALS
           full == {i \in Slots : pending[i] # 0}
<1>0. /\ at[k] = "storing" /\ pending' = [pending EXCEPT ![n] = 0]
      /\ rx_signal' = rx_signal + 1 /\ waiting' = waiting - 1
      /\ at' = [at EXCEPT ![k] = "draining"] /\ UNCHANGED <<sender, history, ack, down, refused>>
      /\ UNCHANGED <<queue, queued, mem, placed, rx_lock>>
  BY DEF Advance
<1>1. /\ queue' = queue /\ queued' = queued /\ placed' = placed /\ rx_lock' = rx_lock
      /\ posted' = posted /\ signals' = signals /\ tx_signal' = tx_signal /\ down' = down
  BY <1>0 DEF sender, history
<1>2. /\ NextReady /\ n \in Slots /\ pending[n] = rx_signal
      /\ rx_signal \in 1 .. tx_signal /\ rx_signal \in Nat \ {0} /\ tx_signal \in Nat
      /\ pending \in [Slots -> Nat] /\ waiting \in Nat /\ at \in [Lanes -> Places]
  <2>1. /\ rx_signal \in Nat \ {0} /\ tx_signal \in Nat /\ pending \in [Slots -> Nat]
        /\ waiting \in Nat /\ at \in [Lanes -> Places]
    BY Parts, Zenon DEF TypeOK
  <2>2. NextReady
    BY <1>0, Parts DEF Storing
  <2>3. rx_signal \in 1 .. tx_signal /\ n \in Slots
    BY <2>1, <2>2, Parts, WindowFacts
  <2> QED BY <2>1, <2>2, <2>3 DEF NextReady
<1> HIDE DEF n
<1>3. waiting' \in Nat /\ WaitingCounts'
  <2>1. full \in SUBSET Slots /\ n \in full
    BY <1>2
  <2>2. {i \in Slots : pending'[i] # 0} = full \ {n}
    BY <1>0, <1>2
  <2>3. waiting = Cardinality(full)
    BY Parts DEF WaitingCounts
  <2> HIDE DEF full
  <2>4. Cardinality(full \ {n}) = Cardinality(full) - 1 /\ full \ {n} \in SUBSET Slots
    BY <2>1, Zenon DEF SetFacts, SlotCounts
  <2>5. Cardinality(full \ {n}) \in Nat
    BY <2>4, Zenon DEF SetFacts, SlotCounts
  <2> QED BY <1>0, <2>2, <2>3, <2>4, <2>5, Zenon DEF WaitingCounts
<1>4. TypeOK'
  <2>1. pending' \in [Slots -> Nat] /\ at' \in [Lanes -> Places] /\ rx_signal' \in Nat \ {0}
    BY <1>0, <1>2 DEF Places
  <2> QED BY <1>0, <1>3, <2>1, Parts, LaneTypes, Zenon DEF TypeOK
<1>5. \A j \in Lanes : \A i : Msg(j, i)' = Msg(j, i)
  BY <1>1 DEF Msg
<1>6. \A j \in Lanes : \A i : Unplaced(j, i)' <=> Unplaced(j, i)
  BY <1>0, <1>2, <1>5 DEF Unplaced, Counted
<1>7. \A j \in Lanes : \A i : Carrying(j, i)' <=> Carrying(j, i)
  BY <1>1, <1>5 DEF Carrying
<1>8. Ordinals'
  <2>1. \A j \in Lanes : \A i : Ordinal(j, i) => Ordinal(j, i)'
    BY <1>1, <1>5, <1>6 DEF Ordinal
  <2>2. \A j \in Lanes : LaneOrdinals(j) => LaneOrdinals(j)'
    BY <1>1, <1>5, <2>1 DEF LaneOrdinals
  <2> QED BY <1>1, <2>2, Parts DEF Ordinals
<1>9. SignalNumbers'
  <2> SUFFICES ASSUME ~down, NEW j \in Lanes, NEW i \in 1 .. Len(queue[j])
               PROVE  SignalNumber(j, i)'
    BY <1>1 DEF SignalNumbers
  <2>1. SignalNumber(j, i) /\ Ordinal(j, i)
    BY Parts DEF SignalNumbers, Ordinals, LaneOrdinals
  <2>2. Msg(j, i).seq \in Nat /\ Msg(j, i).ord \in Nat /\ placed[j] \in Nat
        /\ Msg(j, i).kind \in Kinds
    BY Parts, QueueTypes
  <2>3. signals[rx_signal].need[j] \in Nat /\ signals[rx_signal].need[j] <= placed[j]
    <3>1. signals \in Seq([call : Nat, word : Cells, need : [Lanes -> Nat], fenced : Nat])
      BY Parts, Zenon DEF TypeOK
    <3>2. rx_signal \in 1 .. Len(signals)
      BY <1>2, Parts DEF Posted
    <3>3. signals[rx_signal] \in [call : Nat, word : Cells, need : [Lanes -> Nat], fenced : Nat]
      BY <3>1, <3>2, SeqElement, Zenon
    <3> QED BY <3>3, <1>2 DEF NextReady
  <2>4. Unplaced(j, i) /\ Msg(j, i).seq # 0 => Msg(j, i).seq # rx_signal
    <3> SUFFICES ASSUME Unplaced(j, i), Msg(j, i).seq = rx_signal PROVE FALSE
      OBVIOUS
    <3>1. Msg(j, i).kind \in {"write_n", "fused"}
      BY <2>1, <1>2, Zenon DEF Unplaced, WriteKinds, SignalNumber
    <3>2. Msg(j, i).ord <= signals[rx_signal].need[j]
      BY <2>1, <2>2, <2>3, <3>1 DEF SignalNumber
    <3>3. placed[j] < Msg(j, i).ord
      BY <2>1 DEF Ordinal
    <3> QED BY <2>2, <2>3, <3>2, <3>3
  <2>5. Unplaced(j, i) /\ Msg(j, i).seq # 0 => rx_signal + 1 <= Msg(j, i).seq
    <3>1. Unplaced(j, i) /\ Msg(j, i).seq # 0 => rx_signal <= Msg(j, i).seq
      BY <2>1, Zenon DEF SignalNumber
    <3> QED BY <1>2, <2>2, <2>4, <3>1
  <2> QED BY <1>0, <1>1, <1>5, <1>6, <2>1, <2>5, Zenon DEF SignalNumber
<1>10. CarriedOnce'
  <2> SUFFICES ASSUME ~down, NEW j \in Lanes, NEW i \in 1 .. Len(queue[j]), Carrying(j, i)
               PROVE  NotElsewhere(j, i)'
    BY <1>1, <1>7 DEF CarriedOnce
  <2>1. NotElsewhere(j, i) /\ Msg(j, i).seq \in Nat
    BY Parts, QueueTypes DEF CarriedOnce
  <2>2. rx_signal + 1 <= Msg(j, i).seq
    BY <1>2, <2>1 DEF NotElsewhere
  <2>3. \A l \in Slots : pending'[l] # Msg(j, i).seq
    BY <1>0, <1>2, <2>1, <2>2 DEF NotElsewhere
  <2> QED BY <1>0, <1>1, <1>5, <1>7, <2>1, <2>2, <2>3, Zenon DEF NotElsewhere
<1>11. Queued'
  BY <1>0, <1>1, <1>2, Parts DEF Queued, n
<1>12. NoneLost'
  <2> SUFFICES ASSUME ~down, NEW s \in rx_signal + 1 .. tx_signal
               PROVE  pending'[s % BOND_SIGNALS] = s \/ Carried(s)'
    BY <1>0, <1>1 DEF NoneLost
  <2>1. pending[s % BOND_SIGNALS] = s \/ Carried(s)
    BY <1>2, Parts DEF NoneLost
  <2>2. Carried(s)' <=> Carried(s)
    BY <1>1, <1>5, <1>7 DEF Carried
  <2>3. s % BOND_SIGNALS \in Slots /\ s # rx_signal
    BY <1>2, Parts, WindowFacts
  <2> QED BY <1>0, <1>2, <2>1, <2>2, <2>3
<1>13. LockHeld' /\ Storing'
  BY <1>0, <1>1, <1>2, Parts DEF LockHeld, Storing
<1>14. ThreadPlace'
  BY <1>0, <1>1, <1>2, Parts, Zenon DEF ThreadPlace, Msg
<1>15. SomeoneDrains'
  BY <1>0, <1>2 DEF SomeoneDrains
<1>16. Credit'
  <2>1. /\ tx_fenced \in Nat /\ tx_fenced' = tx_fenced /\ tx_signal' = tx_signal /\ pc' = pc
        /\ cur' = cur /\ ack' = ack /\ lane' = lane
    BY <1>0, Parts, Zenon DEF TypeOK, sender
  <2> QED BY <1>0, <1>2, <2>1, Parts DEF Credit
<1>17. CallShape' /\ RangesBounded' /\ NeverRefused' /\ Flushing'
  BY <1>0, SameSender
<1>18. Posted'
  <2>1. rx_signal' <= tx_signal' + 1
    BY <1>0, <1>1, <1>2
  <2> QED BY <1>1, <2>1, Parts, Zenon DEF Posted
<1> QED BY <1>3, <1>4, <1>8, <1>9, <1>10, <1>11, <1>12, <1>13, <1>14, <1>15, <1>16, <1>17, <1>18,
           Zenon DEF IInv, LaneInv

\* A signal joins the queue: it is never refused.
LEMMA EnqueueInv ==
    ASSUME SetFacts, IInv, NEW k \in Lanes, Enqueue(k)
    PROVE  IInv'
<1> DEFINE seq == Msg(k, 1).seq
           n   == seq % BOND_SIGNALS
           full == {i \in Slots : pending[i] # 0}
<1>1. /\ at[k] = "enqueue" /\ rx_lock = None /\ Head(queue[k]) = Msg(k, 1)
      /\ UNCHANGED <<sender, history, ack, queue, mem, placed, rx_signal>>
  <2>1. at[k] = "enqueue" /\ rx_lock = None
        /\ UNCHANGED <<sender, history, ack, queue, mem, placed, rx_signal>>
    BY Zenon DEF Enqueue
  <2> QED BY <2>1, Parts, QueueTypes, Zenon DEF ThreadPlace
<1>2. /\ queue[k] # <<>> /\ 1 \in 1 .. Len(queue[k]) /\ Msg(k, 1).kind \in CarrierKinds
      /\ ~queued[k] /\ seq \in Nat
  <2>1. queue[k] # <<>> /\ Msg(k, 1).kind \in CarrierKinds /\ ~queued[k]
    BY <1>1, Parts, Zenon DEF ThreadPlace
  <2> QED BY <2>1, Parts, QueueTypes
<1>3. Carrying(k, 1)
  BY <1>2 DEF Carrying
<1>4. \A j \in Lanes : \A i : Msg(j, i)' = Msg(j, i)
  BY <1>1 DEF Msg
<1>5. /\ tx_signal \in Nat /\ rx_signal \in Nat \ {0} /\ pending \in [Slots -> Nat]
      /\ queued \in [Lanes -> BOOLEAN] /\ waiting \in Nat /\ at \in [Lanes -> Places]
  BY Parts, Zenon DEF TypeOK
<1>6. CASE down
  <2>1. /\ UNCHANGED <<sender, history, ack, down, refused>>
        /\ at' = [at EXCEPT ![k] = "idle"] /\ UNCHANGED <<queued, rx_lock, pending, waiting>>
    BY <1>6, <1>1, Parts, Zenon DEF Enqueue, NeverRefused, TypeOK
  <2>2. TypeOK'
    <3>1. at' \in [Lanes -> Places]
      BY <1>5, <2>1 DEF Places
    <3> QED BY <1>1, <2>1, <3>1, Parts, LaneTypes, Zenon DEF TypeOK
  <2>3. /\ CallShape' /\ RangesBounded' /\ NeverRefused' /\ Credit' /\ Flushing'
        /\ Posted' /\ Queued' /\ WaitingCounts' /\ (NextReady' <=> NextReady)
    BY <1>1, <2>1, SameSender
  <2>4. LockHeld'
    BY <1>1, <1>5, <2>1, Parts DEF LockHeld
  <2>5. ThreadPlace'
    BY <1>1, <1>2, <1>5, <2>1, Parts, Zenon DEF ThreadPlace, Msg
  <2>6. down'
    BY <1>6, <2>1
  <2>7. Ordinals' /\ SignalNumbers' /\ CarriedOnce' /\ NoneLost' /\ SomeoneDrains'
    BY <2>6, Zenon DEF Ordinals, SignalNumbers, CarriedOnce, NoneLost, SomeoneDrains
  <2>8. Storing'
    BY <1>5, <2>1, <2>3, Parts DEF Storing
  <2> QED BY <2>2, <2>3, <2>4, <2>5, <2>7, <2>8, Zenon DEF IInv, LaneInv
<1>7. CASE ~down
  <2>1. /\ NotElsewhere(k, 1) /\ rx_signal <= seq /\ seq \in 1 .. tx_signal
    <3>1. NotElsewhere(k, 1)
      BY <1>2, <1>3, <1>7, Parts DEF CarriedOnce
    <3>2. SignalNumber(k, 1)
      BY <1>2, <1>7, Parts DEF SignalNumbers
    <3>3. rx_signal <= seq
      BY <3>1 DEF NotElsewhere
    <3> QED BY <1>2, <3>1, <3>2, <3>3, Zenon DEF SignalNumber, CarrierKinds
  <2>2. InWindow(seq) /\ n \in Slots
    <3> HIDE DEF seq
    <3>1. seq <= tx_signal
      BY <1>5, <2>1
    <3> QED BY <1>2, <2>1, <3>1, Parts, WindowFacts
  <2>3. pending[n] = 0
    <3> SUFFICES ASSUME pending[n] # 0 PROVE FALSE
      OBVIOUS
    <3> DEFINE p == pending[n]
    <3>1. p \in Nat /\ rx_signal <= p /\ p <= tx_signal /\ n = p % BOND_SIGNALS
      BY <1>5, <2>2, Parts, Zenon DEF Queued
    <3>2. InWindow(p)
      <4> HIDE DEF p, n
      <4> QED BY <3>1, Parts, WindowFacts, Zenon
    <3>3. p = seq
      <4> HIDE DEF p, seq
      <4>1. /\ rx_signal <= p /\ p < rx_signal + BOND_SIGNALS
            /\ rx_signal <= seq /\ seq < rx_signal + BOND_SIGNALS
        BY <1>2, <1>5, <2>2, <3>1, <3>2, SignalsAssumption DEF InWindow
      <4> QED BY <1>2, <1>5, <3>1, <4>1, SlotsDistinct, SignalsAssumption, Zenon
    <3> QED BY <2>1, <2>2, <3>3 DEF NotElsewhere
  <2>4. /\ rx_lock' = k /\ pending' = [pending EXCEPT ![n] = seq] /\ waiting' = waiting + 1
        /\ queued' = [queued EXCEPT ![k] = TRUE] /\ at' = [at EXCEPT ![k] = "draining"]
        /\ UNCHANGED <<sender, history, ack, down, refused>>
    <3> HIDE DEF n
    <3> QED BY <1>1, <1>7, <2>2, <2>3, Zenon DEF Enqueue, n
  <2>5. /\ queue' = queue /\ placed' = placed /\ rx_signal' = rx_signal /\ posted' = posted
        /\ signals' = signals /\ tx_signal' = tx_signal /\ down' = down
    BY <1>1, <2>4, Zenon DEF sender, history
  <2> HIDE DEF n, seq
  <2>6. TypeOK'
    <3>1. at' \in [Lanes -> Places] /\ queued' \in [Lanes -> BOOLEAN]
      BY <1>5, <2>4 DEF Places
    <3>2. waiting' \in Nat /\ pending' \in [Slots -> Nat]
      <4>1. seq \in Nat
        BY <1>2
      <4>2. waiting' = waiting + 1 /\ pending' = [pending EXCEPT ![n] = seq]
        BY <2>4
      <4>3. waiting' \in Nat
        BY <1>5, <4>2
      <4>4. pending' \in [Slots -> Nat]
        BY <1>5, <2>2, <4>1, <4>2
      <4> QED BY <4>3, <4>4
    <3>3. rx_lock' \in 0 .. N
      BY <2>4, LanesAssumption DEF Lanes
    <3> QED BY <1>1, <2>4, <3>1, <3>2, <3>3, Parts, LaneTypes, Zenon DEF TypeOK
  <2>7. CallShape' /\ RangesBounded' /\ NeverRefused' /\ Credit' /\ Flushing'
    BY <1>1, <2>4, SameSender, Zenon
  <2>8. LockHeld' /\ ThreadPlace' /\ Posted'
    <3>1. LockHeld'
      BY <1>1, <1>5, <2>4, Parts, LanesAssumption DEF LockHeld, None, Lanes
    <3>2. ThreadPlace'
      BY <1>2, <1>4, <1>5, <2>4, <2>5, Parts, Zenon DEF ThreadPlace
    <3>3. Posted'
      BY <2>5, Parts, Zenon DEF Posted
    <3> QED BY <3>1, <3>2, <3>3
  <2>9. \A j \in Lanes : \A i : Unplaced(j, i)' <=> Unplaced(j, i)
    BY <1>1, <1>4, <1>5, <2>4, Zenon DEF Unplaced, Counted
  <2>10. \A j \in Lanes : \A i : Carrying(j, i)' <=> Carrying(j, i) /\ ~(j = k /\ i = 1)
    BY <1>4, <1>5, <2>4, Zenon DEF Carrying
  <2>11. Ordinals' /\ SignalNumbers'
    <3>1. \A j \in Lanes : \A i : Ordinal(j, i) => Ordinal(j, i)'
      BY <1>4, <2>5, <2>9 DEF Ordinal
    <3>2. \A j \in Lanes : LaneOrdinals(j) => LaneOrdinals(j)'
      BY <1>4, <2>5, <3>1, Zenon DEF LaneOrdinals
    <3>3. \A j \in Lanes : \A i : SignalNumber(j, i) => SignalNumber(j, i)'
      BY <1>4, <2>5, <2>9 DEF SignalNumber
    <3>4. Ordinals'
      BY <2>5, <3>2, Parts DEF Ordinals
    <3>5. SignalNumbers'
      BY <2>5, <3>3, Parts DEF SignalNumbers
    <3> QED BY <3>4, <3>5
  <2>12. CarriedOnce'
    <3> SUFFICES ASSUME NEW j \in Lanes, NEW i \in 1 .. Len(queue[j]), Carrying(j, i)'
                 PROVE  NotElsewhere(j, i)'
      BY <2>5 DEF CarriedOnce
    <3>1. Carrying(j, i) /\ ~(j = k /\ i = 1)
      BY <2>10
    <3>2. NotElsewhere(j, i)
      BY <1>7, <3>1, Parts DEF CarriedOnce
    <3>3. Msg(j, i).seq # seq
      BY <2>1, <3>1 DEF NotElsewhere, seq
    <3>4. \A l \in Slots : pending'[l] # Msg(j, i).seq
      BY <1>5, <2>4, <3>2, <3>3, Zenon DEF NotElsewhere
    <3> QED BY <1>4, <2>5, <2>10, <3>2, <3>4, Zenon DEF NotElsewhere
  <2>13. Queued'
    BY <1>5, <2>1, <2>2, <2>4, <2>5, Parts DEF Queued, n
  <2>14. NoneLost'
    <3> SUFFICES ASSUME NEW s \in rx_signal .. tx_signal, s # seq
                 PROVE  pending'[s % BOND_SIGNALS] = s \/ Carried(s)'
      BY <1>5, <2>2, <2>4, <2>5, Zenon DEF NoneLost, n
    <3>1. CASE pending[s % BOND_SIGNALS] = s
      <4>1. s \in Nat /\ s # 0
        BY <1>5
      <4>2. s % BOND_SIGNALS \in Slots
        BY <4>1, Parts, WindowFacts
      <4>3. s % BOND_SIGNALS # n
        BY <2>3, <3>1, <4>1
      <4> QED BY <1>5, <2>4, <3>1, <4>2, <4>3, Zenon
    <3>2. CASE Carried(s)
      <4>1. PICK j \in Lanes : \E i \in 1 .. Len(queue[j]) : Carrying(j, i) /\ Msg(j, i).seq = s
        BY <3>2 DEF Carried
      <4>2. PICK i \in 1 .. Len(queue[j]) : Carrying(j, i) /\ Msg(j, i).seq = s
        BY <4>1
      <4>3. Carrying(j, i)'
        BY <2>10, <4>2 DEF seq
      <4> QED BY <1>4, <2>5, <4>2, <4>3 DEF Carried
    <3> QED BY <1>7, <3>1, <3>2, Parts DEF NoneLost
  <2>15. WaitingCounts'
    <3>1. full \in SUBSET Slots /\ n \in Slots \ full
      BY <2>2, <2>3
    <3>2. {i \in Slots : pending'[i] # 0} = full \cup {n}
      <4>1. seq # 0
        BY <1>5, <2>1
      <4> QED BY <1>5, <2>2, <2>4, <4>1
    <3>3. waiting = Cardinality(full)
      BY Parts DEF WaitingCounts
    <3> HIDE DEF full
    <3>4. Cardinality(full \cup {n}) = Cardinality(full) + 1
      BY <3>1, Zenon DEF SetFacts, SlotCounts
    <3> QED BY <2>4, <3>2, <3>3, <3>4, Zenon DEF WaitingCounts
  <2>16. Storing'
    BY <1>1, <1>5, <2>4, Parts, LanesAssumption DEF Storing, LockHeld, None, Lanes
  <2>17. SomeoneDrains'
    BY <1>5, <2>4 DEF SomeoneDrains
  <2> QED BY <2>6, <2>7, <2>8, <2>11, <2>12, <2>13, <2>14, <2>15, <2>16, <2>17,
             Zenon DEF IInv, LaneInv
<1> QED BY <1>6, <1>7

\* A fence is answered.  When it is the last lane's, every lane is empty and
\* every thread idle, so that a signal still out would be ready with nobody
\* to publish it: there is none.
LEMMA TakeFenceInv ==
    ASSUME IInv, NEW k \in Lanes, TakeFence(k)
    PROVE  IInv'
<1>1. /\ at[k] = "idle" /\ queue[k] # <<>> /\ ~down /\ Msg(k, 1).kind = "fence"
      /\ queue' = [queue EXCEPT ![k] = Tail(@)] /\ ack' = TRUE
      /\ UNCHANGED <<sender, receiver, history, down, refused>>
      /\ 1 \in 1 .. Len(queue[k])
  <2>1. Msg(k, 1) = Head(queue[k])
    BY Parts, QueueTypes, Zenon
  <2> QED BY <2>1, Parts, QueueTypes DEF TakeFence
<1>2. /\ at' = at /\ queued' = queued /\ placed' = placed /\ rx_lock' = rx_lock
      /\ pending' = pending /\ waiting' = waiting /\ rx_signal' = rx_signal /\ mem' = mem
      /\ posted' = posted /\ signals' = signals /\ calls' = calls /\ tx_signal' = tx_signal
      /\ tx_fenced' = tx_fenced /\ pc' = pc /\ lane' = lane /\ cur' = cur /\ seen' = seen
      /\ down' = down /\ refused' = refused /\ flushed' = flushed /\ ack' \in BOOLEAN
  BY <1>1, Zenon DEF sender, receiver, history
<1>3. at' = [at EXCEPT ![k] = "idle"] /\ queued' = [queued EXCEPT ![k] = FALSE]
  <2>1. at \in [Lanes -> Places] /\ queued \in [Lanes -> BOOLEAN]
    BY Parts, Zenon DEF TypeOK
  <2> QED BY <1>1, <1>2, <2>1, Parts, Zenon DEF ThreadPlace
<1>4. ~Unplaced(k, 1) /\ ~Carrying(k, 1)
  BY <1>1, Zenon DEF Unplaced, Carrying, WriteKinds, CarrierKinds
<1>5. /\ queue' \in [Lanes -> Seq(Message)]
      /\ ThreadPlace' /\ Ordinals' /\ SignalNumbers' /\ CarriedOnce' /\ NoneLost'
      /\ Len(queue'[k]) = Len(queue[k]) - 1
      /\ \A i \in 1 .. Len(queue[k]) - 1 : Msg(k, i)' = Msg(k, i + 1)
  BY <1>1, <1>2, <1>3, <1>4, Parts, TailInv, Zenon
<1>6. (\A j \in Lanes : j # k => queue'[j] = queue[j]) /\ queue'[k] \in Seq(Message)
  BY <1>1, <1>5, Parts, QueueTypes, Zenon
<1>7. TypeOK'
  BY <1>1, <1>2, <1>5, Parts, Zenon DEF TypeOK
<1>8. /\ pc = "await" /\ ~ack /\ k = lane /\ Len(queue[k]) = 1
      /\ \A j \in Lanes : j < lane => queue[j] = <<>>
      /\ \A j \in Lanes : \A i \in 1 .. Len(queue[j]) : Msg(j, i).kind = "fence" => j = lane
  BY <1>1, Parts, Zenon DEF Flushing
<1>9. queue'[k] = <<>>
  BY <1>5, <1>6, <1>8, SeqLen
<1>10. Flushing'
  <2>1. \A j \in Lanes : \A i \in 1 .. Len(queue'[j]) : Msg(j, i)'.kind # "fence"
    <3> SUFFICES ASSUME NEW j \in Lanes, NEW i \in 1 .. Len(queue'[j]), Msg(j, i)'.kind = "fence"
                 PROVE  FALSE
      OBVIOUS
    <3>1. CASE j # k
      BY <1>6, <1>8, <3>1, Zenon DEF Msg
    <3>2. CASE j = k
      BY <1>5, <1>8, <3>2
    <3> QED BY <3>1, <3>2
  <2> QED BY <1>2, <1>1, <1>6, <1>8, <1>9, <2>1, Zenon DEF Flushing, Lanes
<1>11. /\ LockHeld' /\ CallShape' /\ RangesBounded' /\ Posted' /\ Queued' /\ WaitingCounts'
       /\ NeverRefused'
  <2>1. LockHeld' /\ Posted' /\ Queued' /\ WaitingCounts'
    BY <1>2, Parts, Zenon DEF LockHeld, Posted, Queued, WaitingCounts
  <2> QED BY <1>2, <2>1, Parts, Zenon DEF CallShape, RangesBounded, Bounded, NeverRefused
<1>12. Storing' /\ SomeoneDrains'
  <2>1. NextReady' <=> NextReady
    BY <1>2, Zenon DEF NextReady
  <2> QED BY <1>2, <2>1, Parts, Zenon DEF Storing, SomeoneDrains
<1>13. /\ tx_signal \in Nat /\ rx_signal \in Nat \ {0} /\ tx_fenced \in Nat /\ lane \in Lanes
  BY Parts, Zenon DEF TypeOK
<1>14. lane = N - 1 => tx_signal < rx_signal
  <2> SUFFICES ASSUME lane = N - 1, rx_signal <= tx_signal PROVE FALSE
    BY <1>13
  <2>1. \A j \in Lanes : queue'[j] = <<>>
    BY <1>6, <1>8, <1>9, LanesAssumption DEF Lanes
  <2>2. \A j \in Lanes : at[j] = "idle"
    BY <1>2, <1>5, <2>1, Zenon DEF ThreadPlace
  <2>3. \A j \in Lanes : placed[j] = posted[j]
    BY <1>1, <1>2, <1>5, <2>1 DEF Ordinals, LaneOrdinals
  <2>4. ~Carried(rx_signal)'
    <3>1. Len(<<>>) = 0
      BY SeqLen
    <3>2. \A j \in Lanes : 1 .. Len(queue'[j]) = {}
      BY <2>1, <3>1
    <3> QED BY <3>2 DEF Carried
  <2>5. rx_signal \in rx_signal .. tx_signal /\ rx_signal \in 1 .. tx_signal
    BY <1>13
  <2>6. pending[rx_signal % BOND_SIGNALS] = rx_signal
    BY <1>1, <1>2, <1>5, <2>4, <2>5 DEF NoneLost
  <2>7. NextReady
    BY <2>3, <2>5, <2>6, Parts, Zenon DEF NextReady, Posted
  <2> QED BY <1>1, <2>2, <2>7, Parts, Zenon DEF SomeoneDrains
<1>15. Credit'
  BY <1>2, <1>8, <1>13, <1>14, Parts, Zenon DEF Credit
<1> QED BY <1>5, <1>7, <1>10, <1>11, <1>12, <1>15, Zenon DEF IInv, LaneInv

=============================================================================
