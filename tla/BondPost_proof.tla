--------------------------- MODULE BondPost_proof ---------------------------
(***************************************************************************)
(* Lemmas for Bond_proof: a step that puts messages behind those already   *)
(* on the lanes preserves the inductive invariant of BondInv, whatever it  *)
(* puts there in order.  Posting a call is such a step, and so is sending  *)
(* a fence.                                                                *)
(***************************************************************************)
EXTENDS BondFacts_proof

\* The leaves expand the whole inductive invariant and need more than the default time.
USE SMTT(15), ZenonT(20)

-----------------------------------------------------------------------------
(* Posting behind the messages already on the lanes.                       *)

\* The indices a step adds to lane k.
New(k) == Len(queue[k]) + 1 .. Len(queue'[k])

\* The lanes keep what they held, and the threads stay where they are.
Extends == /\ UNCHANGED <<at, queued, placed, rx_lock, pending, rx_signal, waiting, down>>
           /\ ~down /\ queue' \in [Lanes -> Seq(Message)] /\ posted' \in [Lanes -> Nat]
           /\ \A k \in Lanes : /\ Len(queue[k]) <= Len(queue'[k])
                               /\ \A i \in 1 .. Len(queue[k]) : queue'[k][i] = queue[k][i]

\* At most one write a lane is new, first there, and ordinals follow posted.
NewOrdinals(k) ==
    /\ \A i \in New(k) : queue'[k][i].ord = posted'[k]
    /\ \/ posted'[k] = posted[k] /\ \A i \in New(k) : queue'[k][i].kind \notin WriteKinds
       \/ /\ posted'[k] = posted[k] + 1 /\ Len(queue[k]) + 1 \in New(k)
          /\ \A i \in New(k) : queue'[k][i].kind \in WriteKinds <=> i = Len(queue[k]) + 1

\* New messages name the new signal, if any, and one of them carries it.
NewNumbers ==
    /\ Len(signals') = tx_signal' /\ tx_signal' \in {tx_signal, tx_signal + 1}
    /\ \A s \in 1 .. tx_signal : signals'[s] = signals[s]
    /\ tx_signal' # tx_signal => \A k \in Lanes : signals'[tx_signal'].need[k] = posted'[k]
    /\ \A k \in Lanes : \A i \in New(k) :
          IF queue'[k][i].kind \in {"write", "fence"} THEN queue'[k][i].seq = 0
          ELSE queue'[k][i].seq = tx_signal + 1 /\ tx_signal' = tx_signal + 1
    /\ tx_signal' # tx_signal =>
          \E k \in Lanes : \E i \in New(k) : queue'[k][i].kind \in CarrierKinds
    /\ \A k, l \in Lanes : \A i \in New(k), j \in New(l) :
          queue'[k][i].kind \in CarrierKinds /\ queue'[l][j].kind \in CarrierKinds => k = l /\ i = j

\* Old messages are as placed and as carried as before; a new one not at all.
LEMMA ExtendFacts ==
    ASSUME TypeOK, ThreadPlace, Extends
    PROVE  \A k \in Lanes :
             /\ Len(queue[k]) \in Nat /\ Len(queue'[k]) \in Nat
             /\ \A i \in 1 .. Len(queue[k]) : /\ Msg(k, i)' = Msg(k, i)
                                              /\ Unplaced(k, i)' <=> Unplaced(k, i)
                                              /\ Carrying(k, i)' <=> Carrying(k, i)
             /\ \A i \in New(k) : /\ Msg(k, i)' = queue'[k][i] /\ Msg(k, i)'.ord \in Nat
                                  /\ Msg(k, i)'.seq \in Nat
                                  /\ Unplaced(k, i)' <=> queue'[k][i].kind \in WriteKinds
                                  /\ Carrying(k, i)' <=> queue'[k][i].kind \in CarrierKinds
<1> SUFFICES ASSUME NEW k \in Lanes
             PROVE  /\ Len(queue[k]) \in Nat /\ Len(queue'[k]) \in Nat
                    /\ \A i \in 1 .. Len(queue[k]) : /\ Msg(k, i)' = Msg(k, i)
                                                     /\ Unplaced(k, i)' <=> Unplaced(k, i)
                                                     /\ Carrying(k, i)' <=> Carrying(k, i)
                    /\ \A i \in New(k) : /\ Msg(k, i)' = queue'[k][i] /\ Msg(k, i)'.ord \in Nat
                                         /\ Msg(k, i)'.seq \in Nat
                                         /\ Unplaced(k, i)' <=> queue'[k][i].kind \in WriteKinds
                                         /\ Carrying(k, i)' <=> queue'[k][i].kind \in CarrierKinds
  OBVIOUS
<1>1. queue'[k] \in Seq(Message) /\ Len(queue'[k]) \in Nat /\ Len(queue[k]) \in Nat
  BY QueueTypes, SeqLen DEF Extends
<1>2. (Counted(k)' <=> Counted(k)) /\ queued'[k] = queued[k]
  BY DEF Extends, Counted
<1>3. \A i : Msg(k, i)' = queue'[k][i]
  BY DEF Msg
<1>4. ASSUME NEW i \in 1 .. Len(queue[k])
      PROVE  /\ Msg(k, i)' = Msg(k, i) /\ (Unplaced(k, i)' <=> Unplaced(k, i))
             /\ (Carrying(k, i)' <=> Carrying(k, i))
  <2>1. Msg(k, i)' = Msg(k, i)
    BY DEF Extends, Msg
  <2> QED BY <1>2, <2>1 DEF Unplaced, Carrying
<1>5. ASSUME NEW i \in New(k)
      PROVE  /\ Msg(k, i)'.ord \in Nat /\ Msg(k, i)'.seq \in Nat
             /\ Unplaced(k, i)' <=> queue'[k][i].kind \in WriteKinds
             /\ Carrying(k, i)' <=> queue'[k][i].kind \in CarrierKinds
  <2>1. i \in 1 .. Len(queue'[k]) /\ (i = 1 => Len(queue[k]) = 0)
    BY <1>1 DEF New
  <2>2. queue'[k][i] \in Message
    BY <1>1, <2>1, SeqElement
  <2>3. i = 1 => ~Counted(k) /\ ~queued[k]
    BY <2>1, QueueTypes DEF ThreadPlace, Counted
  <2>4. queue'[k][i].ord \in Nat /\ queue'[k][i].seq \in Nat
    BY <2>2 DEF Message
  <2> QED BY <1>2, <1>3, <2>3, <2>4 DEF Unplaced, Carrying
<1> QED BY <1>1, <1>3, <1>4, <1>5

\* Ordinals still run on along each lane behind the new messages.
LEMMA ExtendOrdinals ==
    ASSUME TypeOK, LaneInv, Extends, \A k \in Lanes : NewOrdinals(k)
    PROVE  Ordinals'
<1>0. /\ LockHeld /\ ThreadPlace /\ Ordinals /\ SignalNumbers /\ CarriedOnce /\ Posted /\ Queued
      /\ NoneLost /\ WaitingCounts /\ Storing /\ SomeoneDrains
  BY Zenon DEF LaneInv
<1> SUFFICES ASSUME NEW k \in Lanes PROVE LaneOrdinals(k)'
  BY <1>0 DEF Ordinals, Extends
<1> DEFINE L == Len(queue[k])
           M == Len(queue'[k])
<1>1. /\ L \in Nat /\ M \in Nat /\ L <= M /\ placed[k] \in Nat /\ posted[k] \in Nat
      /\ posted'[k] \in Nat /\ placed'[k] = placed[k] /\ LaneOrdinals(k)
      /\ posted'[k] \in {posted[k], posted[k] + 1}
  BY <1>0, ExtendFacts, QueueTypes, Zenon DEF Extends, Ordinals, NewOrdinals
<1>2. (queue[k] = <<>> <=> L = 0) /\ (queue'[k] = <<>> <=> M = 0)
  <2>1. queue'[k] \in Seq(Message)
    BY DEF Extends
  <2> QED BY <2>1, SeqLen, QueueTypes
<1>3. \A i \in 1 .. L : Ordinal(k, i) /\ Msg(k, i)' = Msg(k, i) /\ (Unplaced(k, i)' <=> Unplaced(k, i))
                        /\ Msg(k, i).ord \in Nat
  BY <1>0, <1>1, ExtendFacts, QueueTypes, Zenon DEF LaneOrdinals
<1>4. \A i \in New(k) : /\ Msg(k, i)' = queue'[k][i] /\ Msg(k, i)'.ord = posted'[k]
                        /\ Unplaced(k, i)' <=> Msg(k, i)'.kind \in WriteKinds
                        /\ Msg(k, i)'.kind \in WriteKinds =>
                              i = L + 1 /\ posted'[k] = posted[k] + 1
                        /\ i = L + 1 /\ posted'[k] = posted[k] + 1 => Msg(k, i)'.kind \in WriteKinds
                        /\ i > L + 1 => Msg(k, i)'.kind \notin WriteKinds
  BY <1>0, <1>1, ExtendFacts DEF NewOrdinals, New
<1>5. L + 1 \notin New(k) => posted'[k] = posted[k]
  BY <1>1 DEF NewOrdinals
<1>6. IF L = 0 THEN placed[k] = posted[k] ELSE Msg(k, L).ord = posted[k]
  BY <1>1, <1>2 DEF LaneOrdinals
<1>7. placed[k] <= posted[k] /\ \A i \in 1 .. L : placed[k] <= Msg(k, i).ord /\ Msg(k, i).ord <= posted[k]
  <2>1. \A i \in 1 .. L : placed[k] <= Msg(k, i).ord /\ Msg(k, i).ord <= posted[k]
    BY <1>3 DEF Ordinal
  <2>2. L # 0 => L \in 1 .. L
    BY <1>1
  <2> QED BY <1>1, <1>6, <2>1, <2>2
<1> HIDE DEF L, M
<1>8. ASSUME NEW i \in 1 .. L PROVE Ordinal(k, i)'
  <2>1. \A j \in 1 .. i - 1 : j \in 1 .. L
    BY <1>1
  <2>2. i > 1 => i - 1 \in 1 .. L
    BY <1>1
  <2>3. Ordinal(k, i) /\ Msg(k, i)' = Msg(k, i) /\ (Unplaced(k, i)' <=> Unplaced(k, i)) /\ Msg(k, i).ord \in Nat
    BY <1>3
  <2>4. \A j \in 1 .. i - 1 : Msg(k, j)' = Msg(k, j)
    BY <1>3, <2>1
  <2>5. i > 1 => Msg(k, i - 1)' = Msg(k, i - 1)
    BY <1>3, <2>2
  <2>6. Msg(k, i).ord <= posted'[k]
    BY <1>1, <1>7, <2>3
  <2> QED BY <1>1, <2>3, <2>4, <2>5, <2>6, Zenon DEF Ordinal
<1>9. ASSUME NEW i \in New(k) PROVE Ordinal(k, i)'
  <2>1. i \in Nat /\ i >= L + 1 /\ i <= M
    BY <1>1 DEF New, L, M
  <2>2. ASSUME NEW j \in 1 .. i - 1
        PROVE  IF j <= L THEN j \in 1 .. L /\ Msg(k, j)' = Msg(k, j) ELSE j \in New(k)
    <3>1. j \in Nat /\ j <= M /\ (j <= L \/ j >= L + 1) /\ j >= 1
      BY <2>1, <1>1
    <3>2. CASE j <= L
      BY <1>1, <1>3, <3>1, <3>2
    <3>3. CASE j >= L + 1
      BY <1>1, <3>1, <3>3 DEF New, L, M
    <3> QED BY <1>1, <3>1, <3>2, <3>3, Zenon
  <2>3. ASSUME NEW j \in 1 .. i - 1
        PROVE  /\ Msg(k, j)'.ord <= posted'[k] /\ Msg(k, j)'.ord \in Nat
               /\ Msg(k, i)'.kind \in WriteKinds => Msg(k, j)'.ord < posted'[k]
    <3>1. CASE j <= L
      BY <1>1, <1>3, <1>4, <1>7, <2>2, <3>1
    <3>2. CASE ~(j <= L)
      <4>1. j \in New(k) /\ i > L + 1
        BY <1>1, <2>1, <2>2, <3>2
      <4> QED BY <1>1, <1>4, <4>1
    <3> QED BY <3>1, <3>2
  <2>4. i > 1 => Msg(k, i - 1)'.ord + (IF Msg(k, i)'.kind \in WriteKinds THEN 1 ELSE 0) = posted'[k]
    <3> SUFFICES ASSUME i > 1
                 PROVE  Msg(k, i - 1)'.ord + (IF Msg(k, i)'.kind \in WriteKinds THEN 1 ELSE 0) = posted'[k]
      OBVIOUS
    <3>1. CASE i = L + 1
      <4>1. i - 1 = L /\ L \in 1 .. L
        BY <1>1, <3>1
      <4>2. Msg(k, i - 1)'.ord = posted[k]
        BY <1>1, <1>3, <1>6, <4>1
      <4> QED BY <1>1, <1>4, <3>1, <4>2
    <3>2. CASE i # L + 1
      <4>1. i - 1 \in New(k) /\ i > L + 1
        BY <1>1, <2>1, <3>2 DEF New, L, M
      <4> QED BY <1>1, <1>4, <4>1
    <3> QED BY <3>1, <3>2
  <2>5. i = 1 => L = 0
    BY <1>1, <2>1
  <2>6. Msg(k, i)'.ord = posted'[k] /\ (Unplaced(k, i)' <=> Msg(k, i)'.kind \in WriteKinds)
    BY <1>4
  <2>7. i = 1 => posted'[k] = placed[k] + (IF Msg(k, i)'.kind \in WriteKinds THEN 1 ELSE 0)
    BY <1>1, <1>4, <1>6, <2>5
  <2>8. Unplaced(k, i)' => placed[k] < posted'[k]
    BY <1>1, <1>4, <1>7
  <2> QED BY <1>1, <1>7, <2>1, <2>3, <2>4, <2>6, <2>7, <2>8 DEF Ordinal
<1>10. \A i \in 1 .. M : i \in 1 .. L \/ i \in New(k)
  BY <1>1 DEF New, L, M
<1>11. queue'[k] = <<>> => placed[k] = posted'[k]
  <2> SUFFICES ASSUME M = 0 PROVE placed[k] = posted'[k]
    BY <1>2
  <2>1. L = 0 /\ L + 1 \notin New(k)
    BY <1>1 DEF New, L, M
  <2> QED BY <1>5, <1>6, <2>1
<1>12. queue'[k] # <<>> => queue'[k][M].ord = posted'[k]
  <2> SUFFICES ASSUME M # 0 PROVE queue'[k][M].ord = posted'[k]
    BY <1>2
  <2>1. CASE M = L
    <3>1. L + 1 \notin New(k) /\ L \in 1 .. L /\ L # 0
      BY <1>1, <2>1 DEF New, L, M
    <3> QED BY <1>3, <1>5, <1>6, <2>1, <3>1, Zenon DEF Msg
  <2>2. CASE M # L
    <3>1. M \in New(k)
      BY <1>1, <2>2 DEF New, L, M
    <3> QED BY <1>4, <3>1
  <2> QED BY <2>1, <2>2
<1> QED BY <1>1, <1>8, <1>9, <1>10, <1>11, <1>12 DEF LaneOrdinals, Msg, M

\* Each signal still has one place: a message, the queue, or published.
LEMMA ExtendSignals ==
    ASSUME TypeOK, LaneInv, Credit, Extends, NewNumbers, \A k \in Lanes : NewOrdinals(k)
    PROVE  SignalNumbers' /\ CarriedOnce' /\ NoneLost'
<1>0. /\ LockHeld /\ ThreadPlace /\ Ordinals /\ SignalNumbers /\ CarriedOnce /\ Posted /\ Queued
      /\ NoneLost /\ WaitingCounts /\ Storing /\ SomeoneDrains
  BY Zenon DEF LaneInv
<1>1. /\ tx_signal \in Nat /\ rx_signal \in Nat \ {0} /\ rx_signal <= tx_signal + 1
      /\ tx_signal' \in {tx_signal, tx_signal + 1} /\ pending \in [Slots -> Nat]
      /\ ~down /\ ~down' /\ pending' = pending /\ rx_signal' = rx_signal
  <2>1. tx_signal \in Nat /\ rx_signal \in Nat \ {0} /\ pending \in [Slots -> Nat]
    BY Zenon DEF TypeOK
  <2>2. rx_signal <= tx_signal + 1
    BY <1>0, Zenon DEF Posted
  <2> QED BY <2>1, <2>2, Zenon DEF NewNumbers, Extends
<1>2. \A k \in Lanes :
         /\ Len(queue[k]) \in Nat /\ Len(queue'[k]) \in Nat
         /\ \A i \in 1 .. Len(queue'[k]) : i \in 1 .. Len(queue[k]) \/ i \in New(k)
         /\ \A i \in 1 .. Len(queue[k]) : i \in 1 .. Len(queue'[k]) /\ i \notin New(k)
         /\ \A i \in New(k) : i \in 1 .. Len(queue'[k])
  <2>1. \A k \in Lanes : /\ Len(queue[k]) \in Nat /\ Len(queue'[k]) \in Nat
                         /\ Len(queue[k]) <= Len(queue'[k])
    BY <1>0, ExtendFacts, Zenon DEF Extends
  <2> QED BY <2>1 DEF New
<1>3. SignalNumbers'
  <2> SUFFICES ASSUME NEW k \in Lanes, NEW i \in 1 .. Len(queue'[k]) PROVE SignalNumber(k, i)'
    BY <1>0 DEF SignalNumbers
  <2>1. CASE i \in 1 .. Len(queue[k])
    <3>1. /\ SignalNumber(k, i) /\ Msg(k, i)' = Msg(k, i) /\ (Unplaced(k, i)' <=> Unplaced(k, i))
      BY <1>0, <1>1, <2>1, ExtendFacts, Zenon DEF SignalNumbers
    <3>2. Msg(k, i).kind \notin {"write", "fence"} =>
             Msg(k, i).seq \in 1 .. tx_signal' /\ signals'[Msg(k, i).seq] = signals[Msg(k, i).seq]
      BY <1>1, <3>1 DEF SignalNumber, NewNumbers
    <3> QED BY <1>1, <3>1, <3>2, Zenon DEF SignalNumber
  <2>2. CASE i \in New(k)
    <3>1. /\ Msg(k, i)' = queue'[k][i] /\ Msg(k, i)'.ord = posted'[k]
          /\ IF Msg(k, i)'.kind \in {"write", "fence"} THEN Msg(k, i)'.seq = 0
             ELSE Msg(k, i)'.seq = tx_signal + 1 /\ tx_signal' = tx_signal + 1
          /\ tx_signal' # tx_signal => signals'[tx_signal'].need[k] = posted'[k]
          /\ posted'[k] \in Nat
      <4>1. Msg(k, i)' = queue'[k][i] /\ posted'[k] \in Nat
        <5>1. posted' \in [Lanes -> Nat]
          BY Zenon DEF Extends
        <5> QED BY <1>0, <2>2, <5>1, ExtendFacts, Zenon
      <4>2. Msg(k, i)'.ord = posted'[k]
        BY <2>2, <4>1, Zenon DEF NewOrdinals
      <4> QED BY <2>2, <4>1, <4>2 DEF NewNumbers
    <3>2. /\ tx_signal \in Nat /\ tx_signal' \in {tx_signal, tx_signal + 1}
          /\ rx_signal' = rx_signal /\ rx_signal <= tx_signal + 1
      BY <1>1, Zenon
    <3> QED BY <3>1, <3>2 DEF SignalNumber
  <2> QED BY <1>2, <2>1, <2>2
<1>4. \A k \in Lanes : \A i \in 1 .. Len(queue[k]) : Carrying(k, i) => Msg(k, i).seq \in 1 .. tx_signal
  BY <1>0, <1>1, Zenon DEF SignalNumbers, SignalNumber, Carrying, CarrierKinds
<1>5. \A k \in Lanes : \A i \in New(k) : Carrying(k, i)' =>
         Msg(k, i)'.seq = tx_signal + 1 /\ tx_signal' = tx_signal + 1 /\ queue'[k][i].kind \in CarrierKinds
  <2>1. \A k \in Lanes : \A i \in New(k) :
           /\ Msg(k, i)' = queue'[k][i]
           /\ Carrying(k, i)' => queue'[k][i].kind \in CarrierKinds
    BY <1>0, ExtendFacts, Zenon
  <2>2. \A x \in CarrierKinds : x \notin {"write", "fence"}
    BY DEF CarrierKinds
  <2> QED BY <2>1, <2>2 DEF NewNumbers
<1>6. CarriedOnce'
  <2> SUFFICES ASSUME NEW k \in Lanes, NEW i \in 1 .. Len(queue'[k]), Carrying(k, i)'
               PROVE  NotElsewhere(k, i)'
    BY <1>0 DEF CarriedOnce
  <2>1. CASE i \in 1 .. Len(queue[k])
    <3>1. NotElsewhere(k, i) /\ Msg(k, i)' = Msg(k, i) /\ Msg(k, i).seq \in 1 .. tx_signal
      BY <1>0, <1>1, <1>4, <2>1, ExtendFacts, Zenon DEF CarriedOnce
    <3>2. ASSUME NEW l \in Lanes, NEW j \in 1 .. Len(queue'[l]), Carrying(l, j)',
                 Msg(l, j)'.seq = Msg(k, i)'.seq
          PROVE  l = k /\ j = i
      <4>1. j \notin New(l)
        BY <1>1, <1>5, <3>1, <3>2
      <4>2. j \in 1 .. Len(queue[l]) /\ Carrying(l, j) /\ Msg(l, j)' = Msg(l, j)
        BY <1>0, <1>2, <3>2, <4>1, ExtendFacts, Zenon
      <4> QED BY <3>1, <3>2, <4>2, Zenon DEF NotElsewhere
    <3> QED BY <1>1, <3>1, <3>2, Zenon DEF NotElsewhere
  <2>2. CASE i \in New(k)
    <3>1. Msg(k, i)'.seq = tx_signal + 1 /\ queue'[k][i].kind \in CarrierKinds
      BY <1>5, <2>2, Zenon
    <3>2. \A n \in Slots : pending[n] # tx_signal + 1
      BY <1>0, <1>1 DEF Queued
    <3>3. ASSUME NEW l \in Lanes, NEW j \in 1 .. Len(queue'[l]), Carrying(l, j)',
                 Msg(l, j)'.seq = Msg(k, i)'.seq
          PROVE  l = k /\ j = i
      <4>1. j \notin 1 .. Len(queue[l])
        <5> SUFFICES ASSUME j \in 1 .. Len(queue[l]) PROVE FALSE
          OBVIOUS
        <5>1. Carrying(l, j) /\ Msg(l, j)' = Msg(l, j)
          BY <1>0, <3>3, ExtendFacts, Zenon
        <5>2. Msg(l, j).seq \in 1 .. tx_signal
          BY <1>4, <5>1
        <5> QED BY <1>1, <3>1, <3>3, <5>1, <5>2
      <4>2. j \in New(l) /\ queue'[l][j].kind \in CarrierKinds
        BY <1>2, <1>5, <3>3, <4>1, Zenon
      <4> QED BY <2>2, <3>1, <4>2 DEF NewNumbers
    <3> QED BY <1>1, <3>1, <3>2, <3>3, Zenon DEF NotElsewhere
  <2> QED BY <1>2, <2>1, <2>2
<1>7. NoneLost'
  <2> SUFFICES ASSUME NEW s \in rx_signal .. tx_signal', ~(pending[s % BOND_SIGNALS] = s)
               PROVE  Carried(s)'
    BY <1>0, <1>1 DEF NoneLost
  <2>1. CASE s \in rx_signal .. tx_signal
    <3>1. Carried(s)
      BY <1>0, <1>1, <2>1, Zenon DEF NoneLost
    <3>2. PICK k \in Lanes : \E i \in 1 .. Len(queue[k]) : Carrying(k, i) /\ Msg(k, i).seq = s
      BY <3>1 DEF Carried
    <3>3. PICK i \in 1 .. Len(queue[k]) : Carrying(k, i) /\ Msg(k, i).seq = s
      BY <3>2
    <3>4. i \in 1 .. Len(queue'[k]) /\ Carrying(k, i)' /\ Msg(k, i)' = Msg(k, i)
      BY <1>0, <1>2, <3>3, ExtendFacts, Zenon
    <3> QED BY <3>3, <3>4 DEF Carried
  <2>2. CASE s \notin rx_signal .. tx_signal
    <3>1. s = tx_signal + 1 /\ tx_signal' # tx_signal
      BY <1>1, <2>2
    <3>2. PICK k \in Lanes : \E i \in New(k) : queue'[k][i].kind \in CarrierKinds
      BY <3>1, Zenon DEF NewNumbers
    <3>3. PICK i \in New(k) : queue'[k][i].kind \in CarrierKinds
      BY <3>2
    <3>4. i \in 1 .. Len(queue'[k]) /\ Carrying(k, i)'
      BY <1>0, <1>2, <3>3, ExtendFacts, Zenon
    <3>5. Msg(k, i)'.seq = s
      BY <1>5, <3>1, <3>4, Zenon
    <3> QED BY <3>4, <3>5 DEF Carried
  <2> QED BY <2>1, <2>2
<1> QED BY <1>3, <1>6, <1>7

\* Messages that follow posted and tx_signal keep every part of LaneInv.
LEMMA ExtendInv ==
    ASSUME SetFacts, TypeOK, LaneInv, Credit, Extends, NewNumbers, \A k \in Lanes : NewOrdinals(k)
    PROVE  LaneInv'
<1>0. /\ LockHeld /\ ThreadPlace /\ Ordinals /\ SignalNumbers /\ CarriedOnce /\ Posted /\ Queued
      /\ NoneLost /\ WaitingCounts /\ Storing /\ SomeoneDrains
  BY Zenon DEF LaneInv
<1>1. /\ tx_signal \in Nat /\ rx_signal \in Nat \ {0} /\ rx_signal <= tx_signal + 1
      /\ tx_signal' \in {tx_signal, tx_signal + 1} /\ pending \in [Slots -> Nat]
      /\ \A k \in Lanes : posted[k] \in Nat /\ posted'[k] \in {posted[k], posted[k] + 1}
      /\ UNCHANGED <<at, queued, placed, rx_lock, pending, rx_signal, waiting, down>>
  <2>1. /\ tx_signal \in Nat /\ rx_signal \in Nat \ {0} /\ pending \in [Slots -> Nat]
        /\ posted \in [Lanes -> Nat]
    BY Zenon DEF TypeOK
  <2>2. rx_signal <= tx_signal + 1
    BY <1>0, Zenon DEF Posted
  <2>3. \A k \in Lanes : posted'[k] \in {posted[k], posted[k] + 1}
    BY Zenon DEF NewOrdinals
  <2> QED BY <2>1, <2>2, <2>3, Zenon DEF NewNumbers, Extends
<1>2. LockHeld' /\ WaitingCounts'
  BY <1>0, <1>1, Zenon DEF LockHeld, WaitingCounts
<1>3. ThreadPlace'
  <2>1. \A k \in Lanes : queue[k] # <<>> => queue'[k] # <<>> /\ Msg(k, 1)' = Msg(k, 1)
    <3> SUFFICES ASSUME NEW k \in Lanes, queue[k] # <<>>
                 PROVE  queue'[k] # <<>> /\ Msg(k, 1)' = Msg(k, 1)
      OBVIOUS
    <3>1. Len(queue[k]) \in Nat /\ Len(queue[k]) # 0 /\ Len(queue[k]) <= Len(queue'[k])
          /\ Len(queue'[k]) \in Nat
      BY <1>0, QueueTypes, ExtendFacts, Zenon DEF Extends
    <3>2. Len(queue'[k]) # 0 /\ 1 \in 1 .. Len(queue[k])
      BY <3>1
    <3>3. Len(<<>>) = 0
      BY SeqLen
    <3> QED BY <1>0, <3>2, <3>3, ExtendFacts, Zenon
  <2> QED BY <1>0, <1>1, <2>1, Zenon DEF ThreadPlace
<1>4. Queued'
  BY <1>0, <1>1 DEF Queued
<1>5. Posted'
  <2>1. \A s \in 1 .. tx_signal, k \in Lanes : signals'[s].need[k] <= posted'[k]
    <3> SUFFICES ASSUME NEW s \in 1 .. tx_signal, NEW k \in Lanes
                 PROVE  signals[s].need[k] <= posted'[k]
      BY Zenon DEF NewNumbers
    <3>1. signals[s] \in [call : Nat, word : Cells, need : [Lanes -> Nat], fenced : Nat]
      BY <1>0, SeqElement, Zenon DEF TypeOK, Posted
    <3>2. signals[s].need[k] \in Nat /\ signals[s].need[k] <= posted[k]
      BY <1>0, <3>1, Zenon DEF Posted
    <3> QED BY <1>1, <3>2
  <2>2. tx_signal' # tx_signal => \A k \in Lanes : signals'[tx_signal'].need[k] <= posted'[k]
    BY <1>1 DEF NewNumbers
  <2>3. \A s \in 1 .. tx_signal' : s \in 1 .. tx_signal \/ (s = tx_signal' /\ tx_signal' # tx_signal)
    BY <1>1
  <2>4. \A s \in 1 .. tx_signal', k \in Lanes : signals'[s].need[k] <= posted'[k]
    BY <2>1, <2>2, <2>3, Zenon
  <2>5. Len(signals') = tx_signal' /\ rx_signal' <= tx_signal' + 1
    <3>1. tx_signal \in Nat /\ rx_signal \in Nat /\ rx_signal <= tx_signal + 1
          /\ rx_signal' = rx_signal /\ (tx_signal' = tx_signal \/ tx_signal' = tx_signal + 1)
      BY <1>1, Zenon
    <3>2. rx_signal' <= tx_signal' + 1
      BY <3>1
    <3> QED BY <3>2, Zenon DEF NewNumbers
  <2> QED BY <2>4, <2>5, Zenon DEF Posted
<1>6. NextReady' <=> NextReady
  <2>1. rx_signal % BOND_SIGNALS \in Slots
    <3>1. rx_signal \in Nat /\ BOND_SIGNALS \in Nat /\ BOND_SIGNALS >= 1
      BY <1>1, SignalsAssumption, Zenon
    <3> QED BY <3>1 DEF Slots
  <2>2. pending[rx_signal % BOND_SIGNALS] = rx_signal => rx_signal \in 1 .. tx_signal
    BY <1>0, <1>1, <2>1 DEF Queued
  <2> QED BY <1>1, <2>2 DEF NextReady, NewNumbers
<1>7. Storing' /\ SomeoneDrains'
  BY <1>0, <1>1, <1>6, Zenon DEF Storing, SomeoneDrains
<1>8. Ordinals'
  BY ExtendOrdinals
<1>9. SignalNumbers' /\ CarriedOnce' /\ NoneLost'
  BY ExtendSignals
<1> QED BY <1>2, <1>3, <1>4, <1>5, <1>7, <1>8, <1>9, Zenon DEF LaneInv

\* A flush posts a fence.
LEMMA FenceInv ==
    ASSUME SetFacts, IInv, Fence
    PROVE  IInv'
<1> DEFINE m == [kind |-> "fence", call |-> 0, cells |-> {}, seq |-> 0,
                 wait |-> NoWrite, signals |-> FALSE, ord |-> posted[lane]]
<1>0. /\ TypeOK /\ LaneInv /\ CallShape /\ RangesBounded /\ Flushing /\ Credit /\ NeverRefused
  BY Zenon DEF IInv
<1>1. /\ lane \in Lanes /\ posted \in [Lanes -> Nat] /\ tx_signal \in Nat
      /\ queue \in [Lanes -> Seq(Message)] /\ queue[lane] \in Seq(Message)
      /\ \A k \in Lanes : Len(queue[k]) \in Nat
  <2>1. lane \in Lanes /\ posted \in [Lanes -> Nat] /\ tx_signal \in Nat
        /\ queue \in [Lanes -> Seq(Message)]
    BY <1>0, Zenon DEF TypeOK
  <2> QED BY <1>0, <2>1, QueueTypes, Zenon
<1>2. /\ pc = "fence" /\ ~down /\ pc' = "await" /\ queue' = [queue EXCEPT ![lane] = Append(@, m)]
      /\ cur' = cur /\ lane' = lane /\ seen' = seen /\ posted' = posted /\ tx_signal' = tx_signal
      /\ tx_fenced' = tx_fenced /\ at' = at /\ queued' = queued /\ mem' = mem /\ placed' = placed
      /\ rx_lock' = rx_lock /\ pending' = pending /\ rx_signal' = rx_signal /\ waiting' = waiting
      /\ calls' = calls /\ signals' = signals /\ flushed' = flushed
      /\ ack' = ack /\ down' = down /\ refused' = refused
  BY Zenon DEF Fence, receiver, history
<1>3. m \in Message /\ m.kind = "fence" /\ m.seq = 0 /\ m.ord = posted[lane]
  BY <1>1, Zenon DEF Message, Kinds, NoWrite
<1> HIDE DEF m
<1>4. /\ Append(queue[lane], m) \in Seq(Message)
      /\ Len(Append(queue[lane], m)) = Len(queue[lane]) + 1
      /\ \A i \in 1 .. Len(queue[lane]) : Append(queue[lane], m)[i] = queue[lane][i]
      /\ Append(queue[lane], m)[Len(queue[lane]) + 1] = m
  BY <1>1, <1>3, SeqAppend
<1>5. /\ queue' \in [Lanes -> Seq(Message)] /\ queue'[lane] = Append(queue[lane], m)
      /\ \A k \in Lanes : k # lane => queue'[k] = queue[k]
  BY <1>1, <1>2, <1>4, Zenon
<1>6. \A k \in Lanes : k # lane => New(k) = {}
  <2>1. \A n \in Nat : n + 1 .. n = {}
    OBVIOUS
  <2> QED BY <1>1, <1>5, <2>1 DEF New
<1>7. \A k \in Lanes : \A i \in New(k) : k = lane /\ i = Len(queue[lane]) + 1 /\ queue'[k][i] = m
  <2>1. \A i \in New(lane) : i = Len(queue[lane]) + 1
    BY <1>1, <1>4, <1>5 DEF New
  <2> QED BY <1>4, <1>5, <1>6, <2>1, Zenon
<1>8. Extends
  <2>1. \A k \in Lanes : /\ Len(queue[k]) <= Len(queue'[k])
                         /\ \A i \in 1 .. Len(queue[k]) : queue'[k][i] = queue[k][i]
    <3> SUFFICES ASSUME NEW k \in Lanes
                 PROVE  /\ Len(queue[k]) <= Len(queue'[k])
                        /\ \A i \in 1 .. Len(queue[k]) : queue'[k][i] = queue[k][i]
      OBVIOUS
    <3>1. CASE k = lane
      BY <1>1, <1>4, <1>5, <3>1
    <3>2. CASE k # lane
      BY <1>1, <1>5, <3>2
    <3> QED BY <3>1, <3>2
  <2>2. UNCHANGED <<at, queued, placed, rx_lock, pending, rx_signal, waiting, down>>
    BY <1>2
  <2>3. posted' \in [Lanes -> Nat]
    BY <1>1, <1>2
  <2> QED BY <1>2, <1>5, <2>1, <2>2, <2>3, Zenon DEF Extends
<1>9. \A k \in Lanes : NewOrdinals(k)
  BY <1>2, <1>3, <1>7, Zenon DEF NewOrdinals, WriteKinds
<1>10. NewNumbers
  <2>1. Len(signals) = tx_signal
    BY <1>0, Zenon DEF LaneInv, Posted
  <2> QED BY <1>2, <1>3, <1>7, <2>1, Zenon DEF NewNumbers, CarrierKinds
<1>11. LaneInv'
  BY <1>0, <1>8, <1>9, <1>10, ExtendInv, Zenon
<1>12. TypeOK'
  <2>1. pc' \in {"idle", "fence", "await", "post"}
    BY <1>2
  <2> QED BY <1>0, <1>2, <1>5, <2>1, Zenon DEF TypeOK
<1>13. ~ack /\ \A k \in Lanes : \A i \in 1 .. Len(queue[k]) : Msg(k, i).kind # "fence"
  BY <1>0, <1>2, Zenon DEF Flushing
<1>14. CallShape' /\ RangesBounded' /\ NeverRefused' /\ Credit'
  <2>1. CallShape'
    BY <1>0, <1>2, Zenon DEF CallShape
  <2>2. RangesBounded' /\ NeverRefused'
    BY <1>0, <1>2, Zenon DEF RangesBounded, Bounded, NeverRefused
  <2>3. Credit'
    BY <1>0, <1>2, <1>13, Zenon DEF Credit
  <2> QED BY <2>1, <2>2, <2>3
<1>15. Flushing'
  <2>1. \A k \in Lanes : k < lane => queue'[k] = <<>>
    BY <1>0, <1>1, <1>2, <1>5 DEF Flushing, Lanes
  <2>2. ASSUME NEW k \in Lanes, NEW i \in 1 .. Len(queue'[k]), Msg(k, i)'.kind = "fence"
        PROVE  k = lane /\ i = Len(queue'[k])
    <3>1. CASE k # lane
      BY <1>5, <1>13, <2>2, <3>1, Zenon DEF Msg
    <3>2. CASE k = lane /\ i # Len(queue[lane]) + 1
      <4>1. i \in 1 .. Len(queue[lane])
        BY <1>1, <1>4, <1>5, <3>2
      <4> QED BY <1>4, <1>5, <1>13, <2>2, <3>2, <4>1, Zenon DEF Msg
    <3> QED BY <1>4, <1>5, <3>1, <3>2, Zenon
  <2> QED BY <1>2, <1>13, <2>1, <2>2, Zenon DEF Flushing
<1> QED BY <1>0, <1>11, <1>12, <1>14, <1>15, Zenon DEF IInv

-----------------------------------------------------------------------------
(* Posting a call.                                                         *)

\* What Post may choose: how the cells are split and where the signal goes.
LEMMA SplitFacts ==
    ASSUME TypeOK, CallShape, NEW part \in Splits, NEW s \in SignalLanes
    PROVE  /\ part \in [Lanes -> SUBSET Cells]
           /\ cur.op = "signal" => \A k \in Lanes : part[k] = {}
           /\ cur.op = "fused" => \E l \in Lanes : \A k \in Lanes : part[k] # {} <=> k = l
           /\ s \in Lanes <=> cur.op \in {"signal", "parts", "separate"}
<1>1. cur.off \in 0 .. W /\ cur.end \in 0 .. W /\ W \in Nat /\ N \in Nat
  BY WindowAssumption, LanesAssumption, Zenon DEF TypeOK
<1>2. CurCells \subseteq Cells
  BY <1>1 DEF CurCells, Cells
<1>3. cur.op = "fused" => CurCells # {}
  <2>1. cur.op = "fused" => cur.off < cur.end
    BY DEF CallShape, Writing
  <2>2. cur.op = "fused" => cur.off \in CurCells
    BY <1>1, <2>1 DEF CurCells
  <2> QED BY <2>2
<1>4. \A k : Whole(k) \in [Lanes -> SUBSET Cells]
  BY <1>2 DEF Whole
<1>5. \A p \in Scattered : p \in [Lanes -> SUBSET Cells]
  BY <1>2 DEF Scattered
<1>6. [k \in Lanes |-> {}] \in [Lanes -> SUBSET Cells]
  OBVIOUS
<1>7. part \in [Lanes -> SUBSET Cells]
  <2>1. CASE cur.op = "signal"
    BY <1>6, <2>1 DEF Splits, Prepared
  <2>2. CASE cur.op = "write" /\ cur.aff = None
    BY <1>5, <2>2 DEF Splits
  <2>3. CASE cur.op \in Prepared /\ cur.aff # None
    BY <1>4, <2>3 DEF Splits, Prepared
  <2>4. CASE cur.op = "parts"
    BY <1>4, <1>5, <2>4 DEF Splits, Prepared
  <2>5. CASE /\ cur.op # "signal" /\ ~(cur.op = "write" /\ cur.aff = None)
             /\ ~(cur.op \in Prepared /\ cur.aff # None) /\ cur.op # "parts"
    BY <1>4, <2>5 DEF Splits
  <2> QED BY <2>1, <2>2, <2>3, <2>4, <2>5
<1>8. cur.op = "signal" => \A k \in Lanes : part[k] = {}
  <2>1. cur.op = "signal" => part \in {[k \in Lanes |-> {}]}
    BY DEF Splits, Prepared
  <2> QED BY <2>1
<1>9. cur.op = "fused" => \E l \in Lanes : \A k \in Lanes : part[k] # {} <=> k = l
  <2> SUFFICES ASSUME cur.op = "fused"
               PROVE  \E l \in Lanes : \A k \in Lanes : part[k] # {} <=> k = l
    BY Zenon
  <2>1. part \in {Whole(k) : k \in Lanes}
    BY DEF Splits, Prepared
  <2>2. PICK l \in Lanes : part = Whole(l)
    BY <2>1
  <2> QED BY <1>3, <2>2 DEF Whole
<1>10. s \in Lanes <=> cur.op \in {"signal", "parts", "separate"}
  BY <1>1 DEF SignalLanes, Lanes, None
<1> QED BY <1>7, <1>8, <1>9, <1>10

\* The messages Post puts on a lane: its data, then its signal.
LEMMA PostingLane ==
    ASSUME SetFacts, TypeOK, CallShape, RangesBounded,
           NEW part \in Splits, NEW s \in SignalLanes, queue' = Posting(part, s), NEW k \in Lanes
    PROVE  LET data == DataMessage(k, part[k], Watermarks(part)[k])
               sig  == SignalMessage(Watermarks(part)[k])
               old  == Len(queue[k])
           IN  /\ queue'[k] \in Seq(Message) /\ old \in Nat /\ old <= Len(queue'[k])
               /\ \A i \in 1 .. old : queue'[k][i] = queue[k][i]
               /\ part[k] # {} => old + 1 \in New(k) /\ queue'[k][old + 1] = data
               /\ k = s => Len(queue'[k]) \in New(k) /\ queue'[k][Len(queue'[k])] = sig
               /\ \A i \in New(k) : \/ part[k] # {} /\ i = old + 1 /\ queue'[k][i] = data
                                    \/ /\ k = s /\ i = Len(queue'[k]) /\ queue'[k][i] = sig
                                       /\ part[k] # {} => i # old + 1
<1> DEFINE data == DataMessage(k, part[k], Watermarks(part)[k])
           sig  == SignalMessage(Watermarks(part)[k])
           q    == queue[k]
           mid  == IF part[k] = {} THEN q ELSE Append(q, data)
<1>1. queue'[k] = IF k = s THEN Append(mid, sig) ELSE mid
  BY Zenon DEF Posting
<1>2. /\ Watermarks(part)[k] \in Nat /\ Len(calls) + 1 \in Nat /\ tx_signal + 1 \in Nat
      /\ part[k] \subseteq Cells /\ NoWrite \in [Lanes -> Nat]
  <2>1. part \in [Lanes -> SUBSET Cells]
    BY SplitFacts
  <2>2. posted \in [Lanes -> Nat] /\ tx_signal \in Nat
    BY Zenon DEF TypeOK
  <2>3. Len(calls) \in Nat
    BY SeqLen, Zenon DEF TypeOK
  <2>4. Watermarks(part)[k] = posted[k] + (IF part[k] # {} THEN 1 ELSE 0)
    BY Zenon DEF Watermarks
  <2> QED BY <2>1, <2>2, <2>3, <2>4 DEF NoWrite
<1>3. data \in Message
  <2> DEFINE o == BondOverlap(seen, cur.off, cur.end)
  <2>1. o.ord \in [Lanes -> Nat] /\ o.signal \in BOOLEAN
    BY OverlapBounded, Zenon DEF TypeOK, RangesBounded
  <2> HIDE DEF o
  <2>2. WaitFor(o, k) \in [Lanes -> Nat]
    BY <2>1, Zenon DEF WaitFor
  <2>3. DataKind \in Kinds
    BY DEF DataKind, Kinds
  <2>4. data = [kind |-> DataKind, call |-> Len(calls) + 1, cells |-> part[k],
                seq |-> IF cur.op \in {"fused", "parts"} THEN tx_signal + 1 ELSE 0,
                wait |-> IF cur.op \in {"fused", "parts"} THEN WaitFor(o, k) ELSE NoWrite,
                signals |-> cur.op \in {"fused", "parts"} /\ o.signal,
                ord |-> Watermarks(part)[k]]
    BY Zenon DEF DataMessage, o
  <2> QED BY <1>2, <2>1, <2>2, <2>3, <2>4 DEF Message
<1>4. sig \in Message
  BY <1>2, Zenon DEF SignalMessage, Message, Kinds
<1> HIDE DEF data, sig
<1>5. q \in Seq(Message) /\ Len(q) \in Nat
  BY QueueTypes, Zenon
<1> HIDE DEF q
<1>6. /\ mid \in Seq(Message) /\ Len(mid) \in Nat
      /\ Len(mid) = IF part[k] = {} THEN Len(q) ELSE Len(q) + 1
      /\ \A i \in 1 .. Len(q) : mid[i] = q[i]
      /\ part[k] # {} => mid[Len(q) + 1] = data
  <2>1. CASE part[k] = {}
    BY <1>5, <2>1, Zenon
  <2>2. CASE part[k] # {}
    BY <1>3, <1>5, <2>2, SeqAppend
  <2> QED BY <2>1, <2>2, Zenon
<1> HIDE DEF mid
<1>7. /\ queue'[k] \in Seq(Message) /\ Len(queue'[k]) \in Nat
      /\ Len(queue'[k]) = IF k = s THEN Len(mid) + 1 ELSE Len(mid)
      /\ \A i \in 1 .. Len(mid) : queue'[k][i] = mid[i]
      /\ k = s => queue'[k][Len(mid) + 1] = sig
  <2>1. CASE k # s
    BY <1>1, <1>6, <2>1, Zenon
  <2>2. CASE k = s
    BY <1>1, <1>4, <1>6, <2>2, SeqAppend
  <2> QED BY <2>1, <2>2, Zenon
<1>8. New(k) = Len(q) + 1 .. Len(queue'[k])
  BY DEF New, q
<1>9. \A i \in 1 .. Len(q) : i \in 1 .. Len(mid) /\ queue'[k][i] = q[i]
  BY <1>5, <1>6, <1>7
<1>10. part[k] # {} => Len(q) + 1 \in New(k) /\ queue'[k][Len(q) + 1] = data
  BY <1>5, <1>6, <1>7, <1>8
<1>11. k = s => Len(queue'[k]) \in New(k) /\ queue'[k][Len(queue'[k])] = sig
  BY <1>5, <1>6, <1>7, <1>8
<1>12. ASSUME NEW i \in New(k)
       PROVE  \/ part[k] # {} /\ i = Len(q) + 1 /\ queue'[k][i] = data
              \/ /\ k = s /\ i = Len(queue'[k]) /\ queue'[k][i] = sig
                 /\ part[k] # {} => i # Len(q) + 1
  BY <1>5, <1>6, <1>7, <1>8, <1>10, <1>11
<1>13. Len(q) <= Len(queue'[k])
  BY <1>5, <1>6, <1>7
<1> QED BY <1>5, <1>7, <1>9, <1>10, <1>11, <1>12, <1>13, Zenon DEF q, data, sig

\* A call posts its messages, remembers its ranges, and numbers its signal.
LEMMA PostInv ==
    ASSUME SetFacts, IInv, Post
    PROVE  IInv'
<1>0. /\ TypeOK /\ LaneInv /\ CallShape /\ RangesBounded /\ Flushing /\ Credit /\ NeverRefused
  BY Zenon DEF IInv
<1>1. /\ pc = "post" /\ ~down /\ pc' = "idle" /\ cur' = NoCall
      /\ UNCHANGED <<lane, tx_fenced, receiver, flushed, ack, down, refused>>
  BY DEF Post
<1>25. /\ at' = at /\ queued' = queued /\ mem' = mem /\ placed' = placed /\ rx_lock' = rx_lock
      /\ pending' = pending /\ rx_signal' = rx_signal /\ waiting' = waiting
  BY <1>1 DEF receiver
<1>2. PICK part \in Splits : \E s \in SignalLanes : PostAs(part, s)
  BY DEF Post
<1>3. PICK s \in SignalLanes : PostAs(part, s)
  BY <1>2
<1> DEFINE need    == Watermarks(part)
           data(k) == DataMessage(k, part[k], need[k])
           sig(k)  == SignalMessage(need[k])
           old(k)  == Len(queue[k])
<1>4. /\ queue' = Posting(part, s) /\ posted' = need /\ seen' = Remembered(part)
      /\ IF cur.op \in Signalling
         THEN /\ tx_signal' = tx_signal + 1
              /\ signals' = Append(signals, [call |-> Len(calls) + 1, word |-> cur.word,
                                             need |-> need, fenced |-> flushed])
         ELSE UNCHANGED <<tx_signal, signals>>
  BY <1>3, Zenon DEF PostAs
<1>5. /\ part \in [Lanes -> SUBSET Cells]
      /\ cur.op = "signal" => \A k \in Lanes : part[k] = {}
      /\ cur.op = "fused" => \E l \in Lanes : \A k \in Lanes : part[k] # {} <=> k = l
      /\ s \in Lanes <=> cur.op \in {"signal", "parts", "separate"}
  BY <1>0, SplitFacts, Zenon
<1>6. /\ posted \in [Lanes -> Nat] /\ tx_signal \in Nat /\ tx_fenced \in Nat /\ flushed \in Nat
      /\ cur.op \in Ops /\ cur.op # "flush" /\ Len(calls) \in Nat
      /\ cur.off \in 0 .. W /\ cur.end \in 0 .. W /\ cur.word \in 0 .. W
      /\ cur.op \in Signalling => cur.word \in Cells
  <2>1. /\ posted \in [Lanes -> Nat] /\ tx_signal \in Nat /\ tx_fenced \in Nat /\ flushed \in Nat
        /\ cur \in [op : Ops, off : 0 .. W, end : 0 .. W, word : 0 .. W, aff : 0 .. N]
        /\ calls \in Seq([off : 0 .. W, end : 0 .. W, word : 0 .. W])
    BY <1>0, Zenon DEF TypeOK
  <2>2. Len(calls) \in Nat
    BY <2>1, SeqLen
  <2>3. cur.op # "flush" /\ (cur.op \in Signalling => cur.word \in Cells)
    BY <1>0, <1>1 DEF CallShape
  <2> QED BY <2>1, <2>2, <2>3, Zenon
<1>7. /\ need \in [Lanes -> Nat]
      /\ \A k \in Lanes : need[k] = posted[k] + (IF part[k] # {} THEN 1 ELSE 0)
      /\ \A k \in Lanes : posted[k] <= need[k]
  BY <1>6 DEF Watermarks
<1>8. \A k \in Lanes :
         /\ queue'[k] \in Seq(Message) /\ old(k) \in Nat /\ old(k) <= Len(queue'[k])
         /\ \A i \in 1 .. old(k) : queue'[k][i] = queue[k][i]
         /\ part[k] # {} => old(k) + 1 \in New(k) /\ queue'[k][old(k) + 1] = data(k)
         /\ k = s => Len(queue'[k]) \in New(k) /\ queue'[k][Len(queue'[k])] = sig(k)
         /\ \A i \in New(k) : \/ part[k] # {} /\ i = old(k) + 1 /\ queue'[k][i] = data(k)
                              \/ /\ k = s /\ i = Len(queue'[k]) /\ queue'[k][i] = sig(k)
                                 /\ part[k] # {} => i # old(k) + 1
  BY <1>0, <1>4, PostingLane
<1>9. \A k \in Lanes :
         /\ data(k).ord = need[k] /\ sig(k).ord = need[k]
         /\ sig(k).kind = "signal" /\ sig(k).seq = tx_signal + 1
         /\ data(k).kind = (IF cur.op = "fused" THEN "fused"
                            ELSE IF cur.op = "parts" THEN "write_n" ELSE "write")
         /\ data(k).seq = (IF cur.op \in {"fused", "parts"} THEN tx_signal + 1 ELSE 0)
  BY DEF DataMessage, SignalMessage, DataKind
<1> HIDE DEF need, data, sig, old
<1>10. queue' \in [Lanes -> Seq(Message)]
  <2>1. queue' = [k \in Lanes |-> queue'[k]]
    BY <1>4, Zenon DEF Posting
  <2> QED BY <1>8, <2>1, Zenon
<1>11. Extends
  <2>1. UNCHANGED <<at, queued, placed, rx_lock, pending, rx_signal, waiting, down>>
    BY <1>1, <1>25, Zenon
  <2>2. posted' \in [Lanes -> Nat]
    BY <1>4, <1>7, Zenon
  <2> QED BY <1>1, <1>8, <1>10, <2>1, <2>2, Zenon DEF Extends, old
<1>12. \A k \in Lanes : NewOrdinals(k)
  <2> SUFFICES ASSUME NEW k \in Lanes PROVE NewOrdinals(k)
    OBVIOUS
  <2>1. \A i \in New(k) : queue'[k][i].ord = posted'[k]
    BY <1>4, <1>8, <1>9, Zenon
  <2>2. data(k).kind \in WriteKinds /\ sig(k).kind \notin WriteKinds
    BY <1>9, Zenon DEF WriteKinds
  <2>3. CASE part[k] = {}
    <3>1. posted'[k] = posted[k]
      BY <1>4, <1>6, <1>7, <2>3
    <3> QED BY <1>8, <2>1, <2>2, <2>3, <3>1, Zenon DEF NewOrdinals
  <2>4. CASE part[k] # {}
    <3>1. posted'[k] = posted[k] + 1
      BY <1>4, <1>6, <1>7, <2>4, Zenon
    <3>2. \A i \in New(k) : queue'[k][i].kind \in WriteKinds <=> i = old(k) + 1
      BY <1>8, <2>2, <2>4, Zenon
    <3> QED BY <1>8, <2>1, <2>4, <3>1, <3>2, Zenon DEF NewOrdinals, old
  <2> QED BY <2>3, <2>4, Zenon
<1>13. NewNumbers
  <2>1. Len(signals) = tx_signal /\ signals \in Seq([call : Nat, word : Cells, need : [Lanes -> Nat], fenced : Nat])
    BY <1>0, Zenon DEF LaneInv, Posted, TypeOK
  <2>2. cur.op \in Signalling =>
           /\ signals' \in Seq([call : Nat, word : Cells, need : [Lanes -> Nat], fenced : Nat])
           /\ Len(signals') = tx_signal' /\ tx_signal' = tx_signal + 1
           /\ \A n \in 1 .. tx_signal : signals'[n] = signals[n]
           /\ signals'[tx_signal'].need = posted'
    <3> SUFFICES ASSUME cur.op \in Signalling
                 PROVE  /\ signals' \in Seq([call : Nat, word : Cells, need : [Lanes -> Nat], fenced : Nat])
                        /\ Len(signals') = tx_signal' /\ tx_signal' = tx_signal + 1
                        /\ \A n \in 1 .. tx_signal : signals'[n] = signals[n]
                        /\ signals'[tx_signal'].need = posted'
      BY Zenon
    <3> DEFINE e == [call |-> Len(calls) + 1, word |-> cur.word, need |-> need, fenced |-> flushed]
    <3>1. e \in [call : Nat, word : Cells, need : [Lanes -> Nat], fenced : Nat] /\ e.need = need
      BY <1>6, <1>7
    <3>2. signals' = Append(signals, e) /\ tx_signal' = tx_signal + 1
      BY <1>4, Zenon
    <3> HIDE DEF e
    <3> QED BY <1>4, <1>6, <2>1, <3>1, <3>2, SeqAppend
  <2>3. cur.op \notin Signalling => tx_signal' = tx_signal /\ signals' = signals
    BY <1>4, Zenon
  <2>4. ASSUME NEW k \in Lanes, NEW i \in New(k)
        PROVE  IF queue'[k][i].kind \in {"write", "fence"} THEN queue'[k][i].seq = 0
               ELSE queue'[k][i].seq = tx_signal + 1 /\ cur.op \in Signalling
    <3>1. CASE queue'[k][i] = data(k)
      BY <1>9, <3>1, Zenon DEF Signalling
    <3>2. CASE k = s /\ queue'[k][i] = sig(k)
      BY <1>5, <1>9, <3>2, Zenon DEF Signalling
    <3> QED BY <1>8, <3>1, <3>2, Zenon
  <2>5. cur.op \in Signalling =>
           \E k \in Lanes : \E i \in New(k) : queue'[k][i].kind \in CarrierKinds
    <3>1. CASE cur.op = "fused"
      <4>1. PICK l \in Lanes : part[l] # {}
        BY <1>5, <3>1
      <4>2. old(l) + 1 \in New(l) /\ queue'[l][old(l) + 1].kind = "fused"
        BY <1>8, <1>9, <3>1, <4>1, Zenon
      <4> QED BY <4>2, Zenon DEF CarrierKinds
    <3>2. CASE cur.op \in {"signal", "parts", "separate"}
      <4>1. s \in Lanes /\ Len(queue'[s]) \in New(s) /\ queue'[s][Len(queue'[s])].kind = "signal"
        BY <1>5, <1>8, <1>9, <3>2, Zenon
      <4> QED BY <4>1, Zenon DEF CarrierKinds
    <3> QED BY <3>1, <3>2, Zenon DEF Signalling
  <2>6. ASSUME NEW k \in Lanes, NEW l \in Lanes, NEW i \in New(k), NEW j \in New(l),
               queue'[k][i].kind \in CarrierKinds, queue'[l][j].kind \in CarrierKinds
        PROVE  k = l /\ i = j
    <3>1. CASE cur.op = "fused"
      <4>1. s \notin Lanes
        BY <1>5, <3>1, Zenon
      <4>2. part[k] # {} /\ i = old(k) + 1 /\ part[l] # {} /\ j = old(l) + 1
        BY <1>8, <4>1, Zenon
      <4> QED BY <1>5, <3>1, <4>2, Zenon
    <3>2. CASE cur.op # "fused"
      <4>1. data(k).kind \notin CarrierKinds /\ data(l).kind \notin CarrierKinds
        BY <1>9, <3>2, Zenon DEF CarrierKinds
      <4> QED BY <1>8, <2>6, <4>1
    <3> QED BY <3>1, <3>2
  <2>7. Len(signals') = tx_signal' /\ tx_signal' \in {tx_signal, tx_signal + 1}
        /\ (\A n \in 1 .. tx_signal : signals'[n] = signals[n])
        /\ (tx_signal' # tx_signal => cur.op \in Signalling)
        /\ (cur.op \in Signalling => tx_signal' = tx_signal + 1)
    BY <2>1, <2>2, <2>3, Zenon
  <2>8. tx_signal' # tx_signal => \A k \in Lanes : signals'[tx_signal'].need[k] = posted'[k]
    BY <2>2, <2>7, Zenon
  <2> QED BY <2>4, <2>5, <2>6, <2>7, <2>8 DEF NewNumbers
<1>14. LaneInv'
  BY <1>0, <1>11, <1>12, <1>13, ExtendInv, Zenon
<1>15. seen' \in Table /\ Bounded(seen', posted')
  <2> DEFINE ord == [k \in Lanes |-> IF part[k] # {} THEN need[k] ELSE 0]
             t   == BondRemember(seen, cur.off, cur.end, ord, FALSE)
             u   == BondRemember(t, cur.word, cur.word + 1, NoWrite, TRUE)
  <2>1. seen \in Table /\ Bounded(seen, need)
    <3>1. seen \in Table /\ Bounded(seen, posted)
      BY <1>0, Zenon DEF TypeOK, RangesBounded
    <3>2. ASSUME NEW f \in [Lanes -> Nat], NEW k \in Lanes, f[k] <= posted[k]
          PROVE  f[k] <= need[k]
      BY <1>6, <1>7, <3>2
    <3>3. \A k \in Lanes : seen.ord[k] <= need[k]
      BY <3>1, <3>2, Zenon DEF Bounded, Table
    <3>4. \A r \in seen.ranges : \A k \in Lanes : r.ord[k] <= need[k]
      BY <3>1, <3>2, Zenon DEF Bounded, Table, Entry
    <3> QED BY <3>1, <3>3, <3>4, Zenon DEF Bounded
  <2>2. ord \in [Lanes -> Nat] /\ \A k \in Lanes : ord[k] <= need[k]
    BY <1>7
  <2> HIDE DEF ord
  <2>3. t \in Table /\ Bounded(t, need)
    BY <1>6, <1>7, <2>1, <2>2, RememberBounded, Zenon
  <2> HIDE DEF t, u
  <2>4. cur.op \in Signalling => u \in Table /\ Bounded(u, need)
    <3> SUFFICES ASSUME cur.op \in Signalling PROVE u \in Table /\ Bounded(u, need)
      OBVIOUS
    <3>1. cur.word + 1 \in 0 .. W /\ cur.word \in 0 .. W
      BY <1>6, WindowAssumption DEF Cells
    <3>2. NoWrite \in [Lanes -> Nat] /\ \A k \in Lanes : NoWrite[k] <= need[k]
      BY <1>7 DEF NoWrite
    <3> QED BY <1>7, <2>3, <3>1, <3>2, RememberBounded, Zenon DEF u
  <2>5. cur.op \in Signalling => BondFlagged(u) \in Table /\ Bounded(BondFlagged(u), need)
    BY <2>4, FlaggedBounded, Zenon
  <2>6. seen' = IF cur.op \in Signalling THEN BondFlagged(u) ELSE t
    BY <1>4, Zenon DEF Remembered, u, t, ord, need
  <2> QED BY <1>4, <2>3, <2>5, <2>6, Zenon
<1>16. calls' \in Seq([off : 0 .. W, end : 0 .. W, word : 0 .. W])
  <2>1. calls' = Append(calls, [off |-> cur.off, end |-> cur.end, word |-> cur.word])
    BY <1>3, Zenon DEF PostAs
  <2>2. calls \in Seq([off : 0 .. W, end : 0 .. W, word : 0 .. W])
    BY <1>0, Zenon DEF TypeOK
  <2> QED BY <1>6, <2>1, <2>2, SeqAppend, Zenon
<1>17. signals' \in Seq([call : Nat, word : Cells, need : [Lanes -> Nat], fenced : Nat])
  <2>1. signals \in Seq([call : Nat, word : Cells, need : [Lanes -> Nat], fenced : Nat])
    BY <1>0, Zenon DEF TypeOK
  <2>2. CASE cur.op \in Signalling
    <3> DEFINE e == [call |-> Len(calls) + 1, word |-> cur.word, need |-> need, fenced |-> flushed]
    <3>1. e \in [call : Nat, word : Cells, need : [Lanes -> Nat], fenced : Nat]
      BY <1>6, <1>7, <2>2
    <3>2. signals' = Append(signals, e)
      BY <1>4, <2>2, Zenon
    <3> HIDE DEF e
    <3> QED BY <2>1, <3>1, <3>2, SeqAppend, Zenon
  <2>3. CASE cur.op \notin Signalling
    BY <1>4, <2>1, <2>3, Zenon
  <2> QED BY <2>2, <2>3
<1>18. tx_signal' \in Nat /\ tx_signal' = IF cur.op \in Signalling THEN tx_signal + 1 ELSE tx_signal
  BY <1>4, <1>6
<1>19. NoCall \in [op : Ops, off : 0 .. W, end : 0 .. W, word : 0 .. W, aff : 0 .. N]
  BY WindowAssumption, LanesAssumption DEF NoCall, Ops, NoWord, None
<1>20. TypeOK'
  <2>1. /\ lane' = lane /\ tx_fenced' = tx_fenced /\ flushed' = flushed /\ ack' = ack
        /\ down' = down /\ refused' = refused /\ cur' = NoCall
        /\ pc' \in {"idle", "fence", "await", "post"}
    BY <1>1, Zenon
  <2>2. posted' \in [Lanes -> Nat] /\ tx_signal' \in Nat
    BY <1>4, <1>7, <1>18, Zenon
  <2> QED BY <1>0, <1>10, <1>15, <1>16, <1>17, <1>19, <1>25, <2>1, <2>2, Zenon DEF TypeOK
<1>21. CallShape'
  BY <1>1, Zenon DEF CallShape, NoCall, Writing, Signalling
<1>22. RangesBounded' /\ NeverRefused'
  BY <1>0, <1>1, <1>15, Zenon DEF RangesBounded, NeverRefused, Bounded
<1>23. Flushing'
  <2>1. ~ack /\ \A k \in Lanes : \A i \in 1 .. Len(queue[k]) : Msg(k, i).kind # "fence"
    BY <1>0, <1>1, Zenon DEF Flushing
  <2>2. ASSUME NEW k \in Lanes, NEW i \in 1 .. Len(queue'[k])
        PROVE  queue'[k][i].kind # "fence"
    <3>1. old(k) \in Nat /\ Len(queue'[k]) \in Nat
      BY <1>8, SeqLen, Zenon
    <3>2. CASE i \in 1 .. old(k)
      BY <1>8, <2>1, <3>2 DEF Msg, old
    <3>3. CASE i \notin 1 .. old(k)
      <4>1. i \in New(k)
        BY <3>1, <3>3 DEF New, old
      <4> QED BY <1>8, <1>9, <4>1, Zenon
    <3> QED BY <3>2, <3>3, Zenon
  <2>3. \A k \in Lanes : \A i \in 1 .. Len(queue'[k]) : Msg(k, i)'.kind # "fence"
    BY <2>2, Zenon DEF Msg
  <2> QED BY <1>1, <2>1, <2>3, Zenon DEF Flushing
<1>24. Credit'
  <2>1. rx_signal \in Nat
    BY <1>0, Zenon DEF TypeOK
  <2>2. tx_fenced' = tx_fenced /\ down' = down
    BY <1>1
  <2> QED BY <1>0, <1>1, <1>6, <1>18, <1>25, <2>1, <2>2, SignalsAssumption DEF Credit
<1> QED BY <1>14, <1>20, <1>21, <1>22, <1>23, <1>24, Zenon DEF IInv

=============================================================================
