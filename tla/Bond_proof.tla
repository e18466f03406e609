----------------------------- MODULE Bond_proof -----------------------------
(***************************************************************************)
(* Proofs that the bond's credit and watermarks are right for every number *)
(* of lanes, queue slots and range-table entries, every window and every   *)
(* bound on the calls.                                                     *)
(***************************************************************************)
EXTENDS BondSteps_proof, BondDrain_proof, BondPost_proof, FiniteSetTheorems, WellFoundedInduction

\* The leaves expand the whole inductive invariant and need more than the default time.
USE SMTT(15), ZenonT(20)

-----------------------------------------------------------------------------
(* What the other proof modules assume about sets, from the library.       *)

\* Max of the community modules is the greatest element of a bounded set.
LEMMA MaxBounded ==
    ASSUME NEW S \in SUBSET Nat, S # {}, NEW b \in Nat, \A x \in S : x <= b
    PROVE  Max(S) \in S /\ \A x \in S : x <= Max(S)
<1> DEFINE T == {b - x : x \in S}
<1>1. T \subseteq Nat /\ T # {}
  <2>1. PICK x \in S : TRUE
    BY Zenon
  <2>2. b - x \in T
    OBVIOUS
  <2>3. \A y \in S : b - y \in Nat
    OBVIOUS
  <2> QED BY <2>2, <2>3
<1> DEFINE R == OpToRel(<, Nat)
<1>2. \E m \in T : \A y \in T : ~(<<y, m>> \in R)
  <2> HIDE DEF T, R
  <2> QED BY <1>1, WFMin, NatLessThanWellFounded, Zenon DEF R
<1>3. PICK m \in T : \A y \in T : ~(<<y, m>> \in R)
  BY <1>2, Zenon
<1>4. \A y \in T : ~(y < m)
  BY <1>1, <1>3, Zenon DEF OpToRel
<1>5. PICK x \in S : m = b - x
  BY <1>3, Zenon
<1>6. \A y \in S : x >= y
  <2> SUFFICES ASSUME NEW y \in S PROVE x >= y
    OBVIOUS
  <2>1. b - y \in T
    OBVIOUS
  <2>2. ~(b - y < m)
    BY <2>1, <1>4
  <2> QED BY <2>2, <1>5
<1> QED BY <1>6, Zenon DEF Max

\* Its least element likewise.
LEMMA MinExists ==
    ASSUME NEW S \in SUBSET Nat, S # {}
    PROVE  Min(S) \in S
<1> DEFINE R == OpToRel(<, Nat)
<1>1. \E m \in S : \A y \in S : ~(<<y, m>> \in R)
  <2> HIDE DEF R
  <2> QED BY WFMin, NatLessThanWellFounded, Zenon DEF R
<1>2. PICK m \in S : \A y \in S : ~(<<y, m>> \in R)
  BY <1>1, Zenon
<1>3. S \subseteq Nat
  OBVIOUS
<1>4. \A y \in S : ~(y < m)
  BY <1>2, <1>3, Zenon DEF OpToRel
<1>5. \A y \in S : m =< y
  BY <1>3, <1>4
<1> QED BY <1>5, Zenon DEF Min

\* Cardinality counts the slots of the receiver's queue one by one.
LEMMA SlotsCounted == SlotCounts
<1>1. BOND_SIGNALS \in Nat /\ BOND_SIGNALS >= 1
  BY SignalsAssumption
<1>2. IsFiniteSet(Slots)
  BY <1>1, FS_Interval DEF Slots
<1>3. ASSUME NEW T \in SUBSET Slots
      PROVE  /\ IsFiniteSet(T) /\ Cardinality(T) \in Nat /\ (T # {} => Cardinality(T) # 0)
             /\ \A n \in T : Cardinality(T \ {n}) = Cardinality(T) - 1
             /\ \A n \in Slots \ T : Cardinality(T \cup {n}) = Cardinality(T) + 1
  <2>1. IsFiniteSet(T)
    BY <1>2, FS_Subset
  <2>2. Cardinality(T) \in Nat
    BY <2>1, FS_CardinalityType
  <2>3. T # {} => Cardinality(T) # 0
    BY <2>1, FS_EmptySet
  <2>4. \A n \in T : Cardinality(T \ {n}) = Cardinality(T) - 1
    BY <2>1, FS_RemoveElement
  <2>5. \A n \in Slots \ T : Cardinality(T \cup {n}) = Cardinality(T) + 1
    BY <2>1, FS_AddElement
  <2> QED BY <2>1, <2>2, <2>3, <2>4, <2>5
<1>4. Cardinality({}) = 0
  BY FS_EmptySet
<1> QED BY <1>3, <1>4, Zenon DEF SlotCounts

\* So the facts about sets that the steps rest on hold.
LEMMA SetFactsHold == SetFacts
<1>1. Extrema
  BY MaxBounded, MinExists, Zenon DEF Extrema
<1> QED BY <1>1, SlotsCounted, Zenon DEF SetFacts

-----------------------------------------------------------------------------
(* The whole step, and the theorems.                                       *)

\* Whatever call the application makes, its arguments are well formed.
LEMMA AnyCallInv ==
    ASSUME IInv, AnyCall
    PROVE  IInv'
<1>1. /\ W \in Nat /\ NoWord \in 0 .. W /\ 0 \in 0 .. W
      /\ \A w \in Words : w \in Cells /\ w \in 0 .. W
      /\ \A p \in Payloads : p[1] \in 0 .. W /\ p[2] \in 0 .. W /\ p[1] < p[2]
  BY WindowAssumption, WordsAssumption, PayloadsAssumption DEF Cells, NoWord
<1>2. CASE \E p \in Payloads : Call("write", p[1], p[2], NoWord)
  BY <1>1, <1>2, CallInv, SetFactsHold DEF Ops, Writing, Signalling
<1>3. CASE \E w \in Words : Call("signal", 0, 0, w)
  BY <1>1, <1>3, CallInv, SetFactsHold DEF Ops, Writing, Signalling
<1>4. CASE \E p \in Payloads, w \in Words : \E op \in {"fused", "parts", "separate"} :
              Call(op, p[1], p[2], w)
  <2>1. PICK p \in Payloads, w \in Words, op \in {"fused", "parts", "separate"} :
           Call(op, p[1], p[2], w)
    BY <1>4
  <2>2. op \in Ops
    BY DEF Ops, Writing, Signalling
  <2> QED BY <1>1, <2>1, <2>2, CallInv, SetFactsHold
<1>5. CASE Call("flush", 0, 0, NoWord)
  BY <1>1, <1>5, CallInv, SetFactsHold DEF Ops, Writing, Signalling
<1> QED BY <1>2, <1>3, <1>4, <1>5 DEF AnyCall

\* A step of a lane's thread.
LEMMA LaneStepInv ==
    ASSUME IInv, NEW k \in Lanes, LaneStep(k)
    PROVE  IInv'
BY SetFactsHold, TakeWriteInv, TakeSignalInv, TakeFenceInv, StorePlacedInv, LookWaitingInv,
   LockToDrainInv, EnqueueInv, StoreWordInv, AdvanceInv, UnlockInv, Zenon DEF LaneStep

\* A step that changes nothing keeps every part.
LEMMA StutterInv ==
    ASSUME IInv, UNCHANGED vars
    PROVE  IInv'
<1>0. /\ TypeOK /\ LaneInv /\ CallShape /\ RangesBounded /\ Flushing /\ Credit /\ NeverRefused
  BY Zenon DEF IInv
<1>1. /\ UNCHANGED <<sender, history, ack, down, refused>>
      /\ UNCHANGED <<receiver, queue, rx_signal>>
  BY DEF vars, receiver
<1>2. TypeOK'
  <2>1. /\ queue' = queue /\ at' = at /\ queued' = queued /\ mem' = mem /\ placed' = placed
        /\ rx_lock' = rx_lock /\ pending' = pending /\ rx_signal' = rx_signal /\ waiting' = waiting
    BY <1>1 DEF receiver
  <2> QED BY <1>0, <1>1, <2>1, LaneTypes, Zenon DEF TypeOK
<1>3. CallShape' /\ RangesBounded' /\ NeverRefused' /\ Credit' /\ Flushing'
  BY <1>1, SameSender
<1>4. LaneInv'
  BY <1>0, <1>1, SameLanes DEF sender, history
<1> QED BY <1>2, <1>3, <1>4, Zenon DEF IInv

\* IInv is inductive: every action of the bond preserves it.
LEMMA NextInv ==
    ASSUME IInv, [Next]_vars
    PROVE  IInv'
<1>1. CASE AnyCall
  BY <1>1, AnyCallInv
<1>2. CASE Fence
  BY <1>2, FenceInv, SetFactsHold
<1>3. CASE Fenced
  BY <1>3, FencedInv
<1>4. CASE GiveUp
  BY <1>4, GiveUpInv
<1>5. CASE Post
  BY <1>5, PostInv, SetFactsHold
<1>6. CASE \E k \in Lanes : LaneStep(k)
  BY <1>6, LaneStepInv
<1>7. CASE Fail
  BY <1>7, FailInv
<1>8. CASE Rest
  BY <1>8, StutterInv DEF Rest
<1>9. CASE UNCHANGED vars
  BY <1>9, StutterInv
<1> QED BY <1>1, <1>2, <1>3, <1>4, <1>5, <1>6, <1>7, <1>8, <1>9 DEF Next

\* The inductive invariant holds in every reachable state of a bond of any
\* number of lanes, window size, queue length and range-table length.
THEOREM Inductive == Spec => []IInv
<1>1. Init => IInv
  BY InitInv, SetFactsHold
<1>2. IInv /\ [Next]_vars => IInv'
  BY NextInv
<1> QED BY <1>1, <1>2, PTL DEF Spec

\* Every variable keeps its type: lane queues hold well-formed messages, the
\* waiting count never goes below zero, and the range table stays a table.
THEOREM TypeCorrect == Spec => []TypeOK
<1>1. IInv => TypeOK
  BY DEF IInv
<1> QED BY <1>1, Inductive, PTL

\* No bonded message this sender posts is ever refused by bond_signal,
\* bond_ready, bond_ready_n or take_joined: the credit of bond_prepare and the
\* watermarks of bond_post keep every signal inside the receiver's queue.
THEOREM SafeFromRefusal == Spec => []NeverRefused
<1>1. IInv => NeverRefused
  BY DEF IInv
<1> QED BY <1>1, Inductive, PTL

\* bond_flush_locked gives back credit only for signals already published:
\* tx_fenced stays behind rx_signal.
THEOREM CreditSound == Spec => []CreditIsPublished
<1>1. IInv => CreditIsPublished
  BY DEF IInv, Credit, CreditIsPublished, TypeOK
<1> QED BY <1>1, Inductive, PTL
=============================================================================
