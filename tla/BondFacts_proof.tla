-------------------------- MODULE BondFacts_proof ---------------------------
(***************************************************************************)
(* Lemmas for Bond_proof: arithmetic, the range table, the initial states, *)
(* and what all steps that post nothing share.                             *)
(***************************************************************************)
EXTENDS BondInv, TLAPS

\* The leaves expand the whole inductive invariant and need more than the default time.
USE SMTT(15), ZenonT(20)

-----------------------------------------------------------------------------
(* Arithmetic.                                                             *)

\* Division with remainder.
LEMMA DivMod ==
    ASSUME NEW a \in Int, NEW n \in Int, n > 0
    PROVE  \E q \in Int : a = q * n + (a % n)
BY SMTT(20)

\* Two signals of one window share a queue slot only when they are the same.
LEMMA SlotsDistinct ==
    ASSUME NEW r \in Nat, NEW a \in Nat, NEW b \in Nat, NEW n \in Nat, n >= 1,
           r <= a, a < r + n, r <= b, b < r + n, a % n = b % n
    PROVE  a = b
<1>1. a \in Int /\ b \in Int /\ n \in Int /\ n > 0
  OBVIOUS
<1>2. PICK p \in Int : a = p * n + (a % n)
  BY <1>1, DivMod, Zenon
<1>3. PICK q \in Int : b = q * n + (b % n)
  BY <1>1, DivMod, Zenon
<1>4. a % n \in Int
  OBVIOUS
<1> DEFINE m == a % n
           pn == p * n
           qn == q * n
<1>5. pn \in Int /\ qn \in Int /\ m \in Int /\ a = pn + m /\ b = qn + m
  BY <1>2, <1>3, <1>4
<1> HIDE DEF m, pn, qn
<1>6. pn - qn < n /\ qn - pn < n
  BY <1>5
<1>7. p = q
  BY <1>6 DEF pn, qn
<1> QED BY <1>5, <1>7 DEF pn, qn

-----------------------------------------------------------------------------
(* Sequences.                                                              *)

\* The length of a sequence, which is 0 for the empty one only.
LEMMA SeqLen == \A S : \A s \in Seq(S) : Len(s) \in Nat /\ (s = <<>> <=> Len(s) = 0)
<1>1. \A S : \A s \in Seq(S) : Len(s) \in Nat
  OBVIOUS
<1>2. \A S : \A s \in Seq(S) : s = <<>> <=> Len(s) = 0
  OBVIOUS
<1> QED BY <1>1, <1>2

\* Its elements.
LEMMA SeqElement == \A S : \A s \in Seq(S) : \A i \in 1 .. Len(s) : s[i] \in S
OBVIOUS

\* What is left when the head is taken off.
LEMMA SeqTail ==
    \A S : \A s \in Seq(S) : s # <<>> =>
       /\ Tail(s) \in Seq(S) /\ Len(Tail(s)) = Len(s) - 1
       /\ \A i \in 1 .. Len(s) - 1 : Tail(s)[i] = s[i + 1]
<1>1. \A S : \A s \in Seq(S) : s # <<>> => Tail(s) \in Seq(S)
  OBVIOUS
<1>2. \A S : \A s \in Seq(S) : s # <<>> => Len(Tail(s)) = Len(s) - 1
  OBVIOUS
<1>3. \A S : \A s \in Seq(S) : s # <<>> => \A i \in 1 .. Len(s) - 1 : Tail(s)[i] = s[i + 1]
  OBVIOUS
<1> QED BY <1>1, <1>2, <1>3

\* What an element put at the end makes of it.
LEMMA SeqAppend ==
    \A S : \A s \in Seq(S) : \A e \in S :
       /\ Append(s, e) \in Seq(S) /\ Append(s, e) # <<>> /\ Len(Append(s, e)) = Len(s) + 1
       /\ \A i \in 1 .. Len(s) : Append(s, e)[i] = s[i]
       /\ Append(s, e)[Len(s) + 1] = e
<1>1. \A S : \A s \in Seq(S) : \A e \in S : Append(s, e) \in Seq(S)
  OBVIOUS
<1>2. \A S : \A s \in Seq(S) : \A e \in S : Len(Append(s, e)) = Len(s) + 1
  OBVIOUS
<1>3. \A S : \A s \in Seq(S) : \A e \in S : Append(s, e) # <<>>
  BY <1>1, <1>2, SeqLen
<1>4. \A S : \A s \in Seq(S) : \A e \in S : \A i \in 1 .. Len(s) : Append(s, e)[i] = s[i]
  OBVIOUS
<1>5. \A S : \A s \in Seq(S) : \A e \in S : Append(s, e)[Len(s) + 1] = e
  OBVIOUS
<1> QED BY <1>1, <1>2, <1>3, <1>4, <1>5

-----------------------------------------------------------------------------
(* What the proofs use of the extrema and the cardinality of sets.  Bond_proof *)
(* derives it from the library; until there it is a hypothesis, so that the *)
(* library's theorems are not in the context of every step.                *)
Extrema ==
    \A S \in SUBSET Nat : S # {} =>
       /\ Min(S) \in S
       /\ \A b \in Nat : (\A x \in S : x <= b) => Max(S) \in S /\ \A x \in S : x <= Max(S)

SlotCounts ==
    /\ Cardinality({}) = 0
    /\ \A T \in SUBSET Slots :
          /\ Cardinality(T) \in Nat
          /\ T # {} => Cardinality(T) # 0
          /\ \A n \in T : Cardinality(T \ {n}) = Cardinality(T) - 1
          /\ \A n \in Slots \ T : Cardinality(T \cup {n}) = Cardinality(T) + 1

SetFacts == Extrema /\ SlotCounts

-----------------------------------------------------------------------------
(* The range table.                                                        *)

\* Folding table entries into an ordinal vector keeps every lane's bound.
LEMMA CoverBounded ==
    ASSUME SetFacts, NEW ord \in [Lanes -> Nat], NEW bound \in [Lanes -> Nat], NEW S,
           \A k \in Lanes : ord[k] <= bound[k],
           \A r \in S : r.ord \in [Lanes -> Nat] /\ \A k \in Lanes : r.ord[k] <= bound[k]
    PROVE  /\ CoverOrd(ord, S) \in [Lanes -> Nat]
           /\ \A k \in Lanes : CoverOrd(ord, S)[k] <= bound[k]
<1> SUFFICES ASSUME NEW k \in Lanes
             PROVE  LET V == {ord[k]} \cup {r.ord[k] : r \in S}
                    IN  Max(V) \in Nat /\ Max(V) <= bound[k]
  BY DEF CoverOrd
<1> DEFINE V == {ord[k]} \cup {r.ord[k] : r \in S}
<1>1. V \in SUBSET Nat /\ V # {} /\ bound[k] \in Nat /\ \A x \in V : x <= bound[k]
  OBVIOUS
<1> HIDE DEF V
<1>2. Max(V) \in V
  BY <1>1, Zenon DEF SetFacts, Extrema
<1> QED BY <1>1, <1>2 DEF V

\* What bond_overlap answers is well typed.
LEMMA OverlapBounded ==
    ASSUME SetFacts, NEW t \in Table, NEW bound \in [Lanes -> Nat], Bounded(t, bound),
           NEW off, NEW end
    PROVE  /\ BondOverlap(t, off, end).ord \in [Lanes -> Nat]
           /\ BondOverlap(t, off, end).signal \in BOOLEAN
<1> DEFINE met == Meeting(t, off, end)
           low == IF t.floored THEN t.ord ELSE NoWrite
<1>1. met \subseteq t.ranges
  BY DEF Meeting
<1>2. low \in [Lanes -> Nat] /\ \A k \in Lanes : low[k] <= bound[k]
  BY DEF Table, Bounded, NoWrite
<1>3. \A r \in met : r.ord \in [Lanes -> Nat] /\ \A k \in Lanes : r.ord[k] <= bound[k]
  BY <1>1 DEF Table, Entry, Bounded
<1>4. CoverOrd(low, met) \in [Lanes -> Nat]
  <2> HIDE DEF met, low
  <2> QED BY <1>2, <1>3, CoverBounded
<1>5. CoverSignal(t.floored /\ t.signal, met) \in BOOLEAN
  BY DEF CoverSignal
<1>6. NoWrite \in [Lanes -> Nat]
  BY DEF NoWrite
<1> QED BY <1>4, <1>5, <1>6, Zenon DEF BondOverlap

\* bond_remember keeps the table a table that names only posted writes.
LEMMA RememberBounded ==
    ASSUME SetFacts, NEW t \in Table, NEW bound \in [Lanes -> Nat], Bounded(t, bound),
           NEW off \in 0 .. W, NEW end \in 0 .. W, NEW signal \in BOOLEAN,
           NEW ord \in [Lanes -> Nat], \A k \in Lanes : ord[k] <= bound[k]
    PROVE  /\ BondRemember(t, off, end, ord, signal) \in Table
           /\ Bounded(BondRemember(t, off, end, ord, signal), bound)
<1> DEFINE met  == Meeting(t, off, end)
           kept == t.ranges \ met
           low  == IF t.floored THEN t.ord ELSE NoWrite
           offs == {off} \cup {r.off : r \in met}
           ends == {end} \cup {r.end : r \in met}
           new  == [off |-> Min(offs), end |-> Max(ends), ord |-> CoverOrd(ord, met),
                    signal |-> CoverSignal(signal, met)]
           floor == [ranges |-> {new}, floored |-> TRUE, ord |-> CoverOrd(low, kept),
                     signal |-> CoverSignal(t.floored /\ t.signal, kept)]
<1>1. met \subseteq t.ranges /\ kept \subseteq t.ranges /\ t.ranges \subseteq Entry
  BY DEF Meeting, Table
<1>2. low \in [Lanes -> Nat] /\ \A k \in Lanes : low[k] <= bound[k]
  BY DEF Table, Bounded, NoWrite
<1>3. \A r \in t.ranges : r.ord \in [Lanes -> Nat] /\ \A k \in Lanes : r.ord[k] <= bound[k]
  BY DEF Table, Entry, Bounded
<1>4. CoverOrd(ord, met) \in [Lanes -> Nat] /\ \A k \in Lanes : CoverOrd(ord, met)[k] <= bound[k]
  <2> HIDE DEF met
  <2> QED BY <1>1, <1>3, CoverBounded
<1>5. CoverOrd(low, kept) \in [Lanes -> Nat] /\ \A k \in Lanes : CoverOrd(low, kept)[k] <= bound[k]
  <2> HIDE DEF kept, low
  <2> QED BY <1>1, <1>2, <1>3, CoverBounded
<1>6. Min(offs) \in 0 .. W
  <2>1. offs \in SUBSET (0 .. W) /\ offs # {}
    BY <1>1 DEF Entry
  <2> HIDE DEF offs
  <2>2. offs \in SUBSET Nat
    BY <2>1, WindowAssumption
  <2> QED BY <2>1, <2>2, Zenon DEF SetFacts, Extrema
<1>7. Max(ends) \in 0 .. W
  <2>1. ends \in SUBSET (0 .. W) /\ ends # {}
    BY <1>1 DEF Entry
  <2> HIDE DEF ends
  <2>2. ends \in SUBSET Nat /\ W \in Nat /\ \A x \in ends : x <= W
    BY <2>1, WindowAssumption
  <2> QED BY <2>1, <2>2, Zenon DEF SetFacts, Extrema
<1>8. CoverSignal(signal, met) \in BOOLEAN /\ CoverSignal(t.floored /\ t.signal, kept) \in BOOLEAN
  BY DEF CoverSignal
<1>9. new \in Entry /\ \A k \in Lanes : new.ord[k] <= bound[k]
  <2> HIDE DEF offs, ends, met
  <2> QED BY <1>4, <1>6, <1>7, <1>8 DEF Entry
<1>10. floor \in Table /\ Bounded(floor, bound)
  <2> HIDE DEF new, low, kept
  <2> QED BY <1>5, <1>8, <1>9, Zenon DEF Table, Bounded
<1>11. LET u == [t EXCEPT !.ranges = kept \cup {new}] IN u \in Table /\ Bounded(u, bound)
  <2> HIDE DEF new, kept
  <2> QED BY <1>1, <1>9 DEF Table, Bounded
<1>12. BondRemember(t, off, end, ord, signal) \in
          {t, floor, [t EXCEPT !.ranges = kept \cup {new}]}
  BY DEF BondRemember
<1> HIDE DEF floor, kept, new
<1> QED BY <1>10, <1>11, <1>12

\* bond_flagged changes no ordinal.
LEMMA FlaggedBounded ==
    ASSUME NEW t \in Table, NEW bound, Bounded(t, bound)
    PROVE  BondFlagged(t) \in Table /\ Bounded(BondFlagged(t), bound)
<1> DEFINE flag(r) == [r EXCEPT !.signal = TRUE]
<1>1. \A r \in t.ranges : flag(r) \in Entry /\ flag(r).ord = r.ord
  BY Zenon DEF Table, Entry
<1>2. BondFlagged(t) = [t EXCEPT !.ranges = {flag(r) : r \in t.ranges}, !.signal = t.floored]
  BY DEF BondFlagged, Table
<1> HIDE DEF flag
<1>3. {flag(r) : r \in t.ranges} \subseteq Entry
  BY <1>1
<1>4. \A u \in {flag(r) : r \in t.ranges} : \E r \in t.ranges : u.ord = r.ord
  BY <1>1
<1> QED BY <1>2, <1>3, <1>4, Zenon DEF Table, Bounded

\* The affinity of a plain write is one of the lanes, or none.
LEMMA AffinityLane ==
    ASSUME SetFacts, NEW ord
    PROVE  Affinity(ord) \in 0 .. N
<1> DEFINE carried == {k \in Lanes : ord[k] # 0}
<1>1. carried \in SUBSET Nat /\ \A k \in carried : k <= N
  BY LanesAssumption DEF Lanes
<1>2. N \in Nat
  BY LanesAssumption
<1>3. carried # {} => Max(carried) \in carried
  <2> HIDE DEF carried
  <2> QED BY <1>1, <1>2, Zenon DEF SetFacts, Extrema
<1> QED BY <1>1, <1>3, LanesAssumption DEF Affinity, None, Lanes

-----------------------------------------------------------------------------
(* The inductive invariant.                                                *)

\* Init establishes the invariant.
LEMMA InitInv == ASSUME SetFacts, Init PROVE IInv
<1> USE LanesAssumption, WindowAssumption, SignalsAssumption
<1>1. TypeOK
  <2>1. <<>> \in Seq(Message) /\ <<>> \in Seq([off : 0 .. W, end : 0 .. W, word : 0 .. W])
        /\ <<>> \in Seq([call : Nat, word : Cells, need : [Lanes -> Nat], fenced : Nat])
    OBVIOUS
  <2>2. NoCall \in [op : Ops, off : 0 .. W, end : 0 .. W, word : 0 .. W, aff : 0 .. N]
    BY DEF NoCall, NoWord, None, Ops, Signalling, Writing
  <2>3. EmptyTable \in Table
    BY DEF EmptyTable, Table, NoWrite
  <2>4. 0 \in Lanes /\ None \in 0 .. N
    BY DEF Lanes, None
  <2>5. /\ posted \in [Lanes -> Nat] /\ placed \in [Lanes -> Nat] /\ mem \in [Cells -> Nat]
        /\ pending \in [Slots -> Nat] /\ queue \in [Lanes -> Seq(Message)]
        /\ at \in [Lanes -> Places] /\ queued \in [Lanes -> BOOLEAN]
    BY <2>1 DEF Init, NoWrite, Places
  <2>6. /\ lane \in Lanes /\ ack \in BOOLEAN /\ seen \in Table /\ rx_lock \in 0 .. N
        /\ cur \in [op : Ops, off : 0 .. W, end : 0 .. W, word : 0 .. W, aff : 0 .. N]
    BY <2>2, <2>3, <2>4, Zenon DEF Init
  <2>7. /\ calls \in Seq([off : 0 .. W, end : 0 .. W, word : 0 .. W])
        /\ signals \in Seq([call : Nat, word : Cells, need : [Lanes -> Nat], fenced : Nat])
    BY <2>1 DEF Init
  <2>8. /\ tx_signal \in Nat /\ tx_fenced \in Nat /\ rx_signal \in Nat \ {0}
        /\ waiting \in Nat /\ flushed \in Nat
    BY DEF Init
  <2>9. pc \in {"idle", "fence", "await", "post"} /\ down \in BOOLEAN /\ refused \in BOOLEAN
    BY Zenon DEF Init
  <2> QED BY <2>5, <2>6, <2>7, <2>8, <2>9, Zenon DEF TypeOK
<1>2. CallShape
  BY DEF Init, CallShape, NoCall, Writing, Signalling
<1>3. RangesBounded
  BY DEF Init, RangesBounded, Bounded, EmptyTable, NoWrite
<1>4. LockHeld /\ ThreadPlace
  BY DEF Init, LockHeld, ThreadPlace, None, Lanes
<1>5. Ordinals /\ Posted
  BY DEF Init, Ordinals, LaneOrdinals, Posted, NoWrite
<1>6. SignalNumbers /\ CarriedOnce /\ Queued /\ NoneLost
  BY DEF Init, SignalNumbers, CarriedOnce, Queued, NoneLost
<1>7. ~NextReady
  BY DEF Init, NextReady, Slots
<1>8. Storing /\ SomeoneDrains /\ Flushing /\ Credit /\ NeverRefused
  BY <1>7 DEF Init, Storing, SomeoneDrains, Flushing, Credit, NeverRefused
<1>9. WaitingCounts
  <2>1. {n \in Slots : pending[n] # 0} = {}
    BY DEF Init
  <2> QED BY <2>1, Zenon DEF Init, WaitingCounts, SetFacts, SlotCounts
<1> QED BY <1>1, <1>2, <1>3, <1>4, <1>5, <1>6, <1>8, <1>9 DEF IInv, LaneInv

\* What the proofs below use of the queues' type.
LEMMA QueueTypes ==
    ASSUME TypeOK
    PROVE  \A k \in Lanes :
             /\ queue[k] \in Seq(Message) /\ Len(queue[k]) \in Nat
             /\ placed[k] \in Nat /\ posted[k] \in Nat
             /\ queue[k] = <<>> <=> Len(queue[k]) = 0
             /\ Head(queue[k]) = Msg(k, 1)
             /\ \A i \in 1 .. Len(queue[k]) :
                   /\ Msg(k, i) \in Message /\ Msg(k, i).ord \in Nat
                   /\ Msg(k, i).seq \in Nat /\ Msg(k, i).kind \in Kinds
<1> SUFFICES ASSUME NEW k \in Lanes
             PROVE  /\ queue[k] \in Seq(Message) /\ Len(queue[k]) \in Nat
                    /\ placed[k] \in Nat /\ posted[k] \in Nat
                    /\ queue[k] = <<>> <=> Len(queue[k]) = 0
                    /\ Head(queue[k]) = Msg(k, 1)
                    /\ \A i \in 1 .. Len(queue[k]) :
                          /\ Msg(k, i) \in Message /\ Msg(k, i).ord \in Nat
                          /\ Msg(k, i).seq \in Nat /\ Msg(k, i).kind \in Kinds
  OBVIOUS
<1>1. queue[k] \in Seq(Message) /\ placed[k] \in Nat /\ posted[k] \in Nat
  BY DEF TypeOK
<1>2. Len(queue[k]) \in Nat /\ (queue[k] = <<>> <=> Len(queue[k]) = 0)
  BY <1>1, SeqLen, SeqLen
<1>3. ASSUME NEW i \in 1 .. Len(queue[k]) PROVE Msg(k, i) \in Message
  BY <1>1, SeqElement DEF Msg
<1>4. \A m \in Message : m.ord \in Nat /\ m.seq \in Nat /\ m.kind \in Kinds
  BY DEF Message
<1>5. Head(queue[k]) = Msg(k, 1)
  BY <1>1 DEF Msg
<1> QED BY <1>1, <1>2, <1>3, <1>4, <1>5

\* A step that leaves the queues, and what is counted or carried of them.
LEMMA SameQueues ==
    ASSUME Ordinals, SignalNumbers, CarriedOnce, NoneLost,
           UNCHANGED <<queue, down, placed, posted, signals, tx_signal, rx_signal, pending>>,
           \A j \in Lanes : \A i : Unplaced(j, i)' <=> Unplaced(j, i),
           \A j \in Lanes : \A i : Carrying(j, i)' <=> Carrying(j, i)
    PROVE  Ordinals' /\ SignalNumbers' /\ CarriedOnce' /\ NoneLost'
<1>1. \A j \in Lanes : \A i : Msg(j, i)' = Msg(j, i)
  BY DEF Msg
<1>2. Ordinals'
  BY <1>1 DEF Ordinals, LaneOrdinals, Ordinal
<1>3. SignalNumbers'
  BY <1>1 DEF SignalNumbers, SignalNumber
<1>4. CarriedOnce'
  BY <1>1 DEF CarriedOnce, NotElsewhere
<1>5. NoneLost'
  BY <1>1 DEF NoneLost, Carried
<1> QED BY <1>2, <1>3, <1>4, <1>5

\* A step of the sender that posts nothing.
LEMMA SameLanes ==
    ASSUME LaneInv, UNCHANGED <<queue, receiver, down, posted, signals, tx_signal>>
    PROVE  LaneInv'
<1> USE DEF LaneInv, receiver
<1>1. Ordinals' /\ SignalNumbers' /\ CarriedOnce' /\ NoneLost'
  <2>1. \A j \in Lanes : \A i : Unplaced(j, i)' <=> Unplaced(j, i)
    BY DEF Unplaced, Counted, Msg
  <2>2. \A j \in Lanes : \A i : Carrying(j, i)' <=> Carrying(j, i)
    BY DEF Carrying, Msg
  <2> QED BY <2>1, <2>2, SameQueues
<1>2. LockHeld' /\ ThreadPlace' /\ Posted' /\ Queued' /\ WaitingCounts'
  BY Zenon DEF LockHeld, ThreadPlace, Posted, Queued, WaitingCounts, Msg
<1>3. Storing' /\ SomeoneDrains'
  BY Zenon DEF Storing, SomeoneDrains, NextReady
<1> QED BY <1>1, <1>2, <1>3

\* Taking a message whose write is counted and whose signal is queued off lane k.
LEMMA TailInv ==
    ASSUME TypeOK, LaneInv, NEW k \in Lanes, queue[k] # <<>>,
           ~Unplaced(k, 1), ~Carrying(k, 1),
           queue' = [queue EXCEPT ![k] = Tail(@)],
           at' = [at EXCEPT ![k] = "idle"], queued' = [queued EXCEPT ![k] = FALSE],
           UNCHANGED <<down, placed, posted, signals, tx_signal, rx_signal, pending>>
    PROVE  /\ queue' \in [Lanes -> Seq(Message)]
           /\ ThreadPlace' /\ Ordinals' /\ SignalNumbers' /\ CarriedOnce' /\ NoneLost'
           /\ Len(queue'[k]) = Len(queue[k]) - 1
           /\ \A i \in 1 .. Len(queue[k]) - 1 : Msg(k, i)' = Msg(k, i + 1)
<1>0. ThreadPlace /\ Ordinals /\ SignalNumbers /\ CarriedOnce /\ NoneLost
  BY DEF LaneInv
<1>1. /\ queue[k] \in Seq(Message) /\ queue \in [Lanes -> Seq(Message)]
      /\ at \in [Lanes -> Places] /\ queued \in [Lanes -> BOOLEAN]
      /\ \A j \in Lanes : placed[j] \in Nat /\ posted[j] \in Nat /\ Len(queue[j]) \in Nat
      /\ \A j \in Lanes : \A i \in 1 .. Len(queue[j]) : Msg(j, i).ord \in Nat
  BY QueueTypes, Zenon DEF TypeOK
<1>2. /\ Tail(queue[k]) \in Seq(Message) /\ Len(Tail(queue[k])) = Len(queue[k]) - 1
      /\ \A i \in 1 .. Len(queue[k]) - 1 : Tail(queue[k])[i] = queue[k][i + 1]
      /\ Len(queue[k]) \in Nat \ {0}
  BY <1>1, SeqTail, SeqLen, Zenon
<1>3. queue' \in [Lanes -> Seq(Message)]
  BY <1>1, <1>2, Zenon
<1>4. /\ \A j \in Lanes : j # k => queue'[j] = queue[j]
      /\ \A j \in Lanes : \A i : j # k => Msg(j, i)' = Msg(j, i)
      /\ Len(queue'[k]) = Len(queue[k]) - 1
      /\ \A i \in 1 .. Len(queue[k]) - 1 : Msg(k, i)' = Msg(k, i + 1)
  BY <1>1, <1>2, Zenon DEF Msg
<1>5. /\ \A j \in Lanes : \A i : j # k => (Unplaced(j, i)' <=> Unplaced(j, i))
      /\ \A i \in 1 .. Len(queue[k]) - 1 : Unplaced(k, i)' <=> Unplaced(k, i + 1)
  BY <1>1, <1>2, <1>4 DEF Unplaced, Counted
<1>6. /\ \A j \in Lanes : \A i : j # k => (Carrying(j, i)' <=> Carrying(j, i))
      /\ \A i \in 1 .. Len(queue[k]) - 1 : Carrying(k, i)' <=> Carrying(k, i + 1)
  BY <1>1, <1>2, <1>4 DEF Carrying
<1>7. ThreadPlace'
  <2>1. \A j \in Lanes : j # k => at'[j] = at[j] /\ queued'[j] = queued[j]
    BY <1>1, Zenon
  <2>2. at'[k] = "idle" /\ ~queued'[k]
    BY <1>1, Zenon
  <2> QED BY <1>0, <1>4, <2>1, <2>2 DEF ThreadPlace
<1>8. Ordinals'
  <2> SUFFICES ASSUME ~down, NEW j \in Lanes PROVE LaneOrdinals(j)'
    BY DEF Ordinals
  <2>1. LaneOrdinals(j)
    BY <1>0 DEF Ordinals
  <2>2. CASE j # k
    BY <2>1, <2>2, <1>4, <1>5 DEF LaneOrdinals, Ordinal
  <2>3. CASE j = k
    <3>1. ASSUME NEW i \in 1 .. Len(queue[k]) - 1 PROVE Ordinal(k, i)'
      <4>1. Ordinal(k, i + 1) /\ Ordinal(k, 1) /\ i + 1 \in 1 .. Len(queue[k])
        BY <2>1, <2>3, <1>2 DEF LaneOrdinals
      <4>2. Msg(k, i)' = Msg(k, i + 1) /\ (Unplaced(k, i)' <=> Unplaced(k, i + 1))
        BY <1>4, <1>5, Zenon
      <4>3. i > 1 => Msg(k, i - 1)' = Msg(k, i)
        BY <1>4, <1>2
      <4>4. \A l \in 1 .. i - 1 : Msg(k, l)' = Msg(k, l + 1) /\ l + 1 \in 1 .. i
        BY <1>4, <1>2
      <4>5. i = 1 => (Unplaced(k, i + 1) <=> Msg(k, i + 1).kind \in WriteKinds)
        BY DEF Unplaced
      <4>6. Msg(k, i + 1).ord \in Nat /\ Msg(k, i).ord \in Nat
        BY <1>1, <4>1
      <4>7. placed'[k] = placed[k] /\ posted'[k] = posted[k] /\ placed[k] \in Nat
        BY <1>1, Zenon
      <4>8. /\ placed[k] <= Msg(k, i + 1).ord /\ Msg(k, i + 1).ord <= posted[k]
            /\ Unplaced(k, i + 1) => placed[k] < Msg(k, i + 1).ord
            /\ Msg(k, i + 1).ord = Msg(k, i).ord
                                   + (IF Msg(k, i + 1).kind \in WriteKinds THEN 1 ELSE 0)
        BY <4>1 DEF Ordinal
      <4>9. ASSUME NEW l \in 1 .. i - 1
            PROVE  /\ Msg(k, l + 1).ord <= Msg(k, i + 1).ord
                   /\ Msg(k, i + 1).kind \in WriteKinds => Msg(k, l + 1).ord < Msg(k, i + 1).ord
        <5>1. l + 1 \in 1 .. i
          BY <4>4, Zenon
        <5>2. i + 1 - 1 = i
          BY <1>2
        <5> QED BY <4>1, <5>1, <5>2 DEF Ordinal
      <4>10. i = 1 => Msg(k, i).ord = placed[k]
        <5>1. Msg(k, 1).ord = placed[k] + (IF Unplaced(k, 1) THEN 1 ELSE 0)
          BY <4>1, Zenon DEF Ordinal
        <5> QED BY <5>1, <4>7
      <4>11. i = 1 => Msg(k, i)'.ord = placed'[k] + (IF Unplaced(k, i)' THEN 1 ELSE 0)
        BY <4>2, <4>5, <4>7, <4>8, <4>10, Zenon
      <4>12. i > 1 => Msg(k, i)'.ord = Msg(k, i - 1)'.ord
                                       + (IF Msg(k, i)'.kind \in WriteKinds THEN 1 ELSE 0)
        BY <4>2, <4>3, <4>8, Zenon
      <4>13. \A l \in 1 .. i - 1 :
                /\ Msg(k, l)'.ord <= Msg(k, i)'.ord
                /\ Msg(k, i)'.kind \in WriteKinds => Msg(k, l)'.ord < Msg(k, i)'.ord
        BY <4>2, <4>4, <4>9, Zenon
      <4>14. /\ placed'[k] <= Msg(k, i)'.ord /\ Msg(k, i)'.ord <= posted'[k]
             /\ Unplaced(k, i)' => placed'[k] < Msg(k, i)'.ord
        BY <4>2, <4>7, <4>8, Zenon
      <4> QED BY <4>11, <4>12, <4>13, <4>14, Zenon DEF Ordinal
    <3>2. queue'[k] \in Seq(Message)
      BY <1>3
    <3>3. queue'[k] = <<>> <=> Len(queue'[k]) = 0
      BY <3>2, SeqLen, Zenon
    <3>4. queue'[k] = <<>> => placed'[k] = posted'[k]
      <4> SUFFICES ASSUME Len(queue[k]) = 1 PROVE placed[k] = posted[k]
        BY <3>3, <1>2, <1>4
      <4>1. Msg(k, 1).ord = posted[k]
        BY <2>1, <2>3, Zenon DEF LaneOrdinals
      <4>2. Ordinal(k, 1)
        BY <2>1, <2>3 DEF LaneOrdinals
      <4> QED BY <4>1, <4>2, <1>1 DEF Ordinal
    <3>5. queue'[k] # <<>> => Msg(k, Len(queue[k]))' = Msg(k, Len(queue[k]))
      BY <1>2, <1>4, <3>3
    <3> QED BY <1>2, <1>4, <2>1, <2>3, <3>1, <3>4, <3>5, Zenon DEF LaneOrdinals
  <2> QED BY <2>2, <2>3
<1>9. SignalNumbers'
  <2> SUFFICES ASSUME ~down, NEW j \in Lanes, NEW i \in 1 .. Len(queue'[j])
               PROVE  SignalNumber(j, i)'
    BY DEF SignalNumbers
  <2>1. CASE j # k
    BY <1>0, <2>1, <1>4, <1>5 DEF SignalNumbers, SignalNumber
  <2>2. CASE j = k
    <3>1. SignalNumber(k, i + 1)
      BY <1>0, <2>2, <1>2, <1>4 DEF SignalNumbers
    <3> QED BY <2>2, <3>1, <1>2, <1>4, <1>5, Zenon DEF SignalNumber
  <2> QED BY <2>1, <2>2
<1>10. CarriedOnce'
  <2> SUFFICES ASSUME ~down, NEW j \in Lanes, NEW i \in 1 .. Len(queue'[j]), Carrying(j, i)'
               PROVE  NotElsewhere(j, i)'
    BY DEF CarriedOnce
  <2> DEFINE o == IF j = k THEN i + 1 ELSE i
  <2>1. /\ o \in 1 .. Len(queue[j]) /\ Carrying(j, o) /\ Msg(j, o) = Msg(j, i)'
    BY <1>2, <1>4, <1>6
  <2>2. NotElsewhere(j, o)
    BY <1>0, <2>1, Zenon DEF CarriedOnce
  <2>3. ASSUME NEW l \in Lanes, NEW m \in 1 .. Len(queue'[l]), Carrying(l, m)',
               Msg(l, m)'.seq = Msg(j, i)'.seq
        PROVE  l = j /\ m = i
    <3> DEFINE p == IF l = k THEN m + 1 ELSE m
    <3>1. /\ p \in 1 .. Len(queue[l]) /\ Carrying(l, p) /\ Msg(l, p) = Msg(l, m)'
      BY <2>3, <1>2, <1>4, <1>6
    <3>2. l = j /\ p = o
      BY <2>1, <2>2, <2>3, <3>1, Zenon DEF NotElsewhere
    <3> QED BY <3>2, <1>1, <1>2
  <2> QED BY <2>1, <2>2, <2>3, Zenon DEF NotElsewhere
<1>11. NoneLost'
  <2> SUFFICES ASSUME ~down, NEW s \in rx_signal .. tx_signal, Carried(s) PROVE Carried(s)'
    BY <1>0 DEF NoneLost
  <2>0. PICK j \in Lanes : \E i \in 1 .. Len(queue[j]) : Carrying(j, i) /\ Msg(j, i).seq = s
    BY DEF Carried
  <2>1. PICK i \in 1 .. Len(queue[j]) : Carrying(j, i) /\ Msg(j, i).seq = s
    BY <2>0, Zenon
  <2>2. CASE j # k
    BY <2>1, <2>2, <1>4, <1>6, Zenon DEF Carried
  <2>3. CASE j = k
    <3>1. i # 1 /\ i - 1 \in 1 .. Len(queue[k]) - 1
      BY <2>1, <2>3, <1>2
    <3>2. Carrying(k, i - 1)' /\ Msg(k, i - 1)' = Msg(k, i)
      BY <2>1, <2>3, <3>1, <1>2, <1>4, <1>6
    <3> QED BY <2>1, <2>3, <3>1, <3>2, <1>4, Zenon DEF Carried
  <2> QED BY <2>2, <2>3
<1> QED BY <1>3, <1>4, <1>7, <1>8, <1>9, <1>10, <1>11, Zenon

-----------------------------------------------------------------------------
(* What a step keeps by leaving alone the state it is about.               *)

\* The parts of the invariant.
LEMMA Parts ==
    ASSUME IInv
    PROVE  /\ TypeOK /\ CallShape /\ RangesBounded /\ LaneInv /\ Flushing /\ Credit /\ NeverRefused
           /\ LockHeld /\ ThreadPlace /\ Ordinals /\ Posted /\ SignalNumbers /\ CarriedOnce
           /\ Queued /\ NoneLost /\ Storing /\ WaitingCounts /\ SomeoneDrains
BY Zenon DEF IInv, LaneInv

\* A step of a lane's thread leaves the sender's state alone.
LEMMA SameSender ==
    ASSUME IInv, UNCHANGED <<sender, history, ack, down, refused>>
    PROVE  /\ CallShape' /\ RangesBounded' /\ NeverRefused'
           /\ UNCHANGED rx_signal => Credit'
           /\ UNCHANGED queue => Flushing'
           /\ UNCHANGED <<rx_signal, pending, waiting>> => Posted' /\ Queued' /\ WaitingCounts'
           /\ UNCHANGED <<rx_signal, pending, placed>> => (NextReady' <=> NextReady)
<1>1. /\ pc' = pc /\ cur' = cur /\ lane' = lane /\ seen' = seen /\ posted' = posted
      /\ tx_signal' = tx_signal /\ tx_fenced' = tx_fenced /\ calls' = calls
      /\ signals' = signals /\ flushed' = flushed /\ ack' = ack /\ down' = down
      /\ refused' = refused
  BY DEF sender, history
<1>2. CallShape' /\ RangesBounded' /\ NeverRefused'
  BY <1>1, Parts DEF CallShape, RangesBounded, Bounded, NeverRefused
<1>3. UNCHANGED rx_signal => Credit'
  BY <1>1, Parts DEF Credit
<1>4. UNCHANGED queue => Flushing'
  BY <1>1, Parts DEF Flushing, Msg
<1>5. ASSUME UNCHANGED <<rx_signal, pending, waiting>> PROVE Posted' /\ Queued' /\ WaitingCounts'
  <2>1. rx_signal' = rx_signal /\ pending' = pending /\ waiting' = waiting
    BY <1>5
  <2>2. Posted'
    BY <1>1, <2>1, Parts, Zenon DEF Posted
  <2>3. Queued' /\ WaitingCounts'
    BY <1>1, <2>1, Parts, Zenon DEF Queued, WaitingCounts
  <2> QED BY <2>2, <2>3
<1>6. ASSUME UNCHANGED <<rx_signal, pending, placed>> PROVE NextReady' <=> NextReady
  <2>1. rx_signal' = rx_signal /\ pending' = pending /\ placed' = placed
    BY <1>6
  <2> QED BY <1>1, <2>1, Zenon DEF NextReady
<1> QED BY <1>2, <1>3, <1>4, <1>5, <1>6

\* Its types, given those of what a lane's thread does change.
LEMMA LaneTypes ==
    ASSUME TypeOK, UNCHANGED <<sender, history, ack, down, refused>>,
           queue' \in [Lanes -> Seq(Message)],
           at' \in [Lanes -> Places], queued' \in [Lanes -> BOOLEAN], mem' \in [Cells -> Nat],
           placed' \in [Lanes -> Nat], rx_lock' \in 0 .. N, pending' \in [Slots -> Nat],
           rx_signal' \in Nat \ {0}, waiting' \in Nat
    PROVE  TypeOK'
<1>1. /\ pc' = pc /\ cur' = cur /\ lane' = lane /\ seen' = seen /\ posted' = posted
      /\ tx_signal' = tx_signal /\ tx_fenced' = tx_fenced /\ calls' = calls
      /\ signals' = signals /\ flushed' = flushed /\ ack' = ack /\ down' = down
      /\ refused' = refused
  BY DEF sender, history
<1> QED BY <1>1, Zenon DEF TypeOK

\* Facts the steps of a lane's thread share: posted signals that are not
\* published lie in the window, and the next signal, once ready, is posted
\* and counted by waiting.
LEMMA WindowFacts ==
    ASSUME SetFacts, TypeOK, Posted, Queued, WaitingCounts, Credit
    PROVE  /\ \A s \in Nat : rx_signal <= s /\ s <= tx_signal => InWindow(s)
           /\ \A s \in Nat : s % BOND_SIGNALS \in Slots
           /\ NextReady => /\ rx_signal \in 1 .. tx_signal /\ waiting # 0
                           /\ signals[rx_signal].call \in Nat /\ signals[rx_signal].word \in Cells
<1>1. /\ rx_signal \in Nat \ {0} /\ tx_signal \in Nat /\ tx_fenced \in Nat
      /\ BOND_SIGNALS \in Nat /\ BOND_SIGNALS >= 1 /\ pending \in [Slots -> Nat]
  BY SignalsAssumption, Zenon DEF TypeOK
<1>2. \A s \in Nat : rx_signal <= s /\ s <= tx_signal => InWindow(s)
  BY <1>1 DEF Credit, InWindow
<1>3. \A s \in Nat : s % BOND_SIGNALS \in Slots
  BY <1>1 DEF Slots
<1>4. ASSUME NextReady
      PROVE  /\ rx_signal \in 1 .. tx_signal /\ waiting # 0
             /\ signals[rx_signal].call \in Nat /\ signals[rx_signal].word \in Cells
  <2> DEFINE n == rx_signal % BOND_SIGNALS
             full == {i \in Slots : pending[i] # 0}
  <2>1. n \in Slots /\ pending[n] = rx_signal
    BY <1>1, <1>3, <1>4 DEF NextReady
  <2>2. rx_signal \in 1 .. tx_signal
    BY <1>1, <2>1 DEF Queued
  <2>3. n \in full
    BY <1>1, <2>1
  <2>4. Cardinality(full) # 0
    BY <2>3, Zenon DEF SetFacts, SlotCounts
  <2>5. signals[rx_signal] \in [call : Nat, word : Cells, need : [Lanes -> Nat], fenced : Nat]
    BY <2>2, SeqElement, Zenon DEF Posted, TypeOK
  <2> QED BY <2>2, <2>4, <2>5, Zenon DEF WaitingCounts
<1> QED BY <1>2, <1>3, <1>4

\* A step of lane k's thread between two places where the head of the lane is
\* as much counted and as much queued as before.
LEMMA SamePlace ==
    ASSUME IInv, NEW k \in Lanes, NEW to \in Places,
           at' = [at EXCEPT ![k] = to], UNCHANGED <<sender, history, ack, down, refused>>,
           UNCHANGED <<queue, queued, placed, pending, rx_signal>>,
           Msg(k, 1).kind \in WriteKinds =>
              (Counted(k) <=> to \in {"looking", "locking", "enqueue", "draining", "storing"})
    PROVE  Ordinals' /\ SignalNumbers' /\ CarriedOnce' /\ NoneLost'
<1>1. at \in [Lanes -> Places]
  BY Parts, Zenon DEF TypeOK
<1>2. \A j \in Lanes : \A i : Msg(j, i)' = Msg(j, i)
  BY Zenon DEF Msg
<1>3. \A j \in Lanes : j # k => (Counted(j)' <=> Counted(j))
  BY <1>1 DEF Counted
<1>4. Msg(k, 1).kind \in WriteKinds => (Counted(k)' <=> Counted(k))
  BY <1>1 DEF Counted
<1>5. \A j \in Lanes : \A i : Unplaced(j, i)' <=> Unplaced(j, i)
  BY <1>2, <1>3, <1>4, Zenon DEF Unplaced
<1>6. \A j \in Lanes : \A i : Carrying(j, i)' <=> Carrying(j, i)
  BY <1>2, Zenon DEF Carrying
<1>7. UNCHANGED <<queue, down, placed, posted, signals, tx_signal, rx_signal, pending>>
  BY DEF sender, history
<1> QED BY <1>5, <1>6, <1>7, SameQueues, Parts, Zenon
=============================================================================
