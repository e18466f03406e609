-------------------------- MODULE WrapCount_proof ---------------------------
(***************************************************************************)
(* Proofs that 32 bits of a count are enough, whatever their number, as    *)
(* long as the counts stay less than half their range apart.               *)
(***************************************************************************)
EXTENDS WrapCount, TLAPS

\* Division with remainder.
LEMMA Remainder ==
    ASSUME NEW a \in Int, NEW n \in Int, n > 0
    PROVE  \E q \in Int : a = q * n + (a % n)
BY SMTT(20)

\* The range of a remainder.
LEMMA RemainderRange ==
    ASSUME NEW a \in Int, NEW n \in Int, n > 0
    PROVE  a % n \in 0 .. n - 1
BY SMTT(20)

\* A remainder is unique: casting ignores multiples of the range.
LEMMA CastIgnores ==
    ASSUME NEW a \in Int, NEW n \in Int, n > 0, NEW q \in Int, NEW r \in 0 .. n - 1, a = q * n + r
    PROVE  a % n = r
<1>1. PICK p \in Int : a = p * n + (a % n)
  BY Remainder, Zenon
<1>2. a % n \in 0 .. n - 1
  BY RemainderRange, Zenon
<1> DEFINE s == a % n
           pn == p * n
           qn == q * n
<1>3. pn \in Int /\ qn \in Int /\ s \in 0 .. n - 1 /\ a = pn + s /\ a = qn + r
  BY <1>1, <1>2
<1> HIDE DEF s, pn, qn
<1>4. pn - qn < n /\ qn - pn < n
  BY <1>3
<1>5. p = q
  BY <1>4 DEF pn, qn
<1>6. pn = qn
  BY <1>5 DEF pn, qn
<1>7. s = r
  BY <1>3, <1>6
<1> QED BY <1>7 DEF s

\* The signed difference of the low words of two counts less than half the
\* range apart is the difference of the counts.
LEMMA SignedDifference ==
    ASSUME NEW a \in Nat, NEW b \in Nat, b - a < HALF, a - b < HALF
    PROVE  Int32(Low(a) - Low(b)) = a - b
<1> DEFINE n == 2 * HALF
<1>1. HALF \in Nat /\ HALF >= 1
  BY HalfAssumption
<1>2. n \in Int /\ n > 0 /\ a \in Int /\ b \in Int
  BY <1>1
<1> HIDE DEF n
<1>3. PICK p \in Int : a = p * n + (a % n)
  BY <1>2, Remainder, Zenon
<1>4. PICK q \in Int : b = q * n + (b % n)
  BY <1>2, Remainder, Zenon
<1>5. a % n \in Int /\ b % n \in Int
  BY <1>2, RemainderRange
<1> DEFINE d == (a % n) - (b % n)
<1>6. d \in Int /\ d = (q - p) * n + (a - b)
  BY <1>2, <1>3, <1>4, <1>5
<1>7. d = (q - p - 1) * n + (a - b + n) /\ d \in Int
  BY <1>2, <1>6
<1> HIDE DEF d
<1>8. CASE a - b >= 0
  <2>1. a - b \in 0 .. n - 1 /\ q - p \in Int
    BY <1>1, <1>8 DEF n
  <2>2. d % n = a - b
    BY <1>2, <1>6, <2>1, CastIgnores, Zenon
  <2> QED BY <1>1, <1>8, <2>2 DEF Int32, Low, d, n
<1>9. CASE a - b < 0
  <2>1. a - b + n \in 0 .. n - 1 /\ q - p - 1 \in Int
    BY <1>1, <1>9 DEF n
  <2>2. d % n = a - b + n
    BY <1>2, <1>7, <2>1, CastIgnores, Zenon
  <2>3. a - b + n >= HALF
    BY <1>1 DEF n
  <2> QED BY <1>1, <1>9, <2>2, <2>3 DEF Int32, Low, d, n
<1> QED BY <1>8, <1>9

\* The counts of a lane never come half the range apart.
THEOREM CountsNear == Spec => []TypeOK
<1>1. Init => TypeOK
  BY AheadAssumption, BehindAssumption DEF Init, TypeOK, None
<1>2. TypeOK /\ [Next]_vars => TypeOK'
  BY AheadAssumption, BehindAssumption DEF TypeOK, Next, Post, Place, Send, Take, None, vars
<1> QED BY <1>1, <1>2, PTL DEF Spec

\* widen recovers the count a sender meant, for every width of the wire's
\* counts and every ring smaller than half their range.
THEOREM WidenIsExact == Spec => []WidensExactly
<1>1. TypeOK => WidensExactly
  <2> SUFFICES ASSUME TypeOK, carried # None PROVE Widen(placed, Low(carried)) = carried
    BY DEF WidensExactly
  <2>1. carried \in Nat /\ placed \in Nat /\ carried - placed < HALF /\ placed - carried < HALF
    BY HalfAssumption, AheadAssumption, BehindAssumption DEF TypeOK
  <2>2. Int32(Low(carried) - Low(placed)) = carried - placed
    BY <2>1, SignedDifference, Zenon
  <2> QED BY <2>1, <2>2 DEF Widen
<1> QED BY <1>1, CountsNear, PTL

\* bond_ready_n's comparison of low words is the comparison of the counts.
THEOREM CompareIsExact == Spec => []ComparesExactly
<1>1. TypeOK => ComparesExactly
  <2> SUFFICES ASSUME TypeOK, carried # None
               PROVE  Passed(placed, Low(carried)) <=> placed >= carried
    BY DEF ComparesExactly
  <2>1. carried \in Nat /\ placed \in Nat /\ carried - placed < HALF /\ placed - carried < HALF
    BY HalfAssumption, AheadAssumption, BehindAssumption DEF TypeOK
  <2>2. Int32(Low(placed) - Low(carried)) = placed - carried
    BY <2>1, SignedDifference, Zenon
  <2> QED BY <2>1, <2>2 DEF Passed
<1> QED BY <1>1, CountsNear, PTL

=============================================================================
