----------------------------- MODULE BondRanges -----------------------------
(***************************************************************************)
(* The sender's table of remote bytes that earlier calls on a bond wrote   *)
(* or signalled and that the receiver may not have placed yet              *)
(* (struct bond_range, bond_cover, bond_overlap, bond_remember and         *)
(* bond_flagged of rpc/libmcdma_fabric.c).                                 *)
(*                                                                         *)
(* An entry says which ordinal, per lane, was the latest write into the    *)
(* half-open interval [off, end) and whether a bonded signal covers it.    *)
(* The table holds BOND_RANGES entries; a full one folds into the floor,   *)
(* which every later interval meets until a flush empties the table.       *)
(***************************************************************************)
EXTENDS Integers, FiniteSets, FiniteSetsExt

CONSTANTS N,            \* lanes of the bond (N*Q queue pairs in the code)
          BOND_RANGES   \* entries before the table folds into its floor

ASSUME LanesAssumption == N \in Nat /\ N >= 2
ASSUME RangesAssumption == BOND_RANGES \in Nat /\ BOND_RANGES >= 1

Lanes == 0 .. N - 1

\* No write on any lane: the zeroed uint64_t[BOND_LINKS] of the code.
NoWrite == [k \in Lanes |-> 0]

EmptyTable == [ranges |-> {}, floored |-> FALSE, ord |-> NoWrite, signal |-> FALSE]

\* Fold every entry of S into an ordinal vector and a signal bit.
CoverOrd(ord, S) == [k \in Lanes |-> Max({ord[k]} \cup {r.ord[k] : r \in S})]
CoverSignal(signal, S) == signal \/ \E r \in S : r.signal

Meeting(t, off, end) == {r \in t.ranges : off < r.end /\ r.off < end}

\* What earlier calls put in [off, end): nothing at all for an empty interval.
BondOverlap(t, off, end) ==
    LET met == Meeting(t, off, end)
        low == IF t.floored THEN t.ord ELSE NoWrite
    IN  IF off = end
        THEN [ord |-> NoWrite, signal |-> FALSE]
        ELSE [ord |-> CoverOrd(low, met),
              signal |-> CoverSignal(t.floored /\ t.signal, met)]

\* Entries that meet the new one merge with it. Those in the table are
\* pairwise disjoint, so the merged interval meets no other: the restart of
\* the code's loop never finds a further one.
BondRemember(t, off, end, ord, signal) ==
    LET met  == Meeting(t, off, end)
        kept == t.ranges \ met
        new  == [off |-> Min({off} \cup {r.off : r \in met}),
                 end |-> Max({end} \cup {r.end : r \in met}),
                 ord |-> CoverOrd(ord, met),
                 signal |-> CoverSignal(signal, met)]
        low  == IF t.floored THEN t.ord ELSE NoWrite
    IN  IF off = end THEN t
        ELSE IF Cardinality(kept) = BOND_RANGES
        THEN [ranges |-> {new}, floored |-> TRUE,
              ord |-> CoverOrd(low, kept),
              signal |-> CoverSignal(t.floored /\ t.signal, kept)]
        ELSE [t EXCEPT !.ranges = kept \cup {new}]

BondFlagged(t) ==
    [t EXCEPT !.ranges = {[r EXCEPT !.signal = TRUE] : r \in @},
              !.signal = t.floored]
=============================================================================
