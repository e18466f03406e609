----------------------------- MODULE WrapCount ------------------------------
(***************************************************************************)
(* The width of a lane's write counts.  A bond's sender and receiver count *)
(* the writes of a lane in 64 bits; a message carries the low 32.  The     *)
(* receiver widens a signal's watermark against its own count of placed    *)
(* writes, and compares a part's with it by the sign of the difference.    *)
(*                                                                         *)
(* One lane's counts and one message of another lane, which carries one    *)
(* count and may be overtaken by this lane's writes.  A lane has at most   *)
(* AHEAD writes under way: what its send queue, the wire and the receive   *)
(* ring hold.  That no more than BEHIND are placed while the message is    *)
(* under way is what the comment on put_counts takes for granted; no code  *)
(* enforces it.                                                            *)
(***************************************************************************)
EXTENDS Integers

CONSTANTS HALF,       \* half the range of a count on the wire: 2^31
          AHEAD,      \* posted writes of a lane not yet placed, at most
          BEHIND,     \* writes a lane places while the message is under way
          MaxPosted   \* bound: writes posted

ASSUME HalfAssumption == HALF \in Nat /\ HALF >= 1
ASSUME AheadAssumption == AHEAD \in Nat /\ AHEAD < HALF
ASSUME BehindAssumption == BEHIND \in Nat /\ BEHIND < HALF
ASSUME PostedAssumption == MaxPosted \in Nat

VARIABLES posted,    \* writes the sender has posted on the lane
          placed,    \* writes the receiver has placed from it
          carried    \* the count the message stands for, or None

vars == <<posted, placed, carried>>
None == -1

(* Casts. *)
Low(n) == n % (2 * HALF)
Int32(n) == IF Low(n) < HALF THEN Low(n) ELSE Low(n) - 2 * HALF

\* widen
WidenUnsigned(near, low) == near + Low(low - Low(near))   \* mutant: no cast to int32_t
Widen(near, low) == near + Int32(low - Low(near))

\* bond_ready_n's test of one lane
PassedByValue(count, wait) == Low(count) >= wait   \* mutant: low words compared
Passed(count, wait) == Int32(Low(count) - wait) >= 0

Init == posted = 0 /\ placed = 0 /\ carried = None

\* tb_write and its like, once has_room finds the send queue's metering room.
Post == /\ posted < MaxPosted /\ posted - placed < AHEAD
        /\ posted' = posted + 1 /\ UNCHANGED <<placed, carried>>

\* The lane's next write is placed.
Place == /\ placed < posted
         /\ carried # None => placed - carried < BEHIND
         /\ placed' = placed + 1 /\ UNCHANGED <<posted, carried>>

\* bond_watermarks: a message is sent with the lane's count.
Send == carried = None /\ carried' = posted /\ UNCHANGED <<posted, placed>>

\* It arrives.  A part that may not land yet is looked at again.
Take == carried # None /\ carried' = None /\ UNCHANGED <<posted, placed>>

Next == Post \/ Place \/ Send \/ Take
Spec == Init /\ [][Next]_vars

-----------------------------------------------------------------------------
\* Types, and how far apart the counts are.
TypeOK == /\ posted \in Nat /\ placed \in Nat /\ carried \in Nat \cup {None}
          /\ placed <= posted /\ posted - placed <= AHEAD
          /\ carried # None => carried <= posted /\ placed - carried <= BEHIND

\* bond_signal: whenever the message is taken, its 32 bits widen to the count
\* the sender meant, also when either count has wrapped since.
WidensExactly == carried # None => Widen(placed, Low(carried)) = carried

\* bond_ready_n: its test of 32-bit words says whether the lane has placed the
\* writes the part waits for, no matter which of the counts has wrapped.
ComparesExactly == carried # None => (Passed(placed, Low(carried)) <=> placed >= carried)

=============================================================================
