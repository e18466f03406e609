---------------------------- MODULE BondAsk_proof ----------------------------
(***************************************************************************)
(* The safety of handing parts to the progress threads, for every number   *)
(* of lanes and of calls.                                                  *)
(*                                                                         *)
(* A part that is taken has not been posted, and whoever took it is the    *)
(* only one to post it: a lane's thread, or the caller that took it back.  *)
(* Each step below keeps that by looking at the slot alone; no count of    *)
(* the workers that are ready is needed, and no lock.                      *)
(***************************************************************************)
EXTENDS BondAsk, TLAPS

\* The caller's places in bond_parallel before go is set, in all of its loops, and in bond_post.
Before   == {"open", "wait", "scan", "check", "fail", "go"}
Parallel == Before \cup {"local", "settle"}
Asking   == {"post", "askwait", "askpost"}
Headed   == Asking \cup {"head", "tail", "joined"}

Slots == {"NONE", "OPEN", "TAKEN", "DONE", "FAILED"}
Places == {"idle", "saw", "locked", "count", "spin", "post", "unlock"}
Types ==
  /\ call \in 0..MaxCalls /\ pc \in CallerPlaces /\ at \in Lanes /\ local \subseteq Lanes
  /\ go \in BOOLEAN /\ cancel \in BOOLEAN /\ bad \in BOOLEAN /\ down \in BOOLEAN
  /\ ask \in [Lanes -> Slots] /\ ptr \in [Lanes -> 0..MaxCalls] /\ held \in [Lanes -> 0..MaxCalls]
  /\ worker \in [Lanes -> Places]
  /\ posts \in [(1..MaxCalls) \X Lanes -> Nat]
  /\ result \in [1..MaxCalls -> {"none", "ok", "failed"}]

\* Where the caller is says which of the batch's words are set.
Caller == /\ pc # "idle" => call # NoCall
          /\ pc \in Headed => N = 2 /\ ~cancel
          /\ pc \in Before => ~go
          /\ pc = "open" => local = {}
          /\ cancel => call # NoCall

\* Lane k's slot describes a part of the parallel call, and points at its batch.
Handed(k) == pc \in Parallel /\ (pc = "open" => k < at) /\ (pc = "settle" => k >= at)
\* The caller has taken lane k's part back and not posted it yet.
Back(k) == k \in local /\ (pc \in Before \/ (pc = "local" /\ k >= at))

\* A slot is in use, and points at the batch, only from its opening to its settling.
Used(k) == /\ ptr[k] = IF Handed(k) THEN call ELSE NoCall
           /\ ask[k] # "NONE" => Handed(k) \/ (pc \in Asking /\ k = Tail)
           /\ pc = "askwait" /\ k = Tail => ask[k] # "NONE"
\* A part that is taken is one thread's, or the caller's.
Owned(k) == /\ worker[k] \in {"count", "spin"} =>
                  ask[k] = "TAKEN" /\ held[k] = call /\ Handed(k) /\ ~Back(k)
            /\ worker[k] = "post" => ask[k] = "TAKEN" /\ pc \in {"post", "askwait"} /\ k = Tail
            /\ worker[k] \notin {"count", "spin"} => held[k] = NoCall
            /\ Back(k) => ask[k] = "TAKEN"
            /\ pc = "askpost" /\ k = Tail => ask[k] = "TAKEN"
\* What is posted of the current call.
Posted(k) == /\ ask[k] \in {"OPEN", "TAKEN"} => posts[<<call, k>>] = 0
             /\ ask[k] = "DONE" => posts[<<call, k>>] = 1
             /\ pc \in Before \cup {"head", "tail"} \/ cancel => posts[<<call, k>>] = 0
             /\ pc = "post" /\ k = at => posts[<<call, k>>] = 0
             /\ ~bad /\ (pc = "return" \/ (pc = "settle" /\ k < at)) => posts[<<call, k>>] = 1
\* What is posted of any: nothing of a call to come, and nothing twice.
Once == \A c \in 1..MaxCalls, k \in Lanes : posts[<<c, k>>] <= 1 /\ (c > call => posts[<<c, k>>] = 0)
\* In bond_post a part that failed has failed the peer already.
Failing == /\ FailureIsFinal
           /\ pc \in Headed /\ bad => down
           /\ pc \in Asking /\ ask[Tail] = "FAILED" => down

AInv == /\ Types /\ Caller /\ Once /\ Failing
        /\ \A k \in Lanes : Used(k) /\ Owned(k) /\ Posted(k)

\* The leaves expand most of the invariant; some need more than the default time.
USE SMTT(30)

-----------------------------------------------------------------------------
(* Facts about the helpers.                                                *)

\* A loop over the lanes stays within them (the for loops of bond_parallel).
LEMMA LoopFacts == ASSUME Types, NEW after \in CallerPlaces, NextLane(after)
                   PROVE  at' \in Lanes /\ pc' \in CallerPlaces
  BY AskAssumption DEF Types, NextLane, Lanes

\* A post counts for its call and its lane, and for no other.
LEMMA CountFacts ==
  ASSUME Types, NEW c \in 1..MaxCalls, NEW j \in Lanes, posts' = [posts EXCEPT ![<<c, j>>] = @ + 1]
  PROVE  /\ posts' \in [(1..MaxCalls) \X Lanes -> Nat]
         /\ \A b \in 1..MaxCalls, k \in Lanes :
               posts'[<<b, k>>] = IF b = c /\ k = j THEN posts[<<b, k>>] + 1 ELSE posts[<<b, k>>]
<1>1. /\ DOMAIN posts' = (1..MaxCalls) \X Lanes
      /\ \A p \in (1..MaxCalls) \X Lanes : posts'[p] = IF p = <<c, j>> THEN posts[p] + 1 ELSE posts[p]
  BY Zenon DEF Types
<1>2. \A p \in (1..MaxCalls) \X Lanes : posts[p] \in Nat BY DEF Types
<1>3. posts' \in [(1..MaxCalls) \X Lanes -> Nat]
  <2>1. \A p \in (1..MaxCalls) \X Lanes : posts'[p] \in Nat BY <1>1, <1>2
  <2>2. posts' = [p \in DOMAIN posts' |-> posts'[p]] BY Zenon DEF Types
  <2>3. QED BY <1>1, <2>1, <2>2, Zenon
<1>4. ASSUME NEW b \in 1..MaxCalls, NEW k \in Lanes
      PROVE  posts'[<<b, k>>] = IF b = c /\ k = j THEN posts[<<b, k>>] + 1 ELSE posts[<<b, k>>]
  <2>1. <<b, k>> \in (1..MaxCalls) \X Lanes /\ (<<b, k>> = <<c, j>> <=> b = c /\ k = j) OBVIOUS
  <2>2. QED BY <1>1, <2>1
<1>5. QED BY <1>3, <1>4

\* post_ask posts its part and says so, or fails it and the peer.
LEMMA PostAskFacts ==
  ASSUME Types, NEW c \in 1..MaxCalls, NEW j \in Lanes, NEW x, PostAsk(j, c, x)
  PROVE  /\ posts' \in [(1..MaxCalls) \X Lanes -> Nat] /\ ask' \in [Lanes -> Slots] /\ down' \in BOOLEAN
         /\ \A k \in Lanes : k # j => ask'[k] = ask[k]
         /\ \/ /\ ~x /\ ask'[j] = "DONE" /\ down' = down
               /\ \A b \in 1..MaxCalls, k \in Lanes :
                     posts'[<<b, k>>] = IF b = c /\ k = j THEN posts[<<b, k>>] + 1 ELSE posts[<<b, k>>]
            \/ posts' = posts /\ ask'[j] = "FAILED" /\ down' = TRUE
<1>1. CASE /\ ~x /\ ~down
           /\ posts' = [posts EXCEPT ![<<c, j>>] = @ + 1]
           /\ ask' = [ask EXCEPT ![j] = "DONE"]
           /\ UNCHANGED down
  <2>1. ask' \in [Lanes -> Slots] /\ ask'[j] = "DONE" /\ \A k \in Lanes : k # j => ask'[k] = ask[k]
    BY <1>1 DEF Types, Slots
  <2>2. down \in BOOLEAN BY DEF Types
  <2>3. QED BY <1>1, <2>1, <2>2, CountFacts, Zenon
<1>2. CASE /\ ask' = [ask EXCEPT ![j] = "FAILED"]
           /\ down' = TRUE
           /\ UNCHANGED posts
  <2>1. ask' \in [Lanes -> Slots] /\ ask'[j] = "FAILED" /\ \A k \in Lanes : k # j => ask'[k] = ask[k]
    BY <1>2 DEF Types, Slots
  <2>2. posts \in [(1..MaxCalls) \X Lanes -> Nat] BY DEF Types
  <2>3. QED BY <1>2, <2>1, <2>2
<1>3. QED BY <1>1, <1>2, Zenon DEF PostAsk

\* What post_ask leaves behind for lane j's part of the current call: posted, or failed.
Posting(j) ==
  /\ posts' \in [(1..MaxCalls) \X Lanes -> Nat] /\ ask' \in [Lanes -> Slots] /\ down' \in BOOLEAN
  /\ \A k \in Lanes \ {j} : ask'[k] = ask[k] /\ posts'[<<call, k>>] = posts[<<call, k>>]
  /\ \A b \in (1..MaxCalls) \ {call}, k \in Lanes : posts'[<<b, k>>] = posts[<<b, k>>]
  /\ down => down'
  /\ \/ ~cancel /\ ask'[j] = "DONE" /\ posts'[<<call, j>>] = 1
     \/ ask'[j] = "FAILED" /\ down' /\ posts'[<<call, j>>] = 0

\* post_ask on a part that is taken.
LEMMA TakenIsPosting ==
  ASSUME Types, call \in 1..MaxCalls, NEW j \in Lanes, Posted(j), ask[j] = "TAKEN",
         NEW x, cancel => x, PostAsk(j, call, x)
  PROVE  Posting(j)
<1>1. posts[<<call, j>>] = 0 BY DEF Posted
<1>2. CASE posts' = posts /\ ask'[j] = "FAILED" /\ down' = TRUE
  BY <1>1, <1>2, PostAskFacts, Zenon DEF Posting
<1>3. CASE /\ ~x /\ ask'[j] = "DONE" /\ down' = down
           /\ \A b \in 1..MaxCalls, k \in Lanes :
                 posts'[<<b, k>>] = IF b = call /\ k = j THEN posts[<<b, k>>] + 1 ELSE posts[<<b, k>>]
  <2>1. posts'[<<call, j>>] = 1 BY <1>1, <1>3
  <2>2. \A k \in Lanes \ {j} : posts'[<<call, k>>] = posts[<<call, k>>] BY <1>3
  <2>3. \A b \in (1..MaxCalls) \ {call}, k \in Lanes : posts'[<<b, k>>] = posts[<<b, k>>] BY <1>3, Zenon
  <2>4. QED BY <1>3, <2>1, <2>2, <2>3, PostAskFacts, Zenon DEF Posting
<1>4. QED BY <1>2, <1>3, PostAskFacts, ZenonT(30)

\* A part posted once go is set, or in bond_post, keeps the accounts of what is posted.
LEMMA PostingHolds ==
  ASSUME Types, Once, call \in 1..MaxCalls, NEW j \in Lanes, Posting(j), ask[j] = "TAKEN",
         \A k \in Lanes : Posted(k),
         UNCHANGED <<call, cancel, bad>>,
         pc' \notin Before \cup {"head", "tail", "return"},
         pc' = "post" => pc = "post" /\ at' = at /\ j # at,
         pc' = "settle" => at' = 1 \/ (pc = "settle" /\ at' = at /\ j >= at)
  PROVE  Once' /\ \A k \in Lanes : Posted(k)'
<1>1. ASSUME NEW b \in 1..MaxCalls, NEW k \in Lanes
      PROVE  posts'[<<b, k>>] <= 1 /\ (b > call => posts'[<<b, k>>] = 0)
  <2>1. CASE b = call /\ k = j BY <2>1 DEF Posting
  <2>2. CASE b = call /\ k # j BY <2>2 DEF Posting, Once
  <2>3. CASE b # call BY <2>3 DEF Posting, Once
  <2>4. QED BY <2>1, <2>2, <2>3
<1>2. Once' BY <1>1, Zenon DEF Once
<1>3. ASSUME NEW k \in Lanes PROVE Posted(k)'
  <2>1. CASE k = j
    <3>1. ~(pc' = "settle" /\ k < at') BY AskAssumption, <2>1 DEF Types, Lanes
    <3>2. ~(pc' = "post" /\ k = at') BY <2>1
    <3>3. QED BY <2>1, <3>1, <3>2 DEF Posting, Posted
  <2>2. CASE k # j
    <3>1. ask'[k] = ask[k] /\ posts'[<<call, k>>] = posts[<<call, k>>] BY <2>2 DEF Posting
    <3>2. pc' = "settle" /\ k < at' => pc = "settle" /\ k < at BY AskAssumption DEF Types, Lanes
    <3>3. QED BY <1>3, <3>1, <3>2 DEF Posted
  <2>3. QED BY <2>1, <2>2
<1>4. QED BY <1>2, <1>3

-----------------------------------------------------------------------------
(* The steps that change no slot.                                          *)

\* A thread that owns no part may move, one that owns one may count itself, and the peer may fail.
Moving ==
  /\ UNCHANGED <<call, pc, at, local, bad, result, go, cancel, ask, ptr, held, posts>>
  /\ down' \in BOOLEAN /\ (down => down') /\ worker' \in [Lanes -> Places]
  /\ \A k \in Lanes : \/ worker'[k] = worker[k]
                      \/ {worker[k], worker'[k]} \subseteq {"count", "spin"}
                      \/ {worker[k], worker'[k]} \subseteq {"idle", "saw", "locked", "unlock"}

\* Moving keeps the invariant: what it says of a slot depends on who owns it, not on where the
\* others are (progress_main outside of post_ask).
LEMMA MovingHolds == ASSUME AInv, Moving PROVE AInv'
<1>1. Types' BY DEF AInv, Types, Moving
<1>2. Caller' BY DEF AInv, Caller, Moving
<1>3. Once' BY Zenon DEF AInv, Once, Moving
<1>4. Tail' = Tail BY DEF Moving, Tail
<1>5. Failing' BY <1>4 DEF AInv, Failing, FailureIsFinal, Moving
<1>6. ASSUME NEW k \in Lanes PROVE Used(k)' /\ Owned(k)' /\ Posted(k)'
  <2>1. (Handed(k)' <=> Handed(k)) /\ (Back(k)' <=> Back(k)) BY DEF Moving, Handed, Back
  <2>2. Used(k) /\ Owned(k) /\ Posted(k) BY <1>6 DEF AInv
  <2>3. Used(k)' BY <1>4, <2>1, <2>2 DEF Moving, Used
  <2>4. Posted(k)' BY <2>2 DEF Moving, Posted
  <2>5. /\ worker'[k] \in {"count", "spin"} <=> worker[k] \in {"count", "spin"}
        /\ worker'[k] = "post" <=> worker[k] = "post"
    BY <1>6 DEF Moving
  <2>6. Owned(k)' BY <1>4, <2>1, <2>2, <2>5 DEF Moving, Owned
  <2>7. QED BY <2>3, <2>4, <2>6
<1>7. QED BY <1>1, <1>2, <1>3, <1>5, <1>6 DEF AInv

-----------------------------------------------------------------------------
(* One lemma for each step.                                                *)

\* A call begins on slots that are all free (mcdma_fabric_write_signal).
LEMMA BeginHolds == ASSUME AInv, Begin PROVE AInv'
<1> USE AskAssumption DEF AInv, Begin, Lanes, NoCall
<1>0. call + 1 \in 1..MaxCalls /\ call' = call + 1 /\ posts' = posts
  BY DEF Types
<1>1. Types'
  <2>1. call' \in 0..MaxCalls /\ pc' \in CallerPlaces /\ at' \in Lanes /\ local' \subseteq Lanes
    BY DEF Types, CallerPlaces
  <2>2. go' \in BOOLEAN /\ cancel' \in BOOLEAN /\ bad' \in BOOLEAN BY Zenon
  <2>3. QED BY <2>1, <2>2 DEF Types, slots, threads
<1>2. Caller' BY DEF Types, Caller, Before, Headed, Asking, caller, batch, slots, threads
<1>3. Once'
  <2>1. ASSUME NEW c \in 1..MaxCalls, NEW k \in Lanes
        PROVE  posts[<<c, k>>] <= 1 /\ (c > call + 1 => posts[<<c, k>>] = 0)
    BY DEF Types, Once
  <2>2. QED BY <1>0, <2>1, Zenon DEF Once
<1>4. Failing' BY DEF Types, Failing, FailureIsFinal, Caller, Headed, Asking, Tail, caller, batch, slots, threads
<1>5. ASSUME NEW k \in Lanes PROVE Used(k)'
  BY <1>5 DEF Types, Used, Handed, Owned, Caller, Parallel, Before, Asking, Tail, caller, batch, slots, threads
<1>6. ASSUME NEW k \in Lanes PROVE Owned(k)'
  BY <1>6 DEF Types, Used, Owned, Handed, Back, Caller, Parallel, Before, Asking, Tail, caller, batch, slots, threads
<1>7. ASSUME NEW k \in Lanes PROVE Posted(k)'
  <2>1. posts'[<<call', k>>] = 0 BY <1>0, <1>7 DEF Types, Once
  <2>2. ask'[k] = "NONE" BY <1>7 DEF Used, Handed, Parallel, Before, Asking, slots
  <2>3. pc' \notin {"return", "settle"} OBVIOUS
  <2>4. QED BY <2>1, <2>2, <2>3 DEF Posted
<1>8. QED BY <1>1, <1>2, <1>3, <1>4, <1>5, <1>6, <1>7

\* Time passes (now_ns).
LEMMA TickHolds == ASSUME AInv, Tick PROVE AInv'
<1>1. Moving BY DEF AInv, Types, Places, Moving, Tick, caller, batch, slots, threads
<1>2. QED BY <1>1, MovingHolds

\* bond_parallel opens the slot of the lane its loop is at.
LEMMA OpenPartHolds == ASSUME AInv, OpenPart PROVE AInv'
<1> USE AskAssumption DEF AInv, OpenPart, NextLane, Lanes, NoCall
<1>1. Types'
  <2>1. at' \in Lanes /\ pc' \in CallerPlaces BY LoopFacts DEF CallerPlaces
  <2>2. ptr' \in [Lanes -> 0..MaxCalls] /\ ask' \in [Lanes -> Slots] BY DEF Types, Slots
  <2>3. QED BY <2>1, <2>2 DEF Types, caller, batch, slots, threads
<1>2. Caller' BY DEF Types, Caller, Before, Headed, Asking, caller, batch, slots, threads
<1>3. Once'
  <2>1. posts' = posts /\ call' = call BY DEF caller
  <2>2. QED BY <2>1, Zenon DEF Once
<1>4. Failing' BY DEF Types, Failing, FailureIsFinal, Caller, Headed, Asking, Tail, caller, batch, slots, threads
<1>5. ASSUME NEW k \in Lanes PROVE Used(k)'
  BY <1>5 DEF Types, Used, Handed, Owned, Caller, Parallel, Before, Asking, Tail, caller, batch, slots, threads
<1>6. ASSUME NEW k \in Lanes PROVE Owned(k)'
  BY <1>6 DEF Types, Used, Owned, Handed, Back, Caller, Parallel, Before, Asking, Tail, caller, batch, slots, threads
<1>7. ASSUME NEW k \in Lanes PROVE Posted(k)'
  BY <1>7, Zenon DEF Types, Posted, Owned, Used, Handed, Once, Caller, Parallel, Before, Asking, Tail, caller, batch, slots, threads
<1>8. QED BY <1>1, <1>2, <1>3, <1>4, <1>5, <1>6, <1>7

\* bond_parallel looks at ready, and goes on, whatever is still open.
LEMMA WaitReadyHolds == ASSUME AInv, WaitReady PROVE AInv'
<1> USE AskAssumption DEF AInv, WaitReady, Lanes, NoCall
<1>1. Types' BY DEF Types, Places, Slots, CallerPlaces, caller, batch, slots, threads
<1>2. Caller' BY DEF Types, Caller, Before, Headed, Asking, caller, batch, slots, threads
<1>3. Once'
  <2>1. posts' = posts /\ call' = call BY DEF caller
  <2>2. QED BY <2>1, Zenon DEF Once
<1>4. Failing' BY DEF Types, Failing, FailureIsFinal, Caller, Headed, Asking, Tail, caller, batch, slots, threads
<1>5. ASSUME NEW k \in Lanes PROVE Used(k)'
  BY <1>5 DEF Types, Used, Handed, Owned, Caller, Parallel, Before, Asking, Tail, caller, batch, slots, threads
<1>6. ASSUME NEW k \in Lanes PROVE Owned(k)'
  BY <1>6 DEF Types, Used, Owned, Handed, Back, Caller, Parallel, Before, Asking, Tail, caller, batch, slots, threads
<1>7. ASSUME NEW k \in Lanes PROVE Posted(k)'
  BY <1>7 DEF Types, Posted, Owned, Used, Handed, Once, Caller, Parallel, Before, Asking, Tail, caller, batch, slots, threads
<1>8. QED BY <1>1, <1>2, <1>3, <1>4, <1>5, <1>6, <1>7

\* The compare-and-swap of bond_parallel takes back a part that is open, and no other.
LEMMA TakeBackHolds == ASSUME AInv, TakeBack PROVE AInv'
<1> USE AskAssumption DEF AInv, TakeBack, NextLane, Lanes, NoCall
<1>1. Types'
  <2>1. at' \in Lanes /\ pc' \in CallerPlaces BY LoopFacts DEF CallerPlaces
  <2>2. local' \subseteq Lanes /\ ask' \in [Lanes -> Slots] BY Zenon DEF Types, Slots
  <2>3. QED BY <2>1, <2>2, Zenon DEF Types, caller, batch, slots, threads
<1>2. Caller' BY DEF Types, Caller, Before, Headed, Asking, caller, batch, slots, threads
<1>3. Once'
  <2>1. posts' = posts /\ call' = call BY DEF caller
  <2>2. QED BY <2>1, Zenon DEF Once
<1>4. Failing' BY DEF Types, Failing, FailureIsFinal, Caller, Headed, Asking, Tail, caller, batch, slots, threads
<1>5. ASSUME NEW k \in Lanes PROVE Used(k)'
  BY <1>5 DEF Types, Used, Handed, Owned, Caller, Parallel, Before, Asking, Tail, caller, batch, slots, threads
<1>6. ASSUME NEW k \in Lanes PROVE Owned(k)'
  BY <1>6 DEF Types, Used, Owned, Handed, Back, Caller, Parallel, Before, Asking, Tail, caller, batch, slots, threads
<1>7. ASSUME NEW k \in Lanes PROVE Posted(k)'
  BY <1>7, Zenon DEF Types, Posted, Owned, Used, Handed, Once, Caller, Parallel, Before, Asking, Tail, caller, batch, slots, threads
<1>8. QED BY <1>1, <1>2, <1>3, <1>4, <1>5, <1>6, <1>7

\* bond_parallel cancels before anything is posted.
LEMMA CheckDeadlineHolds == ASSUME AInv, CheckDeadline PROVE AInv'
<1> USE AskAssumption DEF AInv, CheckDeadline, Lanes, NoCall
<1>1. Types' BY Zenon DEF Types, Places, Slots, CallerPlaces, caller, batch, slots, threads
<1>2. Caller' BY DEF Types, Caller, Before, Headed, Asking, caller, batch, slots, threads
<1>3. Once'
  <2>1. posts' = posts /\ call' = call BY DEF caller
  <2>2. QED BY <2>1, Zenon DEF Once
<1>4. Failing' BY DEF Types, Failing, FailureIsFinal, Caller, Headed, Asking, Tail, caller, batch, slots, threads
<1>5. ASSUME NEW k \in Lanes PROVE Used(k)'
  BY <1>5 DEF Types, Used, Handed, Owned, Caller, Parallel, Before, Asking, Tail, caller, batch, slots, threads
<1>6. ASSUME NEW k \in Lanes PROVE Owned(k)'
  BY <1>6 DEF Types, Used, Owned, Handed, Back, Caller, Parallel, Before, Asking, Tail, caller, batch, slots, threads
<1>7. ASSUME NEW k \in Lanes PROVE Posted(k)'
  BY <1>7 DEF Types, Posted, Owned, Used, Handed, Once, Caller, Parallel, Before, Asking, Tail, caller, batch, slots, threads
<1>8. QED BY <1>1, <1>2, <1>3, <1>4, <1>5, <1>6, <1>7

\* bond_parallel fails the parts still open after it has cancelled.
LEMMA FailOpenHolds == ASSUME AInv, FailOpen PROVE AInv'
<1> USE AskAssumption DEF AInv, FailOpen, NextLane, Lanes, NoCall
<1>1. Types'
  <2>1. at' \in Lanes /\ pc' \in CallerPlaces BY LoopFacts DEF CallerPlaces
  <2>2. ask' \in [Lanes -> Slots] BY DEF Types, Slots
  <2>3. QED BY <2>1, <2>2, Zenon DEF Types, caller, batch, slots, threads
<1>2. Caller' BY DEF Types, Caller, Before, Headed, Asking, caller, batch, slots, threads
<1>3. Once'
  <2>1. posts' = posts /\ call' = call BY DEF caller
  <2>2. QED BY <2>1, Zenon DEF Once
<1>4. Failing' BY DEF Types, Failing, FailureIsFinal, Caller, Headed, Asking, Tail, caller, batch, slots, threads
<1>5. ASSUME NEW k \in Lanes PROVE Used(k)'
  BY <1>5 DEF Types, Used, Handed, Owned, Caller, Parallel, Before, Asking, Tail, caller, batch, slots, threads
<1>6. ASSUME NEW k \in Lanes PROVE Owned(k)'
  BY <1>6 DEF Types, Used, Owned, Handed, Back, Caller, Parallel, Before, Asking, Tail, caller, batch, slots, threads
<1>7. ASSUME NEW k \in Lanes PROVE Posted(k)'
  BY <1>7, Zenon DEF Types, Posted, Owned, Used, Handed, Once, Caller, Parallel, Before, Asking, Tail, caller, batch, slots, threads
<1>8. QED BY <1>1, <1>2, <1>3, <1>4, <1>5, <1>6, <1>7

\* bond_parallel sets go.
LEMMA GoHolds == ASSUME AInv, Go PROVE AInv'
<1> USE AskAssumption DEF AInv, Go, Lanes, NoCall
<1>1. Types' BY DEF Types, Places, Slots, CallerPlaces, caller, batch, slots, threads
<1>2. Caller' BY DEF Types, Caller, Before, Headed, Asking, caller, batch, slots, threads
<1>3. Once'
  <2>1. posts' = posts /\ call' = call BY DEF caller
  <2>2. QED BY <2>1, Zenon DEF Once
<1>4. Failing' BY DEF Types, Failing, FailureIsFinal, Caller, Headed, Asking, Tail, caller, batch, slots, threads
<1>5. ASSUME NEW k \in Lanes PROVE Used(k)'
  BY <1>5 DEF Types, Used, Handed, Owned, Caller, Parallel, Before, Asking, Tail, caller, batch, slots, threads
<1>6. ASSUME NEW k \in Lanes PROVE Owned(k)'
  BY <1>6 DEF Types, Used, Owned, Handed, Back, Caller, Parallel, Before, Asking, Tail, caller, batch, slots, threads
<1>7. ASSUME NEW k \in Lanes PROVE Posted(k)'
  BY <1>7 DEF Types, Posted, Owned, Used, Handed, Once, Caller, Parallel, Before, Asking, Tail, caller, batch, slots, threads
<1>8. QED BY <1>1, <1>2, <1>3, <1>4, <1>5, <1>6, <1>7

\* bond_parallel posts a part it took back (post_ask).
LEMMA PostLocalHolds == ASSUME AInv, PostLocal PROVE AInv'
<1> USE AskAssumption DEF AInv, Lanes, NoCall
<1>0. call \in 1..MaxCalls /\ (at \in local => ask[at] = "TAKEN" /\ Posting(at))
  <2>1. call \in 1..MaxCalls BY DEF Types, Caller, PostLocal
  <2>2. ASSUME at \in local PROVE ask[at] = "TAKEN" /\ PostAsk(at, call, cancel)
    BY <2>2 DEF PostLocal, Types, Owned, Back
  <2>3. QED BY <2>1, <2>2, TakenIsPosting DEF Types
<1>1. Types'
  <2>1. at' \in Lanes /\ pc' \in CallerPlaces BY LoopFacts DEF CallerPlaces, PostLocal
  <2>2. posts' \in [(1..MaxCalls) \X Lanes -> Nat] /\ ask' \in [Lanes -> Slots] /\ down' \in BOOLEAN
    BY <1>0 DEF PostLocal, Posting, Types
  <2>3. QED BY <2>1, <2>2, Zenon DEF Types, PostLocal, threads
<1>2. Caller' BY DEF PostLocal, NextLane, Caller, Before, Headed, Asking
<1>3. Once' /\ \A k \in Lanes : Posted(k)'
  <2>1. /\ UNCHANGED <<call, cancel, bad>> /\ pc = "local" /\ pc' \in {"local", "settle"}
        /\ (pc' = "settle" => at' = 1)
    BY DEF PostLocal, NextLane
  <2>2. CASE at \in local BY <1>0, <2>1, <2>2, PostingHolds DEF Types, Before
  <2>3. CASE at \notin local
    <3>1. UNCHANGED <<posts, ask>> BY <2>3 DEF PostLocal
    <3>2. QED BY <2>1, <3>1 DEF Once, Posted, Before
  <2>4. QED BY <2>2, <2>3
<1>4. Failing'
  <2>1. down => down' BY <1>0, Zenon DEF PostLocal, Posting
  <2>2. QED BY <2>1 DEF PostLocal, NextLane, Failing, FailureIsFinal, Headed, Asking
<1>5. ASSUME NEW k \in Lanes PROVE Used(k)'
  <2>1. ask[k] = "NONE" => ask'[k] = "NONE" BY <1>0, <1>5, Zenon DEF PostLocal, Posting
  <2>2. (Handed(k) <=> Handed(k)') /\ Handed(k)
    BY <1>5 DEF PostLocal, NextLane, Handed, Parallel, Before, Types
  <2>3. QED BY <1>5, <2>2 DEF PostLocal, NextLane, Used, Asking
<1>6. ASSUME NEW k \in Lanes PROVE Owned(k)'
  <2>1. Handed(k)' BY <1>6 DEF PostLocal, NextLane, Handed, Parallel, Before, Types
  <2>2. (Back(k)' => Back(k)) /\ (k = at => ~Back(k)')
    BY <1>6 DEF PostLocal, NextLane, Back, Before, Types
  <2>3. CASE k = at /\ at \in local
    <3>1. worker[k] \notin {"count", "spin", "post"} BY <1>6, <2>3 DEF PostLocal, Owned, Back, Types
    <3>2. QED BY <1>6, <2>2, <2>3, <3>1 DEF PostLocal, NextLane, Owned, threads
  <2>4. CASE ~(k = at /\ at \in local)
    <3>1. ask'[k] = ask[k] BY <1>0, <1>6, <2>4, Zenon DEF PostLocal, Posting
    <3>2. QED BY <1>6, <2>1, <2>2, <3>1 DEF PostLocal, NextLane, Owned, threads
  <2>5. QED BY <2>3, <2>4
<1>7. ASSUME NEW k \in Lanes PROVE Posted(k)' BY <1>3, <1>7
<1>8. QED BY <1>1, <1>2, <1>3, <1>4, <1>5, <1>6, <1>7

\* bond_parallel clears a slot that is settled.
LEMMA SettleHolds == ASSUME AInv, Settle PROVE AInv'
<1> USE AskAssumption DEF AInv, Settle, NextLane, Lanes, NoCall
<1>1. Types' BY DEF Types, Places, Slots, CallerPlaces, caller, batch, slots, threads
<1>2. Caller' BY DEF Types, Caller, Before, Headed, Asking, caller, batch, slots, threads
<1>3. Once'
  <2>1. posts' = posts /\ call' = call BY DEF caller
  <2>2. QED BY <2>1, Zenon DEF Once
<1>4. Failing' BY DEF Types, Failing, FailureIsFinal, Caller, Headed, Asking, Tail, caller, batch, slots, threads
<1>5. ASSUME NEW k \in Lanes PROVE Used(k)'
  BY <1>5 DEF Types, Used, Handed, Owned, Caller, Parallel, Before, Asking, Tail, caller, batch, slots, threads
<1>6. ASSUME NEW k \in Lanes PROVE Owned(k)'
  BY <1>6 DEF Types, Used, Owned, Handed, Back, Caller, Parallel, Before, Asking, Tail, caller, batch, slots, threads
<1>7. ASSUME NEW k \in Lanes PROVE Posted(k)'
  <2>1. posts' = posts /\ call' = call /\ cancel' = cancel /\ pc' \in {"settle", "return"} /\ (bad => bad')
    BY Zenon DEF batch
  <2>2. CASE k = at
    <3>1. ask'[k] = "NONE" /\ (~bad' => posts[<<call, k>>] = 1) BY <1>7, <2>2, Zenon DEF Types, Posted
    <3>2. QED BY <1>7, <2>1, <3>1 DEF Posted, Before
  <2>3. CASE k # at
    <3>1. ask'[k] = ask[k] /\ (pc' = "return" \/ k < at' => k < at) BY <1>7, <2>3 DEF Types
    <3>2. QED BY <1>7, <2>1, <3>1 DEF Posted, Before
  <2>4. QED BY <2>2, <2>3
<1>8. QED BY <1>1, <1>2, <1>3, <1>4, <1>5, <1>6, <1>7

\* bond_parallel returns; a part that failed fails the peer.
LEMMA FinishHolds == ASSUME AInv, Finish PROVE AInv'
<1> USE AskAssumption DEF AInv, Finish, Return, Lanes, NoCall
<1>1. Types' BY ZenonT(30) DEF Types, Places, Slots, CallerPlaces, caller, batch, slots, threads
<1>2. Caller' BY DEF Types, Caller, Before, Headed, Asking, caller, batch, slots, threads
<1>3. Once'
  <2>1. posts' = posts /\ call' = call OBVIOUS
  <2>2. QED BY <2>1, Zenon DEF Once
<1>4. Failing' BY DEF Types, Failing, FailureIsFinal, Caller, Headed, Asking, Tail, caller, batch, slots, threads
<1>5. ASSUME NEW k \in Lanes PROVE Used(k)'
  BY <1>5 DEF Types, Used, Handed, Owned, Caller, Parallel, Before, Asking, Tail, caller, batch, slots, threads
<1>6. ASSUME NEW k \in Lanes PROVE Owned(k)'
  BY <1>6 DEF Types, Used, Owned, Handed, Back, Caller, Parallel, Before, Asking, Tail, caller, batch, slots, threads
<1>7. ASSUME NEW k \in Lanes PROVE Posted(k)'
  BY <1>7, Zenon DEF Types, Posted, Owned, Used, Handed, Once, Caller, Parallel, Before, Asking, Tail, caller, batch, slots, threads
<1>8. QED BY <1>1, <1>2, <1>3, <1>4, <1>5, <1>6, <1>7

\* bond_post takes the head's lock.
LEMMA EnterHeadHolds == ASSUME AInv, EnterHead PROVE AInv'
<1> USE AskAssumption DEF AInv, EnterHead, Lanes, NoCall
<1>1. Types' BY DEF Types, Places, Slots, CallerPlaces, caller, batch, slots, threads
<1>2. Caller' BY DEF Types, Caller, Before, Headed, Asking, caller, batch, slots, threads
<1>3. Once'
  <2>1. posts' = posts /\ call' = call BY DEF caller
  <2>2. QED BY <2>1, Zenon DEF Once
<1>4. Failing'
  <2>1. Tail \in Lanes BY DEF Types, Caller, Headed, Tail
  <2>2. ask[Tail] = "NONE" BY <2>1 DEF Used, Handed, Parallel, Before, Asking
  <2>3. Tail' = Tail BY DEF Tail
  <2>4. QED BY <2>2, <2>3 DEF Failing, FailureIsFinal, Headed, Asking, slots
<1>5. ASSUME NEW k \in Lanes PROVE Used(k)'
  BY <1>5 DEF Types, Used, Handed, Owned, Caller, Parallel, Before, Asking, Tail, caller, batch, slots, threads
<1>6. ASSUME NEW k \in Lanes PROVE Owned(k)'
  BY <1>6 DEF Types, Used, Owned, Handed, Back, Caller, Parallel, Before, Asking, Tail, caller, batch, slots, threads
<1>7. ASSUME NEW k \in Lanes PROVE Posted(k)'
  BY <1>7 DEF Types, Posted, Owned, Used, Handed, Once, Caller, Parallel, Before, Asking, Tail, caller, batch, slots, threads
<1>8. QED BY <1>1, <1>2, <1>3, <1>4, <1>5, <1>6, <1>7

\* bond_post opens the tail's slot.
LEMMA OpenTailHolds == ASSUME AInv, OpenTail PROVE AInv'
<1> USE AskAssumption DEF AInv, OpenTail, Tail, Lanes, NoCall
<1>1. Types' BY ZenonT(30) DEF Types, Places, Slots, CallerPlaces, caller, batch, slots, threads
<1>2. Caller' BY DEF Types, Caller, Before, Headed, Asking, caller, batch, slots, threads
<1>3. Once'
  <2>1. posts' = posts /\ call' = call BY DEF caller
  <2>2. QED BY <2>1, Zenon DEF Once
<1>4. Failing' BY DEF Types, Failing, FailureIsFinal, Caller, Headed, Asking, Tail, caller, batch, slots, threads
<1>5. ASSUME NEW k \in Lanes PROVE Used(k)'
  BY <1>5 DEF Types, Used, Handed, Owned, Caller, Parallel, Before, Asking, Tail, caller, batch, slots, threads
<1>6. ASSUME NEW k \in Lanes PROVE Owned(k)'
  BY <1>6 DEF Types, Used, Owned, Handed, Back, Caller, Parallel, Before, Asking, Tail, caller, batch, slots, threads
<1>7. ASSUME NEW k \in Lanes PROVE Posted(k)'
  BY <1>7 DEF Types, Posted, Owned, Used, Handed, Once, Caller, Parallel, Before, Asking, Tail, caller, batch, slots, threads
<1>8. QED BY <1>1, <1>2, <1>3, <1>4, <1>5, <1>6, <1>7

\* bond_post finds no room, and gives up at its deadline.
LEMMA NoRoomHolds == ASSUME AInv, NoRoom PROVE AInv'
<1> USE AskAssumption DEF AInv, NoRoom, Return, Lanes, NoCall
<1>1. Types' BY Zenon DEF Types, Places, Slots, CallerPlaces, caller, batch, slots, threads
<1>2. Caller' BY DEF Types, Caller, Before, Headed, Asking, caller, batch, slots, threads
<1>3. Once'
  <2>1. posts' = posts /\ call' = call BY DEF caller
  <2>2. QED BY <2>1, Zenon DEF Once
<1>4. Failing' BY DEF Types, Failing, FailureIsFinal, Caller, Headed, Asking, Tail, caller, batch, slots, threads
<1>5. ASSUME NEW k \in Lanes PROVE Used(k)'
  BY <1>5 DEF Types, Used, Handed, Owned, Caller, Parallel, Before, Asking, Tail, caller, batch, slots, threads
<1>6. ASSUME NEW k \in Lanes PROVE Owned(k)'
  BY <1>6 DEF Types, Used, Owned, Handed, Back, Caller, Parallel, Before, Asking, Tail, caller, batch, slots, threads
<1>7. ASSUME NEW k \in Lanes PROVE Posted(k)'
  BY <1>7, Zenon DEF Types, Posted, Owned, Used, Handed, Once, Caller, Parallel, Before, Asking, Tail, caller, batch, slots, threads
<1>8. QED BY <1>1, <1>2, <1>3, <1>4, <1>5, <1>6, <1>7

\* bond_post posts the head.
LEMMA PostHeadHolds == ASSUME AInv, PostHead PROVE AInv'
<1> USE AskAssumption DEF AInv, PostHead, Tail, Lanes, NoCall
<1>0. /\ call \in 1..MaxCalls /\ at \in Lanes /\ Tail \in Lanes /\ Tail # at
      /\ UNCHANGED <<call, at, cancel, ask>> /\ pc' \in {"joined", "askwait"}
  BY DEF Types, Caller, Headed, Asking, Tail, batch, slots
<1>1. Types'
  <2>1. posts' \in [(1..MaxCalls) \X Lanes -> Nat] BY <1>0, CountFacts, Zenon DEF Types
  <2>2. pc' \in CallerPlaces /\ bad' \in BOOLEAN /\ down' \in BOOLEAN BY Zenon DEF Types, CallerPlaces
  <2>3. QED BY <2>1, <2>2, Zenon DEF Types, batch, slots, threads
<1>2. Caller' BY DEF Types, Caller, Before, Headed, Asking, caller, batch, slots, threads
<1>3. Once' /\ \A k \in Lanes : Posted(k)'
  <2>1. posts[<<call, at>>] = 0 BY <1>0 DEF Posted
  <2>2. \/ posts' = posts
        \/ \A b \in 1..MaxCalls, k \in Lanes :
              posts'[<<b, k>>] = IF b = call /\ k = at THEN 1 ELSE posts[<<b, k>>]
    <3>1. CASE posts' = [posts EXCEPT ![<<call, at>>] = @ + 1]
      <4>1. \A b \in 1..MaxCalls, k \in Lanes :
               posts'[<<b, k>>] = IF b = call /\ k = at THEN posts[<<b, k>>] + 1 ELSE posts[<<b, k>>]
        BY <1>0, <3>1, CountFacts, Zenon
      <4> HIDE DEF PostHead, AInv
      <4>2. QED BY <2>1, <4>1
    <3>2. QED BY <3>1, Zenon
  <2>3. Once'
    <3>1. ASSUME NEW b \in 1..MaxCalls, NEW k \in Lanes
          PROVE  posts'[<<b, k>>] \in {1, posts[<<b, k>>]} /\ (b # call => posts'[<<b, k>>] = posts[<<b, k>>])
      BY <2>2
    <3>2. ASSUME NEW b \in 1..MaxCalls, NEW k \in Lanes
          PROVE  posts'[<<b, k>>] <= 1 /\ (b > call => posts'[<<b, k>>] = 0)
      <4>1. posts[<<b, k>>] <= 1 /\ (b > call => posts[<<b, k>>] = 0) BY DEF Once
      <4>2. QED BY <1>0, <3>1, <4>1
    <3>3. call' = call BY <1>0
    <3>4. QED BY <3>2, <3>3, Zenon DEF Once
  <2>4. ASSUME NEW k \in Lanes PROVE Posted(k)'
    <3>1. CASE k = at
      <4>1. ask[k] = "NONE" BY <1>0, <2>4, <3>1 DEF Used, Handed, Parallel, Before
      <4>2. ~cancel BY DEF Caller, Headed, Asking
      <4>3. QED BY <1>0, <4>1, <4>2 DEF Posted, Before
    <3>2. CASE k # at
      <4>1. posts'[<<call, k>>] = posts[<<call, k>>] BY <1>0, <2>2, <2>4, <3>2
      <4>2. QED BY <1>0, <2>4, <4>1 DEF Posted, Before
    <3>3. QED BY <3>1, <3>2
  <2>5. QED BY <2>3, <2>4
<1>4. Failing' BY DEF Types, Failing, FailureIsFinal, Caller, Headed, Asking, Tail, caller, batch, slots, threads
<1>5. ASSUME NEW k \in Lanes PROVE Used(k)'
  BY <1>5 DEF Types, Used, Handed, Owned, Caller, Parallel, Before, Asking, Tail, caller, batch, slots, threads
<1>6. ASSUME NEW k \in Lanes PROVE Owned(k)'
  BY <1>6 DEF Types, Used, Owned, Handed, Back, Caller, Parallel, Before, Asking, Tail, caller, batch, slots, threads
<1>7. ASSUME NEW k \in Lanes PROVE Posted(k)' BY <1>3, <1>7
<1>8. QED BY <1>1, <1>2, <1>3, <1>4, <1>5, <1>6, <1>7

\* bond_ask_wait takes the tail back.
LEMMA AskBackHolds == ASSUME AInv, AskBack PROVE AInv'
<1> USE AskAssumption DEF AInv, AskBack, Tail, Lanes, NoCall
<1>1. Types' BY ZenonT(30) DEF Types, Places, Slots, CallerPlaces, caller, batch, slots, threads
<1>2. Caller' BY DEF Types, Caller, Before, Headed, Asking, caller, batch, slots, threads
<1>3. Once'
  <2>1. posts' = posts /\ call' = call BY DEF caller
  <2>2. QED BY <2>1, Zenon DEF Once
<1>4. Failing' BY DEF Types, Failing, FailureIsFinal, Caller, Headed, Asking, Tail, caller, batch, slots, threads
<1>5. ASSUME NEW k \in Lanes PROVE Used(k)'
  BY <1>5 DEF Types, Used, Handed, Owned, Caller, Parallel, Before, Asking, Tail, caller, batch, slots, threads
<1>6. ASSUME NEW k \in Lanes PROVE Owned(k)'
  BY <1>6 DEF Types, Used, Owned, Handed, Back, Caller, Parallel, Before, Asking, Tail, caller, batch, slots, threads
<1>7. ASSUME NEW k \in Lanes PROVE Posted(k)'
  BY <1>7 DEF Types, Posted, Owned, Used, Handed, Once, Caller, Parallel, Before, Asking, Tail, caller, batch, slots, threads
<1>8. QED BY <1>1, <1>2, <1>3, <1>4, <1>5, <1>6, <1>7

\* bond_ask_wait posts the tail (post_ask).
LEMMA AskPostHolds == ASSUME AInv, AskPost PROVE AInv'
<1> USE AskAssumption DEF AInv, Lanes, NoCall
<1>0. /\ call \in 1..MaxCalls /\ Tail \in Lanes /\ ask[Tail] = "TAKEN" /\ Posting(Tail)
      /\ UNCHANGED <<call, at, cancel, bad, local, ptr, worker, held, go, result>> /\ pc = "askpost" /\ pc' = "askwait"
  <2>1. call \in 1..MaxCalls /\ Tail \in Lanes /\ ~cancel
    BY DEF Types, Caller, Headed, Asking, Tail, AskPost
  <2>2. ask[Tail] = "TAKEN" /\ PostAsk(Tail, call, FALSE) BY <2>1, Zenon DEF AskPost, Owned
  <2>3. Posting(Tail) BY <2>1, <2>2, TakenIsPosting, Zenon
  <2>4. QED BY <2>1, <2>2, <2>3 DEF AskPost, batch, threads
<1>1. Types' BY <1>0, Zenon DEF Types, Posting, CallerPlaces
<1>2. Caller' BY <1>0 DEF Caller, Before, Headed, Asking
<1>3. Once' /\ \A k \in Lanes : Posted(k)' BY <1>0, PostingHolds DEF Before
<1>4. Failing'
  <2>1. Tail' = Tail BY <1>0 DEF Tail
  <2>2. QED BY <1>0, <2>1 DEF Posting, Failing, FailureIsFinal, Headed, Asking
<1>5. ASSUME NEW k \in Lanes PROVE Used(k)'
  <2>1. Tail' = Tail BY <1>0 DEF Tail
  <2>2. ~Handed(k) /\ ~Handed(k)' BY <1>0 DEF Handed, Parallel, Before
  <2>3. ask'[k] # "NONE" => k = Tail BY <1>0, <1>5, <2>2, ZenonT(30) DEF Posting, Used
  <2>4. k = Tail => ask'[k] # "NONE" BY <1>0 DEF Posting
  <2>5. QED BY <1>0, <1>5, <2>1, <2>2, <2>3, <2>4 DEF Used, Asking
<1>6. ASSUME NEW k \in Lanes PROVE Owned(k)'
  <2>1. ~Handed(k) /\ ~Back(k)' BY <1>0 DEF Handed, Back, Parallel, Before
  <2>2. QED BY <1>0, <1>6, <2>1 DEF Owned
<1>7. ASSUME NEW k \in Lanes PROVE Posted(k)' BY <1>3, <1>7
<1>8. QED BY <1>1, <1>2, <1>3, <1>4, <1>5, <1>6, <1>7

\* bond_ask_wait sees the tail settled.
LEMMA AskDoneHolds == ASSUME AInv, AskDone PROVE AInv'
<1> USE AskAssumption DEF AInv, AskDone, Tail, Lanes, NoCall
<1>1. Types' BY Zenon DEF Types, Places, Slots, CallerPlaces, caller, batch, slots, threads
<1>2. Caller' BY DEF Types, Caller, Before, Headed, Asking, caller, batch, slots, threads
<1>3. Once'
  <2>1. posts' = posts /\ call' = call BY DEF caller
  <2>2. QED BY <2>1, Zenon DEF Once
<1>4. Failing'
  <2>1. Tail \in Lanes BY DEF Types, Caller, Headed, Asking, Tail
  <2>2. ask[Tail] \in {"DONE", "FAILED"} BY <2>1 DEF Types, Slots, Used
  <2>3. bad' => down BY <2>2, ZenonT(30) DEF Failing, Headed, Asking
  <2>4. QED BY <2>3 DEF Failing, FailureIsFinal, Headed, Asking
<1>5. ASSUME NEW k \in Lanes PROVE Used(k)'
  BY <1>5 DEF Types, Used, Handed, Owned, Caller, Parallel, Before, Asking, Tail, caller, batch, slots, threads
<1>6. ASSUME NEW k \in Lanes PROVE Owned(k)'
  BY <1>6 DEF Types, Used, Owned, Handed, Back, Caller, Parallel, Before, Asking, Tail, caller, batch, slots, threads
<1>7. ASSUME NEW k \in Lanes PROVE Posted(k)'
  BY <1>7 DEF Types, Posted, Owned, Used, Handed, Once, Caller, Parallel, Before, Asking, Tail, caller, batch, slots, threads
<1>8. QED BY <1>1, <1>2, <1>3, <1>4, <1>5, <1>6, <1>7

\* bond_post returns.
LEMMA JoinedHolds == ASSUME AInv, Joined PROVE AInv'
<1> USE AskAssumption DEF AInv, Joined, Return, Lanes, NoCall
<1>1. Types' BY ZenonT(30) DEF Types, Places, Slots, CallerPlaces, caller, batch, slots, threads
<1>2. Caller' BY DEF Types, Caller, Before, Headed, Asking, caller, batch, slots, threads
<1>3. Once'
  <2>1. posts' = posts /\ call' = call BY DEF caller
  <2>2. QED BY <2>1, Zenon DEF Once
<1>4. Failing' BY DEF Types, Failing, FailureIsFinal, Caller, Headed, Asking, Tail, caller, batch, slots, threads
<1>5. ASSUME NEW k \in Lanes PROVE Used(k)'
  BY <1>5 DEF Types, Used, Handed, Owned, Caller, Parallel, Before, Asking, Tail, caller, batch, slots, threads
<1>6. ASSUME NEW k \in Lanes PROVE Owned(k)'
  BY <1>6 DEF Types, Used, Owned, Handed, Back, Caller, Parallel, Before, Asking, Tail, caller, batch, slots, threads
<1>7. ASSUME NEW k \in Lanes PROVE Posted(k)'
  BY <1>7 DEF Types, Posted, Owned, Used, Handed, Once, Caller, Parallel, Before, Asking, Tail, caller, batch, slots, threads
<1>8. QED BY <1>1, <1>2, <1>3, <1>4, <1>5, <1>6, <1>7

\* progress_main sees an open slot.
LEMMA SeeHolds == ASSUME AInv, NEW j \in Lanes, See(j) PROVE AInv'
<1>1. Moving BY DEF AInv, Types, Places, Moving, See, caller, batch, slots, threads
<1>2. QED BY <1>1, MovingHolds

\* progress_main tries the lane's lock.
LEMMA TryLockHolds == ASSUME AInv, NEW j \in Lanes, TryLock(j) PROVE AInv'
<1>1. Moving BY Zenon DEF AInv, Types, Places, Moving, TryLock, caller, batch, slots, threads
<1>2. QED BY <1>1, MovingHolds

\* progress_main takes an open part, and with it the pointer to the running call's batch.
LEMMA TakeHolds == ASSUME AInv, NEW j \in Lanes, Take(j) PROVE AInv'
<1> USE AskAssumption DEF AInv, Take, Lanes, NoCall
<1>1. Types'
  <2>1. ask' \in [Lanes -> Slots] BY DEF Types, Slots
  <2>2. held' \in [Lanes -> 0..MaxCalls] BY Zenon DEF Types
  <2>3. worker' \in [Lanes -> Places] BY DEF Types, Places
  <2>4. QED BY <2>1, <2>2, <2>3 DEF Types, caller, batch
<1>2. Caller' BY DEF Types, Caller, Before, Headed, Asking, caller, batch, slots, threads
<1>3. Once'
  <2>1. posts' = posts /\ call' = call BY DEF caller
  <2>2. QED BY <2>1, Zenon DEF Once
<1>4. Failing' BY DEF Types, Failing, FailureIsFinal, Caller, Headed, Asking, Tail, caller, batch, slots, threads
<1>5. ASSUME NEW k \in Lanes PROVE Used(k)'
  BY <1>5 DEF Types, Used, Handed, Owned, Caller, Parallel, Before, Asking, Tail, caller, batch, slots, threads
<1>6. ASSUME NEW k \in Lanes PROVE Owned(k)'
  <2>1. /\ UNCHANGED <<pc, at, call, local>> /\ (Handed(k) <=> Handed(k)') /\ (Back(k) <=> Back(k)')
        /\ Tail' = Tail
    BY DEF caller, Handed, Back, Parallel, Before, Tail
  <2>2. CASE k # j
    <3>1. ask'[k] = ask[k] /\ worker'[k] = worker[k] /\ held'[k] = held[k] BY <1>6, <2>2 DEF Types
    <3>2. QED BY <1>6, <2>1, <3>1 DEF Owned
  <2>3. CASE k = j /\ ask[j] # "OPEN"
    <3>1. ask'[k] = ask[k] /\ worker'[k] = "idle" /\ held'[k] = held[k] BY <1>6, <2>3 DEF Types
    <3>2. QED BY <1>6, <2>1, <2>3, <3>1 DEF Owned
  <2>4. CASE k = j /\ ask[j] = "OPEN"
    <3>1. /\ ask'[k] = "TAKEN" /\ held'[k] = ptr[k]
          /\ worker'[k] = IF ptr[k] = NoCall THEN "post" ELSE "count"
      BY <1>6, <2>4 DEF Types
    <3>2. ~Back(k) BY <1>6, <2>4 DEF Owned
    <3>3. CASE Handed(k)
      <4>1. ptr[k] = call /\ call # NoCall BY <1>6, <3>3 DEF Used, Handed, Parallel, Before, Caller
      <4>2. QED BY <2>1, <3>1, <3>2, <3>3, <4>1 DEF Owned, Handed, Parallel, Before
    <3>4. CASE ~Handed(k)
      <4>1. ptr[k] = NoCall /\ pc \in {"post", "askwait"} /\ k = Tail
        BY <1>6, <2>4, <3>4 DEF Used, Owned, Asking
      <4>2. QED BY <2>1, <3>1, <3>2, <4>1 DEF Owned
    <3>5. QED BY <3>3, <3>4
  <2>5. QED BY <2>2, <2>3, <2>4
<1>7. ASSUME NEW k \in Lanes PROVE Posted(k)'
  <2>1. UNCHANGED <<posts, call, pc, at, cancel, bad>> BY DEF caller, batch
  <2>2. ask'[k] = ask[k] \/ (ask[k] = "OPEN" /\ ask'[k] = "TAKEN") BY <1>7 DEF Types
  <2>3. QED BY <1>7, <2>1, <2>2 DEF Posted
<1>8. QED BY <1>1, <1>2, <1>3, <1>4, <1>5, <1>6, <1>7

\* post_ask counts itself ready.
LEMMA CountReadyHolds == ASSUME AInv, NEW j \in Lanes, CountReady(j) PROVE AInv'
<1>1. Moving BY DEF AInv, Types, Places, Moving, CountReady, caller, batch, slots, threads
<1>2. QED BY <1>1, MovingHolds

\* post_ask posts its part once go is set, or fails it.
LEMMA PostPartHolds == ASSUME AInv, NEW j \in Lanes, PostPart(j) PROVE AInv'
<1> USE AskAssumption DEF AInv, Lanes, NoCall
<1>0. /\ call \in 1..MaxCalls /\ ask[j] = "TAKEN" /\ Posting(j) /\ ~Back(j)
      /\ UNCHANGED <<call, pc, at, cancel, bad, local, ptr, go, result>>
      /\ held' = [held EXCEPT ![j] = NoCall] /\ worker' = [worker EXCEPT ![j] = "unlock"]
      /\ \/ pc \in {"local", "settle"} /\ Handed(j)
         \/ pc \in {"post", "askwait"} /\ j = Tail
  <2>1. /\ UNCHANGED <<call, pc, at, cancel, bad, local, ptr, go, result>>
        /\ held' = [held EXCEPT ![j] = NoCall] /\ worker' = [worker EXCEPT ![j] = "unlock"]
    BY DEF PostPart, caller, batch
  <2>2. CASE worker[j] = "spin" /\ go /\ PostAsk(j, held[j], cancel)
    <3>1. ask[j] = "TAKEN" /\ held[j] = call /\ Handed(j) /\ ~Back(j) BY <2>2 DEF Owned
    <3>2. pc \in {"local", "settle"} BY <2>2, <3>1 DEF Handed, Parallel, Caller
    <3>3. call \in 1..MaxCalls BY <3>2 DEF Types, Caller
    <3>4. Posting(j) BY <2>2, <3>1, <3>3, TakenIsPosting
    <3>5. QED BY <2>1, <3>1, <3>2, <3>3, <3>4
  <2>3. CASE worker[j] = "post" /\ PostAsk(j, call, FALSE)
    <3>1. ask[j] = "TAKEN" /\ pc \in {"post", "askwait"} /\ j = Tail BY <2>3 DEF Owned
    <3>2. call \in 1..MaxCalls /\ ~cancel /\ ~Back(j) BY <3>1 DEF Types, Caller, Headed, Asking, Back, Before
    <3>3. Posting(j) BY <2>3, <3>1, <3>2, TakenIsPosting, Zenon
    <3>4. QED BY <2>1, <3>1, <3>2, <3>3
  <2>4. QED BY <2>2, <2>3, Zenon DEF PostPart
<1>1. Types'
  <2>1. held' \in [Lanes -> 0..MaxCalls] /\ worker' \in [Lanes -> Places] BY <1>0 DEF Types, Places
  <2>2. QED BY <1>0, <2>1, ZenonT(30) DEF Types, Posting
<1>2. Caller' BY <1>0 DEF Caller
<1>3. Once' /\ \A k \in Lanes : Posted(k)'
  <2>1. pc = "post" => j # at BY <1>0 DEF Types, Caller, Headed, Asking, Tail
  <2>2. pc = "settle" => j >= at BY <1>0 DEF Handed
  <2>3. QED BY <1>0, <2>1, <2>2, PostingHolds DEF Before
<1>4. Failing'
  <2>1. Tail' = Tail BY <1>0 DEF Tail
  <2>2. pc \in Asking => Tail \in Lanes BY DEF Types, Caller, Headed, Asking, Tail
  <2>3. QED BY <1>0, <2>1, <2>2, ZenonT(30) DEF Posting, Failing, FailureIsFinal
<1>5. ASSUME NEW k \in Lanes PROVE Used(k)'
  <2>1. Tail' = Tail /\ (Handed(k) <=> Handed(k)') BY <1>0 DEF Tail, Handed
  <2>2. ask'[k] # "NONE" <=> ask[k] # "NONE" BY <1>0, <1>5, ZenonT(30) DEF Posting
  <2>3. QED BY <1>0, <1>5, <2>1, <2>2 DEF Used
<1>6. ASSUME NEW k \in Lanes PROVE Owned(k)'
  <2>1. Tail' = Tail /\ (Handed(k) <=> Handed(k)') /\ (Back(k) <=> Back(k)') BY <1>0 DEF Tail, Handed, Back
  <2>2. CASE k # j
    <3>1. ask'[k] = ask[k] /\ worker'[k] = worker[k] /\ held'[k] = held[k]
      BY <1>0, <1>6, <2>2, Zenon DEF Posting, Types
    <3>2. QED BY <1>0, <1>6, <2>1, <3>1 DEF Owned
  <2>3. CASE k = j
    <3>1. worker'[k] = "unlock" /\ held'[k] = NoCall BY <1>0, <1>6, <2>3 DEF Types
    <3>2. pc # "askpost" BY <1>0
    <3>3. QED BY <1>0, <2>1, <2>3, <3>1, <3>2 DEF Owned
  <2>4. QED BY <2>2, <2>3
<1>7. ASSUME NEW k \in Lanes PROVE Posted(k)' BY <1>3, <1>7
<1>8. QED BY <1>1, <1>2, <1>3, <1>4, <1>5, <1>6, <1>7

\* progress_main unlocks.
LEMMA UnlockHolds == ASSUME AInv, NEW j \in Lanes, Unlock(j) PROVE AInv'
<1>1. Moving BY DEF AInv, Types, Places, Moving, Unlock, caller, batch, slots, threads
<1>2. QED BY <1>1, MovingHolds

\* A link fails (progress_all).
LEMMA LinkFailsHolds == ASSUME AInv, NEW j \in Lanes, LinkFails(j) PROVE AInv'
<1>1. Moving BY DEF AInv, Types, Places, Moving, LinkFails, caller, batch, slots, threads
<1>2. QED BY <1>1, MovingHolds

-----------------------------------------------------------------------------
\* Nothing is open, taken or posted when the bond is connected.
LEMMA InitHolds == Init => AInv
<1> SUFFICES ASSUME Init PROVE AInv OBVIOUS
<1> USE AskAssumption DEF Init, Lanes, NoCall
<1>1. Types
  <2>1. call \in 0..MaxCalls /\ at \in Lanes OBVIOUS
  <2>2. pc \in CallerPlaces /\ local \subseteq Lanes BY DEF CallerPlaces
  <2>3. go \in BOOLEAN /\ cancel \in BOOLEAN /\ bad \in BOOLEAN /\ down \in BOOLEAN BY Zenon
  <2>4. /\ ask \in [Lanes -> Slots] /\ ptr \in [Lanes -> 0..MaxCalls] /\ held \in [Lanes -> 0..MaxCalls]
        /\ worker \in [Lanes -> Places]
    BY DEF Slots, Places
  <2>5. posts \in [(1..MaxCalls) \X Lanes -> Nat] OBVIOUS
  <2>6. result \in [1..MaxCalls -> {"none", "ok", "failed"}] OBVIOUS
  <2>7. QED BY <2>1, <2>2, <2>3, <2>4, <2>5, <2>6, Zenon DEF Types
<1>2. Caller BY DEF Caller, Headed, Asking, Before
<1>3. \A c \in 1..MaxCalls, k \in Lanes : posts[<<c, k>>] = 0 OBVIOUS
<1>4. Once
  <2>1. ASSUME NEW c \in 1..MaxCalls, NEW k \in Lanes
        PROVE  posts[<<c, k>>] <= 1 /\ (c > call => posts[<<c, k>>] = 0)
    <3>1. posts[<<c, k>>] = 0 BY <1>3
    <3> HIDE DEF Init
    <3>2. QED BY <3>1
  <2> HIDE DEF Init
  <2>2. QED BY <2>1, Zenon DEF Once
<1>5. Failing BY DEF Failing, FailureIsFinal, Headed, Asking
<1>6. \A k \in Lanes : Used(k) /\ Owned(k) /\ Posted(k)
  BY DEF Used, Owned, Posted, Handed, Back, Parallel, Before, Asking
<1>7. QED BY <1>1, <1>2, <1>4, <1>5, <1>6 DEF AInv

\* Every step of the caller and of the threads keeps the invariant.
LEMMA StepHolds == AInv /\ [Next]_vars => AInv'
<1> SUFFICES ASSUME AInv, [Next]_vars PROVE AInv' OBVIOUS
<1>1. CASE Begin \/ Tick BY <1>1, BeginHolds, TickHolds
<1>2. CASE Calling
  BY <1>2, OpenPartHolds, WaitReadyHolds, TakeBackHolds, CheckDeadlineHolds, FailOpenHolds, GoHolds,
     PostLocalHolds, SettleHolds, FinishHolds, EnterHeadHolds, OpenTailHolds, NoRoomHolds, PostHeadHolds,
     AskBackHolds, AskPostHolds, AskDoneHolds, JoinedHolds DEF Calling
<1>3. ASSUME NEW k \in Lanes, See(k) \/ Working(k) \/ LinkFails(k) PROVE AInv'
  BY <1>3, SeeHolds, TryLockHolds, TakeHolds, CountReadyHolds, PostPartHolds, UnlockHolds, LinkFailsHolds
     DEF Working
<1>4. CASE UNCHANGED vars
  <2>1. Moving BY <1>4 DEF vars, caller, batch, slots, threads, AInv, Types, Moving
  <2>2. QED BY <2>1, MovingHolds
<1>5. QED BY <1>1, <1>2, <1>3, <1>4 DEF Next

\* The batch on bond_parallel's stack is never read after its call has returned, on any number of
\* lanes, however late a progress thread comes.
THEOREM BatchSafe == Spec => []BatchOutlivesReaders
<1>1. AInv => BatchOutlivesReaders
  BY ZenonT(30) DEF AInv, BatchOutlivesReaders, Owned, Used, Handed, Parallel, Before
<1>2. QED BY <1>1, InitHolds, StepHolds, PTL DEF Spec

\* No part of a write is posted twice, and every part of a parallel write that succeeds is posted
\* (the compare-and-swaps of bond_parallel, bond_ask_wait and progress_main).
THEOREM PartsOnce == Spec => []EachPartOnce
<1>1. AInv => EachPartOnce BY Zenon DEF AInv, EachPartOnce, Once, Posted
<1>2. QED BY <1>1, InitHolds, StepHolds, PTL DEF Spec

\* A cancelled parallel write posts nothing on any lane (cancel in bond_parallel and post_ask).
THEOREM CancelSafe == Spec => []CancelPostsNothing
<1>1. AInv => CancelPostsNothing BY DEF AInv, CancelPostsNothing, Posted
<1>2. QED BY <1>1, InitHolds, StepHolds, PTL DEF Spec

\* A write that failed has taken the peer down (peer_fail after bond_parallel and in post_ask).
THEOREM FailureFinal == Spec => []FailureIsFinal
<1>1. AInv => FailureIsFinal BY DEF AInv, Failing
<1>2. QED BY <1>1, InitHolds, StepHolds, PTL DEF Spec
=============================================================================
