------------------------------- MODULE BondAsk -------------------------------
(***************************************************************************)
(* How a bond's caller hands the parts of one write-and-signal to the      *)
(* progress threads of its lanes and collects the results                  *)
(* (src/rpc/fabric_bond_n.h, bond_parallel; src/rpc/libmcdma_fabric.c,     *)
(* bond_post, bond_ask_wait, post_ask, progress_main).                     *)
(*                                                                         *)
(* A lane has one slot, `ask`, and a lock.  The caller opens the slot; the *)
(* lane's thread or the caller itself takes it with a compare-and-swap.    *)
(* A parallel call also hands over a pointer to a batch that lives on the  *)
(* caller's stack: workers count themselves ready in it and spin on its    *)
(* `go`.  The parent's lock is held for the whole call, so calls of one    *)
(* bond never overlap; a thread left over from one call may meet the next. *)
(* A write fails as a whole, so one flag stands for the bond's `down`.     *)
(***************************************************************************)
EXTENDS Integers, FiniteSets

CONSTANTS N,        \* lanes of the bond
          MaxCalls  \* bound: calls made

ASSUME AskAssumption == N \in Nat \ {0, 1} /\ MaxCalls \in Nat \ {0}

Lanes == 1..N
NoCall == 0

VARIABLES
  call,    \* number of the current or last call
  pc,      \* where the caller is
  at,      \* the lane its loop has reached
  ask,     \* lane -> state of the slot
  lock,    \* lane -> who holds the lane's lock
  ptr,     \* lane -> f->batch: the call whose stack it points into
  ready, go, cancel, \* the batch of the current call
  clock,   \* 0 fresh, 1 past the wake time, 2 past the deadline
  local,   \* lanes the caller took back
  bad,     \* the caller's view: some part failed
  down,    \* peer_down of the bond
  worker,  \* lane -> where its progress thread is
  held,    \* lane -> the batch pointer its thread read
  posts,   \* <<call, lane>> -> times that part was posted
  result   \* call -> what it returned

caller == <<call, pc, at, clock, local, bad, result>>
batch  == <<ready, go, cancel>>
slots  == <<ask, ptr>>
threads == <<worker, held>>
vars   == <<caller, batch, slots, threads, lock, down, posts>>

Init ==
  /\ call = NoCall /\ pc = "idle" /\ at = 1
  /\ ask = [k \in Lanes |-> "NONE"] /\ lock = [k \in Lanes |-> "free"]
  /\ ptr = [k \in Lanes |-> NoCall]
  /\ ready = 0 /\ go = FALSE /\ cancel = FALSE /\ clock = 0
  /\ local = {} /\ bad = FALSE /\ down = FALSE
  /\ worker = [k \in Lanes |-> "idle"] /\ held = [k \in Lanes |-> NoCall]
  /\ posts = [p \in (1..MaxCalls) \X Lanes |-> 0]
  /\ result = [c \in 1..MaxCalls |-> "none"]

-----------------------------------------------------------------------------
(* post_ask, once the batch (if any) says go: post the part of call c, or   *)
(* fail because the call was cancelled, the peer is down or the post failed.*)
PostAsk(k, c, cancelled) ==
  \/ /\ ~cancelled /\ ~down
     /\ posts' = [posts EXCEPT ![<<c, k>>] = @ + 1]
     /\ ask' = [ask EXCEPT ![k] = "DONE"]
     /\ UNCHANGED down
  \/ /\ ask' = [ask EXCEPT ![k] = "FAILED"]
     /\ down' = TRUE
     /\ UNCHANGED posts

(* A call begins with the parent's lock; one on a peer that is down returns *)
(* at once.  Calls of bonds of more than two lanes, and long ones, go in    *)
(* parallel; a short one on two lanes posts its head and hands over a tail. *)
Begin ==
  /\ pc = "idle" /\ call < MaxCalls /\ ~down
  /\ call' = call + 1
  /\ \/ pc' = "open"
     \/ N = 2 /\ pc' = "head"
  /\ \E k \in Lanes : at' = k /\ (pc' = "open" => k = 1)
  /\ ready' = 0 /\ go' = FALSE /\ cancel' = FALSE
  /\ clock' = 0 /\ local' = {} /\ bad' = FALSE
  /\ UNCHANGED <<slots, threads, lock, down, posts, result>>

(* Time passes only where the caller looks at a clock. *)
Tick ==
  /\ pc \in {"wait", "scan", "check", "head", "tail", "askwait"} /\ clock < 2
  /\ clock' = clock + 1
  /\ UNCHANGED <<call, pc, at, local, bad, result, batch, slots, threads, lock, down, posts>>

(* A loop over the lanes: the next one, or the step after the loop. *)
NextLane(after) ==
  IF at = N THEN pc' = after /\ at' = 1 ELSE pc' = pc /\ at' = at + 1

Return(r) ==
  /\ result' = [result EXCEPT ![call] = r]
  /\ pc' = "idle"

-----------------------------------------------------------------------------
(* bond_parallel *)

(* Under the lane's lock: describe the part, point at the batch, open.      *)
OpenPart ==
  /\ pc = "open" /\ lock[at] = "free"
  /\ ptr' = [ptr EXCEPT ![at] = call]
  /\ ask' = [ask EXCEPT ![at] = "OPEN"]
  /\ NextLane("wait")
  /\ UNCHANGED <<call, clock, local, bad, result, batch, threads, lock, down, posts>>

(* The waiting loop: all ready; or one round of it, which past the wake     *)
(* time takes back every part still open, and then looks at the deadline.   *)
WaitReady ==
  /\ pc = "wait"
  /\ pc' = IF ready >= N THEN "go" ELSE IF clock >= 1 THEN "scan" ELSE "check"
  /\ UNCHANGED <<call, at, clock, local, bad, result, batch, slots, threads, lock, down, posts>>

TakeBackAny ==   \* mutant: no compare-and-swap, a part under way is taken too
  /\ pc = "scan"
  /\ IF ask[at] \in {"OPEN", "TAKEN"} /\ at \notin local
       THEN /\ ask' = [ask EXCEPT ![at] = "TAKEN"]
            /\ local' = local \cup {at}
            /\ ready' = ready + 1
       ELSE UNCHANGED <<ask, local, ready>>
  /\ NextLane("check")
  /\ UNCHANGED <<call, clock, bad, result, go, cancel, ptr, threads, lock, down, posts>>

TakeBack ==
  /\ pc = "scan"
  /\ IF ask[at] = "OPEN"
       THEN /\ ask' = [ask EXCEPT ![at] = "TAKEN"]
            /\ local' = local \cup {at}
            /\ ready' = ready + 1
       ELSE UNCHANGED <<ask, local, ready>>
  /\ NextLane("check")
  /\ UNCHANGED <<call, clock, bad, result, go, cancel, ptr, threads, lock, down, posts>>

(* Peer down or past the deadline: cancel, then fail what is still open.    *)
CheckDeadline ==
  /\ pc = "check"
  /\ IF down \/ clock = 2 THEN pc' = "fail" /\ cancel' = TRUE
                          ELSE pc' = "wait" /\ UNCHANGED cancel
  /\ UNCHANGED <<call, at, clock, local, bad, result, ready, go, slots, threads, lock, down, posts>>

FailOpenNone ==   \* mutant: parts still open stay open
  /\ pc = "fail"
  /\ NextLane("go")
  /\ UNCHANGED <<call, clock, local, bad, result, batch, slots, threads, lock, down, posts>>

FailOpen ==
  /\ pc = "fail"
  /\ ask' = IF ask[at] = "OPEN" THEN [ask EXCEPT ![at] = "FAILED"] ELSE ask
  /\ NextLane("go")
  /\ UNCHANGED <<call, clock, local, bad, result, batch, ptr, threads, lock, down, posts>>

Go ==
  /\ pc = "go"
  /\ go' = TRUE
  /\ bad' = cancel
  /\ pc' = "local"
  /\ UNCHANGED <<call, at, clock, local, result, ready, cancel, slots, threads, lock, down, posts>>

(* Post the parts taken back, each under its lane's lock.  post_ask counts  *)
(* itself ready once more; nobody waits for the count any longer.           *)
PostLocal ==
  /\ pc = "local"
  /\ IF at \in local
       THEN /\ lock[at] = "free"
            /\ PostAsk(at, call, cancel)
            /\ ready' = ready + 1
       ELSE UNCHANGED <<ask, down, posts, ready>>
  /\ NextLane("settle")
  /\ UNCHANGED <<call, clock, local, bad, result, go, cancel, ptr, threads, lock>>

SettleKeepsPtr ==   \* mutant: f->batch is not cleared
  /\ pc = "settle" /\ ask[at] \notin {"OPEN", "TAKEN"} /\ lock[at] = "free"
  /\ bad' = (bad \/ ask[at] # "DONE")
  /\ ask' = [ask EXCEPT ![at] = "NONE"]
  /\ NextLane("return")
  /\ UNCHANGED <<call, clock, local, result, batch, ptr, threads, lock, down, posts>>

(* Spin until the part is settled; then clear the slot and its pointer.     *)
Settle ==
  /\ pc = "settle" /\ ask[at] \notin {"OPEN", "TAKEN"} /\ lock[at] = "free"
  /\ bad' = (bad \/ ask[at] # "DONE")
  /\ ptr' = [ptr EXCEPT ![at] = NoCall]
  /\ ask' = [ask EXCEPT ![at] = "NONE"]
  /\ NextLane("return")
  /\ UNCHANGED <<call, clock, local, result, batch, threads, lock, down, posts>>

FinishSoftly ==   \* mutant: a failed part leaves the peer up
  /\ pc = "return"
  /\ Return(IF bad THEN "failed" ELSE "ok")
  /\ UNCHANGED <<call, at, clock, local, bad, batch, slots, threads, lock, down, posts>>

(* A part that failed fails the peer.  The signal that follows may fail too.*)
Finish ==
  /\ pc = "return"
  /\ \/ ~bad /\ ~down /\ Return("ok") /\ UNCHANGED down
     \/ Return("failed") /\ down' = TRUE
  /\ UNCHANGED <<call, at, clock, local, bad, batch, slots, threads, lock, posts>>

-----------------------------------------------------------------------------
(* bond_post: `at` is the head lane, the other one carries the tail.        *)
Tail == 3 - at

(* Take the head's lock and, inside it, the tail's; with room on both, open *)
(* the tail's slot.  A write without a tail needs the head's lock only.     *)
EnterHead ==
  /\ pc = "head" /\ lock[at] = "free" /\ ~down
  /\ lock' = [lock EXCEPT ![at] = "caller"]
  /\ pc' \in {"tail", "post"}
  /\ UNCHANGED <<call, at, clock, local, bad, result, batch, slots, threads, down, posts>>

OpenTail ==
  /\ pc = "tail" /\ lock[Tail] = "free" /\ ~down
  /\ ask' = [ask EXCEPT ![Tail] = "OPEN"]
  /\ pc' = "post"
  /\ UNCHANGED <<call, at, clock, local, bad, result, batch, ptr, threads, lock, down, posts>>

(* No room on a link: release and look again, until the deadline.  A peer   *)
(* that is down, or has no room by then, fails the write.                   *)
NoRoom ==
  /\ pc \in {"head", "tail"}
  /\ IF pc = "head" THEN lock[at] = "free" /\ UNCHANGED lock
       ELSE lock[Tail] = "free" /\ lock' = [lock EXCEPT ![at] = "free"]
  /\ IF down \/ clock = 2 THEN down' = TRUE /\ Return("failed")
                         ELSE pc' = "head" /\ UNCHANGED <<down, result>>
  /\ UNCHANGED <<call, at, clock, local, bad, batch, slots, threads, posts>>

(* Post the head with the signal and unlock; then wait for the tail.        *)
PostHead ==
  /\ pc = "post"
  /\ \/ posts' = [posts EXCEPT ![<<call, at>>] = @ + 1] /\ UNCHANGED <<bad, down>>
     \/ bad' = TRUE /\ down' = TRUE /\ UNCHANGED posts
  /\ lock' = [lock EXCEPT ![at] = "free"]
  /\ clock' = 0
  /\ local' = {}
  /\ IF ask[Tail] = "NONE" THEN pc' = "joined" ELSE pc' = "askwait"
  /\ UNCHANGED <<call, at, result, batch, slots, threads>>

(* bond_ask_wait: past BOND_ASK_NS take the tail back and post it here.     *)
AskBack ==
  /\ pc = "askwait" /\ clock >= 1 /\ ask[Tail] = "OPEN"
  /\ ask' = [ask EXCEPT ![Tail] = "TAKEN"]
  /\ pc' = "askpost"
  /\ UNCHANGED <<call, at, clock, local, bad, result, batch, ptr, threads, lock, down, posts>>

AskPost ==
  /\ pc = "askpost" /\ lock[Tail] = "free"
  /\ PostAsk(Tail, call, FALSE)
  /\ pc' = "askwait"
  /\ UNCHANGED <<call, at, clock, local, bad, result, batch, ptr, threads, lock>>

AskDone ==
  /\ pc = "askwait" /\ ask[Tail] \notin {"OPEN", "TAKEN"}
  /\ bad' = (bad \/ ask[Tail] # "DONE")
  /\ ask' = [ask EXCEPT ![Tail] = "NONE"]
  /\ pc' = "joined"
  /\ UNCHANGED <<call, at, clock, local, result, batch, ptr, threads, lock, down, posts>>

Joined ==
  /\ pc = "joined"
  /\ Return(IF bad THEN "failed" ELSE "ok")
  /\ UNCHANGED <<call, at, clock, local, bad, batch, slots, threads, lock, down, posts>>

-----------------------------------------------------------------------------
(* progress_main of lane k *)
See(k) ==
  /\ worker[k] = "idle" /\ ask[k] = "OPEN"
  /\ worker' = [worker EXCEPT ![k] = "saw"]
  /\ UNCHANGED <<caller, batch, slots, held, lock, down, posts>>

(* trylock: busy, so look again later; or free, and held from here on. *)
TryLock(k) ==
  /\ worker[k] = "saw"
  /\ IF lock[k] = "free"
       THEN lock' = [lock EXCEPT ![k] = "worker"] /\ worker' = [worker EXCEPT ![k] = "locked"]
       ELSE worker' = [worker EXCEPT ![k] = "idle"] /\ UNCHANGED lock
  /\ UNCHANGED <<caller, batch, slots, held, down, posts>>

(* The compare-and-swap; a slot someone else took or failed is left alone.  *)
Take(k) ==
  /\ worker[k] = "locked"
  /\ IF ask[k] = "OPEN"
       THEN /\ ask' = [ask EXCEPT ![k] = "TAKEN"]
            /\ held' = [held EXCEPT ![k] = ptr[k]]
            /\ worker' = [worker EXCEPT ![k] = IF ptr[k] = NoCall THEN "post" ELSE "count"]
            /\ UNCHANGED lock
       ELSE /\ worker' = [worker EXCEPT ![k] = "idle"]
            /\ lock' = [lock EXCEPT ![k] = "free"]
            /\ UNCHANGED <<ask, held>>
  /\ UNCHANGED <<caller, batch, ptr, down, posts>>

CountReady(k) ==
  /\ worker[k] = "count"
  /\ ready' = ready + 1
  /\ worker' = [worker EXCEPT ![k] = "spin"]
  /\ UNCHANGED <<caller, go, cancel, slots, held, lock, down, posts>>

PostPartUncancelled(k) ==   \* mutant: cancel is not looked at after go
  /\ \/ worker[k] = "spin" /\ go /\ PostAsk(k, held[k], FALSE)
     \/ worker[k] = "post" /\ PostAsk(k, call, FALSE)
  /\ held' = [held EXCEPT ![k] = NoCall]
  /\ worker' = [worker EXCEPT ![k] = "unlock"]
  /\ UNCHANGED <<caller, batch, ptr, lock>>

(* Spin on go, then read cancel and post or fail.                           *)
PostPart(k) ==
  /\ \/ worker[k] = "spin" /\ go /\ PostAsk(k, held[k], cancel)
     \/ worker[k] = "post" /\ PostAsk(k, call, FALSE)
  /\ held' = [held EXCEPT ![k] = NoCall]
  /\ worker' = [worker EXCEPT ![k] = "unlock"]
  /\ UNCHANGED <<caller, batch, ptr, lock>>

Unlock(k) ==
  /\ worker[k] = "unlock"
  /\ worker' = [worker EXCEPT ![k] = "idle"]
  /\ lock' = [lock EXCEPT ![k] = "free"]
  /\ UNCHANGED <<caller, batch, slots, held, down, posts>>

(* progress_all under the lane's lock: the link or the other end failed.    *)
LinkFails(k) ==
  /\ lock[k] = "free" /\ worker[k] = "idle" /\ ~down
  /\ down' = TRUE
  /\ UNCHANGED <<caller, batch, slots, threads, lock, posts>>

Working(k) == TryLock(k) \/ Take(k) \/ CountReady(k) \/ PostPart(k) \/ Unlock(k)

Calling ==
  \/ OpenPart \/ WaitReady \/ TakeBack \/ CheckDeadline \/ FailOpen \/ Go
  \/ PostLocal \/ Settle \/ Finish
  \/ EnterHead \/ OpenTail \/ NoRoom \/ PostHead \/ AskBack \/ AskPost \/ AskDone \/ Joined

Next ==
  \/ Begin \/ Tick \/ Calling
  \/ \E k \in Lanes : See(k) \/ Working(k) \/ LinkFails(k)

Spec == Init /\ [][Next]_vars

(* The caller runs and time passes.  A progress thread that has seen an open *)
(* slot goes on; one that sleeps may never look (no fairness for See).       *)
FairSpec ==
  /\ Spec
  /\ WF_vars(Tick) /\ WF_vars(Calling)
  /\ \A k \in Lanes : WF_vars(Working(k))

-----------------------------------------------------------------------------
CallerPlaces ==
  {"idle", "open", "wait", "scan", "check", "fail", "go", "local", "settle", "return",
   "head", "tail", "post", "askwait", "askpost", "joined"}

(* Every variable keeps its type: the slots, locks, batch and threads. *)
TypeOK ==
  /\ call \in 0..MaxCalls /\ pc \in CallerPlaces /\ at \in Lanes
  /\ ask \in [Lanes -> {"NONE", "OPEN", "TAKEN", "DONE", "FAILED"}]
  /\ lock \in [Lanes -> {"free", "caller", "worker"}]
  /\ ptr \in [Lanes -> 0..MaxCalls] /\ held \in [Lanes -> 0..MaxCalls]
  /\ ready \in 0..2 * N /\ go \in BOOLEAN /\ cancel \in BOOLEAN
  /\ clock \in 0..2 /\ local \subseteq Lanes /\ bad \in BOOLEAN /\ down \in BOOLEAN
  /\ worker \in [Lanes -> {"idle", "saw", "locked", "count", "spin", "post", "unlock"}]
  /\ posts \in [(1..MaxCalls) \X Lanes -> 0..2]
  /\ result \in [1..MaxCalls -> {"none", "ok", "failed"}]

(* The batch on bond_parallel's stack is read only while that call runs: a  *)
(* thread inside post_ask holds a pointer into the call in progress, never  *)
(* into one that has returned.                                              *)
BatchOutlivesReaders ==
  \A k \in Lanes :
    held[k] # NoCall => held[k] = call /\ pc # "idle" /\ ptr[k] = call

(* However the caller's fallback races the progress threads, no part of a   *)
(* write is posted twice, and a parallel write that returns success has     *)
(* every part posted exactly once.                                          *)
EachPartOnce ==
  /\ \A c \in 1..MaxCalls, k \in Lanes : posts[<<c, k>>] <= 1
  /\ pc = "return" /\ ~bad => \A k \in Lanes : posts[<<call, k>>] = 1

(* A cancelled parallel write posts nothing at all, on no lane, also not by *)
(* a thread that had taken its part before the cancellation.                *)
CancelPostsNothing ==
  cancel => \A k \in Lanes : posts[<<call, k>>] = 0

(* A write that fails takes the whole peer down: parts that did go out have *)
(* moved their lane's ordinals past what the others know.                   *)
FailureIsFinal ==
  \A c \in 1..MaxCalls : result[c] = "failed" => down

(* Every call returns, even when no progress thread ever wakes: the caller  *)
(* takes its parts back after the wake time.                                *)
EveryAskEnds == pc # "idle" ~> pc = "idle"
=============================================================================
