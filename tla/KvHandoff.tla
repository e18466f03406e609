------------------------------ MODULE KvHandoff ------------------------------
(***************************************************************************)
(* The KV handoff's producer (integrations/vllm/mcdma_kv): the connector's *)
(* scheduler side, which keeps a finished prefill's blocks allocated; its  *)
(* worker side, which lists an export of them; and the thread that serves  *)
(* the exports to the decoder and lets them go when they are closed or     *)
(* have expired.                                                           *)
(*                                                                         *)
(* vLLM is external: it allocates blocks, preempts and resumes requests,   *)
(* runs the step's forward pass, and frees a request's blocks when it ends *)
(* or, if request_finished() said to wait, when finished_sending names it. *)
(* The decoder is external: it asks for anything at any time. The engine   *)
(* thread and the serving thread meet in the ExportTable only.             *)
(***************************************************************************)
EXTENDS Integers, Sequences, FiniteSets

CONSTANTS
    Requests,      \* bound: the requests that are ever sent
    Handoffs,      \* the decoder's handoff ids; it may use one again
    Froms,         \* the values of export_from
    TOKENS,        \* of each prompt
    PER_ROW,       \* tokens in one page row; a block is one row
    BLOCKS,        \* in the cache
    Capacities,    \* page rows that a link's reply half takes
    Chunks,        \* tokens that one step computes of a prompt, or what is left
    MaxPreempts    \* bound: preemptions of a request

None == "none"
ASSUME HandoffAssumption ==
    /\ None \notin Requests
    /\ {TOKENS, PER_ROW, BLOCKS, MaxPreempts} \subseteq Nat /\ PER_ROW > 0 /\ TOKENS > 0
    /\ Capacities \subseteq Nat /\ Froms \subseteq Nat /\ Chunks \subseteq Nat \ {0}
    /\ IsFiniteSet(Requests) /\ IsFiniteSet(Handoffs)

VARIABLES
    req,       \* vLLM's requests: phase, blocks, tokens computed; and what the client asked for
    ids,       \* HandoffRequest.block_ids
    tracked, holding,   \* the connector's, scheduler side
    eng,       \* the engine thread: where it is in a step, what is ready, what it reports
    table, finished,    \* the ExportTable: entries by handoff, and _finished
    resp       \* the serving thread
vars == <<req, ids, tracked, holding, eng, table, finished, resp>>
scheduler == <<req, ids, tracked, holding, eng>>

Least(a, b) == IF a < b THEN a ELSE b
RowsFor(tokens) == (tokens + PER_ROW - 1) \div PER_ROW
Idle(mtp) == [pc |-> "idle", r |-> None, n |-> 0, ready |-> {}, out |-> {}, mtp |-> mtp]

Init == /\ req = [r \in Requests |-> [phase |-> "new", handoff |-> None, from |-> 0, computed |-> 0,
                                      alloc |-> <<>>, preempts |-> 0]]
        /\ ids = [r \in Requests |-> <<>>]
        /\ tracked = {} /\ holding = {} /\ finished = {}
        /\ \E mtp \in BOOLEAN : eng = Idle(mtp)
        /\ table = [h \in {} |-> {}]
        /\ resp = [pc |-> "detached", left |-> {}, handoff |-> None, export |-> {}]

-----------------------------------------------------------------------------
(* vLLM's scheduler, and the connector's side of it.                       *)

InUse == UNION {{req[r].alloc[i] : i \in DOMAIN req[r].alloc} : r \in Requests}
Free == (1..BLOCKS) \ InUse
\* the first n free blocks, in order
NewBlocks(n) == [i \in 1..n |-> CHOOSE b \in Free : Cardinality({c \in Free : c < b}) = i - 1]

\* Names are interchangeable: a request, and an id not used before, is any one.
NewRequest == {CHOOSE r \in Requests : req[r].phase = "new" : x \in {q \in Requests : req[q].phase = "new"}}
UsedIds == {req[r].handoff : r \in Requests} \ {None}
AnyId == UsedIds \cup {CHOOSE h \in Handoffs \ UsedIds : TRUE : x \in Handoffs \ UsedIds}
\* on_new_request: a malformed id is not tracked
Submit(r, h, from) ==
    /\ req[r].phase = "new"
    /\ req' = [req EXCEPT ![r].phase = "waiting", ![r].handoff = h, ![r].from = from]
    /\ tracked' = IF h = None THEN tracked ELSE tracked \cup {r}
    /\ UNCHANGED <<ids, holding, eng, table, finished, resp>>

\* mutant: the blocks of a resumed request are added to the ones it had
BlockIdsAppend(old, blocks, replace) == old \o blocks
\* advance(): the blocks of a new or resumed request replace the ones it had
BlockIds(old, blocks, replace) == IF replace \/ old = <<>> THEN blocks ELSE old \o blocks

\* schedule() gives one request some tokens, and build_connector_meta() follows.
Schedule(r, chunk) ==
    LET n == Least(chunk, TOKENS - req[r].computed)
        blocks == NewBlocks(RowsFor(req[r].computed + n) - Len(req[r].alloc))
        ready == r \in tracked /\ req[r].computed + n >= TOKENS
    IN /\ eng.pc = "idle" /\ req[r].phase \in {"waiting", "running"}
       /\ RowsFor(req[r].computed + n) - Len(req[r].alloc) <= Cardinality(Free)
       /\ req' = [req EXCEPT ![r].phase = "running", ![r].alloc = @ \o blocks]
       /\ ids' = [ids EXCEPT ![r] = IF r \in tracked
                                    THEN BlockIds(@, blocks, req[r].phase = "waiting") ELSE @]
       /\ tracked' = IF ready THEN tracked \ {r} ELSE tracked
       /\ holding' = IF ready THEN holding \cup {r} ELSE holding
       /\ eng' = [eng EXCEPT !.pc = "forward", !.r = r, !.n = n, !.ready = IF ready THEN {r} ELSE {}]
       /\ UNCHANGED <<table, finished, resp>>
\* A step without tokens, for has_pending_push_work().
EmptyStep == /\ eng.pc = "idle" /\ holding # {}
             /\ eng' = [eng EXCEPT !.pc = "forward", !.r = None]
             /\ UNCHANGED <<req, ids, tracked, holding, table, finished, resp>>

\* request_finished: TRUE keeps the blocks
RequestFinished(r) == r \in holding
Ended(r) == [req[r] EXCEPT !.phase = IF RequestFinished(r) THEN "held" ELSE "freed",
                           !.alloc = IF RequestFinished(r) THEN @ ELSE <<>>,
                           !.computed = 0, !.preempts = 0]
Abort(r) == /\ eng.pc = "idle" /\ req[r].phase \in {"waiting", "running"}
            /\ req' = [req EXCEPT ![r] = Ended(r)] /\ tracked' = tracked \ {r}
            /\ ids' = [ids EXCEPT ![r] = <<>>]
            /\ UNCHANGED <<holding, eng, table, finished, resp>>
Preempt(r) == /\ eng.pc = "idle" /\ req[r].phase = "running" /\ req[r].preempts < MaxPreempts
              /\ req' = [req EXCEPT ![r].phase = "waiting", ![r].alloc = <<>>, ![r].computed = 0,
                                    ![r].preempts = @ + 1]
              /\ UNCHANGED <<ids, tracked, holding, eng, table, finished, resp>>

-----------------------------------------------------------------------------
(* The step on the worker.                                                 *)

\* _export, or the reason there is none
Export(r) == [owner |-> r, ok |-> req[r].from < TOKENS, stale |-> FALSE, frames |-> <<>>,
              rows |-> SubSeq(ids[r], (req[r].from \div PER_ROW) + 1, RowsFor(TOKENS))]
\* _serve_ready: ExportTable.add for each
Added(rs) == [h \in DOMAIN table \cup {req[r].handoff : r \in rs} |->
                 IF \E r \in rs : req[r].handoff = h
                 THEN Export(CHOOSE r \in rs : req[r].handoff = h) ELSE table[h]]

\* The forward pass writes the tokens' pages into the request's blocks; wait_for_save() lists the
\* exports, or leaves them to get_finished() when a drafter has yet to write.
Forward == /\ eng.pc = "forward"
           /\ table' = IF eng.mtp THEN table ELSE Added(eng.ready)
           /\ eng' = [eng EXCEPT !.pc = "saved"]
           /\ UNCHANGED <<req, ids, tracked, holding, finished, resp>>
\* get_finished, take_finished
GetFinished == /\ eng.pc = "saved"
               /\ table' = IF eng.mtp THEN Added(eng.ready) ELSE table
               /\ finished' = {}
               /\ eng' = [eng EXCEPT !.pc = "update", !.out = finished]
               /\ UNCHANGED <<req, ids, tracked, holding, resp>>
\* The request that has its token ends; then update_connector_output(), and vLLM frees.
Update ==
    LET done == IF eng.r # None /\ req[eng.r].computed + eng.n >= TOKENS THEN {eng.r} ELSE {}
        After(r) == IF r \in done THEN Ended(r)
                    ELSE [req[r] EXCEPT !.computed = IF r = eng.r THEN @ + eng.n ELSE @]
    IN /\ eng.pc = "update"
       /\ req' = [r \in Requests |-> IF r \in eng.out THEN [After(r) EXCEPT !.phase = "freed", !.alloc = <<>>]
                                     ELSE After(r)]
       /\ tracked' = tracked \ done
       /\ holding' = holding \ eng.out
       /\ ids' = [r \in Requests |-> IF r \in done THEN <<>> ELSE ids[r]]
       /\ eng' = Idle(eng.mtp)
       /\ UNCHANGED <<table, finished, resp>>

-----------------------------------------------------------------------------
(* The serving thread: ExportTable and Responder.                          *)

Age(h) == /\ h \in DOMAIN table /\ ~table[h].stale /\ table' = [table EXCEPT ![h].stale = TRUE]
          /\ UNCHANGED <<scheduler, finished, resp>>

\* mutant: the owner is not reported
FinishQuietly(h) == /\ table' = [x \in DOMAIN table \ {h} |-> table[x]]
                    /\ UNCHANGED finished
\* ExportTable.finish
Finish(h) == /\ table' = [x \in DOMAIN table \ {h} |-> table[x]]
             /\ finished' = IF h \in DOMAIN table THEN finished \cup {table[h].owner} ELSE finished

\* _serve: a mailbox of the link's daemon
Attach == /\ resp.pc = "detached" /\ resp' = [resp EXCEPT !.pc = "expire"]
          /\ UNCHANGED <<scheduler, table, finished>>
\* ExportTable.expire: the stale handoffs are listed under the lock, and finished one by one
Expire == /\ resp.pc = "expire"
          /\ resp' = [resp EXCEPT !.pc = "finish", !.left = {h \in DOMAIN table : table[h].stale}]
          /\ UNCHANGED <<scheduler, table, finished>>
FinishStale(h) == /\ resp.pc = "finish" /\ h \in resp.left /\ Finish(h)
                  /\ resp' = [resp EXCEPT !.left = @ \ {h}]
                  /\ UNCHANGED scheduler
\* run(): the registration ended; or a request, and the export it names; or none in poll_s
Dropped == /\ resp.pc = "finish" /\ resp.left = {}
           /\ resp' = [resp EXCEPT !.pc = "detached"]
           /\ UNCHANGED <<scheduler, table, finished>>
NextRequest(h) ==
    /\ resp.pc = "finish" /\ resp.left = {}
    /\ resp' = [resp EXCEPT !.pc = "handle", !.handoff = h,
                            !.export = IF h \in DOMAIN table THEN {[table[h] EXCEPT !.stale = FALSE]} ELSE {}]
    /\ UNCHANGED <<scheduler, table, finished>>
NoRequest == /\ resp.pc = "finish" /\ resp.left = {} /\ resp' = [resp EXCEPT !.pc = "expire"]
             /\ UNCHANGED <<scheduler, table, finished>>

\* plan_frames: <<first row, rows>>, for one layer; nothing fits when the reply half is too small
PlanFrames(rows, per_frame) ==
    IF per_frame < 1 THEN <<>>
    ELSE [f \in 1..((rows + per_frame - 1) \div per_frame) |->
             LET start == (f - 1) * per_frame
             IN <<start, Least(per_frame, rows - start)>>]
\* _open: the frames stay with the export, which the table may not list any more
Open == /\ \E cap \in Capacities : table' = [h \in DOMAIN table |->
              IF \E e \in resp.export : h = resp.handoff /\ table[h].owner = e.owner /\ e.frames = <<>>
              THEN [table[h] EXCEPT !.frames = PlanFrames(Len(table[h].rows), cap)] ELSE table[h]]
        /\ UNCHANGED finished
\* handle(): PULL changes nothing here, and so does any request for a handoff that failed
Handle(kind) ==
    /\ resp.pc = "handle"
    /\ IF \E e \in resp.export : ~e.ok THEN UNCHANGED <<table, finished>>
       ELSE CASE kind = "open" -> Open
              [] kind = "pull" -> UNCHANGED <<table, finished>>
              [] kind = "close" -> Finish(resp.handoff)
    /\ resp' = [resp EXCEPT !.pc = "expire", !.handoff = None, !.export = {}]
    /\ UNCHANGED scheduler

-----------------------------------------------------------------------------
EngineStep == EmptyStep \/ Forward \/ GetFinished \/ Update
Serve == \/ Attach \/ Expire \/ Dropped \/ NoRequest
         \/ \E h \in Handoffs : FinishStale(h) \/ NextRequest(h)
         \/ \E kind \in {"open", "pull", "close"} : Handle(kind)
Next == \/ EngineStep \/ Serve
        \/ \E r \in NewRequest : Submit(r, None, 0) \/ \E h \in AnyId, from \in Froms : Submit(r, h, from)
        \/ \E r \in Requests, chunk \in Chunks : Schedule(r, chunk)
        \/ \E r \in Requests : Abort(r) \/ Preempt(r)
        \/ \E h \in Handoffs : Age(h)

\* vLLM runs its steps while there is work (has_pending_push_work), the serving thread is never
\* stuck for good and finds its daemon again, and time passes.
Spec == Init /\ [][Next]_vars
FairSpec == /\ Spec /\ WF_vars(EngineStep) /\ WF_vars(Serve)
            /\ \A h \in Handoffs : WF_vars(Age(h))

-----------------------------------------------------------------------------
(* What holds.                                                             *)

\* the exports that the table lists, and the one the serving thread has in hand
Exports == {e \in {table[h] : h \in DOMAIN table} \cup resp.export : e.ok}

\* What a decoder pulls is the prompt. While an export can be served its rows are, in order, the
\* blocks its request was computed into and still has, from export_from's row on: whatever was
\* preempted, resumed, aborted, closed, expired or asked for twice, no block is let go while a PULL
\* may read it (advance, _export, request_finished, ExportTable, get_finished, _fill).
PagesAreThePrompt ==
    \A e \in Exports :
       LET first == req[e.owner].from \div PER_ROW
       IN e.rows = SubSeq(req[e.owner].alloc, first + 1, RowsFor(TOKENS))

\* The frames that a MANIFEST promises carry every row of the export exactly once, however the
\* reply half of the link that was open then cuts them (plan_frames, _open).
Covers(f, k) == f[1] < k /\ k <= f[1] + f[2]

\* A request's blocks are freed in the end: the decoder closes the handoff, or it expires. The one
\* exception is an id that is used again before that (ExportTable.add drops the first owner).
Alone(r) == \A q \in Requests \ {r} : req[q].handoff # req[r].handoff
FreedEventually == \A r \in Requests : (r \in holding /\ Alone(r)) ~> (r \notin holding \/ ~Alone(r))
=============================================================================
