--------------------------- MODULE KvHandoff_proof ---------------------------
(***************************************************************************)
(* PagesAreThePrompt for every set of requests and handoffs, every prompt, *)
(* row and cache size, every chunking and any number of preemptions.       *)
(*                                                                         *)
(* An export is right when it is made because the connector's list of      *)
(* blocks is the request's (Follows), and stays right because the request  *)
(* keeps its blocks while it is held (Holds), and is let go only after its *)
(* last export has left the table and the serving thread's hands (Served). *)
(***************************************************************************)
EXTENDS KvHandoff, TLAPS

\* The fields of the records, which the actions only update.
ReqFields == {"phase", "handoff", "from", "computed", "alloc", "preempts"}
EngFields == {"pc", "r", "n", "ready", "out", "mtp"}
RespFields == {"pc", "left", "handoff", "export"}
ExportFields == {"owner", "ok", "stale", "frames", "rows"}
Shape == /\ DOMAIN req = Requests /\ DOMAIN ids = Requests
         /\ \A r \in Requests : DOMAIN req[r] = ReqFields
         /\ DOMAIN eng = EngFields /\ DOMAIN resp = RespFields
         /\ \A h \in DOMAIN table : DOMAIN table[h] = ExportFields
         /\ \A e \in resp.export : DOMAIN e = ExportFields

\* The step under way computes the last tokens of r's prompt.
Last(r) == eng.pc # "idle" /\ eng.r = r /\ req[r].computed + eng.n >= TOKENS
\* r's export is still to be listed in this step.
Pending(r) == r \in eng.ready /\ (eng.pc = "forward" \/ (eng.pc = "saved" /\ eng.mtp))

\* Where the engine is in a step, and what it carries there.
Engine == /\ eng.pc \in {"idle", "forward", "saved", "update"}
          /\ eng.r \in Requests \cup {None} /\ eng.ready \subseteq Requests
          /\ eng.pc = "idle" => eng.ready = {}
          /\ eng.pc # "update" => eng.out = {}
\* A tracked request's list is the blocks it has; one that waits has none.
Follows == /\ tracked \subseteq Requests
           /\ \A r \in Requests : req[r].phase \in {"new", "waiting"} => req[r].alloc = <<>>
           /\ \A r \in tracked : \/ req[r].phase = "waiting"
                                 \/ req[r].phase = "running" /\ ids[r] = req[r].alloc
\* A request whose blocks are to be kept has ended, or ends with this step; the ones reported
\* finished are among them, and each is reported once.
Holds == /\ holding \subseteq Requests \ tracked
         /\ \A r \in holding : req[r].phase = "held" \/ (req[r].phase = "running" /\ Last(r))
         /\ finished \subseteq holding /\ eng.out \subseteq holding /\ finished \cap eng.out = {}
\* The rows of a prompt's blocks from a token's on.
RowsOf(blocks, from) == SubSeq(blocks, (from \div PER_ROW) + 1, RowsFor(TOKENS))
\* An export that is listed, or in hand, has an owner that is not reported, and its rows.
Right(e) == /\ e.owner \in holding \ (finished \cup eng.out)
            /\ e.rows = RowsOf(req[e.owner].alloc, req[e.owner].from)
Served == /\ \A h \in DOMAIN table : Right(table[h]) /\ req[table[h].owner].handoff = h
          /\ \A e \in resp.export : Right(e)
          /\ resp.pc # "handle" => resp.export = {}
\* An export still to be listed will be right, and the first of its owner.
Lists == \A r \in Requests : Pending(r) =>
            /\ r \in holding \ finished /\ req[r].phase = "running" /\ ids[r] = req[r].alloc
            /\ \A h \in DOMAIN table : table[h].owner # r
            /\ \A e \in resp.export : e.owner # r

HInv == Shape /\ Engine /\ Follows /\ Holds /\ Served /\ Lists
\* Tokens and blocks are counted: the blocks that are added to none are the blocks themselves.
Counts == /\ eng.n \in Int
          /\ \A r \in Requests : req[r].computed \in Int /\ Len(req[r].alloc) \in Nat

USE DEF ReqFields, EngFields, RespFields, ExportFields
\* Some leaves need more than the default time.
USE SMTT(30)

-----------------------------------------------------------------------------
(* The initial state, and the steps that leave the engine alone.           *)

\* Nothing is tracked, held or listed when the engine starts (__init__ of connector and table).
LEMMA InitHolds == Init => HInv
  BY DEF Init, HInv, Shape, Engine, Follows, Holds, Served, Lists, Idle, Pending

\* A request that is submitted (on_new_request) is one that is new.
LEMMA NewIsNew == NewRequest \subseteq {r \in Requests : req[r].phase = "new"}
  BY DEF NewRequest

\* on_new_request tracks a request that has no blocks yet.
LEMMA SubmitHolds == ASSUME HInv, NEW r \in Requests, NEW h, NEW from, Submit(r, h, from)
                     PROVE  HInv'
<1> USE DEF HInv, Submit
<1>1. Shape'   BY DEF Shape
<1>2. Engine'  BY DEF Engine, Shape
<1>3. Follows' BY DEF Follows, Shape
<1>4. Holds'   BY DEF Holds, Last, Shape
<1>5. Served'  BY DEF Served, Right, Holds, Shape
<1>6. Lists'   BY DEF Lists, Pending, Holds, Shape
<1>7. QED      BY <1>1, <1>2, <1>3, <1>4, <1>5, <1>6

\* request_finished of a request that is aborted between two steps: it is not held.
LEMMA AbortHolds == ASSUME HInv, NEW r \in Requests, Abort(r) PROVE HInv'
<1> USE DEF HInv, Abort, Ended, RequestFinished
<1>0. ASSUME NEW e, Right(e)
      PROVE  Right(e)' /\ req'[e.owner].handoff = req[e.owner].handoff
  BY <1>0 DEF Right, Holds, Shape, Last
<1>1. Shape' BY DEF Shape
<1>2. Engine' BY DEF Engine, Shape
<1>3. Follows' BY DEF Follows, Shape
<1>4. Holds' BY DEF Holds, Last, Shape
<1>5. Served' BY <1>0 DEF Served, Shape
<1>6. Lists' BY DEF Lists, Pending, Holds, Shape
<1>7. QED BY <1>1, <1>2, <1>3, <1>4, <1>5, <1>6

\* A preempted request has no blocks, and its list is replaced when it resumes.
LEMMA PreemptHolds == ASSUME HInv, NEW r \in Requests, Preempt(r) PROVE HInv'
<1> USE DEF HInv, Preempt
<1>0. ASSUME NEW e, Right(e)
      PROVE  Right(e)' /\ req'[e.owner].handoff = req[e.owner].handoff
  BY <1>0 DEF Right, Holds, Shape, Last
<1>1. Shape' BY DEF Shape
<1>2. Engine' BY DEF Engine, Shape
<1>3. Follows' BY DEF Follows, Shape
<1>4. Holds' BY DEF Holds, Last, Shape
<1>5. Served' BY <1>0, ZenonT(30) DEF Served, Shape
<1>6. Lists' BY DEF Lists, Pending, Holds, Shape
<1>7. QED BY <1>1, <1>2, <1>3, <1>4, <1>5, <1>6

\* An export that gets old (ExportTable.expire's clock) keeps owner and rows.
LEMMA AgeHolds == ASSUME HInv, NEW h, Age(h) PROVE HInv'
<1> USE DEF HInv, Age, scheduler
<1>0. ASSUME NEW e, Right(e)
      PROVE  Right(e)' /\ req'[e.owner].handoff = req[e.owner].handoff
  BY <1>0 DEF Right
<1>1. Shape' BY DEF Shape
<1>2. Engine' BY DEF Engine, Shape
<1>3. Follows' BY DEF Follows, Shape
<1>4. Holds' BY DEF Holds, Last, Shape
<1>5. Served' BY <1>0 DEF Served, Shape, Right
<1>6. Lists' BY DEF Lists, Pending, Holds, Shape
<1>7. QED BY <1>1, <1>2, <1>3, <1>4, <1>5, <1>6

\* A step without tokens makes nothing ready.
LEMMA EmptyHolds == ASSUME HInv, EmptyStep PROVE HInv'
<1> USE DEF HInv, EmptyStep
<1>0. ASSUME NEW e, Right(e)
      PROVE  Right(e)' /\ req'[e.owner].handoff = req[e.owner].handoff
  BY <1>0 DEF Right, Shape
<1>1. Shape' BY DEF Shape
<1>2. Engine' BY DEF Engine, Shape
<1>3. Follows' BY DEF Follows, Shape
<1>4. Holds' BY DEF Holds, Last, Shape
<1>5. Served' BY <1>0 DEF Served, Shape
<1>6. Lists' BY DEF Lists, Pending, Holds, Shape, Engine
<1>7. QED BY <1>1, <1>2, <1>3, <1>4, <1>5, <1>6

\* The end of a step: a request that is held ends held, and those reported are let go
\* (request_finished, update_connector_output).
LEMMA UpdateHolds == ASSUME HInv, Update PROVE HInv'
<1> DEFINE ends(r) == r = eng.r /\ req[r].computed + eng.n >= TOKENS
<1>1. ASSUME NEW r \in Requests
      PROVE  /\ DOMAIN req'[r] = ReqFields
             /\ req'[r].handoff = req[r].handoff /\ req'[r].from = req[r].from
             /\ req'[r].alloc = IF r \in eng.out \/ (ends(r) /\ r \notin holding) THEN <<>> ELSE req[r].alloc
             /\ req'[r].phase = IF r \in eng.out \/ (ends(r) /\ r \notin holding) THEN "freed"
                                ELSE IF ends(r) THEN "held" ELSE req[r].phase
  BY <1>1, HandoffAssumption, ZenonT(30) DEF HInv, Shape, Update, Ended, RequestFinished
<1>2. /\ DOMAIN req' = Requests /\ tracked' \subseteq tracked /\ \A r \in tracked' : ~ends(r)
      /\ holding' = holding \ eng.out /\ finished' = finished /\ table' = table /\ resp' = resp
      /\ DOMAIN ids' = Requests /\ \A r \in Requests : ~ends(r) => ids'[r] = ids[r]
  BY HandoffAssumption, ZenonT(30) DEF HInv, Follows, Update
<1>3. eng' = Idle(eng.mtp) /\ eng'.pc = "idle" /\ eng'.out = {} /\ eng'.ready = {}
  BY Zenon DEF Update, Idle
<1>4. Shape'   BY <1>1, <1>2, <1>3 DEF HInv, Shape, Idle
<1>5. Engine'  BY <1>3 DEF Engine, Idle
<1>6. Follows' BY <1>1, <1>2 DEF HInv, Follows, Holds
<1>7. Holds'   BY <1>1, <1>2, <1>3 DEF HInv, Holds, Last
<1>8. Served'  BY <1>1, <1>2, <1>3 DEF HInv, Served, Right, Holds, Last
<1>9. Lists'   BY <1>3 DEF Lists, Pending
<1>10. QED     BY <1>4, <1>5, <1>6, <1>7, <1>8, <1>9 DEF HInv

\* The serving thread lists stale handoffs, or finds no request.
LEMMA WaitHolds == ASSUME HInv, (Attach \/ Expire \/ Dropped \/ NoRequest) PROVE HInv'
<1> USE DEF HInv, Attach, Expire, Dropped, NoRequest, scheduler
<1>0. ASSUME NEW e, Right(e)
      PROVE  Right(e)' /\ req'[e.owner].handoff = req[e.owner].handoff
  BY <1>0 DEF Right
<1>1. Shape' BY Zenon DEF Shape
<1>2. Engine' BY DEF Engine, Shape
<1>3. Follows' BY DEF Follows, Shape
<1>4. Holds' BY DEF Holds, Last, Shape
<1>5. Served' BY <1>0, ZenonT(30) DEF Served, Shape
<1>6. Lists'
  <2>1. resp'.export = resp.export BY Zenon DEF Shape
  <2>2. QED BY <2>1 DEF Lists, Pending
<1>7. QED BY <1>1, <1>2, <1>3, <1>4, <1>5, <1>6

\* The export that a request names comes into the serving thread's hand as it is listed (run).
LEMMA NextRequestHolds == ASSUME HInv, NEW h, NextRequest(h) PROVE HInv'
<1> USE DEF HInv
<1>0. UNCHANGED <<req, ids, tracked, holding, eng, table, finished>> BY DEF NextRequest, scheduler
<1>1. ASSUME NEW e \in resp'.export
      PROVE  /\ h \in DOMAIN table /\ e.owner = table[h].owner /\ e.rows = table[h].rows
             /\ DOMAIN e = ExportFields
  BY <1>1 DEF NextRequest, Shape
<1>2. Shape'   BY <1>0, <1>1 DEF Shape, NextRequest
<1>3. Engine'  BY <1>0 DEF Engine
<1>4. Follows' BY <1>0 DEF Follows
<1>5. Holds'   BY <1>0 DEF Holds, Last
<1>6. Served'
  <2>1. resp'.pc = "handle" BY DEF NextRequest, Shape
  <2>2. QED BY <1>0, <1>1, <2>1 DEF Served, Right
<1>7. Lists'   BY <1>0, <1>1 DEF Lists, Pending
<1>8. QED      BY <1>2, <1>3, <1>4, <1>5, <1>6, <1>7

-----------------------------------------------------------------------------
(* The steps of the engine.                                                *)

\* The rows of a number of tokens are a number.
LEMMA RowsAreInt == ASSUME NEW t \in Int PROVE RowsFor(t) \in Int
  BY HandoffAssumption DEF RowsFor

\* The blocks that a request is given (allocate_slots) are a sequence, however many.
LEMMA NewIsSeq == ASSUME NEW k \in Int
                  PROVE  Len(NewBlocks(k)) \in Nat /\ <<>> \o NewBlocks(k) = NewBlocks(k)
<1> DEFINE nth(i) == CHOOSE b \in Free : Cardinality({c \in Free : c < b}) = i - 1
<1>1. PICK m \in Nat : 1..k = 1..m
  <2>1. CASE k >= 0 BY <2>1
  <2>2. CASE k < 0 BY <2>2, 1..k = 1..0
  <2>3. QED BY <2>1, <2>2
<1>2. NewBlocks(k) = [i \in 1..m |-> nth(i)] BY <1>1 DEF NewBlocks
<1> HIDE DEF nth
<1>3. Len([i \in 1..m |-> nth(i)]) = m OBVIOUS
<1>4. QED BY <1>2, <1>3

\* The number of blocks asked for is one, and so is the number of tokens.
LEMMA AskedIsInt ==
  ASSUME Counts, NEW r \in Requests, NEW chunk \in Chunks, NEW n, n = Least(chunk, TOKENS - req[r].computed)
  PROVE  n \in Int /\ RowsFor(req[r].computed + n) - Len(req[r].alloc) \in Int
<1>1. n \in Int /\ req[r].computed + n \in Int BY HandoffAssumption DEF Counts, Least
<1>2. RowsFor(req[r].computed + n) \in Int BY <1>1, RowsAreInt
<1>3. Len(req[r].alloc) \in Nat BY DEF Counts
<1>4. QED BY <1>1, <1>2, <1>3

\* Every step counts on (schedule, and the ends of a step and of a request).
LEMMA CountsHold == ASSUME HInv, Counts, [Next]_vars PROVE Counts'
<1> USE DEF HInv, Shape, Counts
<1>1. CASE UNCHANGED <<req, eng>> BY <1>1
<1>2. CASE EmptyStep BY <1>2 DEF EmptyStep
<1>3. CASE Forward \/ GetFinished BY <1>3, ZenonT(30) DEF Forward, GetFinished
<1>4. CASE Update
  <2>1. eng'.n = 0 BY <1>4, Zenon DEF Update, Idle
  <2>2. ASSUME NEW r \in Requests PROVE req'[r].computed \in Int /\ Len(req'[r].alloc) \in Nat
    <3>1. Len(<<>>) = 0 OBVIOUS
    <3>2. /\ req'[r].alloc \in {<<>>, req[r].alloc}
          /\ req'[r].computed \in {0, req[r].computed, req[r].computed + eng.n}
      BY <1>4, <2>2, Zenon DEF Update, Ended, RequestFinished
    <3>3. QED BY <3>1, <3>2
  <2>3. QED BY <2>1, <2>2
<1>5. ASSUME NEW r \in Requests, NEW h, NEW from, Submit(r, h, from) PROVE Counts'
  BY <1>5 DEF Submit
<1>6. ASSUME NEW r \in Requests, Abort(r) \/ Preempt(r) PROVE Counts'
  <2>1. Len(<<>>) = 0 OBVIOUS
  <2>2. eng' = eng /\ \A q \in Requests : /\ req'[q].alloc \in {<<>>, req[q].alloc}
                                          /\ req'[q].computed \in {0, req[q].computed}
    <3>1. CASE Abort(r) BY <3>1 DEF Abort, Ended, RequestFinished
    <3>2. CASE Preempt(r) BY <3>2 DEF Preempt
    <3>3. QED BY <1>6, <3>1, <3>2
  <2>3. QED BY <2>1, <2>2
<1>7. ASSUME NEW r \in Requests, NEW chunk \in Chunks, Schedule(r, chunk) PROVE Counts'
  <2> DEFINE n == Least(chunk, TOKENS - req[r].computed)
             blocks == NewBlocks(RowsFor(req[r].computed + n) - Len(req[r].alloc))
  <2>1. /\ eng' = [eng EXCEPT !.pc = "forward", !.r = r, !.n = n,
                              !.ready = IF r \in tracked /\ req[r].computed + n >= TOKENS THEN {r} ELSE {}]
        /\ req' = [req EXCEPT ![r].phase = "running", ![r].alloc = @ \o blocks]
    BY <1>7 DEF Schedule
  <2>2. n \in Int /\ Len(blocks) \in Nat BY AskedIsInt, NewIsSeq, Zenon
  <2> HIDE DEF n, blocks
  <2>3. Len(req[r].alloc \o blocks) \in Nat BY <2>2
  <2>4. QED BY <2>1, <2>2, <2>3
<1>8. CASE \E h \in Handoffs : Age(h) BY <1>1, <1>8 DEF Age, scheduler
<1>9. CASE Serve
  BY <1>1, <1>9, Zenon DEF Serve, Attach, Expire, Dropped, NoRequest, FinishStale, NextRequest, Handle, scheduler
<1>10. QED BY <1>1, <1>2, <1>3, <1>4, <1>5, <1>6, <1>7, <1>8, <1>9, NewIsNew DEF Next, EngineStep, vars

\* A scheduled request's list gets what its blocks get (advance), and one whose prompt ends with
\* this step is held from here on (build_connector_meta).
LEMMA ScheduleHolds ==
  ASSUME HInv, NEW r \in Requests, NEW chunk, Schedule(r, chunk), NEW n, NEW blocks,
         n = Least(chunk, TOKENS - req[r].computed),
         blocks = NewBlocks(RowsFor(req[r].computed + n) - Len(req[r].alloc)),
         <<>> \o blocks = blocks
  PROVE  HInv'
<1> DEFINE ready == r \in tracked /\ req[r].computed + n >= TOKENS
<1>1. /\ eng.pc = "idle" /\ req[r].phase \in {"waiting", "running"}
      /\ req' = [req EXCEPT ![r].phase = "running", ![r].alloc = @ \o blocks]
      /\ ids' = [ids EXCEPT ![r] = IF r \in tracked
                                   THEN BlockIds(@, blocks, req[r].phase = "waiting") ELSE @]
      /\ tracked' = IF ready THEN tracked \ {r} ELSE tracked
      /\ holding' = IF ready THEN holding \cup {r} ELSE holding
      /\ eng' = [eng EXCEPT !.pc = "forward", !.r = r, !.n = n, !.ready = IF ready THEN {r} ELSE {}]
      /\ table' = table /\ finished' = finished /\ resp' = resp
  BY DEF Schedule
<1> HIDE DEF ready
<1>2. /\ DOMAIN req' = Requests /\ DOMAIN ids' = Requests /\ DOMAIN req'[r] = ReqFields
      /\ \A q \in Requests \ {r} : req'[q] = req[q] /\ ids'[q] = ids[q]
      /\ req'[r].phase = "running" /\ req'[r].alloc = req[r].alloc \o blocks
      /\ req'[r].computed = req[r].computed
      /\ req'[r].handoff = req[r].handoff /\ req'[r].from = req[r].from
  <2>1. DOMAIN req = Requests /\ DOMAIN ids = Requests /\ DOMAIN req[r] = ReqFields
    BY DEF HInv, Shape
  <2>2. QED BY <1>1, <2>1, Zenon
<1>3. /\ DOMAIN eng' = EngFields /\ eng'.pc = "forward" /\ eng'.r = r /\ eng'.n = n
      /\ eng'.ready = (IF ready THEN {r} ELSE {}) /\ eng'.out = {}
  BY <1>1 DEF HInv, Shape, Engine
<1>4. r \notin holding /\ \A q \in holding : req[q].phase = "held"
  BY <1>1 DEF HInv, Holds, Last
<1>5. r \in tracked => ids'[r] = req'[r].alloc
  <2>1. SUFFICES ASSUME r \in tracked PROVE ids'[r] = req'[r].alloc OBVIOUS
  <2>2. ids'[r] = BlockIds(ids[r], blocks, req[r].phase = "waiting") BY <1>1, <2>1 DEF HInv, Shape
  <2>3. CASE req[r].phase = "waiting" BY <1>2, <2>2, <2>3, Zenon DEF HInv, Follows, BlockIds
  <2>4. CASE req[r].phase = "running"
    <3>1. ids[r] = req[r].alloc BY <2>1, <2>4 DEF HInv, Follows
    <3>2. CASE ids[r] = <<>> BY <1>2, <2>2, <3>1, <3>2 DEF BlockIds
    <3>3. CASE ids[r] # <<>> BY <1>2, <2>2, <2>4, <3>1, <3>3, Zenon DEF BlockIds
    <3>4. QED BY <3>2, <3>3
  <2>5. QED BY <1>1, <2>3, <2>4
<1>6. ready => r \in tracked /\ req[r].computed + n >= TOKENS BY DEF ready
<1>7. Shape'   BY <1>1, <1>2, <1>3 DEF HInv, Shape
<1>8. Engine'  BY <1>3 DEF Engine
<1>9. Follows'
  <2>1. tracked' \subseteq tracked BY <1>1
  <2>2. \A q \in Requests : req'[q].phase \in {"new", "waiting"} => req'[q].alloc = <<>>
    BY <1>2 DEF HInv, Follows
  <2>3. ASSUME NEW q \in tracked'
        PROVE  \/ req'[q].phase = "waiting"
               \/ req'[q].phase = "running" /\ ids'[q] = req'[q].alloc
    <3>1. CASE q = r BY <1>2, <1>5, <2>1, <3>1, ZenonT(30)
    <3>2. CASE q # r
      <4>1. q \in tracked /\ q \in Requests \ {r} BY <2>1, <3>2 DEF HInv, Follows
      <4>2. QED BY <1>2, <4>1 DEF HInv, Follows
    <3>3. QED BY <3>1, <3>2
  <2>4. QED BY <2>1, <2>2, <2>3 DEF HInv, Follows
<1>10. Holds'  BY <1>1, <1>2, <1>3, <1>4, <1>6 DEF HInv, Holds, Last
<1>11. ASSUME NEW e, Right(e) PROVE Right(e)' /\ req'[e.owner].handoff = req[e.owner].handoff
  BY <1>1, <1>2, <1>3, <1>4, <1>11 DEF HInv, Right, Holds
<1>12. Served' BY <1>1, <1>11, Zenon DEF HInv, Served
<1>13. Lists'
  <2>1. SUFFICES ASSUME NEW q \in Requests, Pending(q)'
                 PROVE  /\ q \in holding' \ finished' /\ req'[q].phase = "running" /\ ids'[q] = req'[q].alloc
                        /\ \A h \in DOMAIN table' : table'[h].owner # q
                        /\ \A e \in resp'.export : e.owner # q
    BY DEF Lists
  <2>2. ready /\ q = r BY <1>3, <2>1 DEF Pending
  <2>3. r \notin finished BY <1>4 DEF HInv, Holds
  <2>4. \A e : Right(e) => e.owner # r BY <1>4 DEF Right
  <2>5. QED BY <1>1, <1>2, <1>5, <1>6, <2>2, <2>3, <2>4, Zenon DEF HInv, Served
<1>14. QED BY <1>7, <1>8, <1>9, <1>10, <1>12, <1>13 DEF HInv

\* What is listed of the requests that are ready is right (_serve_ready, _export).
LEMMA AddedRight ==
  ASSUME HInv, NEW rs, rs \subseteq Requests, \A r \in rs : Pending(r), NEW h \in DOMAIN Added(rs)
  PROVE  /\ DOMAIN Added(rs)[h] = ExportFields
         /\ Right(Added(rs)[h]) /\ req[Added(rs)[h].owner].handoff = h
<1>1. CASE \E r \in rs : req[r].handoff = h
  <2>1. PICK r \in rs : req[r].handoff = h /\ Added(rs)[h] = Export(r)
    BY <1>1 DEF Added
  <2>2. /\ DOMAIN Export(r) = ExportFields /\ Export(r).owner = r
        /\ Export(r).rows = RowsOf(ids[r], req[r].from)
    BY ZenonT(30) DEF Export, RowsOf
  <2>3. r \in holding \ finished /\ ids[r] = req[r].alloc /\ eng.out = {}
    BY DEF HInv, Lists, Pending, Engine
  <2>4. QED BY <2>1, <2>2, <2>3 DEF Right
<1>2. CASE ~\E r \in rs : req[r].handoff = h
  <2>1. h \in DOMAIN table /\ Added(rs)[h] = table[h] BY <1>2 DEF Added
  <2>2. QED BY <2>1 DEF HInv, Served, Shape
<1>3. QED BY <1>1, <1>2

\* wait_for_save lists the exports after the forward pass, or leaves them to get_finished.
LEMMA ForwardHolds == ASSUME HInv, Forward PROVE HInv'
<1>1. /\ UNCHANGED <<req, ids, tracked, holding, finished, resp>>
      /\ DOMAIN eng' = EngFields /\ eng'.pc = "saved" /\ eng.pc = "forward" /\ eng'.r = eng.r /\ eng'.n = eng.n
      /\ eng'.ready = eng.ready /\ eng'.out = eng.out /\ eng'.mtp = eng.mtp
      /\ table' = IF eng.mtp THEN table ELSE Added(eng.ready)
  BY DEF Forward, HInv, Shape
<1>2. eng.ready \subseteq Requests /\ \A r \in eng.ready : Pending(r)
  BY <1>1 DEF HInv, Engine, Pending
<1>3. \A h \in DOMAIN table' : /\ DOMAIN table'[h] = ExportFields
                               /\ Right(table'[h]) /\ req[table'[h].owner].handoff = h
  <2>1. CASE eng.mtp BY <1>1, <2>1 DEF HInv, Served, Shape
  <2>2. CASE ~eng.mtp BY <1>1, <1>2, <2>2, AddedRight
  <2>3. QED BY <2>1, <2>2
<1>4. Shape'   BY <1>1, <1>3 DEF HInv, Shape
<1>5. Engine'  BY <1>1 DEF HInv, Engine
<1>6. Follows' BY <1>1 DEF HInv, Follows
<1>7. Holds'   BY <1>1 DEF HInv, Holds, Last
<1>8. Served'  BY <1>1, <1>3 DEF HInv, Served, Right
<1>9. Lists'   BY <1>1, <1>2 DEF HInv, Lists, Pending
<1>10. QED     BY <1>4, <1>5, <1>6, <1>7, <1>8, <1>9 DEF HInv

\* get_finished lists what is left, and reports the owners that were finished before it.
LEMMA GetFinishedHolds == ASSUME HInv, GetFinished PROVE HInv'
<1>1. /\ UNCHANGED <<req, ids, tracked, holding, resp>> /\ finished' = {}
      /\ DOMAIN eng' = EngFields /\ eng'.pc = "update" /\ eng.pc = "saved" /\ eng'.r = eng.r /\ eng'.n = eng.n
      /\ eng'.ready = eng.ready /\ eng'.out = finished
      /\ table' = IF eng.mtp THEN Added(eng.ready) ELSE table
  BY DEF GetFinished, HInv, Shape
<1>2. eng.ready \subseteq Requests /\ (eng.mtp => \A r \in eng.ready : Pending(r)) /\ eng.out = {}
  BY <1>1 DEF HInv, Engine, Pending
<1>3. \A h \in DOMAIN table' : /\ DOMAIN table'[h] = ExportFields
                               /\ Right(table'[h]) /\ req[table'[h].owner].handoff = h
  <2>1. CASE ~eng.mtp BY <1>1, <2>1 DEF HInv, Served, Shape
  <2>2. CASE eng.mtp BY <1>1, <1>2, <2>2, AddedRight
  <2>3. QED BY <2>1, <2>2
<1>4. Shape'   BY <1>1, <1>3 DEF HInv, Shape
<1>5. Engine'  BY <1>1 DEF HInv, Engine
<1>6. Follows' BY <1>1 DEF HInv, Follows
<1>7. Holds'   BY <1>1 DEF HInv, Holds, Last
<1>8. Served'  BY <1>1, <1>2, <1>3 DEF HInv, Served, Right
<1>9. Lists'   BY <1>1 DEF Lists, Pending
<1>10. QED     BY <1>4, <1>5, <1>6, <1>7, <1>8, <1>9 DEF HInv

-----------------------------------------------------------------------------
(* The steps of the serving thread.                                        *)

\* ExportTable.finish reports an owner whose one export leaves the table, when none is in hand.
LEMMA FinishRight ==
  ASSUME HInv, NEW h, Finish(h), UNCHANGED scheduler, resp'.export = {}, DOMAIN resp' = RespFields
  PROVE  HInv'
<1>1. /\ UNCHANGED <<req, ids, tracked, holding, eng>>
      /\ DOMAIN table' = DOMAIN table \ {h} /\ \A x \in DOMAIN table' : table'[x] = table[x]
      /\ finished' = IF h \in DOMAIN table THEN finished \cup {table[h].owner} ELSE finished
  BY DEF Finish, scheduler
<1>2. h \in DOMAIN table =>
         /\ table[h].owner \in holding \ eng.out /\ req[table[h].owner].handoff = h
  BY DEF HInv, Served, Right
<1>3. Shape'   BY <1>1 DEF HInv, Shape
<1>4. Engine'  BY <1>1 DEF HInv, Engine
<1>5. Follows' BY <1>1 DEF HInv, Follows
<1>6. Holds'   BY <1>1, <1>2 DEF HInv, Holds, Last
<1>7. Served'  BY <1>1, <1>2 DEF HInv, Served, Right
<1>8. Lists'   BY <1>1 DEF HInv, Lists, Pending
<1>9. QED      BY <1>3, <1>4, <1>5, <1>6, <1>7, <1>8 DEF HInv

\* expire() finishes a stale handoff with no export in hand.
LEMMA FinishStaleHolds == ASSUME HInv, NEW h, FinishStale(h) PROVE HInv'
<1>1. resp'.export = {} /\ DOMAIN resp' = RespFields BY DEF FinishStale, HInv, Served, Shape
<1>2. QED BY <1>1, FinishRight DEF FinishStale

\* handle() lets go of the export in hand, and CLOSE finishes what the table lists under its id.
LEMMA HandleHolds == ASSUME HInv, NEW kind \in {"open", "pull", "close"}, Handle(kind) PROVE HInv'
<1>1. resp'.export = {} /\ DOMAIN resp' = RespFields /\ UNCHANGED scheduler
  BY DEF Handle, HInv, Shape
<1>2. \/ UNCHANGED <<table, finished>> \/ Open \/ Finish(resp.handoff)
  BY Zenon DEF Handle
<1>3. CASE UNCHANGED <<table, finished>> \/ Open
  <2>1. /\ UNCHANGED <<req, ids, tracked, holding, eng, finished>> /\ DOMAIN table' = DOMAIN table
        /\ \A h \in DOMAIN table : /\ DOMAIN table'[h] = ExportFields
                                   /\ table'[h].owner = table[h].owner /\ table'[h].rows = table[h].rows
    BY <1>1, <1>3 DEF Open, HInv, Shape, scheduler
  <2>2. Shape'   BY <1>1, <2>1 DEF HInv, Shape
  <2>3. Engine'  BY <2>1 DEF HInv, Engine
  <2>4. Follows' BY <2>1 DEF HInv, Follows
  <2>5. Holds'   BY <2>1 DEF HInv, Holds, Last
  <2>6. Served'  BY <1>1, <2>1 DEF HInv, Served, Right
  <2>7. Lists'   BY <1>1, <2>1 DEF HInv, Lists, Pending
  <2>8. QED      BY <2>2, <2>3, <2>4, <2>5, <2>6, <2>7 DEF HInv
<1>4. CASE Finish(resp.handoff) BY <1>1, <1>4, FinishRight
<1>5. QED BY <1>2, <1>3, <1>4

-----------------------------------------------------------------------------
\* Every step keeps HInv, and so does none (Next of the engine, the serving thread and vLLM).
LEMMA StepHolds == ASSUME HInv, Counts, [Next]_vars PROVE HInv'
<1>1. CASE EngineStep
  BY <1>1, EmptyHolds, ForwardHolds, GetFinishedHolds, UpdateHolds DEF EngineStep
<1>2. CASE Serve
  BY <1>2, WaitHolds, FinishStaleHolds, NextRequestHolds, HandleHolds DEF Serve
<1>3. CASE \E r \in NewRequest : Submit(r, None, 0) \/ \E h \in AnyId, from \in Froms : Submit(r, h, from)
  BY <1>3, NewIsNew, SubmitHolds
<1>4. CASE \E r \in Requests, chunk \in Chunks : Schedule(r, chunk)
  <2>1. PICK r \in Requests, chunk \in Chunks : Schedule(r, chunk) BY <1>4
  <2>2. QED BY <2>1, ScheduleHolds, AskedIsInt, NewIsSeq
<1>5. CASE \E r \in Requests : Abort(r) \/ Preempt(r) BY <1>5, AbortHolds, PreemptHolds
<1>6. CASE \E h \in Handoffs : Age(h) BY <1>6, AgeHolds
<1>7. CASE UNCHANGED vars
  BY <1>7 DEF vars, HInv, Shape, Engine, Follows, Holds, Served, Right, Lists, Pending, Last
<1>8. QED BY <1>1, <1>2, <1>3, <1>4, <1>5, <1>6, <1>7 DEF Next

\* What a decoder pulls is the prompt, always: the rows of every export that the table lists or the
\* serving thread has in hand are the blocks its request still has, from export_from's row on.
THEOREM HandoffCorrect == Spec => []PagesAreThePrompt
<1>1. HInv => PagesAreThePrompt
  BY DEF HInv, Served, Right, RowsOf, Exports, PagesAreThePrompt
<1>2. Init => Counts BY DEF Init, Counts, Idle
<1>3. QED BY <1>1, <1>2, InitHolds, StepHolds, CountsHold, PTL DEF Spec
=============================================================================
