------------------------------- MODULE RpcCall -------------------------------
(***************************************************************************)
(* A call through the mailbox (src/rpc/rpcd_connect.c, rpcd_listen.c): a   *)
(* client beside the connect daemon stages a request, the daemons carry    *)
(* it to the service beside the listen daemon and the reply back, while    *)
(* links drop and come up again and the service and client come and go.    *)
(*                                                                         *)
(* A word is its sequence number; 0 is empty.  A payload area holds the    *)
(* number of the call whose bytes, or whose answer, it holds.  `skip`      *)
(* remembers the number an end took for an old one as the service          *)
(* attached, until it takes another; `fresh`, that a request landed while  *)
(* the service waited and is not served yet.  How a link is set up is      *)
(* RpcLink's: here a link is a number both ends share, and a transfer      *)
(* lands while the other end's queue pair is of that link.                 *)
(***************************************************************************)
EXTENDS Integers

CONSTANTS
  Oversize,  \* the calls whose request is longer than the request half
  MaxCalls,  \* bound: calls made
  MaxLinks,  \* bound: links set up
  MaxFaults  \* bound: links dropped, timeouts and crashes

ASSUME CallAssumption == MaxCalls \in Nat /\ Oversize \subseteq 1..MaxCalls

VARIABLES
  con,      \* the connect daemon's peer: direct (g_direct), pc, link, last, cur
  box,      \* its mailbox: req, pay, up, generation, ready, done, reply
  lis,      \* the listen daemon: link, armed, svc, last_staged, pc, cur; skip
  far,      \* its mailbox: req, pay, staged, reply; fresh
  service,  \* the service: pc, last, cur; skip
  client,   \* the client: pc, generation, seq, id
  links, calls, faults,
  sent      \* history: the call whose request this link carried last

vars == <<con, box, lis, far, service, client, links, calls, faults, sent>>

Init ==
  /\ \E direct \in BOOLEAN :
       con = [direct |-> direct, pc |-> "down", link |-> 0, last |-> 0, cur |-> 0]
  /\ box = [req |-> 0, pay |-> 0, up |-> FALSE, generation |-> 0, ready |-> 0, done |-> 0, reply |-> 0]
  /\ lis = [link |-> 0, armed |-> FALSE, svc |-> FALSE, last_staged |-> 0, skip |-> 0, pc |-> "poll", cur |-> 0]
  /\ far = [req |-> 0, pay |-> 0, staged |-> 0, reply |-> 0, fresh |-> FALSE]
  /\ service = [pc |-> "out", last |-> 0, cur |-> 0, skip |-> 0]
  /\ client = [pc |-> "out", generation |-> 0, seq |-> 0, id |-> 0]
  /\ links = 0 /\ calls = 0 /\ faults = 0 /\ sent = 0

Bound(n, max) == n < max
Fault == Bound(faults, MaxFaults) /\ faults' = faults + 1

(* Both queue pairs are of one link: what either end posts lands.          *)
Joined == con.pc # "down" /\ con.link = lis.link

-----------------------------------------------------------------------------
(* The listen daemon *)

(* listen_drop: the service's registration ends with the link.             *)
Dropped(l) == [l EXCEPT !.link = 0, !.armed = FALSE, !.svc = FALSE, !.pc = "poll"]

ListenOfferRemembers ==   \* mutant: the last staged reply is not forgotten
  /\ con.pc = "down" /\ lis.pc = "poll" /\ Bound(links, MaxLinks)
  /\ links' = links + 1
  /\ lis' = [(IF lis.link # 0 THEN Dropped(lis) ELSE lis)
               EXCEPT !.link = links + 1, !.armed = FALSE, !.skip = 0]
  /\ far' = [far EXCEPT !.req = 0, !.staged = 0, !.fresh = FALSE]
  /\ UNCHANGED <<con, box, service, client, calls, faults, sent>>

(* listen_offer: a new session, begun by the connect end's offer; both     *)
(* words are emptied and the last staged reply forgotten.                  *)
ListenOffer ==
  /\ con.pc = "down" /\ lis.pc = "poll" /\ Bound(links, MaxLinks)
  /\ links' = links + 1
  /\ lis' = [(IF lis.link # 0 THEN Dropped(lis) ELSE lis)
               EXCEPT !.link = links + 1, !.armed = FALSE, !.last_staged = 0, !.skip = 0]
  /\ far' = [far EXCEPT !.req = 0, !.staged = 0, !.fresh = FALSE]
  /\ UNCHANGED <<con, box, service, client, calls, faults, sent>>

Arm ==
  /\ Joined /\ ~lis.armed /\ lis.pc = "poll"
  /\ lis' = [lis EXCEPT !.armed = TRUE]
  /\ UNCHANGED <<con, box, far, service, client, links, calls, faults, sent>>

(* A goodbye, silence, a failed link: possible whenever a session is held, *)
(* and certain once the connect end has left it.                           *)
ListenDrop ==
  /\ lis.link # 0
  /\ IF Joined THEN Fault ELSE UNCHANGED faults
  /\ lis' = Dropped(lis)
  /\ UNCHANGED <<con, box, far, service, client, links, calls, sent>>

(* "MODE poll": one service at a time; what is staged already is not sent. *)
Attach ==
  /\ service.pc = "out" /\ ~lis.svc /\ lis.pc = "poll"
  /\ lis' = [lis EXCEPT !.svc = TRUE, !.last_staged = far.staged, !.skip = far.staged]
  /\ service' = [service EXCEPT !.pc = "joining"]
  /\ far' = [far EXCEPT !.fresh = FALSE]
  /\ UNCHANGED <<con, box, client, links, calls, faults, sent>>

(* listen_reply: take the staged reply; payload, then the client's word;   *)
(* pull mode sends the ready word alone.                                   *)
TakeStaged ==
  /\ lis.pc = "poll" /\ lis.svc /\ lis.armed
  /\ far.staged # 0 /\ far.staged # lis.last_staged
  /\ lis' = [lis EXCEPT !.last_staged = far.staged, !.skip = 0, !.cur = far.staged,
                        !.pc = IF con.direct THEN "payload" ELSE "word"]
  /\ UNCHANGED <<con, box, far, service, client, links, calls, faults, sent>>

ReplyPayload ==
  /\ lis.pc = "payload" /\ Joined
  /\ box' = [box EXCEPT !.reply = far.reply]
  /\ lis' = [lis EXCEPT !.pc = "word"]
  /\ UNCHANGED <<con, far, service, client, links, calls, faults, sent>>

ReplyWord ==
  /\ lis.pc = "word" /\ Joined
  /\ box' = IF con.direct THEN [box EXCEPT !.done = lis.cur] ELSE [box EXCEPT !.ready = lis.cur]
  /\ lis' = [lis EXCEPT !.pc = "poll"]
  /\ UNCHANGED <<con, far, service, client, links, calls, faults, sent>>

-----------------------------------------------------------------------------
(* The connect daemon: peer_connect from RTS on, in the code's order       *)
Connected ==
  /\ con.pc = "down" /\ lis.link > con.link
  /\ con' = [con EXCEPT !.link = lis.link, !.pc = "zero"]
  /\ UNCHANGED <<box, lis, far, service, client, links, calls, faults, sent>>

ZeroRequest ==
  /\ con.pc = "zero"
  /\ box' = [box EXCEPT !.req = 0]
  /\ con' = [con EXCEPT !.pc = "zero_reply"]
  /\ sent' = 0
  /\ UNCHANGED <<lis, far, service, client, links, calls, faults>>

ZeroReadyOnly ==   \* mutant: the done word of the last link is kept
  /\ con.pc = "zero_reply"
  /\ box' = [box EXCEPT !.ready = 0]
  /\ con' = [con EXCEPT !.pc = "last"]
  /\ UNCHANGED <<lis, far, service, client, links, calls, faults, sent>>

ZeroReply ==
  /\ con.pc = "zero_reply"
  /\ box' = [box EXCEPT !.ready = 0, !.done = 0]
  /\ con' = [con EXCEPT !.pc = "last"]
  /\ UNCHANGED <<lis, far, service, client, links, calls, faults, sent>>

ReadLast ==
  /\ con.pc = "last"
  /\ con' = [con EXCEPT !.last = box.req, !.pc = "generation"]
  /\ UNCHANGED <<box, lis, far, service, client, links, calls, faults, sent>>

SameGeneration ==   \* mutant: clients are not told of the new link
  /\ con.pc = "generation"
  /\ con' = [con EXCEPT !.pc = "show"]
  /\ UNCHANGED <<box, lis, far, service, client, links, calls, faults, sent>>

NewGeneration ==
  /\ con.pc = "generation"
  /\ box' = [box EXCEPT !.generation = @ + 1]
  /\ con' = [con EXCEPT !.pc = "show"]
  /\ UNCHANGED <<lis, far, service, client, links, calls, faults, sent>>

ShowUp ==
  /\ con.pc = "show"
  /\ box' = [box EXCEPT !.up = TRUE]
  /\ con' = [con EXCEPT !.pc = "poll"]
  /\ UNCHANGED <<lis, far, service, client, links, calls, faults, sent>>

(* peer_down once it serves the link: by a fault, and by anything posted   *)
(* or awaited on a link the other end has left.                            *)
ConnectDown ==
  /\ con.pc \in {"poll", "payload", "word", "ready"}
  /\ IF Joined THEN Fault ELSE UNCHANGED faults
  /\ con' = [con EXCEPT !.pc = "down"]
  /\ box' = [box EXCEPT !.up = FALSE]
  /\ UNCHANGED <<lis, far, service, client, links, calls, sent>>

(* Pull mode waits 30 seconds for the ready word.                          *)
ReadyTimeout ==
  /\ con.pc = "ready" /\ box.ready # con.cur
  /\ con' = [con EXCEPT !.pc = "down"]
  /\ box' = [box EXCEPT !.up = FALSE]
  /\ UNCHANGED <<lis, far, service, client, links, calls, faults, sent>>

(* peer_thread: a new request; one too long is answered at once, empty.    *)
TakeRequest ==
  /\ con.pc = "poll" /\ box.req # 0 /\ box.req # con.last
  /\ IF box.pay \in Oversize
       THEN /\ box' = [box EXCEPT !.done = box.req]
            /\ con' = [con EXCEPT !.last = box.req]
       ELSE /\ con' = [con EXCEPT !.last = box.req, !.cur = box.req, !.pc = "payload"]
            /\ UNCHANGED box
  /\ sent' = box.pay
  /\ UNCHANGED <<lis, far, service, client, links, calls, faults>>

SendPayload ==
  /\ con.pc = "payload" /\ Joined
  /\ far' = [far EXCEPT !.pay = box.pay]
  /\ con' = [con EXCEPT !.pc = "word"]
  /\ UNCHANGED <<box, lis, service, client, links, calls, faults, sent>>

SendWord ==
  /\ con.pc = "word" /\ Joined
  /\ far' = [far EXCEPT !.req = con.cur, !.fresh = lis.svc /\ service.pc = "poll"]
  /\ con' = [con EXCEPT !.pc = IF con.direct THEN "poll" ELSE "ready"]
  /\ UNCHANGED <<box, lis, service, client, links, calls, faults, sent>>

(* Pull mode: the ready word, the reply read, the client's word.           *)
PullReply ==
  /\ con.pc = "ready" /\ box.ready = con.cur /\ Joined
  /\ box' = [box EXCEPT !.reply = far.reply]
  /\ con' = [con EXCEPT !.pc = "done"]
  /\ UNCHANGED <<lis, far, service, client, links, calls, faults, sent>>

PullDone ==
  /\ con.pc = "done"
  /\ box' = [box EXCEPT !.done = con.cur]
  /\ con' = [con EXCEPT !.pc = "poll"]
  /\ UNCHANGED <<lis, far, service, client, links, calls, faults, sent>>

-----------------------------------------------------------------------------
(* The service (mailbox.py and responder.py, rpc_echo.c): one process,     *)
(* which sees the end of its registration only between requests.           *)
ServiceLast ==
  /\ service.pc = "joining"
  /\ service' = [service EXCEPT !.pc = "poll", !.last = far.req, !.skip = far.req]
  /\ UNCHANGED <<con, box, lis, far, client, links, calls, faults, sent>>

NextRequest ==
  /\ service.pc = "poll" /\ far.req # 0 /\ far.req # service.last
  /\ service' = [pc |-> "serve", last |-> far.req, cur |-> far.req, skip |-> 0]
  /\ far' = [far EXCEPT !.fresh = FALSE]
  /\ UNCHANGED <<con, box, lis, client, links, calls, faults, sent>>

Answer ==
  /\ service.pc = "serve"
  /\ far' = [far EXCEPT !.reply = far.pay]
  /\ service' = [service EXCEPT !.pc = "publish"]
  /\ UNCHANGED <<con, box, lis, client, links, calls, faults, sent>>

Publish ==
  /\ service.pc = "publish"
  /\ far' = [far EXCEPT !.staged = service.cur]
  /\ service' = [service EXCEPT !.pc = "poll"]
  /\ UNCHANGED <<con, box, lis, client, links, calls, faults, sent>>

NoticeBye ==
  /\ service.pc = "poll" /\ ~lis.svc
  /\ service' = [service EXCEPT !.pc = "out"]
  /\ UNCHANGED <<con, box, lis, far, client, links, calls, faults, sent>>

(* It crashes; the daemon closes the registration, between two replies.    *)
ServiceCrash ==
  /\ service.pc # "out" /\ lis.svc /\ lis.pc = "poll" /\ Fault
  /\ service' = [service EXCEPT !.pc = "out"]
  /\ lis' = [lis EXCEPT !.svc = FALSE]
  /\ UNCHANGED <<con, box, far, client, links, calls, sent>>

-----------------------------------------------------------------------------
(* The client (rpc_echo.c, echo_client)                                    *)
SeeUp ==
  /\ client.pc = "out" /\ box.up
  /\ client' = [client EXCEPT !.pc = "joining", !.generation = box.generation]
  /\ UNCHANGED <<con, box, lis, far, service, links, calls, faults, sent>>

SeeSeq ==
  /\ client.pc = "joining"
  /\ client' = [client EXCEPT !.pc = "idle", !.seq = box.req]
  /\ UNCHANGED <<con, box, lis, far, service, links, calls, faults, sent>>

Stage ==
  /\ client.pc = "idle" /\ Bound(calls, MaxCalls)
  /\ calls' = calls + 1
  /\ box' = [box EXCEPT !.pay = calls + 1]
  /\ client' = [client EXCEPT !.pc = "store", !.seq = @ + 1, !.id = calls + 1]
  /\ UNCHANGED <<con, lis, far, service, links, faults, sent>>

StoreWord ==
  /\ client.pc = "store"
  /\ box' = [box EXCEPT !.req = client.seq]
  /\ client' = [client EXCEPT !.pc = "wait"]
  /\ UNCHANGED <<con, lis, far, service, links, calls, faults, sent>>

(* The done word carries the sequence; or the generation moved on, or it   *)
(* has waited long enough: the call failed, and the next one goes on with  *)
(* the sequence and the generation of now.                                 *)
GetReply ==
  /\ client.pc = "wait" /\ box.done = client.seq
  /\ client' = [client EXCEPT !.pc = "idle"]
  /\ UNCHANGED <<con, box, lis, far, service, links, calls, faults, sent>>

LoseCall ==
  /\ client.pc = "wait" /\ box.generation # client.generation
  /\ client' = [client EXCEPT !.pc = "idle", !.generation = box.generation]
  /\ UNCHANGED <<con, box, lis, far, service, links, calls, faults, sent>>

CallTimeout ==
  /\ client.pc = "wait" /\ Fault
  /\ client' = [client EXCEPT !.pc = "idle", !.generation = box.generation]
  /\ UNCHANGED <<con, box, lis, far, service, links, calls, sent>>

(* One client ends after its calls; another waits for the link to be up.   *)
ClientEnds ==
  /\ client.pc = "idle"
  /\ client' = [client EXCEPT !.pc = "out"]
  /\ UNCHANGED <<con, box, lis, far, service, links, calls, faults, sent>>

-----------------------------------------------------------------------------
Connecting == Connected \/ ZeroRequest \/ ZeroReply \/ ReadLast \/ NewGeneration \/ ShowUp
Carrying   == TakeRequest \/ SendPayload \/ SendWord \/ PullReply \/ PullDone
Replying   == TakeStaged \/ ReplyPayload \/ ReplyWord
Serving    == ServiceLast \/ NextRequest \/ Answer \/ Publish \/ NoticeBye
Calling    == SeeUp \/ SeeSeq \/ Stage \/ StoreWord \/ GetReply \/ LoseCall \/ ClientEnds

Next ==
  \/ ListenOffer \/ Arm \/ ListenDrop \/ Attach \/ Replying
  \/ Connecting \/ ConnectDown \/ ReadyTimeout \/ Carrying
  \/ Serving \/ ServiceCrash
  \/ Calling \/ CallTimeout

Spec == Init /\ [][Next]_vars

(* Daemons, service and client keep running; a link whose other end is gone *)
(* comes down (RpcLink).  No fault is ever forced, and no caller's timeout. *)
FairSpec ==
  /\ Spec
  /\ WF_vars(Connecting) /\ WF_vars(Carrying) /\ WF_vars(Arm) /\ WF_vars(Attach)
  /\ WF_vars(ConnectDown /\ ~Joined) /\ WF_vars(ReadyTimeout)
  /\ WF_vars(ListenDrop /\ lis.armed /\ ~Joined)
  /\ WF_vars(Replying) /\ WF_vars(Serving)
  /\ WF_vars(SeeSeq \/ StoreWord \/ GetReply \/ LoseCall)

-----------------------------------------------------------------------------
Words == 0..MaxCalls

(* The daemons' and processes' places, words and areas keep their types.   *)
TypeOK ==
  /\ con \in [direct : BOOLEAN, link : 0..MaxLinks, last : Words, cur : Words,
              pc : {"down", "zero", "zero_reply", "last", "generation", "show", "poll",
                    "payload", "word", "ready", "done"}]
  /\ box \in [req : Words, pay : Words, up : BOOLEAN, generation : 0..MaxLinks,
              ready : Words, done : Words, reply : Words]
  /\ lis \in [link : 0..MaxLinks, armed : BOOLEAN, svc : BOOLEAN, last_staged : Words, skip : Words,
              pc : {"poll", "payload", "word"}, cur : Words]
  /\ far \in [req : Words, pay : Words, staged : Words, reply : Words, fresh : BOOLEAN]
  /\ service \in [pc : {"out", "joining", "poll", "serve", "publish"}, last : Words,
                  cur : Words, skip : Words]
  /\ client \in [pc : {"out", "joining", "idle", "store", "wait"}, generation : 0..MaxLinks,
                 seq : Words, id : Words]

(* A reply is this call's: when the done word carries the sequence a client *)
(* waits for, the reply area holds the answer to its request, whatever      *)
(* earlier calls, links, services and clients left behind.  An oversize     *)
(* request is answered without a payload.  The one exception is the moment  *)
(* between the stores that empty the request word and the done word: a      *)
(* client whose first sequence was read in it starts from 1 again, and may  *)
(* find the done word of the last link's call 1.                            *)
RightReply ==
  client.pc = "wait" /\ box.done = client.seq /\ con.pc # "zero_reply"
    => box.reply = client.id \/ client.id \in Oversize

(* Sent or told: a client that waits on a link that has come up, and has    *)
(* not been told of a new generation, waits for a request the daemon will   *)
(* carry or has carried.  It is never taken for one staged before the link. *)
SentOrTold ==
  client.pc = "wait" /\ con.pc = "poll" /\ box.generation = client.generation
    => (box.req = client.seq /\ con.last # client.seq) \/ sent = client.id

(* A client's call ends, or its link goes down, although no timeout is ever *)
(* forced.  There are two exceptions.  The request's number is the one the  *)
(* service or the listen daemon took for an old one when the service        *)
(* attached (mailbox.py: "A request left from an earlier service is not for *)
(* this one").  Or the request is oversize: its done word is the connect    *)
(* daemon's, and a late reply to a call given up before may overwrite it.   *)
AnsweredOrTold ==
  client.pc = "wait" /\ client.id \notin Oversize
    ~> client.pc # "wait" \/ ~box.up \/ client.seq \in {service.skip, lis.skip}

=============================================================================
