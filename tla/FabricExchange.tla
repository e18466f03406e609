--------------------------- MODULE FabricExchange ---------------------------
(***************************************************************************)
(* How two fabrics meet and part (libmcdma_fabric.c): each end makes one   *)
(* peer at a time of N lanes with mcdma_fabric_connect_links, which takes  *)
(* the lanes through exchange one after the other, and every lane already  *)
(* connected is served by its progress thread.  Datagrams are lost,        *)
(* delayed and duplicated.                                                 *)
(*                                                                         *)
(* Sessions are numbered instead of random, per end; 0 is the zeroed one.  *)
(* All the lanes of a peer carry its session.  A lane's queue pair lives   *)
(* as long as its session, and reached notes which one was taken to RTS    *)
(* towards which.  Two fabrics are alike when what exchange compares (link *)
(* kind, number of lanes and queue pairs) is the same at both.             *)
(*                                                                         *)
(* Time is not modelled: an exchange may time out whenever it waits.  What *)
(* a peer carries once it is up is Bond's and TbLink's.                    *)
(***************************************************************************)
EXTENDS Integers, FiniteSets

CONSTANTS
    N,            \* the lanes of a peer
    MaxA, MaxB,   \* bounds: calls of connect_links at end a and at end b
    MaxFaults,    \* bound: refused queue pairs and failed links
    MaxAstray,      \* bound: lost and duplicated datagrams
    MaxUnderWay   \* bound: datagrams under way on a lane; the ones sent beyond are lost

ASSUME ExchangeAssumption ==
    N \in Nat \ {0} /\ {MaxA, MaxB, MaxFaults, MaxAstray, MaxUnderWay} \subseteq Nat

VARIABLES
    p,        \* p[e]: struct mcdma_fabric_peer of end e and where its call is
    alike,    \* were the two fabrics opened alike?
    net,      \* net[e][k]: the datagrams under way to end e on lane k
    reached,  \* history: <<end, its session, lane, the peer's session>> taken to RTS
    faults, astray
vars == <<p, alike, net, reached, faults, astray>>

Ends == {"a", "b"}
Other(e) == IF e = "a" THEN "b" ELSE "a"
Lanes == 1..N
Max(e) == IF e = "a" THEN MaxA ELSE MaxB

NoPeer(session) == [pc |-> "idle", session |-> session, lane |-> 1, heard |-> FALSE, down |-> FALSE,
                    peer_session |-> [k \in Lanes |-> 0], tell |-> {}]

Init == /\ p = [e \in Ends |-> NoPeer(0)]
        /\ alike \in BOOLEAN
        /\ net = [e \in Ends |-> [k \in Lanes |-> {}]]
        /\ reached = {} /\ faults = 0 /\ astray = 0

-----------------------------------------------------------------------------
(* Datagrams (link_xchg.c).                                                *)

\* xchg_prepare: from this session, to the peer's as far as it is known.
Msg(e, kind, to) == [kind |-> kind, from |-> p[e].session, to |-> to]
\* The offer of lane k, addressed (X_HAVE) once the peer's is held.
Mine(e, k) == Msg(e, "offer", p[e].peer_session[k])
\* xchg_ours
Ours(e, m) == m.to = p[e].session

With(ms, sent) == IF Cardinality(ms \cup sent) <= MaxUnderWay THEN ms \cup sent ELSE ms
\* xchg_send: end e sends sent[k] on each lane k.
Sent(e, sent) == [net EXCEPT ![Other(e)] = [k \in Lanes |-> With(@[k], sent[k])]]
Send(e, sent) == net' = Sent(e, sent)
On(k, ms) == [j \in Lanes |-> IF j = k THEN ms ELSE {}]
\* xchg_recv takes m from lane k's socket, or a copy of it, and sent goes the other way.
Astray == astray < MaxAstray /\ astray' = astray + 1
Receive(e, k, m, sent) ==
    \/ net' = [Sent(e, sent) EXCEPT ![e][k] = @ \ {m}] /\ UNCHANGED astray
    \/ net' = Sent(e, sent) /\ Astray

\* A datagram is lost on the way, or reaches a socket that is not open.
Open(e) == CASE p[e].pc = "idle" -> {} [] p[e].pc = "lane" -> 1..p[e].lane [] OTHER -> Lanes
Lose(e, k) == \E m \in net[e][k] :
    /\ Astray
    /\ net' = [net EXCEPT ![e][k] = @ \ {m}]
    /\ UNCHANGED <<p, alike, reached, faults>>
Closed(e, k) ==
    /\ k \notin Open(e) /\ net[e][k] # {}
    /\ net' = [net EXCEPT ![e][k] = {}]
    /\ UNCHANGED <<p, alike, reached, faults, astray>>

Fault == faults < MaxFaults /\ faults' = faults + 1

-----------------------------------------------------------------------------
(* mcdma_fabric_connect_links and exchange.                                *)

\* release_peer on every lane: each one that knows its peer says goodbye.
Byes(e) == [k \in Lanes |->
              IF p[e].peer_session[k] = 0 THEN {} ELSE {Msg(e, "bye", p[e].peer_session[k])}]
Release(e) == p' = [p EXCEPT ![e] = NoPeer(p[e].session)]

Connect(e) ==
    /\ p[e].pc = "idle" /\ p[e].session < Max(e)
    /\ p' = [p EXCEPT ![e] = [NoPeer(p[e].session + 1) EXCEPT !.pc = "lane"]]
    /\ UNCHANGED <<alike, net, reached, faults, astray>>

\* The resends of exchange.
Offer(e) ==
    /\ p[e].pc = "lane" /\ Send(e, On(p[e].lane, {Mine(e, p[e].lane)}))
    /\ UNCHANGED <<p, alike, reached, faults, astray>>

\* The exchange takes too long, or connect_lane fails before it, over an address, a
\* registration or a queue pair: every lane of the peer is released.
Timeout(e) ==
    /\ p[e].pc = "lane" /\ Release(e) /\ Send(e, Byes(e))
    /\ UNCHANGED <<alike, reached, faults, astray>>

\* have and heard: the lane is added to its fabric, and the next one begins.
LaneDone(q) ==
    IF q.peer_session[q.lane] = 0 \/ ~q.heard THEN q
    ELSE IF q.lane = N THEN [q EXCEPT !.pc = "check"]
    ELSE [q EXCEPT !.lane = @ + 1, !.heard = FALSE]

\* What exchange passes over: another kind, or another session's once it holds an offer.
IgnoredKind(e, k, m) ==   \* mutant: any session's offer is heard
    m.kind # "offer"
Ignored(e, k, m) ==
    m.kind # "offer" \/ p[e].peer_session[k] \notin {0, m.from}

HearOffer(e, m) == LET k == p[e].lane IN
    /\ p[e].pc = "lane"
    /\ \/ /\ m.kind = "err" /\ Ours(e, m)
          /\ Release(e) /\ Receive(e, k, m, Byes(e))
          /\ UNCHANGED <<reached, faults>>
       \/ /\ Ignored(e, k, m) /\ ~(m.kind = "err" /\ Ours(e, m))
          /\ Receive(e, k, m, On(k, {}))
          /\ UNCHANGED <<p, reached, faults>>
       \/ \* the first offer: refused for its configuration or by the queue pair,
          /\ ~Ignored(e, k, m) /\ p[e].peer_session[k] = 0
          /\ \/ ~alike /\ UNCHANGED faults
             \/ alike /\ Fault
          /\ Release(e) /\ Receive(e, k, m, [Byes(e) EXCEPT ![k] = {Msg(e, "err", m.from)}])
          /\ UNCHANGED reached
       \/ \* or taken, and said so
          /\ ~Ignored(e, k, m) /\ p[e].peer_session[k] = 0 /\ alike
          /\ p' = [p EXCEPT ![e] = LaneDone([@ EXCEPT !.peer_session[k] = m.from, !.heard = Ours(e, m)])]
          /\ reached' = reached \cup {<<e, p[e].session, k, m.from>>}
          /\ Receive(e, k, m, On(k, {Msg(e, "offer", m.from)}))
          /\ UNCHANGED faults
       \/ \* the peer's again
          /\ ~Ignored(e, k, m) /\ p[e].peer_session[k] # 0
          /\ p' = [p EXCEPT ![e] = LaneDone([@ EXCEPT !.heard = @ \/ Ours(e, m)])]
          /\ Receive(e, k, m, On(k, {}))
          /\ UNCHANGED <<reached, faults>>
    /\ UNCHANGED alike

\* All the lanes are connected: to one peer, that is not gone meanwhile.
Same(e) == \A k \in Lanes : p[e].peer_session[k] = p[e].peer_session[1]
Check(e) ==
    /\ p[e].pc = "check"
    /\ IF Same(e) /\ ~p[e].down
       THEN p' = [p EXCEPT ![e].pc = "up"] /\ UNCHANGED net
       ELSE Release(e) /\ Send(e, Byes(e))
    /\ UNCHANGED <<alike, reached, faults, astray>>

\* Also what mcdma_fabric_close does with each peer.
Disconnect(e) ==
    /\ p[e].pc = "up" /\ Release(e) /\ Send(e, Byes(e))
    /\ UNCHANGED <<alike, reached, faults, astray>>

-----------------------------------------------------------------------------
(* The progress thread of a connected lane: progress_all and service.      *)

Added(e) == CASE p[e].pc = "idle" -> {} [] p[e].pc = "lane" -> 1..(p[e].lane - 1) [] OTHER -> Lanes

\* An offer of the peer's session is answered, in case ours was lost.
AnswerNone(e, k, m) == {}   \* mutant: a lost offer is not sent again
Answer(e, k, m) ==
    IF m.kind = "offer" /\ m.from = p[e].peer_session[k] THEN {Mine(e, k)} ELSE {}
\* Anything else that ends the link: a goodbye or failure for us, another session's offer.
EndingFarewell(e, k, m) ==   \* mutant: a restarted peer goes unnoticed
    m.kind \in {"bye", "err"} /\ Ours(e, m)
Ending(e, k, m) ==
    \/ m.kind \in {"bye", "err"} /\ Ours(e, m)
    \/ m.kind = "offer" /\ m.from # p[e].peer_session[k]
Service(e, k, m) ==
    /\ k \in Added(e) /\ ~p[e].down
    /\ p' = [p EXCEPT ![e].down = Ending(e, k, m)]
    /\ Receive(e, k, m, On(k, Answer(e, k, m)))
    /\ UNCHANGED <<alike, reached, faults>>

\* peer_fail and tell_peer: a link fails, its lane says why, and so does each other one.
LinkFails(e, k) ==
    /\ k \in Added(e) /\ ~p[e].down /\ Fault
    /\ p' = [p EXCEPT ![e].down = TRUE, ![e].tell = Added(e) \ {k}]
    /\ Send(e, On(k, {Msg(e, "err", p[e].peer_session[k])}))
    /\ UNCHANGED <<alike, reached, astray>>
TellPeer(e, k) ==
    /\ k \in p[e].tell
    /\ p' = [p EXCEPT ![e].tell = @ \ {k}]
    /\ Send(e, On(k, {Msg(e, "err", p[e].peer_session[k])}))
    /\ UNCHANGED <<alike, reached, faults, astray>>

-----------------------------------------------------------------------------

Hear(e, k) == \E m \in net[e][k] : (p[e].lane = k /\ HearOffer(e, m)) \/ Service(e, k, m)

Next == \E e \in Ends :
    \/ Connect(e) \/ Offer(e) \/ Timeout(e) \/ Check(e) \/ Disconnect(e)
    \/ \E k \in Lanes : Hear(e, k) \/ LinkFails(e, k) \/ TellPeer(e, k) \/ Lose(e, k) \/ Closed(e, k)

Spec == Init /\ [][Next]_vars

\* The call runs, and so do the progress threads; a user need never connect or
\* disconnect, and a timeout may be long.
FairSpec == /\ Spec
            /\ \A e \in Ends : WF_vars(Offer(e)) /\ WF_vars(Check(e))
            /\ \A e \in Ends : \A k \in Lanes :
                  WF_vars(Hear(e, k)) /\ WF_vars(TellPeer(e, k)) /\ WF_vars(Closed(e, k))

-----------------------------------------------------------------------------

Sessions(e) == 1..Max(e)
Msgs(e) == [kind : {"offer", "bye", "err"}, from : Sessions(Other(e)), to : 0..Max(e)]
\* The type of the state.
TypeOK ==
    /\ \A e \in Ends :
         /\ p[e].pc \in {"idle", "lane", "check", "up"} /\ p[e].session \in 0..Max(e)
         /\ p[e].lane \in Lanes /\ p[e].heard \in BOOLEAN /\ p[e].down \in BOOLEAN
         /\ p[e].peer_session \in [Lanes -> 0..Max(Other(e))] /\ p[e].tell \subseteq Lanes
         /\ \A k \in Lanes : net[e][k] \subseteq Msgs(e)
    /\ alike \in BOOLEAN
    /\ \A r \in reached : r[2] \in Sessions(r[1]) /\ r[3] \in Lanes /\ r[4] \in Sessions(Other(r[1]))

\* The lanes whose exchange is done (have and heard) reach queue pairs of one
\* incarnation of the other end, each taken to RTS towards this very session,
\* and the two ends are alike: nothing is written to a queue pair that was never
\* ready, and a bond never spans a restart, whatever is lost or late.  It holds
\* even before connect_links compares the lanes' sessions.
UpIsMutual == \A e \in Ends : Added(e) # {} =>
    /\ alike
    /\ \E s \in Sessions(Other(e)) : \A k \in Added(e) :
         p[e].peer_session[k] = s /\ <<Other(e), s, k, p[e].session>> \in reached

\* Who is up with a peer that still offers answers it (service), so the peer is
\* not left offering until its timeout because the last offer was lost.
Waits(e) == /\ p[e].pc = "lane" /\ p[Other(e)].pc = "up" /\ ~p[Other(e)].down
            /\ p[Other(e)].peer_session[p[e].lane] = p[e].session
LastOfferAnswered == \A e \in Ends : Waits(e) ~> ~Waits(e)

\* An end that is up with an incarnation that is gone finds out from the next
\* one's offers (service), even when every goodbye was lost.
Stale(e) == /\ p[e].pc = "up" /\ ~p[e].down
            /\ p[Other(e)].pc = "lane" /\ p[Other(e)].session # p[e].peer_session[1]
RestartNoticed == \A e \in Ends : Stale(e) ~> ~Stale(e)
=============================================================================
