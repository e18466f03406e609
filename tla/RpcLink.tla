------------------------------ MODULE RpcLink -------------------------------
(***************************************************************************)
(* How two mcdma-rpcd daemons bring a link up and notice that it is gone:  *)
(* the connect end (rpcd_connect.c) and the listen end (rpcd_listen.c)     *)
(* exchange datagrams that are lost, delayed, reordered and duplicated.    *)
(*                                                                         *)
(* Sessions are numbered instead of random: an attempt of the connect end  *)
(* takes the next of its numbers, an answer of the listen end the next of  *)
(* its own, and 0 is the zeroed session.  An end makes a queue pair with   *)
(* each session and destroys it with the session, so a session also names  *)
(* its queue pair and the pairs in reached say which queue pair was taken  *)
(* to RTS towards which.                                                   *)
(*                                                                         *)
(* Time is not modelled: a wait may run out whenever it is waited for, and *)
(* an end is silent once its peer could have been heard and was not.  The  *)
(* mailbox behind the link is not part of this module.                     *)
(***************************************************************************)
EXTENDS Integers, FiniteSets

CONSTANTS
    MaxSessions,  \* bound: attempts of the connect end
    MaxAnswers,   \* bound: sessions of the listen end
    MaxFaults,    \* bound: failures and crashes of either end
    MaxCopies,    \* bound: duplicated datagrams
    MaxUnderWay   \* bound: datagrams under way; the ones sent beyond are lost

ASSUME BoundsAssumption == {MaxSessions, MaxAnswers, MaxFaults, MaxCopies, MaxUnderWay} \subseteq Nat

VARIABLES
    c,        \* struct peer, and where peer_thread is: "down", "offering" or "up"
    l,        \* struct listen_state
    net,      \* the datagrams under way
    reached,  \* history: <<end, its session, the peer's>> of each queue pair at RTS
    faults, copies
vars == <<c, l, net, reached, faults, copies>>

Msg(role, kind, from, to, have) ==
    [role |-> role, kind |-> kind, from |-> from, to |-> to, have |-> have]

Init == /\ c = [pc |-> "down", session |-> 0, peer_session |-> 0, silent |-> FALSE]
        /\ l = [hello |-> FALSE, armed |-> FALSE, session |-> 0, peer_session |-> 0,
                silent |-> FALSE, last |-> 0]
        /\ net = {} /\ reached = {} /\ faults = 0 /\ copies = 0

With(ms, sent) == IF Cardinality(ms \cup sent) <= MaxUnderWay THEN ms \cup sent ELSE ms
\* xchg_recv takes m from the socket, or a copy of it.
Receive(m, sent) ==
    \/ net' = With(net \ {m}, sent) /\ UNCHANGED copies
    \/ copies < MaxCopies /\ copies' = copies + 1 /\ net' = With(net, sent)
Send(sent) == net' = With(net, sent) /\ UNCHANGED copies
Fault == faults < MaxFaults /\ faults' = faults + 1

-----------------------------------------------------------------------------
(* The connect end.                                                        *)

FromConnect(kind, to, have) == Msg("connect", kind, c.session, to, have)
Offer   == FromConnect("offer", 0, FALSE)
Confirm(to) == FromConnect("offer", to, TRUE)

\* peer_down: the link is down, a known peer hears so.
PeerDown == c' = [c EXCEPT !.pc = "down", !.peer_session = 0, !.silent = FALSE]
Goodbye  == IF c.peer_session = 0 THEN {} ELSE {FromConnect("bye", c.peer_session, FALSE)}

\* peer_connect: a new session is offered, again and again, for a while.
Connect ==
    /\ c.pc = "down" /\ c.session < MaxSessions
    /\ c' = [c EXCEPT !.pc = "offering", !.session = @ + 1]
    /\ Send({Msg("connect", "offer", c.session + 1, 0, FALSE)})
    /\ UNCHANGED <<l, reached, faults>>
Reoffer ==
    /\ c.pc = "offering" /\ Send({Offer})
    /\ UNCHANGED <<c, l, reached, faults>>
GiveUp ==
    /\ c.pc = "offering" /\ PeerDown /\ Send({})
    /\ UNCHANGED <<l, reached, faults>>

\* xchg_ours: the message is for this session of ours.
OursAny(m) == TRUE   \* mutant: any session's
Ours(m) == m.to = c.session

\* The wait of peer_connect: a refusal ends the attempt, the listen end's
\* offer takes the queue pair to RTS and is confirmed; that may fail, before
\* the peer's session is noted (box_refuse) or after (ep_connect).
HearWhileOffering(m) ==
    /\ c.pc = "offering" /\ m.role = "listen"
    /\ \/ /\ ~Ours(m) \/ m.kind = "pong"
          /\ Receive(m, {})
          /\ UNCHANGED <<c, reached, faults>>
       \/ /\ Ours(m) /\ m.kind \in {"err", "bye"}
          /\ PeerDown /\ Receive(m, {})
          /\ UNCHANGED <<reached, faults>>
       \/ /\ Ours(m) /\ m.kind = "offer" /\ m.have
          /\ \/ /\ c' = [c EXCEPT !.pc = "up", !.peer_session = m.from, !.silent = FALSE]
                /\ reached' = reached \cup {<<"connect", c.session, m.from>>}
                /\ Receive(m, {Confirm(m.from)})
                /\ UNCHANGED faults
             \/ /\ Fault /\ PeerDown
                /\ \E kind \in {"err", "bye"} : Receive(m, {FromConnect(kind, m.from, FALSE)})
                /\ UNCHANGED reached
    /\ UNCHANGED l

\* connect_service: its datagrams,
KnownAny(m) == TRUE   \* mutant: any session of the listen end is heard
Known(m) == m.from = c.peer_session
HearWhileUp(m) ==
    /\ c.pc = "up" /\ m.role = "listen"
    /\ \/ /\ Ours(m) /\ m.kind \in {"bye", "err"}
          /\ PeerDown /\ Receive(m, Goodbye)
       \/ /\ Ours(m) /\ m.kind \notin {"bye", "err"} /\ Known(m)
          /\ c' = [c EXCEPT !.silent = FALSE]
          /\ Receive(m, IF m.kind = "offer" THEN {Confirm(c.peer_session)} ELSE {})
       \/ /\ ~Ours(m) \/ (m.kind \notin {"bye", "err"} /\ ~Known(m))
          /\ UNCHANGED c /\ Receive(m, {})
    /\ UNCHANGED <<l, reached, faults>>
\* its pings, and its end when nothing is heard.
Ping ==
    /\ c.pc = "up" /\ Send({FromConnect("ping", c.peer_session, FALSE)})
    /\ UNCHANGED <<c, l, reached, faults>>
ConnectUnheard ==
    /\ c.pc = "up" /\ c' = [c EXCEPT !.silent = TRUE]
    /\ UNCHANGED <<l, net, reached, faults, copies>>
ConnectSilent ==
    /\ c.pc = "up" /\ c.silent /\ PeerDown /\ Send(Goodbye)
    /\ UNCHANGED <<l, reached, faults>>

\* A failed transfer or a shutdown takes the link down; a crash says nothing.
ConnectFails ==
    /\ c.pc = "up" /\ Fault /\ PeerDown /\ (Send(Goodbye) \/ Send({}))
    /\ UNCHANGED <<l, reached>>

-----------------------------------------------------------------------------
(* The listen end.                                                         *)

FromListen(kind, to) == Msg("listen", kind, l.session, to, FALSE)
Answer == Msg("listen", "offer", l.session, l.peer_session, TRUE)

\* listen_drop.
ListenDrop == l' = [l EXCEPT !.hello = FALSE, !.armed = FALSE, !.peer_session = 0, !.silent = FALSE]
ListenBye  == IF l.peer_session = 0 THEN {} ELSE {FromListen("bye", l.peer_session)}

\* listen_offer: a session in the way is dropped; the queue pair reaches RTS
\* before the answer leaves, or the offer is refused.
ListenOffer(m) ==
    \/ /\ l.last < MaxAnswers
       /\ l' = [hello |-> TRUE, armed |-> FALSE, session |-> l.last + 1, peer_session |-> m.from,
                silent |-> FALSE, last |-> l.last + 1]
       /\ reached' = reached \cup {<<"listen", l.last + 1, m.from>>}
       /\ Receive(m, ListenBye \cup {Msg("listen", "offer", l.last + 1, m.from, TRUE)})
       /\ UNCHANGED faults
    \/ /\ Fault /\ ListenDrop
       /\ Receive(m, ListenBye \cup {FromListen("err", m.from)})
       /\ UNCHANGED reached

\* The datagrams of a session that is not the current one.
Current(m) == l.hello /\ m.from = l.peer_session
OthersDatagram(m) ==
    \/ m.kind = "offer" /\ ~m.have /\ ListenOffer(m)
    \/ /\ (m.kind = "offer" /\ m.have) \/ m.kind = "ping"
       /\ Receive(m, {FromListen("bye", m.from)})
       /\ UNCHANGED <<l, reached, faults>>
    \/ /\ m.kind \in {"bye", "err"} /\ Receive(m, {})
       /\ UNCHANGED <<l, reached, faults>>

Arms(m) == m.have
CurrentDatagram(m) ==
    /\ \/ /\ m.kind = "offer"
          /\ l' = [l EXCEPT !.armed = @ \/ Arms(m), !.silent = FALSE]
          /\ Receive(m, IF l.armed \/ Arms(m) THEN {} ELSE {Answer})
       \/ /\ m.kind = "ping"
          /\ l' = [l EXCEPT !.silent = FALSE]
          /\ Receive(m, {FromListen("pong", l.peer_session)})
       \/ /\ m.kind \in {"bye", "err"}
          /\ ListenDrop /\ Receive(m, ListenBye)
    /\ UNCHANGED <<reached, faults>>

ListenDatagram(m) ==
    /\ m.role = "connect"
    /\ IF Current(m) THEN CurrentDatagram(m) ELSE OthersDatagram(m)
    /\ UNCHANGED c

\* run_listen: an unconfirmed session is offered again, and given up after a
\* while; a confirmed one ends when its peer is silent.
ListenReoffer ==
    /\ l.hello /\ ~l.armed /\ Send({Answer})
    /\ UNCHANGED <<c, l, reached, faults>>
ListenUnheard ==
    /\ l.armed /\ l' = [l EXCEPT !.silent = TRUE]
    /\ UNCHANGED <<c, net, reached, faults, copies>>
RunsOutArmed == l.armed /\ l.silent   \* mutant: an unconfirmed session may stay
RunsOut == l.armed => l.silent
ListenSilent ==
    /\ l.hello /\ RunsOut /\ ListenDrop /\ Send(ListenBye)
    /\ UNCHANGED <<c, reached, faults>>

\* A failed transfer drops the session; a crash says nothing.
ListenFails ==
    /\ l.hello /\ Fault /\ ListenDrop /\ (Send(ListenBye) \/ Send({}))
    /\ UNCHANGED <<c, reached>>

-----------------------------------------------------------------------------
Lose(m) == net' = net \ {m} /\ UNCHANGED <<c, l, reached, faults, copies>>

Hear(m) == HearWhileOffering(m) \/ HearWhileUp(m) \/ ListenDatagram(m)
ConnectStep == \/ Connect \/ Reoffer \/ GiveUp
               \/ Ping \/ ConnectUnheard \/ ConnectSilent \/ ConnectFails
ListenStep == ListenReoffer \/ ListenUnheard \/ ListenSilent \/ ListenFails

\* Every attempt has been made.
Rest == c.pc = "down" /\ c.session = MaxSessions /\ ~l.hello /\ UNCHANGED vars

Next == ConnectStep \/ ListenStep \/ (\E m \in net : Hear(m) \/ Lose(m)) \/ Rest

Spec == Init /\ [][Next]_vars

\* Both daemons keep running: what nobody answers runs out.
Fairness == /\ WF_vars(ConnectUnheard) /\ WF_vars(ConnectSilent)
            /\ WF_vars(ListenUnheard) /\ WF_vars(ListenSilent) /\ WF_vars(GiveUp)
FairSpec == Spec /\ Fairness

-----------------------------------------------------------------------------
(* Properties.                                                             *)

Sessions == 0 .. MaxSessions
Answers  == 0 .. MaxAnswers
Datagrams ==
    [role : {"connect"}, kind : {"offer", "ping", "bye", "err"}, from : Sessions, to : Answers, have : BOOLEAN]
    \cup [role : {"listen"}, kind : {"offer", "pong", "bye", "err"}, from : Answers, to : Sessions, have : BOOLEAN]
TypeOK ==
    /\ c \in [pc : {"down", "offering", "up"}, session : Sessions, peer_session : Answers, silent : BOOLEAN]
    /\ l \in [hello : BOOLEAN, armed : BOOLEAN, session : Answers, peer_session : Sessions,
              silent : BOOLEAN, last : Answers]
    /\ net \subseteq Datagrams
    /\ reached \subseteq ({"connect"} \X Sessions \X Answers) \cup ({"listen"} \X Answers \X Sessions)
    /\ faults \in 0 .. MaxFaults /\ copies \in 0 .. MaxCopies
    /\ l.armed => l.hello

\* mcdma-rpcd.c: the connect end's queue pair leaves INIT only after the listen
\* end took a queue pair of its own to RTS towards it, whatever answers of
\* earlier attempts are still under way.
AnsweredFromRts ==
    \A q \in Answers, s \in Sessions :
        <<"connect", s, q>> \in reached => <<"listen", q, s>> \in reached


\* A connect end whose session the listen end does not hold goes down, even
\* while the listen end still answers another of its own sessions.
Held == l.hello /\ l.peer_session = c.session /\ l.session = c.peer_session
ConnectNotices == (c.pc = "up" /\ ~Held) ~> c.pc # "up"

\* A session the connect end has left does not hold the listen end for ever.
ListenNotices ==
    \A s \in Sessions : (l.hello /\ l.peer_session = s /\ c.session # s)
                          ~> ~(l.hello /\ l.peer_session = s)
=============================================================================
