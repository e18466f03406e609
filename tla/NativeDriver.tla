---------------------------- MODULE NativeDriver ----------------------------
(***************************************************************************)
(* The native driver over the life of one adapter: the service that starts *)
(* and cleans up (MCDMACX5Native.cpp), the adapter underneath (NativeHca)  *)
(* and the verbs provider (apple_provider.cpp), whose nodes stand for what *)
(* Apple's RDMA core asked for: contexts, protection domains, completion   *)
(* queues, queue pairs, memory regions and leases of doorbell pages (UAR). *)
(*                                                                         *)
(* Apple's core and the client processes are external: a core wrapper is   *)
(* an address that is used again once it is freed; a closing process frees *)
(* its wrappers whether or not the provider could destroy their objects.   *)
(* The provider's callbacks hold its command lock and are atomic; the card *)
(* may be pulled out (gone), or its PCI object terminated with the card    *)
(* still there (inactive), between any two steps.                          *)
(***************************************************************************)
EXTENDS NativeHca, FiniteSetsExt, TLC

CONSTANTS
    Nodes,          \* bound: names for the provider's nodes
    Addresses,      \* of core wrappers, for each kind of object
    resource_limit, context_resource_limit,  \* objects of a kind, and of one context: 256, 64
    MaxProcs,       \* bound: contexts opened, one after another or together
    MaxCleanups,    \* bound: calls of cleanup()
    RunRefusals     \* bound: refusals once the driver runs, if its start met none

ASSUME DriverAssumption == /\ IsFiniteSet(Nodes) /\ IsFiniteSet(Addresses)
                           /\ {resource_limit, context_resource_limit, MaxProcs, MaxCleanups, RunRefusals}
                              \subseteq Nat
                           /\ RunRefusals <= MaxRefusals

VARIABLES
    d,     \* the adapter (NativeHca), and in d.node the provider's nodes
    core,  \* core[kind][a]: the process whose wrapper is at address a; 0 when free
    svc    \* the service: phase, step, what it set up, and the bounds' counters
vars == <<d, core, svc>>

Null == "none"
Kinds == {"context", "pd", "cq", "qp", "mr"}
StartSteps == <<"attach", "open", "enable", "boot", "initial", "init", "uar", "eq", "roce", "jumbo",
                "prepare", "publish", "gid">>
CleanupSteps == <<"unpublish", "reclaim", "network", "eq", "uar", "down", "close">>

Init == /\ d = NewHca @@ [node |-> <<>>, stray |-> FALSE]
        /\ core = [k \in Kinds |-> [a \in Addresses |-> 0]]
        /\ svc = [phase |-> "start", step |-> 1, prepared |-> FALSE, published |-> FALSE,
                  quiescing |-> FALSE, procs |-> 0, cleanups |-> 0, sawGone |-> FALSE]

-----------------------------------------------------------------------------
(* The provider's lists. A node that is not there any more and is used     *)
(* leaves a mark, h.stray.                                                 *)

Of(h, kind) == {n \in DOMAIN h.node : h.node[n].kind = kind}
NewNode(kind, proc) == [kind |-> kind, core |-> Null, proc |-> proc, refs |-> 0, ctx |-> Null,
                        pd |-> Null, cq |-> Null, uar |-> Null, mapped |-> FALSE, user |-> FALSE,
                        state |-> 0]
With(h, n, rec) == [h EXCEPT !.node = (n :> rec) @@ @]
Without(h, n) == [h EXCEPT !.node = [m \in DOMAIN @ \ {n} |-> @[m]]]
Refer(h, n) == [h EXCEPT !.node[n].refs = @ + 1]
\* put_context, and --pd->references
Unrefer(h, n) ==
    IF n \notin DOMAIN h.node THEN [h EXCEPT !.stray = TRUE]
    ELSE LET g == [h EXCEPT !.node[n].refs = IF @ > 0 THEN @ - 1 ELSE 0]
         IN IF g.node[n].kind = "context" /\ g.node[n].core = Null /\ g.node[n].refs = 0
            THEN Without(g, n) ELSE g
Forget(h, n) == Unrefer(Without(h, n), IF h.node[n].kind \in {"pd", "cq"} THEN h.node[n].ctx
                                                                         ELSE h.node[n].pd)
ContextOf(h, n) == IF h.node[n].kind \in {"qp", "mr"} THEN h.node[h.node[n].pd].ctx ELSE h.node[n].ctx
Children(h, c) == {n \in UNION {Of(h, k) : k \in {"pd", "cq", "qp", "mr"}} : ContextOf(h, n) = c}
\* leases whose context is gone
Parked(h) == {l \in Of(h, "uar") : \A c \in Of(h, "context") : h.node[c].uar # l}
Orphans(h) == {n \in DOMAIN h.node : h.node[n].kind \notin {"context", "uar"} /\ h.node[n].core = Null}

-----------------------------------------------------------------------------
(* Destroying the hardware behind a node.                                  *)

\* Hca::reset_qp, then the QP itself
DestroyQp(h, n) ==
    Then(IF n \in h.live /\ h.node[n].state # 0 /\ ~Detached(h) THEN Execute(h, Query) ELSE Ok(h),
         LAMBDA g : Then(Destroy([g EXCEPT !.node[n].state = 0], n), LAMBDA e : Ok(Release(e, n))))
DestroyCq(h, n) == IF \E q \in Of(h, "qp") : q \in h.live /\ h.node[q].cq = n THEN Fail(h)
                   ELSE Then(Destroy(h, n), LAMBDA e : Ok(Release(e, n)))
\* A queue pair the kernel posts to may have the region in flight.
MaybeInFlight(h, n) == \E q \in Of(h, "qp") : /\ q \in h.live /\ h.node[q].pd = h.node[n].pd
                                              /\ h.node[q].state = 1 /\ ~h.node[q].user
DestroyMr(h, n) ==
    IF n \notin h.mem THEN Ok(h)
    ELSE IF ~Detached(h) /\ h.quarantined THEN Fail(h)
    ELSE (IF n \in h.live /\ ~Detached(h) /\ MaybeInFlight(h, n) THEN Fail(h) ELSE {})
         \cup Then(Destroy(h, n), LAMBDA e : Ok(Release(e, n)))
DeallocPd(h, n) == IF h.node[n].refs # 0 THEN Fail(h) ELSE Destroy(h, n)
DestroyNode(h, n) == CASE h.node[n].kind = "qp" -> DestroyQp(h, n)
                       [] h.node[n].kind = "cq" -> DestroyCq(h, n)
                       [] h.node[n].kind = "mr" -> DestroyMr(h, n)
                       [] h.node[n].kind = "pd" -> DeallocPd(h, n)

\* For each node in turn: destroyed and forgotten, or left for a later try. Sets of states.
TryEach(states, nodes, Try(_, _)) ==
    FoldSet(LAMBDA n, S : UNION {Try(h, n) : h \in S}, states, nodes)
TryNode(h, n) == {IF r.ok THEN Forget(r.h, n) ELSE r.h : r \in DestroyNode(h, n)}
TryLease(h, l) == IF h.node[l].mapped THEN {h}
                  ELSE {IF r.ok THEN Without(r.h, l) ELSE r.h : r \in Destroy(h, l)}
\* sweep_orphan_uars
Sweep(h) == TryEach({h}, Parked(h), TryLease)
OrphansOf(h, kind) == {n \in Of(h, kind) : h.node[n].core = Null}
AllOf(states, kind) == UNION {TryEach({h}, OrphansOf(h, kind), TryNode) : h \in states}
\* reclaim_orphans_locked: leases, then queue pairs, regions, completion queues, domains
ReclaimOrphans(h) ==
    IF h.quarantined /\ ~Detached(h) THEN {h}
    ELSE AllOf(AllOf(AllOf(AllOf(Sweep(h), "qp"), "mr"), "cq"), "pd")
Reclaimed(h) == ~(h.quarantined /\ ~Detached(h)) /\ Orphans(h) = {} /\ Parked(h) = {}

-----------------------------------------------------------------------------
(* The provider's callbacks, for as long as the service is published.      *)

ProviderReady == ~svc.quiescing /\ Ready(d) /\ d.initialized
Unused == Nodes \ (DOMAIN d.node \cup d.live \cup d.fw.objs \cup d.mem)
Fresh == CHOOSE n \in Unused : TRUE
Contexts == {c \in Of(d, "context") : d.node[c].core # Null}
\* the node with this core identity
Find(kind, a) == {n \in Of(d, kind) : d.node[n].core = a}

\* alloc_uar, best effort: an id on the control page is given back
LeaseFor(h, c, l) ==
    UNION {IF ~r.ok THEN {r.h}
           ELSE {[With(r.h, l, NewNode("uar", 0)) EXCEPT !.node[c].uar = l]} \cup
                (IF r.h.refusals = MaxRefusals THEN {}
                 ELSE {e.h : e \in Destroy([r.h EXCEPT !.refusals = @ + 1], l)})
           : r \in Create(h, l, {})}

AllocContext(a) ==
    LET c == Fresh
        l == CHOOSE n \in Unused \ {c} : TRUE
    IN /\ svc.phase # "start"         \* bound: no client between publish and the end of start()
       /\ svc.published /\ ProviderReady /\ core["context"][a] = 0 /\ Find("context", a) = {}
       /\ svc.procs < MaxProcs /\ Cardinality(Of(d, "context")) < resource_limit
       /\ Cardinality(Unused) > 1
       /\ \E g \in UNION {ReclaimOrphans(s) : s \in Sweep(d)} :
             d' \in LeaseFor(With(g, c, [NewNode("context", svc.procs + 1) EXCEPT !.core = a]), c, l)
       /\ core' = [core EXCEPT !["context"][a] = svc.procs + 1]
       /\ svc' = [svc EXCEPT !.procs = @ + 1]

\* mutant: the objects keep the identity of a wrapper that is about to be freed
OrphanedKept(h, c) == h
\* orphan_context_objects, and the lease
Orphaned(h, c) ==
    [h EXCEPT !.node = [n \in DOMAIN @ |-> IF n \in Children(h, c) THEN [@[n] EXCEPT !.core = Null]
                                                                 ELSE @[n]]]
ReleaseUar(h, c) ==
    LET l == h.node[c].uar
        g == [h EXCEPT !.node[c].uar = Null, !.node[c].mapped = FALSE]
    IN IF l = Null THEN {g} ELSE TryLease(g, l)
\* mutant: the context is not held while its last objects go
KeepContextNot(h, c) == [h EXCEPT !.node[c].core = Null]
KeepContext(h, c) == [Refer(h, c) EXCEPT !.node[c].core = Null]
DeallocContext(c) ==
    LET held == KeepContext(d, c)
        abandoned == {n \in Children(held, c) : held.node[n].core # Null}
        swept == UNION {Sweep(g) : g \in ReleaseUar(Orphaned(held, c), c)}
    IN /\ svc.published /\ c \in Contexts
       /\ \E g \in IF abandoned = {} THEN swept ELSE UNION {ReclaimOrphans(h) : h \in swept} :
             d' = Unrefer(g, c)
       /\ core' = [k \in Kinds |-> [a \in Addresses |-> IF core[k][a] = d.node[c].proc THEN 0
                                                                                    ELSE core[k][a]]]
       /\ UNCHANGED svc

\* A node is listed before the command, and kept without a core identity if its outcome is unknown.
Settled(r, n, a) == IF r.ok THEN [r.h EXCEPT !.node[n].core = a]
                    ELSE IF r.h.quarantined THEN r.h ELSE Forget(r.h, n)
Listing(kind, c, a, rec, parent, Make(_, _)) ==
    LET n == Fresh
        h == Refer(With(d, n, [rec EXCEPT !.proc = d.node[c].proc]), parent)
    IN /\ svc.published /\ ProviderReady /\ Unused # {}
       /\ core[kind][a] = 0 /\ Find(kind, a) = {}
       /\ Cardinality(Of(d, kind)) < resource_limit
       /\ Cardinality(Of(d, kind) \cap Children(d, c)) < context_resource_limit
       /\ \E r \in Make(h, n) :
             /\ d' = Settled(r, n, a)
             /\ core' = IF r.ok THEN [core EXCEPT ![kind][a] = d.node[c].proc] ELSE core
       /\ UNCHANGED svc

AllocPd(c, a) == c \in Contexts /\ Listing("pd", c, a, [NewNode("pd", 0) EXCEPT !.ctx = c], c,
                                           LAMBDA h, n : Create(h, n, {}))
CreateCq(c, a) == c \in Contexts /\ Listing("cq", c, a, [NewNode("cq", 0) EXCEPT !.ctx = c], c,
                                            CreateWithMemory)
\* an id the index already has: the object exists, and cannot be told apart
Indexed(outcomes) ==
    Then(outcomes, LAMBDA g : Ok(g) \cup (IF g.losses = MaxLosses THEN {}
                                         ELSE Fail(Quarantine([g EXCEPT !.losses = @ + 1]))))
CreateQp(c, p, q, a) ==
    /\ c \in Contexts /\ d.node[p].ctx = c /\ d.node[q].ctx = c
    /\ d.node[p].core # Null /\ d.node[q].core # Null
    /\ Listing("qp", c, a, [NewNode("qp", 0) EXCEPT !.pd = p, !.cq = q, !.user = d.node[c].mapped], p,
               LAMBDA h, n : IF q \in h.live THEN Indexed(CreateWithMemory(h, n)) ELSE Fail(h))
RegisterMr(c, p, a) ==
    /\ c \in Contexts /\ d.node[p].ctx = c /\ d.node[p].core # Null
    /\ Listing("mr", c, a, [NewNode("mr", 0) EXCEPT !.pd = p], p,
               LAMBDA h, n : Indexed(CreateWithMemory(h, n)))

\* modify_qp, the way up: three commands that the model takes as one
ModifyQp(n) ==
    /\ svc.published /\ ProviderReady /\ d.node[n].core # Null /\ d.node[n].state = 0
    /\ \E r \in Then(Execute(d, Query), LAMBDA g : Ok([g EXCEPT !.node[n].state = 1])) : d' = r.h
    /\ UNCHANGED <<core, svc>>

\* destroy_qp, deregister_mr, destroy_cq, dealloc_pd: a refusal leaves the node, and the wrapper
DestroyObject(n) ==
    LET kind == d.node[n].kind
        a == d.node[n].core
    IN /\ svc.published /\ kind \in {"pd", "cq", "qp", "mr"} /\ a # Null
       /\ \E r \in DestroyNode(d, n) :
             IF r.ok THEN d' = Forget(r.h, n) /\ core' = [core EXCEPT ![kind][a] = 0]
                     ELSE d' = r.h /\ UNCHANGED core
       /\ UNCHANGED svc

\* mmap of the context's doorbell page, once; the descriptor goes when the core lets it go
MapUar(c) == /\ svc.published /\ c \in Contexts /\ ProviderReady
             /\ d.node[c].uar # Null /\ ~d.node[c].mapped
             /\ d' = [d EXCEPT !.node[c].mapped = TRUE, !.node[d.node[c].uar].mapped = TRUE]
             /\ UNCHANGED <<core, svc>>
UnmapUar(l) == /\ d.node[l].mapped /\ d' = [d EXCEPT !.node[l].mapped = FALSE]
               /\ UNCHANGED <<core, svc>>

-----------------------------------------------------------------------------
(* The service.                                                            *)

BeginCleanup(s) == [s EXCEPT !.phase = "cleanup", !.step = 1, !.cleanups = @ + 1,
                             !.quiescing = @ \/ s.prepared, !.sawGone = d.gone]
\* prepare, the registration with Apple's core, bind_network and install_default_gid: the
\* provider's device and its table of callbacks, which the system may refuse
Publishing(h) == IF Ready(h) /\ h.initialized THEN Ok(h) \cup Refuse(h) ELSE Fail(h)
\* start(): one function after the other; the first failure goes to cleanup()
Step(step) == IF step \in {"prepare", "publish", "gid"} THEN Publishing(d) ELSE Start(d, step)
StartStep ==
    LET step == StartSteps[svc.step]
    IN /\ svc.phase = "start"
       /\ \E r \in Step(step) :
             /\ d' = IF r.ok /\ svc.step = Len(StartSteps)
                     THEN [r.h EXCEPT !.refusals = IF @ > 0 THEN MaxRefusals ELSE MaxRefusals - RunRefusals]
                     ELSE r.h
             /\ LET s == [svc EXCEPT !.prepared = @ \/ (step = "prepare" /\ r.ok),
                                     !.published = @ \/ (step = "publish" /\ r.ok)]
                IN svc' = IF ~r.ok THEN BeginCleanup(s)
                          ELSE IF svc.step = Len(StartSteps) THEN [s EXCEPT !.phase = "run"]
                          ELSE [s EXCEPT !.step = @ + 1]
       /\ UNCHANGED core

\* sample_port and sample_pcie_counters, which leave a provider that is not ready alone
SamplePort == IF ProviderReady THEN {r.h : r \in PortActive(d)} ELSE {d}
\* poll(): the timer samples the port
Poll == svc.phase = "run" /\ d' \in SamplePort /\ UNCHANGED <<core, svc>>

\* willTerminate() and didTerminate(): what happens between them can happen before cleanup()'s
\* first step as well
Terminate == svc.phase = "run" /\ svc' = BeginCleanup(svc) /\ UNCHANGED <<d, core>>
\* stop() on a service that was retained
CleanupAgain == /\ svc.phase = "retained" /\ svc.cleanups < MaxCleanups
                /\ svc' = BeginCleanup(svc) /\ UNCHANGED <<d, core>>

\* cleanup(): Apple's unregister waits for its clients; dispose refuses while a node is left
Unpublish(h) == IF svc.published THEN Ok(h) \cup Refuse(h) ELSE Ok(h)
Dispose(h) == IF ~svc.prepared THEN Ok(h)
              ELSE UNION {IF Reclaimed(g) /\ DOMAIN g.node = {} THEN Ok(g) ELSE Fail(g)
                          : g \in ReclaimOrphans(h)}
CleanupStep ==
    LET step == CleanupSteps[svc.step]
    IN /\ svc.phase = "cleanup"
       /\ step = "unpublish" /\ svc.published => Contexts = {}
       /\ \E r \in CASE step = "unpublish" -> Unpublish(d)
                     [] step = "reclaim" -> Dispose(d)
                     [] step = "network" -> Ok(d) \cup Refuse(d)
                     [] OTHER -> Stop(d, step) :
             /\ d' = r.h
             /\ svc' = IF ~r.ok THEN [svc EXCEPT !.phase = "retained"]
                       ELSE IF svc.step = Len(CleanupSteps) THEN [svc EXCEPT !.phase = "stopped"]
                       ELSE [svc EXCEPT !.step = @ + 1,
                                        !.published = @ /\ step # "unpublish",
                                        !.prepared = @ /\ step # "reclaim"]
       /\ UNCHANGED core

Remove == ~d.gone /\ svc.phase # "stopped" /\ d' = [d EXCEPT !.gone = TRUE] /\ UNCHANGED <<core, svc>>
\* IOKit terminates the PCI object before it calls willTerminate.
Inactivate == /\ ~d.inactive /\ svc.phase \in {"start", "run"} /\ d' = [d EXCEPT !.inactive = TRUE]
              /\ UNCHANGED <<core, svc>>

Next == \/ StartStep \/ Poll \/ Terminate \/ CleanupAgain \/ CleanupStep
        \/ Remove \/ Inactivate
        \/ \E a \in Addresses : AllocContext(a)
        \/ \E c \in Of(d, "context") : DeallocContext(c) \/ MapUar(c)
        \/ \E l \in Of(d, "uar") : UnmapUar(l)
        \/ \E c \in Of(d, "context"), a \in Addresses : AllocPd(c, a) \/ CreateCq(c, a)
        \/ \E c \in Of(d, "context"), p \in Of(d, "pd"), q \in Of(d, "cq"), a \in Addresses :
              CreateQp(c, p, q, a)
        \/ \E c \in Of(d, "context"), p \in Of(d, "pd"), a \in Addresses : RegisterMr(c, p, a)
        \/ \E n \in Of(d, "qp") : ModifyQp(n)
        \/ \E n \in DOMAIN d.node : DestroyObject(n)
Spec == Init /\ [][Next]_vars

-----------------------------------------------------------------------------
(* What holds.                                                             *)

\* Memory that the card can reach stays mapped until the card has let go of it or is gone, however
\* commands were answered: "Preserve all possibly live DMA until confirmed teardown"
\* (Transport::execute), in every create, destroy, reclaim and cleanup.
Reach == d.fw.dma \cup (IF d.fw.bound THEN {"queue"} ELSE {})
         \cup (IF d.fw.pages \cap BootPages # {} THEN {"boot"} ELSE {})
         \cup (IF d.fw.pages \cap InitPages # {} THEN {"initial"} ELSE {})
DmaHeld == ~d.gone => Reach \subseteq d.mem

\* A service that stopped with the card in place gives it back with nothing on it: "an
\* exclusive-open release must never hand a live HCA ... to the next driver" (didTerminate).
CleanHandover ==
    svc.phase = "stopped" /\ ~d.gone =>
        d.fw = [NewHca.fw EXCEPT !.port = d.fw.port, !.vport = d.fw.vport]

\* No callback, reclaim or context's end uses a node that was deleted, and the nodes' pointers
\* (a queue pair's or region's domain, a live queue pair's completion queue, the context) are nodes.
PointersLive ==
    /\ ~d.stray
    /\ \A n \in DOMAIN d.node :
          LET r == d.node[n]
          IN /\ r.kind \in {"pd", "cq"} => r.ctx \in DOMAIN d.node
             /\ r.kind \in {"qp", "mr"} => r.pd \in DOMAIN d.node
             /\ r.kind = "qp" /\ n \in d.live => r.cq \in DOMAIN d.node
             /\ r.kind = "context" /\ r.uar # Null => r.uar \in DOMAIN d.node

\* A core identity is always one of the process that made the node: a wrapper at an address that
\* is used again is never taken for an object of the process before (dealloc_context).
IdentityIsCurrent ==
    \A n \in DOMAIN d.node : d.node[n].core # Null => core[d.node[n].kind][d.node[n].core] = d.node[n].proc

\* After a removal cleanup() finishes: what can still stop it is Apple's unregister or network
\* detach, a doorbell page still mapped, or a UAR on the control page that could not be given back.
Leaked == d.live \ (DOMAIN d.node \cup Owned)

\* The frame sizes of port and vport are the ones the driver reports, or the ones from before, or the
\* transport is quarantined: configure_ethernet_mtu leaves no half of a change behind.
MtuSettled == ~d.gone /\ ~d.quarantined /\ svc.phase # "stopped" =>
    LET frame == IF d.mtu = 0 THEN InitialFrame ELSE d.mtu + 22
    IN d.fw.port = frame /\ d.fw.vport = frame
=============================================================================
