----------------------------- MODULE NativeHca ------------------------------
(***************************************************************************)
(* The driver's command transport (kernel_transport.cpp) and its adapter   *)
(* (Hca, kernel_hca.cpp), as operators on one record h: what the card      *)
(* holds (h.fw) beside what the driver believes and the memory it keeps    *)
(* mapped for the card (h.mem).                                            *)
(*                                                                         *)
(* A firmware command is accepted, refused cleanly, or its answer is lost  *)
(* (a timeout, a removal, a malformed answer): then the card may or may    *)
(* not have carried it out, and the transport is quarantined. An operator  *)
(* that sends commands is the set of its outcomes, [ok, h]: ok is what the *)
(* C++ function returns. A refusal also stands for the failures of the     *)
(* host at that point: an allocation, a reply that does not validate.      *)
(***************************************************************************)
EXTENDS Naturals, FiniteSets, Sequences

CONSTANTS
    BootPages, InitPages,  \* the pages the firmware asks for in the two phases
    BATCH,                 \* pages in one MANAGE_PAGES command: 256
    ATTEMPTS,              \* UARs tried for one off the control page: 5
    InitialFrame,          \* the frame size the card has when the driver starts
    MaxRefusals,           \* bound: clean refusals
    MaxLosses              \* bound: commands whose answer is lost

ASSUME HcaAssumption == /\ {BATCH, ATTEMPTS, InitialFrame, MaxRefusals, MaxLosses} \subseteq Nat
                        /\ BATCH > 0 /\ ATTEMPTS > 0
                        /\ IsFiniteSet(BootPages \cup InitPages) /\ BootPages \cap InitPages = {}

NewHca == [gone |-> FALSE, inactive |-> FALSE, attached |-> FALSE, bound |-> FALSE,
           enabled |-> FALSE, initialized |-> FALSE, quarantined |-> FALSE,
           resources |-> 0, live |-> {}, mem |-> {}, given |-> {}, mtu |-> 0,
           refusals |-> 0, losses |-> 0,
           fw |-> [bound |-> FALSE, enabled |-> FALSE, initialized |-> FALSE, pages |-> {},
                   objs |-> {}, dma |-> {}, port |-> InitialFrame, vport |-> InitialFrame]]

Ok(h) == {[ok |-> TRUE, h |-> h]}
Fail(h) == {[ok |-> FALSE, h |-> h]}
\* a && b, and what is done when a fails
Then(outcomes, F(_)) == UNION {IF r.ok THEN F(r.h) ELSE {r} : r \in outcomes}
Else(outcomes, F(_)) == UNION {IF r.ok THEN {r} ELSE F(r.h) : r \in outcomes}

-----------------------------------------------------------------------------
(* kernel_transport.cpp                                                    *)

Detached(h) == ~h.attached \/ h.gone
Ready(h) == h.bound /\ ~h.quarantined /\ h.attached /\ ~h.inactive
Quarantine(h) == [h EXCEPT !.quarantined = TRUE]

\* Commands: what the card does on each.
Query == [op |-> "query"]
Command(op, arg) == [op |-> op, arg |-> arg]
Card(fw, cmd) ==
    CASE cmd.op = "enable" -> [fw EXCEPT !.enabled = cmd.arg]
      [] cmd.op = "init" -> [fw EXCEPT !.initialized = cmd.arg]
      [] cmd.op = "give" -> [fw EXCEPT !.pages = @ \cup cmd.arg]
      [] cmd.op = "take" -> [fw EXCEPT !.pages = @ \ cmd.arg]
      [] cmd.op = "create" -> [fw EXCEPT !.objs = @ \cup {cmd.arg.id}, !.dma = @ \cup cmd.arg.dma]
      [] cmd.op = "destroy" -> [fw EXCEPT !.objs = @ \ {cmd.arg}, !.dma = @ \ {cmd.arg}]
      [] cmd.op = "port" -> [fw EXCEPT !.port = cmd.arg]
      [] cmd.op = "vport" -> [fw EXCEPT !.vport = cmd.arg]
      [] OTHER -> fw

Accepted(h, cmd) == [h EXCEPT !.fw = Card(@, cmd),
                              !.enabled = IF cmd.op = "enable" THEN cmd.arg ELSE @,
                              !.initialized = IF cmd.op = "init" THEN cmd.arg ELSE @]
Refuse(h) == IF h.refusals < MaxRefusals THEN Fail([h EXCEPT !.refusals = @ + 1]) ELSE {}
\* the answer is lost, whether or not the card did it
Lose(h, cmd) ==
    IF h.losses < MaxLosses
    THEN UNION {Fail(Quarantine([h EXCEPT !.fw = f, !.losses = @ + 1])) : f \in {h.fw, Card(h.fw, cmd)}}
    ELSE {}
\* a setting accepted and not taken over, found by reading it back
Ignore(h, cmd) == IF cmd.op \in {"port", "vport"} /\ h.refusals < MaxRefusals
                  THEN Ok([h EXCEPT !.refusals = @ + 1]) ELSE {}
Execute(h, cmd) == IF ~Ready(h) THEN Fail(h)
                   ELSE IF h.gone THEN Fail(Quarantine(h))
                   ELSE Ok(Accepted(h, cmd)) \cup Refuse(h) \cup Lose(h, cmd) \cup Ignore(h, cmd)

\* Transport::attach opens the PCI function; what it fails on, it closes again.
Attach(h) == IF h.gone THEN Fail(h) ELSE Ok([h EXCEPT !.attached = TRUE]) \cup Refuse(h)
\* Transport::open: a queue of its own, unless another driver's is programmed.
Open(h) ==
    IF Detached(h) \/ "queue" \in h.mem \/ h.quarantined THEN Fail(h)
    ELSE LET g == [h EXCEPT !.mem = @ \cup {"queue"}]
             b == [g EXCEPT !.fw.bound = TRUE, !.bound = TRUE]
         IN Refuse(h) \cup Refuse(g) \cup Ok(b) \cup Refuse(b)

\* Transport::close gives the function back, if nothing can still be in use.
Close(h) ==
    IF h.resources # 0 \/ (~Detached(h) /\ (h.quarantined \/ h.enabled \/ h.initialized)) THEN Fail(h)
    ELSE LET g == IF Detached(h) THEN h ELSE [h EXCEPT !.fw.bound = FALSE]
         IN Ok([g EXCEPT !.mem = @ \ {"queue"}, !.attached = FALSE, !.bound = FALSE,
                         !.enabled = FALSE, !.initialized = FALSE, !.quarantined = FALSE])
            \cup (IF Detached(h) THEN {} ELSE Refuse(h))

-----------------------------------------------------------------------------
(* kernel_hca.cpp: objects and pages                                       *)

\* Hca::create; dma: the memory the object lets the card use
Create(h, id, dma) ==
    IF id \in h.live THEN Fail(h)
    ELSE Then(Execute(h, Command("create", [id |-> id, dma |-> dma])),
              LAMBDA g : Ok([g EXCEPT !.live = @ \cup {id}, !.resources = @ + 1]))
Dropped(h, id) == [h EXCEPT !.live = @ \ {id}, !.resources = @ - 1]
Destroy(h, id) == IF id \notin h.live THEN Ok(h)
                  ELSE IF Detached(h) THEN Ok(Dropped(h, id))
                  ELSE Then(Execute(h, Command("destroy", id)), LAMBDA g : Ok(Dropped(g, id)))
Release(h, m) == [h EXCEPT !.mem = @ \ {m}]

\* mutant: the memory is let go whatever happened
CreateReleases(h, id) ==
    Refuse(h) \cup Else(Create([h EXCEPT !.mem = @ \cup {id}], id, {id}),
                        LAMBDA g : Fail(Release(g, id)))
\* One object with memory of its own: create_cq, create_qp, RegisteredMemory::create.
CreateWithMemory(h, id) ==
    Refuse(h) \cup Else(Create([h EXCEPT !.mem = @ \cup {id}], id, {id}),
                        LAMBDA g : Fail(IF g.quarantined THEN g ELSE Release(g, id)))

SmallestBatch(pages) == IF Cardinality(pages) < BATCH THEN Cardinality(pages) ELSE BATCH
RECURSIVE GiveAll(_, _)
GiveAll(h, left) ==
    IF left = {} THEN Ok(h)
    ELSE LET batch == CHOOSE b \in SUBSET left : Cardinality(b) = SmallestBatch(left)
         IN Then(Execute(h, Command("give", batch)),
                 LAMBDA g : GiveAll([g EXCEPT !.given = @ \cup batch], left \ batch))
Provide(h, pool, pages) ==
    Then(Execute(h, Query),
         LAMBDA g : Refuse(g) \cup
                    (IF pages = {} THEN Ok(g) ELSE GiveAll([g EXCEPT !.mem = @ \cup {pool}], pages)))

\* The firmware returns up to a batch of pages, of either pool.
RECURSIVE Reclaim(_, _)
Reclaim(h, pages) ==
    LET owned == h.given \cap pages
        Back == {b \in SUBSET h.fw.pages : Cardinality(b) \in 1..SmallestBatch(owned)}
        Taken(b) == Then(Execute(h, Command("take", b)),
                         LAMBDA g : Reclaim([g EXCEPT !.given = @ \ b], pages))
    IN IF owned = {} THEN Ok(h)
       ELSE IF h.quarantined THEN Fail(h)
       ELSE UNION {Taken(b) : b \in Back}

-----------------------------------------------------------------------------
(* kernel_hca.cpp: starting and the MTU                                    *)

\* The UAR loop of Hca::start: an id on the control page is held, and another one tried.
Held == <<"held1", "held2", "held3", "held4">>
RECURSIVE FirstUar(_, _)
FirstUar(h, attempt) ==
    Then(Create(h, "uar", {}),
         LAMBDA g : Ok(g) \cup
             (IF g.refusals = MaxRefusals THEN {}
              ELSE LET aside == [g EXCEPT !.live = (@ \ {"uar"}) \cup {Held[attempt]},
                                          !.fw.objs = (@ \ {"uar"}) \cup {Held[attempt]},
                                          !.refusals = @ + 1]
                   IN IF attempt = ATTEMPTS THEN Fail(g) ELSE FirstUar(aside, attempt + 1))
             \cup (IF attempt > 1 /\ g.losses < MaxLosses     \* an id that is already held
                   THEN Fail(Quarantine([g EXCEPT !.losses = @ + 1])) ELSE {}))

Port(bytes) == Command("port", bytes)
Vport(bytes) == Command("vport", bytes)
\* write the port's and the vport's frame size, and read both back
SetMtu(h, port, vport) ==
    Then(Then(Then(Execute(h, Port(port)), LAMBDA a : Execute(a, Vport(vport))),
              LAMBDA b : Execute(b, Query)),
         LAMBDA d : IF d.fw.port = port /\ d.fw.vport = vport THEN Ok(d) ELSE Fail(d))
\* mutant: a restore that fails is not noticed
RestoreMtuHopes(h, before) ==
    IF h.quarantined THEN Fail(h)
    ELSE UNION {Fail(r.h) : r \in SetMtu(h, before.port, before.vport)}
RestoreMtu(h, before) ==
    IF h.quarantined THEN Fail(h)
    ELSE UNION {Fail(IF r.ok THEN r.h ELSE Quarantine(r.h)) : r \in SetMtu(h, before.port, before.vport)}
ConfigureMtu(h, bytes) ==
    IF ~Ready(h) \/ ~h.initialized THEN Fail(h)
    ELSE Then(Execute(h, Query),
              LAMBDA g : Refuse(g) \cup
                  Else(Then(SetMtu(g, bytes + 22, bytes + 22),
                            LAMBDA d : Ok([d EXCEPT !.mtu = bytes]) \cup Refuse(d)),
                       LAMBDA d : RestoreMtu(d, g.fw)))

\* configure_roce: the vport's address, RoCE, the source GID and the port, then the MTU. Its
\* first commands change nothing modelled here and are taken as one.
ConfigureRoce(h) == Then(Execute(h, Query), LAMBDA g : ConfigureMtu(g, 1500))
\* port_active, and the PCIe counters: commands that only ask
PortActive(h) == IF Ready(h) /\ h.initialized THEN Execute(h, Query) ELSE Fail(h)

\* Hca::start, and the driver's jumbo frames, function by function. Whether the UAR pages could
\* be made larger (configure_uar_pages) decides nothing; if its answer is lost, the next step's
\* first command might as well have been.
Start(h, step) ==
    CASE step = "attach" -> Attach(h)
      [] step = "open" -> Open(h)
      [] step = "enable" -> Execute(h, Command("enable", TRUE))
      [] step = "boot" -> Provide(h, "boot", BootPages)
      [] step = "initial" -> Provide(h, "initial", InitPages)
      [] step = "init" -> Execute(h, Command("init", TRUE))
      [] step = "uar" -> FirstUar(h, 1)
      [] step = "eq" -> Refuse(h) \cup Create([h EXCEPT !.mem = @ \cup {"eq"}], "eq", {"eq"})
      [] step = "roce" -> ConfigureRoce(h)
      [] step = "jumbo" -> ConfigureMtu(h, 9000)

\* Hca::stop. It refuses while a client's object is counted.
Owned == {"uar", "eq"} \cup {Held[i] : i \in 1..4}
RECURSIVE DestroyHeld(_, _)
DestroyHeld(h, i) == IF i > 4 THEN Ok(h) ELSE Then(Destroy(h, Held[i]), LAMBDA g : DestroyHeld(g, i + 1))
\* mutant: the initial pages are fetched only from a card that was initialized
TearDownInitialized(h) ==
    IF h.quarantined THEN Fail(h)
    ELSE Then(Then(IF h.initialized THEN Then(Execute(h, Command("init", FALSE)), LAMBDA a : Reclaim(a, InitPages))
                                    ELSE Ok(h),
                   LAMBDA b : Reclaim(b, BootPages)),
              LAMBDA d : IF d.enabled THEN Execute(d, Command("enable", FALSE)) ELSE Ok(d))
TearDown(h) ==
    IF h.quarantined THEN Fail(h)
    ELSE Then(Then(Then(IF h.initialized THEN Execute(h, Command("init", FALSE)) ELSE Ok(h),
                        LAMBDA a : Reclaim(a, InitPages)),
                   LAMBDA b : Reclaim(b, BootPages)),
              LAMBDA d : IF d.enabled THEN Execute(d, Command("enable", FALSE)) ELSE Ok(d))
Stop(h, step) ==
    CASE step = "eq" -> IF h.resources > Cardinality(h.live \cap Owned) THEN Fail(h) ELSE Destroy(h, "eq")
      [] step = "uar" -> Then(Destroy(h, "uar"), LAMBDA g : DestroyHeld(g, 1))
      [] step = "down" -> IF Detached(h) THEN Ok(h) ELSE TearDown(h)
      [] step = "close" -> Close([h EXCEPT !.mem = @ \ {"eq", "initial", "boot"}])
============================================================================
