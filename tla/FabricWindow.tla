---------------------------- MODULE FabricWindow ----------------------------
(***************************************************************************)
(* What libmcdma-fabric promises a receiver about the window one peer      *)
(* writes into (rpc/mcdma_fabric.h, docs/fabric.md): writes land in any    *)
(* order except that overlapping ones keep later-write-wins, a signal is   *)
(* stored after every earlier write has landed and after every earlier     *)
(* signal, and a flush returns once everything before it has landed.       *)
(* Nothing here knows of lanes, queues or threads.                         *)
(***************************************************************************)
EXTENDS Integers, Sequences, FiniteSetsExt

CONSTANT W   \* cells of the window

VARIABLES
    calls,      \* the calls made: interval [off, end) written, word signalled
    mem,        \* mem[c]: the number of the call cell c holds
    published,  \* the latest call whose signal is stored
    flushed,    \* the calls made before the latest flush that returned
    down        \* the peer has failed

vars == <<calls, mem, published, flushed, down>>

Cells  == 0 .. W - 1
NoWord == W

Payload(i) == calls[i].off .. calls[i].end - 1
Signals(i) == calls[i].word # NoWord

\* The latest of the first n calls to write or signal cell c.
Last(c, n) == Max({0} \cup {i \in 1 .. n : c \in Payload(i) \/ c = calls[i].word})

Init == /\ calls = <<>>
        /\ mem = [c \in Cells |-> 0]
        /\ published = 0 /\ flushed = 0
        /\ down = FALSE

Call == /\ ~down
        /\ \E off, end \in 0 .. W, word \in 0 .. W :
             /\ off < end \/ word # NoWord
             /\ calls' = Append(calls, [off |-> off, end |-> end, word |-> word])
        /\ UNCHANGED <<mem, published, flushed, down>>

\* Bytes of call i land; they never replace those of a later call.
Land(i) ==
    /\ ~down
    /\ \E S \in SUBSET Payload(i) :
         /\ \A c \in S : mem[c] <= i
         /\ mem' = [c \in Cells |-> IF c \in S THEN i ELSE mem[c]]
    /\ UNCHANGED <<calls, published, flushed, down>>

\* Call i's signal: the next in call order, every cell up to date with the
\* calls before it and with its own bytes, its word not yet overwritten.
Publish(i) ==
    /\ ~down
    /\ Signals(i) /\ i > published
    /\ \A j \in published + 1 .. i - 1 : ~Signals(j)
    /\ \A c \in Cells : mem[c] >= Last(c, i - 1)
    /\ \A c \in Payload(i) : mem[c] >= i
    /\ mem[calls[i].word] <= i
    /\ mem' = [mem EXCEPT ![calls[i].word] = i]
    /\ published' = i
    /\ UNCHANGED <<calls, flushed, down>>

\* A flush returns: every cell holds its latest call.
Flush ==
    /\ \A c \in Cells : mem[c] = Last(c, Len(calls))
    /\ flushed' = Len(calls)
    /\ UNCHANGED <<calls, mem, published, down>>

Fail == /\ down' = TRUE
        /\ UNCHANGED <<calls, mem, published, flushed>>

Next == \/ Call \/ Flush \/ Fail
        \/ \E i \in 1 .. Len(calls) : Land(i) \/ Publish(i)

Spec == Init /\ [][Next]_vars
=============================================================================
