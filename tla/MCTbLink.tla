------------------------------ MODULE MCTbLink ------------------------------
(* TbLink on small instances. *)
EXTENDS TbLink

\* Bytes of two packets whose last has a length no header message has.
MCJobs == {Job("inline", 0, "inline"), Job("write", 2, "odd"), Job("write_signal", 2, "odd")}
MCWrites == {Job("write", 2, "odd")}
\* A try that crosses the end of a registered segment is two messages.
MCTries == {<<Job("inline", 0, "inline"), Job("inline", 0, "inline")>>}
MCNone == {}

Both(n, m) == [e \in Ends |-> IF e = 0 THEN n ELSE m]
MCTwo   == Both(2, 0)
MCOne   == Both(1, 0)
MCEach  == Both(1, 1)
=============================================================================
