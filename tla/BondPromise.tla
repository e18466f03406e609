---------------------------- MODULE BondPromise -----------------------------
(***************************************************************************)
(* What the bond owes its callers: the promise of FabricWindow, with the   *)
(* bond's history of calls, and the order of publication and later copies. *)
(***************************************************************************)
EXTENDS Bond

\* The latest signal whose word is stored, by call.
Published ==
    LET n == IF \E k \in Lanes : at[k] = "storing" THEN rx_signal ELSE rx_signal - 1
    IN  IF n = 0 THEN 0 ELSE signals[n].call

Window == INSTANCE FabricWindow WITH published <- Published



=============================================================================
