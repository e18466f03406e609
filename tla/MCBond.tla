------------------------------- MODULE MCBond -------------------------------
(* Bond on small instances. *)
EXTENDS BondInv, BondPromise

\* Two payload cells and one flag cell, which a payload may also cover.
MCPayloads == {<<0, 1>>, <<0, 2>>}
MCWords == {1}
=============================================================================
