------------------------------ MODULE MCEngine ------------------------------
(***************************************************************************)
(* Engine on one operation check and three cross-owner units. Units 2 and  *)
(* 3 share a fixture and a ledger key (two non-owners of one resource);    *)
(* unit 4 has a fixture of its own.                                        *)
(***************************************************************************)
EXTENDS Engine, TLC

MCFixtures == {"order", "invoice"}
MCFixtureOf == (2 :> "order") @@ (3 :> "order") @@ (4 :> "invoice")
MCUnstorable == {3}
MCKeyOf == (1 :> "auth/order") @@ (2 :> "read/order") @@ (3 :> "read/order")
           @@ (4 :> "read/invoice")

Result(disp, cause, finding, relied, failed) ==
  [disp |-> disp, cause |-> cause, finding |-> finding, relied |-> relied, failed |-> failed]

\* A confirmed finding, a boundary that held, a dead network.
MCResults ==
  {Result("executed", "none", "confirmed", TRUE, TRUE),
   Result("executed", "none", "none", TRUE, FALSE),
   Result("blocked", "transport_error", "none", FALSE, FALSE)}
=============================================================================
