-------------------------- MODULE MCCrossOwnerRead --------------------------
(***************************************************************************)
(* CrossOwnerRead on two identities and two fixtures. alice owns the order *)
(* and bob the invoice; u1 asks for the order as bob, u2 for the invoice   *)
(* as alice, so each identity is owner in one unit and non-owner in the    *)
(* other and a unit may suspect an identity another unit is using. Only    *)
(* bob has a canary.                                                       *)
(***************************************************************************)
EXTENDS CrossOwnerRead, TLC

CONSTANTS alice, bob, u1, u2, engineRun

MCIdentities == {alice, bob}
MCMonitored == {bob}
MCFixtures == {"order", "invoice"}
MCOwnerOf == ("order" :> alice) @@ ("invoice" :> bob)
MCCached == {"order"}
MCShared == {"invoice"}
MCUnits == {u1, u2}
MCFixtureOf == (u1 :> "order") @@ (u2 :> "invoice")
MCNonOwnerOf == (u1 :> bob) @@ (u2 :> alice)
=============================================================================
