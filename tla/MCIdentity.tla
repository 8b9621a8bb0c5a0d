----------------------------- MODULE MCIdentity -----------------------------
(***************************************************************************)
(* Identity on one identity with a canary, one whose credential was never  *)
(* resolved, and three goroutines. Identities share nothing but their      *)
(* callers' attention, so one is enough for the races.                     *)
(***************************************************************************)
EXTENDS Identity, TLC

CONSTANTS alice, bob, w1, w2, w3

MCIdentities == {alice, bob}
MCUnresolved == {bob}
MCCallers == {w1, w2, w3}
=============================================================================
