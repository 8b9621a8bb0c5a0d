------------------------- MODULE MCCrossOwnerWrite -------------------------
(***************************************************************************)
(* CrossOwnerWrite with two non-owners, a mutation of two fields and one   *)
(* edit by somebody else.                                                  *)
(***************************************************************************)
EXTENDS CrossOwnerWrite

CONSTANTS u1, u2

MCUnits == {u1, u2}

\* A field may be as the owner left it, not exist, or already hold what will be written.
MCInitial == {[name |-> "original", price |-> "original"],
              [name |-> "original", price |-> "absent"],
              [name |-> "original", price |-> "written"]}
=============================================================================
