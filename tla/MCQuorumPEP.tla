----------------------------- MODULE MCQuorumPEP -----------------------------
(* Small instances of QuorumPEP for TLC. *)
EXTENDS QuorumPEP, TLC

CONSTANTS g1, g2, c1, q, e1, e2, e3, r1, r2, m1, m2, vendor

TwoMembers == <<g1, g2>>

\* e1 and e2 are of one build, e3 is of another one that judges r2 differently.
Measures == [e \in Engines |-> IF e = e3 THEN m2 ELSE m1]
Unsigned == [e \in Engines |-> NoBuild]
Anchors  == [e \in Engines |-> vendor]
Patches  == [e \in Engines |-> 1]
Judges   == [e \in Engines |-> [r \in Requests |-> IF e = e3 /\ r = r2 THEN "deny" ELSE "allow"]]
Hashed   == [r \in Requests |-> r]

\* A bound: builds are endorsed before the first call.  They are revoked at any time.
EndorsedFirst == calls > 0 => verifier.refs = Measurements
=============================================================================
