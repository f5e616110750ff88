------------------------------ MODULE MCGateway ------------------------------
(* Small instances of Gateway for TLC. *)
EXTENDS Gateway, TLC

CONSTANTS g1, g2, c1, c2, c3, e1, e2, e3, r1, r2, r3, m1, m2, s1, vendor, forger

\* e1 runs a build that may be endorsed, e2 (where the sets allow) one that may be endorsed by
\* its signer, and e3 claims the first build on a platform of no trusted root.
Measures == [e \in Engines |-> IF e = e2 /\ m2 \in Measurements THEN m2 ELSE m1]
Signs    == [e \in Engines |-> IF e = e2 /\ s1 \in Signers THEN s1 ELSE NoBuild]
Anchors  == [e \in Engines |-> IF e = e3 THEN forger ELSE vendor]
Patches  == [e \in Engines |-> IF e = e2 THEN 2 ELSE 1]

\* r3 is r1 with an empty role: it has r1's hash and is malformed.
Sound  == Requests \ {r3}
Hashed == [r \in Requests |-> IF r = r3 THEN r1 ELSE r]
Judges == [e \in Engines |-> [r \in Requests |->
             IF r \in Sound /\ (e = e3 \/ r = r1) THEN "allow" ELSE "deny"]]

Interchangeable == Permutations(Callers)
=============================================================================
