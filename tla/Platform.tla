------------------------------- MODULE Platform -------------------------------
(***************************************************************************)
(* The simulated confidential-computing platform of internal/tee/tee.go:   *)
(* it launches images as enclaves, measures them, seals state for them,    *)
(* counts for them and signs quotes about them.  The host runs and stops   *)
(* enclaves, keeps the sealed blobs, and may write any header in front of  *)
(* one or damage it.                                                       *)
(*                                                                         *)
(* A platform is its root key and its sealing secret.  AES-GCM is ideal: a *)
(* blob opens under the key and the associated data it was sealed with,    *)
(* undamaged, and in no other way.                                         *)
(***************************************************************************)
EXTENDS Encodings, FiniteSets, TLC

CONSTANTS
  Platforms,
  Images,          \* records of texts: signer, engineVersion, policy
  CounterNames,
  Statements,      \* what enclaves come to sign
  TcbOf            \* [Platforms -> Nat]

\* A budget bounds the enclaves at a time, all increments, the blobs with the
\* altered ones, and the signatures.
ASSUME PlatformAssumption ==
  /\ TcbOf \in [Platforms -> Nat]
  /\ \A g \in Budgets : {g.running, g.increments, g.blobs, g.signed} \subseteq Nat

ASSUME ImagesAssumption == \A img \in Images : IsImage(img)

ASSUME StatementsAssumption == \A s \in Statements : IsStatement(s)

VARIABLES
  running,     \* the enclaves; one is all there is to a platform and an image
  counters,    \* per platform: the counters that were ever advanced
  blobs,       \* sealed blobs, in the host's hands
  signed,      \* digests that were signed, each with its statement
  increments   \* history: [platform, image, name] of each increment, in order

platformVars == <<running, counters, blobs, signed, increments>>

Enclaves == [platform : Platforms, image : Images]

PInit ==
  /\ running = {}
  /\ counters = [p \in Platforms |-> <<>>]
  /\ blobs = {}
  /\ signed = {}
  /\ increments = <<>>

Launch(e) ==
  /\ Cardinality(running) < budget.running
  /\ running' = running \cup {e}
  /\ UNCHANGED <<counters, blobs, signed, increments>>

\* Nothing is left of a stopped enclave but counters and blobs.
Stop(e) ==
  /\ running' = running \ {e}
  /\ UNCHANGED <<counters, blobs, signed, increments>>

-----------------------------------------------------------------------------
(* Counters. *)

\* A slip: a counter belongs to whoever knows its name.
counterKeyByName(e, name) == [name |-> name]

counterKey(e, name) == [owner |-> Measure(e.image), name |-> name]

CounterRead(e, name) ==
  LET own == counters[e.platform]
      key == counterKey(e, name)
  IN  IF key \in DOMAIN own THEN own[key] ELSE 0

CounterIncrement(e, name) ==
  /\ Len(increments) < budget.increments
  /\ counters' = [counters EXCEPT ![e.platform] =
                    [key \in DOMAIN @ \cup {counterKey(e, name)} |->
                       IF key = counterKey(e, name) THEN CounterRead(e, name) + 1 ELSE @[key]]]
  /\ increments' = Append(increments, [by |-> e, name |-> name])
  /\ UNCHANGED <<running, blobs, signed>>

-----------------------------------------------------------------------------
(* Sealing. *)

SealToMeasurement == 1
SealToSigner      == 2
SealPolicies      == {SealToMeasurement, SealToSigner}

\* A slip: the platform's secret is no part of the key.
sealingKeyPortable(e, policy) ==
  [identity |-> IF policy = SealToSigner THEN SignerIdentity(e.image.signer)
                ELSE BuildIdentity(Measure(e.image))]

sealingKey(e, policy) ==
  [secret   |-> e.platform,
   identity |-> IF policy = SealToSigner THEN SignerIdentity(e.image.signer)
                ELSE BuildIdentity(Measure(e.image))]

\* Seal; an unknown policy is an error and leaves nothing behind.
Seal(e, policy) ==
  /\ Cardinality(blobs) < budget.blobs
  /\ blobs' = blobs \cup
       {[header |-> policy, key |-> sealingKey(e, policy), aad |-> policy, intact |-> TRUE,
         by |-> e, policy |-> policy]}
  /\ UNCHANGED <<running, counters, signed, increments>>

\* The host passes a blob on under another header, known or not, or damaged.
HostRelabels(b, header) ==
  /\ Cardinality(blobs) < budget.blobs
  /\ blobs' = blobs \cup {[b EXCEPT !.header = header]}
  /\ UNCHANGED <<running, counters, signed, increments>>

HostDamages(b) ==
  /\ Cardinality(blobs) < budget.blobs
  /\ blobs' = blobs \cup {[b EXCEPT !.intact = FALSE]}
  /\ UNCHANGED <<running, counters, signed, increments>>

\* Unseal returns the plaintext; everything else is ErrUnseal.
Unseals(e, b) ==
  /\ b.header \in SealPolicies
  /\ b.key = sealingKey(e, b.header)
  /\ b.aad = b.header
  /\ b.intact

-----------------------------------------------------------------------------
(* Signatures. *)

\* Quote signs with the platform's root key, Engine.Sign and Decide with the
\* engine's, which also speaks for the log.
Sign(e, s) ==
  /\ Cardinality(signed) < budget.signed
  /\ s.kind = "quote" => s.image = e.image /\ s.tcb = TcbOf[e.platform]
  /\ signed' = signed \cup {[digest |-> SignedBytes(s), statement |-> s]}
  /\ UNCHANGED <<running, counters, blobs, increments>>

PNext ==
  \/ \E e \in Enclaves : Launch(e)
  \/ \E e \in running :
       \/ Stop(e)
       \/ \E name \in CounterNames : CounterIncrement(e, name)
       \/ \E policy \in SealPolicies : Seal(e, policy)
       \/ \E s \in Statements : Sign(e, s)
  \/ \E b \in blobs : HostDamages(b) \/ \E header \in 0 .. 3 : HostRelabels(b, header)

Init == CInit /\ PInit

Next ==
  \/ CNext /\ UNCHANGED platformVars
  \/ PNext /\ UNCHANGED canonVars

Spec == Init /\ [][Next]_<<canonVars, platformVars>>

-----------------------------------------------------------------------------

\* A blob is readable where its policy says and nowhere else: on the platform
\* that sealed it, by the same build or by any build of the same signer, under
\* the policy it was sealed with, undamaged.  Images whose fields run together to
\* the same text are different builds; unsigned ones share the empty signer.
UnsealDecides ==
  \A e \in running, b \in blobs :
    Unseals(e, b) <=>
      /\ b.intact /\ b.header = b.policy
      /\ e.platform = b.by.platform
      /\ IF b.policy = SealToSigner THEN e.image.signer = b.by.image.signer
                                    ELSE e.image = b.by.image

\* A counter counts exactly what enclaves of its image did under its name on its
\* platform, through stops and relaunches: no other workload reads or advances it.
CountersCount ==
  \A e \in running, name \in CounterNames :
    CounterRead(e, name) =
      Cardinality({k \in DOMAIN increments : increments[k] = [by |-> e, name |-> name]})

\* What a verifier computes from each statement it may be presented with.
DigestOf == [t \in Statements |-> SignedBytes(t)]

\* A signature holds for the statement it was made for, in whichever order its sets
\* are written, and for no other: of any kind, with any part altered or dropped,
\* with fields shifted into each other, or about another image, request or entry.
SignatureMeansStatement ==
  \A g \in signed, t \in Statements :
    g.digest = DigestOf[t] <=> SameStatement(g.statement, t)
=============================================================================
