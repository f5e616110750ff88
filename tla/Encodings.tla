------------------------------ MODULE Encodings -------------------------------
(***************************************************************************)
(* What the program hashes and signs, field by field: images, sealing      *)
(* identities, quotes, requests, decisions, log entries and checkpoints.   *)
(* A statement is held with what its digests stand for: a quote with the   *)
(* image, a decision with the request, a checkpoint with its last entry.   *)
(*                                                                         *)
(* A domain label is a number.  Go's strings are texts of Canon.           *)
(***************************************************************************)
EXTENDS Canon

Domain(n) == New(<<Octet(n)>>)

\* Measure.
Measure(img) ==
  Sum(Domain(1) \o String(img.signer) \o String(img.engineVersion) \o Bytes(img.policy))

\* The identities that sealing keys are derived from.
SignerIdentity(signer) == Sum(Domain(2) \o String(signer))
BuildIdentity(measurement) == Sum(Domain(3) \o Raw32(measurement))

\* KeyBinding: a commitment to the key, which is hashed unframed, and the nonce.
KeyBinding(pub, nonce) == <<Sum(pub), nonce>>

\* Quote.SignedBytes.
QuoteDigest(q) ==
  Sum(Domain(4) \o Raw32(Measure(q.image)) \o String(q.image.signer)
        \o Bytes(KeyBinding(q.pub, q.nonce)) \o Uint64(q.tcb))

\* Roles and masked fields are sets, in whatever order and however often they are
\* written; an empty name is none.
Members(list) == ToSet(list) \ {<<>>}

\* normalizeSet: sorting is some order, the same for equal sets.
normalizeSet(list) == SetToSeq(Members(list))

\* HashRequest.
HashRequest(r) ==
  Sum(Domain(5) \o String(r.id) \o Strings(normalizeSet(r.roles)) \o String(r.auth)
        \o Bool(r.managed) \o Bool(r.patched) \o Bool(r.encrypted)
        \o String(r.name) \o Uint64(r.sensitivity) \o String(r.network))

\* A slip: the session's bound is left out.
hashObligationsUnbounded(h, o) ==
  h \o Bool(o.readOnly) \o Uint64(o.reauth) \o Strings(normalizeSet(o.mask))

\* Obligations.hash writes to a hasher that has absorbed h.
hashObligations(h, o) ==
  h \o Bool(o.readOnly) \o Uint64(o.reauth) \o Uint64(o.ttl) \o Strings(normalizeSet(o.mask))

\* Decision.SignedBytes.
DecisionDigest(d) ==
  Sum(hashObligations(Domain(6) \o Bool(d.allow) \o String(d.ruleID) \o String(d.reason)
                        \o String(d.policyVersion), d.obligations)
        \o Raw32(HashRequest(d.request)) \o Raw32(d.nonce))

\* DecisionHash; an ideal signature is one symbol.
DecisionHash(d) == Sum(Domain(7) \o Bytes(<<DecisionDigest(d)>>) \o Bytes(<<d.signature>>))

\* Entry.ComputeHash.
ComputeHash(e) ==
  Sum(Domain(8) \o Uint64(e.seq) \o Raw32(e.prevHash) \o Bool(e.decision.allow)
        \o String(e.decision.ruleID) \o String(e.decision.policyVersion)
        \o Raw32(HashRequest(e.decision.request)) \o Raw32(DecisionHash(e.decision)))

\* Checkpoint.SignedBytes.
CheckpointDigest(c) ==
  Sum(Domain(9) \o String(c.policyVersion) \o Uint64(c.count) \o Raw32(ComputeHash(c.last))
        \o Uint64(c.counter))

\* What is signed for a statement.
SignedBytes(s) ==
  CASE s.kind = "quote"      -> QuoteDigest(s)
    [] s.kind = "decision"   -> DecisionDigest(s)
    [] s.kind = "checkpoint" -> CheckpointDigest(s)

-----------------------------------------------------------------------------
(* What statements consist of, and what they say. *)

IsImage(img) ==
  /\ img = [signer |-> img.signer, engineVersion |-> img.engineVersion, policy |-> img.policy]
  /\ \A s \in {img.signer, img.engineVersion, img.policy} : IsText(s)

IsQuote(q) ==
  /\ q = [kind |-> q.kind, image |-> q.image, tcb |-> q.tcb, pub |-> q.pub, nonce |-> q.nonce]
  /\ IsImage(q.image) /\ q.tcb \in Uints

IsRequest(r) ==
  /\ r = [id |-> r.id, roles |-> r.roles, auth |-> r.auth, managed |-> r.managed,
          patched |-> r.patched, encrypted |-> r.encrypted, name |-> r.name,
          sensitivity |-> r.sensitivity, network |-> r.network]
  /\ IsText(r.roles)
  /\ \A s \in {r.id, r.auth, r.name, r.network} \cup Range(r.roles) : IsText(s)
  /\ {r.managed, r.patched, r.encrypted} \subseteq BOOLEAN /\ r.sensitivity \in Uints

IsObligations(o) ==
  /\ o = [readOnly |-> o.readOnly, reauth |-> o.reauth, ttl |-> o.ttl, mask |-> o.mask]
  /\ o.readOnly \in BOOLEAN /\ {o.reauth, o.ttl} \subseteq Uints
  /\ IsText(o.mask) /\ \A s \in Range(o.mask) : IsText(s)

IsDecision(d) ==
  /\ d.allow \in BOOLEAN /\ \A s \in {d.ruleID, d.reason, d.policyVersion} : IsText(s)
  /\ IsObligations(d.obligations) /\ IsRequest(d.request)

IsCheckpoint(c) ==
  /\ IsText(c.policyVersion) /\ {c.count, c.counter, c.last.seq} \subseteq Uints
  /\ IsDecision(c.last.decision)

IsStatement(s) ==
  \/ s.kind = "quote" /\ IsQuote(s)
  \/ s.kind = "decision" /\ IsDecision(s)
  \/ s.kind = "checkpoint" /\ IsCheckpoint(s)

\* A decision says the same whoever signed it.
Said(d) ==
  <<d.allow, d.ruleID, d.reason, d.policyVersion, d.nonce,
    [d.obligations EXCEPT !.mask = Members(@)], [d.request EXCEPT !.roles = Members(@)]>>

\* A checkpoint's last entry is a signed decision.
Attested(c) ==
  <<c.policyVersion, c.count, c.counter, c.last.seq, c.last.prevHash,
    Said(c.last.decision), c.last.decision.signature>>

SameStatement(s, t) ==
  \/ s.kind = "quote" /\ s = t
  \/ s.kind = "decision" /\ t.kind = "decision" /\ Said(s) = Said(t)
  \/ s.kind = "checkpoint" /\ t.kind = "checkpoint" /\ Attested(s) = Attested(t)
=============================================================================
