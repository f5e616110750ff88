------------------------------ MODULE AuditChain ------------------------------
(***************************************************************************)
(* The hash chain of internal/audit/audit.go as pure operators: how an     *)
(* entry is linked to its predecessor, and what an auditor accepts.        *)
(*                                                                         *)
(* SHA-256 is ideal: the hash of an entry IS what it commits to.  A chain  *)
(* hash is the sequence of the commitments up to and including its entry,  *)
(* so two hashes are equal exactly when their inputs are, and a value that *)
(* is not such a sequence is a hash nobody computed.  Allow, RuleID,       *)
(* PolicyVersion, RequestHash and DecisionHash enter the hash together and *)
(* are read by nothing else, so one value, the decision, stands for them.  *)
(*                                                                         *)
(* A signature is ideal too: a checkpoint carries the key that signed its  *)
(* content, and Ed25519 verification accepts it under that key only.       *)
(***************************************************************************)
EXTENDS Integers, Sequences

ZeroHash == <<>>

\* Entry.ComputeHash: the entry's contents and its predecessor's hash.
ComputeHash(e) ==
  Append(e.prevHash, [seq |-> e.seq, decision |-> e.decision])

\* A slip: every entry is linked to the zero hash.
NewEntryUnlinked(count, head, d) ==
  LET e == [seq |-> count + 1, decision |-> d, prevHash |-> ZeroHash]
  IN  [seq |-> e.seq, decision |-> d, prevHash |-> ZeroHash, hash |-> ComputeHash(e)]

\* The entry Append builds on a log that has count entries and this head.
NewEntry(count, head, d) ==
  LET e == [seq |-> count + 1, decision |-> d, prevHash |-> head]
  IN  [seq |-> e.seq, decision |-> d, prevHash |-> head, hash |-> ComputeHash(e)]

\* t is s, or s with more entries after it.
ExtensionOf(t, s) ==
  /\ Len(s) <= Len(t)
  /\ \A n \in 1..Len(s) : t[n] = s[n]

\* The entries an engine issued on the way to this head.
TrailOf(head) ==
  [n \in 1..Len(head) |->
     [seq |-> n, decision |-> head[n].decision,
      prevHash |-> SubSeq(head, 1, n - 1), hash |-> SubSeq(head, 1, n)]]

-----------------------------------------------------------------------------
(* The auditor. *)

\* Where replay expects entry n to be attached.
PrevOf(entries, n) == IF n = 1 THEN ZeroHash ELSE entries[n - 1].hash

\* A slip: the link to the predecessor is not compared.
ChainIntactUnlinked(entries) ==
  \A n \in 1..Len(entries) :
    entries[n].seq = n /\ entries[n].hash = ComputeHash(entries[n])

\* replay walks the whole chain without an error.
ChainIntact(entries) ==
  \A n \in 1..Len(entries) :
    /\ entries[n].seq = n
    /\ entries[n].prevHash = PrevOf(entries, n)
    /\ entries[n].hash = ComputeHash(entries[n])

\* The head replay returns for an intact chain.
ReplayHead(entries) == PrevOf(entries, Len(entries) + 1)

SignedBy(cp, pub) == cp.signer = pub

\* A slip: the auditor counts entries and never compares the head.
VerifyCountOnly(entries, cp, pub) ==
  IF SignedBy(cp, pub) /\ ChainIntact(entries) /\ Len(entries) = cp.count
  THEN "ok" ELSE "mismatch"

\* Verify, with its errors in the order the code reports them.
Verify(entries, cp, pub) ==
  CASE ~SignedBy(cp, pub)                -> "signature"
    [] SignedBy(cp, pub) /\ ~ChainIntact(entries) -> "chain_broken"
    [] OTHER -> IF Len(entries) = cp.count /\ ReplayHead(entries) = cp.head
                THEN "ok" ELSE "mismatch"

\* A slip: two checkpoints of the same number of entries are refused.
VerifyAppendOnlyStrict(entries, older, newer, pub) ==
  IF /\ Verify(entries, newer, pub) = "ok"
     /\ SignedBy(older, pub)
     /\ older.count < newer.count
     /\ older.head = PrevOf(entries, older.count + 1)
  THEN "ok" ELSE "mismatch"

\* A slip: the older checkpoint's counts are compared and its head is not.
VerifyAppendOnlyByCount(entries, older, newer, pub) ==
  IF /\ Verify(entries, newer, pub) = "ok"
     /\ SignedBy(older, pub)
     /\ older.count <= newer.count
     /\ older.counter <= newer.counter
  THEN "ok" ELSE "mismatch"

\* VerifyAppendOnly: the newer checkpoint holds of these entries and the older
\* one is a point on the same chain.
VerifyAppendOnly(entries, older, newer, pub) ==
  CASE Verify(entries, newer, pub) # "ok" -> Verify(entries, newer, pub)
    [] Verify(entries, newer, pub) = "ok" /\ ~SignedBy(older, pub) -> "signature"
    [] OTHER -> IF /\ older.count <= newer.count
                   /\ older.counter <= newer.counter
                   /\ older.head = PrevOf(entries, older.count + 1)
                THEN "ok" ELSE "mismatch"
=============================================================================
