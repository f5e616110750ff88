------------------------------- MODULE Auditor -------------------------------
(***************************************************************************)
(* An auditor of internal/audit/audit.go facing entries from anywhere.     *)
(* Entries are carried outside the enclave, so what is presented is any    *)
(* sequence of entries, with any sequence number, decision, predecessor    *)
(* and hash; checkpoints are genuine, altered ones having no valid         *)
(* signature.  The chain a checkpoint stands for is known here, which lets *)
(* Verify and VerifyAppendOnly be compared with what they are to decide.   *)
(***************************************************************************)
EXTENDS AuditChain, FiniteSets

CONSTANTS
  Decisions,   \* what an entry may record
  MaxEntries,  \* bound: entries presented
  Enclave,     \* the attested engine whose key the auditor uses
  Other        \* any other signer, or none

ASSUME MaxEntriesAssumption == MaxEntries \in Nat

VARIABLE presented \* the run of entries the auditor was given

\* The chain hashes an engine can have computed.
Commitments(n) == {[seq |-> n, decision |-> d] : d \in Decisions}
Heads ==
  UNION {{h \in [1..n -> UNION {Commitments(m) : m \in 1..n}] :
            \A m \in 1..n : h[m] \in Commitments(m)} : n \in 0..MaxEntries}

Entries == [seq : 1..MaxEntries, decision : Decisions, prevHash : Heads, hash : Heads]

\* The checkpoints signed over these histories.
Checkpoints ==
  {[signer |-> k, count |-> Len(h), head |-> h, counter |-> c] :
     k \in {Enclave, Other}, h \in Heads, c \in 1..2}

Init == presented = <<>>

\* One more entry, altered or not, is presented after the others.
Present ==
  /\ Len(presented) < MaxEntries
  /\ \E e \in Entries : presented' = Append(presented, e)

Spec == Init /\ [][Present]_presented

-----------------------------------------------------------------------------
\* Verify accepts exactly the history the engine committed to: no entry can be
\* altered, dropped, added, reordered or taken from another history, and no
\* signature but the engine's will do.
VerifyDecidesHistory ==
  \A cp \in Checkpoints :
    (Verify(presented, cp, Enclave) = "ok")
      <=> (cp.signer = Enclave /\ presented = TrailOf(cp.head))

\* VerifyAppendOnly accepts exactly when, besides, the older checkpoint is about
\* a prefix of that history and does not carry the higher counter.
AppendOnlyDecidesGrowth ==
  \A older, newer \in Checkpoints :
    (VerifyAppendOnly(presented, older, newer, Enclave) = "ok")
      <=> /\ older.signer = Enclave
          /\ newer.signer = Enclave
          /\ presented = TrailOf(newer.head)
          /\ ExtensionOf(newer.head, older.head)
          /\ older.counter <= newer.counter
=============================================================================
