-------------------------- MODULE AppendOnlyHistory --------------------------
(***************************************************************************)
(* What the audit log promises, without enclaves, sealing or counters: one *)
(* committed history that only ever grows, and signed statements about it  *)
(* that, once made, stay true of it.                                       *)
(***************************************************************************)
EXTENDS AuditChain

VARIABLES
  committed, \* the history a restarted enclave will continue
  attested   \* the heads of the checkpoints handed to auditors

vars == <<committed, attested>>

Init ==
  /\ committed = ZeroHash
  /\ attested = {}

\* The history is committed up to a later point.
Commit ==
  /\ ExtensionOf(committed', committed)
  /\ UNCHANGED attested

\* A statement about the committed history is handed out.
Attest ==
  /\ attested' = attested \cup {committed}
  /\ UNCHANGED committed

Next == Commit \/ Attest

Spec == Init /\ [][Next]_vars
=============================================================================
