---------------------------- MODULE AuditorProofs ----------------------------
(***************************************************************************)
(* Theorems about Auditor, for every set of decisions and entries of any   *)
(* number: the auditor's functions decide what they are there to decide.   *)
(***************************************************************************)
EXTENDS Auditor, ChainProofs

AllCommitments == UNION {Commitments(m) : m \in 1 .. MaxEntries}

\* The hashes an engine can have computed are histories.
LEMMA HeadsAreHistories ==
  ASSUME NEW h \in Heads
  PROVE  IsHistory(h, AllCommitments)
<1>1. PICK n \in 0 .. MaxEntries :
        /\ h \in [1 .. n -> UNION {Commitments(m) : m \in 1 .. n}]
        /\ \A m \in 1 .. n : h[m] \in Commitments(m)
  BY DEF Heads
<1>2. n \in Nat /\ 1 .. n \subseteq 1 .. MaxEntries
  BY MaxEntriesAssumption
<1>3. \A m \in 1 .. n : h[m] \in AllCommitments
  BY <1>1, <1>2 DEF AllCommitments
<1>4. h \in Seq(AllCommitments) /\ Len(h) = n
  BY <1>1, <1>2, <1>3
<1>5. ASSUME NEW m \in 1 .. n PROVE h[m] = [seq |-> m, decision |-> h[m].decision]
  <2>1. PICK d \in Decisions : h[m] = [seq |-> m, decision |-> d]
    BY <1>1 DEF Commitments
  <2> QED BY <2>1
<1> QED BY <1>4, <1>5 DEF IsHistory

\* Whatever an auditor is given has the fields of an entry.
LEMMA EntriesAreEntries == AreEntries(Entries, AllCommitments)
<1> SUFFICES ASSUME NEW e \in Entries PROVE IsEntry(e, AllCommitments)
  BY DEF AreEntries
<1>1. [seq |-> e.seq, decision |-> e.decision] \in AllCommitments
  BY DEF Entries, AllCommitments, Commitments
<1>2. e = [seq |-> e.seq, decision |-> e.decision, prevHash |-> e.prevHash, hash |-> e.hash]
  BY DEF Entries
<1> QED BY <1>1, <1>2 DEF IsEntry

LEMMA CheckpointsAreAboutHistories ==
  ASSUME NEW cp \in Checkpoints
  PROVE  IsHistory(cp.head, AllCommitments) /\ cp.count = Len(cp.head)
<1>1. cp.head \in Heads /\ cp.count = Len(cp.head)
  BY DEF Checkpoints
<1> QED BY <1>1, HeadsAreHistories

Given == presented \in Seq(Entries)

\* What is presented is a sequence of entries.
LEMMA EntriesPresented == Spec => []Given
<1>1. Init => Given
  BY DEF Init, Given
<1>2. Given /\ [Present]_presented => Given'
  BY DEF Given, Present
<1> QED BY <1>1, <1>2, PTL DEF Spec

\* Verify accepts exactly the history a checkpoint commits to, however long it is
\* and whatever is presented in its place.
THEOREM VerifyDecides == Spec => []VerifyDecidesHistory
<1>1. Given => VerifyDecidesHistory
  <2> SUFFICES ASSUME Given, NEW cp \in Checkpoints
               PROVE  (Verify(presented, cp, Enclave) = "ok")
                        <=> (cp.signer = Enclave /\ presented = TrailOf(cp.head))
    BY DEF VerifyDecidesHistory
  <2>1. IsHistory(cp.head, AllCommitments) /\ cp.count = Len(cp.head)
    BY CheckpointsAreAboutHistories
  <2> QED BY <2>1, EntriesAreEntries, VerifyIsTrail DEF Given
<1> QED BY <1>1, EntriesPresented, PTL

\* VerifyAppendOnly accepts exactly, besides, an older checkpoint about a prefix of
\* that history.
THEOREM AppendOnlyDecides == Spec => []AppendOnlyDecidesGrowth
<1>1. Given => AppendOnlyDecidesGrowth
  <2> SUFFICES ASSUME Given, NEW older \in Checkpoints, NEW newer \in Checkpoints
               PROVE  (VerifyAppendOnly(presented, older, newer, Enclave) = "ok")
                        <=> /\ older.signer = Enclave
                            /\ newer.signer = Enclave
                            /\ presented = TrailOf(newer.head)
                            /\ ExtensionOf(newer.head, older.head)
                            /\ older.counter <= newer.counter
    BY DEF AppendOnlyDecidesGrowth
  <2>1. IsHistory(older.head, AllCommitments) /\ older.count = Len(older.head)
    BY CheckpointsAreAboutHistories
  <2>2. IsHistory(newer.head, AllCommitments) /\ newer.count = Len(newer.head)
    BY CheckpointsAreAboutHistories
  <2> QED BY <2>1, <2>2, EntriesAreEntries, GrowthIsPrefix DEF Given
<1> QED BY <1>1, EntriesPresented, PTL
=============================================================================
