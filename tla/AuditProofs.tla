----------------------------- MODULE AuditProofs -----------------------------
(***************************************************************************)
(* Proofs about Audit, for every number of enclaves, every bound and every *)
(* behaviour of the store.                                                 *)
(***************************************************************************)
EXTENDS Audit, ChainProofs, FiniteSetTheorems, TLAPS

-----------------------------------------------------------------------------
(* Lemmas about the chain. *)

\* A history continues itself.
LEMMA ExtensionReflexive ==
  ASSUME NEW h \in Hash
  PROVE  ExtensionOf(h, h)
BY DEF ExtensionOf, Hash

\* What continues a continuation continues the start.
LEMMA ExtensionTransitive ==
  ASSUME NEW a \in Hash, NEW b \in Hash, NEW c \in Hash,
         ExtensionOf(b, a), ExtensionOf(c, b)
  PROVE  ExtensionOf(c, a)
BY DEF ExtensionOf, Hash

\* Every history continues the empty one.
LEMMA ExtensionOfZero ==
  ASSUME NEW h \in Hash
  PROVE  ExtensionOf(h, ZeroHash)
BY DEF ExtensionOf, Hash, ZeroHash

\* The empty history is a history.
LEMMA ZeroHashType == ZeroHash \in Hash
BY DEF ZeroHash, Hash

\* The entry that Append builds is typed, and its hash continues the head.
LEMMA NewEntryExtends ==
  ASSUME NEW count \in Nat, NEW head \in Hash, NEW d \in Nat
  PROVE  /\ NewEntry(count, head, d) \in Entry
         /\ NewEntry(count, head, d).seq = count + 1
         /\ NewEntry(count, head, d).hash \in Hash
         /\ ExtensionOf(NewEntry(count, head, d).hash, head)
<1> DEFINE c == [seq |-> count + 1, decision |-> d]
<1>1. c \in Commitment
  BY DEF Commitment
<1>2. NewEntry(count, head, d) =
        [seq |-> count + 1, decision |-> d, prevHash |-> head, hash |-> Append(head, c)]
  BY DEF NewEntry, ComputeHash
<1>3. Append(head, c) \in Hash
  BY <1>1 DEF Hash
<1>4. ExtensionOf(Append(head, c), head)
  BY <1>1 DEF ExtensionOf, Hash
<1> QED
  BY <1>2, <1>3, <1>4 DEF Entry

-----------------------------------------------------------------------------
(* Type correctness. *)

\* An enclave without a usable Log has a typed record.
LEMMA IdleType ==
  ASSUME NEW status \in {"off", "closed"}, NEW key \in Nat
  PROVE  Idle(status, key) \in LogRecord
BY ZeroHashType DEF Idle, LogRecord

\* What Checkpoint seals and signs is typed.
LEMMA NextStateType ==
  ASSUME TypeOK, NEW i \in Instances
  PROVE  /\ NextState(i) \in State
         /\ SignedCheckpoint(i) \in Checkpoint
BY DEF TypeOK, LogRecord, NextState, SignedCheckpoint, State, Checkpoint

\* What is in the store is a state, unless it is nothing or noise.
LEMMA StoredState ==
  ASSUME TypeOK, stored \notin {NoBlob, Noise}
  PROVE  stored \in State
BY DEF TypeOK

\* A Log opened in a state of this image is typed.
LEMMA AdoptType ==
  ASSUME TypeOK, NEW i \in Instances, NEW s \in State, Adopt(i, s)
  PROVE  log' \in [Instances -> LogRecord]
BY DEF TypeOK, Adopt, State, LogRecord

\* Every variable keeps its type.
LEMMA TypeStep ==
  ASSUME TypeOK, [Next]_vars
  PROVE  TypeOK'
<1> USE DEF TypeOK
<1>1. ASSUME NEW i \in Instances, Launch(i) PROVE TypeOK'
  BY <1>1, IdleType DEF Launch
<1>2. ASSUME NEW i \in Instances, Crash(i) PROVE TypeOK'
  <2>1. NextState(i).counter \in Nat
    BY NextStateType DEF State
  <2>2. cutShort' \subseteq Nat
    BY <1>2, <2>1 DEF Crash
  <2>3. interrupted' \in BOOLEAN
    BY <1>2, Zenon DEF Crash
  <2> QED BY <1>2, <2>2, <2>3, IdleType DEF Crash, NoKey
<1>3. ASSUME NEW i \in Instances, Drop(i) PROVE TypeOK'
  <2>1. log[i].key \in Nat
    BY DEF LogRecord
  <2> QED BY <1>3, <2>1, IdleType DEF Drop
<1>4. ASSUME NEW i \in Instances, OpenFresh(i) PROVE TypeOK'
  <2>1. [count |-> 0, head |-> ZeroHash, counter |-> 0] \in State
    BY ZeroHashType DEF State
  <2> QED BY <1>4, <2>1, AdoptType DEF OpenFresh
<1>5. ASSUME NEW i \in Instances, OpenCurrent(i) PROVE TypeOK'
  BY <1>5, StoredState, AdoptType DEF OpenCurrent
<1>6. ASSUME NEW i \in Instances, OpenLagged(i) PROVE TypeOK'
  <2>1. log' \in [Instances -> LogRecord]
    BY <1>6, StoredState, AdoptType DEF OpenLagged
  <2>2. outcome' \in [Instances -> {"none", "ok", "lagged", "rollback", "corrupt", "unavailable"}]
    BY <1>6 DEF OpenLagged
  <2>3. platformCounter' \in Nat
    BY <1>6 DEF OpenLagged
  <2>4. interrupted' \in BOOLEAN
    BY <1>6, Zenon DEF OpenLagged
  <2>5. UNCHANGED <<stored, sealed, issued, published, decisions, launches, cutShort>>
    BY <1>6 DEF OpenLagged
  <2> QED BY <2>1, <2>2, <2>3, <2>4, <2>5
<1>7. ASSUME NEW i \in Instances, OpenRefused(i) PROVE TypeOK'
  <2>1. log[i].key \in Nat
    BY DEF LogRecord
  <2>2. RefusalOf(stored, log[i].counter) \in {"none", "rollback", "corrupt"}
    BY DEF RefusalOf
  <2> QED BY <1>7, <2>1, <2>2, IdleType DEF OpenRefused
<1>8. ASSUME NEW i \in Instances, OpenUnavailable(i) PROVE TypeOK'
  <2>1. log[i].key \in Nat
    BY DEF LogRecord
  <2> QED BY <1>8, <2>1, IdleType DEF OpenUnavailable
<1>9. ASSUME NEW i \in Instances, AppendDecision(i) PROVE TypeOK'
  <2> DEFINE e == NewEntry(log[i].count, log[i].head, decisions + 1)
  <2>1. e \in Entry /\ e.seq \in Nat /\ e.hash \in Hash
    BY NewEntryExtends, SMTT(30) DEF LogRecord
  <2>2. log' = [log EXCEPT ![i].count = e.seq, ![i].head = e.hash]
    BY <1>9 DEF AppendDecision
  <2>3. UNCHANGED <<platformCounter, stored, outcome, sealed, published, launches, interrupted, cutShort>>
        /\ issued' = issued \cup {e} /\ decisions' = decisions + 1
    BY <1>9 DEF AppendDecision
  <2> HIDE DEF e
  <2>4. log' \in [Instances -> LogRecord]
    <3> DEFINE r == [status |-> log[i].status, key |-> log[i].key, count |-> e.seq,
                     head |-> e.hash, counter |-> log[i].counter]
    <3>1. log[i] = [status |-> log[i].status, key |-> log[i].key, count |-> log[i].count,
                    head |-> log[i].head, counter |-> log[i].counter]
      BY DEF LogRecord
    <3>2. r \in LogRecord
      BY <2>1 DEF LogRecord
    <3>3. log'[i] = [log[i] EXCEPT !.count = e.seq, !.head = e.hash]
      BY <2>2
    <3>4. log'[i] = r
      BY <3>1, <3>3
    <3> HIDE DEF r
    <3>5. log' = [j \in Instances |-> log'[j]] /\ \A j \in Instances : j # i => log'[j] = log[j]
      BY <2>2
    <3> QED BY <3>2, <3>4, <3>5
  <2> QED BY <2>1, <2>3, <2>4
<1>10. ASSUME NEW i \in Instances, SaveCheckpoint(i) PROVE TypeOK'
  <2>1. log' \in [Instances -> LogRecord]
    BY <1>10 DEF SaveCheckpoint, LogRecord
  <2> QED BY <1>10, <2>1, NextStateType DEF SaveCheckpoint
<1>11. ASSUME NEW i \in Instances, FailCheckpoint(i) PROVE TypeOK'
  <2>1. NextState(i) \in State /\ NextState(i).counter \in Nat
    BY NextStateType DEF State
  <2> QED BY <1>11, <2>1 DEF FailCheckpoint
<1>12. ASSUME NEW i \in Instances, PublishCheckpoint(i) PROVE TypeOK'
  <2>1. log' \in [Instances -> LogRecord]
    BY <1>12 DEF PublishCheckpoint, LogRecord
  <2>2. published' \subseteq Checkpoint
    BY <1>12, NextStateType DEF PublishCheckpoint
  <2>3. platformCounter' \in Nat
    BY <1>12 DEF PublishCheckpoint
  <2>4. interrupted' \in BOOLEAN
    BY <1>12, Zenon DEF PublishCheckpoint
  <2>5. UNCHANGED <<outcome, stored, sealed, issued, decisions, launches, cutShort>>
    BY <1>12 DEF PublishCheckpoint
  <2> QED BY <2>1, <2>2, <2>3, <2>4, <2>5
<1>13. ASSUME NEW blob \in sealed \cup {NoBlob, Noise}, HostServes(blob) PROVE TypeOK'
  BY <1>13 DEF HostServes
<1>14. ASSUME NEW i \in Instances, BeginOpen(i) PROVE TypeOK'
  <2>1. log' \in [Instances -> LogRecord]
    BY <1>14, ZenonT(30) DEF BeginOpen, LogRecord
  <2> QED BY <1>14, <2>1 DEF BeginOpen
<1>15. CASE UNCHANGED vars
  BY <1>15 DEF vars
<1> QED
  BY <1>1, <1>2, <1>3, <1>4, <1>5, <1>6, <1>7, <1>8, <1>9, <1>10, <1>11, <1>12,
     <1>13, <1>14, <1>15 DEF Next, Step, Open

\* Every variable has its type before the first launch.
LEMMA InitTyped == Init => TypeOK
<1> SUFFICES ASSUME Init PROVE TypeOK
  OBVIOUS
<1>1. log \in [Instances -> LogRecord]
  BY IdleType DEF Init, NoKey
<1> QED BY <1>1 DEF Init, TypeOK

\* Every variable has its type in every reachable state of the log.
THEOREM TypeCorrect == Spec => []TypeOK
<1>1. TypeOK /\ [Next]_vars => TypeOK'
  BY TypeStep
<1> QED
  BY InitTyped, <1>1, PTL DEF Spec

-----------------------------------------------------------------------------
(***************************************************************************)
(* Where a history comes from.  This part needs neither an honest host nor *)
(* a single instance: any number of enclaves share the counter.            *)
(***************************************************************************)

\* Some sealed state has this counter value and a history that head continues.
SealedBelow(head, n) == \E s \in sealed : s.counter = n /\ ExtensionOf(head, s.head)

\* The instance holds a counter value: of its log, or the one Open read.
Counting(i) == Live(i) \/ log[i].status = "opening"

\* No log, and no value that Open read, is ahead of the platform.
LogNotAhead == \A i \in Instances : Counting(i) => log[i].counter <= platformCounter

\* A log that is not fresh continues a state sealed at its counter value.
LogGrounded ==
  \A i \in Instances :
    Live(i) /\ log[i].counter # 0 => SealedBelow(log[i].head, log[i].counter)

\* Between Save and CounterIncrement, the host holds what will be published.
SavedIsSealed == \A i \in Instances : log[i].status = "saved" => NextState(i) \in sealed

\* The store serves sealed states, nothing, or noise.
StoredIsSealed == stored \in sealed \cup {NoBlob, Noise}

\* A returned checkpoint was sealed, and the platform has counted it.
PublishedIsSealed ==
  \A cp \in published :
    /\ cp.counter <= platformCounter
    /\ \E s \in sealed : s.counter = cp.counter /\ s.head = cp.head

\* A sealed state continues some sealed state at every counter value below its own:
\* a checkpoint is taken of a log that continues the checkpoint one value before.
SealsRooted ==
  \A s \in sealed : s.counter >= 1 /\ \A n \in 1..s.counter : SealedBelow(s.head, n)

LineageInv ==
  /\ LogNotAhead
  /\ LogGrounded
  /\ SavedIsSealed
  /\ StoredIsSealed
  /\ PublishedIsSealed
  /\ SealsRooted

\* What continues a sealed state continues a sealed state at every lower value.
LEMMA RootedBelow ==
  ASSUME TypeOK, SealsRooted, NEW head \in Hash, NEW k \in Nat, SealedBelow(head, k),
         NEW n \in 1..k
  PROVE  SealedBelow(head, n)
<1>1. PICK b \in sealed : b.counter = k /\ ExtensionOf(head, b.head)
  BY DEF SealedBelow
<1>2. PICK a \in sealed : a.counter = n /\ ExtensionOf(b.head, a.head)
  BY <1>1 DEF SealsRooted, SealedBelow
<1>3. a.head \in Hash /\ b.head \in Hash
  BY DEF TypeOK, State
<1>4. ExtensionOf(head, a.head)
  BY <1>1, <1>2, <1>3, ExtensionTransitive
<1> QED BY <1>2, <1>4 DEF SealedBelow

\* A state sealed by a live log is the log's own history, which continues the
\* state sealed one counter value below.
LEMMA SealKeepsRoots ==
  ASSUME TypeOK, LineageInv, NEW i \in Instances, log[i].status = "open",
         sealed' = sealed \cup {NextState(i)}
  PROVE  SealsRooted'
<1> DEFINE k == log[i].counter
           s == NextState(i)
           BelowNext(head, n) == \E a \in sealed' : a.counter = n /\ ExtensionOf(head, a.head)
<1>1. /\ k \in Nat /\ log[i].head \in Hash /\ s \in State
      /\ s.counter = k + 1 /\ s.head = log[i].head
  BY NextStateType DEF TypeOK, LogRecord, NextState
<1>2. k = 0 \/ SealedBelow(log[i].head, k)
  BY DEF LineageInv, LogGrounded, Live
<1>3. ASSUME NEW head, NEW n, SealedBelow(head, n) PROVE BelowNext(head, n)
  BY <1>3 DEF SealedBelow
<1>4. ASSUME NEW n \in 1..s.counter PROVE BelowNext(s.head, n)
  <2>1. CASE n = k + 1
    <3>1. ExtensionOf(s.head, s.head)
      BY <1>1, ExtensionReflexive
    <3> QED BY <2>1, <3>1, <1>1
  <2>2. CASE n # k + 1
    <3>1. n \in 1..k /\ k # 0
      BY <2>2, <1>1
    <3>2. SealedBelow(s.head, n)
      BY <3>1, <1>1, <1>2, RootedBelow DEF LineageInv
    <3> QED BY <3>2, <1>3
  <2> QED BY <2>1, <2>2
<1> SUFFICES ASSUME NEW t \in sealed'
             PROVE  t.counter >= 1 /\ \A n \in 1..t.counter : BelowNext(t.head, n)
  BY DEF SealsRooted, SealedBelow
<1>5. CASE t \in sealed
  BY <1>5, <1>3 DEF LineageInv, SealsRooted
<1>6. CASE t = s
  BY <1>6, <1>1, <1>4
<1> QED BY <1>5, <1>6

\* A step that seals nothing and returns no checkpoint, and after which every
\* live log was live before and continues the same history, or was opened on a
\* sealed state, and no counter value passes the platform, keeps the lineage.
LEMMA UnsealedStepKeepsLineage ==
  ASSUME TypeOK, TypeOK', LineageInv,
         UNCHANGED <<sealed, published>>,
         platformCounter' >= platformCounter,
         stored' \in sealed \cup {NoBlob, Noise},
         \A i \in Instances :
           /\ log'[i].status = "saved" => log'[i] = log[i]
           /\ Counting(i)' => \/ Counting(i) /\ log'[i].counter = log[i].counter
                              \/ log'[i].counter <= platformCounter'
           /\ Live(i)' => \/ /\ Live(i)
                             /\ log'[i].counter = log[i].counter
                             /\ ExtensionOf(log'[i].head, log[i].head)
                          \/ log'[i].counter = 0
                          \/ SealedBelow(log'[i].head, log'[i].counter)
  PROVE  LineageInv'
<1>1. LogNotAhead'
  <2> SUFFICES ASSUME NEW i \in Instances, Counting(i)'
               PROVE  log'[i].counter <= platformCounter'
    BY DEF LogNotAhead
  <2>1. CASE Counting(i) /\ log'[i].counter = log[i].counter
    <3>1. log[i].counter <= platformCounter
      BY <2>1 DEF LineageInv, LogNotAhead
    <3> QED BY <2>1, <3>1 DEF TypeOK, LogRecord
  <2>2. CASE log'[i].counter <= platformCounter'
    BY <2>2
  <2> QED BY <2>1, <2>2
<1>2. LogGrounded'
  <2> SUFFICES ASSUME NEW i \in Instances, Live(i)', log'[i].counter # 0
               PROVE  SealedBelow(log[i].head, log[i].counter)'
    BY DEF LogGrounded
  <2>1. CASE /\ Live(i)
             /\ log'[i].counter = log[i].counter
             /\ ExtensionOf(log'[i].head, log[i].head)
    <3>1. PICK b \in sealed : b.counter = log[i].counter /\ ExtensionOf(log[i].head, b.head)
      BY <2>1 DEF LineageInv, LogGrounded, SealedBelow
    <3>2. b.head \in Hash /\ log[i].head \in Hash /\ log'[i].head \in Hash
      BY DEF TypeOK, LogRecord, State
    <3>3. ExtensionOf(log'[i].head, b.head)
      BY <2>1, <3>1, <3>2, ExtensionTransitive
    <3> QED BY <2>1, <3>1, <3>3 DEF SealedBelow
  <2>2. CASE SealedBelow(log'[i].head, log'[i].counter)
    BY <2>2 DEF SealedBelow
  <2> QED BY <2>1, <2>2
<1>3. SavedIsSealed'
  BY DEF LineageInv, SavedIsSealed, NextState
<1>4. StoredIsSealed'
  BY DEF StoredIsSealed
<1>5. PublishedIsSealed'
  <2> SUFFICES ASSUME NEW cp \in published
               PROVE  /\ cp.counter <= platformCounter'
                      /\ \E s \in sealed : s.counter = cp.counter /\ s.head = cp.head
    BY DEF PublishedIsSealed
  <2>1. /\ cp.counter <= platformCounter
        /\ \E s \in sealed : s.counter = cp.counter /\ s.head = cp.head
    BY DEF LineageInv, PublishedIsSealed
  <2> QED BY <2>1 DEF TypeOK, Checkpoint
<1>6. SealsRooted'
  BY DEF LineageInv, SealsRooted, SealedBelow
<1> QED BY <1>1, <1>2, <1>3, <1>4, <1>5, <1>6 DEF LineageInv

\* Opening on a sealed state: its history is its own ground.
LEMMA SealedStateGrounds ==
  ASSUME TypeOK, NEW s \in sealed
  PROVE  SealedBelow(s.head, s.counter)
<1>1. s.head \in Hash
  BY DEF TypeOK, State
<1> QED BY <1>1, ExtensionReflexive DEF SealedBelow

\* Every step keeps the lineage.
LEMMA LineageStep ==
  ASSUME TypeOK, LineageInv, [Next]_vars
  PROVE  LineageInv'
<1>0. TypeOK'
  BY TypeStep
<1>a. \A i \in Instances : log[i] \in LogRecord /\ log'[i] \in LogRecord
  BY <1>0 DEF TypeOK
<1>b. \A i \in Instances : ExtensionOf(log[i].head, log[i].head)
  BY <1>a, ExtensionReflexive DEF LogRecord
<1>c. stored \in sealed \cup {NoBlob, Noise} /\ platformCounter \in Nat
  BY DEF LineageInv, StoredIsSealed, TypeOK
<1>1. ASSUME NEW i \in Instances,
             Launch(i) \/ Crash(i) \/ Drop(i) \/ OpenRefused(i) \/ OpenUnavailable(i)
      PROVE  LineageInv'
  <2>1. /\ UNCHANGED <<sealed, published, platformCounter, stored>>
        /\ \A j \in Instances : j # i => log'[j] = log[j]
        /\ log'[i].status \in {"off", "closed"}
    BY <1>1 DEF Launch, Crash, Drop, OpenRefused, OpenUnavailable, Idle, TypeOK
  <2> QED BY <2>1, <1>0, <1>b, <1>c, UnsealedStepKeepsLineage DEF Live, Counting
<1>2. ASSUME NEW i \in Instances, NEW s, Adopt(i, s), UNCHANGED <<sealed, published, stored>>,
             platformCounter' >= platformCounter,
             s.counter <= platformCounter', s.counter = 0 \/ SealedBelow(s.head, s.counter)
      PROVE  LineageInv'
  <2>1. /\ \A j \in Instances : j # i => log'[j] = log[j]
        /\ log'[i].status = "open" /\ log'[i].head = s.head /\ log'[i].counter = s.counter
    BY <1>2 DEF Adopt, TypeOK
  <2> QED BY <2>1, <1>0, <1>2, <1>b, <1>c, UnsealedStepKeepsLineage DEF Live, Counting
<1>2a. \A i \in Instances : log[i].status = "opening" => log[i].counter <= platformCounter
  BY DEF LineageInv, LogNotAhead, Counting
<1>2b. \A i \in Instances : log[i].counter \in Nat
  BY <1>a DEF LogRecord
<1>3. ASSUME NEW i \in Instances, OpenFresh(i) PROVE LineageInv'
  BY <1>3, <1>2, <1>c DEF OpenFresh
<1>4. ASSUME NEW i \in Instances, OpenCurrent(i) PROVE LineageInv'
  <2>1. stored \in sealed /\ SealedBelow(stored.head, stored.counter)
    BY <1>4, <1>c, SealedStateGrounds DEF OpenCurrent
  <2> QED BY <1>4, <2>1, <1>2, <1>2a, <1>2b, <1>c DEF OpenCurrent
<1>5. ASSUME NEW i \in Instances, OpenLagged(i) PROVE LineageInv'
  <2>1. stored \in sealed /\ SealedBelow(stored.head, stored.counter)
    BY <1>5, <1>c, SealedStateGrounds DEF OpenLagged
  <2> QED BY <1>5, <2>1, <1>2, <1>2a, <1>2b, <1>c DEF OpenLagged
<1>6. ASSUME UNCHANGED <<sealed, published, platformCounter, log>>,
             stored' \in sealed \cup {NoBlob, Noise}
      PROVE  LineageInv'
  BY <1>6, <1>0, <1>b, <1>c, UnsealedStepKeepsLineage DEF Live, Counting
<1>7. ASSUME NEW i \in Instances, BeginOpen(i) PROVE LineageInv'
  <2>1. /\ UNCHANGED <<sealed, published, platformCounter, stored>>
        /\ \A j \in Instances : j # i => log'[j] = log[j]
        /\ log'[i].status = "opening" /\ log'[i].counter = platformCounter
    BY <1>7, <1>a DEF BeginOpen, TypeOK, LogRecord
  <2> QED BY <2>1, <1>0, <1>b, <1>c, UnsealedStepKeepsLineage DEF Live, Counting
<1>8. ASSUME NEW i \in Instances, AppendDecision(i) PROVE LineageInv'
  <2> DEFINE e == NewEntry(log[i].count, log[i].head, decisions + 1)
  <2>1. ExtensionOf(e.hash, log[i].head)
    BY NewEntryExtends DEF TypeOK, LogRecord
  <2>2. /\ UNCHANGED <<sealed, published, platformCounter, stored>>
        /\ \A j \in Instances : j # i => log'[j] = log[j]
        /\ log[i].status = "open" /\ log'[i].status = "open"
        /\ log'[i].head = e.hash /\ log'[i].counter = log[i].counter
    BY <1>8, <1>a DEF AppendDecision, TypeOK, LogRecord
  <2> HIDE DEF e
  <2> QED BY <2>1, <2>2, <1>0, <1>b, <1>c, UnsealedStepKeepsLineage DEF Live, Counting
<1>9. ASSUME NEW i \in Instances, log[i].status = "open", sealed' = sealed \cup {NextState(i)},
             stored' \in {stored, NextState(i)}, UNCHANGED <<platformCounter, published>>,
             \/ UNCHANGED log
             \/ log' = [log EXCEPT ![i].status = "saved"]
      PROVE  LineageInv'
  <2>1. SealsRooted'
    BY <1>9, SealKeepsRoots
  <2>2. \A j \in Instances :
          /\ Live(j)' = Live(j) /\ Counting(j)' = Counting(j)
          /\ log'[j].counter = log[j].counter /\ log'[j].head = log[j].head
          /\ log'[j].count = log[j].count
          /\ log'[j].status = "saved" => log[j].status = "saved" \/ j = i
    BY <1>9, <1>a DEF Live, Counting, TypeOK, LogRecord
  <2>3. LogNotAhead'
    BY <1>9, <2>2 DEF LineageInv, LogNotAhead
  <2>4. LogGrounded'
    BY <1>9, <2>2 DEF LineageInv, LogGrounded, SealedBelow
  <2>5. SavedIsSealed'
    BY <1>9, <2>2 DEF LineageInv, SavedIsSealed, NextState
  <2>6. StoredIsSealed' /\ PublishedIsSealed'
    BY <1>9 DEF LineageInv, StoredIsSealed, PublishedIsSealed
  <2> QED BY <2>1, <2>3, <2>4, <2>5, <2>6 DEF LineageInv
<1>10. ASSUME NEW i \in Instances, SaveCheckpoint(i) PROVE LineageInv'
  BY <1>10, <1>9 DEF SaveCheckpoint
<1>11. ASSUME NEW i \in Instances, FailCheckpoint(i) PROVE LineageInv'
  BY <1>11, <1>9 DEF FailCheckpoint
<1>12. ASSUME NEW i \in Instances, PublishCheckpoint(i) PROVE LineageInv'
  <2> DEFINE k == log[i].counter
  <2>1. /\ \A j \in Instances : j # i => log'[j] = log[j]
        /\ log[i].status = "saved" /\ log'[i].status = "open"
        /\ log'[i].head = log[i].head /\ log'[i].counter = k + 1
        /\ k \in Nat /\ k <= platformCounter
        /\ UNCHANGED <<stored, sealed>>
        /\ platformCounter' = platformCounter + 1
    BY <1>12, <1>a DEF PublishCheckpoint, TypeOK, LogRecord, LineageInv, LogNotAhead, Live, Counting
  <2>2. /\ NextState(i) \in sealed
        /\ NextState(i).counter = k + 1 /\ NextState(i).head = log[i].head
    BY <2>1 DEF LineageInv, SavedIsSealed, NextState
  <2>3. LogNotAhead'
    <3> SUFFICES ASSUME NEW j \in Instances, Counting(j)' PROVE log'[j].counter <= platformCounter'
      BY DEF LogNotAhead
    <3>1. CASE j = i
      BY <3>1, <2>1, <1>c
    <3>2. CASE j # i
      <4>1. log[j].counter <= platformCounter
        BY <3>2, <2>1 DEF LineageInv, LogNotAhead, Live, Counting
      <4> QED BY <3>2, <4>1, <2>1, <1>a, <1>c DEF LogRecord
    <3> QED BY <3>1, <3>2
  <2>4. LogGrounded'
    <3>1. SealedBelow(log[i].head, k + 1)
      BY <2>2, SealedStateGrounds
    <3> QED BY <3>1, <2>1 DEF LineageInv, LogGrounded, SealedBelow, Live
  <2>5. SavedIsSealed'
    BY <2>1 DEF LineageInv, SavedIsSealed, NextState
  <2>6. PublishedIsSealed'
    <3> SUFFICES ASSUME NEW cp \in published'
                 PROVE  /\ cp.counter <= platformCounter'
                        /\ \E s \in sealed : s.counter = cp.counter /\ s.head = cp.head
      BY <2>1 DEF PublishedIsSealed
    <3>1. CASE cp \in published
      BY <3>1, <2>1, <1>c DEF LineageInv, PublishedIsSealed, TypeOK, Checkpoint
    <3>2. CASE cp = SignedCheckpoint(i)
      BY <3>2, <2>1, <2>2, <1>c DEF SignedCheckpoint
    <3> QED BY <3>1, <3>2, <1>12 DEF PublishCheckpoint
  <2>7. StoredIsSealed' /\ SealsRooted'
    BY <2>1 DEF LineageInv, StoredIsSealed, SealsRooted, SealedBelow
  <2> QED BY <2>3, <2>4, <2>5, <2>6, <2>7 DEF LineageInv
<1>13. ASSUME NEW blob \in sealed \cup {NoBlob, Noise}, HostServes(blob) PROVE LineageInv'
  BY <1>13, <1>6 DEF HostServes
<1>14. CASE UNCHANGED vars
  BY <1>14, <1>6, <1>c DEF vars
<1> QED
  BY <1>1, <1>3, <1>4, <1>5, <1>7, <1>8, <1>10, <1>11, <1>12, <1>13, <1>14
     DEF Next, Step, Open

\* The lineage of sealed states holds in every reachable state.
THEOREM LineageInvariant == Spec => [](TypeOK /\ LineageInv)
<1>1. Init => TypeOK /\ LineageInv
  <2> SUFFICES ASSUME Init PROVE LineageInv
    BY InitTyped
  <2>1. \A i \in Instances : log[i].status = "off"
    BY DEF Init, Idle
  <2> QED BY <2>1 DEF Init, LineageInv, LogNotAhead, LogGrounded, SavedIsSealed, StoredIsSealed,
                  PublishedIsSealed, SealsRooted, Live, Counting
<1>2. TypeOK /\ LineageInv /\ [Next]_vars => (TypeOK /\ LineageInv)'
  BY TypeStep, LineageStep
<1> QED
  BY <1>1, <1>2, PTL DEF Spec

\* What continues a sealed state continues every returned checkpoint up to its
\* counter value that was sealed once: the sealed state it continues at that value
\* is the checkpoint's own.
LEMMA RootedCovers ==
  ASSUME TypeOK, LineageInv, NEW head \in Hash, NEW k \in Nat, SealedBelow(head, k),
         NEW cp \in published, cp.counter <= k, SealedOnce(cp.counter)
  PROVE  ExtensionOf(head, cp.head)
<1>1. PICK s \in sealed : s.counter = cp.counter /\ s.head = cp.head
  BY DEF LineageInv, PublishedIsSealed
<1>2. s.counter \in 1..k
  BY <1>1 DEF LineageInv, SealsRooted, TypeOK, State
<1>3. PICK a \in sealed : a.counter = s.counter /\ ExtensionOf(head, a.head)
  BY <1>2, RootedBelow DEF LineageInv, SealedBelow
<1>4. a = s
  BY <1>1, <1>3 DEF SealedOnce
<1> QED BY <1>1, <1>3, <1>4

\* A returned checkpoint has a positive counter value.
LEMMA PublishedIsCounted ==
  ASSUME TypeOK, LineageInv, NEW cp \in published
  PROVE  cp.counter \in Nat /\ cp.counter >= 1 /\ cp.counter <= platformCounter
<1>1. PICK s \in sealed : s.counter = cp.counter
  BY DEF LineageInv, PublishedIsSealed
<1> QED BY <1>1 DEF LineageInv, PublishedIsSealed, SealsRooted, TypeOK, State

\* Open never succeeds on a state that lacks a checkpoint from before it read
\* the counter, whatever the store serves and however many enclaves share the
\* counter, unless that checkpoint's counter value was sealed twice.
THEOREM OpenCovers == Spec => OpenCoversPublished
<1> DEFINE P == \A i \in Instances : Open(i) =>
                  \A cp \in published :
                    cp.counter <= log[i].counter /\ SealedOnce(cp.counter)
                      => ExtensionOf(log'[i].head, cp.head)
<1>1. TypeOK /\ LineageInv => P
  <2> SUFFICES ASSUME TypeOK, LineageInv, NEW i \in Instances, Open(i),
                      NEW cp \in published, cp.counter <= log[i].counter, SealedOnce(cp.counter)
               PROVE  ExtensionOf(log'[i].head, cp.head)
    OBVIOUS
  <2>1. cp.counter \in Nat /\ cp.counter >= 1 /\ log[i].counter \in Nat
    BY PublishedIsCounted DEF TypeOK, LogRecord
  <2>2. ~OpenFresh(i)
    BY <2>1 DEF OpenFresh
  <2>3. /\ stored \in sealed
        /\ stored.counter \in {log[i].counter, log[i].counter + 1}
        /\ log'[i].head = stored.head
    BY <2>2 DEF Open, OpenCurrent, OpenLagged, Adopt, TypeOK, LineageInv, StoredIsSealed
  <2>4. stored.head \in Hash /\ stored.counter \in Nat /\ cp.counter <= stored.counter
    BY <2>1, <2>3 DEF TypeOK, State
  <2>5. SealedBelow(stored.head, stored.counter)
    BY <2>3, SealedStateGrounds
  <2>6. ExtensionOf(stored.head, cp.head)
    BY <2>4, <2>5, RootedCovers
  <2> QED BY <2>3, <2>6
<1>2. TypeOK /\ LineageInv => [P]_vars
  BY <1>1
<1> QED
  BY <1>2, LineageInvariant, PTL DEF OpenCoversPublished

-----------------------------------------------------------------------------
(* One enclave at a time. *)

\* LogCounterAgrees, and the value that Open read is still the platform's.
CountersAgree ==
  SingleInstance => \A i \in Instances : Counting(i) => log[i].counter = platformCounter

\* The two counters move together: only their being equal before each step
\* makes the next checkpoint's value the one the platform reaches with it.
LEMMA CounterStep ==
  ASSUME SingleInstance, TypeOK, CountersAgree, [Next]_vars
  PROVE  CountersAgree'
<1> SUFFICES ASSUME NEW j \in Instances, Counting(j)'
             PROVE  log'[j].counter = platformCounter'
  BY DEF CountersAgree
<1> USE DEF TypeOK, LogRecord, Live, Counting
<1>0. Counting(j) => log[j].counter = platformCounter
  BY DEF CountersAgree
<1>1. ASSUME NEW i \in Instances, i = j,
             Launch(i) \/ Crash(i) \/ Drop(i) \/ OpenRefused(i) \/ OpenUnavailable(i)
      PROVE  FALSE
  BY <1>1 DEF Launch, Crash, Drop, OpenRefused, OpenUnavailable, Idle
<1>2. ASSUME NEW i \in Instances, i = j, Open(i) PROVE log'[j].counter = platformCounter'
  BY <1>0, <1>2 DEF Open, OpenFresh, OpenCurrent, OpenLagged, Adopt
<1>3. ASSUME NEW i \in Instances, i = j, BeginOpen(i) PROVE log'[j].counter = platformCounter'
  BY <1>3 DEF BeginOpen
<1>4. ASSUME NEW i \in Instances, i = j, AppendDecision(i)
      PROVE log'[j].counter = platformCounter'
  BY <1>0, <1>4 DEF AppendDecision
<1>5. ASSUME NEW i \in Instances, i = j, SaveCheckpoint(i) \/ FailCheckpoint(i)
      PROVE log'[j].counter = platformCounter'
  BY <1>0, <1>5 DEF SaveCheckpoint, FailCheckpoint
<1>6. ASSUME NEW i \in Instances, i = j, PublishCheckpoint(i)
      PROVE log'[j].counter = platformCounter'
  BY <1>0, <1>6 DEF PublishCheckpoint
<1>7. ASSUME NEW blob \in sealed \cup {NoBlob, Noise}, HostServes(blob)
      PROVE log'[j].counter = platformCounter'
  BY <1>0, <1>7 DEF HostServes
<1>8. CASE UNCHANGED vars
  BY <1>0, <1>8 DEF vars
<1> QED
  BY <1>1, <1>2, <1>3, <1>4, <1>5, <1>6, <1>7, <1>8 DEF Next, Step, SingleInstance

\* Before the first launch no enclave has a counter value.
LEMMA InitCounters == Init => CountersAgree
BY DEF Init, CountersAgree, Counting, Idle

\* An open log and the platform always agree on the counter.
THEOREM CounterAgreement == Spec => []LogCounterAgrees
<1>1. CASE SingleInstance
  <2>1. TypeOK /\ CountersAgree /\ [Next]_vars => CountersAgree'
    BY <1>1, CounterStep
  <2>2. CountersAgree => LogCounterAgrees
    BY DEF CountersAgree, LogCounterAgrees, Counting
  <2> QED
    BY <2>1, <2>2, InitCounters, TypeCorrect, PTL DEF Spec
<1>2. CASE ~SingleInstance
  <2>1. LogCounterAgrees
    BY <1>2 DEF LogCounterAgrees
  <2> QED BY <2>1, PTL
<1> QED BY <1>1, <1>2

\* An open log continues every returned checkpoint whose counter value was sealed
\* once, whatever the store serves.
THEOREM LogCovers == Spec => []LogCoversPublished
<1>1. TypeOK /\ LineageInv /\ LogCounterAgrees => LogCoversPublished
  <2> SUFFICES ASSUME TypeOK, LineageInv, LogCounterAgrees, SingleInstance,
                      NEW i \in Instances, NEW cp \in published,
                      Live(i), SealedOnce(cp.counter)
               PROVE  ExtensionOf(log[i].head, cp.head)
    BY DEF LogCoversPublished
  <2>1. log[i].counter = platformCounter
    BY DEF LogCounterAgrees
  <2>2. /\ log[i].head \in Hash /\ log[i].counter \in Nat
        /\ cp.counter <= log[i].counter /\ log[i].counter # 0
    BY <2>1, PublishedIsCounted DEF TypeOK, LogRecord
  <2>3. SealedBelow(log[i].head, log[i].counter)
    BY <2>2 DEF LineageInv, LogGrounded
  <2> QED BY <2>2, <2>3, RootedCovers
<1> QED
  BY <1>1, LineageInvariant, CounterAgreement, PTL

\* A sealed state is at most one counter value ahead of the platform, and one that
\* is ahead belongs to a checkpoint under way or to one that was cut short.
SealsAccounted ==
  \A s \in sealed :
    /\ s.counter <= platformCounter + 1
    /\ s.counter \in cutShort \/ SealedOnce(s.counter)
    /\ s.counter = platformCounter + 1 =>
         s.counter \in cutShort \/ \E i \in Instances : log[i].status = "saved"

\* A new state is sealed one ahead of the platform, where an older state can only
\* be what a checkpoint left behind that was cut short.
LEMMA SealsStayAccounted ==
  ASSUME SingleInstance, TypeOK, CountersAgree, SealsAccounted, [Next]_vars
  PROVE  SealsAccounted'
<1>1. platformCounter \in Nat /\ \A s \in sealed : s.counter \in Nat
  BY DEF TypeOK, State
<1>2. ASSUME NEW i \in Instances, Live(i) PROVE NextState(i).counter = platformCounter + 1
  BY <1>2 DEF CountersAgree, Counting, NextState
<1>3. ASSUME UNCHANGED <<sealed, platformCounter>>, cutShort \subseteq cutShort',
             \A s \in sealed : s.counter = platformCounter + 1 =>
               \/ s.counter \in cutShort'
               \/ \E i \in Instances : log'[i].status = "saved"
      PROVE  SealsAccounted'
  BY <1>3 DEF SealsAccounted, SealedOnce
<1>4. ASSUME NEW i \in Instances, log[i].status # "saved", UNCHANGED <<sealed, platformCounter, cutShort>>
      PROVE  SealsAccounted'
  BY <1>3, <1>4 DEF SealsAccounted, SingleInstance
<1>5. ASSUME UNCHANGED <<sealed, cutShort>>, platformCounter' = platformCounter + 1
      PROVE  SealsAccounted'
  BY <1>1, <1>5 DEF SealsAccounted, SealedOnce
<1>6. ASSUME NEW i \in Instances,
             Launch(i) \/ Drop(i) \/ BeginOpen(i) \/ OpenFresh(i) \/ OpenCurrent(i)
               \/ OpenRefused(i) \/ OpenUnavailable(i) \/ AppendDecision(i)
      PROVE  SealsAccounted'
  <2>1. log[i].status # "saved" /\ UNCHANGED <<sealed, platformCounter, cutShort>>
    BY <1>6 DEF Launch, Drop, BeginOpen, OpenFresh, OpenCurrent, OpenRefused,
                OpenUnavailable, AppendDecision
  <2> QED BY <2>1, <1>4
<1>7. ASSUME NEW i \in Instances, Crash(i) PROVE SealsAccounted'
  <2>1. CASE log[i].status = "saved"
    <3>1. /\ UNCHANGED <<sealed, platformCounter>>
          /\ cutShort' = cutShort \cup {platformCounter + 1}
      BY <1>2, <1>7, <2>1 DEF Crash, Live
    <3> QED BY <3>1, <1>3
  <2>2. CASE log[i].status # "saved"
    <3>1. UNCHANGED <<sealed, platformCounter, cutShort>>
      BY <1>7, <2>2 DEF Crash
    <3> QED BY <2>2, <3>1, <1>4
  <2> QED BY <2>1, <2>2
<1>8. ASSUME NEW i \in Instances, OpenLagged(i) \/ PublishCheckpoint(i) PROVE SealsAccounted'
  BY <1>5, <1>8 DEF OpenLagged, PublishCheckpoint
<1>9. ASSUME NEW i \in Instances, log[i].status = "open",
             sealed' = sealed \cup {NextState(i)}, UNCHANGED platformCounter,
             \/ UNCHANGED cutShort /\ log'[i].status = "saved"
             \/ cutShort' = cutShort \cup {NextState(i).counter}
      PROVE  SealsAccounted'
  <2>1. NextState(i).counter = platformCounter + 1
    BY <1>2, <1>9 DEF Live
  <2>2. \A s \in sealed : s.counter = platformCounter + 1 => s.counter \in cutShort
    BY <1>9 DEF SealsAccounted, SingleInstance
  <2>3. \A s \in sealed : s.counter # platformCounter + 1 =>
          s.counter \in cutShort \/ SealedOnce(s.counter)'
    BY <1>9, <2>1 DEF SealsAccounted, SealedOnce
  <2>4. platformCounter + 1 \in cutShort' \/ SealedOnce(platformCounter + 1)'
    BY <1>9, <2>1, <2>2 DEF SealedOnce
  <2> SUFFICES ASSUME NEW s \in sealed'
               PROVE  /\ s.counter <= platformCounter' + 1
                      /\ s.counter \in cutShort' \/ SealedOnce(s.counter)'
                      /\ s.counter = platformCounter' + 1 =>
                           s.counter \in cutShort' \/ \E j \in Instances : log'[j].status = "saved"
    BY DEF SealsAccounted
  <2>5. CASE s.counter = platformCounter + 1
    BY <1>1, <1>9, <2>1, <2>4, <2>5
  <2>6. CASE s.counter # platformCounter + 1
    <3>1. s \in sealed
      BY <1>9, <2>1, <2>6
    <3> QED BY <1>9, <2>3, <2>6, <3>1 DEF SealsAccounted
  <2> QED BY <2>5, <2>6
<1>10. ASSUME NEW i \in Instances, SaveCheckpoint(i) PROVE SealsAccounted'
  <2>1. log'[i].status = "saved"
    BY <1>10 DEF SaveCheckpoint, TypeOK, LogRecord
  <2> QED BY <1>9, <1>10, <2>1 DEF SaveCheckpoint
<1>11. ASSUME NEW i \in Instances, FailCheckpoint(i) PROVE SealsAccounted'
  BY <1>9, <1>11 DEF FailCheckpoint
<1>12. CASE UNCHANGED <<sealed, platformCounter, cutShort, log>>
  BY <1>3, <1>12 DEF SealsAccounted
<1> QED
  BY <1>6, <1>7, <1>8, <1>10, <1>11, <1>12 DEF Next, Step, Open, HostServes, vars

\* A counter value is sealed with a second history only where a checkpoint was cut
\* short: neither the store nor a relaunch brings it about.
THEOREM ResealingHasACause == Spec => []ResealedWasCutShort
<1>1. CASE SingleInstance
  <2>1. Init => SealsAccounted
    BY DEF Init, SealsAccounted
  <2>2. TypeOK /\ CountersAgree /\ [Next]_vars => CountersAgree'
    BY <1>1, CounterStep
  <2>3. TypeOK /\ CountersAgree /\ SealsAccounted /\ [Next]_vars => SealsAccounted'
    BY <1>1, SealsStayAccounted
  <2>4. SealsAccounted => ResealedWasCutShort
    BY DEF SealsAccounted, ResealedWasCutShort
  <2> QED
    BY <2>1, <2>2, <2>3, <2>4, InitCounters, TypeCorrect, PTL DEF Spec
<1>2. CASE ~SingleInstance
  <2>1. ResealedWasCutShort
    BY <1>2 DEF ResealedWasCutShort
  <2> QED BY <2>1, PTL
<1> QED BY <1>1, <1>2

\* No two returned checkpoints share a counter value.
THEOREM CountersUnique == Spec => []CheckpointCountersUnique
<1>1. Init => CheckpointCountersUnique
  BY DEF Init, CheckpointCountersUnique
<1>2. ASSUME TypeOK, PublishedIsSealed, LogCounterAgrees, CheckpointCountersUnique, [Next]_vars
      PROVE  CheckpointCountersUnique'
  <2> SUFFICES ASSUME SingleInstance,
                      NEW a \in published', NEW b \in published', a.counter = b.counter
               PROVE  a = b
    BY DEF CheckpointCountersUnique
  <2>1. CASE UNCHANGED published
    BY <1>2, <2>1 DEF CheckpointCountersUnique
  <2>2. ASSUME NEW i \in Instances, PublishCheckpoint(i) PROVE a = b
    <3>1. log[i].counter = platformCounter /\ platformCounter \in Nat
      BY <1>2, <2>2 DEF PublishCheckpoint, LogCounterAgrees, Live, TypeOK
    <3>2. \A cp \in published : cp.counter \in Nat /\ cp.counter <= platformCounter
      BY <1>2 DEF PublishedIsSealed, TypeOK, Checkpoint
    <3>3. published' = published \cup {SignedCheckpoint(i)}
          /\ SignedCheckpoint(i).counter = platformCounter + 1
      BY <2>2, <3>1 DEF PublishCheckpoint, SignedCheckpoint
    <3> QED BY <1>2, <3>1, <3>2, <3>3 DEF CheckpointCountersUnique
  <2>3. UNCHANGED published \/ \E i \in Instances : PublishCheckpoint(i)
    BY <1>2 DEF Next, Step, Open, vars, Launch, Crash, Drop, BeginOpen, OpenFresh,
                OpenCurrent, OpenLagged, OpenRefused, OpenUnavailable, AppendDecision,
                SaveCheckpoint, FailCheckpoint, HostServes
  <2> QED BY <2>1, <2>2, <2>3
<1>3. LineageInv => PublishedIsSealed
  BY DEF LineageInv
<1> QED
  BY <1>1, <1>2, <1>3, LineageInvariant, CounterAgreement, PTL DEF Spec

-----------------------------------------------------------------------------
(* One enclave at a time on an honest store. *)

\* The store holds the last state sealed, at the platform's counter or, while a
\* checkpoint is unfinished, one ahead of it.
StoredIsCurrent ==
  /\ stored # Noise
  /\ stored = NoBlob => platformCounter = 0
  /\ stored # NoBlob => stored.counter \in {platformCounter, platformCounter + 1}
  /\ \A i \in Instances : log[i].status = "saved" => stored = NextState(i)

\* Published, then committed, then live: each history continues the one before.
HistoriesOrdered ==
  /\ \A cp \in published : ExtensionOf(CommittedHead, cp.head)
  /\ \A i \in Instances : Live(i) => ExtensionOf(log[i].head, CommittedHead)

HonestInv == StoredIsCurrent /\ HistoriesOrdered /\ CountersAgree

\* What the honest store commits to is a history.
LEMMA CommittedHeadType ==
  ASSUME TypeOK, HonestInv
  PROVE  CommittedHead \in Hash
BY ZeroHashType, StoredState DEF CommittedHead, HonestInv, StoredIsCurrent, State

\* A step in which the store keeps the same state.
LEMMA KeptStoreStep ==
  ASSUME TypeOK, TypeOK', HonestInv, UNCHANGED stored,
         \A cp \in published' : cp \in published \/ cp.head = CommittedHead,
         stored = NoBlob => platformCounter' = 0,
         stored # NoBlob => stored.counter \in {platformCounter', platformCounter' + 1},
         \A i \in Instances :
           /\ log'[i].status = "saved" => log'[i] = log[i]
           /\ Live(i)' => \/ Live(i) /\ ExtensionOf(log'[i].head, log[i].head)
                          \/ log'[i].head = CommittedHead
  PROVE  StoredIsCurrent' /\ HistoriesOrdered'
<1>1. CommittedHead \in Hash /\ CommittedHead' = CommittedHead
  BY CommittedHeadType DEF CommittedHead
<1>2. StoredIsCurrent'
  BY DEF HonestInv, StoredIsCurrent, NextState
<1>3. \A cp \in published' : ExtensionOf(CommittedHead', cp.head)
  BY <1>1, ExtensionReflexive DEF HonestInv, HistoriesOrdered
<1>4. ASSUME NEW i \in Instances, Live(i)' PROVE ExtensionOf(log'[i].head, CommittedHead')
  <2>1. CASE log'[i].head = CommittedHead
    BY <2>1, <1>1, ExtensionReflexive
  <2>2. CASE Live(i) /\ ExtensionOf(log'[i].head, log[i].head)
    <3>1. ExtensionOf(log[i].head, CommittedHead)
      BY <2>2 DEF HonestInv, HistoriesOrdered
    <3>2. log[i].head \in Hash /\ log'[i].head \in Hash
      BY DEF TypeOK, LogRecord
    <3> QED BY <2>2, <3>1, <3>2, <1>1, ExtensionTransitive
  <2> QED BY <1>4, <2>1, <2>2
<1> QED BY <1>2, <1>3, <1>4 DEF HistoriesOrdered

\* A step in which the store receives the state of the open log.
LEMMA StoreStep ==
  ASSUME SingleInstance, TypeOK, TypeOK', HonestInv, NEW i \in Instances,
         log[i].status = "open", stored' = NextState(i),
         UNCHANGED <<platformCounter, published>>,
         log'[i].head = log[i].head, log'[i].count = log[i].count,
         log'[i].counter = log[i].counter
  PROVE  /\ StoredIsCurrent' /\ HistoriesOrdered'
         /\ ExtensionOf(CommittedHead', CommittedHead)
<1>1. /\ NextState(i) \in State /\ log[i].head \in Hash /\ CommittedHead \in Hash
      /\ NextState(i).counter = platformCounter + 1 /\ NextState(i).head = log[i].head
  BY NextStateType, CommittedHeadType
     DEF TypeOK, LogRecord, NextState, HonestInv, CountersAgree, Counting, Live
<1>2. stored' # NoBlob /\ stored' # Noise
  BY <1>1, BlobsAssumption
<1>3. CommittedHead' = log[i].head
  BY <1>1, <1>2 DEF CommittedHead
<1>4. StoredIsCurrent'
  BY <1>1, <1>2 DEF StoredIsCurrent, SingleInstance, NextState
<1>5. ExtensionOf(log[i].head, CommittedHead)
  BY DEF HonestInv, HistoriesOrdered, Live
<1>6. ASSUME NEW cp \in published' PROVE ExtensionOf(CommittedHead', cp.head)
  <2>1. ExtensionOf(CommittedHead, cp.head) /\ cp.head \in Hash
    BY DEF HonestInv, HistoriesOrdered, TypeOK, Checkpoint
  <2> QED BY <2>1, <1>1, <1>3, <1>5, ExtensionTransitive
<1>7. ASSUME NEW j \in Instances PROVE ExtensionOf(log'[j].head, CommittedHead')
  BY <1>1, <1>3, ExtensionReflexive DEF SingleInstance
<1> QED BY <1>3, <1>4, <1>5, <1>6, <1>7 DEF HistoriesOrdered

\* With an honest store every step keeps the histories ordered, and is a step of
\* AppendOnlyHistory or leaves its variables alone.
LEMMA HonestStep ==
  ASSUME SingleInstance, ~HostTampers, TypeOK, HonestInv, [Next]_vars
  PROVE  HonestInv' /\ [History!Next]_(History!vars)
<1>0. TypeOK' /\ CountersAgree'
  BY TypeStep, CounterStep DEF HonestInv
<1>a. \A i \in Instances : log[i] \in LogRecord /\ log'[i] \in LogRecord
  BY <1>0 DEF TypeOK
<1>b. \A i \in Instances : ExtensionOf(log[i].head, log[i].head)
  BY <1>a, ExtensionReflexive DEF LogRecord
<1>c. platformCounter \in Nat
  BY DEF TypeOK
<1>e. \A i \in Instances : log[i].status = "opening" => log[i].counter = platformCounter
  BY DEF HonestInv, CountersAgree, Counting
<1>d. ASSUME UNCHANGED <<stored, published>>, StoredIsCurrent', HistoriesOrdered'
      PROVE  HonestInv' /\ [History!Next]_(History!vars)
  BY <1>d, <1>0 DEF HonestInv, History!vars, CommittedHead
<1>1. ASSUME NEW i \in Instances, Launch(i) \/ Crash(i) \/ Drop(i) \/ BeginOpen(i)
                                 \/ OpenRefused(i) \/ OpenUnavailable(i)
      PROVE  HonestInv' /\ [History!Next]_(History!vars)
  <2>1. /\ UNCHANGED <<stored, published, platformCounter>>
        /\ \A j \in Instances : j # i => log'[j] = log[j]
        /\ log'[i].status \in {"off", "closed", "opening"}
    BY <1>1, <1>a DEF Launch, Crash, Drop, BeginOpen, OpenRefused, OpenUnavailable, Idle,
                      TypeOK, LogRecord
  <2>2. stored = NoBlob => platformCounter = 0
    BY DEF HonestInv, StoredIsCurrent
  <2>3. stored # NoBlob => stored.counter \in {platformCounter, platformCounter + 1}
    BY DEF HonestInv, StoredIsCurrent
  <2>4. StoredIsCurrent' /\ HistoriesOrdered'
    BY <2>1, <2>2, <2>3, <1>0, <1>b, KeptStoreStep DEF Live
  <2> QED BY <2>1, <2>4, <1>d
<1>2. ASSUME NEW i \in Instances, Open(i)
      PROVE  HonestInv' /\ [History!Next]_(History!vars)
  <2>1. /\ UNCHANGED <<stored, published>>
        /\ \A j \in Instances : j # i => log'[j] = log[j]
        /\ log'[i].status = "open" /\ log'[i].head = CommittedHead
        /\ stored = NoBlob => platformCounter' = 0
        /\ stored # NoBlob => stored.counter = platformCounter'
    BY <1>2, <1>c, <1>a, <1>e DEF Open, OpenFresh, OpenCurrent, OpenLagged, Adopt, TypeOK, CommittedHead
  <2>2. StoredIsCurrent' /\ HistoriesOrdered'
    BY <2>1, <1>0, <1>b, KeptStoreStep DEF Live
  <2> QED BY <2>1, <2>2, <1>d
<1>3. ASSUME UNCHANGED <<stored, published, platformCounter, log>>
      PROVE  HonestInv' /\ [History!Next]_(History!vars)
  <2>1. StoredIsCurrent' /\ HistoriesOrdered'
    BY <1>3 DEF HonestInv, StoredIsCurrent, HistoriesOrdered, CommittedHead, Live, NextState
  <2> QED BY <1>3, <2>1, <1>d
<1>4. ASSUME NEW i \in Instances, AppendDecision(i)
      PROVE  HonestInv' /\ [History!Next]_(History!vars)
  <2> DEFINE e == NewEntry(log[i].count, log[i].head, decisions + 1)
  <2>1. ExtensionOf(e.hash, log[i].head)
    BY NewEntryExtends DEF TypeOK, LogRecord
  <2>2. /\ UNCHANGED <<published, platformCounter, stored>>
        /\ \A j \in Instances : j # i => log'[j] = log[j]
        /\ log[i].status = "open" /\ log'[i].status = "open"
        /\ log'[i].head = e.hash
    BY <1>4, <1>a DEF AppendDecision, TypeOK, LogRecord
  <2> HIDE DEF e
  <2>3. /\ stored = NoBlob => platformCounter = 0
        /\ stored # NoBlob => stored.counter \in {platformCounter, platformCounter + 1}
    BY DEF HonestInv, StoredIsCurrent
  <2>4. StoredIsCurrent' /\ HistoriesOrdered'
    BY <2>1, <2>2, <2>3, <1>0, <1>b, KeptStoreStep DEF Live
  <2> QED BY <2>2, <2>4, <1>d
<1>5. ASSUME NEW i \in Instances, SaveCheckpoint(i) \/ (FailCheckpoint(i) /\ stored' = NextState(i))
      PROVE  HonestInv' /\ [History!Next]_(History!vars)
  <2>1. /\ log[i].status = "open" /\ stored' = NextState(i)
        /\ UNCHANGED <<platformCounter, published>>
        /\ log'[i].head = log[i].head /\ log'[i].count = log[i].count
        /\ log'[i].counter = log[i].counter
    BY <1>5, <1>a DEF SaveCheckpoint, FailCheckpoint, TypeOK, LogRecord
  <2>2. StoredIsCurrent' /\ HistoriesOrdered' /\ ExtensionOf(CommittedHead', CommittedHead)
    BY <2>1, <1>0, StoreStep
  <2> QED BY <2>1, <2>2, <1>0 DEF HonestInv, History!Next, History!Commit, History!ExtensionOf,
                                  ExtensionOf
<1>6. ASSUME NEW i \in Instances, PublishCheckpoint(i)
      PROVE  HonestInv' /\ [History!Next]_(History!vars)
  <2>1. /\ \A j \in Instances : j # i => log'[j] = log[j]
        /\ log[i].status = "saved" /\ log'[i].status = "open"
        /\ log'[i].head = log[i].head
        /\ UNCHANGED stored
        /\ published' = published \cup {SignedCheckpoint(i)}
        /\ platformCounter' = platformCounter + 1
    BY <1>6, <1>a DEF PublishCheckpoint, TypeOK, LogRecord
  <2>2. stored = NextState(i) /\ log[i].counter = platformCounter
    BY <2>1 DEF HonestInv, StoredIsCurrent, CountersAgree, Counting, Live
  <2>3. stored # NoBlob /\ stored.head = log[i].head /\ stored.counter = platformCounter'
    BY <2>1, <2>2, NextStateType, BlobsAssumption DEF NextState
  <2>4. CommittedHead = log[i].head /\ CommittedHead' = CommittedHead
        /\ SignedCheckpoint(i).head = CommittedHead
    BY <2>1, <2>3 DEF CommittedHead, SignedCheckpoint
  <2>5. StoredIsCurrent' /\ HistoriesOrdered'
    BY <2>1, <2>3, <2>4, <1>0, <1>b, KeptStoreStep DEF Live
  <2>6. {cp.head : cp \in published'} = {cp.head : cp \in published} \cup {CommittedHead}
    BY <2>1, <2>4
  <2> QED BY <2>4, <2>5, <2>6, <1>0 DEF HonestInv, History!Next, History!Attest
<1> QED
  BY <1>1, <1>2, <1>3, <1>4, <1>5, <1>6
     DEF Next, Step, vars, FailCheckpoint, HostServes

\* Before the first launch nothing is committed, attested or counted.
LEMMA InitHonest == Init => HonestInv /\ History!Init
BY InitCounters, BlobsAssumption, ZeroHashType, ExtensionReflexive
   DEF Init, HonestInv, StoredIsCurrent, HistoriesOrdered, Live, Counting, Idle, CommittedHead,
       History!Init, History!ZeroHash, ZeroHash

\* One enclave on an honest store keeps its histories ordered.
LEMMA HonestInvariant ==
  ASSUME SingleInstance, ~HostTampers
  PROVE  Spec => [](TypeOK /\ HonestInv)
<1>1. TypeOK /\ HonestInv /\ [Next]_vars => (TypeOK /\ HonestInv)'
  BY TypeStep, HonestStep
<1> QED
  BY <1>1, InitTyped, InitHonest, PTL DEF Spec

\* With an honest store and one enclave at a time, the log implements the
\* append-only history: no crash, failed save or reopening ever takes back what
\* was committed or contradicts what was attested.
THEOREM Refinement ==
  ASSUME SingleInstance, ~HostTampers
  PROVE  Spec => ImplementsAppendOnlyHistory
<1>1. TypeOK /\ HonestInv /\ [Next]_vars => [History!Next]_(History!vars)
  BY HonestStep
<1>2. Init => History!Init
  BY InitHonest
<1> QED
  BY <1>1, <1>2, HonestInvariant, PTL DEF Spec, ImplementsAppendOnlyHistory, History!Spec

\* With an honest store, an open log continues every checkpoint ever returned.
THEOREM HonestLogCovers == Spec => []HonestLogCoversPublished
<1>1. CASE SingleInstance /\ ~HostTampers
  <2>1. TypeOK /\ HonestInv => HonestLogCoversPublished
    <3> SUFFICES ASSUME TypeOK, HonestInv, NEW i \in Instances, Live(i), NEW cp \in published
                 PROVE  ExtensionOf(log[i].head, cp.head)
      BY DEF HonestLogCoversPublished, CoversPublished
    <3>1. ExtensionOf(log[i].head, CommittedHead) /\ ExtensionOf(CommittedHead, cp.head)
      BY DEF HonestInv, HistoriesOrdered
    <3>2. log[i].head \in Hash /\ cp.head \in Hash /\ CommittedHead \in Hash
      BY CommittedHeadType DEF TypeOK, LogRecord, Checkpoint
    <3> QED BY <3>1, <3>2, ExtensionTransitive
  <2> QED BY <1>1, <2>1, HonestInvariant, PTL
<1>2. CASE ~(SingleInstance /\ ~HostTampers)
  <2>1. HonestLogCoversPublished
    BY <1>2 DEF HonestLogCoversPublished
  <2> QED BY <2>1, PTL
<1> QED BY <1>1, <1>2

\* An honest store is never taken for a rollback or for corruption.
THEOREM HonestOpens == Spec => []HonestStoreOpens
<1>1. CASE SingleInstance /\ ~HostTampers
  <2>1. Init => HonestStoreOpens
    BY DEF Init, HonestStoreOpens
  <2>2. ASSUME TypeOK, HonestInv, HonestStoreOpens, [Next]_vars
        PROVE  HonestStoreOpens'
    <3> DEFINE Usual == {"none", "ok", "lagged", "unavailable"}
    <3>1. \A j \in Instances : outcome[j] \notin {"rollback", "corrupt"}
      BY <1>1, <2>2 DEF HonestStoreOpens
    <3>2. outcome \in [Instances -> {"none", "ok", "lagged", "rollback", "corrupt", "unavailable"}]
      BY <2>2 DEF TypeOK
    <3>3. \A i \in Instances :
            log[i].status = "opening" => RefusalOf(stored, log[i].counter) = "none"
      BY <1>1, <2>2, StoredState DEF RefusalOf, HonestInv, StoredIsCurrent, CountersAgree,
                                     Counting, TypeOK, State
    <3>4. \/ UNCHANGED outcome
          \/ \E i \in Instances : \E o \in Usual : outcome' = [outcome EXCEPT ![i] = o]
      BY <2>2, <3>3 DEF Next, Step, Open, vars, Launch, Crash, Drop, BeginOpen, OpenFresh,
                OpenCurrent, OpenLagged, OpenRefused, OpenUnavailable, AppendDecision,
                SaveCheckpoint, FailCheckpoint, PublishCheckpoint, HostServes
    <3> QED BY <3>1, <3>2, <3>4 DEF HonestStoreOpens
  <2>3. TypeOK /\ HonestInv /\ HonestStoreOpens /\ [Next]_vars => HonestStoreOpens'
    BY <2>2
  <2> QED BY <1>1, <2>1, <2>3, HonestInvariant, PTL DEF Spec
<1>2. CASE ~(SingleInstance /\ ~HostTampers)
  <2>1. HonestStoreOpens
    BY <1>2 DEF HonestStoreOpens
  <2> QED BY <2>1, PTL
<1> QED BY <1>1, <1>2

\* While no checkpoint is under way, one was cut short exactly if the stored state
\* is ahead of the platform's counter.
InterruptionShows ==
  (\A i \in Instances : log[i].status # "saved") =>
    (interrupted <=> stored # NoBlob /\ stored.counter = platformCounter + 1)

\* Only a checkpoint that is cut short moves the store and leaves the counter behind.
LEMMA InterruptionStep ==
  ASSUME SingleInstance, ~HostTampers, TypeOK, HonestInv, InterruptionShows, [Next]_vars
  PROVE  InterruptionShows'
<1> SUFFICES ASSUME \A i \in Instances : log'[i].status # "saved"
             PROVE  interrupted' <=> stored' # NoBlob /\ stored'.counter = platformCounter' + 1
  BY DEF InterruptionShows
<1> DEFINE Ahead == stored # NoBlob /\ stored.counter = platformCounter + 1
<1>1. platformCounter \in Nat /\ \A i \in Instances : log[i] \in LogRecord
  BY DEF TypeOK
<1>2. ASSUME UNCHANGED <<stored, platformCounter, interrupted>>,
             \A i \in Instances : log[i].status # "saved"
      PROVE  interrupted' <=> Ahead'
  BY <1>2 DEF InterruptionShows
<1>3. ASSUME NEW i \in Instances, log[i].status # "saved"
      PROVE  /\ \A j \in Instances : log[j].status # "saved"
             /\ interrupted <=> Ahead
  BY <1>3 DEF SingleInstance, InterruptionShows
<1>4. ASSUME NEW i \in Instances, log[i].status \in {"open", "saved"}
      PROVE  /\ NextState(i).counter = platformCounter + 1
             /\ NextState(i) # NoBlob
             /\ log[i].status = "saved" => stored = NextState(i)
  <2>1. NextState(i) \in State /\ NextState(i).counter = log[i].counter + 1
    BY NextStateType DEF NextState
  <2>2. log[i].counter = platformCounter
    BY <1>4 DEF HonestInv, CountersAgree, Counting, Live
  <2> QED BY <1>4, <2>1, <2>2, BlobsAssumption DEF HonestInv, StoredIsCurrent
<1>5. ASSUME NEW i \in Instances,
             Launch(i) \/ Drop(i) \/ BeginOpen(i) \/ OpenFresh(i) \/ OpenCurrent(i)
               \/ OpenRefused(i) \/ OpenUnavailable(i) \/ AppendDecision(i)
      PROVE  interrupted' <=> Ahead'
  <2>1. log[i].status # "saved" /\ UNCHANGED <<stored, platformCounter, interrupted>>
    BY <1>5 DEF Launch, Drop, BeginOpen, OpenFresh, OpenCurrent, OpenRefused,
                OpenUnavailable, AppendDecision
  <2> QED BY <1>2, <1>3, <2>1
<1>6. ASSUME NEW i \in Instances, Crash(i) PROVE interrupted' <=> Ahead'
  <2>1. CASE log[i].status = "saved"
    BY <1>4, <1>6, <2>1 DEF Crash
  <2>2. CASE log[i].status # "saved"
    <3>1. UNCHANGED <<stored, platformCounter>> /\ (interrupted' <=> interrupted)
      BY <1>6, <2>2 DEF Crash
    <3> QED BY <1>3, <2>2, <3>1
  <2> QED BY <2>1, <2>2
<1>7. ASSUME NEW i \in Instances, OpenLagged(i) PROVE interrupted' <=> Ahead'
  <2>1. log[i].counter = platformCounter
    BY <1>7 DEF OpenLagged, HonestInv, CountersAgree, Counting
  <2>2. /\ stored' = stored /\ stored.counter = platformCounter + 1
        /\ platformCounter' = platformCounter + 1 /\ interrupted' = FALSE
    BY <1>7, <2>1 DEF OpenLagged
  <2> QED BY <1>1, <2>2
<1>8. ASSUME NEW i \in Instances, SaveCheckpoint(i) PROVE FALSE
  BY <1>8 DEF SaveCheckpoint, TypeOK
<1>9. ASSUME NEW i \in Instances, FailCheckpoint(i) PROVE interrupted' <=> Ahead'
  <2>1. log[i].status = "open" /\ platformCounter' = platformCounter
    BY <1>9 DEF FailCheckpoint
  <2>2. CASE UNCHANGED <<stored, interrupted>>
    BY <1>2, <1>3, <2>1, <2>2
  <2>3. CASE stored' = NextState(i) /\ interrupted' = TRUE
    BY <1>4, <2>1, <2>3
  <2> QED BY <1>9, <2>2, <2>3 DEF FailCheckpoint
<1>10. ASSUME NEW i \in Instances, PublishCheckpoint(i) PROVE interrupted' <=> Ahead'
  <2>1. /\ log[i].status = "saved" /\ stored' = stored
        /\ platformCounter' = platformCounter + 1 /\ interrupted' = FALSE
    BY <1>10 DEF PublishCheckpoint
  <2> QED BY <1>1, <1>4, <2>1
<1>11. CASE UNCHANGED vars
  BY <1>2, <1>11 DEF vars
<1> QED
  BY <1>5, <1>6, <1>7, <1>8, <1>9, <1>10, <1>11 DEF Next, Step, Open, HostServes

\* An honest store's log is reported as repaired exactly when a checkpoint was cut
\* short since it was last in order.
THEOREM LagIsReported == Spec => LagReportedExactly
<1> DEFINE Reports == \A i \in Instances : Open(i) => (outcome'[i] = "lagged" <=> interrupted)
<1>1. CASE SingleInstance /\ ~HostTampers
  <2>1. Init => InterruptionShows
    BY DEF Init, InterruptionShows
  <2>2. TypeOK /\ HonestInv /\ InterruptionShows /\ [Next]_vars => InterruptionShows'
    BY <1>1, InterruptionStep
  <2>3. ASSUME TypeOK, HonestInv, InterruptionShows PROVE Reports
    <3> SUFFICES ASSUME NEW i \in Instances, Open(i)
                 PROVE  outcome'[i] = "lagged" <=> interrupted
      OBVIOUS
    <3>1. log[i].status = "opening" /\ log[i].counter = platformCounter
      <4>1. log[i].status = "opening"
        BY DEF Open, OpenFresh, OpenCurrent, OpenLagged
      <4> QED BY <1>1, <2>3, <4>1 DEF HonestInv, CountersAgree, Counting
    <3>2. interrupted <=> stored # NoBlob /\ stored.counter = platformCounter + 1
      BY <1>1, <2>3, <3>1 DEF SingleInstance, InterruptionShows
    <3>3. DOMAIN outcome = Instances
      BY <2>3 DEF TypeOK
    <3>4. platformCounter \in Nat
      BY <2>3 DEF TypeOK
    <3>5. CASE OpenLagged(i)
      <4>1. stored # NoBlob /\ stored.counter = platformCounter + 1
        BY <3>1, <3>5 DEF OpenLagged
      <4>2. outcome' = [outcome EXCEPT ![i] = "lagged"]
        BY <3>5 DEF OpenLagged
      <4> QED BY <3>2, <3>3, <4>1, <4>2
    <3>6. CASE OpenFresh(i) \/ OpenCurrent(i)
      <4>1. ~(stored # NoBlob /\ stored.counter = platformCounter + 1)
        BY <3>1, <3>4, <3>6 DEF OpenFresh, OpenCurrent
      <4>2. outcome' = [outcome EXCEPT ![i] = "ok"]
        BY <3>6 DEF OpenFresh, OpenCurrent
      <4> QED BY <3>2, <3>3, <4>1, <4>2
    <3> QED BY <3>5, <3>6 DEF Open
  <2> QED
    BY <1>1, <2>1, <2>2, <2>3, HonestInvariant, PTL DEF Spec, LagReportedExactly
<1>2. CASE ~(SingleInstance /\ ~HostTampers)
  <2>1. SingleInstance /\ ~HostTampers => Reports
    BY <1>2
  <2> QED BY <2>1, PTL DEF LagReportedExactly
<1> QED BY <1>1, <1>2

-----------------------------------------------------------------------------
(* The audit trail: the entries a history is made of were all shipped, so  *)
(* its trail can be presented, and ChainProofs shows that nothing else     *)
(* passes.                                                                 *)

\* r has a history in head, count entries long, and each of them is in es.
Traced(r, es) ==
  /\ IsHistory(r.head, Commitment)
  /\ r.count = Len(r.head)
  /\ \A n \in 1 .. Len(r.head) : TrailOf(r.head)[n] \in es

\* Every log, every sealed state and every checkpoint is traced.
TraceInv ==
  /\ \A i \in Instances : Traced(log[i], issued)
  /\ \A s \in sealed : Traced(s, issued)
  /\ \A cp \in published : Traced(cp, issued)

LEMMA LogEntriesAreEntries == AreEntries(Entry, Commitment)
BY DEF AreEntries, IsEntry, Entry, Commitment

\* The empty history is traced.
LEMMA ZeroIsTraced ==
  ASSUME NEW r, r.head = ZeroHash, r.count = 0, NEW es
  PROVE  Traced(r, es)
BY DEF Traced, IsHistory, ZeroHash

\* Entries are never taken back.
LEMMA StaysTraced ==
  ASSUME NEW es, NEW fs, es \subseteq fs,
         NEW r, NEW t, Traced(r, es), t.head = r.head, t.count = r.count
  PROVE  Traced(t, fs)
BY DEF Traced

\* An appended entry traces the log's new head.
LEMMA AppendIsTraced ==
  ASSUME NEW es, NEW r, Traced(r, es), NEW d \in Nat, NEW t,
         t.count = NewEntry(r.count, r.head, d).seq,
         t.head = NewEntry(r.count, r.head, d).hash
  PROVE  Traced(t, es \cup {NewEntry(r.count, r.head, d)})
<1> DEFINE fs == es \cup {NewEntry(r.count, r.head, d)}
           h == r.head
           n == Len(h)
           c == [seq |-> n + 1, decision |-> d]
           a == Append(h, c)
<1>1. h \in Seq(Commitment) /\ n \in Nat /\ r.count = n
  BY DEF Traced, IsHistory
<1>2. c \in Commitment
  BY <1>1 DEF Commitment
<1>3. NewEntry(r.count, h, d) = [seq |-> n + 1, decision |-> d, prevHash |-> h, hash |-> a]
  BY <1>1 DEF NewEntry, ComputeHash
<1>4. t.count = n + 1 /\ t.head = a
  BY <1>3
<1>5. /\ a \in Seq(Commitment) /\ Len(a) = n + 1 /\ a[n + 1] = c
      /\ \A k \in 1 .. n : a[k] = h[k]
  BY <1>1, <1>2, AppendedIs
<1> HIDE DEF a
<1>6. ASSUME NEW k \in 1 .. n + 1 PROVE a[k] = [seq |-> k, decision |-> a[k].decision]
  <2>1. CASE k \in 1 .. n
    BY <1>5, <2>1 DEF Traced, IsHistory
  <2>2. CASE k = n + 1
    BY <1>5, <2>2
  <2> QED BY <1>1, <2>1, <2>2
<1>7. ASSUME NEW k \in 0 .. n PROVE SubSeq(a, 1, k) = SubSeq(h, 1, k)
  <2>1. k \in 0 .. Len(a) /\ k \in 0 .. Len(h)
    BY <1>1, <1>5
  <2>2. /\ SubSeq(a, 1, k) \in Seq(Commitment) /\ Len(SubSeq(a, 1, k)) = k
        /\ \A m \in 1 .. k : SubSeq(a, 1, k)[m] = a[m]
    BY <1>5, <2>1, PrefixIs
  <2>3. /\ SubSeq(h, 1, k) \in Seq(Commitment) /\ Len(SubSeq(h, 1, k)) = k
        /\ \A m \in 1 .. k : SubSeq(h, 1, k)[m] = h[m]
    BY <1>1, <2>1, PrefixIs
  <2>4. \A m \in 1 .. k : SubSeq(a, 1, k)[m] = SubSeq(h, 1, k)[m]
    <3> SUFFICES ASSUME NEW m \in 1 .. k PROVE SubSeq(a, 1, k)[m] = SubSeq(h, 1, k)[m]
      OBVIOUS
    <3>1. m \in 1 .. n
      BY <1>1
    <3> QED BY <1>5, <2>2, <2>3, <3>1
  <2> QED BY <2>2, <2>3, <2>4, SameSequence
<1>8. SubSeq(a, 1, n + 1) = a /\ SubSeq(h, 1, n) = h
  BY <1>1, <1>5, PrefixIs, SameSequence
<1>9. ASSUME NEW k \in 1 .. n + 1 PROVE TrailOf(a)[k] \in fs
  <2>0. TrailOf(a)[k] = [seq |-> k, decision |-> a[k].decision,
                         prevHash |-> SubSeq(a, 1, k - 1), hash |-> SubSeq(a, 1, k)]
    BY <1>5 DEF TrailOf
  <2>1. CASE k \in 1 .. n
    <3>1. TrailOf(h)[k] = [seq |-> k, decision |-> h[k].decision,
                           prevHash |-> SubSeq(h, 1, k - 1), hash |-> SubSeq(h, 1, k)]
      BY <2>1 DEF TrailOf
    <3>2. k - 1 \in 0 .. n /\ k \in 0 .. n
      BY <1>1, <2>1
    <3>3. SubSeq(a, 1, k - 1) = SubSeq(h, 1, k - 1) /\ SubSeq(a, 1, k) = SubSeq(h, 1, k)
      BY <1>7, <3>2
    <3>4. a[k] = h[k]
      BY <1>5, <2>1
    <3>5. TrailOf(a)[k] = TrailOf(h)[k]
      BY <2>0, <3>1, <3>3, <3>4
    <3>6. TrailOf(h)[k] \in es
      BY <2>1 DEF Traced
    <3> QED BY <3>5, <3>6
  <2>2. CASE k = n + 1
    <3>1. a[k].decision = d
      BY <1>5, <2>2
    <3>2. n \in 0 .. n /\ k - 1 = n
      BY <1>1, <2>2
    <3>3. SubSeq(a, 1, k - 1) = h /\ SubSeq(a, 1, k) = a
      BY <1>7, <1>8, <2>2, <3>2
    <3>4. TrailOf(a)[k] = [seq |-> n + 1, decision |-> d, prevHash |-> h, hash |-> a]
      BY <2>0, <2>2, <3>1, <3>3
    <3> QED BY <1>3, <3>4
  <2> QED BY <1>1, <2>1, <2>2
<1> QED BY <1>4, <1>5, <1>6, <1>9 DEF Traced, IsHistory

\* Initially no log has any entry.
LEMMA InitTraced == Init => TraceInv
BY ZeroIsTraced DEF Init, TraceInv, Idle

\* What Checkpoint seals and signs is the log's own history.
LEMMA NextStateTraced ==
  ASSUME TraceInv, NEW i \in Instances, NEW es, issued \subseteq es
  PROVE  Traced(NextState(i), es) /\ Traced(SignedCheckpoint(i), es)
<1>1. /\ NextState(i).head = log[i].head /\ NextState(i).count = log[i].count
      /\ SignedCheckpoint(i).head = log[i].head /\ SignedCheckpoint(i).count = log[i].count
  BY DEF NextState, SignedCheckpoint
<1>2. Traced(log[i], issued)
  BY DEF TraceInv
<1> QED BY <1>1, <1>2, StaysTraced

\* What has to be shown of a step: its entries are added to those shipped, and what
\* is new among logs, sealed states and checkpoints is traced.
LEMMA TraceStep ==
  ASSUME TraceInv, issued \subseteq issued',
         \A i \in Instances : log'[i] = log[i] \/ Traced(log'[i], issued'),
         \A s \in sealed' : s \in sealed \/ Traced(s, issued'),
         \A cp \in published' : cp \in published \/ Traced(cp, issued')
  PROVE  TraceInv'
<1>1. ASSUME NEW r, Traced(r, issued) PROVE Traced(r, issued')
  BY <1>1, StaysTraced
<1>2. \A i \in Instances : Traced(log'[i], issued')
  BY <1>1 DEF TraceInv
<1>3. \A s \in sealed' : Traced(s, issued')
  BY <1>1 DEF TraceInv
<1>4. \A cp \in published' : Traced(cp, issued')
  BY <1>1 DEF TraceInv
<1> QED BY <1>2, <1>3, <1>4 DEF TraceInv

\* Every step keeps everything traced: Append ships the entry it adds, and Open
\* adopts nothing that was not sealed.
LEMMA StepsKeepTraces ==
  ASSUME TypeOK, LineageInv, TraceInv, [Next]_vars
  PROVE  TraceInv'
<1>0. \A i \in Instances : log[i] \in LogRecord /\ Traced(log[i], issued)
  BY DEF TypeOK, TraceInv
<1>1. ASSUME UNCHANGED <<sealed, issued, published>>, NEW i \in Instances,
             \A j \in Instances : j # i => log'[j] = log[j],
             \/ log'[i].head = ZeroHash /\ log'[i].count = 0
             \/ log'[i].head = log[i].head /\ log'[i].count = log[i].count
             \/ \E s \in sealed : log'[i].head = s.head /\ log'[i].count = s.count
      PROVE  TraceInv'
  <2>1. Traced(log'[i], issued)
    BY <1>0, <1>1, ZeroIsTraced, StaysTraced DEF TraceInv
  <2> QED BY <1>1, <2>1, TraceStep
<1>2. ASSUME NEW i \in Instances, Launch(i) \/ Crash(i) \/ Drop(i) \/ OpenRefused(i) \/ OpenUnavailable(i)
      PROVE  TraceInv'
  <2>1. \A j \in Instances : j # i => log'[j] = log[j]
    BY <1>2, <1>0 DEF Launch, Crash, Drop, OpenRefused, OpenUnavailable, TypeOK
  <2>2. log'[i].head = ZeroHash /\ log'[i].count = 0
    BY <1>2, <1>0 DEF Launch, Crash, Drop, OpenRefused, OpenUnavailable, TypeOK, Idle
  <2>3. UNCHANGED <<sealed, issued, published>>
    BY <1>2 DEF Launch, Crash, Drop, OpenRefused, OpenUnavailable
  <2> QED BY <1>1, <2>1, <2>2, <2>3
<1>3. ASSUME NEW i \in Instances, BeginOpen(i) PROVE TraceInv'
  <2>1. /\ UNCHANGED <<sealed, issued, published>>
        /\ \A j \in Instances : j # i => log'[j] = log[j]
        /\ log'[i].head = log[i].head /\ log'[i].count = log[i].count
    BY <1>3, <1>0 DEF BeginOpen, TypeOK, LogRecord
  <2> QED BY <1>1, <2>1
<1>4. ASSUME NEW i \in Instances, Open(i) PROVE TraceInv'
  <2>1. UNCHANGED <<sealed, issued, published>> /\ \A j \in Instances : j # i => log'[j] = log[j]
    BY <1>4 DEF Open, OpenFresh, OpenCurrent, OpenLagged, Adopt, TypeOK
  <2>2. CASE OpenFresh(i)
    <3>1. log'[i].head = ZeroHash /\ log'[i].count = 0
      BY <2>2 DEF OpenFresh, Adopt, TypeOK
    <3> QED BY <1>1, <2>1, <3>1
  <2>3. CASE OpenCurrent(i) \/ OpenLagged(i)
    <3>1. stored \in sealed
      BY <2>3 DEF OpenCurrent, OpenLagged, LineageInv, StoredIsSealed
    <3>2. log'[i].head = stored.head /\ log'[i].count = stored.count
      BY <2>3 DEF OpenCurrent, OpenLagged, Adopt, TypeOK
    <3> QED BY <1>1, <2>1, <3>1, <3>2
  <2> QED BY <1>4, <2>2, <2>3 DEF Open
<1>5. ASSUME NEW i \in Instances, AppendDecision(i) PROVE TraceInv'
  <2> DEFINE e == NewEntry(log[i].count, log[i].head, decisions + 1)
  <2>1. issued' = issued \cup {e} /\ UNCHANGED <<sealed, published>>
    BY <1>5 DEF AppendDecision
  <2>2. \A j \in Instances : j # i => log'[j] = log[j]
    BY <1>5 DEF AppendDecision, TypeOK
  <2>3. log'[i].count = e.seq /\ log'[i].head = e.hash
    BY <1>0, <1>5 DEF AppendDecision, TypeOK, LogRecord
  <2>4. decisions + 1 \in Nat
    BY DEF TypeOK
  <2>5. Traced(log'[i], issued \cup {e})
    BY <1>0, <2>3, <2>4, AppendIsTraced
  <2> HIDE DEF e
  <2> QED BY <2>1, <2>2, <2>5, TraceStep
<1>6. ASSUME NEW i \in Instances, SaveCheckpoint(i) \/ FailCheckpoint(i) PROVE TraceInv'
  <2>1. /\ UNCHANGED <<issued, published>> /\ sealed' = sealed \cup {NextState(i)}
        /\ \A j \in Instances : log'[j].head = log[j].head /\ log'[j].count = log[j].count
    BY <1>6, <1>0 DEF SaveCheckpoint, FailCheckpoint, TypeOK, LogRecord
  <2>2. Traced(NextState(i), issued)
    BY NextStateTraced
  <2>3. \A j \in Instances : Traced(log'[j], issued)
    BY <1>0, <2>1, StaysTraced
  <2> QED BY <2>1, <2>2, <2>3, TraceStep
<1>7. ASSUME NEW i \in Instances, PublishCheckpoint(i) PROVE TraceInv'
  <2>1. /\ UNCHANGED <<issued, sealed>> /\ published' = published \cup {SignedCheckpoint(i)}
        /\ \A j \in Instances : log'[j].head = log[j].head /\ log'[j].count = log[j].count
    BY <1>7, <1>0 DEF PublishCheckpoint, TypeOK, LogRecord
  <2>2. Traced(SignedCheckpoint(i), issued)
    BY NextStateTraced
  <2>3. \A j \in Instances : Traced(log'[j], issued)
    BY <1>0, <2>1, StaysTraced
  <2> QED BY <2>1, <2>2, <2>3, TraceStep
<1>8. CASE UNCHANGED <<log, sealed, issued, published>>
  BY <1>8 DEF TraceInv
<1> QED
  BY <1>2, <1>3, <1>4, <1>5, <1>6, <1>7, <1>8 DEF Next, Step, HostServes, vars

\* The entries of every history were shipped.
LEMMA TraceInvariant == Spec => []TraceInv
<1>1. TypeOK /\ LineageInv /\ TraceInv /\ [Next]_vars => TraceInv'
  BY StepsKeepTraces
<1> QED BY <1>1, InitTraced, LineageInvariant, PTL DEF Spec

-----------------------------------------------------------------------------

\* The trail of a traced checkpoint can be presented.
LEMMA TrailIsShipped ==
  ASSUME NEW cp, NEW es, es \subseteq Entry, Traced(cp, es)
  PROVE  /\ IsHistory(cp.head, Commitment) /\ cp.count = Len(cp.head) /\ cp.count \in Nat
         /\ TrailOf(cp.head) \in [1 .. cp.count -> es]
         /\ TrailOf(cp.head) \in Seq(Entry)
<1>1. IsHistory(cp.head, Commitment) /\ cp.count = Len(cp.head) /\ cp.count \in Nat
  BY DEF Traced, IsHistory
<1>2. \A n \in 1 .. cp.count : TrailOf(cp.head)[n] \in es
  BY <1>1 DEF Traced
<1>3. TrailOf(cp.head) \in [1 .. cp.count -> es]
  BY <1>1, <1>2 DEF TrailOf
<1> QED BY <1>1, <1>3

\* A returned checkpoint can be audited for ever, and means one thing: exactly one
\* run of the shipped entries verifies against it.
THEOREM AuditIsExact == Spec => []AuditExactlyOne
<1>1. ASSUME TypeOK, TraceInv PROVE AuditExactlyOne
  <2> SUFFICES ASSUME NEW cp \in published
               PROVE  Cardinality({es \in [1..cp.count -> issued] : Verify(es, cp, cp.signer) = "ok"}) = 1
    BY DEF AuditExactlyOne
  <2>1. issued \subseteq Entry /\ Traced(cp, issued)
    BY <1>1 DEF TypeOK, TraceInv
  <2>2. /\ IsHistory(cp.head, Commitment) /\ cp.count = Len(cp.head) /\ cp.count \in Nat
        /\ TrailOf(cp.head) \in [1 .. cp.count -> issued]
    BY <2>1, TrailIsShipped
  <2>3. ASSUME NEW es \in [1 .. cp.count -> issued]
        PROVE  (Verify(es, cp, cp.signer) = "ok") <=> es = TrailOf(cp.head)
    <3>1. es \in Seq(Entry)
      BY <2>1, <2>2
    <3> QED BY <2>2, <3>1, LogEntriesAreEntries, VerifyIsTrail
  <2>4. {es \in [1..cp.count -> issued] : Verify(es, cp, cp.signer) = "ok"} = {TrailOf(cp.head)}
    BY <2>2, <2>3
  <2> QED BY <2>4, FS_Singleton
<1> QED BY <1>1, TypeCorrect, TraceInvariant, PTL

\* The trail of a checkpoint passes the auditor's growth check against an older
\* checkpoint of the same engine that its history continues.
LEMMA ContinuationIsShown ==
  ASSUME TypeOK, TraceInv, NEW older \in published, NEW newer \in published,
         older.signer = newer.signer, older.counter <= newer.counter,
         ExtensionOf(newer.head, older.head)
  PROVE  \E es \in [1..newer.count -> issued] :
           VerifyAppendOnly(es, older, newer, newer.signer) = "ok"
<1>1. issued \subseteq Entry /\ Traced(older, issued) /\ Traced(newer, issued)
  BY DEF TypeOK, TraceInv
<1>2. IsHistory(older.head, Commitment) /\ older.count = Len(older.head)
  BY <1>1, TrailIsShipped
<1>3. /\ IsHistory(newer.head, Commitment) /\ newer.count = Len(newer.head)
      /\ TrailOf(newer.head) \in [1 .. newer.count -> issued]
      /\ TrailOf(newer.head) \in Seq(Entry)
  BY <1>1, TrailIsShipped
<1>4. VerifyAppendOnly(TrailOf(newer.head), older, newer, newer.signer) = "ok"
  BY <1>2, <1>3, LogEntriesAreEntries, GrowthIsPrefix
<1> QED BY <1>3, <1>4

\* Whatever the store serves and however many enclaves share the counter, the
\* later of two checkpoints of one engine passes the growth check, unless the
\* earlier one's counter value was sealed twice.
THEOREM GrowthDespiteHost == Spec => []GrowthUnlessResealed
<1>1. ASSUME TypeOK, LineageInv, TraceInv PROVE GrowthUnlessResealed
  <2> SUFFICES ASSUME NEW older \in published, NEW newer \in published,
                      older.signer = newer.signer, older.counter <= newer.counter,
                      SealedOnce(older.counter)
               PROVE  \E es \in [1..newer.count -> issued] :
                        VerifyAppendOnly(es, older, newer, newer.signer) = "ok"
    BY DEF GrowthUnlessResealed
  <2>1. PICK s \in sealed : s.counter = newer.counter /\ s.head = newer.head
    BY <1>1 DEF LineageInv, PublishedIsSealed
  <2>2. s.head \in Hash /\ s.counter \in Nat
    BY <1>1 DEF TypeOK, State
  <2>3. SealedBelow(s.head, s.counter)
    BY <1>1, SealedStateGrounds
  <2>4. ExtensionOf(newer.head, older.head)
    BY <1>1, <2>1, <2>2, <2>3, RootedCovers
  <2> QED BY <1>1, <2>4, ContinuationIsShown
<1> QED BY <1>1, LineageInvariant, TraceInvariant, PTL

-----------------------------------------------------------------------------
(* One enclave at a time on an honest store. *)

\* Returned checkpoints continue each other in the order of their counters.
CheckpointsGrow ==
  \A older, newer \in published :
    older.counter <= newer.counter => ExtensionOf(newer.head, older.head)

\* A new checkpoint has the highest counter and is about all that is committed.
LEMMA GrowthStep ==
  ASSUME SingleInstance, ~HostTampers, TypeOK, LineageInv, HonestInv, CheckpointsGrow, [Next]_vars
  PROVE  CheckpointsGrow'
<1>1. CASE UNCHANGED published
  BY <1>1 DEF CheckpointsGrow
<1>2. ASSUME NEW i \in Instances, PublishCheckpoint(i) PROVE CheckpointsGrow'
  <2> DEFINE new == SignedCheckpoint(i)
  <2>1. log[i].status = "saved" /\ published' = published \cup {new}
    BY <1>2 DEF PublishCheckpoint
  <2>2. log[i].counter = platformCounter /\ platformCounter \in Nat /\ log[i].head \in Hash
    BY <2>1 DEF HonestInv, CountersAgree, Counting, Live, TypeOK, LogRecord
  <2>3. new.counter = platformCounter + 1 /\ new.head = log[i].head
    BY <2>2 DEF SignedCheckpoint
  <2>4. \A cp \in published : cp.counter \in Nat /\ cp.counter <= platformCounter
    BY DEF LineageInv, PublishedIsSealed, TypeOK, Checkpoint
  <2>5. CommittedHead = log[i].head
    <3>1. stored = NextState(i)
      BY <2>1 DEF HonestInv, StoredIsCurrent
    <3>2. NextState(i) # NoBlob /\ NextState(i).head = log[i].head
      BY NextStateType, BlobsAssumption DEF NextState
    <3> QED BY <3>1, <3>2 DEF CommittedHead
  <2>6. \A cp \in published : ExtensionOf(new.head, cp.head)
    BY <2>3, <2>5 DEF HonestInv, HistoriesOrdered
  <2>7. ExtensionOf(new.head, new.head)
    BY <2>2, <2>3, ExtensionReflexive
  <2> HIDE DEF new
  <2>8. ASSUME NEW older \in published', NEW newer \in published', older.counter <= newer.counter
        PROVE  ExtensionOf(newer.head, older.head)
    <3>1. CASE older \in published /\ newer \in published
      BY <2>8, <3>1 DEF CheckpointsGrow
    <3>2. CASE newer = new
      BY <2>1, <2>6, <2>7, <3>2
    <3>3. CASE older = new /\ newer \in published
      BY <2>2, <2>3, <2>4, <2>8, <3>3
    <3> QED BY <2>1, <3>1, <3>2, <3>3
  <2> QED BY <2>8 DEF CheckpointsGrow
<1>3. UNCHANGED published \/ \E i \in Instances : PublishCheckpoint(i)
  BY DEF Next, Step, Open, vars, Launch, Crash, Drop, BeginOpen, OpenFresh,
         OpenCurrent, OpenLagged, OpenRefused, OpenUnavailable, AppendDecision,
         SaveCheckpoint, FailCheckpoint, HostServes
<1> QED BY <1>1, <1>2, <1>3

\* With an honest store, any two checkpoints of one engine pass the auditor's growth
\* check on the entries that were shipped.
THEOREM GrowthIsShown == Spec => []OneKeyAppendOnly
<1>1. CASE SingleInstance /\ ~HostTampers
  <2>1. Init => CheckpointsGrow
    BY DEF Init, CheckpointsGrow
  <2>2. TypeOK /\ HonestInv /\ LineageInv /\ CheckpointsGrow /\ [Next]_vars => CheckpointsGrow'
    BY <1>1, GrowthStep
  <2>3. ASSUME TypeOK, TraceInv, CheckpointsGrow PROVE OneKeyAppendOnly
    <3> SUFFICES ASSUME NEW older \in published, NEW newer \in published,
                        older.signer = newer.signer, older.counter <= newer.counter
                 PROVE  \E es \in [1..newer.count -> issued] :
                          VerifyAppendOnly(es, older, newer, newer.signer) = "ok"
      BY DEF OneKeyAppendOnly
    <3>1. ExtensionOf(newer.head, older.head)
      BY <2>3 DEF CheckpointsGrow
    <3> QED BY <2>3, <3>1, ContinuationIsShown
  <2> QED
    BY <1>1, <2>1, <2>2, <2>3, HonestInvariant, LineageInvariant, TraceInvariant, PTL DEF Spec
<1>2. CASE ~(SingleInstance /\ ~HostTampers)
  <2>1. OneKeyAppendOnly
    BY <1>2 DEF OneKeyAppendOnly
  <2> QED BY <2>1, PTL
<1> QED BY <1>1, <1>2
=============================================================================
