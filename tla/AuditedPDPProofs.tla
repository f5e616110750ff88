--------------------------- MODULE AuditedPDPProofs ---------------------------
(***************************************************************************)
(* Theorems about AuditedPDP, for any number of concurrent callers, every  *)
(* set of policies and requests and any number of decisions.               *)
(*                                                                         *)
(* The service runs the engine unchanged, so what is proved of the engine  *)
(* holds of the service.  Of its log it is shown that the entries handed   *)
(* out form one chain that ends at the head, which is more than            *)
(* ConcurrentAppendsChain says and is inductive; and of the slice that it  *)
(* goes wrong by the race of two calls and by nothing else.                *)
(***************************************************************************)
EXTENDS AuditedPDP, PolicyProofs, FiniteSetTheorems

\* The entries handed out are numbered from 1 to the log's count.
Numbered ==
  /\ IsFiniteSet(issued)
  /\ log.count = Cardinality(issued)
  /\ log.count \in Nat
  /\ \A e \in issued : e.seq \in 1 .. log.count
  /\ \A n \in 1 .. log.count : \E e \in issued : e.seq = n
  /\ \A e, f \in issued : e.seq = f.seq => e = f

\* Each is linked to the one before it, and the last one's hash is the head.
Linked ==
  /\ \A e \in issued : e.hash = ComputeHash(e)
  /\ \A e \in issued : e.seq = 1 => e.prevHash = ZeroHash
  /\ \A e, f \in issued : e.seq = f.seq + 1 => e.prevHash = f.hash
  /\ \A e \in issued : e.seq = log.count => e.hash = log.head
  /\ log.count = 0 => log.head = ZeroHash

\* A call that is past Append has its entry from there.
PlacesKnow ==
  /\ DOMAIN place = Callers
  /\ \A c \in Callers : place[c].stage # "deciding" => place[c].entry \in issued

ServiceInv == Numbered /\ Linked /\ PlacesKnow

-----------------------------------------------------------------------------

\* A step of the service is a step of its engine, or the engine rests.
LEMMA ServiceStepRefines == ANext => [Next]_vars
  <1>1. ASSUME EngineStep PROVE Next
    BY <1>1 DEF EngineStep, Next, Step
  <1>2. ASSUME NEW c \in Callers, Leave(c) PROVE Next
    BY <1>2 DEF Leave, Next, Step
  <1>3. ASSUME NEW c \in Callers, Chain(c) \/ ReadEntries(c) \/ WriteEntries(c)
        PROVE  UNCHANGED vars
    BY <1>3 DEF Chain, ReadEntries, WriteEntries, vars
  <1> QED  BY <1>1, <1>2, <1>3 DEF ANext

\* The shipped service implements the engine, whatever its log does.
THEOREM ServiceRunsEngine == ASpec => Spec
  <1>1. AInit => Init
    BY DEF AInit
  <1>2. [ANext]_allVars => [Next]_vars
    BY ServiceStepRefines DEF allVars, vars
  <1> QED  BY <1>1, <1>2, PTL DEF ASpec, Spec

-----------------------------------------------------------------------------

LEMMA ServiceInit == AInit => ServiceInv
  <1> SUFFICES ASSUME AInit PROVE ServiceInv
    OBVIOUS
  <1>1. IsFiniteSet(issued) /\ Cardinality(issued) = 0
    BY FS_EmptySet DEF AInit
  <1>2. Numbered
    BY <1>1 DEF AInit, Numbered
  <1>3. Linked
    BY DEF AInit, Linked
  <1>4. PlacesKnow
    BY DEF AInit, PlacesKnow, Deciding
  <1> QED  BY <1>2, <1>3, <1>4 DEF ServiceInv

\* What Append builds.
LEMMA NewEntryIs ==
  ASSUME NEW count, NEW head, NEW d
  PROVE  LET e == NewEntry(count, head, d)
         IN  e.seq = count + 1 /\ e.prevHash = head /\ e.hash = ComputeHash(e)
  BY DEF NewEntry, ComputeHash

\* Append gives the next number and links the entry to the head.
LEMMA ChainKeeps ==
  ASSUME ServiceInv, NEW c \in Callers, Chain(c)
  PROVE  ServiceInv'
  <1> DEFINE e == NewEntry(log.count, log.head, Cardinality(issued) + 1)
  <1>1. e.seq = log.count + 1 /\ e.prevHash = log.head /\ e.hash = ComputeHash(e)
    BY NewEntryIs
  <1>2. /\ log'.count = e.seq /\ log'.head = e.hash
        /\ issued' = issued \cup {e}
        /\ place' = [place EXCEPT ![c] = [stage |-> "chained", entry |-> e]]
    BY DEF Chain
  <1> HIDE DEF e
  <1>3. e \notin issued
    BY <1>1 DEF ServiceInv, Numbered
  <1>4. IsFiniteSet(issued') /\ Cardinality(issued') = Cardinality(issued) + 1
    BY <1>2, <1>3, FS_AddElement DEF ServiceInv, Numbered
  <1>5. Numbered'
    BY <1>1, <1>2, <1>4 DEF ServiceInv, Numbered
  <1>6. Linked'
    BY <1>1, <1>2 DEF ServiceInv, Numbered, Linked
  <1>7. PlacesKnow'
    BY <1>2 DEF ServiceInv, PlacesKnow
  <1> QED  BY <1>5, <1>6, <1>7 DEF ServiceInv

\* A step that leaves the log and the entries handed out as they are.
LEMMA RestKeeps ==
  ASSUME ServiceInv, UNCHANGED <<log, issued>>, PlacesKnow'
  PROVE  ServiceInv'
  BY DEF ServiceInv, Numbered, Linked

\* Every step keeps the invariant.
LEMMA ServiceStep == ServiceInv /\ [ANext]_allVars => ServiceInv'
  <1> SUFFICES ASSUME ServiceInv, [ANext]_allVars PROVE ServiceInv'
    OBVIOUS
  <1>1. CASE EngineStep \/ UNCHANGED allVars
    BY <1>1, RestKeeps DEF EngineStep, auditVars, allVars, ServiceInv, PlacesKnow
  <1>2. ASSUME NEW c \in Callers, Chain(c) PROVE ServiceInv'
    BY <1>2, ChainKeeps
  <1>3. ASSUME NEW c \in Callers, ReadEntries(c) PROVE ServiceInv'
    BY <1>3, RestKeeps DEF ReadEntries, ServiceInv, PlacesKnow
  <1>4. ASSUME NEW c \in Callers, WriteEntries(c) PROVE ServiceInv'
    BY <1>4, RestKeeps DEF WriteEntries, ServiceInv, PlacesKnow
  <1>5. ASSUME NEW c \in Callers, Leave(c) PROVE ServiceInv'
    BY <1>5, RestKeeps DEF Leave, ServiceInv, PlacesKnow, Deciding
  <1> QED  BY <1>1, <1>2, <1>3, <1>4, <1>5 DEF ANext

LEMMA ServiceInvariant == ASpec => []ServiceInv
  BY ServiceInit, ServiceStep, PTL DEF ASpec

-----------------------------------------------------------------------------

\* InSequence puts every entry at the place of its number.
LEMMA InSequenceIs ==
  ASSUME ServiceInv
  PROVE  /\ InSequence \in Seq(issued)
         /\ Len(InSequence) = log.count
         /\ \A n \in 1 .. log.count : InSequence[n] \in issued /\ InSequence[n].seq = n
  <1>1. \A n \in 1 .. log.count : \E e \in issued : e.seq = n
    BY DEF ServiceInv, Numbered
  <1>2. InSequence = [n \in 1 .. log.count |-> CHOOSE e \in issued : e.seq = n]
    BY DEF ServiceInv, Numbered, InSequence
  <1>3. \A n \in 1 .. log.count : InSequence[n] \in issued /\ InSequence[n].seq = n
    BY <1>1, <1>2
  <1>4. log.count \in Nat
    BY DEF ServiceInv, Numbered
  <1>5. InSequence \in [1 .. log.count -> issued]
    BY <1>2, <1>3
  <1>6. InSequence \in Seq(issued) /\ Len(InSequence) = log.count
    BY <1>4, <1>5
  <1> QED  BY <1>3, <1>6

\* The entries handed out, in order of number, are what the auditor accepts against
\* the checkpoint that the log would sign.
LEMMA InOrderReplays ==
  ASSUME ServiceInv, NEW s \in Seq(issued), Len(s) = log.count,
         \A n \in 1 .. log.count : s[n] \in issued /\ s[n].seq = n
  PROVE  Verify(s, CheckpointNow, EngineKey) = "ok"
  <1>1. log.count \in Nat
    BY DEF ServiceInv, Numbered
  <1>2. ChainIntact(s)
    <2> SUFFICES ASSUME NEW n \in 1 .. log.count
                 PROVE  s[n].seq = n /\ s[n].prevHash = PrevOf(s, n) /\ s[n].hash = ComputeHash(s[n])
      BY DEF ChainIntact
    <2>1. s[n] \in issued /\ s[n].seq = n
      OBVIOUS
    <2>2. CASE n = 1
      BY <2>1, <2>2 DEF ServiceInv, Linked, PrevOf
    <2>3. CASE n # 1
      <3>1. n - 1 \in 1 .. log.count /\ n = (n - 1) + 1
        BY <1>1, <2>3
      <3>2. s[n - 1] \in issued /\ s[n - 1].seq = n - 1
        BY <3>1
      <3> QED  BY <2>1, <2>3, <3>1, <3>2 DEF ServiceInv, Linked, PrevOf
    <2> QED  BY <2>2, <2>3
  <1>3. ReplayHead(s) = log.head
    <2>1. CASE log.count = 0
      BY <2>1 DEF ServiceInv, Linked, ReplayHead, PrevOf
    <2>2. CASE log.count # 0
      <3>1. log.count \in 1 .. log.count /\ log.count + 1 # 1 /\ (log.count + 1) - 1 = log.count
        BY <1>1, <2>2
      <3>2. s[log.count].hash = log.head
        BY <3>1 DEF ServiceInv, Linked
      <3> QED  BY <3>1, <3>2 DEF ReplayHead, PrevOf
    <2> QED  BY <2>1, <2>2
  <1> QED  BY <1>2, <1>3 DEF Verify, SignedBy, CheckpointNow

\* Concurrent calls of Append, in any number, give entries that the auditor
\* accepts against the checkpoint that the log would sign.
THEOREM AppendsChain == ASpec => []ConcurrentAppendsChain
  <1>1. ASSUME ServiceInv PROVE ConcurrentAppendsChain
    <2>1. {e.seq : e \in issued} = 1 .. Cardinality(issued)
      BY <1>1 DEF ServiceInv, Numbered
    <2>2. Verify(InSequence, CheckpointNow, EngineKey) = "ok"
      BY <1>1, InSequenceIs, InOrderReplays
    <2> QED  BY <2>1, <2>2 DEF ConcurrentAppendsChain
  <1> QED  BY <1>1, ServiceInvariant, PTL

-----------------------------------------------------------------------------
(* The slice, as long as no two calls are between Append and their store at    *)
(* once: it lacks at most the last entry, and whoever is in between has it and *)
(* has read the slice as it still is.                                          *)

\* The slice holds the first n entries.
HoldsFirst(n) ==
  /\ entries \in Seq(issued)
  /\ Len(entries) = n
  /\ \A m \in 1 .. n : entries[m] \in issued /\ entries[m].seq = m

\* Nobody else is in between with c, and the slice lacks c's entry alone.
RecordsAlone(c) ==
  /\ \A d \in Callers : Recording(d) => d = c
  /\ place[c].entry \in issued /\ place[c].entry.seq = log.count
  /\ log.count > 0 /\ HoldsFirst(log.count - 1)
  /\ place[c].stage = "read" => place[c].seen = entries

UnracedInv ==
  ~raced =>
    /\ \A c \in Callers : Recording(c) => RecordsAlone(c)
    /\ (\A c \in Callers : ~Recording(c)) => HoldsFirst(log.count)

LEMMA UnracedInit == AInit => UnracedInv
  BY DEF AInit, UnracedInv, Recording, Deciding, HoldsFirst

\* Between two calls, Append puts the log one entry ahead of the slice.
LEMMA ChainKeepsUnraced ==
  ASSUME ServiceInv, ServiceInv', UnracedInv, NEW c \in Callers, Chain(c)
  PROVE  UnracedInv'
  <1> SUFFICES ASSUME ~raced'
               PROVE  /\ \A d \in Callers : Recording(d)' => RecordsAlone(d)'
                      /\ (\A d \in Callers : ~Recording(d)') => HoldsFirst(log.count)'
    BY DEF UnracedInv
  <1> DEFINE e == NewEntry(log.count, log.head, Cardinality(issued) + 1)
             p == [stage |-> "chained", entry |-> e]
  <1>1. e.seq = log.count + 1
    BY NewEntryIs
  <1>2. /\ log'.count = e.seq /\ issued' = issued \cup {e} /\ entries' = entries
        /\ place' = [place EXCEPT ![c] = p]
        /\ ~raced /\ \A d \in Callers : ~Recording(d)
    BY DEF Chain
  <1>3. p.stage = "chained" /\ p.entry = e
    OBVIOUS
  <1> HIDE DEF e, p
  <1>4. place'[c] = p /\ \A d \in Callers : d # c => place'[d] = place[d]
    BY <1>2 DEF ServiceInv, PlacesKnow
  <1>5. HoldsFirst(log.count) /\ log.count \in Nat
    BY <1>2 DEF UnracedInv, ServiceInv, Numbered
  <1>6. Recording(c)' /\ \A d \in Callers : Recording(d)' => d = c
    BY <1>2, <1>3, <1>4 DEF Recording
  <1>7. log'.count > 0 /\ log'.count - 1 = log.count
    BY <1>1, <1>2, <1>5
  <1>8. HoldsFirst(log.count - 1)'
    BY <1>2, <1>5, <1>7 DEF HoldsFirst
  <1>9. RecordsAlone(c)'
    BY <1>2, <1>3, <1>4, <1>6, <1>7, <1>8 DEF RecordsAlone
  <1> QED  BY <1>6, <1>9

\* A step of a call that stays outside, or that leaves: nothing that counts changes.
LEMMA OutsideKeepsUnraced ==
  ASSUME UnracedInv, UNCHANGED <<log, issued, entries, raced>>,
         \A d \in Callers : \/ place'[d] = place[d]
                            \/ ~Recording(d) /\ ~Recording(d)'
  PROVE  UnracedInv'
  <1>1. \A d \in Callers : Recording(d)' <=> Recording(d)
    BY DEF Recording
  <1>2. \A n : HoldsFirst(n)' <=> HoldsFirst(n)
    BY DEF HoldsFirst
  <1>3. ASSUME NEW d \in Callers, Recording(d), RecordsAlone(d) PROVE RecordsAlone(d)'
    <2>1. place'[d] = place[d]
      BY <1>3
    <2> QED  BY <1>1, <1>2, <1>3, <2>1 DEF RecordsAlone
  <1> QED  BY <1>1, <1>2, <1>3 DEF UnracedInv

LEMMA ReadKeepsUnraced ==
  ASSUME ServiceInv, UnracedInv, NEW c \in Callers, ReadEntries(c)
  PROVE  UnracedInv'
  <1> SUFFICES ASSUME ~raced'
               PROVE  /\ \A d \in Callers : Recording(d)' => RecordsAlone(d)'
                      /\ (\A d \in Callers : ~Recording(d)') => HoldsFirst(log.count)'
    BY DEF UnracedInv
  <1> DEFINE p == [stage |-> "read", entry |-> place[c].entry, seen |-> entries]
  <1>1. /\ UNCHANGED <<log, issued, entries, raced>> /\ place' = [place EXCEPT ![c] = p]
        /\ Recording(c)
    BY DEF ReadEntries, Recording
  <1>2. p.stage = "read" /\ p.entry = place[c].entry /\ p.seen = entries
    OBVIOUS
  <1> HIDE DEF p
  <1>3. place'[c] = p /\ \A d \in Callers : d # c => place'[d] = place[d]
    BY <1>1 DEF ServiceInv, PlacesKnow
  <1>4. RecordsAlone(c)
    BY <1>1 DEF UnracedInv
  <1>5. Recording(c)' /\ \A d \in Callers : Recording(d)' => d = c
    BY <1>2, <1>3, <1>4 DEF Recording, RecordsAlone
  <1>6. HoldsFirst(log.count - 1)'
    BY <1>1, <1>4 DEF RecordsAlone, HoldsFirst
  <1>7. RecordsAlone(c)'
    BY <1>1, <1>2, <1>3, <1>4, <1>5, <1>6 DEF RecordsAlone
  <1> QED  BY <1>5, <1>7

LEMMA AppendKnown ==
  ASSUME NEW S, NEW s \in Seq(S), NEW e \in S
  PROVE  /\ Append(s, e) \in Seq(S) /\ Len(Append(s, e)) = Len(s) + 1
         /\ \A n \in 1 .. Len(s) : Append(s, e)[n] = s[n]
         /\ Append(s, e)[Len(s) + 1] = e
  OBVIOUS

\* Alone, a call stores its own entry behind the others.
LEMMA WriteKeepsUnraced ==
  ASSUME ServiceInv, UnracedInv, NEW c \in Callers, WriteEntries(c)
  PROVE  UnracedInv'
  <1> SUFFICES ASSUME ~raced'
               PROVE  /\ \A d \in Callers : Recording(d)' => RecordsAlone(d)'
                      /\ (\A d \in Callers : ~Recording(d)') => HoldsFirst(log.count)'
    BY DEF UnracedInv
  <1> DEFINE e == place[c].entry
  <1>1. /\ UNCHANGED <<log, issued, raced>> /\ Recording(c) /\ place[c].stage = "read"
        /\ place' = [place EXCEPT ![c] = [stage |-> "recorded", entry |-> e]]
    BY DEF WriteEntries, Recording
  <1>2. RecordsAlone(c)
    BY <1>1 DEF UnracedInv
  <1>3. /\ place[c].seen = entries /\ log.count \in Nat \ {0} /\ Len(entries) = log.count - 1
        /\ entries \in Seq(issued) /\ e \in issued /\ e.seq = log.count
        /\ \A m \in 1 .. log.count - 1 : entries[m] \in issued /\ entries[m].seq = m
    BY <1>1, <1>2 DEF RecordsAlone, HoldsFirst, ServiceInv, Numbered
  <1>4. ElementWinners(c) \subseteq {e}
    <2>1. DOMAIN entries \cap {Len(place[c].seen) + 1} = {}
      BY <1>3
    <2>2. \A d \in Callers : place[d].stage = "read" => d = c
      BY <1>2 DEF RecordsAlone, Recording
    <2> QED  BY <2>1, <2>2 DEF ElementWinners
  <1>5. entries' = Append(entries, e)
    BY <1>3, <1>4 DEF WriteEntries
  <1> HIDE DEF e
  <1>6. place'[c].stage = "recorded" /\ \A d \in Callers : d # c => place'[d] = place[d]
    BY <1>1 DEF ServiceInv, PlacesKnow
  <1>7. \A d \in Callers : ~Recording(d)'
    BY <1>2, <1>6 DEF Recording, RecordsAlone
  <1>8. HoldsFirst(log.count)'
    <2>1. entries' \in Seq(issued) /\ Len(entries') = log.count
      BY <1>3, <1>5, AppendKnown
    <2>2. ASSUME NEW m \in 1 .. log.count PROVE entries'[m] \in issued /\ entries'[m].seq = m
      <3>1. CASE m \in 1 .. log.count - 1
        BY <1>3, <1>5, <3>1, AppendKnown
      <3>2. CASE m = log.count
        BY <1>3, <1>5, <3>2, AppendKnown
      <3> QED  BY <1>3, <3>1, <3>2
    <2> QED  BY <1>1, <2>1, <2>2 DEF HoldsFirst
  <1> QED  BY <1>7, <1>8

LEMMA UnracedStep == ServiceInv /\ UnracedInv /\ [ANext]_allVars => UnracedInv'
  <1> SUFFICES ASSUME ServiceInv, UnracedInv, [ANext]_allVars PROVE UnracedInv'
    OBVIOUS
  <1>1. CASE EngineStep \/ UNCHANGED allVars
    BY <1>1, OutsideKeepsUnraced DEF EngineStep, auditVars, allVars
  <1>2. ASSUME NEW c \in Callers, Chain(c) PROVE UnracedInv'
    BY <1>2, ServiceStep, ChainKeepsUnraced
  <1>3. ASSUME NEW c \in Callers, ReadEntries(c) PROVE UnracedInv'
    BY <1>3, ReadKeepsUnraced
  <1>4. ASSUME NEW c \in Callers, WriteEntries(c) PROVE UnracedInv'
    BY <1>4, WriteKeepsUnraced
  <1>5. ASSUME NEW c \in Callers, Leave(c) PROVE UnracedInv'
    <2>1. \A d \in Callers : place'[d] = place[d] \/ (~Recording(d) /\ ~Recording(d)')
      BY <1>5 DEF Leave, Recording, Deciding, ServiceInv, PlacesKnow
    <2> QED  BY <1>5, <2>1, OutsideKeepsUnraced DEF Leave
  <1> QED  BY <1>1, <1>2, <1>3, <1>4, <1>5 DEF ANext

\* As long as no decision was chained between another's Append and its store, the
\* slice that auditors are given replays against the head whenever nobody is in
\* between, for any number of callers and decisions.
THEOREM UnracedReplays == ASpec => []UnracedEntriesReplay
  <1>1. ServiceInv /\ UnracedInv => UnracedEntriesReplay
    BY InOrderReplays DEF UnracedInv, HoldsFirst, UnracedEntriesReplay
  <1> QED  BY <1>1, UnracedInit, UnracedStep, ServiceInvariant, PTL DEF ASpec
===============================================================================
