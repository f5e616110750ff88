------------------------------ MODULE AuditedPDP ------------------------------
(***************************************************************************)
(* The service that cmd/verity ships (auditedPDP): the policy engine and   *)
(* its audit log in one enclave.  Its Decide makes a decision, chains it   *)
(* in the log and appends the entry to the slice that auditors are given.  *)
(*                                                                         *)
(* The engine needs no lock and the log has its own (Log.mu, so Append is  *)
(* one step).  The slice has none: reading the slice and storing the       *)
(* longer one are two steps.  Two appends to the same slice may write the  *)
(* same element of a shared array, so which entry a racing append leaves   *)
(* there is open.                                                          *)
(***************************************************************************)
EXTENDS PolicyEngine, AuditChain, FiniteSets

CONSTANTS MaxDecisions  \* bound, by policy: decisions chained in the log

ASSUME MaxDecisionsAssumption == MaxDecisions \in [Bundles -> Nat]

VARIABLES
  log,      \* audit.Log: count and head
  entries,  \* auditedPDP.entries
  issued,   \* history: every entry that Log.Append returned
  place,    \* per caller: how far its Decide has come after the engine's
  raced     \* history: a decision was chained before the last was in the slice

auditVars == <<log, entries, issued, place, raced>>
allVars   == <<engine, work, log, entries, issued, place, raced>>

\* No entry yet, or the entry and the slice that it is to be appended to.
Deciding == [stage |-> "deciding"]

AInit ==
  /\ Init
  /\ log = [count |-> 0, head |-> ZeroHash]
  /\ entries = <<>>
  /\ issued = {}
  /\ place = [c \in Callers |-> Deciding]
  /\ raced = FALSE

\* Engine.Decide, on behalf of c or of nobody.
EngineStep ==
  /\ \/ /\ engine.status # "loaded"
        /\ \E b \in Bundles : LoadPolicy(b) \/ RefusePolicy(b)
     \/ \E c \in Callers :
          \/ /\ engine.status = "loaded"
             /\ log.count + Cardinality({d \in Callers : work[d].phase # "idle" /\ place[d] = Deciding})
                  < MaxDecisions[engine.policy]
             /\ \E q \in Requests : RefuseRequest(c, q) \/ BeginDecide(c, q)
          \/ SkipRule(c) \/ DenyByRule(c) \/ NoteAllow(c) \/ Conclude(c)
  /\ UNCHANGED auditVars

\* c has an entry from Append that is not in the slice yet.
Recording(c) == place[c].stage \in {"chained", "read"}

\* A slip: Append without Log.mu builds on a head that another Append replaced.
ChainUnlocked(c) ==
  /\ HasAnswer(c) /\ place[c] = Deciding
  /\ \E l \in {log} \cup {[count |-> e.seq - 1, head |-> e.prevHash] : e \in issued} :
       LET e == NewEntry(l.count, l.head, Cardinality(issued) + 1)
       IN  /\ log' = [count |-> e.seq, head |-> e.hash]
           /\ issued' = issued \cup {e}
           /\ place' = [place EXCEPT ![c] = [stage |-> "chained", entry |-> e]]
  /\ raced' = (raced \/ \E d \in Callers : Recording(d))
  /\ UNCHANGED <<engine, work, entries>>

\* log.Append(d), before the decision leaves.
Chain(c) ==
  /\ HasAnswer(c) /\ place[c] = Deciding
  /\ LET e == NewEntry(log.count, log.head, Cardinality(issued) + 1)
     IN  /\ log' = [count |-> e.seq, head |-> e.hash]
         /\ issued' = issued \cup {e}
         /\ place' = [place EXCEPT ![c] = [stage |-> "chained", entry |-> e]]
  /\ raced' = (raced \/ \E d \in Callers : Recording(d))
  /\ UNCHANGED <<engine, work, entries>>

\* The operand of append: the slice as it is now.
ReadEntries(c) ==
  /\ place[c].stage = "chained"
  /\ place' = [place EXCEPT ![c] = [stage |-> "read", entry |-> place[c].entry, seen |-> entries]]
  /\ UNCHANGED <<engine, work, log, entries, issued, raced>>

\* What the element behind c's slice may hold once every racing append that
\* writes it has: c's entry, that of a caller about to append to the same
\* slice, or the one that was stored there since.
ElementWinners(c) ==
  LET slot   == Len(place[c].seen) + 1
      racing == {d \in Callers : place[d].stage = "read" /\ place[d].seen = place[c].seen}
  IN  {place[d].entry : d \in racing} \cup {entries[n] : n \in DOMAIN entries \cap {slot}}

\* The longer slice is stored.
WriteEntries(c) ==
  /\ place[c].stage = "read"
  /\ \E e \in ElementWinners(c) : entries' = Append(place[c].seen, e)
  /\ place' = [place EXCEPT ![c] = [stage |-> "recorded", entry |-> place[c].entry]]
  /\ UNCHANGED <<engine, work, log, issued, raced>>

\* A slip: a decision leaves as soon as it is chained, entered in the slice or not.
LeaveUnrecorded(c) ==
  /\ place[c].stage \in {"chained", "recorded"}
  /\ Return(c)
  /\ place' = [place EXCEPT ![c] = Deciding]
  /\ UNCHANGED <<log, entries, issued, raced>>

\* The decision leaves.
Leave(c) ==
  /\ place[c].stage = "recorded"
  /\ Return(c)
  /\ place' = [place EXCEPT ![c] = Deciding]
  /\ UNCHANGED <<log, entries, issued, raced>>

ANext ==
  \/ EngineStep
  \/ \E c \in Callers : Chain(c) \/ ReadEntries(c) \/ WriteEntries(c) \/ Leave(c)

ASpec == AInit /\ [][ANext]_allVars

-----------------------------------------------------------------------------

\* The engine's public key, which signs decisions and checkpoints alike.
EngineKey == 1

\* The checkpoint that the log would sign now.
CheckpointNow == [signer |-> EngineKey, count |-> log.count, head |-> log.head]

\* The entries that Append returned, by sequence number.
InSequence == [n \in 1 .. Cardinality(issued) |-> CHOOSE e \in issued : e.seq = n]

\* Concurrent appends form one chain: put in order of sequence number, the
\* entries that callers were given satisfy the auditor.
ConcurrentAppendsChain ==
  /\ {e.seq : e \in issued} = 1 .. Cardinality(issued)
  /\ Verify(InSequence, CheckpointNow, EngineKey) = "ok"

\* The auditor is handed auditedPDP.entries and a checkpoint while no call is in
\* progress, and replays the one against the other.
EntriesReplay ==
  (\A c \in Callers : work[c].phase = "idle") => Verify(entries, CheckpointNow, EngineKey) = "ok"

\* The race is the only way the slice goes wrong: as long as no decision was
\* chained between another's Append and its store, the entries that auditors are
\* given replay against the head, whenever nobody is in between.
UnracedEntriesReplay ==
  ~raced /\ (\A c \in Callers : ~Recording(c)) => Verify(entries, CheckpointNow, EngineKey) = "ok"
=============================================================================
