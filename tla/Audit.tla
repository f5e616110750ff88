-------------------------------- MODULE Audit --------------------------------
(***************************************************************************)
(* The tamper-evident decision log of internal/audit/audit.go on one       *)
(* platform: enclaves that open the log from sealed state, append to it    *)
(* and checkpoint it; the platform's monotonic counter for the image; and  *)
(* the host's store, which serves back what it likes when HostTampers.     *)
(*                                                                         *)
(* Log.mu serialises the operations of one Log, so Append is one step.     *)
(* Open is two: BeginOpen reads the platform counter, then the sealed      *)
(* state is loaded and judged.  The CounterIncrement of a repair belongs   *)
(* to the second step: an enclave that stops before it has changed nothing,*)
(* and the other enclaves that could move the counter in between could     *)
(* move it before the load as well.  Checkpoint is two, because an enclave *)
(* can stop between the host's Save and the CounterIncrement that follows: *)
(* SaveCheckpoint leaves the instance "saved", holding the mutex, and      *)
(* PublishCheckpoint finishes.                                             *)
(*                                                                         *)
(* Every instance is an enclave of the same image, so they all share the   *)
(* platform counter (tee.counterKey) and can unseal each other's state     *)
(* (tee.SealToMeasurement).  The code keeps no lock across instances.      *)
(***************************************************************************)
EXTENDS AuditChain, FiniteSets

CONSTANTS
  Instances,     \* enclaves of the image that may run at the same time
  HostTampers,   \* TRUE: the store serves any blob it was ever given, none, or noise
  MaxDecisions,  \* bound: decisions appended, over all launches
  MaxCounter,    \* bound: checkpoints sealed by one lineage of the log
  MaxLaunches,   \* bound: enclave launches
  NoBlob,        \* Load returns nothing
  Noise          \* Load returns bytes that are not a state sealed by this image

ASSUME HostTampersAssumption == HostTampers \in BOOLEAN
ASSUME BoundsAssumption ==
  /\ MaxDecisions \in Nat
  /\ MaxCounter \in Nat
  /\ MaxLaunches \in Nat

VARIABLES
  platformCounter, \* tee.Platform.counters for this image and counterName
  stored,          \* what Store.Load returns
  log,             \* per instance: the enclave and the audit.Log in it
  outcome,         \* per instance: what its last Open returned
  \* what has left the enclaves
  sealed,          \* every sealed state that was handed to the host
  issued,          \* every Entry that Append returned
  published,       \* every Checkpoint that was returned without an error
  \* history
  decisions,       \* decisions made so far; the next one is a fresh number
  launches,        \* launches so far; each one generates a fresh engine key
  interrupted,     \* a checkpoint reached the store and was not completed
  cutShort         \* counter values whose checkpoint was sealed and not completed

vars == <<platformCounter, stored, log, outcome, sealed, issued, published,
          decisions, launches, interrupted, cutShort>>

NoKey == 0

Commitment == [seq : Nat, decision : Nat]
Hash       == Seq(Commitment)
State      == [count : Nat, head : Hash, counter : Nat]
Entry      == [seq : Nat, decision : Nat, prevHash : Hash, hash : Hash]
Checkpoint == [signer : Nat, count : Nat, head : Hash, counter : Nat]
LogRecord  == [status : {"off", "closed", "opening", "open", "saved"}, key : Nat,
               count : Nat, head : Hash, counter : Nat]

ASSUME BlobsAssumption == NoBlob \notin State /\ Noise \notin State /\ NoBlob # Noise

TypeOK ==
  /\ platformCounter \in Nat
  /\ stored \in State \cup {NoBlob, Noise}
  /\ log \in [Instances -> LogRecord]
  /\ outcome \in [Instances -> {"none", "ok", "lagged", "rollback", "corrupt", "unavailable"}]
  /\ sealed \subseteq State
  /\ issued \subseteq Entry
  /\ published \subseteq Checkpoint
  /\ decisions \in Nat
  /\ launches \in Nat
  /\ interrupted \in BOOLEAN
  /\ cutShort \subseteq Nat

\* An instance without a usable Log; key is NoKey when no enclave runs.
Idle(status, key) ==
  [status |-> status, key |-> key, count |-> 0, head |-> ZeroHash, counter |-> 0]

Init ==
  /\ platformCounter = 0
  /\ stored = NoBlob
  /\ log = [i \in Instances |-> Idle("off", NoKey)]
  /\ outcome = [i \in Instances |-> "none"]
  /\ sealed = {}
  /\ issued = {}
  /\ published = {}
  /\ decisions = 0
  /\ launches = 0
  /\ interrupted = FALSE
  /\ cutShort = {}

\* What Checkpoint seals: encodeState(count, head, next).
NextState(i) ==
  [count |-> log[i].count, head |-> log[i].head, counter |-> log[i].counter + 1]

-----------------------------------------------------------------------------
(* The life of an enclave. *)

\* An enclave of the image starts and generates its engine key.
Launch(i) ==
  /\ log[i].status = "off"
  /\ launches < MaxLaunches
  /\ launches' = launches + 1
  /\ log' = [log EXCEPT ![i] = Idle("closed", launches + 1)]
  /\ outcome' = [outcome EXCEPT ![i] = "none"]
  /\ UNCHANGED <<platformCounter, stored, sealed, issued, published, decisions, interrupted, cutShort>>

\* The enclave stops, wherever it is, and its memory is gone.  A launch is
\* left for every stop, so that the bound on launches never ends the story.
Crash(i) ==
  /\ log[i].status # "off"
  /\ launches < MaxLaunches
  /\ interrupted' = (interrupted \/ log[i].status = "saved")
  /\ cutShort' = IF log[i].status = "saved" THEN cutShort \cup {NextState(i).counter} ELSE cutShort
  /\ log' = [log EXCEPT ![i] = Idle("off", NoKey)]
  /\ outcome' = [outcome EXCEPT ![i] = "none"]
  /\ UNCHANGED <<platformCounter, stored, sealed, issued, published, decisions, launches>>

\* The running enclave drops its Log and will open it again under the same key.
Drop(i) ==
  /\ log[i].status = "open"
  /\ log' = [log EXCEPT ![i] = Idle("closed", log[i].key)]
  /\ UNCHANGED <<platformCounter, stored, outcome, sealed, issued, published,
                 decisions, launches, interrupted, cutShort>>

-----------------------------------------------------------------------------
(* Open. *)

\* A slip: the counter is recovered and the history is not.
AdoptCounterOnly(i, s) ==
  log' = [log EXCEPT ![i] = [status |-> "open", key |-> log[i].key,
                             count |-> 0, head |-> ZeroHash, counter |-> s.counter]]

\* Open returns a usable Log in state s.
Adopt(i, s) ==
  log' = [log EXCEPT ![i] = [status |-> "open", key |-> log[i].key,
                             count |-> s.count, head |-> s.head, counter |-> s.counter]]

\* Open starts by reading the platform counter, and remembers it.
BeginOpen(i) ==
  /\ log[i].status = "closed"
  /\ log' = [log EXCEPT ![i].status = "opening", ![i].counter = platformCounter]
  /\ UNCHANGED <<platformCounter, stored, outcome, sealed, issued, published,
                 decisions, launches, interrupted, cutShort>>

\* No sealed state, and the platform remembers no checkpoint: a fresh log.
OpenFresh(i) ==
  /\ log[i].status = "opening"
  /\ stored = NoBlob
  /\ log[i].counter = 0
  /\ Adopt(i, [count |-> 0, head |-> ZeroHash, counter |-> 0])
  /\ outcome' = [outcome EXCEPT ![i] = "ok"]
  /\ UNCHANGED <<platformCounter, stored, sealed, issued, published, decisions,
                 launches, interrupted, cutShort>>

\* A slip: the tolerance for an interrupted checkpoint points the other way.
OpenCurrentOrOneBehind(i) ==
  /\ log[i].status = "opening"
  /\ stored \notin {NoBlob, Noise}
  /\ stored.counter \in {log[i].counter, log[i].counter - 1}
  /\ Adopt(i, stored)
  /\ outcome' = [outcome EXCEPT ![i] = "ok"]
  /\ UNCHANGED <<platformCounter, stored, sealed, issued, published, decisions,
                 launches, interrupted, cutShort>>

\* The sealed state is at the platform's counter.
OpenCurrent(i) ==
  /\ log[i].status = "opening"
  /\ stored \notin {NoBlob, Noise}
  /\ stored.counter = log[i].counter
  /\ Adopt(i, stored)
  /\ outcome' = [outcome EXCEPT ![i] = "ok"]
  /\ UNCHANGED <<platformCounter, stored, sealed, issued, published, decisions,
                 launches, interrupted, cutShort>>

\* A slip: the log adopts the newer counter and the platform keeps the older.
OpenLaggedUnrepaired(i) ==
  /\ log[i].status = "opening"
  /\ stored \notin {NoBlob, Noise}
  /\ stored.counter = log[i].counter + 1
  /\ Adopt(i, stored)
  /\ outcome' = [outcome EXCEPT ![i] = "lagged"]
  /\ interrupted' = FALSE
  /\ UNCHANGED <<platformCounter, stored, sealed, issued, published, decisions, launches, cutShort>>

\* A slip: the repair is not reported.
OpenLaggedSilently(i) ==
  /\ log[i].status = "opening"
  /\ stored \notin {NoBlob, Noise}
  /\ stored.counter = log[i].counter + 1
  /\ platformCounter' = platformCounter + 1
  /\ Adopt(i, stored)
  /\ outcome' = [outcome EXCEPT ![i] = "ok"]
  /\ interrupted' = FALSE
  /\ UNCHANGED <<stored, sealed, issued, published, decisions, launches, cutShort>>

\* A slip: state ahead of the counter is corrupt, whatever the distance.
OpenLaggedNever(i) ==
  /\ log[i].status = "opening"
  /\ stored \notin {NoBlob, Noise}
  /\ stored.counter = log[i].counter + 1
  /\ log' = [log EXCEPT ![i] = Idle("closed", log[i].key)]
  /\ outcome' = [outcome EXCEPT ![i] = "corrupt"]
  /\ UNCHANGED <<platformCounter, stored, sealed, issued, published, decisions,
                 launches, interrupted, cutShort>>

\* The sealed state is one ahead: the counter catches up (ErrCounterLagged).
OpenLagged(i) ==
  /\ log[i].status = "opening"
  /\ stored \notin {NoBlob, Noise}
  /\ stored.counter = log[i].counter + 1
  /\ platformCounter' = platformCounter + 1
  /\ Adopt(i, stored)
  /\ outcome' = [outcome EXCEPT ![i] = "lagged"]
  /\ interrupted' = FALSE
  /\ UNCHANGED <<stored, sealed, issued, published, decisions, launches, cutShort>>

\* The errors of Open for what the store served and the counter it read.
RefusalOf(blob, counter) ==
  CASE blob = NoBlob -> IF counter # 0 THEN "rollback" ELSE "none"
    [] blob = Noise  -> "corrupt"
    [] OTHER -> CASE blob.counter > counter + 1 -> "corrupt"
                  [] blob.counter < counter     -> "rollback"
                  [] OTHER                      -> "none"

\* Open returns an error and no Log.
OpenRefused(i) ==
  /\ log[i].status = "opening"
  /\ RefusalOf(stored, log[i].counter) # "none"
  /\ log' = [log EXCEPT ![i] = Idle("closed", log[i].key)]
  /\ outcome' = [outcome EXCEPT ![i] = RefusalOf(stored, log[i].counter)]
  /\ UNCHANGED <<platformCounter, stored, sealed, issued, published, decisions,
                 launches, interrupted, cutShort>>

\* Store.Load returns an error.
OpenUnavailable(i) ==
  /\ log[i].status = "opening"
  /\ log' = [log EXCEPT ![i] = Idle("closed", log[i].key)]
  /\ outcome' = [outcome EXCEPT ![i] = "unavailable"]
  /\ UNCHANGED <<platformCounter, stored, sealed, issued, published, decisions,
                 launches, interrupted, cutShort>>

\* The ways in which Open returns a usable Log.
Open(i) == OpenFresh(i) \/ OpenCurrent(i) \/ OpenLagged(i)

-----------------------------------------------------------------------------
(* The operations of an open Log. *)

\* Append: the entry is returned, the enclave keeps the count and the head.
AppendDecision(i) ==
  /\ log[i].status = "open"
  /\ decisions < MaxDecisions
  /\ LET e == NewEntry(log[i].count, log[i].head, decisions + 1)
     IN  /\ log' = [log EXCEPT ![i].count = e.seq, ![i].head = e.hash]
         /\ issued' = issued \cup {e}
  /\ decisions' = decisions + 1
  /\ UNCHANGED <<platformCounter, stored, outcome, sealed, published, launches, interrupted, cutShort>>

\* Checkpoint up to a Save that succeeds; the mutex is still held.
SaveCheckpoint(i) ==
  /\ log[i].status = "open"
  /\ log[i].counter < MaxCounter
  /\ stored' = NextState(i)
  /\ sealed' = sealed \cup {NextState(i)}
  /\ log' = [log EXCEPT ![i].status = "saved"]
  /\ UNCHANGED <<platformCounter, outcome, issued, published, decisions, launches, interrupted, cutShort>>

\* A slip: l.counter moves although Save failed.
FailCheckpointCounted(i) ==
  /\ log[i].status = "open"
  /\ log[i].counter < MaxCounter
  /\ sealed' = sealed \cup {NextState(i)}
  /\ cutShort' = cutShort \cup {NextState(i).counter}
  /\ \/ UNCHANGED <<stored, interrupted>>
     \/ stored' = NextState(i) /\ interrupted' = TRUE
  /\ log' = [log EXCEPT ![i].counter = log[i].counter + 1]
  /\ UNCHANGED <<platformCounter, outcome, issued, published, decisions, launches>>

\* Save returns an error, and Checkpoint with it.  The host was handed the
\* blob all the same, and may or may not have put it in the store.
FailCheckpoint(i) ==
  /\ log[i].status = "open"
  /\ log[i].counter < MaxCounter
  /\ sealed' = sealed \cup {NextState(i)}
  /\ cutShort' = cutShort \cup {NextState(i).counter}
  /\ \/ UNCHANGED <<stored, interrupted>>
     \/ stored' = NextState(i) /\ interrupted' = TRUE
  /\ UNCHANGED <<platformCounter, log, outcome, issued, published, decisions, launches>>

\* A slip: the counter is not part of the checkpoint.
SignedCheckpointUncounted(i) ==
  [signer |-> log[i].key, count |-> log[i].count, head |-> log[i].head]

\* The checkpoint that Checkpoint signs: the state it sealed, under the engine's key.
SignedCheckpoint(i) ==
  [signer |-> log[i].key, count |-> log[i].count, head |-> log[i].head,
   counter |-> log[i].counter + 1]

\* A slip: the platform counter is not advanced.
PublishCheckpointUncounted(i) ==
  /\ log[i].status = "saved"
  /\ log' = [log EXCEPT ![i].status = "open", ![i].counter = log[i].counter + 1]
  /\ published' = published \cup {SignedCheckpoint(i)}
  /\ interrupted' = FALSE
  /\ UNCHANGED <<platformCounter, stored, outcome, sealed, issued, decisions, launches, cutShort>>

\* The rest of Checkpoint: the platform counter moves, the checkpoint is returned.
PublishCheckpoint(i) ==
  /\ log[i].status = "saved"
  /\ platformCounter' = platformCounter + 1
  /\ log' = [log EXCEPT ![i].status = "open", ![i].counter = log[i].counter + 1]
  /\ published' = published \cup {SignedCheckpoint(i)}
  /\ interrupted' = FALSE
  /\ UNCHANGED <<stored, outcome, sealed, issued, decisions, launches, cutShort>>

-----------------------------------------------------------------------------
(* The host. *)

\* The store serves something else from now on: any state sealed on this
\* platform at any time, nothing, or bytes that do not unseal.
HostServes(blob) ==
  /\ HostTampers
  /\ blob # stored
  /\ stored' = blob
  /\ UNCHANGED <<platformCounter, log, outcome, sealed, issued, published, decisions,
                 launches, interrupted, cutShort>>

Step(i) ==
  \/ Launch(i) \/ Crash(i) \/ Drop(i)
  \/ BeginOpen(i) \/ Open(i) \/ OpenRefused(i) \/ OpenUnavailable(i)
  \/ AppendDecision(i) \/ SaveCheckpoint(i) \/ FailCheckpoint(i) \/ PublishCheckpoint(i)

Next ==
  \/ \E i \in Instances : Step(i)
  \/ \E blob \in sealed \cup {NoBlob, Noise} : HostServes(blob)

Spec == Init /\ [][Next]_vars

\* An operator relaunches a stopped enclave and opens its log again after an
\* error; Load answers in the end, if it is asked again and again; and a
\* Checkpoint that has saved runs on: nothing in it waits after Save.
Fairness ==
  \A i \in Instances :
    /\ WF_vars(Launch(i))
    /\ WF_vars(BeginOpen(i))
    /\ SF_vars(Open(i))
    /\ WF_vars(PublishCheckpoint(i))

FairSpec == Spec /\ Fairness

-----------------------------------------------------------------------------
(* What the log promises. *)

\* At most one enclave of the image runs on the platform at a time.
SingleInstance == \A i, j \in Instances : i = j

Live(i) == log[i].status \in {"open", "saved"}

\* A log whose history continues every checkpoint that was ever returned.
CoversPublished(i) == \A cp \in published : ExtensionOf(log[i].head, cp.head)

\* The counter value n was sealed with one history only.
SealedOnce(n) == \A a, b \in sealed : a.counter = n /\ b.counter = n => a = b

\* A counter value gets a second history for one reason: its checkpoint was cut
\* short between Save and CounterIncrement, or Save failed after the host took
\* the blob, and a later checkpoint used the value again.  Nothing that the store
\* serves, and no relaunch, does it.
ResealedWasCutShort ==
  SingleInstance => \A s \in sealed : s.counter \in cutShort \/ SealedOnce(s.counter)

\* An open log and the platform agree on the counter (Open, "keeping the
\* invariant that they agree after Open"), through crashes, failed saves and
\* anything the store serves.
LogCounterAgrees ==
  SingleInstance => \A i \in Instances : Live(i) => log[i].counter = platformCounter

\* A store that returns what was last saved is never taken for a rollback or
\* for corruption, wherever checkpoints were interrupted or failed.
HonestStoreOpens ==
  SingleInstance /\ ~HostTampers =>
    \A i \in Instances : outcome[i] \notin {"rollback", "corrupt"}

\* With an honest store, an open log continues every checkpoint ever returned:
\* no crash or failed save loses what an auditor may already hold.
HonestLogCoversPublished ==
  SingleInstance /\ ~HostTampers =>
    \A i \in Instances : Live(i) => CoversPublished(i)

\* Whatever the host serves, an open log continues every returned checkpoint
\* whose own counter value was sealed once; values that were sealed twice before
\* or after it do not matter.
LogCoversPublished ==
  SingleInstance =>
    \A i \in Instances, cp \in published :
      Live(i) /\ SealedOnce(cp.counter) => ExtensionOf(log[i].head, cp.head)

\* For any number of enclaves sharing the counter: Open never succeeds on a
\* state that lacks a checkpoint from before it read the counter, unless that
\* checkpoint's counter value was sealed twice.
OpenCoversPublished ==
  [][\A i \in Instances : Open(i) =>
       \A cp \in published :
         cp.counter <= log[i].counter /\ SealedOnce(cp.counter)
           => ExtensionOf(log'[i].head, cp.head)]_vars

\* The ordering comment of Checkpoint: a replayed blob is always behind the
\* counter, so an open log continues every returned checkpoint, without the
\* proviso about counter values.
ReplayIsAlwaysBehind ==
  SingleInstance => \A i \in Instances : Live(i) => CoversPublished(i)

\* "This is my Counter-th checkpoint": no two returned checkpoints share a
\* counter value, across launches and whatever the store served in between.
CheckpointCountersUnique ==
  SingleInstance => \A a, b \in published : a.counter = b.counter => a = b

\* A returned checkpoint can be audited for ever, and means one thing: exactly
\* one run of the entries that were shipped verifies against it, although
\* entries of abandoned continuations carry the same sequence numbers.
AuditExactlyOne ==
  \A cp \in published :
    Cardinality({es \in [1..cp.count -> issued] : Verify(es, cp, cp.signer) = "ok"}) = 1

\* With an honest store, any two checkpoints of one engine pass the auditor's
\* growth check on the entries that were shipped.
OneKeyAppendOnly ==
  SingleInstance /\ ~HostTampers =>
    \A older, newer \in published :
      older.signer = newer.signer /\ older.counter <= newer.counter =>
        \E es \in [1..newer.count -> issued] :
          VerifyAppendOnly(es, older, newer, newer.signer) = "ok"

\* Any number of enclaves, any store: of two checkpoints of one engine the later
\* one passes the auditor's growth check on the entries that were shipped, unless
\* the earlier one's counter value was sealed twice.
GrowthUnlessResealed ==
  \A older, newer \in published :
    /\ older.signer = newer.signer
    /\ older.counter <= newer.counter
    /\ SealedOnce(older.counter)
    => \E es \in [1..newer.count -> issued] :
         VerifyAppendOnly(es, older, newer, newer.signer) = "ok"

\* Open reports ErrCounterLagged for a checkpoint that was cut short, and for
\* nothing else: recovery is always visible, and never reported without cause.
LagReportedExactly ==
  [][SingleInstance /\ ~HostTampers =>
       \A i \in Instances : Open(i) => (outcome'[i] = "lagged" <=> interrupted)]_vars

\* With an honest store, an enclave that runs or will be relaunched gets its
\* log open, after any crash.
LogReopens ==
  \A i \in Instances :
    (log[i].status # "off" \/ launches < MaxLaunches) ~> log[i].status = "open"

\* The history that a restarted enclave recovers from an honest store.
CommittedHead == IF stored = NoBlob THEN ZeroHash ELSE stored.head

History == INSTANCE AppendOnlyHistory
             WITH committed <- CommittedHead,
                  attested  <- {cp.head : cp \in published}

\* With an honest store and one enclave at a time, the log is an append-only
\* history: Save commits, PublishCheckpoint hands out a statement, and every
\* other step, crashes and reopenings included, changes neither.
ImplementsAppendOnlyHistory == History!Spec
=============================================================================
