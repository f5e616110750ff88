# A verification project for Verity

Verity is a Zero Trust policy decision point (PDP) that runs in a simulated
confidential-computing enclave and is asked by enforcement points (PEPs) that
first make it prove what code and policy it runs. This directory models the
program in TLA+: TLC checks the models on small instances, and TLAPS proves the
main results for every value of the constants. `PROJECT.json` lists every run,
every mutant of the code's model that a property must catch, the source lines
that each definition stands for, and the hazards the properties aim at.

## Inventory of the system

| part | source | state | operations | hard part |
|---|---|---|---|---|
| canonical encoding | `internal/canon` | a running hash | tagged, length-framed fields; `Sum` | two field lists must never frame alike |
| TEE platform | `internal/tee` | signing root, sealing key, counters per (measurement, name) | `Launch`, `Quote`, `Seal`/`Unseal`, `CounterRead`/`CounterIncrement` | enclaves of one image share counters and sealing keys; the host keeps the blobs |
| attestation verifier | `internal/attest` | endorsed measurements and signers, revocations, roots | `Endorse`, `EndorseSigner`, `Revoke`, `Appraise` | the operator changes it during handshakes |
| policy engine | `internal/pdp` | the parsed policy, immutable | `NewEngineInEnclave`, `Decide`, `Attest`, `Sign`; `Validate`, `HashRequest` | deny-overrides, fail-closed validation, concurrent callers, two copies of a request |
| enforcement gateway | `internal/pep` | the pinned service, key, build, enrollment time, under an RWMutex | `TrustPDP`, `Authorize` | both call out without the lock; the channel is hostile; the clock is the host's |
| quorum | `internal/pep` | members, threshold; locals of one call | `Quorum.Authorize` | members are re-enrolled while it collects |
| audit log | `internal/audit` | count, head, counter under a mutex; sealed state in the host's store | `Open`, `Append`, `Checkpoint` | crash between Save and increment; failing Save; a store that rolls back |
| auditor | `internal/audit` | none | `Verify`, `VerifyAppendOnly` | entries come from an untrusted carrier |
| endorsed policy | `policy` | the embedded bundle | none | which rule answers, and with which obligations |
| shipped service and demo | `cmd/verity` | engine, log, a slice of entries | `auditedPDP.Decide` | concurrent calls share the slice |

How they interact: a gateway challenges a service (`Attest`), has the quote
appraised by the verifier and pins the key; from then on each request goes to
`Decide` over the channel and the answer is bound to request, nonce and pinned
key. The service is an engine with its log in one enclave: every decision is
appended to the log, and checkpoints are signed with the engine's key, sealed
by the platform to the host's store and bound to the platform's counter.

What makes each part correct:

* log: a restarted enclave continues every history an auditor may hold;
  an interrupted checkpoint is repaired and reported; a rollback is refused;
* auditor: exactly the history the engine committed to verifies;
* gateway: what is pinned was appraised, what is honoured is a judgement of the
  pinned engine on a request of this hash, once, and no lock is held over a call;
* quorum: enough different engines judged, and nobody who answered dissents;
* engine: deny-overrides, one cause per decision, no rule that cannot fire, no
  request judged that a rule could be evaded with.

## Modules

| module | models | state and actions |
|---|---|---|
| `AuditChain` | entries, hash chain, `Verify`, `VerifyAppendOnly`, `replay` | operators. A hash is the sequence of commitments it was computed over, so hashing is injective |
| `Audit` | `Log` on one platform, the counter, the store, crashes | per instance a record with status `off`, `closed`, `opening` (Open has read the counter), `open`, `saved` (Checkpoint has saved and holds the mutex); `Launch`, `Crash`, `Drop`, `BeginOpen`, `OpenFresh`/`OpenCurrent`/`OpenLagged`/`OpenRefused`/`OpenUnavailable`, `AppendDecision`, `SaveCheckpoint`/`FailCheckpoint`, `PublishCheckpoint`, `HostServes` |
| `AppendOnlyHistory` | what the log promises | `Commit` extends one history, `Attest` hands out a statement about it; `Audit` implements it |
| `Auditor` | an auditor given arbitrary entries | `Present` adds one entry, forged in any field |
| `Enforcement` | what a fleet of gateways promises | `Vouch`, `Trust`, `Ask`, `Honour`, `Refuse`, without quotes, channels, locks or clocks; `Gateway` implements it |
| `Gateway` | `Verifier`, `Gateway`, services and the channel | per caller the point of `TrustPDP` (`challenged`, `approved`/`refused`, `updating`) or `Authorize` (`calling`, `snapshot`, `asked`) it has reached, and its locals |
| `QuorumPEP` | `Quorum.Authorize` over `Gateway` | extends `Gateway`; one caller, `Judge`, runs the loop; member calls are `Gateway`'s own actions |
| `PolicyRules` | validation, hashing, matching | operators; long strings, names and lists are abstracted to what the code compares |
| `PolicyEngine` | `NewEngineInEnclave`, `Decide` | per caller a walk over the rules, one step per rule |
| `EndorsedPolicy` | `policy.json` | the bundle as a value of `PolicyRules`, run by `PolicyEngine` |
| `AuditedPDP` | `auditedPDP.Decide` | composes `PolicyEngine` and the log's Append with the unguarded slice: `Chain`, `ReadEntries`, `WriteEntries`, `Leave` |
| `Canon` | `canon.Hasher` | the framing of each kind of field; `Begin` and `AbsorbField` give several hashers any fields in any order |
| `Encodings` | every digest of the program: `Measure`, sealing identities, `KeyBinding`, `HashRequest`, `SignedBytes` of quotes, decisions and checkpoints, `DecisionHash`, `ComputeHash` | operators over `Canon` |
| `Platform` | `tee.Platform` and `Enclave` | `Launch`, `Stop`, `CounterIncrement`, `Seal`, `Sign`; the host's `HostRelabels` and `HostDamages`; `Unseals` and `CounterRead` as operators |
| `AuditProofs`, `ChainProofs`, `AuditorProofs`, `PolicyProofs`, `GatewayProofs`, `QuorumProofs`, `AuditedPDPProofs`, `CanonProofs` | | theorems and proofs, see below |
| `MC*` | | instances for TLC |

Definitions whose comment begins with "A slip" are not part of any
specification. Each is a plausible mistake in the code that one of the
properties has to catch when it takes the place of the definition named in
`PROJECT.json`.

Abstractions that matter:

* Cryptography is ideal. In `Gateway`, `Audit` and the policy modules a hash is
  injective and a signature or quote names its signer; an altered one has none.
  What the first of these rests on, the encoding, is the subject of `Canon` and
  `Encodings`: there SHA-256 is ideal, so a digest stands for the symbols it was
  computed from, and whether two different things get one digest is decided by
  the framing alone. A symbol is an octet, or a digest or nonce as a whole.
* `Canon`'s integers have `UintOctets` octets in place of eight: contents that
  look like a length or a count then fit into texts of one or two octets.
* A sealed blob unseals exactly in enclaves of the same measurement, which are
  the only instances of `Audit`; `Platform` shows that the code's keys, headers
  and associated data make it so, and what sealing to a signer adds.
* `Log.mu` makes Append one step. The store's Save and the counter's increment
  are two, because an enclave can stop in between. Load and the repair's
  increment in `Open` are one step; `Audit` explains why this loses nothing.
* In `Gateway` requests are told apart as they are written, and several may have
  one hash (`HashOf`): `normalizeSet` drops empty and repeated roles before
  hashing, and `Validate` judges the list as it was sent. What is assumed of
  engines (`VerdictsAssumption`) is what `PolicyProofs` shows of them: well-formed
  requests of one hash get one verdict (`EqualHashes`), and what is malformed is
  denied. A hostile channel may have the engine judge any request of the asked
  one's hash. `Judgements` says what a gateway may then take for the verdict on a
  request: on a truthful channel the verdict itself; on a hostile one, for a
  well-formed request, its verdict or a denial, and for a malformed one, what is
  judged of any request of its hash.
* In `Gateway` a call's nonce is its number. `Authorize` draws it after the
  age check; numbering it at the start is not observable, since no answer can be
  accepted before the call has asked.
* `Validate`'s and `Appraise`'s checks are conjunctions: which of several
  defects an error names is wording.
* An enrollment's build is the measurement, or else the signer, under which it
  was endorsed, in place of the operator's name for it.

## Runs

Every run that passes explores its instance completely.

| run | instance and bounds | shows |
|---|---|---|
| `MCAuditHonest` | one enclave, 2 decisions, 3 counter values, 3 launches | on a store that keeps what it is given, the log always reopens (`LogReopens`), is never refused (`HonestStoreOpens`), reports an interrupted checkpoint exactly when there was one (`LagReportedExactly`), passes the growth check between its checkpoints (`OneKeyAppendOnly`) and implements `AppendOnlyHistory` |
| `MCAuditHost` | as above with 2 launches and a store that serves anything | what an `Open` returns continues every returned checkpoint whose counter value was sealed once (`OpenCoversPublished`), one engine's checkpoints pass the growth check unless the older one's value was sealed twice (`GrowthUnlessResealed`), and a value is sealed twice only where a checkpoint was cut short (`ResealedWasCutShort`); `LogCounterAgrees`, `CheckpointCountersUnique`, `AuditExactlyOne` |
| `MCAuditor` | 2 decisions, up to 2 entries with every field forged | both auditor functions accept exactly what they should |
| `MCGatewayHostile` | 2 gateways, 2 callers, 3 engines of one build (one of them signed, one on a root that is not trusted), 3 requests, one of them a malformed copy of another with its hash, 3 calls, hostile channel | `PinnedWasAppraised`, `NoDecisionHonouredTwice`; `RevokedNotHonouredAnew`: nothing that a revoked build decided is honoured under an enrollment challenged for since; `ImplementsEnforcement`: whatever is honoured was judged of a request of this hash by the engine that was trusted when the request was put |
| `MCGatewayRenewal` | 2 callers, 2 engines, 3 calls, truthful services, maximum age 1, 2 ticks, a clock that may be set back | `TruthfulServiceHonoured`; `AgeDecides`: an enrollment outlives its maximum age by no more than the clock was set back, and is given up early only while it is younger than that; `AuthorizeReturns` |
| `MCQuorumVotes` | two members, threshold 2, engines of two builds that agree on one request and differ on another, 5 calls, 1 tick; builds are endorsed before the first call (`EndorsedFirst`) and revoked at any time | `AgreementIsUnanimous`; `RefusalsAreJustified`: dissent means that two members judged differently, and shortage that too few answered; both directions of the diversity check while nobody is re-enrolled |
| `MCShipped` | 2 callers of the service with its audited log; 2 decisions under the endorsed policy, 1 under each of 259 policies of up to 3 of 6 rule templates and one policy per defect of a rule; 44 requests over the signals the rules look at | which policies load (`NoDeadRule`), `DenyOverrides`, `RuleIDAttributes`; under the endorsed policy, nothing sensitive for public or unknown networks, no unmasked customer data (`SensitiveGrantsAreMasked`), and a stronger request is never refused what a weaker one gets; equal hashes get equal verdicts; `ConcurrentAppendsChain`; the slice for auditors replays unless two calls raced for it (`UnracedEntriesReplay`) |
| `MCPlatform` | 2 hashers and 5 fields of 15 contents; 2 platforms, 6 images whose fields run together; 2 enclaves at a time with 2 increments or 2 blobs; each of some 130 statements signed | digests are equal exactly for what says the same (`EncodingsAreInjective`, `SignatureMeansStatement`), blobs and counters belong to one identity on one platform (`UnsealDecides`, `CountersCount`) |

Why the bounds suffice: three counter values give a published checkpoint, one
that is cut short and one that reuses its value; two decisions make histories
of one counter value differ; three launches allow a crash in each of two
recoveries. In `Gateway`, three calls are an enrollment, a concurrent one and a
request across them. In `QuorumPEP`, five calls are the two
questions and three handshakes, one for each member and a re-enrollment at any point
between; with two requests both agreement and dissent are reached, with and without
a re-enrollment. A policy of three rules has every order of an allow, a
second allow and a deny. In `Canon`, five fields are two domains, a list and a
list with the field that a missing count would hide in it. Hashing, counting,
sealing and signing share no state but the running enclaves, so `MCPlatform`'s
budgets take each to its bound while the others rest, and one budget allows a
little of everything. In `MCShipped` two concurrent decisions
show every race for the slice and the chain; that longer chains hold together is
proved. What must hold beyond the bounds is proved where proofs exist (below).

The runs of the log have one enclave; several enclaves of one image on one counter
are left to the proofs. There an `Open` races a checkpoint of another enclave, which
is what `BeginOpen` is a step of its own for: the other one may publish between the
first one's read of the counter and its load, and one value may be sealed by both.
`OpenCovers`, `GrowthDespiteHost` and `AuditIsExact` hold for any number of enclaves.

Two history variables serve properties and are read by no action: `cutShort` of
`Audit` holds the counter values whose checkpoint was sealed and never completed,
`raced` of `AuditedPDP` whether a decision was chained while another one was on its
way into the slice.

`CHECK_DEADLOCK FALSE` stands where the bound on calls, decisions or entries
ends every behaviour. The models of the log and of the engine alone never stop.

### Claims the code does not keep

Four runs check one sentence of the comments or the documentation each and end in a
counterexample; `PROJECT.json` quotes the lines.

* `MCAuditReplay`: a replayed blob is not always behind the counter. A
  checkpoint that is cut short, or whose Save fails after the host took the
  blob, leaves a state sealed at a counter value that a later checkpoint uses
  again. `LogCoversPublished` and `OpenCoversPublished` therefore speak of a
  checkpoint whose own counter value was sealed once (`SealedOnce`), whatever became
  of the values before and after it; the theorems show that nothing else is needed,
  and `ResealedWasCutShort` that nothing but an incomplete checkpoint seals a value
  twice.
* `MCGatewayClock`: only a clock before the time of enrollment counts as
  expiry, not any clock that went back. That takes a source given to `WithClock` that
  carries wall time only: readings of `time.Now` are subtracted by the monotonic
  clock. The comment makes no such distinction. `AgeDecides` says what is lost: an enrollment
  lives longer by what the clock was set back, and not by more.
* `MCQuorumRenewal`: the member's key is read after its answer was verified, so
  two concurring decisions can be signed by one engine.
* `MCAuditedEntries`: concurrent decisions lose or swap entries of the slice
  that is handed to auditors, though not of the chain. `UnracedEntriesReplay` says
  that this race is the only way the slice goes wrong.

Two smaller observations have no run. `normalizeSet` drops empty and repeated
roles, and `Validate` judges the list as it was sent, so a refused request can
have the hash of a granted one. A decision is therefore not tied to "precisely the
request it answered" (`src/internal/pdp/pdp.go:293`): with a copy of that hash in
its place, a channel can turn the grant of a well-formed request into a denial
(which it could also cause by not answering), and have a malformed request answered
as its well-formed form. `EqualHashEqualVerdict` is about well-formed requests for
this reason, and `ImplementsEnforcement` says that nothing worse happens. And on a patched device support's read of `customer-pii`
is answered by the broader rule `sensitive-needs-mfa-managed`, which has no
`read_only`, where the demo's text says that it is granted read-only.

## Fairness

* `Audit`: an operator relaunches a stopped enclave and opens the log again
  after an error (weak fairness of `Launch` and `BeginOpen`). `Store.Load`
  answers in the end when asked again and again (strong fairness of the
  successful `Open`: an error closes the attempt, so it is not continuously
  enabled). A saved checkpoint runs on, since nothing in it waits. Nothing is
  assumed of `Crash`, of Append or of the start of a checkpoint.
* `Gateway`: `sync.RWMutex` starves neither readers nor writers
  (strong fairness of what takes it); code that holds it runs on; a service
  answers `Decide`. Nothing is assumed of `Attest`: its answer may never come.

## Proofs

`AuditProofs` (assumptions: the named bounds are naturals, the two markers
for a missing and an unreadable blob are no states):

* `TypeCorrect` by one case per action.
* `LineageInvariant`: the properties of `Audit` are not inductive, since they
  say nothing of blobs that the host may serve later. `LineageInv` says where
  histories come from: no log, and no value Open has read, is ahead of the
  platform; a live log continues the state sealed at its counter value; what is
  between Save and publication is sealed, and so is what is published and
  counted; and a sealed state continues some sealed state at every counter value
  below its own (`SealsRooted`), so that where a value was sealed once it continues
  that one. It needs neither an honest host nor a single enclave. The heart is
  `SealKeepsRoots`.
* `OpenCovers` and `LogCovers` follow from it by `RootedCovers`; `CounterAgreement`
  has its own induction (the value read by an Open in progress must agree as well),
  and `CountersUnique` combines the two.
* `ResealingHasACause`: a sealed state is at most one value ahead of the platform,
  and one that is ahead belongs to a checkpoint under way or to one that was cut short
  (`SealsAccounted`); the next state is sealed at just that value.
* `GrowthDespiteHost`: an honest store is not what makes checkpoints of one engine
  grow. A sealed state is rooted at the older checkpoint's value, and of the trail
  of its history every part is a trail (`ContinuationIsShown`), so only a value
  that was sealed twice can fail the auditor's check, with any number of enclaves.
* `HonestInv` orders published, committed and live histories for one enclave on
  an honest store; `Refinement`, `HonestLogCovers` and `HonestOpens` rest on it.
* `LagIsReported` adds `InterruptionShows`: while no checkpoint is under way, the
  stored state is ahead of the platform's counter exactly if one was cut short.
* `TraceInv`: every history of a log, a sealed state or a checkpoint consists of
  entries that were shipped, whichever of them a crash or the host discards later.
  With `VerifyIsTrail` (below) it gives `AuditIsExact`, for any number of enclaves
  and any store.
* `CheckpointsGrow`: with one enclave at a time on an honest store, checkpoints
  continue each other in the order of their counters. `GrowthIsShown` follows.

`ChainProofs` (assumptions: those about the entries' fields that each lemma
states) has no theorem of its own. What an intact chain's entries are, for every
number of them, needs an induction, which `LeastNumber` gives: of the numbers for
which a claim fails, the least one is neither zero nor the successor of one that
holds. `IntactIsTrail` is the heart: entries that are numbered, linked and hashed
correctly up to a head are that head's
trail (`TrailOf`), entry by entry. `VerifyIsTrail` and `GrowthIsPrefix` say what the
auditor's two functions therefore decide.

`AuditorProofs` (assumption: the bound on entries is a natural): `VerifyDecides`
and `AppendOnlyDecides`, for whatever is presented.

`PolicyProofs` (assumptions: the constants are what the code compares names
and limits with):

* `PolicyInv` adds to the types that a loaded policy is valid, and that a
  caller at rule k knows that no deny before k fired and which allow fired
  first. `DecideIsDenyOverrides`, `AuditAttribution` and `EqualHashes` follow
  from it; `LoadedRulesCanFire` builds, from `validate`'s checks alone, a
  well-formed request that fires a given rule.
* `RestrictionNeverGrants`: what the engine allows, every policy allows that its own
  restricts, by dropping allow rules, adding deny rules or reordering. It follows
  from deny-overrides, for any two policies, of which only one is loaded.
* The endorsed policy, for every request: since a decision is what deny-overrides
  prescribes, a grant is the first of the four allow rules that fires, with the
  deny silent (`GrantedIs`), and each rule's conditions are spelled out in turn
  (`CrownJewelsIs` and its like). `NothingSensitiveFromPublic` and `GrantsAreMasked`
  follow by looking at the four. `BetterSignalsAreKept` needs no look at them: what
  a weaker request meets a stronger one meets (`StrongerFires`), and the one deny
  asks nothing of authentication or posture.

`GatewayProofs` (assumptions: constants have their types, `Gateways` and
`Requests` are not empty, markers such as `NoEngine` are no engines, malformed
requests are denied and well-formed ones of one hash judged alike; nothing is assumed
of channels, of hashes otherwise, of roots or of what the operator endorses):

* The gateway's promises speak of what is pinned and what was accepted, and a
  handshake or a request carries both a long way before it shows. `GatewayInv`
  therefore says what a call knows at each point (`Known`): whose key it holds and
  who vouched for that, what was revoked when it was challenged, how old the
  snapshot was, and that its nonce is one that was drawn; `Pinned` says the same
  of an enrollment, `Faithful` that what was accepted is a judgement of the engine
  it names, under the call's nonce, on a request of the call's hash, and `NoncesDiffer` that no two calls share a nonce.
* `AgeIsExact` needs no proviso on the clock. An enrollment was pinned when the clock
  lagged behind time by no more than it does now (`PinnedWithin`), the lag only grows,
  and so neither the comparison with the limit nor the check for a clock before the
  enrollment errs by more than the lag (`Known`, `InTime`).
* `WaitsStayShort` (nobody waits for a handshake; stated in `GatewayProofs`) has an
  induction of its own, `LocksHeld`: a gateway is locked by exactly the call that is
  about to pin or clear there.
* `GatewayTypeCorrect`, `PinnedAppraised`, `HonouredOnce`, `RevokedStaysRefused` and
  `TruthfulNeverAccused` follow. The steps that matter are `AttestAnswered` (an
  accepted quote is that of the engine whose key came with it) and `DecideAnswered`:
  an answer bound to key, hash and nonce is that engine's verdict on some request of
  the hash (`BoundIsVerdict`), and such a verdict can pass for one on the call's own
  request only as `Judgements` says (`VerdictPasses`).
* `GatewayRefinement`: `Gateway` implements `Enforcement`. A question is open
  from a call's snapshot to its answer; handshakes are invisible until they pin.
  What is honoured is in `Judgements`, for any hashes and any malformed copies.

`QuorumProofs` (assumption: the members are gateways, the threshold lies between one and
their number, which is what `NewQuorum` insists on):

* `QuorumRunsGateways`: the loop's steps are steps of `Gateway`, so the theorems
  above hold of the members.
* `QuorumInv` adds what was collected (`Collected`, `Paired`), what the member
  that is waited for has answered under which nonce (`Awaited`), and that without
  re-enrollments the key read after the answer is the key that signed it
  (`Undisturbed`). `QuorumUnanimous` needs no such proviso; `QuorumDiverse` and
  `QuorumAlarmIsTrue` do, and `MCQuorumRenewal` shows why.
* `QuorumRefusesWithCause` rests on what the loop counts (`Accounted`): every vote
  that counted is an answer the quorum keeps, and as long as the loop runs there
  are as many votes as answers, since one that does not count ends it. It needs no
  proviso on re-enrollments either.

`AuditedPDPProofs` (assumptions: those of the engine; the bound is a natural):

* `ServiceRunsEngine`: the service implements `PolicyEngine`, so the theorems of
  `PolicyProofs` hold of it.
* `AppendsChain`: entries are numbered without gaps
  (`Numbered`), each continues its predecessor and the last one is the head
  (`Linked`), and a call past Append has its entry there (`PlacesKnow`).
* `UnracedReplays`: until two calls race, the slice lacks at most the last entry, and
  the one call that is on its way to the slice has that entry and has read the slice
  as it still is (`RecordsAlone`, `UnracedInv`).

`CanonProofs` (assumptions: integers have at least one octet and fit into them, as
`uint64` does by its type; texts and lists have lengths that fit into an integer;
images and statements are records of the fields of their Go types,
`StatementsAssumption`):

* Integers: the octets of an integer are its quotients by the weights, so
  different integers differ in one (`UintsDiffer`). `Weight` is a recursive
  function, and that it exists is part of the proof.
* Framing: `Cut` says where the frames of a sequence begin and end, and a set of
  frames is `Unambiguous` if none of them can begin where another one does. Then one
  sequence of symbols is cut in one way only (`SameEncoding`): by induction on the
  frames, with their number not known in advance. Strings are unambiguous because
  their lengths come first, lists because their counts do (`ListsDiffer`, the
  same argument one level down), and the five kinds because of their tags
  (`FieldsAreApart`), even though tags, lengths and digests are themselves
  possible contents.
* `CanonInv`: a hasher has absorbed the frames of its fields and nothing else.
  `EncodingIsInjective` follows.
* `SealingIsExact` and `CountersAreExact`: measurements and signer identities are
  digests, so different images have different ones (`MeasurementsDiffer`,
  `SignersDiffer`), also when their fields run together to the same octets. `BlobInv`
  says what a blob keeps through everything the host does to it, `CounterInv` that
  a counter counts the increments of its image and name on its platform.

* `SignaturesAreExact`: each statement is a label and fields in a row, and one more
  field of a known kind keeps two encodings apart (`NextField`), so equal digests
  are peeled to equal fields from the end: for requests, decisions, signed
  decisions, log entries, checkpoints and quotes. Two statements' digests start with
  labels, which tell their kinds (`LabelsDiffer`). `normalizeSet` lists each name
  once, in an order that depends on the set alone (`MembersAreListed`), so requests
  and obligations are recovered up to the order and repetition of their lists.

Only model-checked: `LogReopens` and `AuthorizeReturns`, since liveness is beyond the
prover. Only proved: `LogCoversPublished` (a log still covers later what its `Open`
covered), `HonestLogCoversPublished` (which `AppendOnlyHistory` promises of the runs'
one log), `WaitsAreShort` and the quorum's `QTypeOK`.

## Not modelled

* SHA-256, Ed25519 and AES-GCM: digests, signatures and sealing are ideal.
* `Gateway.Enrollments`, `PolicyVersion` of checkpoints, reasons and error
  texts: nothing depends on them.
* The demo's script and printing. Its attackers are in `Gateway`'s hostile
  channel and `Audit`'s tampering host.
* Two live enclaves that both go on checkpointing on one counter: the code
  keeps no lock across instances and promises nothing; `Audit` allows it, and
  `OpenCoversPublished`, `GrowthUnlessResealed` and `AuditExactlyOne` hold of it. The
  claims of one log at a time (`SingleInstance`) are not made of it.

## Plan

Done in this order: the log and its proofs, the auditor, the gateway, the
quorum, the policy engine and its proofs, the shipped service; then the abstract
specification of enforcement, the encodings, the platform with sealing, and the
proofs of the gateways, the quorum, the service, the auditor, the audit trail, the
endorsed policy, the encoding, the platform and the signed statements; then what is
true without the provisos that earlier statements had: of histories whatever was
sealed twice, of ages whatever the clock did, of refusals by a quorum, of waiting
for a gateway, of the slice of entries, and of policies that restrict one another.

Nothing is left but what "Not modelled" names.
