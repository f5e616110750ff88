------------------------------- MODULE Gateway -------------------------------
(***************************************************************************)
(* The enforcement gateway of internal/pep/pep.go with the verifier of     *)
(* internal/attest/attest.go that it appraises with, the policy engines of *)
(* internal/pdp/pdp.go at the other end of its channel, and the quotes of  *)
(* internal/tee/tee.go they answer with.                                   *)
(*                                                                         *)
(* Callers are goroutines.  Each one is at some point of TrustPDP or of    *)
(* Authorize; the points are where the code calls out, or takes or gives   *)
(* up Gateway.mu, so that re-enrollments, requests, endorsements and       *)
(* revocations interleave as they can in the program.                      *)
(*                                                                         *)
(* Signatures and quotes are ideal: an engine is its key, a decision or a  *)
(* quote names who signed it, and what was altered is signed by no one.    *)
(*                                                                         *)
(* A decision names a request by its hash, and a hash does not tell        *)
(* everything: normalizeSet drops empty and repeated roles, which Validate *)
(* looks at.  Requests are therefore told apart as they are written, and   *)
(* several may have one hash.                                              *)
(***************************************************************************)
EXTENDS Integers, FiniteSets

CONSTANTS
  Gateways,        \* enforcement points, all using one verifier
  Callers,         \* goroutines calling into the gateways
  Engines,         \* running engines; each one has generated its own key
  NoEngine,        \* the nil PolicyService, the nil key, and no valid signature
  Nobody,          \* nobody holds a gateway's mutex
  Requests,        \* access requests, as they are written
  HashOf,          \* [Requests -> hashes]: HashRequest
  WellFormed,      \* the requests that Validate lets pass
  Verdicts,        \* a verdict with its obligations
  Denial,          \* the verdict that denies, for whatever reason; it has no obligations
  Measurements,    \* of engine images
  Signers,         \* of engine images, the empty signer not included
  NoBuild,         \* no endorsement name
  MeasurementOf,   \* [Engines -> Measurements]
  SignerOf,        \* [Engines -> Signers \cup {NoBuild}]: NoBuild is the empty signer
  RootOf,          \* [Engines -> roots]: who signs the quotes of the engine's platform
  TcbOf,           \* [Engines -> Nat]: the patch level of its platform
  VerdictOf,       \* [Engines -> [Requests -> Verdicts]]: by its measured policy
  Roots,           \* the usable roots of the verifier
  MinTCB,          \* the verifier's minimum patch level
  MaxAge,          \* maxAge in clock ticks; 0: enrollments do not expire
  HostileChannel,  \* TRUE: channels answer with anything that was ever signed
  MaxCalls,        \* bound: TrustPDP and Authorize calls
  MaxTime          \* bound: ticks of time

ASSUME EnginesAssumption ==
  /\ NoEngine \notin Engines
  /\ Nobody \notin Callers
  /\ NoBuild \notin Measurements \cup Signers
  /\ MeasurementOf \in [Engines -> Measurements]
  /\ SignerOf \in [Engines -> Signers \cup {NoBuild}]
  /\ TcbOf \in [Engines -> Nat]
  /\ VerdictOf \in [Engines -> [Requests -> Verdicts]]
\* What PolicyProofs shows of engines (EqualHashes): well-formed requests of one
\* hash are judged alike; what is malformed is denied.
ASSUME VerdictsAssumption ==
  /\ WellFormed \subseteq Requests
  /\ \A e \in Engines, r \in Requests \ WellFormed : VerdictOf[e][r] = Denial
  /\ \A e \in Engines, q, r \in WellFormed : HashOf[q] = HashOf[r] => VerdictOf[e][q] = VerdictOf[e][r]
ASSUME CallsAssumption == Gateways # {} /\ Requests # {}
ASSUME VerifierAssumption == MinTCB \in Nat /\ MaxAge \in Nat
ASSUME ChannelAssumption == HostileChannel \in BOOLEAN
ASSUME CallBoundsAssumption == MaxCalls \in Nat /\ MaxTime \in Nat

VARIABLES
  verifier,  \* attest.Verifier: refs, signers and revoked
  gateway,   \* per gateway: the fields that Gateway.mu guards
  lock,      \* per gateway: the caller that holds Gateway.mu for writing
  op,        \* per caller: where it is, and its local variables
  calls,     \* calls made so far; a call's number stands for its nonce
  clock,     \* what Gateway.now reads
  \* history
  elapsed,   \* time that has really passed
  accepted   \* decisions that Authorize returned without an error

vars == <<verifier, gateway, lock, op, calls, clock, elapsed, accepted>>

Hashes == {HashOf[r] : r \in Requests}

Decision == [signer : Engines \cup {NoEngine}, hash : Hashes, nonce : Nat, verdict : Verdicts]

\* pinnedTick and knownRevoked are history: when the enrollment was made, and
\* what was revoked when its challenge was sent.
Enrollment ==
  [svc : Engines \cup {NoEngine}, key : Engines \cup {NoEngine},
   build : Measurements \cup Signers \cup {NoBuild}, enrolledAt : Nat,
   pinnedTick : Nat, knownRevoked : SUBSET Measurements]

\* The local variables of a call; heldFor is history, the true age of the
\* enrollment when Authorize compared it with maxAge.
Call ==
  [pc : {"idle", "challenged", "approved", "refused", "updating",
         "calling", "snapshot", "asked"},
   gw : Gateways, nonce : Nat, req : Requests, approved : BOOLEAN,
   enrollment : Enrollment, heldFor : Nat,
   result : {"none", "enrolled", "refused", "accepted", "no_pdp", "expired", "bad_decision"}]

TypeOK ==
  /\ verifier \in [refs : SUBSET Measurements, signers : SUBSET Signers,
                   revoked : SUBSET Measurements]
  /\ gateway \in [Gateways -> Enrollment]
  /\ lock \in [Gateways -> Callers \cup {Nobody}]
  /\ op \in [Callers -> Call]
  /\ calls \in Nat
  /\ clock \in Nat
  /\ elapsed \in Nat
  /\ accepted \subseteq [gw : Gateways, nonce : Nat, req : Requests, key : Engines,
                         decision : Decision, heldFor : Nat, knownRevoked : SUBSET Measurements]

\* The fields of a new gateway.  The zero time of enrolledAt is never looked at:
\* without a service there is nothing to expire.
NoEnrollment ==
  [svc |-> NoEngine, key |-> NoEngine, build |-> NoBuild, enrolledAt |-> 0,
   pinnedTick |-> 0, knownRevoked |-> {}]

\* A goroutine between calls; what it called on is forgotten, the result is not.
Returned(call, result) ==
  [call EXCEPT !.pc = "idle", !.nonce = 0, !.approved = FALSE,
               !.enrollment = NoEnrollment, !.result = result]

\* A call sets out: at its first point, for gateway g, under the nonce n.
Started(pc, g, n, r, enrollment) ==
  [pc |-> pc, gw |-> g, nonce |-> n, req |-> r, approved |-> FALSE, enrollment |-> enrollment,
   heldFor |-> 0, result |-> "none"]

AnyGateway == CHOOSE g \in Gateways : TRUE
AnyRequest == CHOOSE r \in Requests : TRUE

Init ==
  /\ verifier = [refs |-> {}, signers |-> {}, revoked |-> {}]
  /\ gateway = [g \in Gateways |-> NoEnrollment]
  /\ lock = [g \in Gateways |-> Nobody]
  /\ op = [c \in Callers |-> Started("idle", AnyGateway, 0, AnyRequest, NoEnrollment)]
  /\ calls = 0
  /\ clock = 0
  /\ elapsed = 0
  /\ accepted = {}

-----------------------------------------------------------------------------
(* The verifier, and the quotes it appraises. *)

\* Engine.Attest: a quote over the engine's key and the challenge's nonce.
QuoteOf(e, n) ==
  [root |-> RootOf[e], measurement |-> MeasurementOf[e], signer |-> SignerOf[e],
   tcb |-> TcbOf[e], key |-> e, nonce |-> n]

\* The name under which a build is endorsed: its measurement's, or else its
\* signer's, which for an unsigned image is never looked up.
EndorsementName(v, q) ==
  IF q.measurement \in v.refs THEN q.measurement
  ELSE IF q.signer # NoBuild /\ q.signer \in v.signers THEN q.signer
  ELSE NoBuild

\* Slips: only builds endorsed by measurement can be revoked; or the nonce is
\* compared and the key it comes with is not.
AppraiseSignerFirst(v, q, pub, n) ==
  /\ q.root \in Roots
  /\ q.tcb >= MinTCB
  /\ \/ q.signer # NoBuild /\ q.signer \in v.signers
     \/ q.measurement \in v.refs /\ q.measurement \notin v.revoked
  /\ q.key = pub /\ q.nonce = n
AppraiseNonceOnly(v, q, pub, n) ==
  /\ q.root \in Roots
  /\ q.measurement \notin v.revoked
  /\ q.tcb >= MinTCB
  /\ EndorsementName(v, q) # NoBuild
  /\ q.nonce = n

\* Verifier.Appraise, for the report data KeyBinding(pub, n).
Appraise(v, q, pub, n) ==
  /\ q.root \in Roots
  /\ q.measurement \notin v.revoked
  /\ q.tcb >= MinTCB
  /\ EndorsementName(v, q) # NoBuild
  /\ q.key = pub /\ q.nonce = n

\* Verifier.Endorse, EndorseSigner and Revoke, called by an operator at any time.
Endorse(m) ==
  /\ m \notin verifier.refs
  /\ verifier' = [verifier EXCEPT !.refs = @ \cup {m}]
  /\ UNCHANGED <<gateway, lock, op, calls, clock, elapsed, accepted>>

EndorseSigner(s) ==
  /\ s \notin verifier.signers
  /\ verifier' = [verifier EXCEPT !.signers = @ \cup {s}]
  /\ UNCHANGED <<gateway, lock, op, calls, clock, elapsed, accepted>>

Revoke(m) ==
  /\ m \notin verifier.revoked
  /\ verifier' = [verifier EXCEPT !.revoked = @ \cup {m}]
  /\ UNCHANGED <<gateway, lock, op, calls, clock, elapsed, accepted>>

-----------------------------------------------------------------------------
(* TrustPDP. *)

\* A slip: the gateway's mutex is taken for the whole handshake.
BeginTrustLocked(c, g, s) ==
  /\ op[c].pc = "idle"
  /\ lock[g] = Nobody
  /\ calls < MaxCalls
  /\ calls' = calls + 1
  /\ lock' = [lock EXCEPT ![g] = c]
  /\ op' = [op EXCEPT ![c].pc = "challenged", ![c].gw = g, ![c].nonce = calls + 1,
                      ![c].enrollment.svc = s]
  /\ UNCHANGED <<verifier, gateway, clock, elapsed, accepted>>

\* The challenge: a fresh nonce goes to the service.
BeginTrust(c, g, s) ==
  /\ op[c].pc = "idle"
  /\ calls < MaxCalls
  /\ calls' = calls + 1
  /\ op' = [op EXCEPT ![c] =
              Started("challenged", g, calls + 1, op[c].req,
                      [NoEnrollment EXCEPT !.svc = s, !.knownRevoked = verifier.revoked])]
  /\ UNCHANGED <<verifier, gateway, lock, clock, elapsed, accepted>>

\* What Attest can return: a quote and the key it is said to bind.  A hostile
\* channel passes on any quote over any nonce sent so far, with any key.
AttestAnswers(s, n) ==
  IF HostileChannel
  THEN {[quote |-> QuoteOf(e, m), pub |-> k] : e \in Engines, m \in 0..calls, k \in Engines}
  ELSE {[quote |-> QuoteOf(s, n), pub |-> s]}

\* A call that may pin the key pub, under the endorsement name build.
Approved(call, pub, build) ==
  [call EXCEPT !.pc = "approved", !.approved = TRUE,
               !.enrollment = [@ EXCEPT !.key = pub, !.build = build]]

\* The service answers, and the verifier appraises the answer.
AttestAnswered(c) ==
  LET answers == AttestAnswers(op[c].enrollment.svc, op[c].nonce)
      sound   == {a \in answers : Appraise(verifier, a.quote, a.pub, op[c].nonce)}
  IN
  /\ op[c].pc = "challenged"
  /\ \/ \E a \in sound :
          op' = [op EXCEPT ![c] = Approved(@, a.pub, EndorsementName(verifier, a.quote))]
     \/ /\ answers # sound
        /\ op' = [op EXCEPT ![c].pc = "refused"]
  /\ UNCHANGED <<verifier, gateway, lock, calls, clock, elapsed, accepted>>

\* g.mu.Lock, after the appraisal.
LockGateway(c) ==
  /\ op[c].pc \in {"approved", "refused"}
  /\ lock[op[c].gw] = Nobody
  /\ lock' = [lock EXCEPT ![op[c].gw] = c]
  /\ op' = [op EXCEPT ![c].pc = "updating"]
  /\ UNCHANGED <<verifier, gateway, calls, clock, elapsed, accepted>>

\* The appraised service, key and build are pinned, and the mutex given up.
Pin(c) ==
  /\ op[c].pc = "updating"
  /\ op[c].approved
  /\ gateway' = [gateway EXCEPT ![op[c].gw] =
                   [op[c].enrollment EXCEPT !.enrolledAt = clock, !.pinnedTick = elapsed]]
  /\ lock' = [lock EXCEPT ![op[c].gw] = Nobody]
  /\ op' = [op EXCEPT ![c] = Returned(@, "enrolled")]
  /\ UNCHANGED <<verifier, calls, clock, elapsed, accepted>>

\* A slip: the service stays although its key is gone.
ClearKeyOnly(c) ==
  /\ op[c].pc = "updating"
  /\ ~op[c].approved
  /\ gateway' = [gateway EXCEPT ![op[c].gw].key = NoEngine, ![op[c].gw].build = NoBuild]
  /\ lock' = [lock EXCEPT ![op[c].gw] = Nobody]
  /\ op' = [op EXCEPT ![c] = Returned(@, "refused")]
  /\ UNCHANGED <<verifier, calls, clock, elapsed, accepted>>

\* The appraisal failed: the gateway has no PDP; enrolledAt is left as it was.
Clear(c) ==
  /\ op[c].pc = "updating"
  /\ ~op[c].approved
  /\ gateway' = [gateway EXCEPT ![op[c].gw] =
                   [NoEnrollment EXCEPT !.enrolledAt = gateway[op[c].gw].enrolledAt]]
  /\ lock' = [lock EXCEPT ![op[c].gw] = Nobody]
  /\ op' = [op EXCEPT ![c] = Returned(@, "refused")]
  /\ UNCHANGED <<verifier, calls, clock, elapsed, accepted>>

-----------------------------------------------------------------------------
(* Authorize. *)

BeginAuthorize(c, g, r) ==
  /\ op[c].pc = "idle"
  /\ calls < MaxCalls
  /\ calls' = calls + 1
  /\ op' = [op EXCEPT ![c] = Started("calling", g, calls + 1, r, NoEnrollment)]
  /\ UNCHANGED <<verifier, gateway, lock, clock, elapsed, accepted>>

\* The enrollment is read under the read lock; without one, fail closed.
Snapshot(c) ==
  LET g == op[c].gw IN
  /\ op[c].pc = "calling"
  /\ lock[g] = Nobody
  /\ op' = IF gateway[g].svc = NoEngine
           THEN [op EXCEPT ![c] = Returned(@, "no_pdp")]
           ELSE [op EXCEPT ![c].pc = "snapshot", ![c].enrollment = gateway[g]]
  /\ UNCHANGED <<verifier, gateway, lock, calls, clock, elapsed, accepted>>

\* A slip: the limit itself counts as too old.
ExpiredAtLimit(age) == MaxAge > 0 /\ (age < 0 \/ age >= MaxAge)

Expired(age) == MaxAge > 0 /\ (age < 0 \/ age > MaxAge)

\* The clock is read after the read lock was released.
CheckAge(c) ==
  LET checked == [op[c] EXCEPT !.heldFor = elapsed - op[c].enrollment.pinnedTick] IN
  /\ op[c].pc = "snapshot"
  /\ op' = IF Expired(clock - op[c].enrollment.enrolledAt)
           THEN [op EXCEPT ![c] = Returned(checked, "expired")]
           ELSE [op EXCEPT ![c] = [checked EXCEPT !.pc = "asked"]]
  /\ UNCHANGED <<verifier, gateway, lock, calls, clock, elapsed, accepted>>

\* Engine.Decide: the engine's verdict on the request as it got it, signed over
\* that request's hash and the nonce.
Decided(e, r, n) == [signer |-> e, hash |-> HashOf[r], nonce |-> n, verdict |-> VerdictOf[e][r]]

\* What Decide can return.  A hostile channel passes on any decision of any
\* engine, on any request, one rewritten under its hash included, and any nonce
\* sent so far, or a decision that it altered.
DecideAnswers(s, r, n) ==
  IF HostileChannel
  THEN {Decided(e, q, m) : e \in Engines, q \in Requests, m \in 0..calls}
         \cup {[signer |-> NoEngine, hash |-> HashOf[r], nonce |-> n, verdict |-> v] : v \in Verdicts}
  ELSE {Decided(s, r, n)}

\* Slips: a part of the bind-check is left out.
BoundAnyNonce(d, call) == d.hash = HashOf[call.req] /\ d.signer = call.enrollment.key
BoundAnyRequest(d, call) == d.nonce = call.nonce /\ d.signer = call.enrollment.key

\* The bind-check: this request's hash, this nonce, the pinned key.
Bound(d, call) ==
  /\ d.nonce = call.nonce
  /\ d.hash = HashOf[call.req]
  /\ d.signer = call.enrollment.key

\* The decision d is returned if it is bound to the call as c knows it.
ReturnIfBound(c, call, d) ==
  /\ IF Bound(d, call)
     THEN /\ op' = [op EXCEPT ![c] = Returned(@, "accepted")]
          /\ accepted' = accepted \cup
               {[gw |-> call.gw, nonce |-> call.nonce, req |-> call.req,
                 key |-> call.enrollment.key, decision |-> d, heldFor |-> call.heldFor,
                 knownRevoked |-> call.enrollment.knownRevoked]}
     ELSE /\ op' = [op EXCEPT ![c] = Returned(@, "bad_decision")]
          /\ UNCHANGED accepted
  /\ UNCHANGED <<verifier, gateway, lock, calls, clock, elapsed>>

\* A slip: the key is read again when the decision arrives.
DecideAnsweredByCurrentKey(c) ==
  /\ op[c].pc = "asked"
  /\ \E d \in DecideAnswers(op[c].enrollment.svc, op[c].req, op[c].nonce) :
       ReturnIfBound(c, [op[c] EXCEPT !.enrollment.key = gateway[op[c].gw].key], d)

\* The service answers the call.
DecideAnswered(c) ==
  /\ op[c].pc = "asked"
  /\ \E d \in DecideAnswers(op[c].enrollment.svc, op[c].req, op[c].nonce) :
       ReturnIfBound(c, op[c], d)

-----------------------------------------------------------------------------
(* Time. *)

Tick ==
  /\ elapsed < MaxTime
  /\ elapsed' = elapsed + 1
  /\ clock' = clock + 1
  /\ UNCHANGED <<verifier, gateway, lock, op, calls, accepted>>

SetClockBack ==
  /\ \E t \in 0..(clock - 1) : clock' = t
  /\ UNCHANGED <<verifier, gateway, lock, op, calls, elapsed, accepted>>

Trust(c) ==
  \/ \E g \in Gateways, s \in Engines : BeginTrust(c, g, s)
  \/ AttestAnswered(c) \/ LockGateway(c) \/ Pin(c) \/ Clear(c)

Authorize(c) ==
  \/ \E g \in Gateways, r \in Requests : BeginAuthorize(c, g, r)
  \/ Snapshot(c) \/ CheckAge(c) \/ DecideAnswered(c)

Operator ==
  \/ \E m \in Measurements : Endorse(m) \/ Revoke(m)
  \/ \E s \in Signers : EndorseSigner(s)

Next ==
  \/ \E c \in Callers : Trust(c) \/ Authorize(c)
  \/ Operator
  \/ Tick \/ SetClockBack

Spec == Init /\ [][Next]_vars

\* sync.RWMutex starves nobody, code that holds it runs on, and the services
\* answer Decide.  Nothing is assumed of Attest: the answer may never come.
Fairness ==
  \A c \in Callers :
    /\ SF_vars(Snapshot(c)) /\ SF_vars(LockGateway(c))
    /\ WF_vars(Pin(c)) /\ WF_vars(Clear(c))
    /\ WF_vars(CheckAge(c)) /\ WF_vars(DecideAnswered(c))

FairSpec == Spec /\ Fairness

-----------------------------------------------------------------------------
(* What the gateway promises. *)

\* The engine runs on hardware the verifier trusts and accepts, and its build is
\* endorsed.  Endorsements are never taken back, so this never ceases to hold.
Vouched(e) ==
  /\ RootOf[e] \in Roots
  /\ TcbOf[e] >= MinTCB
  /\ MeasurementOf[e] \in verifier.refs \/ SignerOf[e] \in verifier.signers

\* "pinnedKey is only ever set by a successful TrustPDP appraisal": whatever the
\* channels answer and however handshakes overlap, a pinned key is that of a
\* vouched engine, under one of its own names, whose build was not yet revoked
\* when the challenge that led to the enrollment was sent.
PinnedWasAppraised ==
  \A g \in Gateways :
    LET e == gateway[g].key IN
    e # NoEngine =>
      /\ Vouched(e)
      /\ gateway[g].build \in {MeasurementOf[e], SignerOf[e]}
      /\ MeasurementOf[e] \notin gateway[g].knownRevoked

\* A call whose request was put, or is about to be put, to the engine of its
\* snapshot; and the question that it puts.
Asking(call) == call.pc \in {"snapshot", "asked"}

QuestionOf(call) ==
  [gw |-> call.gw, req |-> call.req, nonce |-> call.nonce, judge |-> call.enrollment.key]

AnswerOf(a) ==
  [gw |-> a.gw, req |-> a.req, nonce |-> a.decision.nonce,
   judge |-> a.decision.signer, verdict |-> a.decision.verdict]

\* What a gateway may take for e's verdict on r.  A truthful channel delivers that
\* verdict.  A hostile one may have e judge another request of r's hash: if r is
\* well-formed that can turn a grant into a denial, and never a denial into a grant.
Judgements ==
  [e \in Engines |-> [r \in Requests |->
     IF ~HostileChannel THEN {VerdictOf[e][r]}
     ELSE IF r \in WellFormed THEN {VerdictOf[e][r], Denial}
     ELSE {VerdictOf[e][q] : q \in {x \in Requests : HashOf[x] = HashOf[r]}}]]

VouchedEngines == {e \in Engines : Vouched(e)}
TrustedKeys    == [g \in Gateways |-> gateway[g].key]
Questions      == {QuestionOf(op[c]) : c \in {d \in Callers : Asking(op[d])}}
Answers        == {AnswerOf(a) : a \in accepted}

Enforced == INSTANCE Enforcement
              WITH vouched <- VouchedEngines, trusted <- TrustedKeys,
                   pending <- Questions, honoured <- Answers

\* "This request is judged against the enrollment that was current when it
\* started": whatever the channels answer, and although enrollments change between
\* the snapshot and the answer, Authorize returns only what the vouched engine that
\* its gateway trusted at the snapshot judged of a request of this hash, so of a
\* well-formed one its own verdict or a denial; everything else that the gateways
\* and verifiers do is invisible.
ImplementsEnforcement == Enforced!Spec

\* No decision is honoured for two calls, at whichever gateways.
NoDecisionHonouredTwice ==
  \A a, b \in accepted : a.decision = b.decision => a = b

\* "A build found vulnerable must stop attesting": however handshakes overlap, no
\* decision of a revoked build is honoured under an enrollment whose challenge was
\* sent after the revocation.  An older enrollment is honoured until it expires.
RevokedNotHonouredAnew ==
  \A a \in accepted : MeasurementOf[a.decision.signer] \notin a.knownRevoked

\* A service that answers truthfully is never accused of a bad decision: the
\* service and the key that a request uses always belong together, in the midst
\* of re-enrollments with other services.
TruthfulServiceHonoured ==
  ~HostileChannel => \A c \in Callers : op[c].result # "bad_decision"

\* By how much the clock has been set back so far.
Drift == elapsed - clock

\* The age limit, to the tick and for any setting back of the clock: an enrollment
\* outlives its maximum age by no more than the clock was set back, and is given up
\* early only while it is younger than that.  With a clock that was never set back
\* it is honoured up to and including its maximum age, and not a tick longer.
AgeDecides ==
  MaxAge > 0 =>
    /\ \A c \in Callers :
         /\ op[c].pc = "asked" => op[c].heldFor <= MaxAge + Drift
         /\ op[c].result = "expired" => op[c].heldFor > MaxAge \/ op[c].heldFor < Drift
    /\ \A a \in accepted : a.heldFor <= MaxAge + Drift

\* The claim made for clocks that go back: they count as expiry, so no enrollment
\* is honoured beyond its maximum age.
ClockCannotProlong ==
  MaxAge > 0 => \A a \in accepted : a.heldFor <= MaxAge

\* Every Authorize returns, although a service being enrolled may never answer
\* its challenge: no lock is held over the handshake.
AuthorizeReturns ==
  \A c \in Callers : op[c].pc \in {"calling", "snapshot", "asked"} ~> op[c].pc = "idle"
=============================================================================
