---------------------------- MODULE GatewayProofs ----------------------------
(***************************************************************************)
(* Theorems about Gateway, for any number of gateways, callers and         *)
(* engines, truthful or hostile channels, and any bounds.                  *)
(*                                                                         *)
(* What the gateway promises speaks of what is pinned and of what was      *)
(* accepted, so the inductive invariant says what every call in progress   *)
(* and every pinned enrollment knows: whose key it holds and who vouched   *)
(* for that, how old it is, and that its nonce is its own.  These are      *)
(* predicates of a call or an enrollment and of the state around it, given *)
(* as arguments: v the verifier, n the calls made, k the clock, t the time *)
(* that has passed.                                                        *)
(***************************************************************************)
EXTENDS Gateway, TLAPS

VerifierStates == [refs : SUBSET Measurements, signers : SUBSET Signers, revoked : SUBSET Measurements]

VouchedBy(v, e) ==
  /\ RootOf[e] \in Roots
  /\ TcbOf[e] >= MinTCB
  /\ MeasurementOf[e] \in v.refs \/ SignerOf[e] \in v.signers

\* Whoever's key the enrollment r holds was appraised.
Backed(r, v) ==
  r.key # NoEngine =>
    /\ VouchedBy(v, r.key)
    /\ r.build \in {MeasurementOf[r.key], SignerOf[r.key]}
    /\ MeasurementOf[r.key] \notin r.knownRevoked

\* An enrollment made when the clock had been set back by no more than d in all.
PinnedWithin(r, d) ==
  /\ r.enrolledAt <= r.pinnedTick
  /\ r.pinnedTick - r.enrolledAt <= d

\* A pinned enrollment.
Pinned(r, v, k, t) ==
  /\ Backed(r, v)
  /\ r.pinnedTick <= t
  /\ r.svc # NoEngine => r.key # NoEngine
  /\ ~HostileChannel => r.svc = r.key
  /\ r.svc # NoEngine => PinnedWithin(r, t - k)

\* A call p, at each point.
Known(p, v, n, k, t) ==
  /\ Backed(p.enrollment, v)
  /\ p.enrollment.pinnedTick <= t
  /\ p.pc = "idle" => ~p.approved /\ p.enrollment = NoEnrollment
  /\ p.pc # "idle" => p.nonce \in 1 .. n /\ p.result = "none"
  /\ p.pc = "challenged" =>
       /\ p.enrollment.svc # NoEngine
       /\ p.enrollment.key = NoEngine
       /\ p.enrollment.knownRevoked \subseteq v.revoked
  /\ p.pc \in {"snapshot", "asked"} \/ p.approved =>
       /\ p.enrollment.svc # NoEngine
       /\ p.enrollment.key # NoEngine
       /\ ~HostileChannel => p.enrollment.svc = p.enrollment.key
  /\ p.pc \in {"snapshot", "asked"} => PinnedWithin(p.enrollment, t - k)
  /\ ~HostileChannel => p.result # "bad_decision"
  /\ MaxAge > 0 =>
       /\ p.pc = "asked" => p.heldFor <= MaxAge + (t - k)
       /\ p.result = "expired" => p.heldFor > MaxAge \/ p.heldFor < t - k

\* An accepted decision is a judgement, for the call's nonce and the hash of its
\* request, of the engine it names, whose build was not known as revoked when the
\* enrollment it is accepted under was challenged for.
Faithful(a, n) ==
  /\ a.nonce \in 1 .. n
  /\ a.decision.nonce = a.nonce /\ a.decision.signer = a.key
  /\ a.decision.hash = HashOf[a.req]
  /\ a.decision.verdict \in Judgements[a.key][a.req]
  /\ MeasurementOf[a.key] \notin a.knownRevoked

\* It was asked of an enrollment that was too old by no more than the clock lags.
InTime(a, k, t) == MaxAge > 0 => a.heldFor <= MaxAge + (t - k)

\* A nonce belongs to one call.
NoncesDiffer ==
  /\ \A c, d \in Callers : c # d /\ op[c].pc # "idle" /\ op[d].pc # "idle" => op[c].nonce # op[d].nonce
  /\ \A a \in accepted, c \in Callers : op[c].pc # "idle" => a.nonce # op[c].nonce
  /\ \A a, b \in accepted : a.nonce = b.nonce => a = b

GatewayInv ==
  /\ TypeOK
  /\ clock <= elapsed
  /\ \A g \in Gateways : Pinned(gateway[g], verifier, clock, elapsed)
  /\ \A c \in Callers : Known(op[c], verifier, calls, clock, elapsed)
  /\ \A a \in accepted : Faithful(a, calls)
  /\ \A a \in accepted : InTime(a, clock, elapsed)
  /\ NoncesDiffer

-----------------------------------------------------------------------------
(* What is known stays known while the verifier learns, calls are made and   *)
(* time passes.                                                              *)

\* Endorsements are never taken back, calls and time only grow, and a clock that
\* has fallen behind never catches up.
WorldGrows ==
  /\ verifier.refs \subseteq verifier'.refs
  /\ verifier.signers \subseteq verifier'.signers
  /\ verifier.revoked \subseteq verifier'.revoked
  /\ {calls, clock, elapsed} \subseteq Nat /\ {calls, clock, elapsed}' \subseteq Nat
  /\ calls <= calls' /\ elapsed <= elapsed'
  /\ elapsed - clock <= elapsed' - clock'

LEMMA BackedStays ==
  ASSUME NEW r, WorldGrows, Backed(r, verifier)
  PROVE  Backed(r, verifier)'
  BY DEF Backed, VouchedBy, WorldGrows

LEMMA PinnedWithinStays ==
  ASSUME NEW r \in Enrollment, WorldGrows, PinnedWithin(r, elapsed - clock)
  PROVE  PinnedWithin(r, elapsed - clock)'
  BY DEF PinnedWithin, Enrollment, WorldGrows

LEMMA InTimeStays ==
  ASSUME NEW a, a.heldFor \in Nat, WorldGrows, InTime(a, clock, elapsed)
  PROVE  InTime(a, clock, elapsed)'
  BY VerifierAssumption DEF InTime, WorldGrows

LEMMA PinnedStays ==
  ASSUME NEW r \in Enrollment, WorldGrows, Pinned(r, verifier, clock, elapsed)
  PROVE  Pinned(r, verifier, clock, elapsed)'
  <1>1. Backed(r, verifier)'
    BY BackedStays DEF Pinned
  <1>2. r.svc # NoEngine => PinnedWithin(r, elapsed - clock)'
    BY PinnedWithinStays DEF Pinned
  <1> QED  BY <1>1, <1>2 DEF Pinned, Enrollment, WorldGrows

LEMMA KnownStays ==
  ASSUME NEW p \in Call, WorldGrows, Known(p, verifier, calls, clock, elapsed)
  PROVE  Known(p, verifier, calls, clock, elapsed)'
  <1>1. p.enrollment \in Enrollment /\ p.nonce \in Nat
    BY DEF Call
  <1>2. Backed(p.enrollment, verifier)'
    BY BackedStays DEF Known
  <1>3. p.enrollment.pinnedTick <= elapsed'
    BY <1>1 DEF Known, Enrollment, WorldGrows
  <1>4. p.pc # "idle" => p.nonce \in 1 .. calls'
    BY <1>1 DEF Known, WorldGrows
  <1>5. p.pc \in {"snapshot", "asked"} => PinnedWithin(p.enrollment, elapsed - clock)'
    BY <1>1, PinnedWithinStays DEF Known
  <1>6. MaxAge > 0 =>
          /\ p.pc = "asked" => p.heldFor <= MaxAge + (elapsed' - clock')
          /\ p.result = "expired" => p.heldFor > MaxAge \/ p.heldFor < elapsed' - clock'
    <2>1. p.heldFor \in Nat
      BY DEF Call
    <2> QED  BY <2>1, VerifierAssumption DEF Known, WorldGrows
  <1> QED  BY <1>2, <1>3, <1>4, <1>5, <1>6 DEF Known, WorldGrows

\* The zero enrollment holds nobody's key.
LEMMA NoEnrollmentType == NoEnrollment \in Enrollment
  BY DEF NoEnrollment, Enrollment

\* What TypeOK says of one gateway, one call and the verifier.
LEMMA Parts ==
  ASSUME GatewayInv
  PROVE  /\ verifier \in VerifierStates
         /\ \A g \in Gateways : gateway[g] \in Enrollment
         /\ \A c \in Callers : op[c] \in Call /\ op[c].enrollment \in Enrollment /\ op[c].gw \in Gateways
         /\ calls \in Nat /\ clock \in Nat /\ elapsed \in Nat
  BY DEF GatewayInv, TypeOK, VerifierStates, Call

-----------------------------------------------------------------------------
(* Steps. *)

\* What a step has to establish that moves the call of one caller and accepts
\* nothing: what its call w and the gateways know afterwards, and that w goes
\* on with its nonce or has a fresh one.
LEMMA OneCaller ==
  ASSUME GatewayInv, NEW c \in Callers, NEW w \in Call, op' = [op EXCEPT ![c] = w],
         UNCHANGED <<verifier, clock, elapsed, accepted>>,
         gateway' \in [Gateways -> Enrollment], lock' \in [Gateways -> Callers \cup {Nobody}],
         calls' \in {calls, calls + 1},
         \A g \in Gateways : gateway'[g] = gateway[g] \/ Pinned(gateway'[g], verifier, clock, elapsed),
         Known(w, verifier, calls', clock, elapsed),
         w.pc # "idle" => \/ op[c].pc # "idle" /\ w.nonce = op[c].nonce
                          \/ calls' = calls + 1 /\ w.nonce = calls'
  PROVE  GatewayInv'
  <1>1. op'[c] = w /\ \A d \in Callers \ {c} : op'[d] = op[d]
    BY DEF GatewayInv, TypeOK
  <1>2. calls' \in Nat /\ calls <= calls'
    BY DEF GatewayInv, TypeOK
  <1>3. TypeOK' /\ WorldGrows
    BY <1>2 DEF GatewayInv, TypeOK, WorldGrows
  <1>4. \A g \in Gateways : Pinned(gateway[g], verifier, clock, elapsed)'
    BY DEF GatewayInv
  <1>5. ASSUME NEW d \in Callers
        PROVE  Known(op[d], verifier, calls, clock, elapsed)'
    <2>1. CASE d = c
      BY <1>1, <2>1
    <2>2. CASE d # c
      <3>1. Known(op[d], verifier, calls, clock, elapsed) /\ op[d] \in Call
        BY Parts DEF GatewayInv
      <3> QED  BY <3>1, <2>2, <1>1, <1>3, KnownStays
    <2> QED  BY <2>1, <2>2
  <1>6. \A a \in accepted' : Faithful(a, calls)'
    <2>1. \A a \in accepted : Faithful(a, calls) /\ a.nonce \in Nat
      BY DEF GatewayInv, TypeOK
    <2> QED  BY <2>1, <1>2 DEF GatewayInv, TypeOK, Faithful
  <1>6a. \A a \in accepted' : InTime(a, clock, elapsed)'
    BY DEF GatewayInv
  <1>7. NoncesDiffer'
    <2>1. \A d \in Callers : op[d].pc # "idle" => op[d].nonce \in 1 .. calls
      BY DEF GatewayInv, Known
    <2>2. \A a \in accepted : a.nonce \in 1 .. calls
      BY DEF GatewayInv, Faithful
    <2>3. calls \in Nat
      BY DEF GatewayInv, TypeOK
    <2>4. ASSUME NEW d \in Callers, d # c, op[d].pc # "idle", w.pc # "idle"
          PROVE  w.nonce # op[d].nonce
      BY <2>1, <2>3, <2>4 DEF GatewayInv, NoncesDiffer
    <2>5. ASSUME NEW a \in accepted, w.pc # "idle"
          PROVE  a.nonce # w.nonce
      BY <2>2, <2>3, <2>5 DEF GatewayInv, NoncesDiffer
    <2> QED  BY <2>4, <2>5, <1>1 DEF GatewayInv, NoncesDiffer
  <1> QED  BY <1>3, <1>4, <1>5, <1>6, <1>6a, <1>7 DEF GatewayInv

\* What a step has to establish that concerns no call: the verifier learns, or
\* time passes.
LEMMA NoCaller ==
  ASSUME GatewayInv, UNCHANGED <<gateway, lock, op, calls, accepted>>,
         verifier' \in VerifierStates, clock' \in Nat, elapsed' \in Nat,
         WorldGrows, clock' <= elapsed'
  PROVE  GatewayInv'
  <1>1. TypeOK'
    BY DEF GatewayInv, TypeOK, VerifierStates
  <1>2. ASSUME NEW g \in Gateways
        PROVE  Pinned(gateway[g], verifier, clock, elapsed)'
    <2>1. Pinned(gateway[g], verifier, clock, elapsed) /\ gateway[g] \in Enrollment
      BY Parts DEF GatewayInv
    <2> QED  BY <2>1, PinnedStays
  <1>3. ASSUME NEW c \in Callers
        PROVE  Known(op[c], verifier, calls, clock, elapsed)'
    <2>1. Known(op[c], verifier, calls, clock, elapsed) /\ op[c] \in Call
      BY Parts DEF GatewayInv
    <2> QED  BY <2>1, KnownStays
  <1>4. (\A a \in accepted : Faithful(a, calls))' /\ NoncesDiffer'
    BY DEF GatewayInv, NoncesDiffer
  <1>5. (\A a \in accepted : InTime(a, clock, elapsed))'
    <2>1. \A a \in accepted : a.heldFor \in Nat /\ InTime(a, clock, elapsed)
      BY DEF GatewayInv, TypeOK
    <2> QED  BY <2>1, InTimeStays
  <1> QED  BY <1>1, <1>2, <1>3, <1>4, <1>5 DEF GatewayInv

\* Initially nobody has called and nothing is pinned.
LEMMA GatewayInit == Init => GatewayInv
  <1> SUFFICES ASSUME Init PROVE GatewayInv
    OBVIOUS
  <1>1. AnyGateway \in Gateways /\ AnyRequest \in Requests
    BY CallsAssumption DEF AnyGateway, AnyRequest
  <1>2. TypeOK
    BY <1>1, NoEnrollmentType DEF Init, TypeOK, Call, Started
  <1>3. \A g \in Gateways : Pinned(gateway[g], verifier, clock, elapsed)
    BY DEF Init, Pinned, Backed, NoEnrollment
  <1>4. ASSUME NEW c \in Callers
        PROVE  Known(op[c], verifier, calls, clock, elapsed)
    <2>1. /\ op[c].pc = "idle" /\ ~op[c].approved /\ op[c].enrollment = NoEnrollment
          /\ op[c].result = "none"
      BY DEF Init, Started
    <2>2. NoEnrollment.key = NoEngine /\ NoEnrollment.pinnedTick = 0
      BY DEF NoEnrollment
    <2> QED  BY <2>1, <2>2 DEF Init, Known, Backed
  <1>5. NoncesDiffer /\ accepted = {} /\ clock <= elapsed
    BY DEF Init, NoncesDiffer, Started
  <1> QED  BY <1>2, <1>3, <1>4, <1>5 DEF GatewayInv

\* What a call forgets when it returns leaves nothing to know but its result.
LEMMA ReturnedKnown ==
  ASSUME NEW p \in Call, NEW v, NEW n, NEW k, NEW t \in Nat,
         NEW r \in {"enrolled", "refused", "accepted", "no_pdp", "expired", "bad_decision"},
         r = "bad_decision" => HostileChannel,
         r = "expired" /\ MaxAge > 0 => p.heldFor > MaxAge \/ p.heldFor < t - k
  PROVE  /\ Returned(p, r) \in Call
         /\ Returned(p, r).pc = "idle"
         /\ Known(Returned(p, r), v, n, k, t)
  <1>1. /\ Returned(p, r) \in Call
        /\ Returned(p, r).pc = "idle" /\ ~Returned(p, r).approved
        /\ Returned(p, r).enrollment = NoEnrollment
        /\ Returned(p, r).result = r /\ Returned(p, r).heldFor = p.heldFor
    BY NoEnrollmentType DEF Returned, Call
  <1>2. NoEnrollment.key = NoEngine /\ NoEnrollment.pinnedTick = 0
    BY DEF NoEnrollment
  <1> QED  BY <1>1, <1>2 DEF Known, Backed

\* A challenge goes out under a fresh nonce.
LEMMA BeginTrustKeeps ==
  ASSUME GatewayInv, NEW c \in Callers, NEW g \in Gateways, NEW s \in Engines, BeginTrust(c, g, s)
  PROVE  GatewayInv'
  <1> DEFINE r == [NoEnrollment EXCEPT !.svc = s, !.knownRevoked = verifier.revoked]
  <1> DEFINE w == Started("challenged", g, calls + 1, op[c].req, r)
  <1>1. op[c].req \in Requests /\ verifier.revoked \in SUBSET Measurements /\ calls \in Nat
    BY Parts DEF Call, VerifierStates
  <1>2. /\ r \in Enrollment /\ r.svc = s /\ r.key = NoEngine /\ r.pinnedTick = 0
        /\ r.knownRevoked = verifier.revoked
    BY <1>1 DEF NoEnrollment, Enrollment
  <1>3. op' = [op EXCEPT ![c] = w]
    BY DEF BeginTrust
  <1> HIDE DEF r
  <1>4. /\ w \in Call
        /\ w.pc = "challenged" /\ w.nonce = calls + 1 /\ w.result = "none"
        /\ w.enrollment = r /\ ~w.approved
    BY <1>1, <1>2 DEF Call, Started
  <1> HIDE DEF w
  <1>5. Known(w, verifier, calls', clock, elapsed)
    BY <1>1, <1>2, <1>4, EnginesAssumption, Parts DEF Known, Backed, BeginTrust
  <1> QED  BY <1>1, <1>3, <1>4, <1>5, OneCaller DEF BeginTrust, GatewayInv, TypeOK

\* A request sets out under a fresh nonce.
LEMMA BeginAuthorizeKeeps ==
  ASSUME GatewayInv, NEW c \in Callers, NEW g \in Gateways, NEW r \in Requests, BeginAuthorize(c, g, r)
  PROVE  GatewayInv'
  <1> DEFINE w == Started("calling", g, calls + 1, r, NoEnrollment)
  <1>1. calls \in Nat
    BY Parts
  <1>2. /\ w \in Call
        /\ w.pc = "calling" /\ w.nonce = calls + 1 /\ w.result = "none"
        /\ w.enrollment = NoEnrollment /\ ~w.approved
    BY <1>1, NoEnrollmentType DEF Call, Started
  <1>3. op' = [op EXCEPT ![c] = w]
    BY DEF BeginAuthorize
  <1> HIDE DEF w
  <1>4. NoEnrollment.key = NoEngine /\ NoEnrollment.pinnedTick = 0
    BY DEF NoEnrollment
  <1>5. Known(w, verifier, calls', clock, elapsed)
    BY <1>1, <1>2, <1>4, Parts DEF Known, Backed, BeginAuthorize
  <1> QED  BY <1>1, <1>2, <1>3, <1>5, OneCaller DEF BeginAuthorize, GatewayInv, TypeOK

\* What Appraise accepts is the quote of the engine whose key came with it, and
\* that engine is vouched for and was not revoked when it was challenged.
LEMMA AppraisedIsVouched ==
  ASSUME NEW e \in Engines, NEW m, NEW pub, NEW n, NEW v \in VerifierStates,
         Appraise(v, QuoteOf(e, m), pub, n)
  PROVE  /\ pub = e
         /\ VouchedBy(v, e)
         /\ MeasurementOf[e] \notin v.revoked
         /\ EndorsementName(v, QuoteOf(e, m)) \in {MeasurementOf[e], SignerOf[e]}
         /\ EndorsementName(v, QuoteOf(e, m)) \in Measurements \cup Signers
  BY DEF Appraise, QuoteOf, EndorsementName, VouchedBy, VerifierStates

\* The channel's answer is the quote of some engine, and of the challenged one
\* if the channel is truthful.
LEMMA AttestAnswersType ==
  ASSUME NEW s \in Engines, NEW n, NEW answer \in AttestAnswers(s, n)
  PROVE  \E e \in Engines, m \in 0 .. calls \cup {n} :
           /\ answer.quote = QuoteOf(e, m)
           /\ ~HostileChannel => e = s
  BY DEF AttestAnswers

\* An approved call holds the appraised engine's key.
LEMMA AttestAnsweredKeeps ==
  ASSUME GatewayInv, NEW c \in Callers, AttestAnswered(c)
  PROVE  GatewayInv'
  <1> DEFINE s == op[c].enrollment.svc
  <1>1. PICK answer \in AttestAnswers(s, op[c].nonce) :
          IF Appraise(verifier, answer.quote, answer.pub, op[c].nonce)
          THEN op' = [op EXCEPT ![c] =
                        Approved(@, answer.pub, EndorsementName(verifier, answer.quote))]
          ELSE op' = [op EXCEPT ![c].pc = "refused"]
    BY DEF AttestAnswered
  <1>2. /\ op[c] \in Call /\ op[c].enrollment \in Enrollment /\ op[c].pc = "challenged"
        /\ Known(op[c], verifier, calls, clock, elapsed)
        /\ UNCHANGED <<verifier, gateway, lock, calls, clock, elapsed, accepted>>
        /\ verifier \in VerifierStates /\ calls \in Nat /\ clock \in Nat /\ elapsed \in Nat
    BY Parts DEF AttestAnswered, GatewayInv
  <1>3. s \in Engines /\ op[c].enrollment.key = NoEngine
        /\ op[c].enrollment.knownRevoked \subseteq verifier.revoked
    BY <1>2 DEF Known, Enrollment
  <1>4. CASE ~Appraise(verifier, answer.quote, answer.pub, op[c].nonce)
    <2> DEFINE w == [op[c] EXCEPT !.pc = "refused"]
    <2>1. /\ w \in Call /\ w.pc = "refused" /\ w.enrollment = op[c].enrollment
          /\ w.approved = op[c].approved /\ w.nonce = op[c].nonce
          /\ w.result = op[c].result /\ w.heldFor = op[c].heldFor
      BY <1>2 DEF Call
    <2>2. op' = [op EXCEPT ![c] = w]
      BY <1>1, <1>4
    <2> HIDE DEF w
    <2>3. Known(w, verifier, calls', clock, elapsed)
      BY <1>2, <2>1 DEF Known
    <2> QED  BY <1>2, <2>1, <2>2, <2>3, OneCaller DEF GatewayInv, TypeOK
  <1>5. CASE Appraise(verifier, answer.quote, answer.pub, op[c].nonce)
    <2> DEFINE b == EndorsementName(verifier, answer.quote)
    <2> DEFINE r == [op[c].enrollment EXCEPT !.key = answer.pub, !.build = b]
    <2> DEFINE w == Approved(op[c], answer.pub, b)
    <2>1. PICK e \in Engines, m \in 0 .. calls \cup {op[c].nonce} :
            /\ answer.quote = QuoteOf(e, m)
            /\ ~HostileChannel => e = s
      BY <1>3, AttestAnswersType
    <2>2. /\ answer.pub = e /\ VouchedBy(verifier, e) /\ MeasurementOf[e] \notin verifier.revoked
          /\ b \in {MeasurementOf[e], SignerOf[e]} /\ b \in Measurements \cup Signers
      BY <1>2, <1>5, <2>1, AppraisedIsVouched
    <2>3. op' = [op EXCEPT ![c] = w]
      BY <1>1, <1>5
    <2> HIDE DEF b
    <2>4. /\ r \in Enrollment /\ r.svc = s /\ r.key = e /\ r.build = b
          /\ r.pinnedTick = op[c].enrollment.pinnedTick
          /\ r.knownRevoked = op[c].enrollment.knownRevoked
      BY <1>2, <2>2 DEF Enrollment
    <2>5. w = [op[c] EXCEPT !.pc = "approved", !.approved = TRUE, !.enrollment = r]
      BY DEF Approved
    <2> HIDE DEF r, w
    <2>6. /\ w \in Call /\ w.pc = "approved" /\ w.enrollment = r
          /\ w.nonce = op[c].nonce /\ w.result = op[c].result /\ w.heldFor = op[c].heldFor
      BY <1>2, <2>4, <2>5 DEF Call
    <2>7. Backed(r, verifier)
      BY <1>3, <2>2, <2>4 DEF Backed
    <2>8. Known(w, verifier, calls', clock, elapsed)
      BY <1>2, <1>3, <2>1, <2>4, <2>6, <2>7, EnginesAssumption DEF Known
    <2> QED  BY <1>2, <2>3, <2>6, <2>8, OneCaller DEF GatewayInv, TypeOK
  <1> QED  BY <1>4, <1>5

\* The mutex is taken; nothing else is learnt.
LEMMA LockGatewayKeeps ==
  ASSUME GatewayInv, NEW c \in Callers, LockGateway(c)
  PROVE  GatewayInv'
  <1> DEFINE w == [op[c] EXCEPT !.pc = "updating"]
  <1>1. /\ op[c] \in Call /\ op[c].pc \in {"approved", "refused"}
        /\ Known(op[c], verifier, calls, clock, elapsed)
        /\ UNCHANGED <<verifier, gateway, calls, clock, elapsed, accepted>>
        /\ gateway \in [Gateways -> Enrollment]
    BY Parts DEF LockGateway, GatewayInv, TypeOK
  <1>2. /\ w \in Call /\ w.pc = "updating" /\ w.enrollment = op[c].enrollment
        /\ w.approved = op[c].approved /\ w.nonce = op[c].nonce
        /\ w.result = op[c].result /\ w.heldFor = op[c].heldFor
    BY <1>1 DEF Call
  <1>3. op' = [op EXCEPT ![c] = w]
    BY DEF LockGateway
  <1>4. lock' \in [Gateways -> Callers \cup {Nobody}]
    BY DEF LockGateway, GatewayInv, TypeOK
  <1> HIDE DEF w
  <1>5. Known(w, verifier, calls', clock, elapsed)
    BY <1>1, <1>2 DEF Known
  <1> QED  BY <1>1, <1>2, <1>3, <1>4, <1>5, OneCaller

\* What an approved call pins is what it knows.
LEMMA PinKeeps ==
  ASSUME GatewayInv, NEW c \in Callers, Pin(c)
  PROVE  GatewayInv'
  <1> DEFINE r == [op[c].enrollment EXCEPT !.enrolledAt = clock, !.pinnedTick = elapsed]
  <1> DEFINE w == Returned(op[c], "enrolled")
  <1>1. /\ op[c] \in Call /\ op[c].enrollment \in Enrollment /\ op[c].approved
        /\ op[c].gw \in Gateways
        /\ Known(op[c], verifier, calls, clock, elapsed)
        /\ UNCHANGED <<verifier, calls, clock, elapsed, accepted>>
        /\ clock \in Nat /\ elapsed \in Nat
    BY Parts DEF Pin, GatewayInv
  <1>2. /\ r \in Enrollment /\ r.svc = op[c].enrollment.svc /\ r.key = op[c].enrollment.key
        /\ r.build = op[c].enrollment.build /\ r.knownRevoked = op[c].enrollment.knownRevoked
        /\ r.enrolledAt = clock /\ r.pinnedTick = elapsed
    BY <1>1 DEF Enrollment
  <1>3. gateway' = [gateway EXCEPT ![op[c].gw] = r] /\ op' = [op EXCEPT ![c] = w]
    BY DEF Pin
  <1> HIDE DEF r
  <1>4. Pinned(r, verifier, clock, elapsed)
    <2>1. PinnedWithin(r, elapsed - clock)
      BY <1>1, <1>2 DEF GatewayInv, PinnedWithin
    <2> QED  BY <1>1, <1>2, <2>1 DEF Pinned, Known, Backed
  <1>5. /\ gateway' \in [Gateways -> Enrollment]
        /\ \A g \in Gateways : gateway'[g] = gateway[g] \/ Pinned(gateway'[g], verifier, clock, elapsed)
        /\ lock' \in [Gateways -> Callers \cup {Nobody}]
    BY <1>1, <1>2, <1>3, <1>4 DEF Pin, GatewayInv, TypeOK
  <1>6. w \in Call /\ w.pc = "idle" /\ Known(w, verifier, calls', clock, elapsed)
    BY <1>1, ReturnedKnown
  <1> HIDE DEF w
  <1> QED  BY <1>1, <1>3, <1>5, <1>6, OneCaller

\* A failed appraisal leaves nothing pinned.
LEMMA ClearKeeps ==
  ASSUME GatewayInv, NEW c \in Callers, Clear(c)
  PROVE  GatewayInv'
  <1> DEFINE r == [NoEnrollment EXCEPT !.enrolledAt = gateway[op[c].gw].enrolledAt]
  <1> DEFINE w == Returned(op[c], "refused")
  <1>1. /\ op[c] \in Call /\ op[c].gw \in Gateways /\ gateway[op[c].gw] \in Enrollment
        /\ UNCHANGED <<verifier, calls, clock, elapsed, accepted>>
        /\ clock \in Nat /\ elapsed \in Nat
    BY Parts DEF Clear
  <1>2. r \in Enrollment /\ r.svc = NoEngine /\ r.key = NoEngine /\ r.pinnedTick = 0
    BY <1>1 DEF Enrollment, NoEnrollment
  <1>3. gateway' = [gateway EXCEPT ![op[c].gw] = r] /\ op' = [op EXCEPT ![c] = w]
    BY DEF Clear
  <1> HIDE DEF r
  <1>4. Pinned(r, verifier, clock, elapsed)
    BY <1>1, <1>2 DEF Pinned, Backed
  <1>5. /\ gateway' \in [Gateways -> Enrollment]
        /\ \A g \in Gateways : gateway'[g] = gateway[g] \/ Pinned(gateway'[g], verifier, clock, elapsed)
        /\ lock' \in [Gateways -> Callers \cup {Nobody}]
    BY <1>1, <1>2, <1>3, <1>4 DEF Clear, GatewayInv, TypeOK
  <1>6. w \in Call /\ w.pc = "idle" /\ Known(w, verifier, calls', clock, elapsed)
    BY <1>1, ReturnedKnown
  <1> HIDE DEF w
  <1> QED  BY <1>1, <1>3, <1>5, <1>6, OneCaller

\* The snapshot is the pinned enrollment, and knows what that knows.
LEMMA SnapshotKeeps ==
  ASSUME GatewayInv, NEW c \in Callers, Snapshot(c)
  PROVE  GatewayInv'
  <1> DEFINE r == gateway[op[c].gw]
  <1>1. /\ op[c] \in Call /\ op[c].pc = "calling" /\ r \in Enrollment
        /\ Known(op[c], verifier, calls, clock, elapsed) /\ Pinned(r, verifier, clock, elapsed)
        /\ UNCHANGED <<verifier, gateway, lock, calls, clock, elapsed, accepted>>
        /\ clock \in Nat /\ elapsed \in Nat
        /\ gateway \in [Gateways -> Enrollment] /\ lock \in [Gateways -> Callers \cup {Nobody}]
    BY Parts DEF Snapshot, GatewayInv, TypeOK
  <1>2. CASE r.svc = NoEngine
    <2> DEFINE w == Returned(op[c], "no_pdp")
    <2>1. op' = [op EXCEPT ![c] = w]
      BY <1>2 DEF Snapshot
    <2>2. w \in Call /\ w.pc = "idle" /\ Known(w, verifier, calls', clock, elapsed)
      BY <1>1, ReturnedKnown
    <2> HIDE DEF w
    <2> QED  BY <1>1, <2>1, <2>2, OneCaller
  <1>3. CASE r.svc # NoEngine
    <2> DEFINE w == [op[c] EXCEPT !.pc = "snapshot", !.enrollment = r]
    <2>1. op' = [op EXCEPT ![c] = w]
      BY <1>3 DEF Snapshot
    <2>2. /\ w \in Call /\ w.pc = "snapshot" /\ w.enrollment = r /\ w.nonce = op[c].nonce
          /\ w.result = op[c].result /\ w.heldFor = op[c].heldFor
      BY <1>1 DEF Call
    <2> HIDE DEF w
    <2>3. Known(w, verifier, calls', clock, elapsed)
      BY <1>1, <1>3, <2>2 DEF Known, Pinned
    <2> QED  BY <1>1, <2>1, <2>2, <2>3, OneCaller
  <1> QED  BY <1>2, <1>3

\* The age that is compared is short of the true one by what the clock was set back
\* since the enrollment was made.
LEMMA CheckAgeKeeps ==
  ASSUME GatewayInv, NEW c \in Callers, CheckAge(c)
  PROVE  GatewayInv'
  <1> DEFINE age == elapsed - op[c].enrollment.pinnedTick
  <1> DEFINE checked == [op[c] EXCEPT !.heldFor = age]
  <1> DEFINE late == Expired(clock - op[c].enrollment.enrolledAt)
  <1>1. /\ op[c] \in Call /\ op[c].pc = "snapshot" /\ op[c].enrollment \in Enrollment
        /\ Known(op[c], verifier, calls, clock, elapsed)
        /\ UNCHANGED <<verifier, gateway, lock, calls, clock, elapsed, accepted>>
        /\ clock \in Nat /\ elapsed \in Nat
        /\ gateway \in [Gateways -> Enrollment] /\ lock \in [Gateways -> Callers \cup {Nobody}]
    BY Parts DEF CheckAge, GatewayInv, TypeOK
  <1>2. age \in Nat
    BY <1>1 DEF Known, Enrollment
  <1>3. MaxAge > 0 => IF late THEN age > MaxAge \/ age < elapsed - clock
                               ELSE age <= MaxAge + (elapsed - clock)
    <2>1. PinnedWithin(op[c].enrollment, elapsed - clock)
      BY <1>1 DEF Known
    <2> QED  BY <1>1, <1>2, <2>1, VerifierAssumption DEF PinnedWithin, Enrollment, Expired
  <1>4. /\ checked \in Call /\ checked.heldFor = age
        /\ checked.enrollment = op[c].enrollment /\ checked.nonce = op[c].nonce
        /\ checked.result = op[c].result /\ checked.approved = op[c].approved
    BY <1>1, <1>2 DEF Call
  <1>5. CASE late
    <2> DEFINE w == Returned(checked, "expired")
    <2>1. op' = [op EXCEPT ![c] = w]
      BY <1>5 DEF CheckAge
    <2> HIDE DEF checked, age
    <2>2. w \in Call /\ w.pc = "idle" /\ Known(w, verifier, calls', clock, elapsed)
      BY <1>1, <1>3, <1>4, <1>5, ReturnedKnown
    <2> HIDE DEF w
    <2> QED  BY <1>1, <2>1, <2>2, OneCaller
  <1>6. CASE ~late
    <2> DEFINE w == [checked EXCEPT !.pc = "asked"]
    <2>1. op' = [op EXCEPT ![c] = w]
      BY <1>6 DEF CheckAge
    <2> HIDE DEF checked, age
    <2>2. /\ w \in Call /\ w.pc = "asked" /\ w.heldFor = age
          /\ w.enrollment = op[c].enrollment /\ w.nonce = op[c].nonce
          /\ w.result = op[c].result /\ w.approved = op[c].approved
      BY <1>4 DEF Call
    <2> HIDE DEF w, late
    <2>3. Known(w, verifier, calls', clock, elapsed)
      BY <1>1, <1>2, <1>3, <1>6, <2>2, VerifierAssumption DEF Known
    <2> QED  BY <1>1, <2>1, <2>2, <2>3, OneCaller
  <1> QED  BY <1>5, <1>6

\* What a service or a channel can answer a request with: what some engine
\* decided of some request, or what no engine signed.
LEMMA DecideAnswersType ==
  ASSUME NEW s \in Engines, NEW r \in Requests, NEW n, NEW d \in DecideAnswers(s, r, n)
  PROVE  /\ d.signer # NoEngine =>
              \E e \in Engines, q \in Requests : \E m : d = Decided(e, q, m)
         /\ ~HostileChannel => d = Decided(s, r, n)
  <1>1. CASE HostileChannel
    <2>1. CASE d \in {Decided(e, q, m) : e \in Engines, q \in Requests, m \in 0..calls}
      <3>1. PICK e \in Engines, q \in Requests, m \in 0..calls : d = Decided(e, q, m)
        BY <2>1
      <3> QED  BY <1>1, <3>1
    <2>2. CASE d \in {[signer |-> NoEngine, hash |-> HashOf[r], nonce |-> n, verdict |-> v] : v \in Verdicts}
      <3>1. d.signer = NoEngine
        BY <2>2
      <3> QED  BY <1>1, <3>1
    <2> QED  BY <1>1, <2>1, <2>2 DEF DecideAnswers
  <1>2. CASE ~HostileChannel
    <2>1. d = Decided(s, r, n)
      BY <1>2 DEF DecideAnswers
    <2> QED  BY <2>1
  <1> QED  BY <1>1, <1>2

\* An engine's verdict on a request can pass for its verdict on any other request
\* of that hash: the two agree unless one of them is malformed and denied.
LEMMA VerdictPasses ==
  ASSUME NEW e \in Engines, NEW q \in Requests, NEW r \in Requests, HashOf[q] = HashOf[r],
         ~HostileChannel => q = r
  PROVE  VerdictOf[e][q] \in Judgements[e][r]
  <1>1. CASE ~HostileChannel
    BY <1>1 DEF Judgements
  <1>2. CASE HostileChannel /\ r \in WellFormed
    <2>1. VerdictOf[e][q] \in {VerdictOf[e][r], Denial}
      BY <1>2, VerdictsAssumption
    <2> QED  BY <1>2, <2>1 DEF Judgements
  <1>3. CASE HostileChannel /\ r \notin WellFormed
    BY <1>3 DEF Judgements
  <1> QED  BY <1>1, <1>2, <1>3

\* So what is bound to a call that holds an engine's key is, under the call's nonce,
\* what that engine judged of a request of the call's hash.
LEMMA BoundIsVerdict ==
  ASSUME NEW p \in Call, p.enrollment.svc \in Engines, p.enrollment.key \in Engines,
         NEW d \in DecideAnswers(p.enrollment.svc, p.req, p.nonce), Bound(d, p)
  PROVE  /\ d \in Decision
         /\ d.nonce = p.nonce /\ d.signer = p.enrollment.key /\ d.hash = HashOf[p.req]
         /\ d.verdict \in Judgements[p.enrollment.key][p.req]
  <1>1. d.signer = p.enrollment.key /\ d.hash = HashOf[p.req] /\ d.nonce = p.nonce
    BY DEF Bound
  <1>2. p.req \in Requests /\ p.nonce \in Nat
    BY DEF Call
  <1>3. PICK e \in Engines, q \in Requests : \E m : d = Decided(e, q, m) /\ (~HostileChannel => q = p.req)
    <2>1. CASE HostileChannel
      <3>1. \E e \in Engines, q \in Requests : \E m : d = Decided(e, q, m)
        BY <1>1, <1>2, EnginesAssumption, DecideAnswersType
      <3> QED  BY <2>1, <3>1
    <2>2. CASE ~HostileChannel
      <3>1. d = Decided(p.enrollment.svc, p.req, p.nonce)
        BY <1>2, <2>2, DecideAnswersType
      <3> QED  BY <1>2, <3>1
    <2> QED  BY <2>1, <2>2
  <1>4. d.signer = e /\ d.hash = HashOf[q] /\ d.verdict = VerdictOf[e][q]
    BY <1>3 DEF Decided
  <1>5. d.verdict \in Judgements[p.enrollment.key][p.req]
    <2>1. HashOf[q] = HashOf[p.req] /\ e = p.enrollment.key /\ (~HostileChannel => q = p.req)
      BY <1>1, <1>3, <1>4
    <2> QED  BY <1>2, <1>4, <2>1, VerdictPasses
  <1>6. d \in Decision
    <2>1. HashOf[q] \in Hashes /\ VerdictOf[e][q] \in Verdicts
      BY EnginesAssumption DEF Hashes
    <2> QED  BY <1>1, <1>2, <1>3, <2>1 DEF Decided, Decision
  <1> QED  BY <1>1, <1>5, <1>6

\* What is accepted carries the nonce of the call, which then returns.
LEMMA DecideAnsweredKeeps ==
  ASSUME GatewayInv, NEW c \in Callers, DecideAnswered(c)
  PROVE  GatewayInv'
  <1> DEFINE p == op[c]
  <1>1. PICK d \in DecideAnswers(p.enrollment.svc, p.req, p.nonce) : ReturnIfBound(c, p, d)
    BY DEF DecideAnswered
  <1>2. /\ p \in Call /\ p.pc = "asked" /\ p.enrollment \in Enrollment
        /\ p.enrollment.svc \in Engines /\ p.enrollment.key \in Engines
        /\ Known(p, verifier, calls, clock, elapsed)
        /\ clock \in Nat /\ elapsed \in Nat /\ calls \in Nat
        /\ gateway \in [Gateways -> Enrollment] /\ lock \in [Gateways -> Callers \cup {Nobody}]
    BY Parts DEF DecideAnswered, GatewayInv, TypeOK, Known, Enrollment
  <1>3. UNCHANGED <<verifier, gateway, lock, calls, clock, elapsed>>
    BY <1>1 DEF ReturnIfBound
  <1>4. CASE ~Bound(d, p)
    <2> DEFINE w == Returned(p, "bad_decision")
    <2>1. op' = [op EXCEPT ![c] = w] /\ UNCHANGED accepted
      BY <1>1, <1>4 DEF ReturnIfBound
    <2>2. HostileChannel
      <3> SUFFICES ASSUME ~HostileChannel PROVE FALSE
        OBVIOUS
      <3>1. p.enrollment.svc = p.enrollment.key
        BY <1>2 DEF Known
      <3>2. d = Decided(p.enrollment.svc, p.req, p.nonce)
        BY <1>2, DecideAnswersType DEF Call
      <3> QED  BY <1>4, <3>1, <3>2 DEF Bound, Decided
    <2>3. w \in Call /\ w.pc = "idle" /\ Known(w, verifier, calls', clock, elapsed)
      BY <1>2, <2>2, ReturnedKnown
    <2> HIDE DEF w
    <2> QED  BY <1>2, <1>3, <2>1, <2>3, OneCaller
  <1>5. CASE Bound(d, p)
    <2> DEFINE w == Returned(p, "accepted")
    <2> DEFINE a == [gw |-> p.gw, nonce |-> p.nonce, req |-> p.req, key |-> p.enrollment.key,
                     decision |-> d, heldFor |-> p.heldFor,
                     knownRevoked |-> p.enrollment.knownRevoked]
    <2>1. op' = [op EXCEPT ![c] = w] /\ accepted' = accepted \cup {a}
      BY <1>1, <1>5 DEF ReturnIfBound
    <2>2. w \in Call /\ w.pc = "idle" /\ Known(w, verifier, calls', clock, elapsed)
      BY <1>2, ReturnedKnown
    <2>3. /\ d \in Decision
          /\ d.nonce = p.nonce /\ d.signer = p.enrollment.key /\ d.hash = HashOf[p.req]
          /\ d.verdict \in Judgements[p.enrollment.key][p.req]
      BY <1>2, <1>5, BoundIsVerdict
    <2>4. /\ a \in [gw : Gateways, nonce : Nat, req : Requests, key : Engines,
                    decision : Decision, heldFor : Nat, knownRevoked : SUBSET Measurements]
          /\ a.nonce = p.nonce /\ Faithful(a, calls)
      <3>1. p.enrollment.knownRevoked \in SUBSET Measurements
        BY <1>2 DEF Enrollment
      <3>2. p.nonce \in 1 .. calls /\ MeasurementOf[p.enrollment.key] \notin p.enrollment.knownRevoked
        BY <1>2, EnginesAssumption DEF Known, Backed
      <3> QED  BY <1>2, <2>3, <3>1, <3>2 DEF Call, Faithful
    <2> HIDE DEF w, a
    <2>5. op'[c] = w /\ \A e \in Callers \ {c} : op'[e] = op[e]
      BY <2>1 DEF GatewayInv, TypeOK
    <2>6. TypeOK'
      BY <1>3, <2>1, <2>2, <2>4 DEF GatewayInv, TypeOK
    <2>7. (\A g \in Gateways : Pinned(gateway[g], verifier, clock, elapsed))'
      BY <1>3 DEF GatewayInv
    <2>8. ASSUME NEW e \in Callers
          PROVE  Known(op[e], verifier, calls, clock, elapsed)'
      <3>1. CASE e = c
        BY <1>3, <2>2, <2>5, <3>1
      <3>2. CASE e # c
        BY <1>3, <2>5, <3>2 DEF GatewayInv
      <3> QED  BY <3>1, <3>2
    <2>9. (\A b \in accepted : Faithful(b, calls))'
      BY <1>3, <2>1, <2>4 DEF GatewayInv
    <2>9a. (\A b \in accepted : InTime(b, clock, elapsed))'
      <3>1. InTime(a, clock, elapsed)
        BY <1>2 DEF Known, InTime, a
      <3> QED  BY <1>3, <2>1, <3>1 DEF GatewayInv
    <2>10. NoncesDiffer'
      BY <1>2, <2>1, <2>2, <2>4, <2>5 DEF GatewayInv, NoncesDiffer
    <2> QED  BY <1>3, <2>6, <2>7, <2>8, <2>9, <2>9a, <2>10 DEF GatewayInv
  <1> QED  BY <1>4, <1>5

\* Operators only add to what the verifier knows.
LEMMA OperatorKeeps == GatewayInv /\ Operator => GatewayInv'
  <1> SUFFICES ASSUME GatewayInv, Operator PROVE GatewayInv'
    OBVIOUS
  <1>1. /\ verifier \in VerifierStates /\ {calls, clock, elapsed} \subseteq Nat
        /\ UNCHANGED <<gateway, lock, op, calls, clock, elapsed, accepted>>
    BY Parts DEF Operator, Endorse, EndorseSigner, Revoke
  <1>2. ASSUME NEW m \in Measurements, Endorse(m) \/ Revoke(m)
        PROVE  /\ verifier' \in VerifierStates
               /\ verifier.refs \subseteq verifier'.refs /\ verifier.signers \subseteq verifier'.signers
               /\ verifier.revoked \subseteq verifier'.revoked
    BY <1>1, <1>2 DEF Endorse, Revoke, VerifierStates
  <1>3. ASSUME NEW s \in Signers, EndorseSigner(s)
        PROVE  /\ verifier' \in VerifierStates
               /\ verifier.refs \subseteq verifier'.refs /\ verifier.signers \subseteq verifier'.signers
               /\ verifier.revoked \subseteq verifier'.revoked
    BY <1>1, <1>3 DEF EndorseSigner, VerifierStates
  <1>4. verifier' \in VerifierStates /\ WorldGrows
    BY <1>1, <1>2, <1>3 DEF Operator, WorldGrows
  <1> QED  BY <1>1, <1>4, NoCaller DEF GatewayInv

\* The clock may fall behind and never catches up.
LEMMA TimeKeeps == GatewayInv /\ (Tick \/ SetClockBack) => GatewayInv'
  <1> SUFFICES ASSUME GatewayInv, Tick \/ SetClockBack PROVE GatewayInv'
    OBVIOUS
  <1>1. /\ verifier \in VerifierStates /\ calls \in Nat /\ clock \in Nat /\ elapsed \in Nat
        /\ clock <= elapsed
    BY Parts DEF GatewayInv
  <1>2. CASE Tick
    BY <1>1, <1>2, NoCaller DEF Tick, WorldGrows
  <1>3. CASE SetClockBack
    <2>1. clock' \in Nat /\ clock' < clock
      BY <1>1, <1>3 DEF SetClockBack
    <2> QED  BY <1>1, <1>3, <2>1, NoCaller DEF SetClockBack, WorldGrows
  <1> QED  BY <1>2, <1>3

\* Every step keeps the invariant.
LEMMA GatewayStep == GatewayInv /\ [Next]_vars => GatewayInv'
  <1> SUFFICES ASSUME GatewayInv, [Next]_vars PROVE GatewayInv'
    OBVIOUS
  <1>1. ASSUME NEW c \in Callers, Trust(c) PROVE GatewayInv'
    BY <1>1, BeginTrustKeeps, AttestAnsweredKeeps, LockGatewayKeeps, PinKeeps, ClearKeeps DEF Trust
  <1>2. ASSUME NEW c \in Callers, Authorize(c) PROVE GatewayInv'
    BY <1>2, BeginAuthorizeKeeps, SnapshotKeeps, CheckAgeKeeps, DecideAnsweredKeeps DEF Authorize
  <1>3. CASE UNCHANGED vars
    BY <1>3 DEF vars, GatewayInv, TypeOK, NoncesDiffer
  <1> QED  BY <1>1, <1>2, <1>3, OperatorKeeps, TimeKeeps DEF Next

THEOREM GatewayInvariant == Spec => []GatewayInv
  BY GatewayInit, GatewayStep, PTL DEF Spec

-----------------------------------------------------------------------------
(* The properties. *)

\* Every variable of the gateways' model has its type; in particular a decision is
\* only ever accepted from an engine, and no enrollment is older than the clock of
\* the world allows.
THEOREM GatewayTypeCorrect == Spec => []TypeOK
  <1>1. GatewayInv => TypeOK
    BY DEF GatewayInv
  <1> QED  BY <1>1, GatewayInvariant, PTL

\* "pinnedKey is only ever set by a successful TrustPDP appraisal": for any number
\* of overlapping handshakes on any channels, what is pinned was appraised.
THEOREM PinnedAppraised == Spec => []PinnedWasAppraised
  <1>1. GatewayInv => PinnedWasAppraised
    BY DEF GatewayInv, Pinned, Backed, VouchedBy, PinnedWasAppraised, Vouched
  <1> QED  BY <1>1, GatewayInvariant, PTL

\* No decision is honoured twice, at whichever gateways, whatever is replayed.
THEOREM HonouredOnce == Spec => []NoDecisionHonouredTwice
  <1>1. ASSUME GatewayInv, NEW a \in accepted, NEW b \in accepted, a.decision = b.decision
        PROVE  a = b
    <2>1. a.decision.nonce = a.nonce /\ b.decision.nonce = b.nonce
      BY <1>1 DEF GatewayInv, Faithful
    <2>2. a.nonce = b.nonce
      BY <1>1, <2>1
    <2> QED  BY <1>1, <2>2 DEF GatewayInv, NoncesDiffer
  <1>2. GatewayInv => NoDecisionHonouredTwice
    BY <1>1 DEF NoDecisionHonouredTwice
  <1> QED  BY <1>2, GatewayInvariant, PTL

\* Whatever handshakes overlap with the revocation of a build, none of its decisions
\* is honoured under an enrollment that was challenged for afterwards.
THEOREM RevokedStaysRefused == Spec => []RevokedNotHonouredAnew
  <1>1. GatewayInv => RevokedNotHonouredAnew
    BY DEF GatewayInv, Faithful, RevokedNotHonouredAnew
  <1> QED  BY <1>1, GatewayInvariant, PTL

\* No truthful service is ever accused, in the midst of any re-enrollments.
THEOREM TruthfulNeverAccused == Spec => []TruthfulServiceHonoured
  <1>1. GatewayInv => TruthfulServiceHonoured
    BY DEF GatewayInv, Known, TruthfulServiceHonoured
  <1> QED  BY <1>1, GatewayInvariant, PTL

\* For every maximum age and however often the clock is set back, an enrollment
\* outlives its maximum age by no more than the clock was set back.
THEOREM AgeIsExact == Spec => []AgeDecides
  <1>1. GatewayInv => AgeDecides
    BY DEF GatewayInv, Known, InTime, AgeDecides, Drift
  <1> QED  BY <1>1, GatewayInvariant, PTL

\* A gateway's mutex is held by exactly the call that is updating it.
LocksHeld ==
  \A g \in Gateways, c \in Callers : lock[g] = c <=> op[c].pc = "updating" /\ op[c].gw = g

\* Only LockGateway takes a mutex, when nobody holds it; the next step of the call
\* gives it up.
LEMMA LocksStayHeld == TypeOK /\ LocksHeld /\ [Next]_vars => LocksHeld'
  <1> SUFFICES ASSUME TypeOK, LocksHeld, [Next]_vars PROVE LocksHeld'
    OBVIOUS
  <1>1. /\ lock \in [Gateways -> Callers \cup {Nobody}] /\ op \in [Callers -> Call]
        /\ \A c \in Callers : op[c].gw \in Gateways
    BY DEF TypeOK, Call
  <1>2. ASSUME NEW c \in Callers, NEW w, op' = [op EXCEPT ![c] = w], UNCHANGED lock,
               op[c].pc # "updating", w.pc # "updating"
        PROVE  LocksHeld'
    BY <1>1, <1>2 DEF LocksHeld
  <1>3. ASSUME NEW c \in Callers, NEW w, op' = [op EXCEPT ![c] = w],
               lock' = [lock EXCEPT ![op[c].gw] = Nobody], op[c].pc = "updating", w.pc # "updating"
        PROVE  LocksHeld'
    BY <1>1, <1>3, EnginesAssumption DEF LocksHeld
  <1>4. CASE UNCHANGED <<op, lock>>
    BY <1>4 DEF LocksHeld
  <1>5. \A c \in Callers : op[c] \in Call /\ \A r : Returned(op[c], r).pc = "idle"
    BY <1>1 DEF Returned, Call
  <1>6. ASSUME NEW c \in Callers, NEW g \in Gateways, NEW s \in Engines, BeginTrust(c, g, s)
        PROVE  LocksHeld'
    <2> DEFINE w == Started("challenged", g, calls + 1, op[c].req,
                            [NoEnrollment EXCEPT !.svc = s, !.knownRevoked = verifier.revoked])
    <2>1. w.pc = "challenged" /\ op[c].pc = "idle" /\ UNCHANGED lock /\ op' = [op EXCEPT ![c] = w]
      BY <1>6 DEF BeginTrust, Started
    <2> HIDE DEF w
    <2> QED  BY <1>2, <2>1
  <1>7. ASSUME NEW c \in Callers, NEW g \in Gateways, NEW r \in Requests, BeginAuthorize(c, g, r)
        PROVE  LocksHeld'
    <2> DEFINE w == Started("calling", g, calls + 1, r, NoEnrollment)
    <2>1. w.pc = "calling" /\ op[c].pc = "idle" /\ UNCHANGED lock /\ op' = [op EXCEPT ![c] = w]
      BY <1>7 DEF BeginAuthorize, Started
    <2> HIDE DEF w
    <2> QED  BY <1>2, <2>1
  <1>8. ASSUME NEW c \in Callers, AttestAnswered(c) PROVE LocksHeld'
    <2>1. op[c].pc = "challenged" /\ UNCHANGED lock
      BY <1>8 DEF AttestAnswered
    <2>2. \E w : op' = [op EXCEPT ![c] = w] /\ w.pc \in {"approved", "refused"}
      <3>1. \A pub, build : Approved(op[c], pub, build).pc = "approved"
        BY <1>5 DEF Approved, Call
      <3>2. [op[c] EXCEPT !.pc = "refused"].pc = "refused"
        BY <1>5 DEF Call
      <3>3. \/ \E pub, build : op' = [op EXCEPT ![c] = Approved(op[c], pub, build)]
            \/ op' = [op EXCEPT ![c] = [op[c] EXCEPT !.pc = "refused"]]
        BY <1>8 DEF AttestAnswered
      <3> QED  BY <3>1, <3>2, <3>3
    <2> QED  BY <1>2, <2>1, <2>2
  <1>9. ASSUME NEW c \in Callers, LockGateway(c) PROVE LocksHeld'
    <2>1. /\ lock[op[c].gw] = Nobody /\ op[c].pc # "updating"
          /\ lock' = [lock EXCEPT ![op[c].gw] = c]
          /\ op'[c].pc = "updating" /\ op'[c].gw = op[c].gw
          /\ \A d \in Callers \ {c} : op'[d] = op[d]
      BY <1>1, <1>9 DEF LockGateway, Call
    <2> QED  BY <1>1, <2>1, EnginesAssumption DEF LocksHeld
  <1>10. ASSUME NEW c \in Callers, Pin(c) \/ Clear(c) PROVE LocksHeld'
    <2>1. /\ op[c].pc = "updating" /\ lock' = [lock EXCEPT ![op[c].gw] = Nobody]
          /\ \E r : op' = [op EXCEPT ![c] = Returned(op[c], r)]
      BY <1>10 DEF Pin, Clear
    <2> QED  BY <1>3, <1>5, <2>1
  <1>11. ASSUME NEW c \in Callers, Snapshot(c) PROVE LocksHeld'
    <2>1. [op[c] EXCEPT !.pc = "snapshot", !.enrollment = gateway[op[c].gw]].pc = "snapshot"
      BY <1>5 DEF Call
    <2> QED  BY <1>2, <1>5, <1>11, <2>1 DEF Snapshot
  <1>12. ASSUME NEW c \in Callers, CheckAge(c) PROVE LocksHeld'
    <2> DEFINE checked == [op[c] EXCEPT !.heldFor = elapsed - op[c].enrollment.pinnedTick]
    <2>1. Returned(checked, "expired").pc = "idle" /\ [checked EXCEPT !.pc = "asked"].pc = "asked"
      BY <1>5 DEF Call, Returned
    <2>2. /\ op[c].pc = "snapshot" /\ UNCHANGED lock
          /\ \E w \in {Returned(checked, "expired"), [checked EXCEPT !.pc = "asked"]} :
               op' = [op EXCEPT ![c] = w]
      BY <1>12 DEF CheckAge
    <2> HIDE DEF checked
    <2> QED  BY <1>2, <2>1, <2>2
  <1>13. ASSUME NEW c \in Callers, DecideAnswered(c) PROVE LocksHeld'
    BY <1>2, <1>5, <1>13 DEF DecideAnswered, ReturnIfBound
  <1> QED
    BY <1>4, <1>6, <1>7, <1>8, <1>9, <1>10, <1>11, <1>12, <1>13
       DEF Next, Trust, Authorize, Operator, Endorse, EndorseSigner, Revoke, Tick, SetClockBack, vars

\* Whoever waits for a gateway's mutex waits for a call that is past its appraisal
\* and about to pin or to clear: a service that never answers its challenge stops
\* nobody.
WaitsAreShort ==
  \A c \in Callers :
    LET g == op[c].gw IN
    op[c].pc \in {"approved", "refused", "calling"} /\ lock[g] # Nobody =>
      op[lock[g]].pc = "updating" /\ op[lock[g]].gw = g

\* Whoever waits for a gateway's mutex waits for a call past its appraisal, for any
\* number of gateways and overlapping handshakes; no lock is held over a handshake.
THEOREM WaitsStayShort == Spec => []WaitsAreShort
  <1>1. Init => LocksHeld
    BY EnginesAssumption DEF Init, LocksHeld, Started
  <1>2. TypeOK /\ LocksHeld => WaitsAreShort
    BY DEF TypeOK, Call, LocksHeld, WaitsAreShort
  <1> QED  BY <1>1, <1>2, LocksStayHeld, GatewayTypeCorrect, PTL DEF Spec

-----------------------------------------------------------------------------
(* The refinement. *)

\* A step that changes no question leaves the questions alone.
LEMMA SameQuestions ==
  ASSUME \A c \in Callers : /\ Asking(op[c]) <=> Asking(op'[c])
                            /\ Asking(op[c]) => QuestionOf(op'[c]) = QuestionOf(op[c])
  PROVE  Questions' = Questions
  BY DEF Questions

\* A caller that starts asking adds its question.
LEMMA NewQuestion ==
  ASSUME NEW c \in Callers, ~Asking(op[c]), Asking(op'[c]),
         \A d \in Callers \ {c} : op'[d] = op[d]
  PROVE  Questions' = Questions \cup {QuestionOf(op'[c])}
  BY DEF Questions

\* A caller that stops asking takes its question along, and no other, since a nonce
\* belongs to one call.
LEMMA QuestionGone ==
  ASSUME GatewayInv, NEW c \in Callers, Asking(op[c]), ~Asking(op'[c]),
         \A d \in Callers \ {c} : op'[d] = op[d]
  PROVE  Questions' = Questions \ {QuestionOf(op[c])}
  <1>1. \A d \in Callers \ {c} : Asking(op[d]) => QuestionOf(op[d]) # QuestionOf(op[c])
    BY DEF GatewayInv, NoncesDiffer, Asking, QuestionOf
  <1> QED  BY <1>1 DEF Questions

\* Nothing has been asked, and nobody is trusted or vouched for.
LEMMA EnforcedInit == Init => Enforced!Init
  <1> SUFFICES ASSUME Init PROVE Enforced!Init
    OBVIOUS
  <1>1. VouchedEngines = {}
    BY DEF Init, VouchedEngines, Vouched
  <1>2. TrustedKeys = [g \in Gateways |-> NoEngine]
    BY DEF Init, TrustedKeys, NoEnrollment
  <1>3. Questions = {} /\ Answers = {}
    BY DEF Init, Questions, Answers, Asking, Started
  <1> QED  BY <1>1, <1>2, <1>3 DEF Enforced!Init

\* A step that moves one call in a way that neither pins nor asks nor answers.
LEMMA Stutters ==
  ASSUME UNCHANGED <<verifier, gateway, accepted>>,
         \A c \in Callers : /\ Asking(op[c]) <=> Asking(op'[c])
                            /\ Asking(op[c]) => QuestionOf(op'[c]) = QuestionOf(op[c])
  PROVE  UNCHANGED Enforced!vars
  <1>1. Questions' = Questions
    BY SameQuestions
  <1>2. VouchedEngines' = VouchedEngines /\ TrustedKeys' = TrustedKeys /\ Answers' = Answers
    BY DEF VouchedEngines, Vouched, TrustedKeys, Answers
  <1> QED  BY <1>1, <1>2 DEF Enforced!vars

\* Operators vouch for more engines; no gateway and no call is touched.
LEMMA OperatorVouches == GatewayInv /\ Operator => Enforced!Vouch
  <1> SUFFICES ASSUME GatewayInv, Operator PROVE Enforced!Vouch
    OBVIOUS
  <1>1. /\ UNCHANGED <<gateway, op, accepted>>
        /\ verifier.refs \subseteq verifier'.refs /\ verifier.signers \subseteq verifier'.signers
    BY Parts DEF Operator, Endorse, EndorseSigner, Revoke, VerifierStates
  <1>2. TrustedKeys' = TrustedKeys /\ Answers' = Answers /\ Questions' = Questions
    BY <1>1 DEF TrustedKeys, Answers, Questions
  <1>3. VouchedEngines \subseteq VouchedEngines' /\ VouchedEngines' \subseteq Engines
    BY <1>1 DEF VouchedEngines, Vouched
  <1> QED  BY <1>2, <1>3 DEF Enforced!Vouch

\* A handshake is invisible until it pins a vouched engine or nobody.
LEMMA TrustRefines ==
  ASSUME GatewayInv, NEW c \in Callers, Trust(c)
  PROVE  [Enforced!Next]_(Enforced!vars)
  <1>1. /\ op \in [Callers -> Call] /\ op[c] \in Call /\ op[c].gw \in Gateways
        /\ op[c].enrollment \in Enrollment
        /\ Known(op[c], verifier, calls, clock, elapsed)
        /\ gateway \in [Gateways -> Enrollment]
    BY Parts DEF GatewayInv, TypeOK
  <1>2. ASSUME NEW g \in Gateways, NEW s \in Engines, BeginTrust(c, g, s)
        PROVE  UNCHANGED Enforced!vars
    <2>1. ~Asking(op[c]) /\ ~Asking(op'[c]) /\ \A d \in Callers \ {c} : op'[d] = op[d]
      BY <1>1, <1>2 DEF BeginTrust, Started, Asking
    <2> QED  BY <1>2, <2>1, Stutters DEF BeginTrust
  <1>3. CASE AttestAnswered(c)
    <2>1. ~Asking(op[c]) /\ ~Asking(op'[c]) /\ \A d \in Callers \ {c} : op'[d] = op[d]
      <3>1. PICK pub, build : \/ op' = [op EXCEPT ![c] = Approved(@, pub, build)]
                              \/ op' = [op EXCEPT ![c].pc = "refused"]
        BY <1>3 DEF AttestAnswered
      <3>2. Approved(op[c], pub, build).pc = "approved"
        BY <1>1 DEF Approved, Call
      <3>3. op'[c].pc \in {"approved", "refused"} /\ \A d \in Callers \ {c} : op'[d] = op[d]
        BY <1>1, <3>1, <3>2 DEF Call
      <3> QED  BY <1>3, <3>3 DEF AttestAnswered, Asking
    <2> QED  BY <1>3, <2>1, Stutters DEF AttestAnswered
  <1>4. CASE LockGateway(c)
    <2>1. ~Asking(op[c]) /\ ~Asking(op'[c]) /\ \A d \in Callers \ {c} : op'[d] = op[d]
      BY <1>1, <1>4 DEF LockGateway, Asking, Call
    <2> QED  BY <1>4, <2>1, Stutters DEF LockGateway
  <1>5. ASSUME Pin(c) \/ Clear(c)
        PROVE  /\ Questions' = Questions /\ VouchedEngines' = VouchedEngines /\ Answers' = Answers
               /\ ~Asking(op[c])
    <2>1. ~Asking(op[c]) /\ ~Asking(op'[c]) /\ \A d \in Callers \ {c} : op'[d] = op[d]
      <3>1. PICK x : op' = [op EXCEPT ![c] = Returned(@, x)]
        BY <1>5 DEF Pin, Clear
      <3>2. op[c].pc = "updating"
        BY <1>5 DEF Pin, Clear
      <3>3. Returned(op[c], x).pc = "idle"
        BY <1>1 DEF Returned, Call
      <3> QED  BY <1>1, <3>1, <3>2, <3>3 DEF Asking
    <2>2. Questions' = Questions
      BY <2>1, SameQuestions
    <2> QED  BY <1>5, <2>1, <2>2 DEF Pin, Clear, VouchedEngines, Vouched, Answers
  <1>6. CASE Pin(c)
    <2> DEFINE e == op[c].enrollment.key
    <2>1. e \in VouchedEngines
      BY <1>1, <1>6 DEF Pin, Known, Backed, VouchedBy, VouchedEngines, Vouched, Enrollment
    <2>2. TrustedKeys' = [TrustedKeys EXCEPT ![op[c].gw] = e]
      BY <1>1, <1>6 DEF Pin, TrustedKeys, Enrollment
    <2>3. Enforced!Trust(op[c].gw, e)
      BY <1>5, <1>6, <2>1, <2>2 DEF Enforced!Trust
    <2> QED  BY <1>1, <2>1, <2>3 DEF Enforced!Next, VouchedEngines
  <1>7. CASE Clear(c)
    <2>1. TrustedKeys' = [TrustedKeys EXCEPT ![op[c].gw] = NoEngine]
      BY <1>1, <1>7 DEF Clear, TrustedKeys, NoEnrollment
    <2>2. Enforced!Trust(op[c].gw, NoEngine)
      BY <1>5, <1>7, <2>1 DEF Enforced!Trust
    <2> QED  BY <1>1, <2>2 DEF Enforced!Next
  <1> QED  BY <1>2, <1>3, <1>4, <1>6, <1>7 DEF Trust

\* A returned call asks nothing.
LEMMA ReturnedAsksNothing ==
  ASSUME NEW p \in Call, NEW r
  PROVE  ~Asking(Returned(p, r))
  BY DEF Returned, Asking, Call

\* The snapshot puts the question to the engine that is trusted now, under a nonce
\* that no other question has.
LEMMA SnapshotRefines ==
  ASSUME GatewayInv, NEW c \in Callers, Snapshot(c)
  PROVE  [Enforced!Next]_(Enforced!vars)
  <1> DEFINE r == gateway[op[c].gw]
  <1>1. /\ op \in [Callers -> Call] /\ op[c] \in Call /\ op[c].gw \in Gateways
        /\ op[c].pc = "calling" /\ r \in Enrollment
        /\ Pinned(r, verifier, clock, elapsed)
        /\ UNCHANGED <<verifier, gateway, accepted>>
    BY Parts DEF GatewayInv, TypeOK, Snapshot
  <1>2. ~Asking(op[c])
    BY <1>1 DEF Asking
  <1>3. CASE r.svc = NoEngine
    <2>1. op' = [op EXCEPT ![c] = Returned(op[c], "no_pdp")]
      BY <1>3 DEF Snapshot
    <2>2. ~Asking(op'[c]) /\ \A d \in Callers \ {c} : op'[d] = op[d]
      BY <1>1, <2>1, ReturnedAsksNothing
    <2> QED  BY <1>1, <1>2, <2>2, Stutters
  <1>4. CASE r.svc # NoEngine
    <2> DEFINE w == [op[c] EXCEPT !.pc = "snapshot", !.enrollment = r]
    <2> DEFINE q == QuestionOf(w)
    <2>1. op'[c] = w /\ \A d \in Callers \ {c} : op'[d] = op[d]
      BY <1>1, <1>4 DEF Snapshot
    <2>2. /\ w.pc = "snapshot" /\ w.enrollment = r /\ w.gw = op[c].gw /\ w.req = op[c].req
          /\ w.nonce = op[c].nonce
      BY <1>1 DEF Call
    <2> HIDE DEF w
    <2>3. Asking(w)
      BY <2>2 DEF Asking
    <2>4. /\ q.gw = op[c].gw /\ q.req = op[c].req /\ q.nonce = op[c].nonce /\ q.judge = r.key
          /\ q \in Enforced!Question
      BY <1>1, <1>4, <2>2 DEF QuestionOf, Pinned, Enrollment, Call, Enforced!Question
    <2>5. Questions' = Questions \cup {q}
      BY <1>2, <2>1, <2>3, NewQuestion
    <2> HIDE DEF q
    <2>6. ASSUME NEW p \in Questions PROVE p.nonce # q.nonce
      BY <1>1, <2>4 DEF Questions, QuestionOf, Asking, GatewayInv, NoncesDiffer
    <2>7. ASSUME NEW p \in Answers PROVE p.nonce # q.nonce
      <3>1. PICK a \in accepted : p = AnswerOf(a)
        BY DEF Answers
      <3>2. a.decision.nonce = a.nonce /\ a.nonce # op[c].nonce
        BY <1>1 DEF GatewayInv, Faithful, NoncesDiffer
      <3>3. p.nonce = a.nonce
        BY <3>1, <3>2 DEF AnswerOf
      <3> QED  BY <3>2, <3>3, <2>4
    <2>8. q \notin Questions
      BY <2>6
    <2>9. VouchedEngines' = VouchedEngines /\ TrustedKeys' = TrustedKeys /\ Answers' = Answers
      BY <1>1 DEF VouchedEngines, Vouched, TrustedKeys, Answers
    <2>10. q.judge = TrustedKeys[q.gw]
      BY <1>1, <2>4 DEF TrustedKeys
    <2>11. Enforced!Ask(q)
      BY <2>5, <2>6, <2>7, <2>9, <2>10 DEF Enforced!Ask
    <2> QED  BY <2>4, <2>5, <2>8, <2>11 DEF Enforced!Next
  <1> QED  BY <1>3, <1>4

\* A call that is too old withdraws its question.
LEMMA CheckAgeRefines ==
  ASSUME GatewayInv, NEW c \in Callers, CheckAge(c)
  PROVE  [Enforced!Next]_(Enforced!vars)
  <1> DEFINE checked == [op[c] EXCEPT !.heldFor = elapsed - op[c].enrollment.pinnedTick]
  <1> DEFINE late == Expired(clock - op[c].enrollment.enrolledAt)
  <1>1. /\ op \in [Callers -> Call] /\ op[c] \in Call /\ op[c].pc = "snapshot"
        /\ op[c].enrollment.pinnedTick \in Nat /\ op[c].enrollment.pinnedTick <= elapsed
        /\ elapsed \in Nat
        /\ UNCHANGED <<verifier, gateway, accepted>>
    BY Parts DEF GatewayInv, TypeOK, CheckAge, Known, Enrollment
  <1>2. Asking(op[c])
    BY <1>1 DEF Asking
  <1>3. checked \in Call /\ QuestionOf([checked EXCEPT !.pc = "asked"]) = QuestionOf(op[c])
        /\ [checked EXCEPT !.pc = "asked"].pc = "asked"
    BY <1>1 DEF Call, QuestionOf
  <1>4. CASE ~late
    <2>1. op' = [op EXCEPT ![c] = [checked EXCEPT !.pc = "asked"]]
      BY <1>4 DEF CheckAge
    <2> HIDE DEF checked
    <2>2. /\ Asking(op'[c]) /\ QuestionOf(op'[c]) = QuestionOf(op[c])
          /\ \A d \in Callers \ {c} : op'[d] = op[d]
      BY <1>1, <1>3, <2>1 DEF Asking
    <2> QED  BY <1>1, <1>2, <2>2, Stutters
  <1>5. CASE late
    <2> DEFINE q == QuestionOf(op[c])
    <2>1. op' = [op EXCEPT ![c] = Returned(checked, "expired")]
      BY <1>5 DEF CheckAge
    <2> HIDE DEF checked
    <2>2. ~Asking(op'[c]) /\ \A d \in Callers \ {c} : op'[d] = op[d]
      BY <1>1, <1>3, <2>1, ReturnedAsksNothing
    <2>3. Questions' = Questions \ {q} /\ q \in Questions
      BY <1>2, <2>2, QuestionGone DEF Questions
    <2>4. VouchedEngines' = VouchedEngines /\ TrustedKeys' = TrustedKeys /\ Answers' = Answers
      BY <1>1 DEF VouchedEngines, Vouched, TrustedKeys, Answers
    <2>5. Enforced!Refuse(q)
      BY <2>3, <2>4 DEF Enforced!Refuse
    <2> QED  BY <2>3, <2>5 DEF Enforced!Next
  <1> QED  BY <1>4, <1>5

\* An answer that is bound honours the question with a judgement of its judge; any
\* other refuses it.
LEMMA DecideAnsweredRefines ==
  ASSUME GatewayInv, NEW c \in Callers, DecideAnswered(c)
  PROVE  [Enforced!Next]_(Enforced!vars)
  <1> DEFINE p == op[c]
  <1> DEFINE q == QuestionOf(p)
  <1>1. PICK d \in DecideAnswers(p.enrollment.svc, p.req, p.nonce) : ReturnIfBound(c, p, d)
    BY DEF DecideAnswered
  <1>2. /\ op \in [Callers -> Call] /\ p \in Call /\ p.pc = "asked"
        /\ p.enrollment.svc \in Engines /\ p.enrollment.key \in Engines
    BY Parts DEF DecideAnswered, GatewayInv, TypeOK, Known, Enrollment
  <1>3. UNCHANGED <<verifier, gateway>> /\ \E r : op' = [op EXCEPT ![c] = Returned(p, r)]
    BY <1>1 DEF ReturnIfBound
  <1>4. Asking(p) /\ ~Asking(op'[c]) /\ \A e \in Callers \ {c} : op'[e] = op[e]
    BY <1>2, <1>3, ReturnedAsksNothing DEF Asking
  <1>5. Questions' = Questions \ {q} /\ q \in Questions
    BY <1>4, QuestionGone DEF Questions
  <1>6. VouchedEngines' = VouchedEngines /\ TrustedKeys' = TrustedKeys
    BY <1>3 DEF VouchedEngines, Vouched, TrustedKeys
  <1>7. CASE ~Bound(d, p)
    <2>1. Answers' = Answers
      BY <1>1, <1>7 DEF ReturnIfBound, Answers
    <2>2. Enforced!Refuse(q)
      BY <1>5, <1>6, <2>1 DEF Enforced!Refuse
    <2> QED  BY <1>5, <2>2 DEF Enforced!Next
  <1>8. CASE Bound(d, p)
    <2> DEFINE a == [gw |-> p.gw, nonce |-> p.nonce, req |-> p.req, key |-> p.enrollment.key,
                     decision |-> d, heldFor |-> p.heldFor,
                     knownRevoked |-> p.enrollment.knownRevoked]
    <2>1. accepted' = accepted \cup {a}
      BY <1>1, <1>8 DEF ReturnIfBound
    <2>2. /\ d.nonce = p.nonce /\ d.signer = p.enrollment.key
          /\ d.verdict \in Judgements[q.judge][q.req]
      BY <1>2, <1>8, BoundIsVerdict DEF QuestionOf
    <2>3. AnswerOf(a) = Enforced!Judged(q, d.verdict)
      BY <2>2 DEF AnswerOf, Enforced!Judged, QuestionOf
    <2> HIDE DEF a
    <2>4. Answers' = Answers \cup {Enforced!Judged(q, d.verdict)}
      BY <2>1, <2>3 DEF Answers
    <2>5. Enforced!Honour(q)
      BY <1>5, <1>6, <2>2, <2>4 DEF Enforced!Honour
    <2> QED  BY <1>5, <2>5 DEF Enforced!Next
  <1> QED  BY <1>7, <1>8

\* Every step of the gateways is a step of the abstract specification or none.
LEMMA StepRefines == GatewayInv /\ [Next]_vars => [Enforced!Next]_(Enforced!vars)
  <1> SUFFICES ASSUME GatewayInv, [Next]_vars PROVE [Enforced!Next]_(Enforced!vars)
    OBVIOUS
  <1>1. ASSUME NEW c \in Callers, NEW g \in Gateways, NEW r \in Requests, BeginAuthorize(c, g, r)
        PROVE  UNCHANGED Enforced!vars
    <2>1. op \in [Callers -> Call]
      BY DEF GatewayInv, TypeOK
    <2>2. ~Asking(op[c]) /\ ~Asking(op'[c]) /\ \A d \in Callers \ {c} : op'[d] = op[d]
      BY <1>1, <2>1 DEF BeginAuthorize, Started, Asking
    <2> QED  BY <1>1, <2>2, Stutters DEF BeginAuthorize
  <1>2. ASSUME NEW c \in Callers, Authorize(c) PROVE [Enforced!Next]_(Enforced!vars)
    BY <1>1, <1>2, SnapshotRefines, CheckAgeRefines, DecideAnsweredRefines DEF Authorize
  <1>3. ASSUME Tick \/ SetClockBack \/ UNCHANGED vars PROVE UNCHANGED Enforced!vars
    BY <1>3, Stutters DEF Tick, SetClockBack, vars
  <1>4. CASE Operator
    BY <1>4, OperatorVouches DEF Enforced!Next
  <1> QED  BY <1>2, <1>3, <1>4, TrustRefines DEF Next

\* For any number of gateways, callers and engines, on any channels: the gateways
\* implement Enforcement, in which a request is put to the one engine its gateway
\* trusts at that moment and is honoured, once, with what that engine judged of a
\* request of this hash: for a well-formed request its own verdict or a denial.
THEOREM GatewayRefinement == Spec => ImplementsEnforcement
  BY EnforcedInit, StepRefines, GatewayInvariant, PTL DEF Spec, ImplementsEnforcement, Enforced!Spec
=============================================================================
