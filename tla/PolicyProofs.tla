---------------------------- MODULE PolicyProofs ----------------------------
(***************************************************************************)
(* Theorems about PolicyEngine, for every policy, every set of requests    *)
(* and any number of concurrent callers, and about the endorsed policy.    *)
(*                                                                         *)
(* DenyOverrides speaks of the answer, and Decide finds it by a walk, so   *)
(* the inductive invariant says what the walk knows at each rule: no deny  *)
(* among the rules behind it fired, and the remembered rule is the first   *)
(* allow among them that did.  An engine that is loaded never changes and  *)
(* its policy passed validate, which is what makes every rule an allow or  *)
(* a deny and its id unique.                                               *)
(*                                                                         *)
(* Of the endorsed policy the same invariant leaves what its rules grant,  *)
(* which the theorems compare from request to request.                     *)
(***************************************************************************)
EXTENDS EndorsedPolicy, TLAPS

\* The policy of a loaded engine passed validate.
LoadedIsValid == engine.status = "loaded" => validate(engine.policy)

\* What a walk knows about the rules behind it.
WalkKnows(c) ==
  work[c].phase = "walking" =>
    LET q == work[c].req
    IN  /\ Validate(q)
        /\ \A k \in 1 .. work[c].rule - 1 : Fires(Rules[k], q) => Rules[k].effect # "deny"
        /\ work[c].allowed = 0 => \A k \in 1 .. work[c].rule - 1 : ~Fires(Rules[k], q)
        /\ work[c].allowed # 0 =>
             /\ Fires(Rules[work[c].allowed], q)
             /\ \A k \in 1 .. work[c].allowed - 1 : ~Fires(Rules[k], q)

\* DenyOverrides for one caller.
Judged(c) == HasAnswer(c) => Follows(work[c].decision, Rules, work[c].req)

\* The decision commits to the request it answers.
HashIsOfRequest(c) == HasAnswer(c) => work[c].decision.requestHash = HashRequest(work[c].req)

PolicyInv ==
  /\ TypeOK
  /\ LoadedIsValid
  /\ \A c \in Callers : WalkKnows(c)
  /\ \A c \in Callers : Judged(c)
  /\ \A c \in Callers : HashIsOfRequest(c)

-----------------------------------------------------------------------------

\* The decisions that the actions build are decisions.
LEMMA AnswerType ==
  ASSUME engine.status = "loaded", engine.policy \in Policy,
         NEW q \in Requests, NEW allow \in BOOLEAN, NEW id \in Strings, NEW o \in Obligations
  PROVE  Answered(q, allow, id, o) \in Answer
  BY DEF Answered, Answer, Decision, Policy

\* No obligations are obligations.
LEMMA NoObligationsType == NoObligations \in Obligations
  BY DEF NoObligations, Obligations

\* A rule of a policy, and what an answer takes from it.
LEMMA RuleType ==
  ASSUME NEW p \in Policy, NEW k \in 1 .. Len(p.rules)
  PROVE  /\ p.rules[k] \in Rule
         /\ p.rules[k].id \in Strings
         /\ p.rules[k].obligations \in Obligations
  <1>1. p.rules \in Seq(Rule)
    BY DEF Policy
  <1>2. p.rules[k] \in Rule
    BY <1>1
  <1> QED  BY <1>2 DEF Rule

\* What TypeOK says of a call by its phase.
LEMMA PhaseType ==
  ASSUME TypeOK, NEW c \in Callers
  PROVE  /\ work[c].phase \in {"idle", "walking", "answered"}
         /\ work[c].phase = "idle" => work[c] = NoCall
         /\ work[c].phase = "walking" =>
              /\ work[c] \in Walk
              /\ engine.status = "loaded" /\ engine.policy \in Policy
         /\ work[c].phase = "answered" =>
              /\ work[c] \in Answer
              /\ engine.status = "loaded" /\ engine.policy \in Policy
         /\ engine.status = "loaded" => engine.policy \in Policy
  <1>1. work[c] \in {NoCall} \cup Walk \cup Answer
    BY DEF TypeOK
  <1>2. /\ work[c].phase \in {"idle", "walking", "answered"}
        /\ work[c].phase = "idle" => work[c] = NoCall
        /\ work[c].phase = "walking" => work[c] \in Walk
        /\ work[c].phase = "answered" => work[c] \in Answer
    BY <1>1 DEF NoCall, Walk, Answer
  <1>3. work[c].phase # "idle" => engine.status = "loaded"
    BY DEF TypeOK, NoCall
  <1>4. engine.status = "loaded" => engine.policy \in Policy
    BY DEF TypeOK
  <1> QED  BY <1>2, <1>3, <1>4

\* Initially there is no engine and no call.
LEMMA PolicyInit == Init => PolicyInv
  <1> SUFFICES ASSUME Init PROVE PolicyInv
    OBVIOUS
  <1>1. \A c \in Callers : work[c] = NoCall /\ work[c].phase = "idle"
    BY DEF Init, NoCall
  <1>2. TypeOK
    BY <1>1 DEF Init, TypeOK
  <1> QED  BY <1>1, <1>2 DEF Init, PolicyInv, LoadedIsValid, WalkKnows, Judged, HasAnswer,
                 HashIsOfRequest

\* What a step that touches one caller has to establish.
LEMMA OneCaller ==
  ASSUME PolicyInv, NEW c \in Callers, NEW w,
         engine' = engine, work' = [work EXCEPT ![c] = w],
         \/ w = NoCall
         \/ engine.status = "loaded" /\ w \in Answer
         \/ /\ engine.status = "loaded" /\ w \in Walk
            /\ w.rule \in 1 .. Len(Rules) + 1 /\ w.allowed < w.rule,
         WalkKnows(c)', Judged(c)', HashIsOfRequest(c)'
  PROVE  PolicyInv'
  <1>1. work'[c] = w /\ \A d \in Callers \ {c} : work'[d] = work[d]
    BY DEF PolicyInv, TypeOK
  <1>2. w \in {NoCall} \cup Walk \cup Answer
    OBVIOUS
  <1>3. TypeOK'
    <2>1. work' \in [Callers -> {NoCall} \cup Walk \cup Answer]
      BY <1>2 DEF PolicyInv, TypeOK
    <2>2. engine'.status # "loaded" => \A d \in Callers : work'[d] = NoCall
      <3>1. engine.status # "loaded" => w = NoCall
        OBVIOUS
      <3> QED  BY <1>1, <3>1 DEF PolicyInv, TypeOK
    <2>3. ASSUME NEW d \in Callers, work'[d].phase = "walking"
          PROVE  work'[d].rule \in 1 .. Len(engine'.policy.rules) + 1 /\ work'[d].allowed < work'[d].rule
      <3>1. CASE d = c
        <4>1. w.phase = "walking"
          BY <3>1, <2>3, <1>1
        <4>2. w # NoCall /\ w \notin Answer
          BY <4>1 DEF NoCall, Answer
        <4> QED  BY <3>1, <4>2, <1>1 DEF Rules
      <3>2. CASE d # c
        BY <3>2, <2>3, <1>1 DEF PolicyInv, TypeOK
      <3> QED  BY <3>1, <3>2
    <2> QED  BY <2>1, <2>2, <2>3 DEF PolicyInv, TypeOK
  <1>4. LoadedIsValid'
    BY DEF PolicyInv, LoadedIsValid
  <1>5. ASSUME NEW d \in Callers PROVE WalkKnows(d)' /\ Judged(d)' /\ HashIsOfRequest(d)'
    <2>1. CASE d = c
      BY <2>1
    <2>2. CASE d # c
      <3>1. work'[d] = work[d]
        BY <2>2, <1>1
      <3>2. WalkKnows(d)'
        BY <3>1 DEF PolicyInv, WalkKnows, Rules
      <3>3. Judged(d)'
        BY <3>1 DEF PolicyInv, Judged, HasAnswer, Rules
      <3>4. HashIsOfRequest(d)'
        BY <3>1 DEF PolicyInv, HashIsOfRequest, HasAnswer
      <3> QED  BY <3>2, <3>3, <3>4
    <2> QED  BY <2>1, <2>2
  <1> QED  BY <1>3, <1>4, <1>5 DEF PolicyInv

-----------------------------------------------------------------------------
(* The steps of Decide. *)

\* A refusal of a malformed request follows the semantics.
LEMMA RefuseStep ==
  ASSUME PolicyInv, NEW c \in Callers, NEW q \in Requests, RefuseRequest(c, q)
  PROVE  PolicyInv'
  <1> DEFINE w == Answered(q, FALSE, InvalidRequestRuleID, NoObligations)
  <1>1. engine.status = "loaded" /\ engine.policy \in Policy
    BY PhaseType DEF PolicyInv, RefuseRequest
  <1>2. w \in Answer
    BY <1>1, AnswerType, NoObligationsType DEF Strings
  <1>3. engine' = engine /\ work' = [work EXCEPT ![c] = w] /\ work'[c] = w
    BY DEF RefuseRequest, PolicyInv, TypeOK
  <1>4. /\ w.phase = "answered" /\ w.req = q
        /\ ~w.decision.allow /\ w.decision.ruleID = InvalidRequestRuleID
        /\ w.decision.obligations = NoObligations /\ w.decision.requestHash = HashRequest(q)
    BY DEF Answered
  <1>5. ~Validate(q)
    BY DEF RefuseRequest
  <1>6. Follows(w.decision, Rules, q)
    BY <1>4, <1>5 DEF Follows
  <1>7. WalkKnows(c)' /\ Judged(c)' /\ HashIsOfRequest(c)'
    BY <1>3, <1>4, <1>6 DEF WalkKnows, Judged, HasAnswer, HashIsOfRequest, Rules
  <1> HIDE DEF w
  <1> QED  BY <1>1, <1>2, <1>3, <1>7, OneCaller

\* A walk that has not begun knows nothing.
LEMMA BeginStep ==
  ASSUME PolicyInv, NEW c \in Callers, NEW q \in Requests, BeginDecide(c, q)
  PROVE  PolicyInv'
  <1> DEFINE w == [phase |-> "walking", req |-> q, rule |-> 1, allowed |-> 0]
  <1>1. engine.status = "loaded" /\ engine.policy \in Policy
    BY PhaseType DEF PolicyInv, BeginDecide
  <1>2. w \in Walk /\ w.rule \in 1 .. Len(Rules) + 1 /\ w.allowed < w.rule
    BY <1>1 DEF Walk, Rules, Policy
  <1>3. engine' = engine /\ work' = [work EXCEPT ![c] = w] /\ work'[c] = w
    BY DEF BeginDecide, PolicyInv, TypeOK
  <1>4. WalkKnows(c)' /\ Judged(c)' /\ HashIsOfRequest(c)'
    BY <1>3 DEF BeginDecide, WalkKnows, Judged, HasAnswer, HashIsOfRequest
  <1> HIDE DEF w
  <1> QED  BY <1>1, <1>2, <1>3, <1>4, OneCaller

\* What holds of a caller at a rule.
LEMMA AtRuleType ==
  ASSUME PolicyInv, NEW c \in Callers, work[c].phase = "walking"
  PROVE  /\ engine.status = "loaded" /\ engine.policy \in Policy
         /\ work[c] \in Walk /\ work[c].req \in Requests
         /\ Len(Rules) \in Nat
         /\ work[c].rule \in 1 .. Len(Rules) + 1 /\ work[c].allowed \in 0 .. work[c].rule - 1
         /\ \A k \in 1 .. Len(Rules) : Rules[k].effect \in {"allow", "deny"}
         /\ DOMAIN Rules = 1 .. Len(Rules)
  <1>1. engine.status = "loaded" /\ engine.policy \in Policy /\ work[c] \in Walk
    BY PhaseType DEF PolicyInv
  <1>2. Rules \in Seq(Rule)
    BY <1>1 DEF Policy, Rules
  <1>3. Len(Rules) \in Nat /\ DOMAIN Rules = 1 .. Len(Rules)
    BY <1>2
  <1>4. work[c].rule \in 1 .. Len(Rules) + 1 /\ work[c].allowed < work[c].rule
    BY DEF PolicyInv, TypeOK, Rules
  <1>5. work[c].rule \in Nat /\ work[c].allowed \in Nat /\ work[c].req \in Requests
    BY <1>1 DEF Walk
  <1>6. \A k \in 1 .. Len(Rules) : Rules[k].effect \in {"allow", "deny"}
    BY <1>1, <1>3 DEF PolicyInv, LoadedIsValid, validate, ValidRule, Rules
  <1> QED  BY <1>1, <1>3, <1>4, <1>5, <1>6

\* A rule that does not fire joins those behind the walk.
LEMMA SkipStep ==
  ASSUME PolicyInv, NEW c \in Callers, SkipRule(c)
  PROVE  PolicyInv'
  <1> DEFINE w == [work[c] EXCEPT !.rule = work[c].rule + 1]
  <1>1. work[c].phase = "walking" /\ work[c].rule <= Len(Rules)
        /\ ~Fires(Rules[work[c].rule], work[c].req)
    BY DEF SkipRule, AtRule
  <1>2. /\ engine.status = "loaded" /\ work[c] \in Walk /\ Len(Rules) \in Nat
        /\ work[c].rule \in 1 .. Len(Rules) + 1 /\ work[c].allowed \in 0 .. work[c].rule - 1
    BY <1>1, AtRuleType
  <1>3. /\ w \in Walk /\ w.rule = work[c].rule + 1 /\ w.allowed = work[c].allowed
        /\ w.req = work[c].req /\ w.phase = "walking"
    BY <1>2 DEF Walk
  <1>4. engine' = engine /\ work' = [work EXCEPT ![c] = w] /\ work'[c] = w
    BY DEF SkipRule, PolicyInv, TypeOK
  <1>5. w.rule \in 1 .. Len(Rules) + 1 /\ w.allowed < w.rule
    BY <1>1, <1>2, <1>3
  <1>6. WalkKnows(c)
    BY DEF PolicyInv
  <1> HIDE DEF w
  <1>7. WalkKnows(c)'
    <2>1. Validate(work[c].req)
      BY <1>1, <1>6 DEF WalkKnows
    <2>2. ASSUME NEW k \in 1 .. w.rule - 1, Fires(Rules[k], w.req)
          PROVE  Rules[k].effect # "deny"
      <3>1. k # work[c].rule
        BY <1>1, <1>3, <2>2
      <3>2. k \in 1 .. work[c].rule - 1
        BY <1>2, <1>3, <3>1
      <3> QED  BY <1>1, <1>3, <1>6, <2>2, <3>2 DEF WalkKnows
    <2>3. ASSUME w.allowed = 0, NEW k \in 1 .. w.rule - 1
          PROVE  ~Fires(Rules[k], w.req)
      <3>1. CASE k = work[c].rule
        BY <3>1, <1>1, <1>3
      <3>2. CASE k # work[c].rule
        <4>1. k \in 1 .. work[c].rule - 1
          BY <1>2, <1>3, <3>2
        <4> QED  BY <1>1, <1>3, <1>6, <2>3, <4>1 DEF WalkKnows
      <3> QED  BY <3>1, <3>2
    <2>4. w.allowed # 0 => /\ Fires(Rules[w.allowed], w.req)
                           /\ \A k \in 1 .. w.allowed - 1 : ~Fires(Rules[k], w.req)
      BY <1>1, <1>3, <1>6 DEF WalkKnows
    <2>5. Rules' = Rules
      BY <1>4 DEF Rules
    <2> QED  BY <1>3, <1>4, <2>1, <2>2, <2>3, <2>4, <2>5 DEF WalkKnows
  <1>8. Judged(c)' /\ HashIsOfRequest(c)'
    BY <1>3, <1>4 DEF Judged, HasAnswer, HashIsOfRequest
  <1> QED  BY <1>2, <1>3, <1>4, <1>5, <1>7, <1>8, OneCaller

\* The first deny that fires is the first deny of all.
LEMMA DenyStep ==
  ASSUME PolicyInv, NEW c \in Callers, DenyByRule(c)
  PROVE  PolicyInv'
  <1> DEFINE n == work[c].rule
             q == work[c].req
             w == Answered(q, FALSE, Rules[n].id, NoObligations)
  <1>1. /\ work[c].phase = "walking" /\ n <= Len(Rules)
        /\ Fires(Rules[n], q) /\ Rules[n].effect = "deny"
    BY DEF DenyByRule, AtRule
  <1>2. /\ engine.status = "loaded" /\ engine.policy \in Policy /\ q \in Requests
        /\ n \in 1 .. Len(Rules) /\ Len(Rules) \in Nat /\ DOMAIN Rules = 1 .. Len(Rules)
    BY <1>1, AtRuleType
  <1>3. Rules[n].id \in Strings
    BY <1>2, RuleType DEF Rules
  <1>4. w \in Answer
    BY <1>2, <1>3, AnswerType, NoObligationsType
  <1>5. engine' = engine /\ work' = [work EXCEPT ![c] = w] /\ work'[c] = w
    BY DEF DenyByRule, PolicyInv, TypeOK
  <1>6. /\ w.phase = "answered" /\ w.req = q
        /\ ~w.decision.allow /\ w.decision.ruleID = Rules[n].id
        /\ w.decision.obligations = NoObligations /\ w.decision.requestHash = HashRequest(q)
    BY DEF Answered
  <1>7. Validate(q) /\ \A k \in 1 .. n - 1 : Fires(Rules[k], q) => Rules[k].effect # "deny"
    BY <1>1 DEF PolicyInv, WalkKnows
  <1>8. n \in Firing(Rules, q, "deny") /\ IsFirst(n, Firing(Rules, q, "deny"))
    BY <1>1, <1>2, <1>7 DEF Firing, IsFirst
  <1> HIDE DEF w
  <1>9. Follows(w.decision, Rules, q)
    BY <1>6, <1>7, <1>8 DEF Follows
  <1>10. WalkKnows(c)' /\ Judged(c)' /\ HashIsOfRequest(c)'
    BY <1>5, <1>6, <1>9 DEF WalkKnows, Judged, HasAnswer, HashIsOfRequest, Rules
  <1> QED  BY <1>2, <1>4, <1>5, <1>10, OneCaller

\* The first allow that fires is remembered, and a later one changes nothing.
LEMMA NoteStep ==
  ASSUME PolicyInv, NEW c \in Callers, NoteAllow(c)
  PROVE  PolicyInv'
  <1> DEFINE n == work[c].rule
             q == work[c].req
             a == IF work[c].allowed = 0 THEN n ELSE work[c].allowed
             w == [work[c] EXCEPT !.rule = n + 1, !.allowed = a]
  <1>1. /\ work[c].phase = "walking" /\ n <= Len(Rules)
        /\ Fires(Rules[n], q) /\ Rules[n].effect # "deny"
    BY DEF NoteAllow, AtRule
  <1>2. /\ engine.status = "loaded" /\ work[c] \in Walk /\ Len(Rules) \in Nat
        /\ n \in 1 .. Len(Rules) + 1 /\ work[c].allowed \in 0 .. n - 1
    BY <1>1, AtRuleType
  <1>3. a \in 1 .. n /\ a \in Nat
    BY <1>2
  <1>4. /\ w \in Walk /\ w.rule = n + 1 /\ w.allowed = a
        /\ w.req = q /\ w.phase = "walking"
    <2> DEFINE v == [work[c] EXCEPT !.rule = n + 1]
    <2>1. /\ v \in Walk /\ v.rule = n + 1 /\ v.req = q /\ v.phase = "walking"
      BY <1>2 DEF Walk
    <2>2. [v EXCEPT !.allowed = a] = w
      OBVIOUS
    <2> HIDE DEF v, w, a
    <2>3. /\ [v EXCEPT !.allowed = a] \in Walk
          /\ [v EXCEPT !.allowed = a].rule = v.rule /\ [v EXCEPT !.allowed = a].allowed = a
          /\ [v EXCEPT !.allowed = a].req = v.req /\ [v EXCEPT !.allowed = a].phase = v.phase
      BY <1>3, <2>1 DEF Walk
    <2> QED  BY <2>1, <2>2, <2>3
  <1>5. engine' = engine /\ work' = [work EXCEPT ![c] = w] /\ work'[c] = w
    BY DEF NoteAllow, PolicyInv, TypeOK
  <1>6. w.rule \in 1 .. Len(Rules) + 1 /\ w.allowed < w.rule
    BY <1>1, <1>2, <1>3, <1>4
  <1>7. /\ Validate(q)
        /\ \A k \in 1 .. n - 1 : Fires(Rules[k], q) => Rules[k].effect # "deny"
        /\ work[c].allowed = 0 => \A k \in 1 .. n - 1 : ~Fires(Rules[k], q)
        /\ work[c].allowed # 0 =>
             /\ Fires(Rules[work[c].allowed], q)
             /\ \A k \in 1 .. work[c].allowed - 1 : ~Fires(Rules[k], q)
    BY <1>1 DEF PolicyInv, WalkKnows
  <1>8. \A k \in 1 .. (n + 1) - 1 : Fires(Rules[k], q) => Rules[k].effect # "deny"
    <2> SUFFICES ASSUME NEW k \in 1 .. (n + 1) - 1, Fires(Rules[k], q)
                 PROVE  Rules[k].effect # "deny"
      OBVIOUS
    <2>1. k = n \/ k \in 1 .. n - 1
      BY <1>2
    <2> QED  BY <2>1, <1>1, <1>7
  <1>9. Fires(Rules[a], q) /\ \A k \in 1 .. a - 1 : ~Fires(Rules[k], q)
    <2>1. CASE work[c].allowed = 0
      BY <2>1, <1>1, <1>7
    <2>2. CASE work[c].allowed # 0
      BY <2>2, <1>7
    <2> QED  BY <2>1, <2>2
  <1> HIDE DEF w
  <1>10. WalkKnows(c)'
    <2>1. Rules' = Rules
      BY <1>5 DEF Rules
    <2>2. a # 0
      BY <1>3
    <2> HIDE DEF a, n, q
    <2> QED  BY <1>4, <1>5, <1>7, <1>8, <1>9, <2>1, <2>2 DEF WalkKnows
  <1>11. Judged(c)' /\ HashIsOfRequest(c)'
    BY <1>4, <1>5 DEF Judged, HasAnswer, HashIsOfRequest
  <1> QED  BY <1>2, <1>4, <1>5, <1>6, <1>10, <1>11, OneCaller

\* At the end of the rules what the walk knows is the semantics.
LEMMA ConcludeStep ==
  ASSUME PolicyInv, NEW c \in Callers, Conclude(c)
  PROVE  PolicyInv'
  <1> DEFINE n == work[c].rule
             q == work[c].req
             a == work[c].allowed
             w == IF a = 0 THEN Answered(q, FALSE, "", NoObligations)
                           ELSE Answered(q, TRUE, Rules[a].id, Rules[a].obligations)
  <1>1. work[c].phase = "walking" /\ n > Len(Rules)
    BY DEF Conclude
  <1>2. /\ engine.status = "loaded" /\ engine.policy \in Policy /\ q \in Requests
        /\ Len(Rules) \in Nat /\ n \in 1 .. Len(Rules) + 1 /\ a \in 0 .. n - 1
        /\ DOMAIN Rules = 1 .. Len(Rules)
        /\ \A k \in 1 .. Len(Rules) : Rules[k].effect \in {"allow", "deny"}
    BY <1>1, AtRuleType
  <1>3. n = Len(Rules) + 1
    BY <1>1, <1>2
  <1>4. engine' = engine /\ work' = [work EXCEPT ![c] = w] /\ work'[c] = w
    BY DEF Conclude, PolicyInv, TypeOK
  <1>5. /\ Validate(q)
        /\ \A k \in 1 .. Len(Rules) : Fires(Rules[k], q) => Rules[k].effect # "deny"
        /\ a = 0 => \A k \in 1 .. Len(Rules) : ~Fires(Rules[k], q)
        /\ a # 0 => /\ Fires(Rules[a], q)
                    /\ \A k \in 1 .. a - 1 : ~Fires(Rules[k], q)
    BY <1>1, <1>2, <1>3 DEF PolicyInv, WalkKnows
  <1>6. Firing(Rules, q, "deny") = {}
    BY <1>2, <1>5 DEF Firing
  <1>7. /\ w \in Answer /\ w.req = q /\ w.decision.requestHash = HashRequest(q)
        /\ Follows(w.decision, Rules, q)
    <2>1. CASE a = 0
      <3>1. Answered(q, FALSE, "", NoObligations) \in Answer
        BY <1>2, AnswerType, NoObligationsType DEF Strings
      <3>2. Firing(Rules, q, "allow") = {}
        BY <2>1, <1>2, <1>5 DEF Firing
      <3> QED  BY <2>1, <3>1, <3>2, <1>5, <1>6 DEF Answered, Follows
    <2>2. CASE a # 0
      <3>1. a \in 1 .. Len(Rules)
        BY <2>2, <1>2, <1>3
      <3>2. Rules[a].id \in Strings /\ Rules[a].obligations \in Obligations
        BY <3>1, <1>2, RuleType DEF Rules
      <3>3. Answered(q, TRUE, Rules[a].id, Rules[a].obligations) \in Answer
        BY <3>2, <1>2, AnswerType
      <3>4. a \in Firing(Rules, q, "allow") /\ IsFirst(a, Firing(Rules, q, "allow"))
        <4>1. a \in Firing(Rules, q, "allow")
          BY <3>1, <2>2, <1>2, <1>5 DEF Firing
        <4>2. ASSUME NEW j \in Firing(Rules, q, "allow") PROVE a <= j
          <5>1. j \in 1 .. Len(Rules) /\ Fires(Rules[j], q)
            BY <1>2 DEF Firing
          <5> QED  BY <5>1, <3>1, <2>2, <1>5
        <4> QED  BY <4>1, <4>2 DEF IsFirst
      <3> QED  BY <2>2, <3>3, <3>4, <1>5, <1>6 DEF Answered, Follows
    <2> QED  BY <2>1, <2>2
  <1>8. w.phase = "answered"
    BY DEF Answered
  <1> HIDE DEF w
  <1>9. WalkKnows(c)' /\ Judged(c)' /\ HashIsOfRequest(c)'
    <2>1. Rules' = Rules
      BY <1>4 DEF Rules
    <2> QED  BY <1>4, <1>7, <1>8, <2>1 DEF WalkKnows, Judged, HasAnswer, HashIsOfRequest
  <1> QED  BY <1>2, <1>4, <1>7, <1>9, OneCaller

\* A caller that took its decision has no call.
LEMMA ReturnStep ==
  ASSUME PolicyInv, NEW c \in Callers, Return(c)
  PROVE  PolicyInv'
  <1>1. engine' = engine /\ work' = [work EXCEPT ![c] = NoCall] /\ work'[c] = NoCall
    BY DEF Return, PolicyInv, TypeOK
  <1>2. WalkKnows(c)' /\ Judged(c)' /\ HashIsOfRequest(c)'
    BY <1>1 DEF WalkKnows, Judged, HasAnswer, HashIsOfRequest, NoCall
  <1> QED  BY <1>1, <1>2, OneCaller

\* Loading or refusing a policy happens before there are calls.
LEMMA LoadStep ==
  ASSUME PolicyInv, NEW b \in Bundles, LoadPolicy(b) \/ RefusePolicy(b)
  PROVE  PolicyInv'
  <1>1. /\ work' = work /\ engine.status # "loaded"
        /\ \A c \in Callers : work[c] = NoCall /\ work[c].phase = "idle"
    BY DEF LoadPolicy, RefusePolicy, PolicyInv, TypeOK, NoCall
  <1>2. LoadPolicy(b) => b \in Policy
    BY InputsAssumption DEF LoadPolicy
  <1>3. TypeOK' /\ LoadedIsValid'
    <2>1. engine' \in [status : {"none", "refused"}] \cup [status : {"loaded"}, policy : Policy]
      BY <1>2 DEF LoadPolicy, RefusePolicy
    <2>2. LoadedIsValid'
      BY DEF LoadPolicy, RefusePolicy, LoadedIsValid
    <2> QED  BY <1>1, <2>1, <2>2 DEF PolicyInv, TypeOK
  <1>4. \A c \in Callers : WalkKnows(c)' /\ Judged(c)' /\ HashIsOfRequest(c)'
    BY <1>1 DEF WalkKnows, Judged, HasAnswer, HashIsOfRequest
  <1> QED  BY <1>3, <1>4 DEF PolicyInv

\* The invariant holds in every reachable state.
LEMMA PolicyInvariant == Spec => []PolicyInv
  <1>1. ASSUME PolicyInv, [Next]_vars PROVE PolicyInv'
    <2>1. CASE UNCHANGED vars
      BY <1>1, <2>1 DEF vars, PolicyInv, TypeOK, LoadedIsValid, WalkKnows, Judged, HasAnswer,
                        HashIsOfRequest, Rules
    <2>2. CASE \E b \in Bundles : LoadPolicy(b) \/ RefusePolicy(b)
      BY <1>1, <2>2, LoadStep
    <2>3. CASE \E c \in Callers : Step(c)
      BY <1>1, <2>3, RefuseStep, BeginStep, SkipStep, DenyStep, NoteStep, ConcludeStep,
         ReturnStep DEF Step
    <2> QED  BY <1>1, <2>1, <2>2, <2>3 DEF Next
  <1> QED  BY PolicyInit, <1>1, PTL DEF Spec

\* Type correctness: the walk never leaves the policy, the remembered rule is
\* one it has passed, and every decision is built from the loaded policy.
THEOREM PolicyTypeCorrect == Spec => []TypeOK
  <1>1. PolicyInv => TypeOK
    BY DEF PolicyInv
  <1> QED  BY <1>1, PolicyInvariant, PTL

\* Every decision, of any policy on any request for any caller, is the one that
\* deny-overrides prescribes.
THEOREM DecideIsDenyOverrides == Spec => []DenyOverrides
  <1>1. PolicyInv => DenyOverrides
    BY DEF PolicyInv, DenyOverrides, Judged
  <1> QED  BY <1>1, PolicyInvariant, PTL

\* Every allow rule of these rules is one of the others, and every deny rule of the
\* others one of these, in whatever order they stand.
Restricts(rules, others) ==
  /\ \A k \in DOMAIN rules : rules[k].effect = "allow" => \E j \in DOMAIN others : others[j] = rules[k]
  /\ \A k \in DOMAIN others : others[k].effect = "deny" => \E j \in DOMAIN rules : rules[j] = others[k]

RestrictedAlike ==
  \A c \in Callers, others \in Seq(Rule) :
    HasAnswer(c) /\ work[c].decision.allow /\ Restricts(Rules, others) =>
      \A d \in Decision : Follows(d, others, work[c].req) => d.allow

\* Taking allow rules from a policy, adding deny rules to it and moving rules about
\* never lets a request through: whatever the engine allows, every policy that its
\* own restricts allows too.  So the order of rules decides which is named and
\* never the verdict.
THEOREM RestrictionNeverGrants == Spec => []RestrictedAlike
  <1>1. ASSUME DenyOverrides PROVE RestrictedAlike
    <2> SUFFICES ASSUME NEW c \in Callers, NEW others \in Seq(Rule), NEW d \in Decision,
                        HasAnswer(c), work[c].decision.allow, Restricts(Rules, others),
                        Follows(d, others, work[c].req)
                 PROVE  d.allow
      BY DEF RestrictedAlike
    <2> DEFINE q == work[c].req
    <2>1. /\ Validate(q) /\ Firing(Rules, q, "deny") = {}
          /\ \E k \in DOMAIN Rules : Fires(Rules[k], q) /\ Rules[k].effect = "allow"
      BY <1>1 DEF DenyOverrides, Follows, IsFirst, Firing
    <2>2. Firing(others, q, "deny") = {}
      BY <2>1 DEF Restricts, Firing
    <2>3. Firing(others, q, "allow") # {}
      BY <2>1 DEF Restricts, Firing
    <2> HIDE DEF q
    <2> QED  BY <2>1, <2>2, <2>3 DEF Follows, q
  <1> QED  BY <1>1, DecideIsDenyOverrides, PTL

\* A rule identifier is attributed to what fired.
LEMMA FollowsAttributes ==
  ASSUME NEW p \in Policy, validate(p), NEW q, NEW d, Follows(d, p.rules, q)
  PROVE  /\ d.ruleID = InvalidRequestRuleID <=> ~Validate(q)
         /\ d.ruleID \notin {"", InvalidRequestRuleID} =>
              \A k \in DOMAIN p.rules : p.rules[k].id = d.ruleID =>
                Fires(p.rules[k], q) /\ (d.allow <=> p.rules[k].effect = "allow")
  <1>1. \A k \in DOMAIN p.rules : p.rules[k].id \notin {"", InvalidRequestRuleID}
    BY DEF validate, ValidRule, WellNamed
  <1>2. \A j, k \in DOMAIN p.rules : p.rules[j].id = p.rules[k].id => j = k
    BY DEF validate
  <1>3. CASE ~Validate(q)
    BY <1>3 DEF Follows, InvalidRequestRuleID
  <1>4. CASE /\ Validate(q)
             /\ \E k \in Firing(p.rules, q, "deny") :
                  IsFirst(k, Firing(p.rules, q, "deny")) /\ d.ruleID = p.rules[k].id
             /\ ~d.allow /\ d.obligations = NoObligations
    <2>1. PICK k \in Firing(p.rules, q, "deny") : d.ruleID = p.rules[k].id
      BY <1>4
    <2>2. k \in DOMAIN p.rules /\ Fires(p.rules[k], q) /\ p.rules[k].effect = "deny"
      BY DEF Firing
    <2> QED  BY <1>1, <1>2, <1>4, <2>1, <2>2
  <1>5. CASE /\ Validate(q)
             /\ \E k \in Firing(p.rules, q, "allow") :
                  /\ IsFirst(k, Firing(p.rules, q, "allow"))
                  /\ d.ruleID = p.rules[k].id /\ d.obligations = p.rules[k].obligations
             /\ d.allow
    <2>1. PICK k \in Firing(p.rules, q, "allow") : d.ruleID = p.rules[k].id
      BY <1>5
    <2>2. k \in DOMAIN p.rules /\ Fires(p.rules[k], q) /\ p.rules[k].effect = "allow"
      BY DEF Firing
    <2> QED  BY <1>1, <1>2, <1>5, <2>1, <2>2
  <1>6. CASE Validate(q) /\ d.ruleID = ""
    BY <1>6 DEF InvalidRequestRuleID
  <1> QED  BY <1>3, <1>4, <1>5, <1>6 DEF Follows

\* Attribution: an audit trail never confuses a malformed request with a rule,
\* or one rule with another, whatever policy was loaded.
THEOREM AuditAttribution == Spec => []RuleIDAttributes
  <1>1. ASSUME PolicyInv PROVE RuleIDAttributes
    <2> SUFFICES ASSUME NEW c \in Callers, HasAnswer(c)
                 PROVE  LET q == work[c].req
                            d == work[c].decision
                        IN  /\ d.ruleID = InvalidRequestRuleID <=> ~Validate(q)
                            /\ d.ruleID \notin {"", InvalidRequestRuleID} =>
                                 \A k \in DOMAIN Rules : Rules[k].id = d.ruleID =>
                                   /\ Fires(Rules[k], q)
                                   /\ d.allow <=> Rules[k].effect = "allow"
      BY DEF RuleIDAttributes
    <2>1. engine.policy \in Policy /\ validate(engine.policy)
      BY <1>1, PhaseType DEF PolicyInv, LoadedIsValid, HasAnswer
    <2>2. Follows(work[c].decision, engine.policy.rules, work[c].req)
      BY <1>1 DEF PolicyInv, Judged, Rules
    <2> QED  BY <2>1, <2>2, FollowsAttributes DEF Rules
  <1> QED  BY <1>1, PolicyInvariant, PTL

\* Well-formed requests with one hash differ in nothing that a rule reads.
LEMMA EqualHashFiresAlike ==
  ASSUME NEW p \in Request, NEW q \in Request, Validate(p), Validate(q),
         HashRequest(p) = HashRequest(q), NEW r
  PROVE  Fires(r, p) <=> Fires(r, q)
  <1>1. "" \notin Range(p.roles) /\ "" \notin Range(q.roles)
    BY DEF Validate, WellNamed
  <1>2. /\ HashRequest(p).roles = Range(p.roles) \ {""}
        /\ HashRequest(q).roles = Range(q.roles) \ {""}
        /\ HashRequest(p).auth = p.auth /\ HashRequest(q).auth = q.auth
        /\ HashRequest(p).posture = p.posture /\ HashRequest(q).posture = q.posture
        /\ HashRequest(p).name = p.name /\ HashRequest(q).name = q.name
        /\ HashRequest(p).sensitivity = p.sensitivity /\ HashRequest(q).sensitivity = q.sensitivity
        /\ HashRequest(p).network = p.network /\ HashRequest(q).network = q.network
    BY DEF HashRequest, normalizeSet, Request
  <1>3. Range(p.roles) = Range(q.roles)
    <2>1. Range(p.roles) \ {""} = Range(q.roles) \ {""}
      BY <1>2
    <2>2. \A x : x \in Range(p.roles) <=> x \in Range(q.roles)
      BY <1>1, <2>1
    <2> QED  BY <2>2
  <1>4. /\ p.auth = q.auth /\ p.posture = q.posture /\ p.name = q.name
        /\ p.sensitivity = q.sensitivity /\ p.network = q.network
    BY <1>2
  <1> QED  BY <1>3, <1>4 DEF Fires, matches, holds

\* The semantics determine the verdict.
LEMMA FollowsOneVerdict ==
  ASSUME NEW p \in Policy, NEW q, NEW s, NEW d, NEW e,
         d.allow \in BOOLEAN, e.allow \in BOOLEAN,
         Validate(q), Validate(s), \A k \in DOMAIN p.rules : Fires(p.rules[k], q) <=> Fires(p.rules[k], s),
         Follows(d, p.rules, q), Follows(e, p.rules, s)
  PROVE  SameVerdict(d, e)
  <1> DEFINE denies == Firing(p.rules, q, "deny")
             allows == Firing(p.rules, q, "allow")
  <1>1. Firing(p.rules, s, "deny") = denies /\ Firing(p.rules, s, "allow") = allows
    BY DEF Firing
  <1>2. denies \subseteq Nat /\ allows \subseteq Nat
    <2>1. DOMAIN p.rules \subseteq Nat
      BY DEF Policy
    <2> QED  BY <2>1 DEF Firing
  <1>3. \A j, k : IsFirst(j, denies) /\ IsFirst(k, denies) => j = k
    <2> HIDE DEF denies
    <2> QED  BY <1>2 DEF IsFirst
  <1>4. \A j, k : IsFirst(j, allows) /\ IsFirst(k, allows) => j = k
    <2> HIDE DEF allows
    <2> QED  BY <1>2 DEF IsFirst
  <1>5. \/ /\ \E k \in denies : IsFirst(k, denies) /\ d.ruleID = p.rules[k].id
           /\ ~d.allow /\ d.obligations = NoObligations
        \/ /\ denies = {}
           /\ \E k \in allows : /\ IsFirst(k, allows)
                                /\ d.ruleID = p.rules[k].id /\ d.obligations = p.rules[k].obligations
           /\ d.allow
        \/ /\ denies = {} /\ allows = {}
           /\ ~d.allow /\ d.ruleID = "" /\ d.obligations = NoObligations
    BY DEF Follows
  <1>6. \/ /\ \E k \in denies : IsFirst(k, denies) /\ e.ruleID = p.rules[k].id
           /\ ~e.allow /\ e.obligations = NoObligations
        \/ /\ denies = {}
           /\ \E k \in allows : /\ IsFirst(k, allows)
                                /\ e.ruleID = p.rules[k].id /\ e.obligations = p.rules[k].obligations
           /\ e.allow
        \/ /\ denies = {} /\ allows = {}
           /\ ~e.allow /\ e.ruleID = "" /\ e.obligations = NoObligations
    BY <1>1 DEF Follows
  <1> HIDE DEF denies, allows
  <1> QED  BY <1>3, <1>4, <1>5, <1>6 DEF SameVerdict

\* Whatever two copies of a request look like, as long as both are well formed
\* and hash alike the engine gives both the same verdict.
THEOREM EqualHashes == Spec => []EqualHashEqualVerdict
  <1>1. ASSUME PolicyInv PROVE EqualHashEqualVerdict
    <2> SUFFICES ASSUME NEW c \in Callers, NEW d \in Callers, HasAnswer(c), HasAnswer(d),
                        work[c].decision.requestHash = work[d].decision.requestHash,
                        Validate(work[c].req), Validate(work[d].req)
                 PROVE  SameVerdict(work[c].decision, work[d].decision)
      BY DEF EqualHashEqualVerdict
    <2>1. work[c] \in Answer /\ work[d] \in Answer /\ engine.policy \in Policy
      BY <1>1, PhaseType DEF PolicyInv, HasAnswer
    <2>2. /\ work[c].req \in Request /\ work[d].req \in Request
          /\ work[c].decision.allow \in BOOLEAN /\ work[d].decision.allow \in BOOLEAN
      BY <2>1, InputsAssumption DEF Answer, Decision
    <2>3. HashRequest(work[c].req) = HashRequest(work[d].req)
      BY <1>1 DEF PolicyInv, HashIsOfRequest
    <2>4. \A k \in DOMAIN Rules : Fires(Rules[k], work[c].req) <=> Fires(Rules[k], work[d].req)
      BY <2>2, <2>3, EqualHashFiresAlike
    <2>5. Follows(work[c].decision, Rules, work[c].req) /\ Follows(work[d].decision, Rules, work[d].req)
      BY <1>1 DEF PolicyInv, Judged
    <2> QED  BY <2>1, <2>2, <2>4, <2>5, FollowsOneVerdict DEF Rules
  <1> QED  BY <1>1, PolicyInvariant, PTL

\* A rule that passed validation fires for the probe built from its own terms:
\* its first resource, an end of its band, its first zone, its first role.
LEMMA ValidRuleFires ==
  ASSUME NEW r \in Rule, ValidRule(r)
  PROVE  \E q \in Probes(r) : Validate(q) /\ Fires(r, q)
  <1> DEFINE u == CHOOSE n \in Names : TRUE
             c == r.when
             s == IF r.min # 0 THEN r.min ELSE IF r.max # 0 THEN r.max ELSE MinSensitivity
             z == IF c.networks = <<>> THEN "corp" ELSE c.networks[1]
             roles == IF c.roles = <<>> THEN <<>> ELSE <<c.roles[1]>>
             q == [id |-> u, roles |-> roles, auth |-> "hardware-key", posture |-> Posture,
                   name |-> r.resources[1], sensitivity |-> s, network |-> z]
  <1>1. /\ r.resources \in Seq(Strings) /\ r.min \in Int /\ r.max \in Int
        /\ c.minAuth \in Methods /\ c.posture \subseteq Posture
        /\ c.networks \in Seq(Zones) /\ c.roles \in Seq(Strings)
    BY DEF Rule, Conditions
  <1>2. u \in Names /\ WellNamed(u)
    BY NamesAssumption DEF WellNamed
  <1>3. WellNamed(r.resources[1]) /\ r.resources[1] \in Range(r.resources)
    <2>1. 1 \in DOMAIN r.resources /\ r.resources[1] \in Strings
      BY <1>1, LimitsAssumption DEF ValidRule
    <2>2. r.resources[1] \in Range(r.resources)
      BY <2>1 DEF Range
    <2> QED  BY <2>1, <2>2 DEF ValidRule
  <1>4. /\ s \in MinSensitivity .. MaxSensitivity
        /\ r.min # 0 => s >= r.min
        /\ r.max # 0 => s <= r.max
    BY <1>1 DEF ValidRule, validateSensitivityBand, MinSensitivity, MaxSensitivity
  <1>5. z \in KnownNetworks /\ (c.networks # <<>> => z \in Range(c.networks))
    <2>1. CASE c.networks = <<>>
      BY <2>1 DEF KnownNetworks
    <2>2. CASE c.networks # <<>>
      <3>1. 1 \in DOMAIN c.networks
        BY <2>2, <1>1
      <3>2. z \in Range(c.networks)
        BY <2>2, <3>1 DEF Range
      <3> QED  BY <2>2, <3>2 DEF ValidRule, validateConditions
    <2> QED  BY <2>1, <2>2
  <1>6. /\ roles \in {<<>>} \cup {<<n>> : n \in Range(c.roles)}
        /\ Len(roles) <= MaxList
        /\ \A x \in Range(roles) : WellNamed(x)
        /\ c.roles # <<>> => Range(c.roles) \cap Range(roles) # {}
    <2>1. CASE c.roles = <<>>
      BY <2>1, LimitsAssumption DEF Range
    <2>2. CASE c.roles # <<>>
      <3>1. 1 \in DOMAIN c.roles /\ c.roles[1] \in Strings
        BY <2>2, <1>1
      <3>2. c.roles[1] \in Range(c.roles)
        BY <3>1 DEF Range
      <3>3. WellNamed(c.roles[1])
        BY <3>2 DEF ValidRule, validateConditions
      <3>4. roles = <<c.roles[1]>> /\ Range(roles) = {c.roles[1]} /\ Len(roles) = 1
        <4>1. roles = <<c.roles[1]>>
          BY <2>2
        <4> QED  BY <4>1 DEF Range
      <3> HIDE DEF roles
      <3> QED  BY <3>2, <3>3, <3>4, LimitsAssumption
    <2> QED  BY <2>1, <2>2
  <1>7. authStrength("hardware-key") = 3 /\ authStrength(c.minAuth) \in 0 .. 3
    BY DEF authStrength
  <1>8. /\ q.id = u /\ q.roles = roles /\ q.auth = "hardware-key" /\ q.posture = Posture
        /\ q.name = r.resources[1] /\ q.sensitivity = s /\ q.network = z
    OBVIOUS
  <1>9. q \in Probes(r)
    <2> HIDE DEF roles, s, z
    <2> QED  BY <1>2, <1>3, <1>4, <1>5, <1>6 DEF Probes
  <1> HIDE DEF q, u, s, z, roles
  <1>10. Validate(q)
    BY <1>2, <1>3, <1>4, <1>5, <1>6, <1>7, <1>8 DEF Validate
  <1>11. matches(r, q)
    BY <1>3, <1>4, <1>8 DEF matches
  <1>12. holds(c, q)
    <2> HIDE DEF c
    <2>1. c.minAuth # "" => authStrength(q.auth) >= authStrength(c.minAuth)
      <3>1. authStrength(q.auth) = 3
        BY <1>8 DEF authStrength
      <3>2. authStrength(c.minAuth) \in 0 .. 3
        BY <1>7 DEF c
      <3>3. authStrength(q.auth) >= authStrength(c.minAuth)
        BY <3>1, <3>2
      <3> QED  BY <3>3
    <2>2. c.posture \subseteq q.posture
      BY <1>1, <1>8
    <2>3. c.networks # <<>> => q.network \in Range(c.networks)
      BY <1>5, <1>8
    <2>4. c.roles # <<>> => Range(c.roles) \cap Range(q.roles) # {}
      BY <1>6, <1>8
    <2> QED  BY <2>1, <2>2, <2>3, <2>4 DEF holds
  <1> QED  BY <1>9, <1>10, <1>11, <1>12 DEF Fires

\* No policy that an engine loads contains a rule that can never fire.
THEOREM LoadedRulesCanFire == Spec => []NoDeadRule
  <1>1. ASSUME PolicyInv PROVE NoDeadRule
    <2> SUFFICES ASSUME engine.status = "loaded", NEW k \in DOMAIN Rules
                 PROVE  \E q \in Probes(Rules[k]) : Validate(q) /\ Fires(Rules[k], q)
      BY DEF NoDeadRule
    <2>1. engine.policy \in Policy /\ validate(engine.policy)
      BY <1>1 DEF PolicyInv, TypeOK, LoadedIsValid
    <2>2. Rules[k] \in Rule
      BY <2>1 DEF Policy, Rules
    <2>3. ValidRule(Rules[k])
      BY <2>1 DEF validate, Rules
    <2> QED  BY <2>2, <2>3, ValidRuleFires
  <1> QED  BY <1>1, PolicyInvariant, PTL

-----------------------------------------------------------------------------
(* The endorsed policy. *)

LEMMA RangesAre ==
  /\ \A a : Range(<<a>>) = {a} /\ <<a>> # <<>>
  /\ \A a, b : Range(<<a, b>>) = {a, b} /\ <<a, b>> # <<>>
BY DEF Range

LEMMA StrengthsAre ==
  /\ authStrength("password") = 1 /\ authStrength("mfa") = 2 /\ authStrength("hardware-key") = 3
  /\ \A method : authStrength(method) \in 0 .. 3
BY DEF authStrength

\* The parts of a rule that the endorsed ones set.
LEMMA BareIs ==
  ASSUME NEW id, NEW effect, NEW resources
  PROVE  \E none : Bare(id, effect, resources) =
           [id |-> id, effect |-> effect, resources |-> resources, min |-> 0, max |-> 0,
            when |-> none, obligations |-> NoObligations]
BY Zenon DEF Bare

LEMMA EndorsedRules ==
  /\ DOMAIN Endorsed.rules = 1 .. 5
  /\ Endorsed.rules[1] = blockSensitiveFromPublic
  /\ Endorsed.rules[2] = crownJewelsHardwareKey
  /\ Endorsed.rules[3] = sensitiveNeedsMfaManaged
  /\ Endorsed.rules[4] = supportReadsPiiMasked
  /\ Endorsed.rules[5] = wikiAnyAuthenticated
BY DEF Endorsed

\* What the conditions of a rule ask for, one by one.
AuthMet(c, q)    == c.minAuth # "" => authStrength(q.auth) >= authStrength(c.minAuth)
NetworkMet(c, q) == c.networks # <<>> => q.network \in Range(c.networks)
RoleMet(c, q)    == c.roles # <<>> => Range(c.roles) \cap Range(q.roles) # {}

LEMMA FiresIs ==
  ASSUME NEW r, NEW q
  PROVE  Fires(r, q) <=> /\ matches(r, q)
                         /\ AuthMet(r.when, q) /\ r.when.posture \subseteq q.posture
                         /\ NetworkMet(r.when, q) /\ RoleMet(r.when, q)
BY Zenon DEF Fires, holds, AuthMet, NetworkMet, RoleMet

\* The one deny.
LEMMA BlockIs ==
  ASSUME NEW q
  PROVE  /\ blockSensitiveFromPublic.effect = "deny"
         /\ Fires(blockSensitiveFromPublic, q) <=> q.sensitivity >= 3 /\ q.network = "public"
<1> DEFINE r == blockSensitiveFromPublic
           c == r.when
<1>1. r.effect = "deny" /\ r.resources = <<Everything>> /\ r.min = 3 /\ r.max = 0
  BY Zenon DEF blockSensitiveFromPublic, Bare, Everything
<1>2. c.posture = {} /\ c.networks = <<"public">> /\ c.roles = <<>>
  BY Zenon DEF blockSensitiveFromPublic, Bare
<1>3. c.minAuth = ""
  BY Zenon DEF blockSensitiveFromPublic, Bare
<1> HIDE DEF r
<1>4. matches(r, q) <=> q.sensitivity >= 3
  BY <1>1, RangesAre DEF matches
<1>5. AuthMet(c, q)
  BY <1>3, Zenon DEF AuthMet
<1>6. RoleMet(c, q)
  BY <1>2, Zenon DEF RoleMet
<1>7. NetworkMet(c, q) <=> q.network = "public"
  BY <1>2, RangesAre DEF NetworkMet
<1> QED BY <1>1, <1>2, <1>4, <1>5, <1>6, <1>7, FiresIs DEF r

\* The allows, as far as their conditions on the network and their obligations go.
LEMMA CrownJewelsIs ==
  /\ crownJewelsHardwareKey.effect = "allow"
  /\ crownJewelsHardwareKey.resources = <<"signing-service">>
  /\ crownJewelsHardwareKey.when.networks = <<"corp">>
  /\ crownJewelsHardwareKey.obligations.ttl = 900
<1> DEFINE rule == Bare("crown-jewels-hardware-key", "allow", <<"signing-service">>)
           w == [minAuth |-> "hardware-key", posture |-> Posture,
                 networks |-> <<"corp">>, roles |-> <<"release-eng">>]
           o == [NoObligations EXCEPT !.reauth = 300, !.ttl = 900]
<1>1. PICK none : rule = [id |-> "crown-jewels-hardware-key", effect |-> "allow",
                          resources |-> <<"signing-service">>, min |-> 0, max |-> 0,
                          when |-> none, obligations |-> NoObligations]
  BY BareIs
<1>2. w.networks = <<"corp">> /\ o.ttl = 900
  BY DEF NoObligations
<1>3. crownJewelsHardwareKey = [rule EXCEPT !.when = w, !.obligations = o]
  BY Zenon DEF rule, crownJewelsHardwareKey
<1> HIDE DEF rule, w, o
<1> QED BY <1>1, <1>2, <1>3

LEMMA SensitiveIs ==
  /\ sensitiveNeedsMfaManaged.effect = "allow"
  /\ sensitiveNeedsMfaManaged.resources = <<"payroll-db", "customer-pii">>
  /\ sensitiveNeedsMfaManaged.when.networks = <<"corp", "vpn">>
  /\ sensitiveNeedsMfaManaged.obligations.ttl = 3600
  /\ sensitiveNeedsMfaManaged.obligations.mask = {"ssn", "bank_account"}
<1> DEFINE rule == Bare("sensitive-needs-mfa-managed", "allow", <<"payroll-db", "customer-pii">>)
<1>1. PICK none : rule = [id |-> "sensitive-needs-mfa-managed", effect |-> "allow",
                          resources |-> <<"payroll-db", "customer-pii">>, min |-> 0, max |-> 0,
                          when |-> none, obligations |-> NoObligations]
  BY BareIs
<1> HIDE DEF rule
<1> DEFINE w == [minAuth |-> "mfa", posture |-> {"managed", "patched"},
                 networks |-> Inside, roles |-> <<>>]
           o == [NoObligations EXCEPT !.ttl = 3600, !.mask = {"ssn", "bank_account"}]
<1>2. w.networks = <<"corp", "vpn">> /\ o.ttl = 3600 /\ o.mask = {"ssn", "bank_account"}
  BY DEF NoObligations, Inside
<1>3. sensitiveNeedsMfaManaged = [rule EXCEPT !.when = w, !.obligations = o]
  BY Zenon DEF rule, sensitiveNeedsMfaManaged
<1> HIDE DEF w, o
<1> QED BY <1>1, <1>2, <1>3

LEMMA SupportIs ==
  /\ supportReadsPiiMasked.effect = "allow"
  /\ supportReadsPiiMasked.resources = <<"customer-pii">>
  /\ supportReadsPiiMasked.when.networks = <<"corp", "vpn">>
  /\ supportReadsPiiMasked.obligations.ttl = 1800
  /\ supportReadsPiiMasked.obligations.mask = {"ssn", "bank_account", "date_of_birth"}
<1> DEFINE rule == Bare("support-reads-pii-masked", "allow", <<"customer-pii">>)
<1>1. PICK none : rule = [id |-> "support-reads-pii-masked", effect |-> "allow",
                          resources |-> <<"customer-pii">>, min |-> 0, max |-> 0,
                          when |-> none, obligations |-> NoObligations]
  BY BareIs
<1> HIDE DEF rule
<1> QED BY <1>1 DEF rule, supportReadsPiiMasked, NoObligations, Inside

LEMMA WikiIs ==
  /\ wikiAnyAuthenticated.effect = "allow"
  /\ wikiAnyAuthenticated.resources = <<"wiki">>
BY Zenon DEF wikiAnyAuthenticated, Bare

\* Whatever the endorsed policy grants was not blocked, and one of its allows fired.
LEMMA GrantedIs ==
  ASSUME NEW d, NEW q, Follows(d, Endorsed.rules, q), d.allow
  PROVE  /\ Validate(q)
         /\ ~(q.sensitivity >= 3 /\ q.network = "public")
         /\ \E k \in 2 .. 5 : /\ Fires(Endorsed.rules[k], q)
                              /\ d.obligations = Endorsed.rules[k].obligations
<1>1. /\ Validate(q) /\ Firing(Endorsed.rules, q, "deny") = {}
      /\ \E k \in Firing(Endorsed.rules, q, "allow") : d.obligations = Endorsed.rules[k].obligations
  BY Zenon DEF Follows, IsFirst
<1>2. ~Fires(blockSensitiveFromPublic, q)
  BY <1>1, EndorsedRules, BlockIs DEF Firing
<1>3. \A k \in Firing(Endorsed.rules, q, "allow") : k \in 2 .. 5 /\ Fires(Endorsed.rules[k], q)
  BY EndorsedRules, BlockIs DEF Firing
<1> QED BY <1>1, <1>2, <1>3, BlockIs

\* What an engine with the endorsed policy answered.
LEMMA EndorsedAnswer ==
  ASSUME PolicyInv, NEW c \in Callers, HasAnswer(c), engine.policy = Endorsed
  PROVE  /\ Follows(work[c].decision, Endorsed.rules, work[c].req)
         /\ work[c].decision.allow \in BOOLEAN /\ work[c].req \in Request
<1>1. Follows(work[c].decision, engine.policy.rules, work[c].req)
  BY DEF PolicyInv, Judged, Rules
<1>2. work[c] \in Answer
  BY PhaseType DEF PolicyInv, HasAnswer
<1>3. work[c].decision \in Decision /\ work[c].req \in Requests
  BY <1>2 DEF Answer
<1> QED BY <1>1, <1>3, InputsAssumption DEF Decision

\* For whatever request: nothing sensitive is granted to a public or an unknown
\* network.
THEOREM NothingSensitiveFromPublic == Spec => []NoSensitiveDataFromPublic
<1>1. ASSUME PolicyInv PROVE NoSensitiveDataFromPublic
  <2> SUFFICES ASSUME NEW c \in Callers, Granted(c)
               PROVE  \/ work[c].req.sensitivity \in 1 .. 2
                      \/ work[c].req.network \in {"corp", "vpn"}
    BY DEF NoSensitiveDataFromPublic
  <2> DEFINE q == work[c].req
  <2>1. Validate(q) /\ ~(q.sensitivity >= 3 /\ q.network = "public")
    BY <1>1, EndorsedAnswer, GrantedIs DEF Granted
  <2>2. q.sensitivity \in 1 .. 4 /\ q.network \in {"corp", "vpn", "public"}
    BY <2>1 DEF Validate, MinSensitivity, MaxSensitivity, KnownNetworks
  <2> HIDE DEF q
  <2>3. q.sensitivity \in 1 .. 2 \/ q.network \in {"corp", "vpn"}
    BY <2>1, <2>2
  <2> QED BY <2>3 DEF q
<1> QED BY <1>1, PolicyInvariant, PTL

\* For whatever request: personal data is granted with its bank details masked, and
\* everything but the wiki for an hour at most, whichever allow answers.
THEOREM GrantsAreMasked == Spec => []SensitiveGrantsAreMasked
<1>1. ASSUME PolicyInv, NEW c \in Callers, Granted(c)
      PROVE  /\ work[c].req.name \in {"payroll-db", "customer-pii"}
                  => {"ssn", "bank_account"} \subseteq work[c].decision.obligations.mask
             /\ work[c].req.name # "wiki" => work[c].decision.obligations.ttl \in 1 .. 3600
  <2> DEFINE q == work[c].req
             o == work[c].decision.obligations
             Masked == /\ q.name \in {"payroll-db", "customer-pii"}
                            => {"ssn", "bank_account"} \subseteq o.mask
                       /\ q.name # "wiki" => o.ttl \in 1 .. 3600
  <2> SUFFICES Masked
    OBVIOUS
  <2>1. PICK k \in 2 .. 5 : Fires(Endorsed.rules[k], q) /\ o = Endorsed.rules[k].obligations
    BY <1>1, EndorsedAnswer, GrantedIs DEF Granted
  <2>2. q.name \in Range(Endorsed.rules[k].resources)
          \/ Everything \in Range(Endorsed.rules[k].resources)
    BY <2>1 DEF Fires, matches
  <2> HIDE DEF q, o
  <2>3. CASE k = 2
    <3>1. q.name = "signing-service" /\ o.ttl = 900
      BY <2>1, <2>2, <2>3, EndorsedRules, CrownJewelsIs, RangesAre DEF Everything
    <3> QED BY <3>1
  <2>4. CASE k = 3
    <3>1. o.mask = {"ssn", "bank_account"} /\ o.ttl = 3600
      BY <2>1, <2>4, EndorsedRules, SensitiveIs
    <3> QED BY <3>1
  <2>5. CASE k = 4
    <3>1. o.mask = {"ssn", "bank_account", "date_of_birth"} /\ o.ttl = 1800
      BY <2>1, <2>5, EndorsedRules, SupportIs
    <3> QED BY <3>1
  <2>6. CASE k = 5
    <3>1. q.name = "wiki"
      BY <2>2, <2>6, EndorsedRules, WikiIs, RangesAre DEF Everything
    <3> QED BY <3>1
  <2>7. k = 2 \/ k = 3 \/ k = 4 \/ k = 5
    OBVIOUS
  <2> HIDE DEF Masked
  <2> QED BY <2>3, <2>4, <2>5, <2>6, <2>7
<1>2. PolicyInv => SensitiveGrantsAreMasked
  BY <1>1, Zenon DEF SensitiveGrantsAreMasked
<1> QED BY <1>2, PolicyInvariant, PTL

\* What a weaker request meets, a stronger one meets: q and s differ in their
\* authentication and posture alone, and s has the better of both.
LEMMA StrongerFires ==
  ASSUME NEW r, NEW q, NEW s,
         s.name = q.name, s.sensitivity = q.sensitivity, s.network = q.network, s.roles = q.roles,
         authStrength(s.auth) >= authStrength(q.auth), q.posture \subseteq s.posture,
         Fires(r, q)
  PROVE  Fires(r, s)
<1>1. matches(r, s)
  BY Zenon DEF Fires, matches
<1>2. AuthMet(r.when, q) /\ r.when.posture \subseteq q.posture /\ NetworkMet(r.when, q) /\ RoleMet(r.when, q)
  BY FiresIs
<1>3. NetworkMet(r.when, s) /\ RoleMet(r.when, s)
  BY <1>2, Zenon DEF NetworkMet, RoleMet
<1>4. authStrength(q.auth) >= authStrength(r.when.minAuth)
        => authStrength(s.auth) >= authStrength(r.when.minAuth)
  BY StrengthsAre
<1>5. AuthMet(r.when, s)
  BY <1>2, <1>4, Zenon DEF AuthMet
<1> QED BY <1>1, <1>2, <1>3, <1>5, FiresIs

\* For whatever requests: whoever is granted something keeps it with a stronger
\* authentication and a healthier device.
THEOREM BetterSignalsAreKept == Spec => []BetterSignalsKeepAccess
<1>1. ASSUME PolicyInv PROVE BetterSignalsKeepAccess
  <2> SUFFICES ASSUME NEW c \in Callers, NEW d \in Callers, Granted(c), HasAnswer(d),
                      [work[d].req EXCEPT !.auth = work[c].req.auth, !.posture = work[c].req.posture]
                        = work[c].req,
                      authStrength(work[d].req.auth) >= authStrength(work[c].req.auth),
                      work[c].req.posture \subseteq work[d].req.posture
               PROVE  Granted(d)
    BY Zenon DEF BetterSignalsKeepAccess
  <2> DEFINE q == work[c].req
             s == work[d].req
             e == work[d].decision
  <2>1. /\ Follows(work[c].decision, Endorsed.rules, q) /\ work[c].decision.allow
        /\ Follows(e, Endorsed.rules, s) /\ e.allow \in BOOLEAN
        /\ q \in Request /\ s \in Request
    BY <1>1, EndorsedAnswer DEF Granted
  <2>2. /\ s.id = q.id /\ s.name = q.name /\ s.sensitivity = q.sensitivity
        /\ s.network = q.network /\ s.roles = q.roles
    BY <2>1 DEF Request
  <2>3. authStrength(s.auth) >= authStrength(q.auth) /\ q.posture \subseteq s.posture
    OBVIOUS
  <2> HIDE DEF q, s, e
  <2>4. /\ Validate(q) /\ ~(q.sensitivity >= 3 /\ q.network = "public")
        /\ \E k \in 2 .. 5 : Fires(Endorsed.rules[k], q)
    BY <2>1, GrantedIs
  <2>5. authStrength(q.auth) # 0 => authStrength(s.auth) # 0
    BY <2>3, StrengthsAre
  <2>6. Validate(s)
    BY <2>2, <2>4, <2>5, Zenon DEF Validate
  <2>7. Firing(Endorsed.rules, s, "deny") = {}
    BY <2>2, <2>4, EndorsedRules, BlockIs, CrownJewelsIs, SensitiveIs, SupportIs, WikiIs DEF Firing
  <2>8. Firing(Endorsed.rules, s, "allow") # {}
    <3>1. PICK k \in 2 .. 5 : Fires(Endorsed.rules[k], q)
      BY <2>4
    <3>2. Fires(Endorsed.rules[k], s)
      BY <2>2, <2>3, <3>1, StrongerFires
    <3>3. k \in DOMAIN Endorsed.rules /\ Endorsed.rules[k].effect = "allow"
      BY EndorsedRules, CrownJewelsIs, SensitiveIs, SupportIs, WikiIs
    <3> QED BY <3>2, <3>3 DEF Firing
  <2>9. e.allow
    BY <2>1, <2>6, <2>7, <2>8, Zenon DEF Follows
  <2> QED BY <2>9 DEF Granted, e
<1> QED BY <1>1, PolicyInvariant, PTL
=============================================================================
