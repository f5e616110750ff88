----------------------------- MODULE PolicyEngine -----------------------------
(***************************************************************************)
(* The policy engine of internal/pdp/pdp.go: NewEngineInEnclave loads the  *)
(* measured policy or refuses it, and Decide walks the rules for several   *)
(* callers at once ("safe for concurrent use").  The walk is one step per  *)
(* rule, so callers interleave between any two rules; what they share is   *)
(* the policy, which no step changes.                                      *)
(*                                                                         *)
(* The nonce and the signature of a decision are the business of Gateway,  *)
(* and its reason is wording.                                              *)
(***************************************************************************)
EXTENDS PolicyRules

CONSTANTS
  Callers,    \* enforcement points that call Decide concurrently
  Bundles,    \* policy bundles that an image may be measured with
  Requests,   \* requests that callers send
  Unparsable  \* bytes that are no Policy: over-long, unknown key, trailing content

ASSUME InputsAssumption ==
  /\ Unparsable \notin Policy
  /\ Bundles \subseteq Policy \cup {Unparsable}
  /\ Requests \subseteq Request

VARIABLES
  engine,  \* the Engine: whether it was constructed, and its policy
  work     \* per caller: the call of Decide in progress, or its decision

vars == <<engine, work>>

Decision == [allow : BOOLEAN, ruleID : Strings, obligations : Obligations,
             policyVersion : Strings, requestHash : {HashRequest(q) : q \in Requests}]

\* A call of Decide; rule is the next rule to consider, allowed the rule
\* behind the pointer of that name, and 0 is the nil pointer.
NoCall == [phase |-> "idle"]
Walk   == [phase : {"walking"}, req : Requests, rule : Nat, allowed : Nat]
Answer == [phase : {"answered"}, req : Requests, decision : Decision]

TypeOK ==
  /\ engine \in [status : {"none", "refused"}] \cup [status : {"loaded"}, policy : Policy]
  /\ work \in [Callers -> {NoCall} \cup Walk \cup Answer]
  /\ engine.status # "loaded" => \A c \in Callers : work[c] = NoCall
  /\ \A c \in Callers : work[c].phase = "walking" =>
       /\ work[c].rule \in 1 .. Len(engine.policy.rules) + 1
       /\ work[c].allowed < work[c].rule

Init ==
  /\ engine = [status |-> "none"]
  /\ work = [c \in Callers |-> NoCall]

-----------------------------------------------------------------------------
(* NewEngineInEnclave. *)

\* The bundle parses and validates.
LoadPolicy(b) ==
  /\ engine.status # "loaded"
  /\ b # Unparsable
  /\ validate(b)
  /\ engine' = [status |-> "loaded", policy |-> b]
  /\ UNCHANGED work

\* An error; another image can be launched.
RefusePolicy(b) ==
  /\ engine.status # "loaded"
  /\ b # Unparsable => ~validate(b)
  /\ engine' = [status |-> "refused"]
  /\ UNCHANGED work

-----------------------------------------------------------------------------
(* Decide. *)

Rules == engine.policy.rules

\* The decision for q, signed and handed to the caller.
Answered(q, allow, ruleID, obligations) ==
  [phase |-> "answered", req |-> q,
   decision |-> [allow |-> allow, ruleID |-> ruleID, obligations |-> obligations,
                 policyVersion |-> engine.policy.version, requestHash |-> HashRequest(q)]]

\* Validate returned an error: a signed refusal under the reserved rule.
RefuseRequest(c, q) ==
  /\ engine.status = "loaded"
  /\ work[c].phase = "idle"
  /\ ~Validate(q)
  /\ work' = [work EXCEPT ![c] = Answered(q, FALSE, InvalidRequestRuleID, NoObligations)]
  /\ UNCHANGED engine

BeginDecide(c, q) ==
  /\ engine.status = "loaded"
  /\ work[c].phase = "idle"
  /\ Validate(q)
  /\ work' = [work EXCEPT ![c] = [phase |-> "walking", req |-> q, rule |-> 1, allowed |-> 0]]
  /\ UNCHANGED engine

\* The caller is at a rule of the policy.
AtRule(c) == work[c].phase = "walking" /\ work[c].rule <= Len(Rules)

\* A slip: the walk goes on two rules further.
SkipRuleAndNext(c) ==
  /\ AtRule(c)
  /\ ~Fires(Rules[work[c].rule], work[c].req)
  /\ work' = [work EXCEPT ![c].rule = work[c].rule + 2]
  /\ UNCHANGED engine

SkipRule(c) ==
  /\ AtRule(c)
  /\ ~Fires(Rules[work[c].rule], work[c].req)
  /\ work' = [work EXCEPT ![c].rule = work[c].rule + 1]
  /\ UNCHANGED engine

\* A deny that fires ends the walk.
DenyByRule(c) ==
  /\ AtRule(c)
  /\ Fires(Rules[work[c].rule], work[c].req)
  /\ Rules[work[c].rule].effect = "deny"
  /\ work' = [work EXCEPT ![c] =
                Answered(work[c].req, FALSE, Rules[work[c].rule].id, NoObligations)]
  /\ UNCHANGED engine

\* A slip: the first rule that fires decides.
NoteAllowAndStop(c) ==
  /\ AtRule(c)
  /\ Fires(Rules[work[c].rule], work[c].req)
  /\ Rules[work[c].rule].effect # "deny"
  /\ work' = [work EXCEPT ![c].rule = Len(Rules) + 1, ![c].allowed = work[c].rule]
  /\ UNCHANGED engine

\* The first allow that fires is remembered and the walk goes on.
NoteAllow(c) ==
  /\ AtRule(c)
  /\ Fires(Rules[work[c].rule], work[c].req)
  /\ Rules[work[c].rule].effect # "deny"
  /\ work' = [work EXCEPT ![c].rule = work[c].rule + 1,
                          ![c].allowed = IF work[c].allowed = 0 THEN work[c].rule
                                                                ELSE work[c].allowed]
  /\ UNCHANGED engine

\* A slip: the remembered rule grants without its obligations.
ConcludeBare(c) ==
  /\ work[c].phase = "walking"
  /\ work[c].rule > Len(Rules)
  /\ work' = [work EXCEPT ![c] =
       IF work[c].allowed = 0
       THEN Answered(work[c].req, FALSE, "", NoObligations)
       ELSE Answered(work[c].req, TRUE, Rules[work[c].allowed].id, NoObligations)]
  /\ UNCHANGED engine

\* No deny fired: the remembered allow with its obligations, or the default deny.
Conclude(c) ==
  /\ work[c].phase = "walking"
  /\ work[c].rule > Len(Rules)
  /\ work' = [work EXCEPT ![c] =
       IF work[c].allowed = 0
       THEN Answered(work[c].req, FALSE, "", NoObligations)
       ELSE LET r == Rules[work[c].allowed]
            IN  Answered(work[c].req, TRUE, r.id, r.obligations)]
  /\ UNCHANGED engine

\* The caller has taken its decision and may ask again.
Return(c) ==
  /\ work[c].phase = "answered"
  /\ work' = [work EXCEPT ![c] = NoCall]
  /\ UNCHANGED engine

Step(c) ==
  \/ \E q \in Requests : RefuseRequest(c, q) \/ BeginDecide(c, q)
  \/ SkipRule(c) \/ DenyByRule(c) \/ NoteAllow(c) \/ Conclude(c) \/ Return(c)

Next ==
  \/ \E b \in Bundles : LoadPolicy(b) \/ RefusePolicy(b)
  \/ \E c \in Callers : Step(c)

Spec == Init /\ [][Next]_vars

-----------------------------------------------------------------------------
(* What the engine promises. *)

HasAnswer(c) == work[c].phase = "answered"

Firing(rules, q, effect) ==
  {k \in DOMAIN rules : Fires(rules[k], q) /\ rules[k].effect = effect}

IsFirst(k, set) == k \in set /\ \A j \in set : k <= j

\* Decide's semantics without the walk, one disjunct for each kind of decision.
Follows(d, rules, q) ==
  LET denies == Firing(rules, q, "deny")
      allows == Firing(rules, q, "allow")
  IN  \/ /\ ~Validate(q)
         /\ ~d.allow /\ d.ruleID = InvalidRequestRuleID /\ d.obligations = NoObligations
      \/ /\ Validate(q)
         /\ \E k \in denies : IsFirst(k, denies) /\ d.ruleID = rules[k].id
         /\ ~d.allow /\ d.obligations = NoObligations
      \/ /\ Validate(q) /\ denies = {}
         /\ \E k \in allows : /\ IsFirst(k, allows)
                              /\ d.ruleID = rules[k].id /\ d.obligations = rules[k].obligations
         /\ d.allow
      \/ /\ Validate(q) /\ denies = {} /\ allows = {}
         /\ ~d.allow /\ d.ruleID = "" /\ d.obligations = NoObligations

\* Decide's documented steps 0 to 5: a malformed request is refused, the first
\* deny that fires wins over every allow wherever it stands, otherwise the first
\* allow wins with its obligations, otherwise the default deny.
DenyOverrides ==
  \A c \in Callers : HasAnswer(c) => Follows(work[c].decision, Rules, work[c].req)

\* An audit trail attributes every decision to exactly one cause: the reserved
\* id means a malformed request and nothing else, and any other id names one
\* rule of the policy, which fired and has the effect of the decision.
RuleIDAttributes ==
  \A c \in Callers : HasAnswer(c) =>
    LET q == work[c].req
        d == work[c].decision
    IN  /\ d.ruleID = InvalidRequestRuleID <=> ~Validate(q)
        /\ d.ruleID \notin {"", InvalidRequestRuleID} =>
             \A k \in DOMAIN Rules : Rules[k].id = d.ruleID =>
               Fires(Rules[k], q) /\ (d.allow <=> Rules[k].effect = "allow")

\* Well-formed requests with every signal at its strongest, and with a resource
\* and at most one role that the rule names.
Probes(r) ==
  [id : {CHOOSE n \in Names : TRUE}, roles : {<<>>} \cup {<<n>> : n \in Range(r.when.roles)},
   auth : {"hardware-key"}, posture : {Posture}, name : Range(r.resources),
   sensitivity : MinSensitivity .. MaxSensitivity, network : KnownNetworks]

\* "Policy validation refuses to load rules whose conditions can never fire":
\* every rule of a loaded policy fires for some request that Validate accepts.
NoDeadRule ==
  engine.status = "loaded" =>
    \A k \in DOMAIN Rules : \E q \in Probes(Rules[k]) : Validate(q) /\ Fires(Rules[k], q)

SameVerdict(a, b) ==
  a.allow = b.allow /\ a.ruleID = b.ruleID /\ a.obligations = b.obligations

\* The two copies of a request that the engine and the enforcement point hash
\* may differ, but not in a way the policy can see: well-formed requests with
\* one hash get one verdict.
EqualHashEqualVerdict ==
  \A c, d \in Callers :
    /\ HasAnswer(c) /\ HasAnswer(d)
    /\ work[c].decision.requestHash = work[d].decision.requestHash
    /\ Validate(work[c].req) /\ Validate(work[d].req)
    => SameVerdict(work[c].decision, work[d].decision)
=============================================================================
