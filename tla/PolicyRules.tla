----------------------------- MODULE PolicyRules -----------------------------
(***************************************************************************)
(* The pure part of internal/pdp/pdp.go: which policies an engine loads,   *)
(* which requests it judges, when a rule fires for a request, and what a   *)
(* request hashes to.                                                      *)
(*                                                                         *)
(* Names are opaque except for the three the code tells apart: the empty   *)
(* string, "*" and the reserved "!" prefix, which InvalidRequestRuleID     *)
(* stands for.  TooLong is any string over maxFieldLen.  The three posture *)
(* signals of a device are the set of those that it satisfies.  A hash is  *)
(* the content it commits to: SHA-256 is ideal and canon frames its fields *)
(* injectively.                                                            *)
(***************************************************************************)
EXTENDS Integers, Functions, Sequences

CONSTANTS
  Names,     \* well-formed names: of subjects, roles, resources, rules and versions
  TooLong,   \* a string over maxFieldLen
  MaxRules,  \* maxRules
  MaxList    \* maxListLen

InvalidRequestRuleID == "!invalid-request"
Everything           == "*"
KnownNetworks        == {"corp", "vpn", "public"}
MinSensitivity       == 1
MaxSensitivity       == 4
Posture              == {"managed", "patched", "encrypted"}

ASSUME NamesAssumption ==
  /\ Names # {}
  /\ Names \cap {"", TooLong, InvalidRequestRuleID} = {}
  /\ TooLong \notin {"", InvalidRequestRuleID, Everything} \cup KnownNetworks
ASSUME LimitsAssumption == MaxRules \in Nat \ {0} /\ MaxList \in Nat \ {0}

\* Go's zero for a missing key is what makes an unknown method an error.
authStrength(method) ==
  CASE method = "password"     -> 1
    [] method = "mfa"          -> 2
    [] method = "hardware-key" -> 3
    [] OTHER                   -> 0

Strings == Names \cup {"", TooLong, InvalidRequestRuleID, Everything}
Methods == {"", "password", "mfa", "hardware-key", "telepathy"}
Zones   == KnownNetworks \cup {"", "guest"}

Obligations == [readOnly : BOOLEAN, reauth : Int, ttl : Int, mask : SUBSET Strings]
Conditions  == [minAuth : Methods, posture : SUBSET Posture,
                networks : Seq(Zones), roles : Seq(Strings)]
Rule        == [id : Strings, effect : {"allow", "deny", "permit"}, resources : Seq(Strings),
                min : Int, max : Int, when : Conditions, obligations : Obligations]
Policy      == [version : Strings, rules : Seq(Rule)]
Request     == [id : Strings, roles : Seq(Strings), auth : Methods, posture : SUBSET Posture,
                name : Strings, sensitivity : Int, network : Zones]

WellNamed(s) == s \notin {"", TooLong}

-----------------------------------------------------------------------------
(* Requests. *)

\* A slip: a zone that no policy knows is taken for one that no rule forbids.
ValidateAnyNetwork(q) ==
  /\ WellNamed(q.id)
  /\ authStrength(q.auth) # 0
  /\ Len(q.roles) <= MaxList
  /\ WellNamed(q.name)
  /\ q.sensitivity \in MinSensitivity .. MaxSensitivity
  /\ \A role \in Range(q.roles) : WellNamed(role)

\* Request.Validate returns nil.
Validate(q) ==
  /\ WellNamed(q.id)
  /\ authStrength(q.auth) # 0
  /\ Len(q.roles) <= MaxList
  /\ WellNamed(q.name)
  /\ q.sensitivity \in MinSensitivity .. MaxSensitivity
  /\ q.network \in KnownNetworks
  /\ \A role \in Range(q.roles) : WellNamed(role)

\* normalizeSet: no order, no duplicates, no empty strings.
normalizeSet(list) == Range(list) \ {""}

\* A slip: the device's posture is left out of the hash.
HashRequestNoPosture(q) ==
  [q EXCEPT !.roles = normalizeSet(q.roles), !.posture = {}]

\* HashRequest: every field, the roles as a set.
HashRequest(q) == [q EXCEPT !.roles = normalizeSet(q.roles)]

-----------------------------------------------------------------------------
(* Policies. *)

NoObligations == [readOnly |-> FALSE, reauth |-> 0, ttl |-> 0, mask |-> {}]

\* A slip: each end of the band is checked, the band is not.
validateSensitivityBandEnds(r) ==
  \A s \in {r.min, r.max} : s # 0 => s \in MinSensitivity .. MaxSensitivity

\* validateSensitivityBand returns nil.
validateSensitivityBand(r) ==
  /\ \A s \in {r.min, r.max} : s # 0 => s \in MinSensitivity .. MaxSensitivity
  /\ r.min # 0 /\ r.max # 0 => r.min <= r.max

\* validateConditions returns nil.
validateConditions(c) ==
  /\ c.minAuth # "" => authStrength(c.minAuth) # 0
  /\ Len(c.networks) <= MaxList /\ Len(c.roles) <= MaxList
  /\ Range(c.networks) \subseteq KnownNetworks
  /\ \A role \in Range(c.roles) : WellNamed(role)

\* One turn of validate's loop, without the comparison to the other rules.
ValidRule(r) ==
  /\ WellNamed(r.id) /\ r.id # InvalidRequestRuleID
  /\ r.effect \in {"allow", "deny"}
  /\ Len(r.resources) \in 1 .. MaxList
  /\ \A name \in Range(r.resources) : WellNamed(name)
  /\ validateSensitivityBand(r)
  /\ validateConditions(r.when)
  /\ r.effect = "deny" => r.obligations = NoObligations
  /\ r.obligations.reauth >= 0 /\ r.obligations.ttl >= 0

\* A slip: rule identifiers may repeat.
validateRepeatedIDs(p) ==
  /\ WellNamed(p.version)
  /\ Len(p.rules) \in 1 .. MaxRules
  /\ \A k \in DOMAIN p.rules : ValidRule(p.rules[k])

\* validate returns nil.
validate(p) ==
  /\ WellNamed(p.version)
  /\ Len(p.rules) \in 1 .. MaxRules
  /\ \A k \in DOMAIN p.rules : ValidRule(p.rules[k])
  /\ \A j, k \in DOMAIN p.rules : p.rules[j].id = p.rules[k].id => j = k

-----------------------------------------------------------------------------
(* Evaluation. *)

\* matches: the rule covers the request's resource.
matches(r, q) ==
  /\ r.min # 0 => q.sensitivity >= r.min
  /\ r.max # 0 => q.sensitivity <= r.max
  /\ {Everything, q.name} \cap Range(r.resources) # {}

\* A slip: the method named is required, not that method or a better one.
holdsExactAuth(c, q) ==
  /\ c.minAuth # "" => q.auth = c.minAuth
  /\ c.posture \subseteq q.posture
  /\ c.networks # <<>> => q.network \in Range(c.networks)
  /\ c.roles # <<>> => Range(c.roles) \cap Range(q.roles) # {}

\* holds: every condition that is not empty is met.
holds(c, q) ==
  /\ c.minAuth # "" => authStrength(q.auth) >= authStrength(c.minAuth)
  /\ c.posture \subseteq q.posture
  /\ c.networks # <<>> => q.network \in Range(c.networks)
  /\ c.roles # <<>> => Range(c.roles) \cap Range(q.roles) # {}

Fires(r, q) == matches(r, q) /\ holds(r.when, q)
=============================================================================
