---------------------------- MODULE EndorsedPolicy ----------------------------
(***************************************************************************)
(* The policy bundle that the release embeds (policy/policy.json, measured *)
(* into the image by policy.Endorsed), and what is said of it.  The engine *)
(* that runs it is PolicyEngine's.                                         *)
(***************************************************************************)
EXTENDS PolicyEngine

\* A rule as JSON leaves it when every optional key is absent.
Bare(id, effect, resources) ==
  [id |-> id, effect |-> effect, resources |-> resources, min |-> 0, max |-> 0,
   when |-> [minAuth |-> "", posture |-> {}, networks |-> <<>>, roles |-> <<>>],
   obligations |-> NoObligations]

Inside == <<"corp", "vpn">>

blockSensitiveFromPublic ==
  [Bare("block-sensitive-from-public", "deny", <<"*">>) EXCEPT
     !.min = 3, !.when.networks = <<"public">>]

crownJewelsHardwareKey ==
  [Bare("crown-jewels-hardware-key", "allow", <<"signing-service">>) EXCEPT
     !.when = [minAuth |-> "hardware-key", posture |-> Posture,
               networks |-> <<"corp">>, roles |-> <<"release-eng">>],
     !.obligations = [NoObligations EXCEPT !.reauth = 300, !.ttl = 900]]

sensitiveNeedsMfaManaged ==
  [Bare("sensitive-needs-mfa-managed", "allow", <<"payroll-db", "customer-pii">>) EXCEPT
     !.when = [minAuth |-> "mfa", posture |-> {"managed", "patched"},
               networks |-> Inside, roles |-> <<>>],
     !.obligations = [NoObligations EXCEPT !.ttl = 3600, !.mask = {"ssn", "bank_account"}]]

supportReadsPiiMasked ==
  [Bare("support-reads-pii-masked", "allow", <<"customer-pii">>) EXCEPT
     !.when = [minAuth |-> "mfa", posture |-> {"managed"},
               networks |-> Inside, roles |-> <<"support">>],
     !.obligations = [readOnly |-> TRUE, reauth |-> 0, ttl |-> 1800,
                      mask |-> {"ssn", "bank_account", "date_of_birth"}]]

wikiAnyAuthenticated ==
  [Bare("wiki-any-authenticated", "allow", <<"wiki">>) EXCEPT !.when.minAuth = "password"]

Endorsed ==
  [version |-> "2026.08.1",
   rules   |-> <<blockSensitiveFromPublic, crownJewelsHardwareKey, sensitiveNeedsMfaManaged,
                 supportReadsPiiMasked, wikiAnyAuthenticated>>]

\* An engine with the endorsed policy granted c's request.
Granted(c) == HasAnswer(c) /\ engine.policy = Endorsed /\ work[c].decision.allow

\* "No sensitive data from public networks" (KnownNetworks, Request.Validate):
\* what is granted is not sensitive or is reached from a network known not to
\* be public, whatever zone and sensitivity the request claims.
NoSensitiveDataFromPublic ==
  \A c \in Callers : Granted(c) =>
    \/ work[c].req.sensitivity \in 1 .. 2
    \/ work[c].req.network \in {"corp", "vpn"}

\* Rules overlap and the first that fires replaces the obligations of the others:
\* whichever answers, personal data leaves with bank details masked, and every
\* session but one on the wiki is bounded.
SensitiveGrantsAreMasked ==
  \A c \in Callers : Granted(c) =>
    LET d == work[c].decision IN
    /\ work[c].req.name \in {"payroll-db", "customer-pii"} => {"ssn", "bank_account"} \subseteq d.obligations.mask
    /\ work[c].req.name # "wiki" => d.obligations.ttl \in 1 .. 3600

\* Authentication methods are ordered so that a policy can ask for "mfa or
\* better", and posture only ever adds: of two otherwise equal requests, the one
\* with the stronger authentication and the healthier device is granted whenever
\* the other is, first matches and denies notwithstanding.
BetterSignalsKeepAccess ==
  \A c, d \in Callers :
    /\ Granted(c)
    /\ HasAnswer(d)
    /\ [work[d].req EXCEPT !.auth = work[c].req.auth, !.posture = work[c].req.posture] = work[c].req
    /\ authStrength(work[d].req.auth) >= authStrength(work[c].req.auth)
    /\ work[c].req.posture \subseteq work[d].req.posture
    => Granted(d)
=============================================================================
