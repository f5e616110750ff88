------------------------------ MODULE MCShipped ------------------------------
(* The audited service: the endorsed policy asked by two callers at once, and,  *)
(* one decision each, every policy of up to three rule templates and every      *)
(* single defect of a rule or a bundle.  Requests vary the signals that rules   *)
(* look at, are written differently with one hash, or are malformed.            *)
EXTENDS AuditedPDP, EndorsedPolicy, SequencesExt

MCTooLong == "<over 256 bytes>"
MCNames   == {"release-eng", "support", "signing-service", "payroll-db", "customer-pii", "wiki",
              "2026.08.1", "ssn", "bank_account", "date_of_birth"}
             \cup {Endorsed.rules[k].id : k \in DOMAIN Endorsed.rules}

AllowAll     == Bare("payroll-db", "allow", <<"*">>)
AllowManaged == [Bare("support", "allow", <<"customer-pii">>) EXCEPT
                   !.when.minAuth = "mfa", !.when.posture = {"managed"}, !.obligations.ttl = 60]
AllowSupport == [Bare("release-eng", "allow", <<"wiki", "customer-pii">>) EXCEPT
                   !.when.roles = <<"support">>, !.obligations.readOnly = TRUE]
DenyPublic   == [Bare("ssn", "deny", <<"*">>) EXCEPT !.min = 3, !.when.networks = <<"public">>]
DenySupport  == [Bare("payroll-db", "deny", <<"*">>) EXCEPT
                   !.max = 2, !.when.roles = <<"support", "ssn">>]
DenyMiddle   == [Bare("support", "deny", <<"*">>) EXCEPT !.min = 3, !.max = 2]

\* Every defect of a single rule.
Defective ==
  {[AllowAll EXCEPT !.id = s] : s \in {"", MCTooLong, InvalidRequestRuleID}}
  \cup {[AllowAll EXCEPT !.effect = "permit"], [DenyPublic EXCEPT !.obligations.ttl = 60],
        [AllowManaged EXCEPT !.obligations.ttl = -1], [AllowAll EXCEPT !.obligations.reauth = -1]}
  \cup {[AllowAll EXCEPT !.resources = l] :
          l \in {<<>>, <<"">>, <<MCTooLong>>, <<"wiki", "ssn", "support">>}}
  \cup {[AllowAll EXCEPT !.when.networks = l] : l \in {<<"guest">>, <<"corp", "vpn", "public">>}}
  \cup {[AllowAll EXCEPT !.when.roles = l] : l \in {<<"">>, <<"wiki", "ssn", "support">>}}
  \cup {[AllowAll EXCEPT !.when.minAuth = "telepathy"], [AllowAll EXCEPT !.min = 5],
        [AllowAll EXCEPT !.max = -1]}

MCBundles ==
  {[version |-> "wiki", rules |-> rules] :
     rules \in SeqOf({AllowAll, AllowManaged, AllowSupport, DenyPublic, DenySupport, DenyMiddle}, 3)}
  \cup {[version |-> "wiki", rules |-> <<r>>] : r \in Defective}
  \cup {[Endorsed EXCEPT !.version = v] : v \in {"", MCTooLong}}
  \cup {[Endorsed EXCEPT !.rules = Append(@, AllowAll)], Endorsed, Unparsable}

MCMaxDecisions == [b \in MCBundles |-> IF b = Endorsed THEN 2 ELSE 1]

Carol == [id |-> "support", roles |-> <<"support">>, auth |-> "mfa", posture |-> {"managed"},
          name |-> "customer-pii", sensitivity |-> 3, network |-> "vpn"]
Alice == [Carol EXCEPT !.roles = <<"release-eng", "support">>, !.auth = "hardware-key",
                       !.posture = Posture, !.name = "signing-service", !.sensitivity = 4,
                       !.network = "corp"]

MCRequests ==
  {[Carol EXCEPT !.auth = m, !.posture = p] :
     m \in {"password", "mfa", "hardware-key"},
     p \in {{}, {"managed"}, {"patched"}, {"managed", "patched"}}}
  \cup {[Carol EXCEPT !.sensitivity = s, !.network = z] : s \in {0, 2}, z \in {"public", "guest"}}
  \cup {[Carol EXCEPT !.roles = l] : l \in {<<>>, <<"support", "support">>, <<"">>, <<MCTooLong>>,
                                           <<"wiki", "support", "ssn">>}}
  \cup {[Alice EXCEPT !.roles = l, !.auth = m] :
          l \in {<<"release-eng", "support">>, <<"support", "release-eng">>},
          m \in {"mfa", "hardware-key"}}
  \cup {[Carol EXCEPT !.name = "wiki", !.sensitivity = s, !.network = z] :
          s \in {0, 1, 3}, z \in {"public", "guest", "corp"}}
  \cup {[Carol EXCEPT !.name = "payroll-db", !.network = z] : z \in {"public", "vpn"}}
  \cup {[Carol EXCEPT !.name = n] : n \in {"", MCTooLong}}
  \cup {[Carol EXCEPT !.id = s] : s \in {"", MCTooLong}}
  \cup {[Carol EXCEPT !.sensitivity = 5], [Carol EXCEPT !.auth = "telepathy"]}
=============================================================================
