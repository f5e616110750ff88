------------------------------ MODULE MCPlatform ------------------------------
(* A small instance of Platform. *)
EXTENDS Platform

CONSTANTS h1, h2, p1, p2

\* Contents that imitate tags, lengths and each other's parts.
o == Octet(111)
z == Octet(0)
a == <<Octet(1)>>
b == <<Octet(2)>>
ab == a \o b

MCTexts   == {<<>>, <<z>>, <<o>>, <<z, z>>}
MCDomains == {<<>>, <<o>>}
MCNumbers == {0, 1, 256}
MCLists   == {<<>>, <<<<>>>>, <<<<>>, <<>>>>, <<<<z>>>>, <<<<o>>, <<>>>>}
MCDigests == {z, Sum(<<>>)}

\* Builds whose fields run together to one text, an upgrade and a tampered policy.
Image(signer, version, policy) == [signer |-> signer, engineVersion |-> version, policy |-> policy]
MCImages == {Image(a, b, a), Image(ab, <<>>, a), Image(<<>>, ab, a), Image(a, b \o a, <<>>),
             Image(a, a, a), Image(<<>>, a, b)}

MCTcb == [p \in Platforms |-> IF p = p1 THEN 1 ELSE 2]

Nonce(n) == [nonce |-> n]

Bare == [readOnly |-> FALSE, reauth |-> 0, ttl |-> 0, mask |-> <<>>]
Request == [id |-> a, roles |-> <<a>>, auth |-> b, managed |-> TRUE, patched |-> FALSE,
            encrypted |-> FALSE, name |-> b, sensitivity |-> 2, network |-> a]
Decision == [kind |-> "decision", allow |-> TRUE, ruleID |-> a, reason |-> b, policyVersion |-> a,
             obligations |-> Bare, request |-> Request, nonce |-> Nonce(1), signature |-> Nonce(9)]

Requests ==
  {Request, [Request EXCEPT !.id = ab], [Request EXCEPT !.id = <<>>, !.auth = ab],
   [Request EXCEPT !.managed = FALSE, !.patched = TRUE], [Request EXCEPT !.encrypted = TRUE],
   [Request EXCEPT !.name = a, !.network = b], [Request EXCEPT !.sensitivity = 0]}
  \cup {[Request EXCEPT !.roles = l] : l \in {<<>>, <<<<>>>>, <<a, b>>, <<b, a, b>>, <<ab>>, <<a, a>>}}
Obligations ==
  {Bare, [Bare EXCEPT !.readOnly = TRUE], [Bare EXCEPT !.ttl = 1], [Bare EXCEPT !.reauth = 1]}
  \cup {[Bare EXCEPT !.mask = l] : l \in {<<a, b>>, <<b, a>>, <<ab>>, <<a>>}}
Decisions ==
  {[Decision EXCEPT !.request = r] : r \in Requests}
  \cup {[Decision EXCEPT !.obligations = g] : g \in Obligations}
  \cup {[Decision EXCEPT !.allow = v, !.nonce = Nonce(n)] : v \in BOOLEAN, n \in {1, 2}}
  \cup {[Decision EXCEPT !.ruleID = i, !.reason = r, !.policyVersion = v] :
          i \in {<<>>, a, ab}, r \in {<<>>, b, ab}, v \in {a, ab}}

Entry == [seq |-> 1, prevHash |-> z, decision |-> Decision]
Entries ==
  {[Entry EXCEPT !.decision = d] :
     d \in Decisions \cup {[Decision EXCEPT !.signature = Nonce(8)]}}
  \cup {[Entry EXCEPT !.seq = 2], [Entry EXCEPT !.prevHash = ComputeHash(Entry)]}
Checkpoint == [kind |-> "checkpoint", policyVersion |-> a, count |-> 1, last |-> Entry, counter |-> 1]
MCStatements ==
  Decisions
  \cup {[Checkpoint EXCEPT !.last = e] : e \in Entries}
  \cup {[Checkpoint EXCEPT !.count = n, !.counter = m, !.policyVersion = v] :
          n \in {1, 2}, m \in {1, 2}, v \in {a, <<>>}}
  \cup {[kind |-> "quote", image |-> i, tcb |-> t, pub |-> k, nonce |-> Nonce(n)] :
          i \in MCImages, t \in {1, 2}, k \in {a, b}, n \in {1, 2}}

\* Hashing, counting, sealing and signing share no state but the running enclaves:
\* each is taken to its own bound, and then all of them a little together.
Budget(f, r, i, n, g) == [fields |-> f, running |-> r, increments |-> i, blobs |-> n, signed |-> g]
MCBudgets == {Budget(5, 0, 0, 0, 0), Budget(0, 2, 2, 0, 0), Budget(0, 2, 0, 2, 0),
              Budget(0, 1, 0, 0, 1), Budget(1, 1, 1, 1, 0)}

Interchangeable == Permutations(Hashers)
=============================================================================
