----------------------------- MODULE Enforcement -----------------------------
(***************************************************************************)
(* What a fleet of enforcement points promises, without quotes, channels,  *)
(* locks or clocks: a request is put to the one engine that its gateway    *)
(* trusts at that moment, and if it is honoured, then with a judgement of  *)
(* that engine that can pass for one on that request, once.                *)
(***************************************************************************)
EXTENDS Naturals

CONSTANTS
  Gateways, Engines, Requests, Verdicts,
  NoEngine,   \* what a gateway trusts that trusts nobody
  Judgements  \* [Engines -> [Requests -> SUBSET Verdicts]]: what a gateway may take for
              \* the engine's verdict on the request

VARIABLES
  vouched,   \* engines whose build and platform the operators vouch for
  trusted,   \* per gateway: the engine it trusts
  pending,   \* questions that were put to an engine
  honoured   \* questions that were answered, each with its verdict

vars == <<vouched, trusted, pending, honoured>>

Question == [gw : Gateways, req : Requests, nonce : Nat, judge : Engines]

\* A question as it is honoured: with a verdict.
Judged(q, v) ==
  [gw |-> q.gw, req |-> q.req, nonce |-> q.nonce, judge |-> q.judge, verdict |-> v]

Init ==
  /\ vouched = {}
  /\ trusted = [g \in Gateways |-> NoEngine]
  /\ pending = {}
  /\ honoured = {}

\* Operators may come to vouch for more engines, never for fewer.
Vouch ==
  /\ UNCHANGED <<trusted, pending, honoured>>
  /\ vouched \subseteq vouched' /\ vouched' \subseteq Engines

\* A gateway comes to trust a vouched engine, or nobody.
Trust(g, e) ==
  /\ e \in vouched \cup {NoEngine}
  /\ trusted' = [trusted EXCEPT ![g] = e]
  /\ UNCHANGED <<vouched, pending, honoured>>

\* A question is put to the engine trusted now, under a nonce of its own.
Ask(q) ==
  /\ q.judge = trusted[q.gw]
  /\ \A p \in pending \cup honoured : p.nonce # q.nonce
  /\ pending' = pending \cup {q}
  /\ UNCHANGED <<vouched, trusted, honoured>>

Honour(q) ==
  /\ pending' = pending \ {q}
  /\ \E v \in Judgements[q.judge][q.req] : honoured' = honoured \cup {Judged(q, v)}
  /\ UNCHANGED <<vouched, trusted>>

Refuse(q) ==
  /\ pending' = pending \ {q}
  /\ UNCHANGED <<vouched, trusted, honoured>>

Next ==
  \/ Vouch
  \/ \E g \in Gateways, e \in Engines \cup {NoEngine} : Trust(g, e)
  \/ \E q \in pending' \ pending : q \in Question /\ Ask(q)
  \/ \E q \in pending : Honour(q) \/ Refuse(q)

Spec == Init /\ [][Next]_vars
=============================================================================
