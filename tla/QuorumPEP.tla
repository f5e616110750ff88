------------------------------ MODULE QuorumPEP ------------------------------
(***************************************************************************)
(* pep.Quorum over the gateways of module Gateway: a goroutine, Judge,     *)
(* asks each member in turn with Gateway.Authorize, then reads the         *)
(* member's pinned key and build under the member's lock, a second time    *)
(* and not together with the request that was judged by them.  The other   *)
(* callers re-enroll members meanwhile; their own requests, which change   *)
(* nothing that a quorum reads, are left to Gateway.                       *)
(***************************************************************************)
EXTENDS Gateway, Sequences

CONSTANTS
  Members,    \* Quorum.members, a sequence of gateways
  Threshold,  \* Quorum.threshold
  Judge       \* the caller that runs Quorum.Authorize

\* NewQuorum refuses everything else.
ASSUME QuorumAssumption ==
  /\ Members \in Seq(Gateways)
  /\ Threshold \in 1..Len(Members)
  /\ Judge \in Callers

VARIABLE quorum \* the local variables of Quorum.Authorize

qvars == <<vars, quorum>>

Others == Callers \ {Judge}

QuorumCall ==
  [pc : {"idle", "member", "waiting"}, next : Nat, req : Requests, call : Nat,
   seen : Seq(Engines \cup {NoEngine}), concurring : Seq(Decision),
   builds : Seq(Measurements \cup Signers \cup {NoBuild}), answered : SUBSET Nat,
   disturbed : BOOLEAN,
   outcome : {"none", "agreed", "not_diverse", "dissent", "unavailable"}]

QTypeOK ==
  /\ TypeOK
  /\ quorum \in QuorumCall

NoQuorumCall ==
  [pc |-> "idle", next |-> 1, req |-> AnyRequest, call |-> 0, seen |-> <<>>,
   concurring |-> <<>>, builds |-> <<>>, answered |-> {}, disturbed |-> FALSE,
   outcome |-> "none"]

QInit == Init /\ quorum = NoQuorumCall

\* The call is over; what it collected is kept for the result.
Concluded(q, outcome) == [q EXCEPT !.pc = "idle", !.call = 0, !.outcome = outcome]

\* A slip: the threshold is to be exceeded.
ProceedStrict(q) ==
  IF q.next < Len(Members)
  THEN [q EXCEPT !.pc = "member", !.next = @ + 1]
  ELSE Concluded(q, IF Len(q.concurring) <= Threshold THEN "unavailable" ELSE "agreed")

\* The loop goes on with the next member, or ends with the threshold check.
Proceed(q) ==
  IF q.next < Len(Members)
  THEN [q EXCEPT !.pc = "member", !.next = @ + 1]
  ELSE Concluded(q, IF Len(q.concurring) < Threshold THEN "unavailable" ELSE "agreed")

\* Calls that the rest of the quorum call, or the next one, will need.
Reserved == Len(Members) - (IF quorum.pc = "idle" THEN 0
                            ELSE IF quorum.pc = "member" THEN quorum.next - 1 ELSE quorum.next)

BeginQuorum(r) ==
  /\ quorum.pc = "idle"
  /\ calls + Len(Members) <= MaxCalls
  /\ quorum' = [NoQuorumCall EXCEPT !.pc = "member", !.req = r]
  /\ UNCHANGED vars

AskMember ==
  /\ quorum.pc = "member"
  /\ BeginAuthorize(Judge, Members[quorum.next], quorum.req)
  /\ quorum' = [quorum EXCEPT !.pc = "waiting", !.call = calls + 1]

\* A slip: a member's key is noted before its error is looked at.
MemberAbstainsSeen ==
  LET key == gateway[Members[quorum.next]].key IN
  /\ quorum.pc = "waiting"
  /\ op[Judge].pc = "idle"
  /\ op[Judge].result # "accepted"
  /\ quorum' = IF \E n \in DOMAIN quorum.seen : quorum.seen[n] = key
               THEN Concluded(quorum, "not_diverse")
               ELSE Proceed([quorum EXCEPT !.seen = Append(@, key)])
  /\ UNCHANGED vars

\* A member whose Authorize returned an error does not vote.
MemberAbstains ==
  /\ quorum.pc = "waiting"
  /\ op[Judge].pc = "idle"
  /\ op[Judge].result # "accepted"
  /\ quorum' = Proceed(quorum)
  /\ UNCHANGED vars

\* The decision that the member's Authorize returned.
Vote == (CHOOSE a \in accepted : a.nonce = quorum.call).decision

\* Slips: dissent, or a key seen before, goes unnoticed.
CountedRegardless(q, d, key, build) ==
  IF \E n \in 1..Len(q.seen) : q.seen[n] = key
  THEN Concluded(q, "not_diverse")
  ELSE Proceed([q EXCEPT !.seen = Append(@, key), !.concurring = Append(@, d),
                         !.builds = Append(@, build)])
CountedTwice(q, d, key, build) ==
  IF q.concurring # <<>> /\ q.concurring[1].verdict # d.verdict
  THEN Concluded(q, "dissent")
  ELSE Proceed([q EXCEPT !.seen = Append(@, key), !.concurring = Append(@, d),
                         !.builds = Append(@, build)])

\* What becomes of a vote, given the member's key and build as read now.
Counted(q, d, key, build) ==
  IF \E n \in 1..Len(q.seen) : q.seen[n] = key
  THEN Concluded(q, "not_diverse")
  ELSE IF q.concurring # <<>> /\ q.concurring[1].verdict # d.verdict
  THEN Concluded(q, "dissent")
  ELSE Proceed([q EXCEPT !.seen = Append(@, key), !.concurring = Append(@, d),
                         !.builds = Append(@, build)])

MemberVotes ==
  LET g == Members[quorum.next] IN
  /\ quorum.pc = "waiting"
  /\ op[Judge].pc = "idle"
  /\ op[Judge].result = "accepted"
  /\ lock[g] = Nobody
  /\ quorum' = Counted([quorum EXCEPT !.answered = @ \cup {quorum.call}], Vote,
                       gateway[g].key, gateway[g].build)
  /\ UNCHANGED vars

\* A member's enrollment changes while the quorum is being collected.
Reenroll(c) ==
  /\ Pin(c) \/ Clear(c)
  /\ quorum' = [quorum EXCEPT !.disturbed = @ \/ quorum.pc # "idle"]

QNext ==
  \/ \E r \in Requests : BeginQuorum(r)
  \/ AskMember
  \/ (Snapshot(Judge) \/ CheckAge(Judge) \/ DecideAnswered(Judge)) /\ UNCHANGED quorum
  \/ MemberAbstains
  \/ MemberVotes
  \/ \E c \in Others :
       \/ /\ calls + Reserved < MaxCalls
          /\ \E g \in Gateways, s \in Engines : BeginTrust(c, g, s)
          /\ UNCHANGED quorum
       \/ (AttestAnswered(c) \/ LockGateway(c)) /\ UNCHANGED quorum
       \/ Reenroll(c)
  \/ Operator /\ UNCHANGED quorum
  \/ (Tick \/ SetClockBack) /\ UNCHANGED quorum

QSpec == QInit /\ [][QNext]_qvars

-----------------------------------------------------------------------------
(* What a quorum promises. *)

Agreed == quorum.pc = "idle" /\ quorum.outcome = "agreed"

\* A quorum that agreed has its threshold of decisions, each of a vouched engine and
\* one that its gateway may take for that engine's verdict on this request, and no
\* member that answered judged otherwise.
AgreementIsUnanimous ==
  Agreed =>
    /\ Len(quorum.concurring) >= Threshold
    /\ \A n \in 1..Len(quorum.concurring) :
         LET d == quorum.concurring[n] IN
         /\ Vouched(d.signer)
         /\ d.hash = HashOf[quorum.req] /\ d.verdict \in Judgements[d.signer][quorum.req]
    /\ \A a, b \in accepted :
         a.nonce \in quorum.answered /\ b.nonce \in quorum.answered
           => a.decision.verdict = b.decision.verdict

SignersDiffer ==
  \A m, n \in 1..Len(quorum.concurring) :
    quorum.concurring[m].signer = quorum.concurring[n].signer => m = n

BuildsMatch ==
  \A n \in 1..Len(quorum.concurring) :
    LET e == quorum.concurring[n].signer IN quorum.builds[n] \in {MeasurementOf[e], SignerOf[e]}

\* While no member is re-enrolled, no engine is counted twice, and each build that
\* is reported is that of the engine whose decision it accompanies.
UndisturbedAgreementIsDiverse ==
  Agreed /\ ~quorum.disturbed => SignersDiffer /\ BuildsMatch

\* While no member is re-enrolled, a quorum is refused for lack of diversity only
\* if one engine did answer for two members.
UndisturbedAlarmIsTrue ==
  quorum.outcome = "not_diverse" /\ ~quorum.disturbed =>
    \E a, b \in accepted :
      /\ a # b /\ a.nonce \in quorum.answered /\ b.nonce \in quorum.answered
      /\ a.key = b.key

\* A quorum never fails by its own bookkeeping, however members are re-enrolled
\* meanwhile: it reports dissent only if two members' verified answers to this
\* request differ, and no quorum only if all were asked and too few answered.
RefusalsAreJustified ==
  /\ quorum.outcome = "dissent" =>
       \E a, b \in accepted :
         /\ a.nonce \in quorum.answered /\ b.nonce \in quorum.answered
         /\ a.req = quorum.req /\ b.req = quorum.req
         /\ a.decision.verdict # b.decision.verdict
  /\ quorum.outcome = "unavailable" =>
       quorum.next = Len(Members) /\ Cardinality(quorum.answered) < Threshold

\* What QuorumResult says of Concurring: every decision is signed by a different
\* attested engine.
ConcurringSignersDiffer == Agreed => SignersDiffer
=============================================================================
