----------------------------- MODULE QuorumProofs -----------------------------
(***************************************************************************)
(* Theorems about QuorumPEP, for any members, any threshold, any number of *)
(* gateways and of callers that re-enroll them.                            *)
(*                                                                         *)
(* The quorum's steps are steps of the gateways, so what GatewayProofs     *)
(* shows of accepted decisions is at hand.  The invariant adds what the    *)
(* loop knows of the votes behind it, and what the member that it waits    *)
(* for is about to answer: a decision under the quorum's own nonce, and,   *)
(* while nobody re-enrolls members, by the key that is pinned now.         *)
(***************************************************************************)
EXTENDS QuorumPEP, GatewayProofs, FiniteSetTheorems

\* What a counted vote d on the request r is: a vouched engine's, on r's hash, and a
\* judgement that can pass for that engine's on r.
Counts(d, r) ==
  Vouched(d.signer) /\ d.hash = HashOf[r] /\ d.verdict \in Judgements[d.signer][r]

\* Every vote counts, and whoever answered agrees with the first.
Collected(q) ==
  /\ \A n \in 1 .. Len(q.concurring) : Counts(q.concurring[n], q.req)
  /\ \A a \in accepted : a.nonce \in q.answered =>
       Len(q.concurring) > 0 /\ a.decision.verdict = q.concurring[1].verdict

\* A key and a build for each counted vote, no key twice; answers lie in the past.
Paired(q) ==
  /\ q.next \in 1 .. Len(Members)
  /\ Len(q.seen) = Len(q.concurring) /\ Len(q.builds) = Len(q.concurring)
  /\ \A m, n \in 1 .. Len(q.seen) : q.seen[m] = q.seen[n] => m = n
  /\ q.answered \subseteq 1 .. calls

AnsweredTwice(q) ==
  \E a, b \in accepted : a # b /\ a.nonce \in q.answered /\ b.nonce \in q.answered /\ a.key = b.key

\* While nobody re-enrolls members, the key that was read is the one that judged.
Undisturbed(q) ==
  ~q.disturbed =>
    /\ \A n \in 1 .. Len(q.seen) :
         /\ q.seen[n] = q.concurring[n].signer
         /\ q.builds[n] \in {MeasurementOf[q.seen[n]], SignerOf[q.seen[n]]}
         /\ \E a \in accepted : a.nonce \in q.answered /\ a.key = q.seen[n]
    /\ q.outcome = "not_diverse" => AnsweredTwice(q)

\* The call p that the loop waits for, and the answer it has given.
Awaited(q, p) ==
  /\ q.call \in 1 .. calls /\ q.call \notin q.answered
  /\ p.gw = Members[q.next] /\ p.req = q.req
  /\ p.pc \in {"idle", "calling", "snapshot", "asked"}
  /\ p.pc # "idle" => p.nonce = q.call
  /\ Asking(p) /\ ~q.disturbed => p.enrollment.key = gateway[p.gw].key
  /\ p.pc = "idle" /\ p.result = "accepted" =>
       \E a \in accepted :
         /\ a.nonce = q.call /\ a.req = q.req
         /\ ~q.disturbed => a.key = gateway[p.gw].key

VouchedAccepted == \A a \in accepted : Vouched(a.key)

QuorumKnows(q) ==
  /\ q \in QuorumCall
  /\ q.pc # "idle" \/ q.outcome = "agreed" => Collected(q)
  /\ q.pc = "idle" /\ q.outcome = "agreed" => Len(q.concurring) >= Threshold
  /\ Paired(q)
  /\ Undisturbed(q)

QuorumInv ==
  /\ GatewayInv
  /\ VouchedAccepted
  /\ QuorumKnows(quorum)
  /\ IF quorum.pc = "waiting" THEN Awaited(quorum, op[Judge]) ELSE op[Judge].pc = "idle"

-----------------------------------------------------------------------------

LEMMA MembersType ==
  /\ Members \in Seq(Gateways) /\ Len(Members) \in Nat
  /\ \A n \in 1 .. Len(Members) : Members[n] \in Gateways
  /\ 1 \in 1 .. Len(Members) /\ Threshold \in Nat \ {0}
  BY QuorumAssumption

\* A step of the quorum is a step of the gateways, or they rest.
LEMMA QuorumStepRefines == ASSUME QuorumInv, QNext PROVE [Next]_vars
  <1>1. CASE AskMember
    <2>1. Members[quorum.next] \in Gateways /\ quorum.req \in Requests
      BY MembersType DEF QuorumInv, QuorumKnows, Paired, QuorumCall
    <2> QED  BY <1>1, <2>1, QuorumAssumption DEF AskMember, Authorize, Next
  <1>2. CASE Snapshot(Judge) \/ CheckAge(Judge) \/ DecideAnswered(Judge)
    BY <1>2, QuorumAssumption DEF Authorize, Next
  <1>3. ASSUME NEW c \in Others,
               \/ \E g \in Gateways, s \in Engines : BeginTrust(c, g, s)
               \/ AttestAnswered(c) \/ LockGateway(c) \/ Reenroll(c)
        PROVE  Next
    BY <1>3 DEF Trust, Reenroll, Others, Next
  <1>4. CASE Operator \/ Tick \/ SetClockBack
    BY <1>4 DEF Next
  <1>5. CASE MemberAbstains \/ MemberVotes \/ \E r \in Requests : BeginQuorum(r)
    BY <1>5 DEF MemberAbstains, MemberVotes, BeginQuorum
  <1> QED  BY <1>1, <1>2, <1>3, <1>4, <1>5 DEF QNext

LEMMA NoQuorumCallType ==
  /\ NoQuorumCall \in QuorumCall
  /\ NoQuorumCall.pc = "idle" /\ NoQuorumCall.next = 1 /\ NoQuorumCall.outcome = "none"
  /\ NoQuorumCall.seen = <<>> /\ NoQuorumCall.concurring = <<>> /\ NoQuorumCall.builds = <<>>
  /\ NoQuorumCall.answered = {}
  <1>1. AnyRequest \in Requests
    BY CallsAssumption DEF AnyRequest
  <1> QED  BY <1>1 DEF NoQuorumCall, QuorumCall

\* Before the first vote there is nothing to know.
LEMMA NothingCollected ==
  ASSUME NEW q \in QuorumCall, q.next = 1, q.seen = <<>>, q.concurring = <<>>, q.builds = <<>>,
         q.answered = {}, q.outcome = "none"
  PROVE  QuorumKnows(q)
  <1>1. Len(q.seen) = 0 /\ Len(q.concurring) = 0 /\ Len(q.builds) = 0
    OBVIOUS
  <1>2. Collected(q) /\ Undisturbed(q)
    BY <1>1 DEF Collected, Undisturbed
  <1>3. Paired(q)
    BY <1>1, MembersType DEF Paired
  <1> QED  BY <1>2, <1>3 DEF QuorumKnows

LEMMA QuorumInit == QInit => QuorumInv
  <1> SUFFICES ASSUME QInit PROVE QuorumInv
    OBVIOUS
  <1>1. GatewayInv
    BY GatewayInit DEF QInit
  <1>2. op[Judge].pc = "idle" /\ accepted = {}
    BY QuorumAssumption DEF QInit, Init, Started
  <1>3. QuorumKnows(quorum) /\ quorum.pc = "idle"
    BY NoQuorumCallType, NothingCollected DEF QInit
  <1> QED  BY <1>1, <1>2, <1>3 DEF QuorumInv, VouchedAccepted

-----------------------------------------------------------------------------
(* What the gateways' steps leave true of the votes. *)

LEMMA GatewayGrows ==
  ASSUME GatewayInv, [Next]_vars
  PROVE  /\ calls \in Nat /\ calls' \in Nat /\ calls <= calls'
         /\ \A e : Vouched(e) => Vouched(e)'
  <1>1. CASE UNCHANGED vars
    BY <1>1, Parts DEF vars, Vouched
  <1>2. ASSUME NEW c \in Callers, Trust(c)
        PROVE  calls' \in {calls, calls + 1} /\ verifier' = verifier
    BY <1>2 DEF Trust, BeginTrust, AttestAnswered, LockGateway, Pin, Clear
  <1>3. ASSUME NEW c \in Callers, Authorize(c)
        PROVE  calls' \in {calls, calls + 1} /\ verifier' = verifier
    BY <1>3 DEF Authorize, BeginAuthorize, Snapshot, CheckAge, DecideAnswered, ReturnIfBound
  <1>4. CASE Operator
    BY <1>4, Parts DEF Operator, Endorse, EndorseSigner, Revoke, Vouched, VerifierStates
  <1>5. CASE Tick \/ SetClockBack
    BY <1>5, Parts DEF Tick, SetClockBack, Vouched
  <1>6. calls \in Nat
    BY Parts
  <1>7. CASE \E c \in Callers : Trust(c) \/ Authorize(c)
    BY <1>2, <1>3, <1>6, <1>7 DEF Vouched
  <1> QED  BY <1>1, <1>4, <1>5, <1>7 DEF Next

\* Votes stay votes if no answer is added to them.
LEMMA KnowsStays ==
  ASSUME GatewayInv, [Next]_vars, NEW q, QuorumKnows(q), accepted \subseteq accepted',
         \A a \in accepted' : a.nonce \in q.answered => a \in accepted
  PROVE  QuorumKnows(q)'
  <1>1. Paired(q)'
    BY GatewayGrows DEF QuorumKnows, Paired
  <1>2. Collected(q) => Collected(q)'
    BY GatewayGrows DEF Collected, Counts
  <1>3. Undisturbed(q)'
    BY DEF QuorumKnows, Undisturbed, AnsweredTwice
  <1> QED  BY <1>1, <1>2, <1>3 DEF QuorumKnows

\* A step that neither Judge nor its quorum takes.
LEMMA OthersKeep ==
  ASSUME QuorumInv, [Next]_vars, GatewayInv', UNCHANGED <<accepted, quorum>>, op'[Judge] = op[Judge],
         gateway' = gateway \/ quorum.disturbed \/ quorum.pc # "waiting"
  PROVE  QuorumInv'
  <1>1. VouchedAccepted'
    BY GatewayGrows DEF QuorumInv, VouchedAccepted
  <1>2. QuorumKnows(quorum)'
    BY KnowsStays DEF QuorumInv
  <1>3. ASSUME quorum.pc = "waiting" PROVE Awaited(quorum, op[Judge])'
    BY <1>3, GatewayGrows DEF QuorumInv, Awaited
  <1> QED  BY <1>1, <1>2, <1>3 DEF QuorumInv

\* A member is re-enrolled: from now on the quorum is disturbed, if one is running.
LEMMA ReenrollKeeps ==
  ASSUME QuorumInv, [Next]_vars, GatewayInv', NEW c \in Others, Reenroll(c)
  PROVE  QuorumInv'
  <1> DEFINE w == [quorum EXCEPT !.disturbed = @ \/ quorum.pc # "idle"]
  <1>1. quorum \in QuorumCall /\ op'[Judge] = op[Judge] /\ UNCHANGED accepted /\ quorum' = w
    <2>1. op \in [Callers -> Call] /\ Judge \in Callers /\ c # Judge
      BY QuorumAssumption DEF QuorumInv, GatewayInv, TypeOK, Others
    <2>2. op'[Judge] = op[Judge] /\ UNCHANGED accepted
      BY <2>1 DEF Reenroll, Pin, Clear
    <2> QED  BY <2>2 DEF Reenroll, QuorumInv, QuorumKnows
  <1>2. /\ w \in QuorumCall /\ w.pc = quorum.pc /\ w.next = quorum.next /\ w.req = quorum.req
        /\ w.call = quorum.call /\ w.seen = quorum.seen /\ w.concurring = quorum.concurring
        /\ w.builds = quorum.builds /\ w.answered = quorum.answered /\ w.outcome = quorum.outcome
        /\ quorum.pc # "idle" => w.disturbed
        /\ quorum.pc = "idle" => w.disturbed = quorum.disturbed
    BY <1>1 DEF QuorumCall
  <1> HIDE DEF w
  <1>3. QuorumKnows(w)
    <2>1. Collected(quorum) => Collected(w)
      BY <1>2 DEF Collected, Counts
    <2>2. Paired(w)
      BY <1>2 DEF QuorumInv, QuorumKnows, Paired
    <2>3. Undisturbed(w)
      BY <1>2 DEF QuorumInv, QuorumKnows, Undisturbed, AnsweredTwice
    <2> QED  BY <1>2, <2>1, <2>2, <2>3 DEF QuorumInv, QuorumKnows
  <1>4. QuorumKnows(quorum)'
    BY <1>1, <1>3, KnowsStays DEF QuorumInv
  <1>5. ASSUME quorum.pc = "waiting" PROVE Awaited(quorum, op[Judge])'
    BY <1>1, <1>2, <1>5, GatewayGrows DEF QuorumInv, Awaited
  <1>6. VouchedAccepted'
    BY <1>1, GatewayGrows DEF QuorumInv, VouchedAccepted
  <1> QED  BY <1>1, <1>2, <1>4, <1>5, <1>6 DEF QuorumInv

-----------------------------------------------------------------------------
(* The quorum's own steps. *)

LEMMA BeginQuorumKeeps ==
  ASSUME QuorumInv, GatewayInv', NEW r \in Requests, BeginQuorum(r)
  PROVE  QuorumInv'
  <1> DEFINE w == [NoQuorumCall EXCEPT !.pc = "member", !.req = r]
  <1>1. /\ w \in QuorumCall /\ w.pc = "member" /\ w.next = 1 /\ w.seen = <<>> /\ w.concurring = <<>>
        /\ w.builds = <<>> /\ w.answered = {} /\ w.outcome = "none"
    BY NoQuorumCallType DEF QuorumCall
  <1>2. quorum' = w /\ UNCHANGED vars /\ op[Judge].pc = "idle"
    BY DEF BeginQuorum, QuorumInv
  <1> HIDE DEF w
  <1>3. QuorumKnows(w)
    BY <1>1, NothingCollected
  <1>4. QuorumKnows(quorum)'
    BY <1>2, <1>3, KnowsStays DEF vars, QuorumInv
  <1>5. VouchedAccepted'
    BY <1>2 DEF vars, QuorumInv, VouchedAccepted, Vouched
  <1> QED  BY <1>1, <1>2, <1>4, <1>5 DEF QuorumInv, vars

\* The next member is asked, under a nonce that nobody has answered.
LEMMA AskMemberKeeps ==
  ASSUME QuorumInv, [Next]_vars, GatewayInv', AskMember
  PROVE  QuorumInv'
  <1> DEFINE w == [quorum EXCEPT !.pc = "waiting", !.call = calls + 1]
             p == Started("calling", Members[quorum.next], calls + 1, quorum.req, NoEnrollment)
  <1>1. quorum \in QuorumCall /\ quorum.pc = "member" /\ calls \in Nat /\ calls' = calls + 1
    BY Parts DEF QuorumInv, QuorumKnows, AskMember, BeginAuthorize
  <1>2. /\ w \in QuorumCall /\ w.pc = "waiting" /\ w.next = quorum.next /\ w.req = quorum.req
        /\ w.call = calls + 1 /\ w.seen = quorum.seen /\ w.concurring = quorum.concurring
        /\ w.builds = quorum.builds /\ w.answered = quorum.answered /\ w.outcome = quorum.outcome
        /\ w.disturbed = quorum.disturbed
    <2>1. calls + 1 \in Nat
      BY <1>1
    <2>2. w \in QuorumCall
      BY <1>1, <2>1, Zenon DEF QuorumCall
    <2> QED  BY <1>1, <2>2 DEF QuorumCall
  <1>3. op'[Judge] = p /\ quorum' = w /\ UNCHANGED accepted
    BY QuorumAssumption DEF AskMember, BeginAuthorize, QuorumInv, GatewayInv, TypeOK
  <1>4. p.pc = "calling" /\ p.gw = Members[w.next] /\ p.req = w.req /\ p.nonce = w.call
    BY <1>2 DEF Started
  <1> HIDE DEF w, p
  <1>5. QuorumKnows(w)
    <2>1. Collected(w)
      BY <1>1, <1>2 DEF QuorumInv, QuorumKnows, Collected
    <2>2. Paired(w)
      BY <1>2 DEF QuorumInv, QuorumKnows, Paired
    <2>3. Undisturbed(w)
      BY <1>2 DEF QuorumInv, QuorumKnows, Undisturbed, AnsweredTwice
    <2> QED  BY <1>2, <2>1, <2>2, <2>3 DEF QuorumKnows
  <1>6. QuorumKnows(quorum)'
    BY <1>3, <1>5, KnowsStays DEF QuorumInv
  <1>7. Awaited(quorum, op[Judge])'
    <2>1. w.call \in 1 .. calls' /\ w.call \notin w.answered
      BY <1>1, <1>2 DEF QuorumInv, QuorumKnows, Paired
    <2> QED  BY <1>3, <1>4, <2>1 DEF Awaited, Asking
  <1>8. VouchedAccepted'
    BY <1>3, GatewayGrows DEF QuorumInv, VouchedAccepted
  <1> QED  BY <1>2, <1>3, <1>6, <1>7, <1>8 DEF QuorumInv

\* What is left of the loop after a member: the next member, or the threshold.
LEMMA ProceedIs ==
  ASSUME NEW q \in QuorumCall, q.next \in 1 .. Len(Members), q.pc = "waiting"
  PROVE  /\ Proceed(q) \in QuorumCall
         /\ Proceed(q).seen = q.seen /\ Proceed(q).concurring = q.concurring
         /\ Proceed(q).builds = q.builds /\ Proceed(q).answered = q.answered
         /\ Proceed(q).req = q.req /\ Proceed(q).disturbed = q.disturbed
         /\ Proceed(q).next \in 1 .. Len(Members)
         /\ \/ Proceed(q).pc = "member" /\ Proceed(q).outcome = q.outcome
            \/ Proceed(q).pc = "idle" /\ Proceed(q).outcome = "unavailable"
            \/ Proceed(q).pc = "idle" /\ Proceed(q).outcome = "agreed" /\ Len(q.concurring) >= Threshold
  <1>1. Len(Members) \in Nat /\ Len(q.concurring) \in Nat /\ Threshold \in Nat
    BY MembersType DEF QuorumCall
  <1>2. CASE q.next < Len(Members)
    <2>1. Proceed(q) = [q EXCEPT !.pc = "member", !.next = q.next + 1]
      BY <1>2 DEF Proceed
    <2>2. q.next + 1 \in Nat /\ q.next + 1 \in 1 .. Len(Members)
      BY <1>1, <1>2
    <2> QED  BY <2>1, <2>2 DEF QuorumCall
  <1>3. ASSUME NEW o \in {"unavailable", "agreed"}
        PROVE  /\ Concluded(q, o) \in QuorumCall
               /\ Concluded(q, o).seen = q.seen /\ Concluded(q, o).concurring = q.concurring
               /\ Concluded(q, o).builds = q.builds /\ Concluded(q, o).answered = q.answered
               /\ Concluded(q, o).req = q.req /\ Concluded(q, o).disturbed = q.disturbed
               /\ Concluded(q, o).next = q.next
               /\ Concluded(q, o).pc = "idle" /\ Concluded(q, o).outcome = o
    BY DEF Concluded, QuorumCall
  <1>4. CASE ~(q.next < Len(Members)) /\ Len(q.concurring) < Threshold
    <2>1. Proceed(q) = Concluded(q, "unavailable")
      BY <1>4 DEF Proceed
    <2> QED  BY <1>3, <2>1
  <1>5. CASE ~(q.next < Len(Members)) /\ ~(Len(q.concurring) < Threshold)
    <2>1. Proceed(q) = Concluded(q, "agreed")
      BY <1>5 DEF Proceed
    <2> QED  BY <1>1, <1>3, <1>5, <2>1
  <1> QED  BY <1>2, <1>4, <1>5

\* The loop goes on after a member without anything to forget.
LEMMA ProceedKnows ==
  ASSUME NEW q, QuorumKnows(q), q.pc = "waiting"
  PROVE  QuorumKnows(Proceed(q)) /\ Proceed(q).pc # "waiting"
  <1> DEFINE w == Proceed(q)
  <1>1. /\ w \in QuorumCall
        /\ w.seen = q.seen /\ w.concurring = q.concurring
        /\ w.builds = q.builds /\ w.answered = q.answered
        /\ w.req = q.req /\ w.disturbed = q.disturbed
        /\ w.next \in 1 .. Len(Members)
        /\ \/ w.pc = "member" /\ w.outcome = q.outcome
           \/ w.pc = "idle" /\ w.outcome = "unavailable"
           \/ w.pc = "idle" /\ w.outcome = "agreed" /\ Len(q.concurring) >= Threshold
    BY ProceedIs DEF QuorumKnows, Paired
  <1>3. Proceed(q) = w
    OBVIOUS
  <1> HIDE DEF w
  <1>2. Collected(w)
    BY <1>1 DEF QuorumKnows, Collected
  <1>4. Paired(w)
    BY <1>1 DEF QuorumKnows, Paired
  <1>5. Undisturbed(w)
    BY <1>1 DEF QuorumKnows, Undisturbed, AnsweredTwice
  <1> QED  BY <1>1, <1>2, <1>3, <1>4, <1>5 DEF QuorumKnows

LEMMA MemberAbstainsKeeps ==
  ASSUME QuorumInv, GatewayInv', MemberAbstains
  PROVE  QuorumInv'
  <1>1. quorum.pc = "waiting" /\ op[Judge].pc = "idle" /\ quorum' = Proceed(quorum) /\ UNCHANGED vars
    BY DEF MemberAbstains
  <1>2. QuorumKnows(Proceed(quorum)) /\ Proceed(quorum).pc # "waiting"
    BY <1>1, ProceedKnows DEF QuorumInv
  <1>3. QuorumKnows(quorum)'
    BY <1>1, <1>2, KnowsStays DEF vars, QuorumInv
  <1>4. VouchedAccepted'
    BY <1>1 DEF vars, QuorumInv, VouchedAccepted, Vouched
  <1> QED  BY <1>1, <1>2, <1>3, <1>4 DEF QuorumInv, vars

-----------------------------------------------------------------------------
(* The member's Authorize. *)

LEMMA ReturnedIs ==
  ASSUME NEW p \in Call, NEW r
  PROVE  /\ Returned(p, r).pc = "idle" /\ Returned(p, r).result = r
         /\ Returned(p, r).gw = p.gw /\ Returned(p, r).req = p.req
  BY DEF Returned, Call

\* While Judge is in a call, the loop waits for it.
LEMMA JudgeWaits ==
  ASSUME QuorumInv, op[Judge].pc # "idle"
  PROVE  /\ quorum.pc = "waiting" /\ Awaited(quorum, op[Judge])
         /\ Judge \in Callers /\ op \in [Callers -> Call] /\ op[Judge] \in Call
         /\ op[Judge].enrollment \in Enrollment
         /\ Known(op[Judge], verifier, calls, clock, elapsed)
  BY Parts, QuorumAssumption DEF QuorumInv, GatewayInv, TypeOK

LEMMA MemberSnapshotKeeps ==
  ASSUME QuorumInv, [Next]_vars, GatewayInv', Snapshot(Judge), UNCHANGED quorum
  PROVE  QuorumInv'
  <1> DEFINE p == op[Judge]
             w == [p EXCEPT !.pc = "snapshot", !.enrollment = gateway[p.gw]]
  <1>1. /\ quorum.pc = "waiting" /\ Awaited(quorum, p)
        /\ Judge \in Callers /\ op \in [Callers -> Call] /\ p \in Call
    BY JudgeWaits DEF Snapshot
  <1>2. UNCHANGED <<gateway, calls, accepted>>
    BY DEF Snapshot
  <1>3. op'[Judge] \in {Returned(p, "no_pdp"), w}
    BY <1>1 DEF Snapshot
  <1>4. w.pc = "snapshot" /\ w.gw = p.gw /\ w.req = p.req /\ w.nonce = p.nonce
        /\ w.enrollment = gateway[p.gw] /\ p.pc # "idle"
    BY <1>1 DEF Call, Snapshot
  <1> HIDE DEF w
  <1>5. Awaited(quorum, op[Judge])'
    BY <1>1, <1>2, <1>3, <1>4, ReturnedIs DEF Awaited, Asking
  <1>6. QuorumKnows(quorum)' /\ VouchedAccepted'
    BY <1>2, KnowsStays, GatewayGrows DEF QuorumInv, VouchedAccepted
  <1> QED  BY <1>1, <1>5, <1>6 DEF QuorumInv

LEMMA MemberCheckAgeKeeps ==
  ASSUME QuorumInv, [Next]_vars, GatewayInv', CheckAge(Judge), UNCHANGED quorum
  PROVE  QuorumInv'
  <1> DEFINE p == op[Judge]
             x == [p EXCEPT !.heldFor = elapsed - p.enrollment.pinnedTick]
             w == [x EXCEPT !.pc = "asked"]
  <1>1. /\ quorum.pc = "waiting" /\ Awaited(quorum, p)
        /\ Judge \in Callers /\ op \in [Callers -> Call] /\ p \in Call
        /\ p.pc = "snapshot"
    BY JudgeWaits DEF CheckAge
  <1>2. UNCHANGED <<gateway, calls, accepted>>
    BY DEF CheckAge
  <1>3. op'[Judge] \in {Returned(x, "expired"), w}
    BY <1>1 DEF CheckAge
  <1>4. /\ w.pc = "asked" /\ w.gw = p.gw /\ w.req = p.req /\ w.nonce = p.nonce
        /\ w.enrollment = p.enrollment
        /\ Returned(x, "expired").pc = "idle" /\ Returned(x, "expired").result = "expired"
        /\ Returned(x, "expired").gw = p.gw /\ Returned(x, "expired").req = p.req
    BY <1>1 DEF Call, Returned
  <1> HIDE DEF w, x
  <1>5. Awaited(quorum, op[Judge])'
    BY <1>1, <1>2, <1>3, <1>4 DEF Awaited, Asking
  <1>6. QuorumKnows(quorum)' /\ VouchedAccepted'
    BY <1>2, KnowsStays, GatewayGrows DEF QuorumInv, VouchedAccepted
  <1> QED  BY <1>1, <1>5, <1>6 DEF QuorumInv

\* An accepted answer is that of the vouched engine in the snapshot, which is the
\* pinned one if nobody re-enrolled the member.
LEMMA MemberAnswerKeeps ==
  ASSUME QuorumInv, [Next]_vars, GatewayInv', DecideAnswered(Judge), UNCHANGED quorum
  PROVE  QuorumInv'
  <1> DEFINE p == op[Judge]
  <1>1. /\ quorum.pc = "waiting" /\ Awaited(quorum, p)
        /\ Judge \in Callers /\ op \in [Callers -> Call] /\ p \in Call
        /\ p.pc = "asked" /\ p.enrollment \in Enrollment
        /\ Known(p, verifier, calls, clock, elapsed)
    BY JudgeWaits DEF DecideAnswered
  <1>2. UNCHANGED <<gateway, calls, verifier>>
    BY DEF DecideAnswered, ReturnIfBound
  <1>3. p.nonce = quorum.call /\ quorum.call \notin quorum.answered
    BY <1>1 DEF Awaited
  <1>4. CASE op'[Judge] = Returned(p, "bad_decision") /\ UNCHANGED accepted
    <2>1. Awaited(quorum, op[Judge])'
      BY <1>1, <1>2, <1>4, ReturnedIs DEF Awaited, Asking
    <2>2. QuorumKnows(quorum)' /\ VouchedAccepted'
      BY <1>4, KnowsStays, GatewayGrows DEF QuorumInv, VouchedAccepted
    <2> QED  BY <1>1, <2>1, <2>2 DEF QuorumInv
  <1>5. ASSUME NEW d,
               op'[Judge] = Returned(p, "accepted"),
               accepted' = accepted \cup
                 {[gw |-> p.gw, nonce |-> p.nonce, req |-> p.req,
                   key |-> p.enrollment.key, decision |-> d, heldFor |-> p.heldFor,
                   knownRevoked |-> p.enrollment.knownRevoked]}
        PROVE  QuorumInv'
    <2> DEFINE a == [gw |-> p.gw, nonce |-> p.nonce, req |-> p.req,
                     key |-> p.enrollment.key, decision |-> d, heldFor |-> p.heldFor,
                     knownRevoked |-> p.enrollment.knownRevoked]
    <2>1. a.nonce = quorum.call /\ a.req = quorum.req /\ a.key = p.enrollment.key
      BY <1>1, <1>3 DEF Awaited
    <2>2. accepted' = accepted \cup {a}
      BY <1>5
    <2> HIDE DEF a
    <2>3. Awaited(quorum, op[Judge])'
      BY <1>1, <1>2, <1>5, <2>1, <2>2, ReturnedIs DEF Awaited, Asking
    <2>4. QuorumKnows(quorum)'
      BY <1>3, <2>1, <2>2, KnowsStays DEF QuorumInv
    <2>5. VouchedAccepted'
      <3>1. Vouched(a.key)
        BY <1>1, <2>1 DEF Known, Backed, VouchedBy, Vouched
      <3> QED  BY <1>2, <2>2, <3>1 DEF QuorumInv, VouchedAccepted, Vouched
    <2> QED  BY <1>1, <2>3, <2>4, <2>5 DEF QuorumInv
  <1>6. PICK d : ReturnIfBound(Judge, p, d)
    BY DEF DecideAnswered
  <1>7. CASE Bound(d, p)
    BY <1>1, <1>5, <1>6, <1>7 DEF ReturnIfBound
  <1>8. CASE ~Bound(d, p)
    BY <1>1, <1>4, <1>6, <1>8 DEF ReturnIfBound
  <1> QED  BY <1>7, <1>8

-----------------------------------------------------------------------------
(* The vote. *)

\* The vote is the one decision that the member's Authorize accepted: a vouched
\* engine's, on this request, and, while nobody re-enrolled the member, the
\* pinned engine's.
LEMMA VoteIs ==
  ASSUME QuorumInv, MemberVotes
  PROVE  \E a \in accepted :
           /\ a.nonce = quorum.call /\ a.req = quorum.req /\ a.decision = Vote
           /\ \A b \in accepted : b.nonce = quorum.call => b = a
           /\ a.key \in Engines /\ Vouched(a.key)
           /\ Vote \in Decision /\ Vote.signer = a.key
           /\ Counts(Vote, quorum.req)
           /\ ~quorum.disturbed => a.key = gateway[Members[quorum.next]].key
  <1>1. /\ quorum.pc = "waiting" /\ op[Judge].pc = "idle" /\ op[Judge].result = "accepted"
        /\ Awaited(quorum, op[Judge])
    BY DEF MemberVotes, QuorumInv
  <1>2. PICK a \in accepted : /\ a.nonce = quorum.call /\ a.req = quorum.req
                              /\ ~quorum.disturbed => a.key = gateway[Members[quorum.next]].key
    BY <1>1 DEF Awaited
  <1>3. \A b \in accepted : b.nonce = quorum.call => b = a
    BY <1>2 DEF QuorumInv, GatewayInv, NoncesDiffer
  <1>4. a.decision = Vote
    BY <1>2, <1>3 DEF Vote
  <1>5. /\ a.decision.signer = a.key /\ a.decision.hash = HashOf[quorum.req]
        /\ a.decision.verdict \in Judgements[a.key][quorum.req]
    BY <1>2 DEF QuorumInv, GatewayInv, Faithful
  <1>6. a.key \in Engines /\ a.decision \in Decision
    BY DEF QuorumInv, GatewayInv, TypeOK
  <1>7. Vouched(a.key)
    BY DEF QuorumInv, VouchedAccepted
  <1>8. Counts(Vote, quorum.req)
    BY <1>4, <1>5, <1>7 DEF Counts
  <1> QED  BY <1>2, <1>3, <1>4, <1>5, <1>6, <1>7, <1>8

LEMMA AppendIs ==
  ASSUME NEW S, NEW s \in Seq(S), NEW e \in S
  PROVE  /\ Append(s, e) \in Seq(S) /\ Len(s) \in Nat /\ Len(Append(s, e)) = Len(s) + 1
         /\ \A n \in 1 .. Len(s) : Append(s, e)[n] = s[n]
         /\ Append(s, e)[Len(s) + 1] = e
  OBVIOUS

LEMMA ConcludedIs ==
  ASSUME NEW q \in QuorumCall, NEW o \in {"not_diverse", "dissent"}
  PROVE  /\ Concluded(q, o) \in QuorumCall
         /\ Concluded(q, o).seen = q.seen /\ Concluded(q, o).concurring = q.concurring
         /\ Concluded(q, o).builds = q.builds /\ Concluded(q, o).answered = q.answered
         /\ Concluded(q, o).req = q.req /\ Concluded(q, o).disturbed = q.disturbed
         /\ Concluded(q, o).next = q.next
         /\ Concluded(q, o).pc = "idle" /\ Concluded(q, o).outcome = o
  BY DEF Concluded, QuorumCall

\* What becomes of the vote, in a state that no step changes but the quorum.
LEMMA MemberVotesKnows ==
  ASSUME QuorumInv, MemberVotes
  PROVE  QuorumKnows(quorum') /\ quorum'.pc # "waiting"
  <1> DEFINE g   == Members[quorum.next]
             key == gateway[g].key
             bld == gateway[g].build
             x   == [quorum EXCEPT !.answered = @ \cup {quorum.call}]
             y   == [x EXCEPT !.seen = Append(@, key), !.concurring = Append(@, Vote),
                              !.builds = Append(@, bld)]
  <1>1. /\ quorum.pc = "waiting" /\ QuorumKnows(quorum) /\ Awaited(quorum, op[Judge])
        /\ quorum' = Counted(x, Vote, key, bld)
    BY DEF MemberVotes, QuorumInv
  <1>2. PICK a \in accepted :
           /\ a.nonce = quorum.call /\ a.decision = Vote
           /\ \A b \in accepted : b.nonce = quorum.call => b = a
           /\ a.key \in Engines /\ Vouched(a.key)
           /\ Vote \in Decision /\ Vote.signer = a.key
           /\ Counts(Vote, quorum.req)
           /\ ~quorum.disturbed => a.key = gateway[Members[quorum.next]].key
    BY VoteIs
  <1>3. g \in Gateways /\ gateway[g] \in Enrollment /\ Pinned(gateway[g], verifier, clock, elapsed)
    BY <1>1, MembersType, Parts DEF QuorumInv, QuorumKnows, Paired, GatewayInv
  <1>4. /\ key \in Engines \cup {NoEngine}
        /\ bld \in Measurements \cup Signers \cup {NoBuild}
        /\ key # NoEngine => bld \in {MeasurementOf[key], SignerOf[key]}
    BY <1>3 DEF Enrollment, Pinned, Backed
  <1>5. quorum.call \in 1 .. calls /\ quorum.call \notin quorum.answered /\ calls \in Nat
    BY <1>1, Parts DEF Awaited, QuorumInv
  <1>6. /\ x \in QuorumCall /\ x.seen = quorum.seen /\ x.concurring = quorum.concurring
        /\ x.builds = quorum.builds /\ x.answered = quorum.answered \cup {quorum.call}
        /\ x.req = quorum.req /\ x.disturbed = quorum.disturbed
        /\ x.next = quorum.next /\ x.pc = "waiting" /\ x.outcome = quorum.outcome
    BY <1>1, <1>5 DEF QuorumKnows, QuorumCall
  <1> HIDE DEF key, bld, x
  <1>7. /\ Paired(x)
        /\ \A n \in 1 .. Len(x.seen) : ~x.disturbed =>
             /\ x.seen[n] = x.concurring[n].signer
             /\ x.builds[n] \in {MeasurementOf[x.seen[n]], SignerOf[x.seen[n]]}
             /\ \E b \in accepted : b.nonce \in quorum.answered /\ b.key = x.seen[n]
    BY <1>1, <1>5, <1>6 DEF QuorumKnows, Paired, Undisturbed
  <1>8. CASE \E n \in 1 .. Len(x.seen) : x.seen[n] = key
    <2> DEFINE w == Concluded(x, "not_diverse")
    <2>1. quorum' = w
      BY <1>1, <1>8 DEF Counted
    <2>2. /\ w \in QuorumCall /\ w.seen = x.seen /\ w.concurring = x.concurring
          /\ w.builds = x.builds /\ w.answered = x.answered /\ w.disturbed = x.disturbed
          /\ w.next = x.next /\ w.pc = "idle" /\ w.outcome = "not_diverse"
      BY <1>6, ConcludedIs
    <2> HIDE DEF w
    <2>3. ~w.disturbed => AnsweredTwice(w)
      <3> SUFFICES ASSUME ~w.disturbed PROVE AnsweredTwice(w)
        OBVIOUS
      <3>1. PICK b \in accepted : b.nonce \in quorum.answered /\ b.key = key
        BY <1>7, <1>8, <2>2
      <3>2. a.key = key
        BY <1>2, <1>6, <2>2 DEF key
      <3>3. a # b
        BY <1>2, <1>5, <3>1
      <3> QED  BY <1>2, <1>6, <2>2, <3>1, <3>2, <3>3 DEF AnsweredTwice
    <2>4. Paired(w)
      BY <1>7, <2>2 DEF Paired
    <2>5. Undisturbed(w)
      BY <1>6, <1>7, <2>2, <2>3 DEF Undisturbed
    <2> QED  BY <2>1, <2>2, <2>4, <2>5 DEF QuorumKnows
  <1>9. CASE /\ ~ \E n \in 1 .. Len(x.seen) : x.seen[n] = key
             /\ x.concurring # <<>> /\ x.concurring[1].verdict # Vote.verdict
    <2> DEFINE w == Concluded(x, "dissent")
    <2>1. quorum' = w
      BY <1>1, <1>9 DEF Counted
    <2>2. /\ w \in QuorumCall /\ w.seen = x.seen /\ w.concurring = x.concurring
          /\ w.builds = x.builds /\ w.answered = x.answered /\ w.disturbed = x.disturbed
          /\ w.next = x.next /\ w.pc = "idle" /\ w.outcome = "dissent"
      BY <1>6, ConcludedIs
    <2> HIDE DEF w
    <2>3. Paired(w)
      BY <1>7, <2>2 DEF Paired
    <2>4. Undisturbed(w)
      BY <1>6, <1>7, <2>2 DEF Undisturbed
    <2> QED  BY <2>1, <2>2, <2>3, <2>4 DEF QuorumKnows
  <1>10. CASE /\ ~ \E n \in 1 .. Len(x.seen) : x.seen[n] = key
              /\ ~(x.concurring # <<>> /\ x.concurring[1].verdict # Vote.verdict)
    <2>1. quorum' = Proceed(y)
      BY <1>1, <1>10 DEF Counted
    <2>2. /\ y \in QuorumCall /\ y.seen = Append(x.seen, key)
          /\ y.concurring = Append(x.concurring, Vote) /\ y.builds = Append(x.builds, bld)
          /\ y.answered = x.answered /\ y.req = x.req /\ y.disturbed = x.disturbed
          /\ y.next = x.next /\ y.pc = "waiting" /\ y.outcome = x.outcome
      <3>1. /\ Append(x.seen, key) \in Seq(Engines \cup {NoEngine})
            /\ Append(x.concurring, Vote) \in Seq(Decision)
            /\ Append(x.builds, bld) \in Seq(Measurements \cup Signers \cup {NoBuild})
        BY <1>2, <1>4, <1>6 DEF QuorumCall
      <3>2. y \in QuorumCall
        BY <1>6, <3>1, Zenon DEF QuorumCall
      <3> QED  BY <1>6, <3>2 DEF QuorumCall
    <2> HIDE DEF y
    <2>3. /\ x.seen \in Seq(Engines \cup {NoEngine}) /\ x.concurring \in Seq(Decision)
          /\ x.builds \in Seq(Measurements \cup Signers \cup {NoBuild})
          /\ Len(x.concurring) = Len(x.seen) /\ Len(x.builds) = Len(x.seen)
      BY <1>6, <1>7 DEF QuorumCall, Paired
    <2>4. Paired(y)
      <3>1. Len(y.seen) = Len(x.seen) + 1 /\ Len(y.concurring) = Len(y.seen) /\ Len(y.builds) = Len(y.seen)
        <4>1. Len(Append(x.seen, key)) = Len(x.seen) + 1
          BY <1>4, <2>3, AppendIs
        <4>2. Len(Append(x.concurring, Vote)) = Len(x.concurring) + 1
          BY <1>2, <2>3, AppendIs
        <4>3. Len(Append(x.builds, bld)) = Len(x.builds) + 1
          BY <1>4, <2>3, AppendIs
        <4> QED  BY <2>2, <2>3, <4>1, <4>2, <4>3
      <3>2. /\ \A n \in 1 .. Len(x.seen) : y.seen[n] = x.seen[n]
            /\ y.seen[Len(x.seen) + 1] = key
            /\ Len(x.seen) \in Nat
        BY <1>4, <2>2, <2>3, AppendIs
      <3>3. \A m, n \in 1 .. Len(y.seen) : y.seen[m] = y.seen[n] => m = n
        <4>1. \A m, n \in 1 .. Len(x.seen) : x.seen[m] = x.seen[n] => m = n
          BY <1>7 DEF Paired
        <4>2. \A n \in 1 .. Len(x.seen) : y.seen[n] # key
          BY <1>10, <3>2
        <4> SUFFICES ASSUME NEW m \in 1 .. Len(y.seen), NEW n \in 1 .. Len(y.seen), y.seen[m] = y.seen[n]
                     PROVE  m = n
          OBVIOUS
        <4>3. /\ m \in 1 .. Len(x.seen) \/ m = Len(x.seen) + 1
              /\ n \in 1 .. Len(x.seen) \/ n = Len(x.seen) + 1
          BY <3>1, <3>2
        <4>4. CASE m = Len(x.seen) + 1
          BY <3>2, <4>2, <4>3, <4>4
        <4>5. CASE m \in 1 .. Len(x.seen)
          BY <3>2, <4>1, <4>2, <4>3, <4>5
        <4> QED  BY <4>3, <4>4, <4>5
      <3> QED  BY <1>7, <2>2, <3>1, <3>3 DEF Paired
    <2>5. Collected(y)
      <3>1. Collected(quorum)
        BY <1>1 DEF QuorumKnows
      <3>2. ASSUME NEW n \in 1 .. Len(y.concurring)
            PROVE  Counts(y.concurring[n], y.req)
        <4>1. CASE n \in 1 .. Len(x.concurring)
          BY <1>6, <2>2, <2>3, <3>1, <4>1 DEF Collected
        <4>2. CASE n = Len(x.concurring) + 1
          <5>1. y.concurring[n] = Vote
            BY <2>2, <2>3, <4>2
          <5> QED  BY <1>2, <1>6, <2>2, <5>1
        <4> QED  BY <1>2, <2>2, <2>3, <4>1, <4>2
      <3>3. ASSUME NEW b \in accepted, b.nonce \in y.answered
            PROVE  Len(y.concurring) > 0 /\ b.decision.verdict = y.concurring[1].verdict
        <4>1. Len(y.concurring) = Len(x.concurring) + 1
          BY <1>2, <2>2, <2>3
        <4>2. CASE b.nonce = quorum.call
          <5>1. b.decision = Vote
            BY <1>2, <4>2
          <5>2. y.concurring[1].verdict = Vote.verdict
            BY <1>2, <1>10, <2>2, <2>3
          <5> QED  BY <2>3, <4>1, <5>1, <5>2
        <4>3. CASE b.nonce \in quorum.answered
          <5>1. Len(x.concurring) > 0 /\ b.decision.verdict = x.concurring[1].verdict
            BY <1>6, <3>1, <4>3 DEF Collected
          <5>2. y.concurring[1] = x.concurring[1]
            BY <1>2, <2>2, <2>3, <5>1
          <5> QED  BY <2>3, <4>1, <5>1, <5>2
        <4> QED  BY <1>6, <2>2, <3>3, <4>2, <4>3
      <3> QED  BY <3>2, <3>3 DEF Collected
    <2>6. Undisturbed(y)
      <3> SUFFICES ASSUME ~y.disturbed PROVE
             /\ \A n \in 1 .. Len(y.seen) :
                  /\ y.seen[n] = y.concurring[n].signer
                  /\ y.builds[n] \in {MeasurementOf[y.seen[n]], SignerOf[y.seen[n]]}
                  /\ \E b \in accepted : b.nonce \in y.answered /\ b.key = y.seen[n]
             /\ y.outcome = "not_diverse" => AnsweredTwice(y)
        BY DEF Undisturbed
      <3>1. key = a.key /\ key # NoEngine
        BY <1>2, <1>6, <2>2, EnginesAssumption DEF key
      <3>2. ASSUME NEW n \in 1 .. Len(y.seen)
            PROVE  /\ y.seen[n] = y.concurring[n].signer
                   /\ y.builds[n] \in {MeasurementOf[y.seen[n]], SignerOf[y.seen[n]]}
                   /\ \E b \in accepted : b.nonce \in y.answered /\ b.key = y.seen[n]
        <4>1. CASE n \in 1 .. Len(x.seen)
          <5>1. y.seen[n] = x.seen[n] /\ y.concurring[n] = x.concurring[n] /\ y.builds[n] = x.builds[n]
            BY <1>2, <1>4, <2>2, <2>3, <4>1
          <5> QED  BY <1>6, <1>7, <2>2, <4>1, <5>1
        <4>2. CASE n = Len(x.seen) + 1
          <5>1. y.seen[n] = key /\ y.concurring[n] = Vote /\ y.builds[n] = bld
            BY <1>2, <1>4, <2>2, <2>3, <4>2
          <5> QED  BY <1>2, <1>4, <1>6, <2>2, <3>1, <5>1
        <4> QED  BY <1>4, <2>2, <2>3, <4>1, <4>2
      <3>3. y.outcome = "not_diverse" => AnsweredTwice(y)
        BY <1>1, <1>6, <2>2 DEF QuorumKnows, Undisturbed, AnsweredTwice
      <3> QED  BY <3>2, <3>3
    <2>7. QuorumKnows(y)
      BY <2>2, <2>4, <2>5, <2>6 DEF QuorumKnows
    <2> QED  BY <2>1, <2>2, <2>7, ProceedKnows
  <1> QED  BY <1>8, <1>9, <1>10

LEMMA MemberVotesKeeps ==
  ASSUME QuorumInv, GatewayInv', MemberVotes
  PROVE  QuorumInv'
  <1>1. UNCHANGED vars /\ op[Judge].pc = "idle"
    BY DEF MemberVotes
  <1>2. QuorumKnows(quorum') /\ quorum'.pc # "waiting"
    BY MemberVotesKnows
  <1>3. QuorumKnows(quorum)'
    BY <1>1, <1>2, KnowsStays DEF vars, QuorumInv
  <1>4. VouchedAccepted'
    BY <1>1 DEF vars, QuorumInv, VouchedAccepted, Vouched
  <1> QED  BY <1>1, <1>2, <1>3, <1>4 DEF QuorumInv, vars

-----------------------------------------------------------------------------
(* What the loop counts.  Every counted vote is an answer that the quorum     *)
(* keeps, and as long as the loop runs it has counted one vote per answer;    *)
(* so a shortage of votes is a shortage of answers, and a dissenting vote     *)
(* dissents from an answer.                                                   *)

Dissenting(q) ==
  \E a, b \in accepted :
    /\ a.nonce \in q.answered /\ b.nonce \in q.answered
    /\ a.req = q.req /\ b.req = q.req
    /\ a.decision.verdict # b.decision.verdict

\* The votes that were counted are answers to this request.
VotesAreAnswers(q) ==
  \A n \in 1 .. Len(q.concurring) :
    \E a \in accepted :
      a.nonce \in q.answered /\ a.req = q.req /\ a.decision = q.concurring[n]

Accounted(q) ==
  /\ IsFiniteSet(q.answered)
  /\ VotesAreAnswers(q)
  /\ q.pc # "idle" => q.outcome = "none" /\ Cardinality(q.answered) = Len(q.concurring)
  /\ q.outcome = "dissent" => Dissenting(q)
  /\ q.outcome = "unavailable" =>
       q.next = Len(Members) /\ Cardinality(q.answered) < Threshold

\* Accepted answers are kept, so what was counted stays an answer.
LEMMA AcceptedGrows == ASSUME [Next]_vars PROVE accepted \subseteq accepted'
  <1>1. CASE UNCHANGED vars
    BY <1>1 DEF vars
  <1>2. ASSUME NEW c \in Callers, Trust(c) PROVE accepted \subseteq accepted'
    BY <1>2 DEF Trust, BeginTrust, AttestAnswered, LockGateway, Pin, Clear
  <1>3. ASSUME NEW c \in Callers, Authorize(c) PROVE accepted \subseteq accepted'
    BY <1>3 DEF Authorize, BeginAuthorize, Snapshot, CheckAge, DecideAnswered, ReturnIfBound
  <1>4. CASE Operator \/ Tick \/ SetClockBack
    BY <1>4 DEF Operator, Endorse, EndorseSigner, Revoke, Tick, SetClockBack
  <1> QED  BY <1>1, <1>2, <1>3, <1>4 DEF Next

LEMMA AccountedStays ==
  ASSUME NEW q, Accounted(q), accepted \subseteq accepted'
  PROVE  Accounted(q)'
  <1>1. VotesAreAnswers(q)'
    BY DEF Accounted, VotesAreAnswers
  <1>2. Dissenting(q) => Dissenting(q)'
    BY DEF Dissenting
  <1> QED  BY <1>1, <1>2 DEF Accounted

LEMMA NothingCounted ==
  ASSUME NEW q, q.concurring = <<>>, q.answered = {}, q.outcome = "none"
  PROVE  Accounted(q)
  <1>1. Len(q.concurring) = 0
    OBVIOUS
  <1>2. IsFiniteSet(q.answered) /\ Cardinality(q.answered) = 0
    BY FS_EmptySet
  <1> QED  BY <1>1, <1>2 DEF Accounted, VotesAreAnswers

\* The loop ends without its threshold only if too few answered.
LEMMA ProceedAccounts ==
  ASSUME NEW q \in QuorumCall, q.next \in 1 .. Len(Members), q.pc = "waiting", Accounted(q)
  PROVE  Accounted(Proceed(q))
  <1> DEFINE w == Proceed(q)
  <1> SUFFICES Accounted(w)
    OBVIOUS
  <1>1. /\ w.concurring = q.concurring /\ w.answered = q.answered /\ w.req = q.req
        /\ q.outcome = "none" /\ Cardinality(q.answered) = Len(q.concurring)
    BY ProceedIs DEF Accounted
  <1>2. CASE q.next < Len(Members)
    <2>1. w.pc = "member" /\ w.outcome = "none"
      BY <1>1, <1>2 DEF Proceed, QuorumCall
    <2> HIDE DEF w
    <2> QED  BY <1>1, <2>1 DEF Accounted, VotesAreAnswers
  <1>3. CASE ~(q.next < Len(Members))
    <2>1. /\ w.pc = "idle" /\ w.next = Len(Members)
          /\ \/ w.outcome = "agreed"
             \/ w.outcome = "unavailable" /\ Len(q.concurring) < Threshold
      BY <1>3, MembersType DEF Proceed, Concluded, QuorumCall
    <2> HIDE DEF w
    <2> QED  BY <1>1, <2>1 DEF Accounted, VotesAreAnswers
  <1> QED  BY <1>2, <1>3

\* A vote is one more answer, and one more vote if it counts.
LEMMA MemberVotesAccounts ==
  ASSUME QuorumInv, Accounted(quorum), MemberVotes
  PROVE  Accounted(quorum')
  <1> DEFINE key == gateway[Members[quorum.next]].key
             bld == gateway[Members[quorum.next]].build
             x   == [quorum EXCEPT !.answered = @ \cup {quorum.call}]
             y   == [x EXCEPT !.seen = Append(@, key), !.concurring = Append(@, Vote),
                              !.builds = Append(@, bld)]
  <1>1. /\ quorum \in QuorumCall /\ quorum.pc = "waiting" /\ Awaited(quorum, op[Judge])
        /\ quorum.next \in 1 .. Len(Members)
        /\ quorum' = Counted(x, Vote, key, bld)
    BY DEF MemberVotes, QuorumInv, QuorumKnows, Paired
  <1>2. PICK a \in accepted : /\ a.nonce = quorum.call /\ a.req = quorum.req /\ a.decision = Vote
                              /\ Vote \in Decision
    BY VoteIs
  <1>3. /\ key \in Engines \cup {NoEngine}
        /\ bld \in Measurements \cup Signers \cup {NoBuild}
    BY <1>1, MembersType, Parts DEF QuorumInv, GatewayInv, TypeOK, Enrollment
  <1>4. /\ IsFiniteSet(quorum.answered \cup {quorum.call})
        /\ Cardinality(quorum.answered \cup {quorum.call}) = Len(quorum.concurring) + 1
    <2>1. /\ IsFiniteSet(quorum.answered) /\ quorum.call \notin quorum.answered
          /\ Cardinality(quorum.answered) = Len(quorum.concurring)
      BY <1>1 DEF Awaited, Accounted
    <2> QED  BY <2>1, FS_AddElement
  <1>5. quorum.call \in Nat
    BY <1>1 DEF QuorumCall
  <1>6. /\ x \in QuorumCall /\ x.concurring = quorum.concurring /\ x.req = quorum.req
        /\ x.answered = quorum.answered \cup {quorum.call}
        /\ x.next = quorum.next /\ x.pc = "waiting" /\ x.outcome = "none"
    BY <1>1, <1>5 DEF QuorumCall, Accounted
  <1> HIDE DEF key, bld, x
  <1>7. VotesAreAnswers(x)
    BY <1>6 DEF Accounted, VotesAreAnswers
  <1>8. CASE \E n \in 1 .. Len(x.seen) : x.seen[n] = key
    <2> DEFINE w == Concluded(x, "not_diverse")
    <2>1. quorum' = w
      BY <1>1, <1>8 DEF Counted
    <2>2. /\ w.concurring = x.concurring /\ w.answered = x.answered /\ w.req = x.req
          /\ w.pc = "idle" /\ w.outcome = "not_diverse"
      BY <1>6, ConcludedIs
    <2> HIDE DEF w
    <2> QED  BY <1>4, <1>6, <1>7, <2>1, <2>2 DEF Accounted, VotesAreAnswers
  <1>9. CASE /\ ~ \E n \in 1 .. Len(x.seen) : x.seen[n] = key
             /\ x.concurring # <<>> /\ x.concurring[1].verdict # Vote.verdict
    <2> DEFINE w == Concluded(x, "dissent")
    <2>1. quorum' = w
      BY <1>1, <1>9 DEF Counted
    <2>2. /\ w.concurring = x.concurring /\ w.answered = x.answered /\ w.req = x.req
          /\ w.pc = "idle" /\ w.outcome = "dissent"
      BY <1>6, ConcludedIs
    <2> HIDE DEF w
    <2>3. Dissenting(w)
      <3>1. 1 \in 1 .. Len(x.concurring)
        BY <1>6, <1>9 DEF QuorumCall
      <3>2. PICK b \in accepted : /\ b.nonce \in x.answered /\ b.req = x.req
                                  /\ b.decision = x.concurring[1]
        BY <1>7, <3>1 DEF VotesAreAnswers
      <3> QED  BY <1>2, <1>6, <1>9, <2>2, <3>2 DEF Dissenting
    <2> QED  BY <1>4, <1>6, <1>7, <2>1, <2>2, <2>3 DEF Accounted, VotesAreAnswers
  <1>10. CASE /\ ~ \E n \in 1 .. Len(x.seen) : x.seen[n] = key
              /\ ~(x.concurring # <<>> /\ x.concurring[1].verdict # Vote.verdict)
    <2>1. quorum' = Proceed(y)
      BY <1>1, <1>10 DEF Counted
    <2>2. /\ y \in QuorumCall /\ y.concurring = Append(x.concurring, Vote)
          /\ y.answered = x.answered /\ y.req = x.req
          /\ y.next = x.next /\ y.pc = "waiting" /\ y.outcome = x.outcome
      <3>1. /\ Append(x.seen, key) \in Seq(Engines \cup {NoEngine})
            /\ Append(x.concurring, Vote) \in Seq(Decision)
            /\ Append(x.builds, bld) \in Seq(Measurements \cup Signers \cup {NoBuild})
        BY <1>2, <1>3, <1>6 DEF QuorumCall
      <3>2. y \in QuorumCall
        BY <1>6, <3>1, Zenon DEF QuorumCall
      <3> QED  BY <1>6, <3>2 DEF QuorumCall
    <2> HIDE DEF y
    <2>3. /\ Len(y.concurring) = Len(x.concurring) + 1 /\ Len(x.concurring) \in Nat
          /\ \A n \in 1 .. Len(x.concurring) : y.concurring[n] = x.concurring[n]
          /\ y.concurring[Len(x.concurring) + 1] = Vote
      BY <1>2, <1>6, <2>2, AppendIs DEF QuorumCall
    <2>4. VotesAreAnswers(y)
      <3> SUFFICES ASSUME NEW n \in 1 .. Len(y.concurring)
                   PROVE  \E b \in accepted : /\ b.nonce \in y.answered /\ b.req = y.req
                                              /\ b.decision = y.concurring[n]
        BY DEF VotesAreAnswers
      <3>1. CASE n \in 1 .. Len(x.concurring)
        BY <1>7, <2>2, <2>3, <3>1 DEF VotesAreAnswers
      <3>2. CASE n = Len(x.concurring) + 1
        BY <1>2, <1>6, <2>2, <2>3, <3>2
      <3> QED  BY <2>3, <3>1, <3>2
    <2>5. Accounted(y)
      BY <1>4, <1>6, <2>2, <2>3, <2>4 DEF Accounted
    <2> QED  BY <1>1, <1>6, <2>1, <2>2, <2>5, ProceedAccounts
  <1> QED  BY <1>8, <1>9, <1>10

\* Asking the next member and disturbing the quorum count nothing.
LEMMA CountsNothing ==
  ASSUME NEW q, NEW w, Accounted(q),
         w.concurring = q.concurring, w.answered = q.answered, w.req = q.req,
         w.next = q.next, w.outcome = q.outcome, w.pc # "idle" => q.pc # "idle"
  PROVE  Accounted(w)
  BY DEF Accounted, VotesAreAnswers, Dissenting

LEMMA QuorumStepAccounts ==
  ASSUME QuorumInv, Accounted(quorum), [QNext]_qvars
  PROVE  Accounted(quorum)'
  <1>1. accepted \subseteq accepted'
    BY QuorumStepRefines, AcceptedGrows DEF qvars, vars
  <1>2. SUFFICES Accounted(quorum')
    BY <1>1, AccountedStays
  <1>3. quorum \in QuorumCall /\ quorum.next \in 1 .. Len(Members)
    BY DEF QuorumInv, QuorumKnows, Paired
  <1>4. CASE UNCHANGED quorum
    BY <1>4
  <1>5. ASSUME NEW r \in Requests, BeginQuorum(r) PROVE Accounted(quorum')
    <2> DEFINE w == [NoQuorumCall EXCEPT !.pc = "member", !.req = r]
    <2>1. w.concurring = <<>> /\ w.answered = {} /\ w.outcome = "none" /\ quorum' = w
      BY <1>5, NoQuorumCallType DEF BeginQuorum, QuorumCall
    <2> HIDE DEF w
    <2> QED  BY <2>1, NothingCounted
  <1>6. CASE AskMember
    <2> DEFINE w == [quorum EXCEPT !.pc = "waiting", !.call = calls + 1]
    <2>1. /\ quorum' = w /\ quorum.pc = "member"
          /\ w.concurring = quorum.concurring /\ w.answered = quorum.answered
          /\ w.req = quorum.req /\ w.next = quorum.next /\ w.outcome = quorum.outcome
      BY <1>3, <1>6 DEF AskMember, QuorumCall
    <2> HIDE DEF w
    <2> QED  BY <2>1, CountsNothing
  <1>7. CASE MemberAbstains
    BY <1>3, <1>7, ProceedAccounts DEF MemberAbstains
  <1>8. CASE MemberVotes
    BY <1>8, MemberVotesAccounts
  <1>9. ASSUME NEW c \in Others, Reenroll(c) PROVE Accounted(quorum')
    <2> DEFINE w == [quorum EXCEPT !.disturbed = @ \/ quorum.pc # "idle"]
    <2>1. /\ quorum' = w /\ w.pc = quorum.pc
          /\ w.concurring = quorum.concurring /\ w.answered = quorum.answered
          /\ w.req = quorum.req /\ w.next = quorum.next /\ w.outcome = quorum.outcome
      BY <1>3, <1>9 DEF Reenroll, QuorumCall
    <2> HIDE DEF w
    <2> QED  BY <2>1, CountsNothing
  <1> QED  BY <1>4, <1>5, <1>6, <1>7, <1>8, <1>9 DEF QNext, qvars

-----------------------------------------------------------------------------

LEMMA QuorumStep == QuorumInv /\ [QNext]_qvars => QuorumInv' /\ [Next]_vars
  <1> SUFFICES ASSUME QuorumInv, [QNext]_qvars PROVE QuorumInv' /\ [Next]_vars
    OBVIOUS
  <1>1. [Next]_vars
    BY QuorumStepRefines DEF qvars, vars
  <1>2. GatewayInv'
    BY <1>1, GatewayStep DEF QuorumInv
  <1>3. CASE UNCHANGED qvars
    <2>1. UNCHANGED <<accepted, quorum>> /\ op'[Judge] = op[Judge] /\ gateway' = gateway
      BY <1>3 DEF qvars, vars
    <2> QED  BY <1>1, <1>2, <2>1, OthersKeep
  <1>4. CASE AskMember \/ MemberAbstains \/ MemberVotes \/ \E r \in Requests : BeginQuorum(r)
    BY <1>1, <1>2, <1>4, AskMemberKeeps, MemberAbstainsKeeps, MemberVotesKeeps, BeginQuorumKeeps
  <1>5. CASE (Snapshot(Judge) \/ CheckAge(Judge) \/ DecideAnswered(Judge)) /\ UNCHANGED quorum
    BY <1>1, <1>2, <1>5, MemberSnapshotKeeps, MemberCheckAgeKeeps, MemberAnswerKeeps
  <1>6. ASSUME NEW c \in Others, UNCHANGED quorum,
               \/ \E g \in Gateways, s \in Engines : BeginTrust(c, g, s)
               \/ AttestAnswered(c) \/ LockGateway(c)
        PROVE  QuorumInv'
    <2>1. op \in [Callers -> Call] /\ Judge \in Callers /\ c # Judge
      BY QuorumAssumption DEF QuorumInv, GatewayInv, TypeOK, Others
    <2>2. op'[Judge] = op[Judge] /\ UNCHANGED <<accepted, gateway>>
      BY <1>6, <2>1 DEF BeginTrust, AttestAnswered, LockGateway
    <2> QED  BY <1>1, <1>2, <1>6, <2>2, OthersKeep
  <1>7. ASSUME NEW c \in Others, Reenroll(c) PROVE QuorumInv'
    BY <1>1, <1>2, <1>7, ReenrollKeeps
  <1>8. CASE (Operator \/ Tick \/ SetClockBack) /\ UNCHANGED quorum
    <2>1. op' = op /\ UNCHANGED <<accepted, gateway>>
      BY <1>8 DEF Operator, Endorse, EndorseSigner, Revoke, Tick, SetClockBack
    <2> QED  BY <1>1, <1>2, <1>8, <2>1, OthersKeep
  <1> QED  BY <1>1, <1>3, <1>4, <1>5, <1>6, <1>7, <1>8 DEF QNext

\* The inductive invariant holds in every reachable state.
THEOREM QuorumInvariant == QSpec => []QuorumInv
  BY QuorumInit, QuorumStep, PTL DEF QSpec

\* A quorum makes no use of the gateways that they do not provide for: whatever
\* holds of the gateways holds under a quorum.
THEOREM QuorumRunsGateways == QSpec => Spec
  <1>1. QInit => Init
    BY DEF QInit
  <1> QED  BY <1>1, QuorumStep, QuorumInvariant, PTL DEF QSpec, Spec

\* The loop's variables keep their types.
THEOREM QuorumTypeCorrect == QSpec => []QTypeOK
  <1>1. QuorumInv => QTypeOK
    BY DEF QuorumInv, QuorumKnows, GatewayInv, QTypeOK
  <1> QED  BY <1>1, QuorumInvariant, PTL

\* A quorum that agreed has its threshold of vouched judgements on this request,
\* and nobody who answered judged otherwise, even if members were re-enrolled.
THEOREM QuorumUnanimous == QSpec => []AgreementIsUnanimous
  <1>1. QuorumInv => AgreementIsUnanimous
    BY DEF QuorumInv, QuorumKnows, Collected, Counts, AgreementIsUnanimous, Agreed
  <1> QED  BY <1>1, QuorumInvariant, PTL

\* While no member is re-enrolled, the concurring engines differ, and each build
\* reported is that of the engine it stands beside.
THEOREM QuorumDiverse == QSpec => []UndisturbedAgreementIsDiverse
  <1>1. ASSUME QuorumInv, Agreed, ~quorum.disturbed PROVE SignersDiffer /\ BuildsMatch
    <2>1. Paired(quorum) /\ Undisturbed(quorum) /\ quorum \in QuorumCall
      BY <1>1 DEF QuorumInv, QuorumKnows
    <2>2. Len(quorum.seen) = Len(quorum.concurring)
      BY <2>1 DEF Paired
    <2> QED  BY <1>1, <2>1, <2>2 DEF Paired, Undisturbed, SignersDiffer, BuildsMatch
  <1> QED  BY <1>1, QuorumInvariant, PTL DEF UndisturbedAgreementIsDiverse

\* While no member is re-enrolled, a quorum that is refused for lack of diversity
\* did get two answers from one engine.
THEOREM QuorumAlarmIsTrue == QSpec => []UndisturbedAlarmIsTrue
  <1>1. QuorumInv => UndisturbedAlarmIsTrue
    BY DEF QuorumInv, QuorumKnows, Undisturbed, AnsweredTwice, UndisturbedAlarmIsTrue
  <1> QED  BY <1>1, QuorumInvariant, PTL
\* Every vote that the loop counted is an answer that it keeps.
THEOREM QuorumAccounts == QSpec => []Accounted(quorum)
  <1>1. QInit => Accounted(quorum)
    BY NoQuorumCallType, NothingCounted DEF QInit
  <1>2. QuorumInv /\ Accounted(quorum) /\ [QNext]_qvars => Accounted(quorum)'
    BY QuorumStepAccounts
  <1> QED  BY <1>1, <1>2, QuorumInvariant, PTL DEF QSpec

\* Dissent is reported only if two members judged this request differently, and
\* no quorum only if all were asked and fewer than the threshold answered, even if
\* members were re-enrolled meanwhile.
THEOREM QuorumRefusesWithCause == QSpec => []RefusalsAreJustified
  <1>1. Accounted(quorum) => RefusalsAreJustified
    BY DEF Accounted, Dissenting, RefusalsAreJustified
  <1> QED  BY <1>1, QuorumAccounts, PTL

===============================================================================
