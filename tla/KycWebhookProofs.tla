----------------------------- MODULE KycWebhookProofs -----------------------------
(***************************************************************************)
(* AckedAudited and SuccessApplied for any number of users, webhooks and   *)
(* overlapping deliveries, and any number of failed writes and crashes.    *)
(* Both look at what earlier steps of a delivery did, so the invariant     *)
(* says what a delivery under way may rely on: its webhook was sent, names *)
(* a user and does not change, and past the update it was applied.         *)
(***************************************************************************)
EXTENDS KycWebhook, TLAPS

\* A delivery under way is that of a webhook sent about a user.
InFlightNamed ==
    \A r \in Requests : req[r] # Idle =>
        webhooks[req[r].webhook] # NotSent /\ User(r) # NoUser

\* A delivery that is about to record a success has stored the status.
SuccessStored == \A r \in Requests : At(r, "success") => req[r].webhook \in applied

IInv == TypeOK /\ InFlightNamed /\ SuccessStored /\ AckedAudited /\ SuccessApplied

-----------------------------------------------------------------------------------

\* Whatever an event says, what is stored for it is a status of the schema.
LEMMA StatusKnown == \A raw : KycStatusOf(raw) \in KycStatus
  <1> SUFFICES ASSUME NEW raw PROVE KycStatusOf(raw) \in KycStatus
    OBVIOUS
  <1>1. CASE raw \in {"declined", "rejected"}
    BY <1>1 DEF KycStatusOf, KycStatus
  <1>2. CASE raw \in {"review", "in_review"}
    BY <1>2 DEF KycStatusOf, KycStatus
  <1>3. CASE raw \in KycStatus \ {"rejected", "in_review"}
    BY <1>3 DEF KycStatusOf, KycStatus
  <1>4. CASE raw \notin KycStatus \cup {"declined", "review"}
    BY <1>4 DEF KycStatusOf, KycStatus
  <1>5. QED
    BY <1>1, <1>2, <1>3, <1>4

\* A delivery under way is not idle, and has a webhook about a user.
LEMMA Delivery ==
    ASSUME IInv, NEW r \in Requests, req[r] # Idle
    PROVE  /\ req[r] \in Request /\ req[r].webhook \in Webhooks
           /\ webhooks[req[r].webhook] \in Content
           /\ webhooks[req[r].webhook] # NotSent
           /\ User(r) \in Users /\ User(r) # NoUser /\ Status(r) \in KycStatus
  <1>1. req[r] \in Request /\ req[r].webhook \in Webhooks
    BY DEF IInv, TypeOK, Request
  <1>2. webhooks[req[r].webhook] \in Content /\ webhooks[req[r].webhook] # NotSent
    BY <1>1 DEF IInv, TypeOK, InFlightNamed
  <1>3. User(r) \in Users /\ User(r) # NoUser
    BY <1>2 DEF IInv, InFlightNamed, User, Content
  <1>4. Status(r) \in KycStatus
    BY StatusKnown DEF Status
  <1>5. QED
    BY <1>1, <1>2, <1>3, <1>4

\* A request of another pc is still one for the same webhook.
LEMMA Requested ==
    ASSUME NEW x \in Request, NEW pc \in {"update", "success", "failure"},
           NEW old \in KycStatus \cup {NoRow}
    PROVE  /\ [x EXCEPT !.pc = pc] \in Request /\ [x EXCEPT !.pc = pc].webhook = x.webhook
           /\ [x EXCEPT !.pc = pc].pc = pc
           /\ [x EXCEPT !.pc = pc, !.replaced = old] \in Request
           /\ [x EXCEPT !.pc = pc, !.replaced = old].webhook = x.webhook
           /\ [x EXCEPT !.pc = pc, !.replaced = old].pc = pc
  BY DEF Request

\* Didit sends a webhook: what is in flight, answered or stored is about others.
LEMMA DecideStep ==
    ASSUME IInv, NEW d \in Webhooks, NEW content \in Content, Decide(d, content)
    PROVE  IInv'
  <1>1. /\ webhooks[d] = NotSent /\ webhooks' = [webhooks EXCEPT ![d] = content]
        /\ UNCHANGED <<kyc, acked, applied, audits, req, failures, crashes>>
    BY DEF Decide
  <1>2. \A e \in Webhooks : webhooks[e] # NotSent => webhooks'[e] = webhooks[e]
    BY <1>1 DEF IInv, TypeOK
  <1>3. webhooks' \in [Webhooks -> Content \cup {NotSent}]
    BY <1>1 DEF IInv, TypeOK
  <1>4. TypeOK'
    BY <1>1, <1>2, <1>3 DEF IInv, TypeOK
  <1>5. InFlightNamed'
    <2>1. ASSUME NEW r \in Requests, req[r] # Idle
          PROVE  req[r].webhook \in Webhooks
      BY <2>1, Delivery
    <2>2. QED
      BY <1>1, <1>2, <2>1 DEF IInv, InFlightNamed, User
  <1>6. AckedAudited'
    BY <1>1, <1>2 DEF IInv, TypeOK, AckedAudited
  <1>7. QED
    BY <1>1, <1>4, <1>5, <1>6 DEF IInv, SuccessStored, SuccessApplied, At

\* A delivery starts, or is answered at once when it names nobody.
LEMMA ReceiveStep ==
    ASSUME IInv, NEW r \in Requests, NEW d \in Webhooks, Ignore(r, d) \/ Read(r, d)
    PROVE  IInv'
  <1>1. CASE Ignore(r, d)
    <2>1. TypeOK'
      BY <1>1 DEF IInv, TypeOK, Ignore
    <2>2. AckedAudited'
      BY <1>1 DEF IInv, AckedAudited, Ignore
    <2>3. QED
      BY <1>1, <2>1, <2>2 DEF IInv, Ignore, InFlightNamed, SuccessStored, SuccessApplied, At, User
  <1>2. CASE Read(r, d)
    <2>1. PICK x : x = [pc |-> "update", webhook |-> d,
                        previous |-> kyc[webhooks[d].user], replaced |-> NoRow]
      OBVIOUS
    <2>2. webhooks[d] \in Content /\ webhooks[d].user \in Users
      BY <1>2 DEF IInv, TypeOK, Read, Content
    <2>3. x \in Request /\ x.pc = "update" /\ x.webhook = d
      BY <2>1, <2>2 DEF IInv, TypeOK, Request
    <2>4. /\ req' = [req EXCEPT ![r] = x]
          /\ UNCHANGED <<kyc, webhooks, acked, applied, audits, failures, crashes>>
      BY <1>2, <2>1 DEF Read
    <2>5. TypeOK'
      BY <2>3, <2>4 DEF IInv, TypeOK
    <2>6. InFlightNamed'
      BY <1>2, <2>3, <2>4 DEF IInv, TypeOK, InFlightNamed, User, Read
    <2>7. SuccessStored'
      BY <2>3, <2>4 DEF IInv, TypeOK, SuccessStored, At
    <2>8. QED
      BY <2>4, <2>5, <2>6, <2>7 DEF IInv, AckedAudited, SuccessApplied
  <1>3. QED
    BY <1>1, <1>2

\* A delivery goes on with the same webhook; it comes to a success only when applied.
LEMMA GoOn ==
    ASSUME IInv, NEW r \in Requests, req[r] # Idle, NEW x \in Request,
           x.webhook = req[r].webhook, req' = [req EXCEPT ![r] = x],
           x.pc = "success" => req[r].webhook \in applied',
           applied \subseteq applied', applied' \subseteq applied \cup {req[r].webhook},
           kyc' \in [Users -> KycStatus \cup {NoRow}], failures' \in 0..MaxFailures,
           UNCHANGED <<webhooks, acked, audits, crashes>>
    PROVE  IInv'
  <1>1. req[r].webhook \in Webhooks /\ webhooks[req[r].webhook] # NotSent /\ User(r) # NoUser
    BY Delivery
  <1>2. TypeOK'
    BY <1>1 DEF IInv, TypeOK
  <1>3. InFlightNamed'
    BY <1>1 DEF IInv, TypeOK, InFlightNamed, User
  <1>4. SuccessStored'
    BY DEF IInv, TypeOK, SuccessStored, At
  <1>5. QED
    BY <1>2, <1>3, <1>4 DEF IInv, AckedAudited, SuccessApplied

\* A delivery ends: with an answer and a record, or with an error.
LEMMA EndStep ==
    ASSUME IInv, NEW r \in Requests, req[r] # Idle, Finish(r), failures' \in 0..MaxFailures,
           UNCHANGED <<kyc, webhooks, applied, crashes>>,
           \/ UNCHANGED <<acked, audits>>
           \/ acked' = acked \cup {req[r].webhook} /\ Record(r, "FAILURE")
           \/ acked' = acked \cup {req[r].webhook} /\ Record(r, "SUCCESS") /\ At(r, "success")
    PROVE  IInv'
  <1>1. /\ req[r] \in Request /\ req[r].webhook \in Webhooks
        /\ webhooks[req[r].webhook] # NotSent /\ Status(r) \in KycStatus
    BY Delivery
  <1>2. req' \in [Requests -> Request \cup {Idle}] /\ req'[r] = Idle
        /\ \A q \in Requests \ {r} : req'[q] = req[q]
    BY DEF IInv, TypeOK, Finish
  <1>3. InFlightNamed' /\ SuccessStored'
    BY <1>2 DEF IInv, InFlightNamed, SuccessStored, User, At
  <1>4. CASE UNCHANGED <<acked, audits>>
    <2>1. TypeOK'
      BY <1>2, <1>4 DEF IInv, TypeOK
    <2>2. QED
      BY <1>3, <1>4, <2>1 DEF IInv, AckedAudited, SuccessApplied
  <1>5. ASSUME NEW res \in {"SUCCESS", "FAILURE"}, Record(r, res),
               acked' = acked \cup {req[r].webhook},
               res = "SUCCESS" => req[r].webhook \in applied
        PROVE  IInv'
    <2>1. PICK a : a = [webhook |-> req[r].webhook, result |-> res,
                        previous |-> req[r].previous, status |-> Status(r)]
      OBVIOUS
    <2>2. a \in Audit /\ a.webhook = req[r].webhook /\ a.result = res
      BY <1>1, <2>1 DEF Audit, Request
    <2>3. audits' = audits \cup {a}
      BY <1>5, <2>1 DEF Record
    <2>4. TypeOK'
      BY <1>1, <1>2, <1>5, <2>2, <2>3 DEF IInv, TypeOK
    <2>5. AckedAudited' /\ SuccessApplied'
      BY <1>5, <2>2, <2>3 DEF IInv, AckedAudited, SuccessApplied
    <2>6. QED
      BY <1>3, <2>4, <2>5 DEF IInv
  <1>6. At(r, "success") => req[r].webhook \in applied
    BY DEF IInv, SuccessStored
  <1>7. QED
    BY <1>4, <1>5, <1>6

\* The steps of processWebhookEvent after its read.
LEMMA ProceedStep ==
    ASSUME IInv, NEW r \in Requests, Proceed(r)
    PROVE  IInv'
  <1>1. req[r] # Idle
    BY DEF Proceed, Update, UpdateFails, AuditSuccess, AuditSuccessFails, AuditFailure,
           AuditFailureFails, At
  <1>2. /\ req[r] \in Request /\ req[r].webhook \in Webhooks
        /\ webhooks[req[r].webhook] # NotSent
        /\ User(r) \in Users /\ Status(r) \in KycStatus
    BY <1>1, Delivery
  <1>3. failures \in 0..MaxFailures /\ (Failure => failures' \in 0..MaxFailures)
    BY BoundsAssumption DEF IInv, TypeOK, Failure
  <1>4. CASE Update(r)
    <2>1. PICK x : x = [req[r] EXCEPT !.pc = "success", !.replaced = kyc[User(r)]]
      OBVIOUS
    <2>2. kyc[User(r)] \in KycStatus \cup {NoRow}
      BY <1>2 DEF IInv, TypeOK
    <2>3. x \in Request /\ x.webhook = req[r].webhook
      BY <1>2, <2>1, <2>2, Requested
    <2>4. req' = [req EXCEPT ![r] = x]
      BY <1>4, <2>1 DEF Update, IInv, TypeOK
    <2>5. kyc' \in [Users -> KycStatus \cup {NoRow}]
      BY <1>2, <1>4 DEF Update, IInv, TypeOK
    <2>6. QED
      BY <1>1, <1>3, <1>4, <2>3, <2>4, <2>5, GoOn DEF Update
  <1>5. CASE UpdateFails(r) \/ AuditSuccessFails(r)
    <2>1. PICK x : x = [req[r] EXCEPT !.pc = "failure"]
      OBVIOUS
    <2>2. x \in Request /\ x.webhook = req[r].webhook /\ x.pc = "failure"
      BY <1>2, <2>1, Requested DEF NoRow
    <2>3. req' = [req EXCEPT ![r] = x]
      BY <1>5, <2>1 DEF UpdateFails, AuditSuccessFails, Goto, IInv, TypeOK
    <2>4. failures' \in 0..MaxFailures
          /\ UNCHANGED <<kyc, webhooks, acked, applied, audits, crashes>>
      BY <1>3, <1>5 DEF UpdateFails, AuditSuccessFails
    <2>5. QED
      BY <1>1, <2>2, <2>3, <2>4, GoOn DEF IInv, TypeOK
  <1>6. CASE AuditSuccess(r)
    BY <1>1, <1>3, <1>6, EndStep DEF AuditSuccess, Acknowledge
  <1>7. CASE AuditFailure(r)
    BY <1>1, <1>3, <1>7, EndStep DEF AuditFailure, Acknowledge
  <1>8. CASE AuditFailureFails(r)
    BY <1>1, <1>3, <1>8, EndStep DEF AuditFailureFails
  <1>9. QED
    BY <1>4, <1>5, <1>6, <1>7, <1>8 DEF Proceed

\* The process dies: what was in flight is gone, and Didit was not told.
LEMMA CrashStep ==
    ASSUME IInv, Crash
    PROVE  IInv'
  <1>1. TypeOK'
    BY BoundsAssumption DEF IInv, TypeOK, Crash
  <1>2. QED
    BY <1>1 DEF IInv, Crash, InFlightNamed, SuccessStored, AckedAudited, SuccessApplied, At, User

\* The initial states satisfy the inductive invariant.
LEMMA InitIInv == Init => IInv
  BY BoundsAssumption DEF Init, IInv, TypeOK, InFlightNamed, SuccessStored, AckedAudited,
                          SuccessApplied, At, KycStatus

\* Every step keeps it.
LEMMA NextIInv == IInv /\ [Next]_vars => IInv'
  <1> SUFFICES ASSUME IInv, [Next]_vars PROVE IInv'
    OBVIOUS
  <1>1. CASE Next
    BY <1>1, DecideStep, ReceiveStep, ProceedStep, CrashStep DEF Next
  <1>2. CASE UNCHANGED vars
    BY <1>2 DEF vars, IInv, TypeOK, InFlightNamed, SuccessStored, AckedAudited, SuccessApplied,
                At, User
  <1>3. QED
    BY <1>1, <1>2

\* The inductive invariant holds in every reachable state.
THEOREM Invariance == Spec => []IInv
  BY InitIInv, NextIInv, PTL DEF Spec

\* kycStatus and the audit records hold values of the schema, whatever the events say, and
\* only webhooks that were sent are stored or answered.
THEOREM TypeCorrect == Spec => []TypeOK
  <1>1. IInv => TypeOK
    BY DEF IInv
  <1>2. QED
    BY <1>1, Invariance, PTL

\* A webhook about a user that was answered with 200 has left an audit record, for any
\* number of overlapping and repeated deliveries, failed writes and crashes.
THEOREM AckedAuditedHolds == Spec => []AckedAudited
  <1>1. IInv => AckedAudited
    BY DEF IInv
  <1>2. QED
    BY <1>1, Invariance, PTL

\* No audit record claims a success of a webhook whose status was never stored.
THEOREM SuccessAppliedHolds == Spec => []SuccessApplied
  <1>1. IInv => SuccessApplied
    BY DEF IInv
  <1>2. QED
    BY <1>1, Invariance, PTL

====================================================================================
