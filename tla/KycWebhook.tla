------------------------------- MODULE KycWebhook -------------------------------
(***************************************************************************)
(* Identity verification: Didit webhooks, KycService.processWebhookEvent   *)
(* that stores the status and its audit record in separate writes, and the *)
(* guard that admits a user to offers and orders.                          *)
(*                                                                         *)
(* Didit delivers a webhook until it is answered with 200, and may deliver *)
(* it again after that.  A request with a bad signature or an old          *)
(* timestamp is refused before it touches anything and is left out.        *)
(*                                                                         *)
(* The database makes up userIds and rows of app_user are never deleted,   *)
(* but POST kyc/start opens a session for any id, so a webhook may name a  *)
(* user that does not exist.                                               *)
(***************************************************************************)
EXTENDS Naturals

CONSTANTS
    Users,         \* userIds
    Webhooks,      \* webhook events Didit may send
    Requests,      \* requests the server can have in flight
    RawStatuses,   \* normalised statuses that occur in the events
    MaxFailures,   \* bound: database writes that fail
    MaxCrashes     \* bound: crashes of the process

ASSUME BoundsAssumption == MaxFailures \in Nat /\ MaxCrashes \in Nat

VARIABLES
    kyc,        \* kyc[u]: kycStatus of the user's row, "none" when there is no row
    webhooks,   \* webhooks[d]: what the event says, once Didit sent it
    acked,      \* webhooks answered with 200
    applied,    \* webhooks whose status was stored
    audits,     \* the KYC_STATUS_UPDATED audit records
    req,        \* req[r]: where an in-flight delivery stands
    failures, crashes

vars == <<kyc, webhooks, acked, applied, audits, req, failures, crashes>>

NoRow == "none"
NoUser == "no user"

KycStatus == {"pending", "approved", "rejected", "not_started", "in_progress", "in_review",
              "expired", "kyc_expired", "abandoned", "resubmitted"}

\* The status of the event stored as it is.
KycStatusVerbatim(raw) == raw

\* The status stored for what the event says, lower case with underscores; an event
\* that says nothing known stores pending.
KycStatusOf(raw) ==
    CASE raw \in {"declined", "rejected"}  -> "rejected"
      [] raw \in {"review", "in_review"}   -> "in_review"
      [] raw \in KycStatus \ {"rejected", "in_review"} -> raw
      [] OTHER -> "pending"

NotSent == [user |-> NoUser]
Content == [user: Users \cup {NoUser}, raw: RawStatuses]

Idle == [pc |-> "idle"]

\* previous: the status read before the update; replaced: the one the update overwrote.
Request ==
    [pc: {"update", "success", "failure"}, webhook: Webhooks,
     previous: KycStatus \cup {NoRow}, replaced: KycStatus \cup {NoRow}]

Audit == [webhook: Webhooks, result: {"SUCCESS", "FAILURE"},
          previous: KycStatus \cup {NoRow}, status: KycStatus]

\* Every variable holds a value of its type, and what was stored or answered was sent.
TypeOK ==
    /\ kyc \in [Users -> KycStatus \cup {NoRow}]
    /\ webhooks \in [Webhooks -> Content \cup {NotSent}]
    /\ acked \subseteq {d \in Webhooks : webhooks[d] # NotSent}
    /\ applied \subseteq {d \in Webhooks : webhooks[d] # NotSent}
    /\ audits \subseteq Audit
    /\ req \in [Requests -> Request \cup {Idle}]
    /\ failures \in 0..MaxFailures
    /\ crashes \in 0..MaxCrashes

---------------------------------------------------------------------------------

User(r) == webhooks[req[r].webhook].user
Status(r) == KycStatusOf(webhooks[req[r].webhook].raw)

At(r, pc) == req[r] # Idle /\ req[r].pc = pc
Goto(r, pc) == req' = [req EXCEPT ![r].pc = pc]
Finish(r) == req' = [req EXCEPT ![r] = Idle]

\* The handler returns and the controller answers { received: true }.
Acknowledge(r) ==
    /\ acked' = acked \cup {req[r].webhook}
    /\ Finish(r)

\* One more database write fails.
Failure ==
    /\ failures < MaxFailures
    /\ failures' = failures + 1

---------------------------------------------------------------------------------
(* The environment: Didit and crashes *)

Decide(d, content) ==
    /\ webhooks[d] = NotSent
    /\ webhooks' = [webhooks EXCEPT ![d] = content]
    /\ UNCHANGED <<kyc, acked, applied, audits, req, failures, crashes>>

Crash ==
    /\ crashes < MaxCrashes
    /\ crashes' = crashes + 1
    /\ req' = [r \in Requests |-> Idle]
    /\ UNCHANGED <<kyc, webhooks, acked, applied, audits, failures>>

---------------------------------------------------------------------------------
(* processWebhookEvent *)

\* A webhook that names no user is answered and otherwise ignored.
Ignore(r, d) ==
    /\ req[r] = Idle
    /\ webhooks[d] # NotSent /\ webhooks[d].user = NoUser
    /\ acked' = acked \cup {d}
    /\ UNCHANGED <<kyc, webhooks, applied, audits, req, failures, crashes>>

\* A controller that answers before it awaits the handler.
ReadAcknowledges(r, d) ==
    /\ req[r] = Idle
    /\ webhooks[d] # NotSent /\ webhooks[d].user # NoUser
    /\ acked' = acked \cup {d}
    /\ req' = [req EXCEPT ![r] = [pc |-> "update", webhook |-> d,
                                  previous |-> kyc[webhooks[d].user], replaced |-> NoRow]]
    /\ UNCHANGED <<kyc, webhooks, applied, audits, failures, crashes>>

\* The status before the update is read for the audit record.
Read(r, d) ==
    /\ req[r] = Idle
    /\ webhooks[d] # NotSent /\ webhooks[d].user # NoUser
    /\ req' = [req EXCEPT ![r] = [pc |-> "update", webhook |-> d,
                                  previous |-> kyc[webhooks[d].user], replaced |-> NoRow]]
    /\ UNCHANGED <<kyc, webhooks, acked, applied, audits, failures, crashes>>

Update(r) ==
    /\ At(r, "update")
    /\ kyc[User(r)] # NoRow
    /\ kyc' = [kyc EXCEPT ![User(r)] = Status(r)]
    /\ applied' = applied \cup {req[r].webhook}
    /\ req' = [req EXCEPT ![r].pc = "success", ![r].replaced = kyc[User(r)]]
    /\ UNCHANGED <<webhooks, acked, audits, failures, crashes>>

\* A failed update that is taken for a success.
UpdateFailsQuietly(r) ==
    /\ At(r, "update")
    /\ \/ kyc[User(r)] = NoRow /\ failures' = failures
       \/ kyc[User(r)] # NoRow /\ Failure
    /\ Goto(r, "success")
    /\ UNCHANGED <<kyc, webhooks, acked, applied, audits, crashes>>

\* There is no such user, or the database refuses the write.
UpdateFails(r) ==
    /\ At(r, "update")
    /\ \/ kyc[User(r)] = NoRow /\ failures' = failures
       \/ kyc[User(r)] # NoRow /\ Failure
    /\ Goto(r, "failure")
    /\ UNCHANGED <<kyc, webhooks, acked, applied, audits, crashes>>

Record(r, result) ==
    audits' = audits \cup {[webhook |-> req[r].webhook, result |-> result,
                            previous |-> req[r].previous, status |-> Status(r)]}

\* createOrThrow; an audit record refers to an existing user.
AuditSuccess(r) ==
    /\ At(r, "success")
    /\ kyc[User(r)] # NoRow
    /\ Record(r, "SUCCESS")
    /\ Acknowledge(r)
    /\ UNCHANGED <<kyc, webhooks, applied, failures, crashes>>

\* The audit write of the success throws into the same catch as a failed update.
AuditSuccessFails(r) ==
    /\ At(r, "success")
    /\ Failure
    /\ Goto(r, "failure")
    /\ UNCHANGED <<kyc, webhooks, acked, applied, audits, crashes>>

AuditFailure(r) ==
    /\ At(r, "failure")
    /\ kyc[User(r)] # NoRow
    /\ Record(r, "FAILURE")
    /\ Acknowledge(r)
    /\ UNCHANGED <<kyc, webhooks, applied, failures, crashes>>

\* A catch whose audit write may fail silently (create instead of createOrThrow).
AuditFailureSwallowed(r) ==
    /\ At(r, "failure")
    /\ \/ kyc[User(r)] = NoRow /\ failures' = failures
       \/ kyc[User(r)] # NoRow /\ Failure
    /\ Acknowledge(r)
    /\ UNCHANGED <<kyc, webhooks, applied, audits, crashes>>

\* The audit write of the failure throws: the webhook is answered with an error.
AuditFailureFails(r) ==
    /\ At(r, "failure")
    /\ \/ kyc[User(r)] = NoRow /\ failures' = failures
       \/ kyc[User(r)] # NoRow /\ Failure
    /\ Finish(r)
    /\ UNCHANGED <<kyc, webhooks, acked, applied, audits, crashes>>

---------------------------------------------------------------------------------

Init ==
    /\ kyc \in [Users -> {"pending", NoRow}]
    /\ webhooks = [d \in Webhooks |-> NotSent]
    /\ acked = {} /\ applied = {} /\ audits = {}
    /\ req = [r \in Requests |-> Idle]
    /\ failures = 0 /\ crashes = 0

Proceed(r) ==
    \/ Update(r)
    \/ UpdateFails(r)
    \/ AuditSuccess(r)
    \/ AuditSuccessFails(r)
    \/ AuditFailure(r)
    \/ AuditFailureFails(r)

Next ==
    \/ \E d \in Webhooks, content \in Content : Decide(d, content)
    \/ \E r \in Requests, d \in Webhooks : Ignore(r, d) \/ Read(r, d)
    \/ \E r \in Requests : Proceed(r)
    \/ Crash

Spec == Init /\ [][Next]_vars

\* A delivery under way goes on, and Didit repeats a webhook until it is answered.
Fairness ==
    /\ \A r \in Requests : WF_vars(Proceed(r))
    /\ \A d \in Webhooks : SF_vars(d \notin acked /\ \E r \in Requests : Read(r, d))

FairSpec == Spec /\ Fairness

---------------------------------------------------------------------------------
(* Properties *)

\* A webhook about a user that was answered with 200 has left an audit record, whatever
\* writes failed and whenever the process died: processWebhookEvent lets no update go
\* unaudited unless Didit is told to come again.
AckedAudited ==
    \A d \in acked : webhooks[d].user # NoUser => \E a \in audits : a.webhook = d

\* The audit trail claims no success that did not happen.
SuccessApplied == \A a \in audits : a.result = "SUCCESS" => a.webhook \in applied

\* The comment in processWebhookEvent: "Capture the pre-update status so the audit
\* record shows the actual transition (previousStatus -> newStatus)".
AuditShowsTransition ==
    [][\A r \in Requests : AuditSuccess(r) => req[r].previous = req[r].replaced]_vars

\* The contract of createOrThrow: "the caller is expected to abort/roll back the
\* operation on failure".  A delivery recorded as a failure stored nothing.
FailureRolledBack ==
    [][\A r \in Requests : AuditFailure(r) => req[r].replaced = NoRow]_vars

\* No decision about a registered user vanishes, whatever fails and whenever the process
\* dies: processWebhookEvent stores it, or the audit trail says that it failed.
DecisionSettled ==
    \A d \in Webhooks :
        webhooks[d].user # NoUser /\ kyc[webhooks[d].user] # NoRow ~>
            \/ d \in applied
            \/ \E a \in audits : a.webhook = d /\ a.result = "FAILURE"

\* A decision Didit sends about a registered user is eventually stored.
DecisionApplied ==
    \A d \in Webhooks :
        webhooks[d].user # NoUser /\ kyc[webhooks[d].user] # NoRow ~> d \in applied

=================================================================================
