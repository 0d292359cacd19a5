------------------------- MODULE NotificationOutbox -------------------------
(***************************************************************************)
(* The durable notification outbox: producers commit rows, any number of   *)
(* dispatcher processes claim them under a renewable lease, build the      *)
(* message, hand it to SMTP and close the row (app/notifications).         *)
(*                                                                         *)
(* Every action is one committed SQL transaction, or one step outside SQL  *)
(* (an SMTP answer, a process death, the passing of time).  Time is kept   *)
(* as remaining ticks: lease[e] = 0 is `claimed_at <= now - lease`,        *)
(* wait[e] = 0 is `available_at <= now`, retain[e] = 0 is `processed_at <= *)
(* now - retention`.                                                       *)
(***************************************************************************)
EXTENDS Integers, FiniteSets

CONSTANTS
    NumEvents,     \* rows ever published; ids are 1..NumEvents (bound)
    Workers,       \* dispatcher processes ever started: one uuid4 worker_id each
    None,          \* the SQL NULL of claimed_by, processing_result, and "no job"
    Lease,         \* lease_seconds, in ticks
    RetryMax,      \* retry_max_seconds, in ticks
    Retention,     \* retention_seconds, in ticks
    CleanupBatch,  \* cleanup_batch_size
    MailDisabled,  \* the worker processes whose settings have mail.enabled = False
    Poison,        \* rows whose payload, builder or template can never work
    Timely,        \* TRUE: no tick overtakes a heartbeat that is due
    MaxFaults,     \* deaths, stops and failing calls in a behaviour (bound)
    MaxMails       \* the count of accepted mails saturates here (bound)

Events == 1..NumEvents
HeartbeatInterval == IF Lease \div 3 > 1 THEN Lease \div 3 ELSE 1

Delivered == "delivered"
EmailDisabled == "discarded_email_disabled"
TargetUnavailable == "discarded_target_unavailable"
FailedPermanent == "failed_permanent"
Results == {Delivered, EmailDisabled, TargetUnavailable, FailedPermanent}

ASSUME OutboxAssumption ==
    /\ NumEvents \in Nat \ {0}
    /\ IsFiniteSet(Workers)
    /\ None \notin Workers /\ None \notin Events /\ None \notin Results
    /\ Lease \in Nat /\ Lease > 1
    /\ RetryMax \in Nat \ {0}
    /\ Retention \in Nat
    /\ CleanupBatch \in Nat \ {0}
    /\ MailDisabled \subseteq Workers
    /\ Poison \subseteq Events
    /\ Timely \in BOOLEAN
    /\ MaxFaults \in Nat
    /\ MaxMails \in Nat \ {0}

VARIABLES
    status,    \* of the row: not inserted, processed_at NULL, processed_at set, deleted
    owner,     \* claimed_by
    lease,     \* ticks until the claim may be taken over
    wait,      \* ticks until available_at
    attempts,  \* attempt_count
    result,    \* processing_result
    retain,    \* ticks until a processed row may be purged
    pc,        \* where each dispatcher process is
    job,       \* event_db_id it is working on
    outcome,   \* processing_result it is about to record
    hb,        \* its lease heartbeat task
    beat,      \* ticks until that task wakes up
    mails,     \* history: how often SMTP accepted the row's message
    faults     \* history: faults so far

rowVars == <<status, owner, lease, wait, attempts, result, retain>>
workerVars == <<pc, job, outcome, hb, beat>>
vars == <<rowVars, workerVars, mails, faults>>

Status == {"absent", "pending", "processed", "purged"}
PC == {"down", "poll", "claimed", "process", "sending", "finalize",
       "transient", "permanent", "orphan", "dead"}
Heartbeats == {"off", "on", "lost"}

-----------------------------------------------------------------------------
(* Retry backoff (lease.py).                                               *)

BitLength(n) == CHOOSE k \in 0..n : n < 2^k /\ \A j \in 0..(k - 1) : 2^j <= n

RetryDelay(attempt, maximum) ==
    IF attempt >= BitLength(maximum) THEN maximum
    ELSE IF 2^attempt < maximum THEN 2^attempt ELSE maximum

\* attempt_count saturates where RetryDelay has become constant.
AttemptCap == BitLength(RetryMax)

-----------------------------------------------------------------------------
Init ==
    /\ status = [e \in Events |-> "absent"]
    /\ owner = [e \in Events |-> None]
    /\ lease = [e \in Events |-> 0]
    /\ wait = [e \in Events |-> 0]
    /\ attempts = [e \in Events |-> 0]
    /\ result = [e \in Events |-> None]
    /\ retain = [e \in Events |-> 0]
    /\ pc = [w \in Workers |-> "down"]
    /\ job = [w \in Workers |-> None]
    /\ outcome = [w \in Workers |-> None]
    /\ hb = [w \in Workers |-> "off"]
    /\ beat = [w \in Workers |-> 0]
    /\ mails = [e \in Events |-> 0]
    /\ faults = 0

\* Mutant: the WHERE clause forgets claimed_by.
OwnsUnchecked(w) == status[job[w]] = "pending"

\* The row the WHERE clauses of a claimed delivery address.
Owns(w) == owner[job[w]] = w /\ status[job[w]] = "pending"

\* w gives its job up and returns to the polling loop; its heartbeat stops.
BackToPoll(w) ==
    /\ pc' = [pc EXCEPT ![w] = "poll"]
    /\ job' = [job EXCEPT ![w] = None]
    /\ outcome' = [outcome EXCEPT ![w] = None]
    /\ hb' = [hb EXCEPT ![w] = "off"]
    /\ beat' = [beat EXCEPT ![w] = 0]

\* _process_claimed raised: the heartbeat is stopped before the error is recorded.
Raise(w, kind) ==
    /\ pc' = [pc EXCEPT ![w] = kind]
    /\ outcome' = [outcome EXCEPT ![w] = None]
    /\ hb' = [hb EXCEPT ![w] = "off"]
    /\ beat' = [beat EXCEPT ![w] = 0]
    /\ UNCHANGED job

\* _process_claimed goes on to `next`, to record `r` when it gets there.
Proceed(w, next, r) ==
    /\ pc' = [pc EXCEPT ![w] = next]
    /\ outcome' = [outcome EXCEPT ![w] = r]
    /\ UNCHANGED <<job, hb, beat>>

Fault == faults < MaxFaults /\ faults' = faults + 1
NoFault == UNCHANGED faults

Accepted(e) ==
    mails' = [mails EXCEPT ![e] = IF @ < MaxMails THEN @ + 1 ELSE @]

-----------------------------------------------------------------------------
\* A producer's business transaction commits together with its outbox row.
Publish(e) ==
    /\ status[e] = "absent"
    /\ \A d \in Events : d < e => status[d] # "absent"
    /\ status' = [status EXCEPT ![e] = "pending"]
    /\ UNCHANGED <<owner, lease, wait, attempts, result, retain,
                   workerVars, mails, faults>>

\* A dispatcher process starts with a worker_id nobody has used.
Start(w) ==
    /\ pc[w] = "down"
    /\ pc' = [pc EXCEPT ![w] = "poll"]
    /\ UNCHANGED <<rowVars, job, outcome, hb, beat, mails, faults>>

\* Mutants: the lease is not looked at; an expired claim is not taken over.
DeliverableUnleased(e) == status[e] = "pending" /\ wait[e] = 0
DeliverableUnclaimed(e) == status[e] = "pending" /\ wait[e] = 0 /\ owner[e] = None

Deliverable(e) ==
    /\ status[e] = "pending"
    /\ wait[e] = 0
    /\ owner[e] = None \/ lease[e] = 0

\* _claim_pending with limit=1: the lowest deliverable id.
Claim(w, e) ==
    /\ pc[w] = "poll"
    /\ Deliverable(e)
    /\ \A d \in Events : Deliverable(d) => e <= d
    /\ owner' = [owner EXCEPT ![e] = w]
    /\ lease' = [lease EXCEPT ![e] = Lease]
    /\ pc' = [pc EXCEPT ![w] = "claimed"]
    /\ job' = [job EXCEPT ![w] = e]
    /\ UNCHANGED <<status, wait, attempts, result, retain,
                   outcome, hb, beat, mails, faults>>

\* The correlation id is read and the heartbeat task created ...
BeginDelivery(w) ==
    /\ pc[w] = "claimed"
    /\ pc' = [pc EXCEPT ![w] = "process"]
    /\ hb' = [hb EXCEPT ![w] = "on"]
    /\ beat' = [beat EXCEPT ![w] = HeartbeatInterval]
    /\ UNCHANGED <<rowVars, job, outcome, mails, faults>>

\* ... or that read fails: the error leaves dispatch_pending_once and the claim stays.
ClaimAbandoned(w) ==
    /\ pc[w] = "claimed"
    /\ Fault
    /\ BackToPoll(w)
    /\ UNCHANGED <<rowVars, mails>>

-----------------------------------------------------------------------------
(* _process_claimed up to the send: one transaction that reads the row and *)
(* builds the message.                                                     *)

\* The row is no longer this worker's.
LeaseLost(w) ==
    /\ pc[w] = "process"
    /\ ~Owns(w)
    /\ BackToPoll(w)
    /\ UNCHANGED <<rowVars, mails, faults>>

PayloadInvalid(w) ==
    /\ pc[w] = "process"
    /\ Owns(w)
    /\ job[w] \in Poison
    /\ Raise(w, "permanent")
    /\ UNCHANGED <<rowVars, mails, faults>>

\* Mail disabled: nothing is built, no workflow token is touched.
DiscardDisabled(w) ==
    /\ pc[w] = "process"
    /\ Owns(w)
    /\ w \in MailDisabled
    /\ Proceed(w, "finalize", EmailDisabled)
    /\ UNCHANGED <<rowVars, mails, faults>>

\* The builder answers with a message, or with None when its target is gone.
Build(w) ==
    /\ pc[w] = "process"
    /\ Owns(w)
    /\ w \notin MailDisabled
    /\ \/ Proceed(w, "sending", Delivered)
       \/ Proceed(w, "finalize", TargetUnavailable)
    /\ UNCHANGED <<rowVars, mails, faults>>

\* SQLITE_BUSY, a missing derivation key, ...: a retryable error.
BuildFails(w) ==
    /\ pc[w] = "process"
    /\ Fault
    /\ Raise(w, "transient")
    /\ UNCHANGED <<rowVars, mails>>

-----------------------------------------------------------------------------
(* The SMTP conversation, outside any transaction.                         *)

SendAccepted(w) ==
    /\ pc[w] = "sending"
    /\ job[w] \notin Poison
    /\ Accepted(job[w])
    /\ Proceed(w, "finalize", outcome[w])
    /\ UNCHANGED <<rowVars, faults>>

\* The server refuses, or accepts and the connection breaks before its answer.
SendFails(w) ==
    /\ pc[w] = "sending"
    /\ job[w] \notin Poison
    /\ Fault
    /\ Accepted(job[w]) \/ UNCHANGED mails
    /\ Raise(w, "transient")
    /\ UNCHANGED rowVars

TemplateFails(w) ==
    /\ pc[w] = "sending"
    /\ job[w] \in Poison
    /\ Raise(w, "permanent")
    /\ UNCHANGED <<rowVars, mails, faults>>

-----------------------------------------------------------------------------
\* Mutant: the claim is not cleared with the result.
RecordResultClaimed(w, r) ==
    LET e == job[w] IN
    IF Owns(w)
    THEN /\ status' = [status EXCEPT ![e] = "processed"]
         /\ result' = [result EXCEPT ![e] = r]
         /\ retain' = [retain EXCEPT ![e] = Retention]
         /\ UNCHANGED <<owner, lease, wait, attempts>>
    ELSE UNCHANGED rowVars

\* The UPDATE of _finalize_claim; it matches no row when the claim was lost.
RecordResult(w, r) ==
    LET e == job[w] IN
    IF Owns(w)
    THEN /\ status' = [status EXCEPT ![e] = "processed"]
         /\ owner' = [owner EXCEPT ![e] = None]
         /\ lease' = [lease EXCEPT ![e] = 0]
         /\ result' = [result EXCEPT ![e] = r]
         /\ retain' = [retain EXCEPT ![e] = Retention]
         /\ UNCHANGED <<wait, attempts>>
    ELSE UNCHANGED rowVars

Finalize(w) ==
    /\ pc[w] = "finalize"
    /\ RecordResult(w, outcome[w])
    /\ BackToPoll(w)
    /\ UNCHANGED <<mails, faults>>

\* The UPDATE raises: the delivery counts as failed although the mail may be out.
FinalizeFails(w) ==
    /\ pc[w] = "finalize"
    /\ Fault
    /\ Raise(w, "transient")
    /\ UNCHANGED <<rowVars, mails>>

RecordPermanentFailure(w) ==
    /\ pc[w] = "permanent"
    /\ RecordResult(w, FailedPermanent)
    /\ BackToPoll(w)
    /\ UNCHANGED <<mails, faults>>

\* Mutant: the failure is recorded whoever holds the claim.
RescheduleUnchecked(w) ==
    LET e == job[w]
        n == IF attempts[e] < AttemptCap THEN attempts[e] + 1 ELSE attempts[e]
    IN  /\ pc[w] = "transient"
        /\ attempts' = [attempts EXCEPT ![e] = n]
        /\ wait' = [wait EXCEPT ![e] = RetryDelay(n, RetryMax)]
        /\ owner' = [owner EXCEPT ![e] = None]
        /\ lease' = [lease EXCEPT ![e] = 0]
        /\ BackToPoll(w)
        /\ UNCHANGED <<status, result, retain, mails, faults>>

\* Releases the claim and backs off; the WHERE clause names claimed_by only.
Reschedule(w) ==
    LET e == job[w]
        n == IF attempts[e] < AttemptCap THEN attempts[e] + 1 ELSE attempts[e]
    IN  /\ pc[w] = "transient"
        /\ IF owner[e] = w
           THEN /\ attempts' = [attempts EXCEPT ![e] = n]
                /\ wait' = [wait EXCEPT ![e] = RetryDelay(n, RetryMax)]
                /\ owner' = [owner EXCEPT ![e] = None]
                /\ lease' = [lease EXCEPT ![e] = 0]
                /\ UNCHANGED <<status, result, retain>>
           ELSE UNCHANGED rowVars
        /\ BackToPoll(w)
        /\ UNCHANGED <<mails, faults>>

\* Recording the failure fails too: the polling loop logs it and the claim stays.
RecordFails(w) ==
    /\ pc[w] \in {"transient", "permanent"}
    /\ Fault
    /\ BackToPoll(w)
    /\ UNCHANGED <<rowVars, mails>>

-----------------------------------------------------------------------------
(* _renew_lease, a task beside the delivery.                               *)

\* Mutant: the renewal writes nothing.
HeartbeatIdle(w) ==
    /\ hb[w] = "on"
    /\ beat[w] = 0
    /\ beat' = [beat EXCEPT ![w] = HeartbeatInterval]
    /\ UNCHANGED <<rowVars, pc, job, outcome, hb, mails, faults>>

Heartbeat(w) ==
    /\ hb[w] = "on"
    /\ beat[w] = 0
    /\ lease' = IF Owns(w) THEN [lease EXCEPT ![job[w]] = Lease] ELSE lease
    /\ beat' = [beat EXCEPT ![w] = HeartbeatInterval]
    /\ UNCHANGED <<status, owner, wait, attempts, result, retain,
                   pc, job, outcome, hb, mails, faults>>

\* Any exception ends the task for the rest of the delivery.
HeartbeatDies(w) ==
    /\ hb[w] = "on"
    /\ beat[w] = 0
    /\ Fault
    /\ hb' = [hb EXCEPT ![w] = "lost"]
    /\ UNCHANGED <<rowVars, pc, job, outcome, beat, mails>>

\* The oldest CleanupBatch rows whose retention is over are deleted.
Cleanup(w) ==
    LET expired == {e \in Events : status[e] = "processed" /\ retain[e] = 0}
        batch == {e \in expired :
                    Cardinality({d \in expired : d < e}) < CleanupBatch}
    IN  /\ pc[w] = "poll"
        /\ expired # {}
        /\ status' = [e \in Events |-> IF e \in batch THEN "purged" ELSE status[e]]
        /\ result' = [e \in Events |-> IF e \in batch THEN None ELSE result[e]]
        /\ UNCHANGED <<owner, lease, wait, attempts, retain,
                       workerVars, mails, faults>>

\* The process ends: SIGKILL, a cooperative stop, or cancellation after the
\* shutdown deadline, which leaves the SMTP thread running.
Die(w) ==
    /\ pc[w] \notin {"down", "orphan", "dead"}
    /\ Fault
    /\ \/ pc' = [pc EXCEPT ![w] = "dead"] /\ job' = [job EXCEPT ![w] = None]
       \/ pc[w] = "sending" /\ pc' = [pc EXCEPT ![w] = "orphan"] /\ UNCHANGED job
    /\ outcome' = [outcome EXCEPT ![w] = None]
    /\ hb' = [hb EXCEPT ![w] = "off"]
    /\ beat' = [beat EXCEPT ![w] = 0]
    /\ UNCHANGED <<rowVars, mails>>

OrphanThreadEnds(w) ==
    /\ pc[w] = "orphan"
    /\ (job[w] \notin Poison /\ Accepted(job[w])) \/ UNCHANGED mails
    /\ pc' = [pc EXCEPT ![w] = "dead"]
    /\ job' = [job EXCEPT ![w] = None]
    /\ UNCHANGED <<rowVars, outcome, hb, beat, faults>>

-----------------------------------------------------------------------------
Less(f) == [x \in DOMAIN f |-> IF f[x] > 0 THEN f[x] - 1 ELSE 0]

\* Timely: the event loop and SQLite serve a due heartbeat, and the few reads
\* between a claim and its first heartbeat, within a tick.
HeartbeatsServed == \A w \in Workers : pc[w] # "claimed" /\ (hb[w] = "on" => beat[w] > 0)

Tick ==
    /\ Timely => HeartbeatsServed
    /\ lease' = Less(lease)
    /\ wait' = Less(wait)
    /\ retain' = Less(retain)
    /\ beat' = Less(beat)
    /\ UNCHANGED <<status, owner, attempts, result, pc, job, outcome, hb, mails, faults>>

\* What w does of itself once it runs: every step but the failing ones.
Work(w) ==
    \/ \E e \in Events : Claim(w, e)
    \/ BeginDelivery(w)
    \/ LeaseLost(w) \/ PayloadInvalid(w) \/ DiscardDisabled(w) \/ Build(w)
    \/ SendAccepted(w) \/ TemplateFails(w)
    \/ Finalize(w) \/ RecordPermanentFailure(w) \/ Reschedule(w)
    \/ OrphanThreadEnds(w)

Failure(w) ==
    \/ ClaimAbandoned(w) \/ BuildFails(w) \/ SendFails(w) \/ FinalizeFails(w)
    \/ RecordFails(w) \/ HeartbeatDies(w) \/ Die(w)

Next ==
    \/ \E e \in Events : Publish(e)
    \/ \E w \in Workers : Start(w) \/ Work(w) \/ Heartbeat(w) \/ Cleanup(w) \/ Failure(w)
    \/ Tick

Spec == Init /\ [][Next]_vars

\* Processes are (re)started by their supervisor, run, and time passes; a worker does not
\* come too late every time it records a permanent failure, for which no heartbeat keeps
\* the lease.
\* Nothing is assumed of producers, of cleanup or of failures.
FairSpec ==
    /\ Spec
    /\ \A w \in Workers : WF_vars(Start(w)) /\ WF_vars(Work(w)) /\ WF_vars(Heartbeat(w))
    /\ \A w \in Workers : SF_vars(RecordPermanentFailure(w) /\ Owns(w))
    /\ WF_vars(Tick)

-----------------------------------------------------------------------------
(* Properties.                                                             *)

\* The CHECK constraints claim_pair, processing_pair and processed_unclaimed.
RowChecks ==
    \A e \in Events :
        /\ owner[e] = None => lease[e] = 0
        /\ owner[e] # None => status[e] = "pending"
        /\ result[e] # None <=> status[e] = "processed"

\* Every variable has its type and every stored row passes the CHECK
\* constraints of notification_outbox, so that no UPDATE of the workers is
\* refused by SQLite; no row waits longer than retry_max_seconds.
TypeOK ==
    /\ status \in [Events -> Status]
    /\ owner \in [Events -> Workers \cup {None}]
    /\ lease \in [Events -> 0..Lease]
    /\ wait \in [Events -> {d \in Int : d <= RetryMax}]
    /\ attempts \in [Events -> Nat]
    /\ result \in [Events -> Results \cup {None}]
    /\ retain \in [Events -> 0..Retention]
    /\ pc \in [Workers -> PC]
    /\ job \in [Workers -> Events \cup {None}]
    /\ outcome \in [Workers -> Results \cup {None}]
    /\ hb \in [Workers -> Heartbeats]
    /\ beat \in [Workers -> 0..HeartbeatInterval]
    /\ mails \in [Events -> Nat]
    /\ faults \in 0..MaxFaults
    /\ RowChecks

Delivering(w) == pc[w] \in {"claimed", "process", "sending", "finalize"}

\* A row is closed as "delivered" only if the mail server accepted its message:
\* no interleaving of takeovers, lost claims and retries lets a worker record a
\* success that belongs to nobody (_process_claimed, _finalize_claim).
DeliveredWasMailed ==
    \A e \in Events : result[e] = Delivered => mails[e] > 0

\* While a lease is live, only its holder's own step ends the claim or closes the
\* row: finalize, reschedule and claim of every other process leave it alone, also
\* the late ones of a worker whose lease was taken over (lease.py).
LiveClaimEndsOnlyByHolder ==
    [][\A e \in Events :
         /\ owner[e] # None /\ lease[e] > 0
         /\ owner'[e] # owner[e] \/ status'[e] # status[e] \/ attempts'[e] # attempts[e]
         => pc'[owner[e]] # pc[owner[e]]]_vars

\* A closed row keeps its outcome until it is purged, and a purged row stays
\* away: no straggler reopens, reschedules or re-records it, although
\* _reschedule never looks at processed_at.
ClosedRowsAreFinal ==
    [][\A e \in Events :
         /\ status[e] = "processed" =>
              \/ /\ status'[e] = "processed"
                 /\ <<owner'[e], result'[e], attempts'[e], wait'[e]>>
                      = <<None, result[e], attempts[e], 0>>
              \/ status'[e] = "purged" /\ retain[e] = 0
         /\ status[e] = "purged" => status'[e] = "purged"]_vars

\* With heartbeats served in time, two processes are inside the delivery of one
\* row only when the heartbeat task of one of them has died (_renew_lease).
OneDeliveryAtATime ==
    Timely => \A v, w \in Workers :
        /\ v # w /\ job[v] = job[w]
        /\ Delivering(v) /\ Delivering(w)
        => hb[v] = "lost" \/ hb[w] = "lost"

\* With heartbeats served in time, every duplicate mail is paid for by a fault: a
\* death, a failing call or an answer lost (the documented at-least-once delivery).
DuplicatesNeedFaults ==
    Timely => \A e \in Events : mails[e] <= 1 + faults

\* What the outbox promises its producers.
Contract == INSTANCE OutboxContract WITH
    state <- [e \in Events |-> IF status[e] = "processed" THEN result[e] ELSE status[e]],
    mailed <- {e \in Events : mails[e] > 0}

\* Every committed row is eventually closed, each close is truthful, and rows
\* leave only after they were closed: crash recovery through expired leases,
\* backoff and takeover implement the contract (dispatcher.py, lease.py).
ImplementsContract == Contract!FairSpec
=============================================================================
