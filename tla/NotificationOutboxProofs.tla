---------------------- MODULE NotificationOutboxProofs ----------------------
(* Theorems about NotificationOutbox, for every value of its constants.    *)
EXTENDS NotificationOutbox, FiniteSetTheorems, TLAPS

-----------------------------------------------------------------------------
(* Facts about the constants and the helpers.                              *)

\* The heartbeat interval max(1, lease / 3) is a positive number below the lease.
LEMMA IntervalType ==
    /\ HeartbeatInterval \in Nat
    /\ 0 < HeartbeatInterval /\ HeartbeatInterval < Lease
  BY OutboxAssumption DEF HeartbeatInterval

\* _retry_delay_seconds never exceeds the configured maximum.
LEMMA RetryDelayBounded ==
    ASSUME NEW n \in Nat
    PROVE  RetryDelay(n, RetryMax) \in {d \in Int : d <= RetryMax}
  <1>1. 2^n \in Int
    OBVIOUS
  <1>2. QED
    BY <1>1, OutboxAssumption DEF RetryDelay

\* A passing tick keeps a countdown within its bound.
LEMMA LessType ==
    ASSUME NEW S, NEW f, NEW B \in Nat, f \in [S -> 0..B]
    PROVE  Less(f) \in [S -> 0..B]
  BY DEF Less

-----------------------------------------------------------------------------
(* Type correctness.                                                       *)

\* The initial state has the types.
LEMMA InitType == Init => TypeOK
  BY OutboxAssumption, IntervalType
     DEF Init, TypeOK, RowChecks, Status, PC, Heartbeats, Results

\* The row part of the type invariant, and the worker part.
RowsOK ==
    /\ status \in [Events -> Status]
    /\ owner \in [Events -> Workers \cup {None}]
    /\ lease \in [Events -> 0..Lease]
    /\ wait \in [Events -> {d \in Int : d <= RetryMax}]
    /\ attempts \in [Events -> Nat]
    /\ result \in [Events -> Results \cup {None}]
    /\ retain \in [Events -> 0..Retention]
    /\ RowChecks

WorkersOK ==
    /\ pc \in [Workers -> PC]
    /\ job \in [Workers -> Events \cup {None}]
    /\ outcome \in [Workers -> Results \cup {None}]
    /\ hb \in [Workers -> Heartbeats]
    /\ beat \in [Workers -> 0..HeartbeatInterval]

CountsOK ==
    /\ mails \in [Events -> Nat]
    /\ faults \in 0..MaxFaults

\* TypeOK is the conjunction of its parts.
LEMMA TypeSplit == TypeOK <=> RowsOK /\ WorkersOK /\ CountsOK
  BY DEF TypeOK, RowsOK, WorkersOK, CountsOK

-----------------------------------------------------------------------------
(* The inductive invariant.                                                *)

\* What a worker knows at each point of a delivery: it has a job from the claim
\* on, a message on its way is recorded as delivered, it reaches the UPDATE with
\* an outcome, and with "delivered" only after SMTP accepted; its heartbeat runs,
\* or has died, exactly from the correlation read to the end of the UPDATE.
WorkerInv(w) ==
    /\ pc[w] \notin {"down", "poll", "dead"} => job[w] \in Events
    /\ pc[w] = "sending" => outcome[w] = Delivered
    /\ pc[w] = "finalize" => /\ outcome[w] \in Results
                             /\ outcome[w] = Delivered => mails[job[w]] > 0
    /\ hb[w] # "off" <=> pc[w] \in {"process", "sending", "finalize"}

\* A row that is claimed or closed waits for nothing.
NoWait == \A e \in Events : owner[e] # None \/ status[e] = "processed" => wait[e] = 0

\* A delivery whose heartbeat has not died owns its row, and the lease is as long
\* as the last renewal made it: beat counts the same ticks.
Secure(w) ==
    Delivering(w) /\ hb[w] # "lost" =>
        /\ Owns(w)
        /\ IF hb[w] = "on" THEN lease[job[w]] + HeartbeatInterval >= Lease + beat[w]
                           ELSE lease[job[w]] = Lease

\* A job was a published row when it was claimed, and stays one.
Published(w) == job[w] # None => status[job[w]] # "absent"

Inv ==
    /\ TypeOK
    /\ \A w \in Workers : WorkerInv(w)
    /\ \A w \in Workers : Published(w)
    /\ DeliveredWasMailed
    /\ NoWait
    /\ Timely => \A w \in Workers : Secure(w)

\* The account behind DuplicatesNeedFaults.  A process may still send for e until
\* its SMTP conversation is over; e is attended while a delivery with a living
\* heartbeat owns it.  Mails sent and mails possible stay within 1 + faults, and
\* within faults whenever the next claim of e is possible.
MaySend(w) == pc[w] \in {"claimed", "process", "sending", "orphan"}
Senders(e) == {w \in Workers : job[w] = e /\ MaySend(w)}
Attended(e) == \E w \in Workers : job[w] = e /\ Delivering(w) /\ hb[w] # "lost"
Budget(e) ==
    LET account == mails[e] + Cardinality(Senders(e))
    IN  /\ account <= 1 + faults
        /\ status[e] \in {"absent", "pending"} /\ ~Attended(e) => account <= faults

-----------------------------------------------------------------------------
(* Which actions touch what.                                               *)

\* Only eight actions write rows.
LEMMA RowActions ==
    ASSUME Next
    PROVE  \/ UNCHANGED rowVars
           \/ \E e \in Events : Publish(e)
           \/ \E w \in Workers : \/ \E e \in Events : Claim(w, e)
                                 \/ Finalize(w) \/ RecordPermanentFailure(w)
                                 \/ Reschedule(w) \/ Heartbeat(w) \/ Cleanup(w)
           \/ Tick
  BY DEF Next, Work, Failure, Start, BeginDelivery, ClaimAbandoned, LeaseLost,
         PayloadInvalid, DiscardDisabled, Build, BuildFails, SendAccepted,
         SendFails, TemplateFails, FinalizeFails, RecordFails, HeartbeatDies,
         Die, OrphanThreadEnds

\* The UPDATE of _finalize_claim, when it is given a result, keeps the rows valid.
LEMMA RecordResultRows ==
    ASSUME RowsOK, NEW w \in Workers, NEW r \in Results,
           job[w] \in Events, RecordResult(w, r)
    PROVE  RowsOK'
  <1>1. CASE ~Owns(w)
    BY <1>1 DEF RecordResult, RowsOK, RowChecks, rowVars
  <1>2. CASE Owns(w)
    <2>1. RowChecks'
      BY <1>2, OutboxAssumption DEF RecordResult, RowsOK, RowChecks, Owns
    <2>2. QED
      BY <1>2, <2>1, OutboxAssumption DEF RecordResult, RowsOK, Status
  <1>3. QED
    BY <1>1, <1>2

\* Every step keeps the types of the rows.
LEMMA RowsStep ==
    ASSUME Inv, [Next]_vars
    PROVE  RowsOK'
  <1> RowsOK /\ \A w \in Workers : WorkerInv(w)
    BY TypeSplit DEF Inv
  <1> USE OutboxAssumption
  <1>1. CASE UNCHANGED rowVars
    BY <1>1 DEF rowVars, RowsOK, RowChecks
  <1>2. ASSUME NEW e \in Events, Publish(e)
        PROVE  RowsOK'
    BY <1>2 DEF Publish, RowsOK, RowChecks, Status
  <1>3. ASSUME NEW w \in Workers, NEW e \in Events, Claim(w, e)
        PROVE  RowsOK'
    BY <1>3 DEF Claim, Deliverable, RowsOK, RowChecks, Status
  <1>4. ASSUME NEW w \in Workers, Finalize(w)
        PROVE  RowsOK'
    <2>1. job[w] \in Events /\ outcome[w] \in Results
      BY <1>4 DEF Finalize, WorkerInv
    <2>2. QED
      BY <1>4, <2>1, RecordResultRows DEF Finalize
  <1>5. ASSUME NEW w \in Workers, RecordPermanentFailure(w)
        PROVE  RowsOK'
    <2>1. job[w] \in Events
      BY <1>5 DEF RecordPermanentFailure, WorkerInv
    <2>2. QED
      BY <1>5, <2>1, RecordResultRows DEF RecordPermanentFailure, Results
  <1>6. ASSUME NEW w \in Workers, Reschedule(w)
        PROVE  RowsOK'
    <2>1. job[w] \in Events
      BY <1>6 DEF Reschedule, WorkerInv
    <2>2. CASE owner[job[w]] # w
      BY <1>6, <2>2 DEF Reschedule, rowVars, RowsOK, RowChecks
    <2>3. CASE owner[job[w]] = w
      <3> DEFINE n == IF attempts[job[w]] < AttemptCap
                      THEN attempts[job[w]] + 1 ELSE attempts[job[w]]
      <3>1. n \in Nat
        BY <2>1 DEF RowsOK
      <3>2. RetryDelay(n, RetryMax) \in {d \in Int : d <= RetryMax}
        BY <3>1, RetryDelayBounded
      <3> HIDE DEF n
      <3>3. /\ attempts' = [attempts EXCEPT ![job[w]] = n]
            /\ wait' = [wait EXCEPT ![job[w]] = RetryDelay(n, RetryMax)]
            /\ owner' = [owner EXCEPT ![job[w]] = None]
            /\ lease' = [lease EXCEPT ![job[w]] = 0]
            /\ UNCHANGED <<status, result, retain>>
        BY <1>6, <2>3 DEF Reschedule, n
      <3>4. RowChecks'
        BY <2>1, <3>3 DEF RowsOK, RowChecks
      <3>5. /\ wait' \in [Events -> {d \in Int : d <= RetryMax}]
            /\ attempts' \in [Events -> Nat]
        BY <3>1, <3>2, <3>3 DEF RowsOK
      <3>6. QED
        BY <3>3, <3>4, <3>5 DEF RowsOK
    <2>4. QED
      BY <2>2, <2>3
  <1>7. ASSUME NEW w \in Workers, Heartbeat(w)
        PROVE  RowsOK'
    <2>1. job[w] \in Events
      BY <1>7 DEF Heartbeat, WorkerInv
    <2>2. lease' \in [Events -> 0..Lease]
      BY <1>7, <2>1 DEF Heartbeat, RowsOK
    <2>3. QED
      BY <1>7, <2>1, <2>2 DEF Heartbeat, Owns, RowsOK, RowChecks
  <1>8. ASSUME NEW w \in Workers, Cleanup(w)
        PROVE  RowsOK'
    BY <1>8 DEF Cleanup, RowsOK, RowChecks, Status
  <1>9. CASE Tick
    BY <1>9 DEF Tick, Less, RowsOK, RowChecks
  <1>10. QED
    BY <1>1, <1>2, <1>3, <1>4, <1>5, <1>6, <1>7, <1>8, <1>9, RowActions
       DEF vars, rowVars

\* The three ways a worker moves on keep its variables typed.
LEMMA MovesTyped ==
    ASSUME WorkersOK, NEW w \in Workers
    PROVE  /\ BackToPoll(w) => WorkersOK'
           /\ \A k \in PC : Raise(w, k) => WorkersOK'
           /\ \A n \in PC, r \in Results : Proceed(w, n, r) => WorkersOK'
  BY IntervalType, OutboxAssumption
     DEF BackToPoll, Raise, Proceed, WorkersOK, PC, Heartbeats

\* Every step keeps the types of the workers.
LEMMA WorkersStep ==
    ASSUME Inv, [Next]_vars
    PROVE  WorkersOK'
  <1> WorkersOK /\ \A w \in Workers : WorkerInv(w)
    BY TypeSplit DEF Inv
  <1> USE IntervalType, MovesTyped DEF PC, Results
  <1>1. CASE UNCHANGED workerVars
    BY <1>1 DEF workerVars, WorkersOK
  <1>2. ASSUME NEW w \in Workers, Start(w) \/ BeginDelivery(w)
        PROVE  WorkersOK'
    BY <1>2 DEF Start, BeginDelivery, WorkersOK, Heartbeats
  <1>3. ASSUME NEW w \in Workers, NEW e \in Events, Claim(w, e)
        PROVE  WorkersOK'
    BY <1>3 DEF Claim, WorkersOK
  <1>4. ASSUME NEW w \in Workers,
               \/ ClaimAbandoned(w) \/ LeaseLost(w) \/ Finalize(w)
               \/ RecordPermanentFailure(w) \/ Reschedule(w) \/ RecordFails(w)
        PROVE  WorkersOK'
    BY <1>4 DEF ClaimAbandoned, LeaseLost, Finalize, RecordPermanentFailure,
                Reschedule, RecordFails
  <1>5. ASSUME NEW w \in Workers,
               \/ PayloadInvalid(w) \/ BuildFails(w) \/ SendFails(w)
               \/ TemplateFails(w) \/ FinalizeFails(w)
        PROVE  WorkersOK'
    BY <1>5 DEF PayloadInvalid, BuildFails, SendFails, TemplateFails, FinalizeFails
  <1>6. ASSUME NEW w \in Workers,
               DiscardDisabled(w) \/ Build(w) \/ SendAccepted(w)
        PROVE  WorkersOK'
    BY <1>6 DEF DiscardDisabled, Build, SendAccepted, WorkerInv
  <1>7. ASSUME NEW w \in Workers,
               Heartbeat(w) \/ HeartbeatDies(w) \/ OrphanThreadEnds(w)
        PROVE  WorkersOK'
    BY <1>7 DEF Heartbeat, HeartbeatDies, OrphanThreadEnds, WorkersOK, Heartbeats
  <1>8. ASSUME NEW w \in Workers, Die(w)
        PROVE  WorkersOK'
    <2>1. pc' = [pc EXCEPT ![w] = "dead"] \/ pc' = [pc EXCEPT ![w] = "orphan"]
      BY <1>8 DEF Die
    <2>2. job' = [job EXCEPT ![w] = None] \/ job' = job
      BY <1>8 DEF Die
    <2>3. /\ outcome' = [outcome EXCEPT ![w] = None]
          /\ hb' = [hb EXCEPT ![w] = "off"]
          /\ beat' = [beat EXCEPT ![w] = 0]
      BY <1>8 DEF Die
    <2>4. QED
      BY <2>1, <2>2, <2>3 DEF WorkersOK, Heartbeats
  <1>9. CASE Tick
    BY <1>9 DEF Tick, Less, WorkersOK
  <1>10. QED
    BY <1>1, <1>2, <1>3, <1>4, <1>5, <1>6, <1>7, <1>8, <1>9
       DEF Next, Work, Failure, Publish, Cleanup, vars

\* SMTP acceptances are only ever added, and faults stay within their bound.
LEMMA CountsStep ==
    ASSUME Inv, [Next]_vars
    PROVE  CountsOK' /\ \A e \in Events : mails'[e] >= mails[e]
  <1> CountsOK /\ \A w \in Workers : WorkerInv(w)
    BY TypeSplit DEF Inv
  <1>1. mails' = mails \/ \E w \in Workers : Accepted(job[w])
    BY DEF Next, Work, Failure, Publish, Start, Claim, BeginDelivery,
           ClaimAbandoned, LeaseLost, PayloadInvalid, DiscardDisabled, Build,
           BuildFails, SendAccepted, SendFails, TemplateFails, Finalize,
           FinalizeFails, RecordPermanentFailure, Reschedule, RecordFails,
           Heartbeat, HeartbeatDies, Cleanup, Die, OrphanThreadEnds, Tick, vars
  <1>2. mails' \in [Events -> Nat] /\ \A e \in Events : mails'[e] >= mails[e]
    BY <1>1 DEF Accepted, CountsOK
  <1>3. faults' = faults \/ Fault
    BY DEF Next, Work, Failure, Publish, Start, Claim, BeginDelivery,
           ClaimAbandoned, LeaseLost, PayloadInvalid, DiscardDisabled, Build,
           BuildFails, SendAccepted, SendFails, TemplateFails, Finalize,
           FinalizeFails, RecordPermanentFailure, Reschedule, RecordFails,
           Heartbeat, HeartbeatDies, Cleanup, Die, OrphanThreadEnds, Tick, vars
  <1>4. faults' \in 0..MaxFaults
    BY <1>3, OutboxAssumption DEF Fault, CountsOK
  <1>5. QED
    BY <1>2, <1>4 DEF CountsOK

\* What worker v knows survives every step: another worker's step changes
\* nothing of v's, and the mails v relies on are never taken back.
LEMMA WorkerInvStep ==
    ASSUME Inv, [Next]_vars, NEW v \in Workers
    PROVE  WorkerInv(v)'
  <1> /\ WorkersOK /\ WorkersOK' /\ CountsOK /\ WorkerInv(v)
      /\ \A w \in Workers : WorkerInv(w)
      /\ \A e \in Events : mails'[e] >= mails[e]
    BY TypeSplit, WorkersStep, CountsStep DEF Inv
  <1> CountsOK'
    BY CountsStep
  <1> USE OutboxAssumption DEF WorkersOK, CountsOK, WorkerInv
  <1>1. CASE UNCHANGED <<pc, job, outcome, hb>>
    BY <1>1
  <1>2. ASSUME NEW w \in Workers, Start(w) \/ BeginDelivery(w)
        PROVE  WorkerInv(v)'
    BY <1>2 DEF Start, BeginDelivery
  <1>3. ASSUME NEW w \in Workers, NEW e \in Events, Claim(w, e)
        PROVE  WorkerInv(v)'
    BY <1>3 DEF Claim
  <1>4. ASSUME NEW w \in Workers, BackToPoll(w)
        PROVE  WorkerInv(v)'
    BY <1>4 DEF BackToPoll
  <1>5. ASSUME NEW w \in Workers, NEW k \in {"transient", "permanent"},
               pc[w] \in {"process", "sending", "finalize"}, Raise(w, k)
        PROVE  WorkerInv(v)'
    BY <1>5 DEF Raise
  <1>6. ASSUME NEW w \in Workers, DiscardDisabled(w)
        PROVE  WorkerInv(v)'
    BY <1>6 DEF DiscardDisabled, Proceed, Results, Delivered, EmailDisabled
  <1>7. ASSUME NEW w \in Workers, Build(w)
        PROVE  WorkerInv(v)'
    <2>1. CASE Proceed(w, "sending", Delivered)
      BY <1>7, <2>1 DEF Build, Proceed, Results
    <2>2. CASE Proceed(w, "finalize", TargetUnavailable)
      BY <1>7, <2>2 DEF Build, Proceed, Results, Delivered, TargetUnavailable
    <2>3. QED
      BY <1>7, <2>1, <2>2 DEF Build
  <1>8. ASSUME NEW w \in Workers, SendAccepted(w)
        PROVE  WorkerInv(v)'
    <2>1. job[w] \in Events /\ mails'[job[w]] > 0
      BY <1>8 DEF SendAccepted, Accepted
    <2>2. CASE v = w
      BY <1>8, <2>1, <2>2 DEF SendAccepted, Proceed, Results
    <2>3. CASE v # w
      BY <1>8, <2>3 DEF SendAccepted, Proceed
    <2>4. QED
      BY <2>2, <2>3
  <1>9. ASSUME NEW w \in Workers, HeartbeatDies(w)
        PROVE  WorkerInv(v)'
    BY <1>9 DEF HeartbeatDies
  <1>10. ASSUME NEW w \in Workers, Die(w)
         PROVE  WorkerInv(v)'
    BY <1>10 DEF Die
  <1>11. ASSUME NEW w \in Workers, OrphanThreadEnds(w)
         PROVE  WorkerInv(v)'
    <2>1. /\ pc' = [pc EXCEPT ![w] = "dead"]
          /\ job' = [job EXCEPT ![w] = None]
          /\ pc[w] = "orphan"
          /\ UNCHANGED <<outcome, hb>>
      BY <1>11 DEF OrphanThreadEnds
    <2>2. QED
      BY <2>1
  <1>12. QED
    BY <1>1, <1>2, <1>3, <1>4, <1>5, <1>6, <1>7, <1>8, <1>9, <1>10, <1>11
       DEF Next, Work, Failure, Publish, ClaimAbandoned, LeaseLost,
           PayloadInvalid, BuildFails, SendFails, TemplateFails, Finalize,
           FinalizeFails, RecordPermanentFailure, Reschedule, RecordFails,
           Heartbeat, Cleanup, Tick, vars, workerVars

\* No step takes a job's row back to the time before it was published.
LEMMA PublishedStep ==
    ASSUME Inv, [Next]_vars, NEW v \in Workers
    PROVE  Published(v)'
  <1> RowsOK /\ RowsOK' /\ WorkersOK /\ Published(v)
    BY TypeSplit, RowsStep DEF Inv
  <1>1. \A e \in Events : status[e] # "absent" => status'[e] # "absent"
    <2>1. ASSUME NEW w \in Workers, NEW r, RecordResult(w, r), NEW e \in Events
          PROVE  status[e] # "absent" => status'[e] # "absent"
      BY <2>1 DEF RecordResult, rowVars, RowsOK
    <2>2. ASSUME NEW w \in Workers, Reschedule(w)
          PROVE  UNCHANGED status
      BY <2>2 DEF Reschedule, rowVars
    <2>3. QED
      BY <2>1, <2>2, RowActions
         DEF rowVars, vars, Publish, Claim, Finalize, RecordPermanentFailure,
             Heartbeat, Cleanup, Tick, RowsOK
  <1>2. \/ job'[v] \in {job[v], None}
        \/ \E e \in Events : job'[v] = e /\ status[e] = "pending"
    BY DEF Next, Work, Failure, Publish, Start, Claim, Deliverable, BeginDelivery,
           ClaimAbandoned, LeaseLost, PayloadInvalid, DiscardDisabled, Build,
           BuildFails, SendAccepted, SendFails, TemplateFails, Finalize,
           FinalizeFails, RecordPermanentFailure, Reschedule, RecordFails,
           Heartbeat, HeartbeatDies, Cleanup, Die, OrphanThreadEnds, Tick, vars,
           workerVars, BackToPoll, Raise, Proceed, WorkersOK
  <1>3. QED
    BY <1>1, <1>2 DEF Published, WorkersOK

\* Every step keeps a delivered row mailed.
LEMMA MailedStep ==
    ASSUME Inv, [Next]_vars
    PROVE  DeliveredWasMailed'
  <1> /\ RowsOK /\ WorkersOK /\ CountsOK /\ CountsOK'
      /\ DeliveredWasMailed /\ \A w \in Workers : WorkerInv(w)
      /\ \A e \in Events : mails'[e] >= mails[e]
    BY TypeSplit, CountsStep DEF Inv
  <1> USE DEF CountsOK, DeliveredWasMailed
  <1>1. CASE UNCHANGED result
    BY <1>1
  <1>2. ASSUME NEW w \in Workers, Finalize(w)
        PROVE  DeliveredWasMailed'
    BY <1>2 DEF Finalize, RecordResult, WorkerInv, RowsOK, rowVars
  <1>3. ASSUME NEW w \in Workers, RecordPermanentFailure(w)
        PROVE  DeliveredWasMailed'
    BY <1>3 DEF RecordPermanentFailure, RecordResult, WorkerInv, RowsOK, rowVars,
                FailedPermanent, Delivered
  <1>4. ASSUME NEW w \in Workers, Cleanup(w)
        PROVE  DeliveredWasMailed'
    BY <1>4, OutboxAssumption DEF Cleanup, RowsOK, Results
  <1>5. QED
    BY <1>1, <1>2, <1>3, <1>4, RowActions
       DEF rowVars, vars, Publish, Claim, Reschedule, Heartbeat, Tick

\* Every step keeps the claimed rows due.
LEMMA NoWaitStep ==
    ASSUME Inv, [Next]_vars
    PROVE  NoWait'
  <1> RowsOK /\ NoWait /\ \A w \in Workers : WorkerInv(w)
    BY TypeSplit DEF Inv
  <1> USE OutboxAssumption DEF RowsOK, NoWait
  <1>1. CASE UNCHANGED rowVars
    BY <1>1 DEF rowVars
  <1>2. ASSUME NEW e \in Events, Publish(e)
        PROVE  NoWait'
    BY <1>2 DEF Publish
  <1>3. ASSUME NEW w \in Workers, NEW e \in Events, Claim(w, e)
        PROVE  NoWait'
    BY <1>3 DEF Claim, Deliverable
  <1>4. ASSUME NEW w \in Workers, NEW r, RecordResult(w, r)
        PROVE  NoWait'
    BY <1>4 DEF RecordResult, Owns, rowVars
  <1>5. ASSUME NEW w \in Workers, Reschedule(w)
        PROVE  NoWait'
    <2>1. CASE owner[job[w]] # w
      BY <1>5, <2>1 DEF Reschedule, rowVars
    <2>2. CASE owner[job[w]] = w
      <3>1. PICK d : /\ wait' = [wait EXCEPT ![job[w]] = d]
                     /\ owner' = [owner EXCEPT ![job[w]] = None]
                     /\ UNCHANGED status
        BY <1>5, <2>2 DEF Reschedule
      <3>2. job[w] \in Events /\ status[job[w]] = "pending"
        BY <1>5, <2>2 DEF Reschedule, WorkerInv, RowChecks
      <3>3. QED
        BY <3>1, <3>2
    <2>3. QED
      BY <2>1, <2>2
  <1>6. ASSUME NEW w \in Workers, Heartbeat(w) \/ Cleanup(w)
        PROVE  NoWait'
    BY <1>6 DEF Heartbeat, Cleanup
  <1>7. CASE Tick
    BY <1>7 DEF Tick, Less
  <1>8. QED
    BY <1>1, <1>2, <1>3, <1>4, <1>5, <1>6, <1>7, RowActions
       DEF vars, rowVars, Finalize, RecordPermanentFailure

\* With heartbeats served in time, no step of anybody takes the row away from a
\* delivery whose heartbeat is alive, or lets its lease run down.
LEMMA SecureStep ==
    ASSUME Inv, [Next]_vars, Timely, NEW v \in Workers
    PROVE  Secure(v)'
  <1> /\ RowsOK /\ WorkersOK /\ WorkersOK' /\ Secure(v) /\ WorkerInv(v)
      /\ \A w \in Workers : WorkerInv(w)
    BY TypeSplit, WorkersStep DEF Inv
  <1>a. Delivering(v) /\ hb[v] # "lost" => Owns(v) /\ lease[job[v]] > 0 /\ job[v] \in Events
    BY IntervalType, OutboxAssumption DEF Secure, RowsOK, WorkersOK, WorkerInv, Delivering
  <1>1. CASE UNCHANGED <<status, owner, lease, pc, job, hb, beat>>
    BY <1>1 DEF Secure, Delivering, Owns
  <1>2. ASSUME NEW e \in Events, Publish(e)
        PROVE  Secure(v)'
    BY <1>2 DEF Publish, workerVars, Secure, Delivering, Owns, RowsOK
  <1>3. ASSUME NEW w \in Workers, Start(w) \/ BeginDelivery(w)
        PROVE  Secure(v)'
    BY <1>3, IntervalType, OutboxAssumption
       DEF Start, BeginDelivery, rowVars, Secure, Delivering, Owns, RowsOK, WorkersOK,
           WorkerInv
  <1>4. ASSUME NEW w \in Workers, NEW e \in Events, Claim(w, e)
        PROVE  Secure(v)'
    <2>1. CASE v = w
      BY <1>4, <2>1 DEF Claim, Deliverable, Secure, Delivering, Owns, RowsOK, WorkersOK,
                        WorkerInv
    <2>2. CASE v # w /\ Delivering(v) /\ hb[v] # "lost"
      <3>1. e # job[v]
        BY <1>4, <1>a, <2>2, OutboxAssumption DEF Claim, Deliverable, Owns
      <3>2. QED
        BY <1>4, <2>2, <3>1 DEF Claim, Secure, Delivering, Owns, RowsOK, WorkersOK
    <2>3. CASE v # w /\ ~(Delivering(v) /\ hb[v] # "lost")
      BY <1>4, <2>3 DEF Claim, Secure, Delivering, WorkersOK
    <2>4. QED
      BY <2>1, <2>2, <2>3
  <1>5. ASSUME NEW w \in Workers, BackToPoll(w),
               \/ UNCHANGED <<status, owner, lease>>
               \/ \E r : RecordResult(w, r)
               \/ Reschedule(w)
        PROVE  Secure(v)'
    <2>1. CASE v = w
      BY <1>5, <2>1 DEF BackToPoll, Secure, Delivering, WorkersOK
    <2>2. CASE v # w /\ Delivering(v) /\ hb[v] # "lost"
      <3>1. owner[job[v]] # w
        BY <1>a, <2>2 DEF Owns
      <3>2. /\ owner'[job[v]] = owner[job[v]]
            /\ status'[job[v]] = status[job[v]]
            /\ lease'[job[v]] = lease[job[v]]
        <4>1. CASE \E r : RecordResult(w, r)
          BY <1>a, <2>2, <3>1, <4>1 DEF RecordResult, Owns, rowVars, RowsOK
        <4>2. CASE Reschedule(w)
          <5>1. \/ UNCHANGED <<status, owner, lease>>
                \/ /\ owner[job[w]] = w
                   /\ owner' = [owner EXCEPT ![job[w]] = None]
                   /\ lease' = [lease EXCEPT ![job[w]] = 0]
                   /\ UNCHANGED status
            BY <4>2 DEF Reschedule, rowVars
          <5>2. QED
            BY <1>a, <2>2, <3>1, <5>1 DEF RowsOK
        <4>3. QED
          BY <1>5, <4>1, <4>2
      <3>3. QED
        BY <1>5, <2>2, <3>2 DEF BackToPoll, Secure, Delivering, Owns, WorkersOK
    <2>3. CASE v # w /\ ~(Delivering(v) /\ hb[v] # "lost")
      BY <1>5, <2>3 DEF BackToPoll, Secure, Delivering, WorkersOK
    <2>4. QED
      BY <2>1, <2>2, <2>3
  <1>6. ASSUME NEW w \in Workers, NEW k \in {"transient", "permanent"},
               Raise(w, k), UNCHANGED rowVars
        PROVE  Secure(v)'
    BY <1>6 DEF Raise, rowVars, Secure, Delivering, Owns, WorkersOK
  <1>7. ASSUME NEW w \in Workers, NEW n \in {"sending", "finalize"}, NEW r,
               pc[w] \in {"process", "sending"}, Proceed(w, n, r), UNCHANGED rowVars
        PROVE  Secure(v)'
    BY <1>7 DEF Proceed, rowVars, Secure, Delivering, Owns, WorkersOK
  <1>8. ASSUME NEW w \in Workers, Heartbeat(w)
        PROVE  Secure(v)'
    BY <1>8, IntervalType, OutboxAssumption
       DEF Heartbeat, Secure, Delivering, Owns, RowsOK, WorkersOK, WorkerInv
  <1>9. ASSUME NEW w \in Workers, HeartbeatDies(w)
        PROVE  Secure(v)'
    BY <1>9 DEF HeartbeatDies, rowVars, Secure, Delivering, Owns, WorkersOK
  <1>10. ASSUME NEW w \in Workers, Die(w)
         PROVE  Secure(v)'
    BY <1>10 DEF Die, rowVars, Secure, Delivering, Owns, WorkersOK
  <1>11. ASSUME NEW w \in Workers, OrphanThreadEnds(w)
         PROVE  Secure(v)'
    BY <1>11 DEF OrphanThreadEnds, rowVars, Secure, Delivering, Owns, WorkersOK
  <1>12. ASSUME NEW w \in Workers, Cleanup(w)
         PROVE  Secure(v)'
    <2>1. \A e \in Events : status[e] = "pending" => status'[e] = "pending"
      BY <1>12 DEF Cleanup, RowsOK
    <2>2. QED
      BY <1>12, <1>a, <2>1 DEF Cleanup, workerVars, Secure, Delivering, Owns
  <1>13. CASE Tick
    <2>1. CASE Delivering(v) /\ hb[v] # "lost"
      <3>1. hb[v] = "on" /\ beat[v] > 0
        BY <1>13, <2>1 DEF Tick, HeartbeatsServed, WorkerInv, Delivering, WorkersOK,
                           Heartbeats
      <3>2. lease'[job[v]] = lease[job[v]] - 1 /\ beat'[v] = beat[v] - 1
        BY <1>13, <1>a, <2>1, <3>1 DEF Tick, Less, RowsOK, WorkersOK
      <3>3. QED
        BY <1>13, <1>a, <2>1, <3>1, <3>2, IntervalType, OutboxAssumption
           DEF Tick, Secure, Delivering, Owns, RowsOK, WorkersOK
    <2>2. CASE ~(Delivering(v) /\ hb[v] # "lost")
      BY <1>13, <2>2 DEF Tick, Secure, Delivering
    <2>3. QED
      BY <2>1, <2>2
  <1>14. QED
    BY <1>1, <1>2, <1>3, <1>4, <1>5, <1>6, <1>7, <1>8, <1>9, <1>10, <1>11, <1>12, <1>13
       DEF Next, Work, Failure, ClaimAbandoned, LeaseLost, PayloadInvalid,
           DiscardDisabled, Build, BuildFails, SendAccepted, SendFails,
           TemplateFails, Finalize, FinalizeFails, RecordPermanentFailure,
           Reschedule, RecordFails, vars, rowVars, workerVars

-----------------------------------------------------------------------------
(* The theorems.                                                           *)

\* The invariant holds initially and every step preserves it.
THEOREM InvHolds == Spec => []Inv
  <1>1. Init => Inv
    <2> SUFFICES ASSUME Init PROVE Inv
      OBVIOUS
    <2>1. TypeOK
      BY InitType
    <2>2. \A w \in Workers : WorkerInv(w) /\ Secure(w) /\ Published(w)
      BY DEF Init, WorkerInv, Secure, Delivering, Published
    <2>3. DeliveredWasMailed /\ NoWait
      BY OutboxAssumption DEF Init, DeliveredWasMailed, NoWait, Results
    <2>4. QED
      BY <2>1, <2>2, <2>3 DEF Inv
  <1>2. Inv /\ [Next]_vars => Inv'
    <2> SUFFICES ASSUME Inv, [Next]_vars PROVE Inv'
      OBVIOUS
    <2>1. TypeOK'
      BY RowsStep, WorkersStep, CountsStep DEF TypeOK, RowsOK, WorkersOK, CountsOK
    <2>2. (\A w \in Workers : WorkerInv(w) /\ Published(w))'
      BY WorkerInvStep, PublishedStep
    <2>3. (Timely => \A w \in Workers : Secure(w))'
      BY SecureStep
    <2>4. QED
      BY <2>1, <2>2, <2>3, MailedStep, NoWaitStep DEF Inv
  <1>3. QED
    BY <1>1, <1>2, PTL DEF Spec

\* Every variable keeps its type and every stored row satisfies the CHECK
\* constraints of notification_outbox, for any number of rows and dispatchers.
THEOREM TypeCorrect == Spec => []TypeOK
  BY InvHolds, PTL DEF Inv

\* processing_result = "delivered" is never recorded for a mail SMTP did not accept.
THEOREM DeliveredIsTrue == Spec => []DeliveredWasMailed
  BY InvHolds, PTL DEF Inv

\* As long as due heartbeats are served before time goes on, two dispatchers work
\* on one row only after a heartbeat task died.
THEOREM ExclusiveDelivery == Spec => []OneDeliveryAtATime
  <1>1. Inv => OneDeliveryAtATime
    BY DEF Inv, OneDeliveryAtATime, Secure, Owns
  <1>2. QED
    BY <1>1, InvHolds, PTL

\* An outcome, once recorded, stays until the row is purged, and purged rows do
\* not come back, whatever stale workers do.
THEOREM ClosedRowsFinal == Spec => ClosedRowsAreFinal
  <1> DEFINE Final(e) ==
        /\ status[e] = "processed" =>
             \/ /\ status'[e] = "processed"
                /\ <<owner'[e], result'[e], attempts'[e], wait'[e]>>
                     = <<None, result[e], attempts[e], 0>>
             \/ status'[e] = "purged" /\ retain[e] = 0
        /\ status[e] = "purged" => status'[e] = "purged"
  <1>1. ASSUME Inv, Next, NEW e \in Events
        PROVE  Final(e)
    <2> RowsOK /\ NoWait /\ \A w \in Workers : WorkerInv(w)
      BY <1>1, TypeSplit DEF Inv
    <2>a. /\ status[e] = "processed" => owner[e] = None /\ wait[e] = 0
          /\ status[e] = "purged" => owner[e] = None
      BY DEF RowsOK, RowChecks, NoWait
    <2>1. CASE UNCHANGED rowVars
      BY <2>1, <2>a DEF rowVars
    <2>2. ASSUME NEW d \in Events, Publish(d)
          PROVE  Final(e)
      BY <2>2, <2>a DEF Publish, RowsOK
    <2>3. ASSUME NEW w \in Workers, NEW d \in Events, Claim(w, d)
          PROVE  Final(e)
      BY <2>3, <2>a DEF Claim, Deliverable, RowsOK
    <2>4. ASSUME NEW w \in Workers, NEW r, RecordResult(w, r)
          PROVE  Final(e)
      BY <2>4, <2>a DEF RecordResult, Owns, rowVars, RowsOK
    <2>5. ASSUME NEW w \in Workers, Reschedule(w)
          PROVE  Final(e)
      <3>1. CASE owner[job[w]] # w
        BY <3>1, <2>5, <2>a DEF Reschedule, rowVars
      <3>2. CASE owner[job[w]] = w
        <4>1. status[e] \in {"processed", "purged"} => e # job[w]
          BY <3>2, <2>a, OutboxAssumption
        <4>2. PICK n, d : /\ attempts' = [attempts EXCEPT ![job[w]] = n]
                          /\ wait' = [wait EXCEPT ![job[w]] = d]
                          /\ owner' = [owner EXCEPT ![job[w]] = None]
                          /\ UNCHANGED <<status, result, retain>>
          BY <3>2, <2>5 DEF Reschedule
        <4>3. QED
          BY <4>1, <4>2, <2>a DEF RowsOK
      <3>3. QED
        BY <3>1, <3>2
    <2>6. ASSUME NEW w \in Workers, Heartbeat(w) \/ Cleanup(w)
          PROVE  Final(e)
      BY <2>6, <2>a DEF Heartbeat, Cleanup
    <2>7. CASE Tick
      BY <2>7, <2>a DEF Tick, Less, RowsOK
    <2>8. QED
      BY <1>1, <2>1, <2>2, <2>3, <2>4, <2>5, <2>6, <2>7, RowActions
         DEF Finalize, RecordPermanentFailure
  <1>2. Inv /\ [Next]_vars => [\A e \in Events : Final(e)]_vars
    BY <1>1
  <1>3. QED
    BY <1>2, InvHolds, PTL DEF Spec, ClosedRowsAreFinal

\* No process but the holder ends a claim whose lease is live.
THEOREM LiveClaimsHold == Spec => LiveClaimEndsOnlyByHolder
  <1> DEFINE Held(e) ==
        /\ owner[e] # None /\ lease[e] > 0
        /\ owner'[e] # owner[e] \/ status'[e] # status[e] \/ attempts'[e] # attempts[e]
        => pc'[owner[e]] # pc[owner[e]]
  <1>1. ASSUME Inv, Next, NEW e \in Events
        PROVE  Held(e)
    <2> RowsOK /\ WorkersOK /\ \A w \in Workers : WorkerInv(w)
      BY <1>1, TypeSplit DEF Inv
    <2>a. owner[e] # None => status[e] = "pending"
      BY DEF RowsOK, RowChecks
    <2>1. CASE UNCHANGED <<owner, status, attempts>>
      BY <2>1
    <2>2. ASSUME NEW d \in Events, Publish(d)
          PROVE  Held(e)
      BY <2>2, <2>a DEF Publish, RowsOK
    <2>3. ASSUME NEW w \in Workers, NEW d \in Events, Claim(w, d)
          PROVE  Held(e)
      BY <2>3 DEF Claim, Deliverable, RowsOK
    <2>4. ASSUME NEW w \in Workers, NEW r, RecordResult(w, r), BackToPoll(w),
                 pc[w] # "poll"
          PROVE  Held(e)
      BY <2>4 DEF RecordResult, Owns, rowVars, RowsOK, BackToPoll, WorkersOK
    <2>5. ASSUME NEW w \in Workers, Reschedule(w)
          PROVE  Held(e)
      <3>1. /\ \/ UNCHANGED <<owner, status, attempts>>
               \/ \E n : /\ owner[job[w]] = w
                         /\ attempts' = [attempts EXCEPT ![job[w]] = n]
                         /\ owner' = [owner EXCEPT ![job[w]] = None]
                         /\ UNCHANGED status
            /\ pc[w] = "transient" /\ pc'[w] = "poll"
        BY <2>5 DEF Reschedule, rowVars, BackToPoll, WorkersOK
      <3>2. QED
        BY <3>1 DEF RowsOK
    <2>6. ASSUME NEW w \in Workers, Cleanup(w)
          PROVE  Held(e)
      BY <2>6, <2>a DEF Cleanup, RowsOK
    <2>7. QED
      BY <1>1, <2>1, <2>2, <2>3, <2>4, <2>5, <2>6, RowActions
         DEF Finalize, RecordPermanentFailure, Heartbeat, Tick, rowVars
  <1>2. Inv /\ [Next]_vars => [\A e \in Events : Held(e)]_vars
    BY <1>1
  <1>3. QED
    BY <1>2, InvHolds, PTL DEF Spec, LiveClaimEndsOnlyByHolder

\* The outbox implements its contract, liveness aside: rows stay until they are
\* closed, a close is truthful, and only closed rows are removed.
THEOREM ContractSafety == Spec => Contract!Spec
  <1> USE DEF Delivered, EmailDisabled, TargetUnavailable, FailedPermanent
  <1>1. Init => Contract!Init
    BY DEF Init, Contract!Init
  <1>2. ASSUME Inv, Inv', [Next]_vars
        PROVE  [Contract!Next]_(Contract!contractVars)
    <2> /\ RowsOK /\ RowsOK' /\ CountsOK /\ CountsOK' /\ WorkersOK
        /\ DeliveredWasMailed' /\ \A w \in Workers : WorkerInv(w) /\ Published(w)
      BY <1>2 DEF Inv, TypeOK, RowsOK, CountsOK, WorkersOK
    <2> DEFINE State == [e \in Events |-> IF status[e] = "processed" THEN result[e] ELSE status[e]]
               Mailed == {e \in Events : mails[e] > 0}
    <2>s. (Mailed' = Mailed /\ State' = State) => UNCHANGED Contract!contractVars
      BY DEF Contract!contractVars
    <2>1. CASE UNCHANGED <<status, result, mails>>
      BY <2>1 DEF Contract!contractVars
    <2>2. ASSUME NEW d \in Events, Publish(d)
          PROVE  Contract!Publish(d)
      BY <2>2 DEF Publish, Contract!Publish, RowsOK, Status
    <2>3. ASSUME NEW w \in Workers, NEW r \in Results, RecordResult(w, r),
                 job[w] \in Events, UNCHANGED mails
          PROVE  Contract!Close(job[w]) \/ UNCHANGED Contract!contractVars
      <3>1. CASE ~Owns(w)
        BY <2>3, <3>1 DEF RecordResult, rowVars, Contract!contractVars
      <3>2. CASE Owns(w)
        <4>1. /\ status[job[w]] = "pending"
              /\ status' = [status EXCEPT ![job[w]] = "processed"]
              /\ result' = [result EXCEPT ![job[w]] = r]
          BY <2>3, <3>2 DEF RecordResult, Owns
        <4>2. r = Delivered => mails[job[w]] > 0
          BY <2>3, <4>1 DEF DeliveredWasMailed, RowsOK
        <4>3. State' = [State EXCEPT ![job[w]] = r]
          BY <2>3, <4>1 DEF RowsOK
        <4>4. State[job[w]] = "pending" /\ Mailed' = Mailed
          BY <2>3, <4>1
        <4>5. QED
          BY <2>3, <4>2, <4>3, <4>4 DEF Contract!Close
      <3>3. QED
        BY <3>1, <3>2
    <2>4. ASSUME NEW w \in Workers, Accepted(job[w]), job[w] \in Events,
                 pc[w] \in {"sending", "orphan"}, UNCHANGED rowVars
          PROVE  Contract!Mail(job[w])
      <3>1. job[w] # None /\ status[job[w]] # "absent"
        BY <2>4, OutboxAssumption DEF Published
      <3>2. State[job[w]] # "absent" /\ State' = State
        BY <2>4, <3>1 DEF rowVars, RowsOK, RowChecks, Results
      <3>3. Mailed' = Mailed \cup {job[w]}
        BY <2>4, OutboxAssumption DEF Accepted, CountsOK
      <3>4. QED
        BY <3>2, <3>3 DEF Contract!Mail
    <2>5. ASSUME NEW w \in Workers, Cleanup(w)
          PROVE  \E S \in SUBSET Events : Contract!Purge(S)
      <3> DEFINE expired == {e \in Events : status[e] = "processed" /\ retain[e] = 0}
                 batch == {e \in expired :
                             Cardinality({d \in expired : d < e}) < CleanupBatch}
      <3>1. /\ status' = [e \in Events |-> IF e \in batch THEN "purged" ELSE status[e]]
            /\ result' = [e \in Events |-> IF e \in batch THEN None ELSE result[e]]
            /\ UNCHANGED mails
        BY <2>5 DEF Cleanup
      <3>2. PICK S \in SUBSET Events : S = batch
        OBVIOUS
      <3>3. \A e \in S : State[e] \in Results
        BY <3>2 DEF RowsOK, RowChecks
      <3> HIDE DEF batch, expired
      <3>4. State' = [e \in Events |-> IF e \in S THEN "purged" ELSE State[e]]
        BY <3>1, <3>2
      <3>5. Contract!Purge(S)
        BY <3>1, <3>3, <3>4 DEF Contract!Purge
      <3>6. QED
        BY <3>5
    <2>6. ASSUME NEW w \in Workers, Reschedule(w) \/ Heartbeat(w)
          PROVE  UNCHANGED <<status, result, mails>>
      BY <2>6 DEF Reschedule, Heartbeat, rowVars
    <2>7. ASSUME NEW w \in Workers, Finalize(w) \/ RecordPermanentFailure(w)
          PROVE  Contract!Close(job[w]) \/ UNCHANGED Contract!contractVars
      <3>1. job[w] \in Events /\ UNCHANGED mails
        BY <2>7 DEF Finalize, RecordPermanentFailure, WorkerInv
      <3>2. \E r \in Results : RecordResult(w, r)
        BY <2>7 DEF Finalize, RecordPermanentFailure, WorkerInv, Results
      <3>3. QED
        BY <2>3, <3>1, <3>2
    <2>8. ASSUME NEW w \in Workers, SendAccepted(w) \/ SendFails(w) \/ OrphanThreadEnds(w)
          PROVE  Contract!Mail(job[w]) \/ UNCHANGED <<status, result, mails>>
      BY <2>8, <2>4 DEF SendAccepted, SendFails, OrphanThreadEnds, WorkerInv, rowVars
    <2>9. ASSUME NEW w \in Workers,
                 \/ Start(w) \/ (\E e \in Events : Claim(w, e)) \/ BeginDelivery(w)
                 \/ ClaimAbandoned(w) \/ LeaseLost(w) \/ PayloadInvalid(w)
                 \/ DiscardDisabled(w) \/ Build(w) \/ BuildFails(w)
                 \/ TemplateFails(w) \/ FinalizeFails(w) \/ RecordFails(w)
                 \/ HeartbeatDies(w) \/ Die(w)
          PROVE  UNCHANGED <<status, result, mails>>
      BY <2>9 DEF Start, Claim, BeginDelivery, ClaimAbandoned, LeaseLost,
                  PayloadInvalid, DiscardDisabled, Build, BuildFails,
                  TemplateFails, FinalizeFails, RecordFails, HeartbeatDies, Die,
                  rowVars
    <2>10. CASE \E d \in Events : Publish(d)
      BY <2>2, <2>10, Zenon DEF Contract!Next
    <2>11. ASSUME NEW w \in Workers, job[w] \in Events,
                  Contract!Close(job[w]) \/ Contract!Mail(job[w])
           PROVE  Contract!Next
      <3>1. PICK e \in Events : e = job[w]
        BY <2>11
      <3>2. Contract!Close(e) \/ Contract!Mail(e)
        BY <2>11, <3>1 DEF Contract!Close, Contract!Mail
      <3>3. QED
        BY <3>2 DEF Contract!Next
    <2>12. ASSUME NEW w \in Workers, Work(w) \/ Failure(w)
           PROVE  Contract!Next \/ UNCHANGED Contract!contractVars
      <3>1. CASE Finalize(w) \/ RecordPermanentFailure(w) \/ SendAccepted(w)
                 \/ SendFails(w) \/ OrphanThreadEnds(w)
        <4>1. job[w] \in Events
          BY <3>1 DEF Finalize, RecordPermanentFailure, SendAccepted, SendFails,
                      OrphanThreadEnds, WorkerInv
        <4>2. QED
          BY <2>1, <2>7, <2>8, <2>11, <3>1, <4>1
      <3>2. QED
        BY <2>1, <2>6, <2>9, <2>12, <3>1 DEF Work, Failure
    <2>13. ASSUME NEW w \in Workers, Start(w) \/ Heartbeat(w) \/ Cleanup(w)
           PROVE  Contract!Next \/ UNCHANGED Contract!contractVars
      BY <2>1, <2>5, <2>6, <2>9, <2>13 DEF Contract!Next
    <2>14. CASE UNCHANGED vars \/ Tick
      BY <2>1, <2>14 DEF vars, rowVars, Tick
    <2>15. QED
      BY <1>2, <2>10, <2>12, <2>13, <2>14 DEF Next
  <1>3. QED
    BY <1>1, <1>2, InvHolds, PTL DEF Spec, Contract!Spec

-----------------------------------------------------------------------------
(* Duplicates are paid for by faults.                                      *)

\* The senders of a row are finitely many.
LEMMA SendersFinite ==
    ASSUME NEW e
    PROVE  /\ IsFiniteSet(Senders(e)) /\ Cardinality(Senders(e)) \in Nat
           /\ Cardinality(Senders(e)') \in Nat
  <1>1. Senders(e) \subseteq Workers /\ Senders(e)' \subseteq Workers
    BY DEF Senders
  <1>2. QED
    BY <1>1, FS_Subset, FS_CardinalityType, OutboxAssumption

\* What a step of one worker does to the number of processes that may send for e.
LEMMA SendersMove ==
    ASSUME NEW e, NEW w \in Workers,
           \A v \in Workers \ {w} : UNCHANGED <<pc[v], job[v]>>
    PROVE  /\ w \in Senders(e) /\ w \notin Senders(e)' =>
                Cardinality(Senders(e)') = Cardinality(Senders(e)) - 1
           /\ w \notin Senders(e) /\ w \in Senders(e)' =>
                Cardinality(Senders(e)') = Cardinality(Senders(e)) + 1
           /\ (w \in Senders(e) <=> w \in Senders(e)') =>
                Cardinality(Senders(e)') = Cardinality(Senders(e))
  <1>1. \A v \in Workers \ {w} : v \in Senders(e) <=> v \in Senders(e)'
    BY DEF Senders, MaySend
  <1>2. Senders(e) \subseteq Workers /\ Senders(e)' \subseteq Workers
    BY DEF Senders
  <1>3. CASE w \in Senders(e) /\ w \notin Senders(e)'
    <2>1. Senders(e)' = Senders(e) \ {w}
      BY <1>1, <1>2, <1>3
    <2>2. QED
      BY <2>1, <1>3, SendersFinite, FS_RemoveElement
  <1>4. CASE w \notin Senders(e) /\ w \in Senders(e)'
    <2>1. Senders(e)' = Senders(e) \cup {w}
      BY <1>1, <1>2, <1>4
    <2>2. QED
      BY <2>1, <1>4, SendersFinite, FS_AddElement
  <1>5. CASE w \in Senders(e) <=> w \in Senders(e)'
    <2>1. Senders(e)' = Senders(e)
      BY <1>1, <1>2, <1>5
    <2>2. QED
      BY <2>1, <1>5
  <1>6. QED
    BY <1>3, <1>4, <1>5

\* A closed row is not opened again.
LEMMA NeverReopened ==
    ASSUME Inv, [Next]_vars, NEW e \in Events
    PROVE  status'[e] \in {"absent", "pending"} => status[e] \in {"absent", "pending"}
  <1> RowsOK
    BY TypeSplit DEF Inv
  <1>1. ASSUME NEW w \in Workers, NEW r, RecordResult(w, r)
        PROVE  status'[e] # status[e] => status'[e] = "processed"
    BY <1>1 DEF RecordResult, rowVars, RowsOK
  <1>2. ASSUME NEW w \in Workers, Reschedule(w)
        PROVE  UNCHANGED status
    BY <1>2 DEF Reschedule, rowVars
  <1>3. QED
    BY <1>1, <1>2, RowActions
       DEF rowVars, vars, Publish, Claim, Finalize, RecordPermanentFailure,
           Heartbeat, Cleanup, Tick, RowsOK

\* The account survives a step of w that does not raise it, provided that w, if
\* it attended to e, still does, or closed the row, or paid with a fault, or
\* lowered the account.
LEMMA BudgetKept ==
    ASSUME NEW e \in Events, NEW w \in Workers, CountsOK, CountsOK', Budget(e),
           \A v \in Workers \ {w} : UNCHANGED <<pc[v], job[v], hb[v]>>,
           NEW account, NEW after,
           account = mails[e] + Cardinality(Senders(e)),
           after = mails'[e] + Cardinality(Senders(e)'),
           after <= account,
           faults' >= faults,
           status'[e] \in {"absent", "pending"} => status[e] \in {"absent", "pending"},
           job[w] = e /\ Delivering(w) /\ hb[w] # "lost" =>
              \/ job'[w] = e /\ Delivering(w)' /\ hb'[w] # "lost"
              \/ status'[e] \notin {"absent", "pending"}
              \/ faults' > faults
              \/ after < account
    PROVE  Budget(e)'
  <1> USE DEF CountsOK
  <1>1. account \in Nat /\ after \in Nat
    BY SendersFinite
  <1>2. /\ account <= 1 + faults
        /\ status[e] \in {"absent", "pending"} /\ ~Attended(e) => account <= faults
    BY DEF Budget
  <1>3. ASSUME Attended(e), ~Attended(e)'
        PROVE  job[w] = e /\ Delivering(w) /\ hb[w] # "lost"
               /\ ~(job'[w] = e /\ Delivering(w)' /\ hb'[w] # "lost")
    BY <1>3 DEF Attended, Delivering
  <1>4. after <= 1 + faults'
    BY <1>1, <1>2
  <1>5. ASSUME status'[e] \in {"absent", "pending"}, ~Attended(e)'
        PROVE  after <= faults'
    BY <1>1, <1>2, <1>3, <1>5
  <1>6. QED
    BY <1>4, <1>5 DEF Budget

\* No step lets mails sent and possible outgrow the faults that explain them.
LEMMA BudgetStep ==
    ASSUME Inv, [Next]_vars, Timely, NEW e \in Events, Budget(e)
    PROVE  Budget(e)'
  <1> /\ RowsOK /\ WorkersOK /\ WorkersOK' /\ CountsOK /\ CountsOK'
      /\ \A w \in Workers : WorkerInv(w) /\ Secure(w)
    BY TypeSplit, WorkersStep, CountsStep DEF Inv
  <1>0. status'[e] \in {"absent", "pending"} => status[e] \in {"absent", "pending"}
    BY NeverReopened
  <1> DEFINE account == mails[e] + Cardinality(Senders(e))
             after == mails'[e] + Cardinality(Senders(e)')
             Attends(w) == job[w] = e /\ Delivering(w) /\ hb[w] # "lost"
             Others(w) == \A v \in Workers \ {w} : UNCHANGED <<pc[v], job[v], hb[v]>>
             In(w) == job[w] = e /\ MaySend(w)
  <1>a. \A w \in Workers : (In(w) <=> w \in Senders(e)) /\ (In(w)' <=> w \in Senders(e)')
    BY DEF Senders
  <1>b. ASSUME NEW w \in Workers, Others(w)
        PROVE  /\ In(w) /\ ~In(w)' => Cardinality(Senders(e)') = Cardinality(Senders(e)) - 1
               /\ (In(w) <=> In(w)') => Cardinality(Senders(e)') = Cardinality(Senders(e))
    BY <1>a, <1>b, SendersMove
  <1>c. mails[e] \in Nat /\ mails'[e] \in Nat /\ faults \in Nat /\ faults' \in Nat
        /\ Cardinality(Senders(e)) \in Nat /\ Cardinality(Senders(e)') \in Nat
    BY SendersFinite DEF CountsOK
  <1>1. CASE UNCHANGED <<pc, job, hb, mails, faults>>
    <2>1. Senders(e)' = Senders(e) /\ (Attended(e)' <=> Attended(e))
      BY <1>1 DEF Senders, MaySend, Attended, Delivering
    <2>2. QED
      BY <1>0, <1>1, <2>1 DEF Budget
  <1>2. ASSUME NEW w \in Workers, NEW d \in Events, Claim(w, d)
        PROVE  Budget(e)'
    <2>1. CASE d # e
      <3>1. Others(w) /\ (In(w) <=> In(w)') /\ ~Attends(w) /\ UNCHANGED <<mails, faults>>
        BY <1>2, <2>1 DEF Claim, WorkersOK, MaySend, Delivering
      <3>2. after = account
        BY <1>b, <3>1
      <3>3. QED
        BY <1>0, <1>c, <3>1, <3>2, BudgetKept
    <2>2. CASE d = e
      <3>1. ~Attended(e)
        BY <1>2, <2>2, IntervalType, OutboxAssumption
           DEF Claim, Deliverable, Attended, Secure, Owns, RowsOK, WorkersOK, WorkerInv,
               Delivering
      <3>2. account <= faults
        BY <1>2, <2>2, <3>1 DEF Budget, Claim, Deliverable
      <3>3. w \notin Senders(e) /\ w \in Senders(e)'
        BY <1>2, <2>2 DEF Claim, Senders, MaySend, WorkersOK
      <3>4. Cardinality(Senders(e)') = Cardinality(Senders(e)) + 1
        <4>1. \A v \in Workers \ {w} : UNCHANGED <<pc[v], job[v]>>
          BY <1>2 DEF Claim, WorkersOK
        <4>2. QED
          BY <3>3, <4>1, SendersMove
      <3>5. Attended(e)'
        BY <1>2, <2>2 DEF Claim, Attended, Delivering, WorkersOK, WorkerInv
      <3>6. QED
        BY <1>2, <1>c, <3>2, <3>4, <3>5 DEF Budget, Claim
    <2>3. QED
      BY <2>1, <2>2
  <1>3. ASSUME NEW w \in Workers, Start(w) \/ BeginDelivery(w)
        PROVE  Budget(e)'
    <2>1. Others(w) /\ (In(w) <=> In(w)') /\ UNCHANGED <<mails, faults>>
      BY <1>3 DEF Start, BeginDelivery, WorkersOK, MaySend
    <2>2. Attends(w) => Attends(w)'
      BY <1>3 DEF Start, BeginDelivery, WorkersOK, Delivering
    <2>3. QED
      BY <1>0, <1>b, <1>c, <2>1, <2>2, BudgetKept
  <1>4. ASSUME NEW w \in Workers, BackToPoll(w), UNCHANGED mails, faults' >= faults,
               \/ faults' > faults
               \/ pc[w] \in {"transient", "permanent"}
               \/ pc[w] = "process"
               \/ pc[w] = "finalize" /\ (Owns(w) => status'[job[w]] = "processed")
        PROVE  Budget(e)'
    <2>1. Others(w) /\ ~In(w)'
      BY <1>4 DEF BackToPoll, WorkersOK, MaySend
    <2>2. CASE pc[w] = "process" /\ Attends(w)
      <3>1. In(w)
        BY <2>2 DEF MaySend
      <3>2. QED
        BY <1>0, <1>4, <1>b, <1>c, <2>1, <3>1, BudgetKept
    <2>3. CASE ~(pc[w] = "process" /\ Attends(w))
      <3>1. Attends(w) => faults' > faults \/ status'[e] = "processed"
        BY <1>4, <2>3 DEF Delivering, Secure
      <3>2. QED
        BY <1>0, <1>4, <1>b, <1>c, <2>1, <3>1, BudgetKept
    <2>4. QED
      BY <2>2, <2>3
  <1>5. ASSUME NEW w \in Workers, NEW k \in {"transient", "permanent"}, Raise(w, k),
               faults' >= faults,
               \/ UNCHANGED mails /\ (faults' > faults \/ pc[w] \in {"process", "sending"})
               \/ Accepted(job[w]) /\ faults' > faults /\ pc[w] = "sending"
        PROVE  Budget(e)'
    <2>1. Others(w) /\ ~In(w)'
      BY <1>5 DEF Raise, WorkersOK, MaySend
    <2>2. CASE job[w] = e /\ pc[w] \in {"process", "sending"}
      <3>1. In(w)
        BY <2>2 DEF MaySend
      <3>2. mails'[e] <= mails[e] + 1 /\ (faults' > faults \/ mails'[e] = mails[e])
        <4>1. CASE UNCHANGED mails
          BY <1>c, <4>1, <1>5
        <4>2. CASE Accepted(job[w]) /\ faults' > faults
          BY <1>c, <4>2, <2>2 DEF Accepted, CountsOK
        <4>3. QED
          BY <1>5, <4>1, <4>2
      <3>3. QED
        BY <1>0, <1>5, <1>b, <1>c, <2>1, <3>1, <3>2, BudgetKept
    <2>3. CASE ~(job[w] = e /\ pc[w] \in {"process", "sending"})
      <3>1. mails'[e] = mails[e]
        BY <1>5, <2>3 DEF Accepted, CountsOK
      <3>2. Attends(w) => faults' > faults
        BY <1>5, <2>3
      <3>3. QED
        BY <1>0, <1>5, <1>b, <1>c, <2>1, <3>1, <3>2, BudgetKept
    <2>4. QED
      BY <2>2, <2>3
  <1>6. ASSUME NEW w \in Workers, NEW n \in {"sending", "finalize"}, NEW r, Proceed(w, n, r),
               UNCHANGED faults,
               \/ pc[w] = "process" /\ UNCHANGED mails
               \/ pc[w] = "sending" /\ n = "finalize" /\ Accepted(job[w])
        PROVE  Budget(e)'
    <2>1. Others(w) /\ (Attends(w) => Attends(w)')
      BY <1>6 DEF Proceed, WorkersOK, Delivering
    <2>2. CASE pc[w] = "process"
      <3>1. In(w)' => In(w)
        BY <1>6, <2>2 DEF Proceed, WorkersOK, MaySend
      <3>2. QED
        BY <1>0, <1>6, <1>b, <1>c, <2>1, <2>2, <3>1, BudgetKept
    <2>3. CASE pc[w] = "sending"
      <3>1. ~In(w)' /\ (job[w] = e => In(w))
        BY <1>6, <2>3 DEF Proceed, WorkersOK, MaySend
      <3>2. mails'[e] <= mails[e] + 1 /\ (job[w] # e => mails'[e] = mails[e])
        BY <1>6, <2>3 DEF Accepted, CountsOK
      <3>3. QED
        BY <1>0, <1>6, <1>b, <1>c, <2>1, <3>1, <3>2, BudgetKept
    <2>4. QED
      BY <1>6, <2>2, <2>3
  <1>7. ASSUME NEW w \in Workers, HeartbeatDies(w) \/ Die(w)
        PROVE  Budget(e)'
    <2>1. Others(w) /\ (In(w)' => In(w)) /\ UNCHANGED mails /\ faults' > faults
      BY <1>7, <1>c DEF HeartbeatDies, Die, Fault, WorkersOK, MaySend
    <2>2. QED
      BY <1>0, <1>b, <1>c, <2>1, BudgetKept
  <1>8. ASSUME NEW w \in Workers, OrphanThreadEnds(w)
        PROVE  Budget(e)'
    <2>1. Others(w) /\ ~In(w)' /\ ~Attends(w) /\ (job[w] = e => In(w)) /\ UNCHANGED faults
      BY <1>8 DEF OrphanThreadEnds, WorkersOK, MaySend, Delivering
    <2>2. mails'[e] <= mails[e] + 1 /\ (job[w] # e => mails'[e] = mails[e])
      BY <1>8 DEF OrphanThreadEnds, Accepted, CountsOK
    <2>3. QED
      BY <1>0, <1>b, <1>c, <2>1, <2>2, BudgetKept
  <1>9. ASSUME NEW w \in Workers, Finalize(w)
        PROVE  Budget(e)'
    <2>1. Owns(w) => status'[job[w]] = "processed"
      BY <1>9 DEF Finalize, RecordResult, WorkerInv, RowsOK
    <2>2. QED
      BY <1>4, <1>9, <1>c, <2>1 DEF Finalize
  <1>10. ASSUME NEW w \in Workers,
                \/ ClaimAbandoned(w) \/ LeaseLost(w) \/ RecordPermanentFailure(w)
                \/ Reschedule(w) \/ RecordFails(w)
         PROVE  Budget(e)'
    BY <1>4, <1>10, <1>c DEF ClaimAbandoned, LeaseLost, RecordPermanentFailure,
                             Reschedule, RecordFails, Fault
  <1>11. ASSUME NEW w \in Workers,
                \/ PayloadInvalid(w) \/ BuildFails(w) \/ SendFails(w)
                \/ TemplateFails(w) \/ FinalizeFails(w)
         PROVE  Budget(e)'
    BY <1>5, <1>11, <1>c DEF PayloadInvalid, BuildFails, SendFails, TemplateFails,
                             FinalizeFails, Fault
  <1>12. ASSUME NEW w \in Workers, DiscardDisabled(w) \/ Build(w) \/ SendAccepted(w)
         PROVE  Budget(e)'
    BY <1>6, <1>12 DEF DiscardDisabled, Build, SendAccepted
  <1>13. CASE \/ \E d \in Events : Publish(d)
              \/ \E w \in Workers : Heartbeat(w) \/ Cleanup(w)
              \/ Tick
              \/ UNCHANGED vars
    BY <1>1, <1>13 DEF Publish, Heartbeat, Cleanup, Tick, vars, workerVars
  <1>14. QED
    BY <1>2, <1>3, <1>7, <1>8, <1>9, <1>10, <1>11, <1>12, <1>13
       DEF Next, Work, Failure

\* As long as due heartbeats are served in time, a message goes out at most once
\* plus once for every fault: duplicates have no other cause.
THEOREM DuplicatesExplained == Spec => []DuplicatesNeedFaults
  <1> DEFINE Accounts == Timely => \A e \in Events : Budget(e)
  <1>1. Init => Accounts
    <2>1. ASSUME Init, NEW e \in Events
          PROVE  Budget(e)
      <3>1. Senders(e) = {}
        BY <2>1, OutboxAssumption DEF Init, Senders, MaySend
      <3>2. QED
        BY <2>1, <3>1, FS_EmptySet DEF Init, Budget
    <2>2. QED
      BY <2>1
  <1>2. Inv /\ Accounts /\ [Next]_vars => Accounts'
    BY BudgetStep
  <1>3. Inv /\ Accounts => DuplicatesNeedFaults
    <2>1. ASSUME Inv, NEW e \in Events, Budget(e)
          PROVE  mails[e] <= 1 + faults
      BY <2>1, SendersFinite DEF Inv, TypeOK, Budget
    <2>2. QED
      BY <2>1 DEF DuplicatesNeedFaults
  <1>4. QED
    BY <1>1, <1>2, <1>3, InvHolds, PTL DEF Spec
=============================================================================
