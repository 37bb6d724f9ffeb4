--------------------------- MODULE InboxDelivery ---------------------------
(***************************************************************************)
(* Manual replies of the PMS Inbox and their durable delivery: the reply   *)
(* command, the outbox relay, the delivery jobs with their leases, the     *)
(* workers that call Channex or Resend outside any transaction, and the    *)
(* ingestion of the provider's echo of what was sent.                      *)
(*                                                                         *)
(* Each database transaction is one step; so is the provider call, which   *)
(* may deliver the message whether or not its answer comes back.  Between  *)
(* two steps a worker may crash, or stall past its lease and go on later.  *)
(* Backoff delays are left out: a pending job may run at any time.         *)
(***************************************************************************)
EXTENDS Naturals, FiniteSets

CONSTANTS
    Messages,     \* the message a reply command creates, one per command
    Key,          \* [Messages -> idempotency keys]
    Thread,       \* [Messages -> threads]
    Channel,      \* [Messages -> {"ota", "email"}]: delivery_channel
    Workers,      \* worker runs
    NoWorker,     \* a NULL locked_by or worker_id
    MaxAttempts,  \* max_attempts, 5 in the code
    MaxFaults     \* bound on crashes and on leases lost by live workers

Keys == {Key[m] : m \in Messages}
Threads == {Thread[m] : m \in Messages}
Numbers == 1..MaxAttempts

ASSUME InboxAssumption ==
    /\ \A m \in Messages : Channel[m] \in {"ota", "email"}
    /\ NoWorker \notin Workers
    /\ MaxAttempts \in Nat \ {0} /\ MaxFaults \in Nat

VARIABLES
    view,        \* the thread version a command carries: current or stale
    replyIdem,   \* idempotency rows of the reply operation
    message,     \* delivery_state, "none" before the reply
    current,     \* number of current_delivery_attempt_id, 0 for NULL
    outbox,      \* platform.outbox_events
    job,         \* platform.jobs, one per message by its key
    jobAttempt,  \* platform.job_attempts, by message and number
    attempt,     \* pms.message_delivery_attempts, by message and number
    firstTry,    \* has a resend attempt started 23 hours ago or earlier
    echo,        \* ingestion of the provider's copy of an OTA message
    worker,      \* what each worker is doing
    copies,      \* how often the message reached the guest
    remembered,  \* the messages whose idempotency key Resend remembers
    faults

replyVars == <<view, replyIdem>>
storeVars == <<message, current, job, jobAttempt, attempt>>
providerVars == <<copies, remembered>>
vars == <<view, replyIdem, message, current, outbox, job, jobAttempt, attempt,
          firstTry, echo, worker, copies, remembered, faults>>

Idle == [step |-> "idle"]

-----------------------------------------------------------------------------
(* The reply command.                                                      *)

(* version + 1: every view of the thread goes stale.                       *)
AdvanceThread(t) ==
    view' = [m \in Messages |-> IF Thread[m] = t /\ view[m] = "current"
                                THEN "stale" ELSE view[m]]

ReadThread(m) ==
    /\ view[m] = "unread"
    /\ view' = [view EXCEPT ![m] = "current"]
    /\ UNCHANGED <<replyIdem, outbox, firstTry, echo, worker, faults,
                   storeVars, providerVars>>

(* The guest writes: updateThread advances the version.                    *)
InboundMessage(t) ==
    /\ \E m \in Messages : Thread[m] = t /\ view[m] = "current"
    /\ AdvanceThread(t)
    /\ UNCHANGED <<replyIdem, outbox, firstTry, echo, worker, faults,
                   storeVars, providerVars>>

(* Is there a way to reach the guest, and do the attachments pass?         *)
Routes == {"ready", "held"}
AttachmentAnswers == {"valid", "invalid"}

FindReplay(m) == replyIdem[Key[m]] # "none"

InsertMessage(m, route) ==
    message' = [message EXCEPT ![m] = IF route = "ready" THEN "queued" ELSE "held"]

InsertDeliveryOutbox(m) == outbox' = [outbox EXCEPT ![m] = "pending"]

CommitResult(m, result) == replyIdem' = [replyIdem EXCEPT ![Key[m]] = result]

(* A second request under the key only replays.  A stale version or bad    *)
(* attachments are stored as the key's result; without a route the message *)
(* is held and nothing is enqueued.                                        *)
Reply(m, route, attachments) ==
    /\ view[m] # "unread"
    /\ ~FindReplay(m)
    /\ IF view[m] = "current" /\ attachments = "valid"
       THEN /\ InsertMessage(m, route)
            /\ AdvanceThread(Thread[m])
            /\ IF route = "ready" THEN InsertDeliveryOutbox(m) ELSE UNCHANGED outbox
            /\ CommitResult(m, "accepted")
       ELSE /\ CommitResult(m, "rejected")
            /\ UNCHANGED <<message, outbox, view>>
    /\ UNCHANGED <<current, job, jobAttempt, attempt, firstTry, echo, worker,
                   faults, providerVars>>

(* relayPmsInboxDeliveryOutbox: insert the job, mark the event published.  *)
Relay(m) ==
    /\ outbox[m] = "pending"
    /\ outbox' = [outbox EXCEPT ![m] = "published"]
    /\ job' = [job EXCEPT ![m] =
          IF @.status = "none" THEN [@ EXCEPT !.status = "pending"] ELSE @]
    /\ UNCHANGED <<message, current, jobAttempt, attempt, firstTry, echo, worker,
                   faults, replyVars, providerVars>>

-----------------------------------------------------------------------------
(* The delivery worker: claim, prepare, send, complete.                    *)

(* Mutation: a job whose worker died is never taken over.                  *)
ClaimablePendingOnly(m) == job[m].status = "pending" /\ job[m].attempts < MaxAttempts

Claimable(m) ==
    \/ job[m].status = "pending" /\ job[m].attempts < MaxAttempts
    \/ job[m].status = "running" /\ job[m].expired

(* Mutation: a takeover counts as an attempt.                              *)
ClaimNumberAlwaysNew(m) == job[m].attempts + 1

(* A takeover keeps the attempt number.                                    *)
ClaimNumber(m) == job[m].attempts + (IF job[m].status = "pending" THEN 1 ELSE 0)

(* claimPmsInboxDeliveryJob.                                               *)
Claim(w, m) ==
    LET number == ClaimNumber(m)
    IN  /\ worker[w].step = "idle"
        /\ Claimable(m)
        /\ job' = [job EXCEPT ![m] = [status |-> "running", attempts |-> number,
                                      owner |-> w, expired |-> FALSE]]
        /\ jobAttempt' = [jobAttempt EXCEPT ![m] = [n \in Numbers |->
              IF n < number /\ @[n].status = "running"
              THEN [@[n] EXCEPT !.status = "timed_out"]
              ELSE IF n = number /\ @[n].status \in {"none", "running"}
              THEN [status |-> "running", owner |-> w]
              ELSE @[n]]]
        /\ worker' = [worker EXCEPT ![w] = [step |-> "claimed", job |-> m, number |-> number]]
        /\ UNCHANGED <<message, current, attempt, outbox, firstTry, echo, faults,
                       replyVars, providerVars>>

HasLease(w) ==
    LET j == job[worker[w].job]
    IN  j.status = "running" /\ j.owner = w /\ j.attempts = worker[w].number

(* How the world answers the checks of prepare, in its order.              *)
Conditions == {"ready", "access_unavailable", "configuration_unavailable",
               "media_unreadable", "media_invalid"}

(* Accepted, or the failure of a blocked or refused delivery.              *)
Results == {"accepted", "transient", "ambiguous", "access_unavailable",
            "configuration_unavailable", "resource_deleted", "invalid", "rejected"}

(* What a worker completes with: a result and the attempt it is about.     *)
Answered(m, number, result, about) ==
    [step |-> "answered", job |-> m, number |-> number, result |-> result, about |-> about]

(* Mutation: the age of the first email attempt is not looked at.          *)
VerdictWithoutExpiry(m, condition) ==
    IF message[m] = "deleted" THEN "resource_deleted"
    ELSE IF message[m] = "sent" /\ current[m] # 0 /\ attempt[m][current[m]] = "accepted"
    THEN "accepted"
    ELSE IF current[m] # 0 /\ attempt[m][current[m]] = "running" THEN "ambiguous"
    ELSE IF condition = "access_unavailable" THEN condition
    ELSE IF condition = "configuration_unavailable"
            \/ message[m] \notin {"queued", "retrying"}
    THEN "configuration_unavailable"
    ELSE IF condition = "media_unreadable" THEN "transient"
    ELSE IF condition = "media_invalid" THEN "invalid"
    ELSE "ready"

(* The early returns of preparePmsInboxDeliveryJob; "ready" falls through. *)
Verdict(m, condition) ==
    IF message[m] = "deleted" THEN "resource_deleted"
    ELSE IF message[m] = "sent" /\ current[m] # 0 /\ attempt[m][current[m]] = "accepted"
    THEN "accepted"
    ELSE IF current[m] # 0 /\ attempt[m][current[m]] = "running" THEN "ambiguous"
    ELSE IF condition = "access_unavailable" THEN condition
    ELSE IF Channel[m] = "email" /\ firstTry[m] = "old" THEN "ambiguous"
    ELSE IF condition = "configuration_unavailable"
            \/ message[m] \notin {"queued", "retrying"}
    THEN "configuration_unavailable"
    ELSE IF condition = "media_unreadable" THEN "transient"
    ELSE IF condition = "media_invalid" THEN "invalid"
    ELSE "ready"

(* A verdict other than "ready" is about the current attempt only when     *)
(* that attempt decided it.                                                *)
AboutCurrent(m, verdict) ==
    \/ verdict = "accepted"
    \/ verdict = "ambiguous" /\ current[m] # 0 /\ attempt[m][current[m]] = "running"

(* The attempt is inserted, projected onto the message, the lease renewed. *)
StartAttempt(w, m, number) ==
    /\ attempt[m][number] = "none"
    /\ attempt' = [attempt EXCEPT ![m][number] = "running"]
    /\ current' = [current EXCEPT ![m] = number]
    /\ job' = [job EXCEPT ![m].expired = FALSE]
    /\ firstTry' = [firstTry EXCEPT ![m] = IF @ = "none" THEN "recent" ELSE @]
    /\ worker' = [worker EXCEPT ![w].step = "sending"]

Prepare(w, condition) ==
    LET m == worker[w].job
        number == worker[w].number
        verdict == Verdict(m, condition)
    IN  /\ worker[w].step = "claimed"
        /\ HasLease(w)
        /\ IF verdict = "ready"
           THEN StartAttempt(w, m, number)
           ELSE /\ worker' = [worker EXCEPT ![w] = Answered(m, number, verdict,
                      IF AboutCurrent(m, verdict) THEN current[m] ELSE 0)]
                /\ UNCHANGED <<attempt, current, job, firstTry>>
        /\ UNCHANGED <<message, jobAttempt, outbox, echo, faults, replyVars, providerVars>>

(* "PMS Inbox delivery job lease was lost" is thrown and ends the run.     *)
PrepareWithoutLease(w) ==
    /\ worker[w].step = "claimed"
    /\ ~HasLease(w)
    /\ worker' = [worker EXCEPT ![w] = Idle]
    /\ UNCHANGED <<outbox, firstTry, echo, faults, replyVars, storeVars, providerVars>>

-----------------------------------------------------------------------------
(* The providers.                                                          *)

(* Mutation: no answer from Channex is retried like one from Resend.       *)
ChannexResultRetryLost ==
    [ok |-> "accepted", no_reference |-> "ambiguous", partial |-> "ambiguous",
     lost |-> "transient", server_error |-> "ambiguous", rate_limited |-> "transient",
     upload_failed |-> "transient", upload_refused |-> "invalid",
     unauthorized |-> "configuration_unavailable", refused |-> "rejected"]

(* createChannexMessageDelivery: what each outcome of the calls becomes.   *)
(* The attachments are uploaded first, then one post per attachment.       *)
ChannexResult ==
    [ok |-> "accepted", no_reference |-> "ambiguous", partial |-> "ambiguous",
     lost |-> "ambiguous", server_error |-> "ambiguous", rate_limited |-> "transient",
     upload_failed |-> "transient", upload_refused |-> "invalid",
     unauthorized |-> "configuration_unavailable", refused |-> "rejected"]

(* createResendPmsInboxDelivery.                                           *)
ResendResult ==
    [ok |-> "accepted", no_reference |-> "ambiguous", lost |-> "transient",
     server_error |-> "transient", rate_limited |-> "transient",
     concurrent |-> "transient", key_conflict |-> "ambiguous",
     unauthorized |-> "configuration_unavailable", malformed |-> "invalid",
     refused |-> "rejected"]

ResultOf(m) == IF Channel[m] = "ota" THEN ChannexResult ELSE ResendResult

(* Outcomes in which the guest certainly, and possibly, has the message.   *)
Delivered == {"ok", "no_reference", "partial"}
MaybeDelivered == {"lost", "server_error"}

(* A request under a key that Resend remembers delivers nothing new.       *)
Send(w, outcome) ==
    LET m == worker[w].job
        number == worker[w].number
        known == Channel[m] = "email" /\ m \in remembered
    IN  /\ worker[w].step = "sending"
        /\ outcome \in DOMAIN ResultOf(m)
        /\ \E reaches \in BOOLEAN :
              /\ outcome \in Delivered => reaches
              /\ reaches => outcome \in Delivered \cup MaybeDelivered
              /\ copies' = [copies EXCEPT ![m] = IF reaches /\ ~known THEN @ + 1 ELSE @]
              /\ remembered' = IF reaches /\ Channel[m] = "email"
                               THEN remembered \cup {m} ELSE remembered
              /\ echo' = [echo EXCEPT ![m] =
                    IF reaches /\ Channel[m] = "ota" /\ @ = "none" THEN "due" ELSE @]
        /\ worker' = [worker EXCEPT ![w] = Answered(m, number, ResultOf(m)[outcome], number)]
        /\ UNCHANGED <<outbox, firstTry, faults, replyVars, storeVars>>

(* 23 hours after the first resend attempt started.                        *)
TryGetsOld(m) ==
    /\ Channel[m] = "email" /\ firstTry[m] = "recent"
    /\ firstTry' = [firstTry EXCEPT ![m] = "old"]
    /\ UNCHANGED <<outbox, echo, worker, faults, replyVars, storeVars, providerVars>>

(* Resend keeps a key for 24 hours.  A worker posts within the hour that   *)
(* the 23-hour check leaves it.                                            *)
ProviderForgets(m) ==
    /\ m \in remembered /\ firstTry[m] = "old"
    /\ \A w \in Workers : worker[w].step = "sending" => worker[w].job # m
    /\ remembered' = remembered \ {m}
    /\ UNCHANGED <<outbox, firstTry, echo, worker, copies, faults, replyVars, storeVars>>

-----------------------------------------------------------------------------
(* Completion.                                                             *)

(* Mutation: after the last attempt only the job is closed.                *)
ProjectExhaustedRetrying(result, number) ==
    IF result = "transient"
    THEN [attempt |-> "transient_failure", state |-> "retrying",
          job |-> IF number < MaxAttempts THEN "pending" ELSE "dead_lettered"]
    ELSE IF result = "resource_deleted"
    THEN [attempt |-> "terminal_failure", state |-> "deleted", job |-> "dead_lettered"]
    ELSE IF result \in {"ambiguous", "access_unavailable", "configuration_unavailable"}
    THEN [attempt |-> "terminal_failure", state |-> "held", job |-> "failed"]
    ELSE [attempt |-> "terminal_failure", state |-> "failed", job |-> "failed"]

(* Mutation: an unknown outcome is closed as a failure.                    *)
ProjectAmbiguousFailed(result, number) ==
    IF result = "transient" /\ number < MaxAttempts
    THEN [attempt |-> "transient_failure", state |-> "retrying", job |-> "pending"]
    ELSE IF result = "transient"
    THEN [attempt |-> "terminal_failure", state |-> "failed", job |-> "dead_lettered"]
    ELSE IF result = "resource_deleted"
    THEN [attempt |-> "terminal_failure", state |-> "deleted", job |-> "dead_lettered"]
    ELSE IF result \in {"access_unavailable", "configuration_unavailable"}
    THEN [attempt |-> "terminal_failure", state |-> "held", job |-> "failed"]
    ELSE [attempt |-> "terminal_failure", state |-> "failed", job |-> "failed"]

(* projectPmsInboxDeliveryFailure and the job status made from it; a       *)
(* deleted message is not projected.                                       *)
ProjectFailure(result, number) ==
    IF result = "transient" /\ number < MaxAttempts
    THEN [attempt |-> "transient_failure", state |-> "retrying", job |-> "pending"]
    ELSE IF result = "transient"
    THEN [attempt |-> "terminal_failure", state |-> "failed", job |-> "dead_lettered"]
    ELSE IF result = "resource_deleted"
    THEN [attempt |-> "terminal_failure", state |-> "deleted", job |-> "dead_lettered"]
    ELSE IF result \in {"ambiguous", "access_unavailable", "configuration_unavailable"}
    THEN [attempt |-> "terminal_failure", state |-> "held", job |-> "failed"]
    ELSE [attempt |-> "terminal_failure", state |-> "failed", job |-> "failed"]

Projection(result, number) ==
    IF result = "accepted"
    THEN [attempt |-> "accepted", state |-> "sent", job |-> "succeeded"]
    ELSE ProjectFailure(result, number)

(* Mutation: the job alone decides who may complete it.                    *)
MayCompleteAnyOwner(w) == job[worker[w].job].status = "running"

MayComplete(w) ==
    /\ HasLease(w)
    /\ jobAttempt[worker[w].job][worker[w].number] = [status |-> "running", owner |-> w]

(* The rows that an update of completePmsInboxDeliveryJob must find, else  *)
(* it throws and the transaction rolls back.                               *)
CompletionFits(w) ==
    LET m == worker[w].job
        about == worker[w].about
    IN  /\ about # 0 => \/ attempt[m][about] = "running"
                        \/ worker[w].result = "accepted" /\ attempt[m][about] = "accepted"
        /\ message[m] = "deleted" => worker[w].result = "resource_deleted"

FinishPlatformWork(m, number, status) ==
    /\ jobAttempt' = [jobAttempt EXCEPT ![m][number].status =
          IF status = "succeeded" THEN "succeeded" ELSE "failed"]
    /\ job' = [job EXCEPT ![m] = [@ EXCEPT !.status = status, !.owner = NoWorker,
                                           !.expired = FALSE]]

Complete(w) ==
    LET m == worker[w].job
        number == worker[w].number
        about == worker[w].about
        projection == Projection(worker[w].result, number)
    IN  /\ worker[w].step = "answered"
        /\ MayComplete(w) /\ CompletionFits(w)
        /\ attempt' = [attempt EXCEPT ![m] = [n \in Numbers |->
              IF n = about THEN projection.attempt ELSE @[n]]]
        /\ message' = [message EXCEPT ![m] = projection.state]
        /\ current' = [current EXCEPT ![m] = IF about # 0 THEN about ELSE @]
        /\ FinishPlatformWork(m, number, projection.job)
        /\ worker' = [worker EXCEPT ![w] = Idle]
        /\ UNCHANGED <<outbox, firstTry, echo, faults, replyVars, providerVars>>

(* Lease lost: the result is dropped.  A missing row: the run ends.        *)
CompleteInVain(w) ==
    /\ worker[w].step = "answered"
    /\ ~(MayComplete(w) /\ CompletionFits(w))
    /\ worker' = [worker EXCEPT ![w] = Idle]
    /\ UNCHANGED <<outbox, firstTry, echo, faults, replyVars, storeVars, providerVars>>

-----------------------------------------------------------------------------
(* Echoes, deletion and faults.                                            *)

(* Mutation: an echo is ingested while its delivery is still running.      *)
IngestEchoAtOnce(m) ==
    /\ echo[m] = "due"
    /\ \/ /\ \E n \in Numbers : attempt[m][n] = "accepted"
          /\ echo' = [echo EXCEPT ![m] = "recognized"]
          /\ UNCHANGED view
       \/ /\ \A n \in Numbers : attempt[m][n] # "accepted"
          /\ echo' = [echo EXCEPT ![m] = "imported"]
          /\ AdvanceThread(Thread[m])
    /\ UNCHANGED <<replyIdem, outbox, firstTry, worker, faults, storeVars, providerVars>>

InFlight(t) ==
    \E m \in Messages, n \in Numbers :
        Thread[m] = t /\ Channel[m] = "ota" /\ attempt[m][n] = "running"

(* persist and vayadaDeliveryState of the message ingestion: the echo of   *)
(* an accepted attempt is a duplicate; another one waits for the running   *)
(* deliveries of its thread, is then inserted as a message of its own and  *)
(* advances the thread.                                                    *)
IngestEcho(m) ==
    /\ echo[m] = "due"
    /\ \/ /\ \E n \in Numbers : attempt[m][n] = "accepted"
          /\ echo' = [echo EXCEPT ![m] = "recognized"]
          /\ UNCHANGED view
       \/ /\ \A n \in Numbers : attempt[m][n] # "accepted"
          /\ ~InFlight(Thread[m])
          /\ echo' = [echo EXCEPT ![m] = "imported"]
          /\ AdvanceThread(Thread[m])
    /\ UNCHANGED <<replyIdem, outbox, firstTry, worker, faults, storeVars, providerVars>>

(* The last ingestion attempt fails, be it for a delivery in flight, or    *)
(* dies: the echo is dead-lettered.                                        *)
DropEcho(m) ==
    /\ echo[m] = "due"
    /\ echo' = [echo EXCEPT ![m] = "dropped"]
    /\ UNCHANGED <<outbox, firstTry, worker, faults, replyVars, storeVars, providerVars>>

(* The row is removed from outside this code.  Attempts RESTRICT that.     *)
DeleteMessage(m) ==
    /\ message[m] \in {"queued", "retrying"}
    /\ \A n \in Numbers : attempt[m][n] = "none"
    /\ message' = [message EXCEPT ![m] = "deleted"]
    /\ UNCHANGED <<current, job, jobAttempt, attempt, outbox, firstTry, echo, worker,
                   faults, replyVars, providerVars>>

WorkerAlive(m) == \E w \in Workers : worker[w].step # "idle" /\ worker[w].job = m
                                     /\ job[m].owner = w

(* Five minutes without the lease being renewed.                           *)
LeaseExpires(m) ==
    /\ job[m].status = "running" /\ ~job[m].expired
    /\ job' = [job EXCEPT ![m].expired = TRUE]
    /\ IF WorkerAlive(m) THEN faults < MaxFaults /\ faults' = faults + 1
                         ELSE UNCHANGED faults
    /\ UNCHANGED <<message, current, jobAttempt, attempt, outbox, firstTry, echo, worker,
                   replyVars, providerVars>>

(* A crash, a restart, or a database error that ends the worker's run.     *)
Crash(w) ==
    /\ worker[w].step # "idle" /\ faults < MaxFaults
    /\ worker' = [worker EXCEPT ![w] = Idle]
    /\ faults' = faults + 1
    /\ UNCHANGED <<outbox, firstTry, echo, replyVars, storeVars, providerVars>>

-----------------------------------------------------------------------------
Init ==
    /\ view = [m \in Messages |-> "unread"]
    /\ replyIdem = [k \in Keys |-> "none"]
    /\ message = [m \in Messages |-> "none"]
    /\ current = [m \in Messages |-> 0]
    /\ outbox = [m \in Messages |-> "none"]
    /\ job = [m \in Messages |-> [status |-> "none", attempts |-> 0, owner |-> NoWorker,
                                  expired |-> FALSE]]
    /\ jobAttempt = [m \in Messages |-> [n \in Numbers |->
                        [status |-> "none", owner |-> NoWorker]]]
    /\ attempt = [m \in Messages |-> [n \in Numbers |-> "none"]]
    /\ firstTry = [m \in Messages |-> "none"]
    /\ echo = [m \in Messages |-> "none"]
    /\ worker = [w \in Workers |-> Idle]
    /\ copies = [m \in Messages |-> 0]
    /\ remembered = {}
    /\ faults = 0

Outcomes == DOMAIN ChannexResult \cup DOMAIN ResendResult

WorkerStep(w) ==
    \/ \E m \in Messages : Claim(w, m)
    \/ \E c \in Conditions : Prepare(w, c)
    \/ PrepareWithoutLease(w)
    \/ \E o \in Outcomes : Send(w, o)
    \/ Complete(w)
    \/ CompleteInVain(w)

Next ==
    \/ \E m \in Messages : ReadThread(m)
    \/ \E t \in Threads : InboundMessage(t)
    \/ \E m \in Messages, route \in Routes, attachments \in AttachmentAnswers :
          Reply(m, route, attachments)
    \/ \E m \in Messages : Relay(m)
    \/ \E w \in Workers : WorkerStep(w)
    \/ \E m \in Messages : TryGetsOld(m)
    \/ \E m \in Messages : ProviderForgets(m)
    \/ \E m \in Messages : IngestEcho(m)
    \/ \E m \in Messages : DropEcho(m)
    \/ \E m \in Messages : DeleteMessage(m)
    \/ \E m \in Messages : LeaseExpires(m)
    \/ \E w \in Workers : Crash(w)

Spec == Init /\ [][Next]_vars

(* The relay and the workers run on a timer, a provider call has a         *)
(* timeout, and the lease of a dead worker runs out.                       *)
Fairness ==
    /\ \A m \in Messages : WF_vars(Relay(m))
    /\ \A w \in Workers : WF_vars(WorkerStep(w))
    /\ \A m \in Messages : WF_vars(~WorkerAlive(m) /\ LeaseExpires(m))

FairSpec == Spec /\ Fairness

-----------------------------------------------------------------------------
(* Properties.                                                             *)

JobStatuses == {"none", "pending", "running", "succeeded", "failed", "dead_lettered"}

(* The shape of the rows; a running worker holds a job and a number.       *)
TypeOK ==
    /\ view \in [Messages -> {"unread", "current", "stale"}]
    /\ replyIdem \in [Keys -> {"none", "accepted", "rejected"}]
    /\ message \in [Messages -> {"none", "queued", "retrying", "sent", "held",
                                 "failed", "deleted"}]
    /\ current \in [Messages -> Numbers \cup {0}]
    /\ outbox \in [Messages -> {"none", "pending", "published"}]
    /\ job \in [Messages -> [status : JobStatuses, attempts : Numbers \cup {0},
                             owner : Workers \cup {NoWorker}, expired : BOOLEAN]]
    /\ jobAttempt \in [Messages -> [Numbers ->
          [status : {"none", "running", "succeeded", "failed", "timed_out"},
           owner : Workers \cup {NoWorker}]]]
    /\ attempt \in [Messages -> [Numbers ->
          {"none", "running", "accepted", "transient_failure", "terminal_failure"}]]
    /\ firstTry \in [Messages -> {"none", "recent", "old"}]
    /\ echo \in [Messages -> {"none", "due", "recognized", "imported", "dropped"}]
    /\ worker \in [Workers ->
          {Idle}
          \cup [step : {"claimed", "sending"}, job : Messages, number : Numbers]
          \cup [step : {"answered"}, job : Messages, number : Numbers,
                result : Results, about : Numbers \cup {0}]]
    /\ copies \in [Messages -> Nat]
    /\ remembered \in SUBSET Messages
    /\ faults \in 0..MaxFaults

(* However often a reply is submitted under its key, retried, taken over   *)
(* by another worker or sent by a worker that lost its lease, the guest    *)
(* gets it once.                                                           *)
ReplyReachesGuestOnce ==
    \A m, n \in Messages :
        /\ copies[m] <= 1
        /\ m # n /\ Key[m] = Key[n] => copies[m] + copies[n] <= 1

(* The job, the outbox row and the message state never drift apart: the    *)
(* message shows queued or retrying exactly as long as something will      *)
(* still work on it, sent exactly when the job succeeded.                  *)
JobMatchesMessage ==
    \A m \in Messages :
        LET status == job[m].status
        IN  /\ message[m] \in {"queued", "retrying"} =>
                  outbox[m] = "pending" \/ status \in {"pending", "running"}
            /\ status \in {"pending", "running"} =>
                  message[m] \in {"queued", "retrying", "deleted"}
            /\ message[m] = "sent" <=> status = "succeeded"
            /\ status = "failed" => message[m] \in {"held", "failed"}
            /\ status = "dead_lettered" => message[m] \in {"failed", "deleted"}

(* A delivery attempt is running only under the running job's current      *)
(* number.  An attempt that stays running after its job is closed would    *)
(* keep the ingestion of its whole thread waiting.                         *)
NoOrphanAttempt ==
    \A m \in Messages, n \in Numbers :
        attempt[m][n] = "running" =>
            /\ current[m] = n
            /\ job[m].status = "running" /\ job[m].attempts = n
            /\ jobAttempt[m][n].status = "running"

(* The provider's copy of a message the Inbox shows as sent is never       *)
(* imported as a second message of the thread.                             *)
EchoNotDoubled == \A m \in Messages : message[m] = "sent" => echo[m] # "imported"

(* A channel message shown as failed did not reach the guest, so writing   *)
(* it again is safe.                                                       *)
FailedOtaUndelivered ==
    \A m \in Messages : Channel[m] = "ota" /\ message[m] = "failed" => copies[m] = 0

(* What native-guest-inbox-contract.md says of every channel: an outcome   *)
(* that cannot be reconciled is held, so a failed message did not go out.  *)
FailedUndelivered == \A m \in Messages : message[m] = "failed" => copies[m] = 0

(* A message that is queued or retrying comes to a final state.            *)
Settles ==
    \A m \in Messages :
        message[m] \in {"queued", "retrying"} ~>
            message[m] \in {"sent", "held", "failed", "deleted"}

Phase == [m \in Messages |->
            IF message[m] \in {"queued", "retrying"} THEN "pending" ELSE message[m]]

Guest == INSTANCE GuestDelivery WITH phase <- Phase

(* The outbox, jobs, leases, attempts and providers together deliver what  *)
(* GuestDelivery promises of a message.                                    *)
ImplementsGuestDelivery == Guest!Spec
=============================================================================
