------------------------ MODULE InboxDeliveryProofs ------------------------
(***************************************************************************)
(* Proofs about InboxDelivery, for every set of messages, threads, keys    *)
(* and workers, every limit on attempts and any number of crashes and lost *)
(* leases.                                                                 *)
(***************************************************************************)
EXTENDS InboxDelivery, TLAPS

-----------------------------------------------------------------------------
(* The inductive invariant.                                                *)

(* The key of an inserted message is taken by its reply, and by no other.  *)
KeysTaken ==
    \A m \in Messages : message[m] # "none" =>
        /\ replyIdem[Key[m]] = "accepted"
        /\ \A n \in Messages : Key[n] = Key[m] /\ message[n] # "none" => n = m

(* The outbox row precedes the job; a message without one has no route.    *)
OutboxRows ==
    \A m \in Messages :
        /\ outbox[m] = "published" <=> job[m].status # "none"
        /\ outbox[m] = "none" => message[m] \in {"none", "held"}
        /\ outbox[m] = "pending" => message[m] \in {"queued", "deleted"}
        /\ message[m] = "none" => outbox[m] = "none"

(* A running job and its job attempt name one owner; later numbers are     *)
(* unused.                                                                 *)
JobRows ==
    \A m \in Messages :
        /\ job[m].status = "running" =>
              /\ job[m].attempts \in Numbers /\ job[m].owner \in Workers
              /\ jobAttempt[m][job[m].attempts] = [status |-> "running", owner |-> job[m].owner]
        /\ \A n \in Numbers : n > job[m].attempts => jobAttempt[m][n].status = "none"

Sends(w, m) == worker[w].step = "sending" /\ worker[w].job = m
Answers(w, m) == worker[w].step = "answered" /\ worker[w].job = m

(* Only one worker ever sends a message at a time.  Its attempt is running *)
(* or was closed as held by a worker that took the job over.               *)
SenderRows ==
    \A w \in Workers, m \in Messages : Sends(w, m) =>
        /\ \/ attempt[m][worker[w].number] = "running"
           \/ attempt[m][worker[w].number] = "terminal_failure" /\ message[m] = "held"
        /\ \A v \in Workers : Sends(v, m) => v = w
        /\ \A v \in Workers : Answers(v, m) /\ worker[v].about # 0 /\ HasLease(v)
              => worker[v].result = "ambiguous"

(* What an answer stands for.  With the lease, it is about the running     *)
(* attempt if there is one.                                                *)
AnswerRows ==
    \A w \in Workers, m \in Messages : Answers(w, m) =>
        /\ worker[w].about \in {0, worker[w].number}
        /\ worker[w].result = "accepted" => copies[m] = 1 /\ worker[w].about # 0
        /\ worker[w].result = "resource_deleted" => message[m] = "deleted"
        /\ HasLease(w) => (worker[w].about # 0 <=> attempt[m][worker[w].number] = "running")

(* A copy reached the guest under some attempt; no attempt was ever made   *)
(* for a deleted message, and a sent one was accepted.                     *)
CopyRows ==
    \A m \in Messages :
        /\ copies[m] \in {0, 1}
        /\ copies[m] = 1 => \E n \in Numbers : attempt[m][n] # "none"
        /\ message[m] \in {"none", "deleted"} => \A n \in Numbers : attempt[m][n] = "none"
        /\ message[m] = "sent" => copies[m] = 1 /\ \E n \in Numbers : attempt[m][n] = "accepted"

(* Over Channex, a message that went out is sent, held, or still open and  *)
(* then only an unknown or an accepted outcome can close it.               *)
OtaCopies ==
    \A m \in Messages : Channel[m] = "ota" /\ copies[m] = 1 =>
        /\ \A w \in Workers : ~Sends(w, m)
        /\ \/ message[m] \in {"sent", "held"}
           \/ \E n \in Numbers : attempt[m][n] = "running"
        /\ \A w \in Workers : Answers(w, m) /\ worker[w].about # 0 /\ HasLease(w)
              => worker[w].result \in {"accepted", "ambiguous"}

(* Over Resend, the key of a message that went out is remembered as long   *)
(* as anyone may send it again.                                            *)
EmailCopies ==
    \A m \in Messages :
        /\ m \in remembered => copies[m] = 1
        /\ Channel[m] = "email" /\ copies[m] = 1 /\ m \notin remembered =>
              /\ firstTry[m] = "old"
              /\ \A w \in Workers : ~Sends(w, m)

(* An echo is of an OTA message that went out; one that was imported is of *)
(* a message that stays held.                                              *)
EchoRows ==
    \A m \in Messages :
        /\ echo[m] # "none" => Channel[m] = "ota" /\ copies[m] = 1
        /\ echo[m] = "imported" => message[m] = "held"

InboxInv ==
    /\ TypeOK /\ NoOrphanAttempt /\ JobMatchesMessage
    /\ KeysTaken /\ OutboxRows /\ JobRows
    /\ SenderRows /\ AnswerRows
    /\ CopyRows /\ OtaCopies /\ EmailCopies /\ EchoRows

-----------------------------------------------------------------------------
(* Types.                                                                  *)

JobRow == [status : JobStatuses, attempts : Numbers \cup {0},
           owner : Workers \cup {NoWorker}, expired : BOOLEAN]
Busy == [step : {"claimed", "sending"}, job : Messages, number : Numbers]
Done == [step : {"answered"}, job : Messages, number : Numbers,
         result : Results, about : Numbers \cup {0}]
AttemptStates == {"none", "running", "accepted", "transient_failure", "terminal_failure"}

(* A worker is idle, busy with a job and a number, or has an answer.       *)
LEMMA WorkerKinds ==
    ASSUME TypeOK, NEW w \in Workers
    PROVE  /\ worker[w] = Idle \/ worker[w] \in Busy \/ worker[w] \in Done
           /\ worker[w].step \in {"claimed", "sending"} => worker[w] \in Busy
           /\ worker[w].step = "answered" => worker[w] \in Done
           /\ worker[w].step # "idle" =>
                 worker[w].job \in Messages /\ worker[w].number \in Numbers
BY DEF TypeOK, Busy, Done, Idle

(* The job of a message is a row.                                          *)
LEMMA JobKinds ==
    ASSUME TypeOK
    PROVE  /\ job \in [Messages -> JobRow]
           /\ \A m \in Messages : job[m] \in JobRow /\ job[m].attempts \in Nat
<1>1. job \in [Messages -> JobRow]
  BY DEF TypeOK, JobRow
<1>2. \A j \in JobRow : j.attempts \in Nat
  BY InboxAssumption DEF JobRow, Numbers
<1> QED BY <1>1, <1>2

(* Changing fields of a job leaves a row.                                  *)
LEMMA JobFields ==
    ASSUME NEW j \in JobRow
    PROVE  /\ \A status \in JobStatuses : [j EXCEPT !.status = status] \in JobRow
           /\ \A expired \in BOOLEAN : [j EXCEPT !.expired = expired] \in JobRow
           /\ \A status \in JobStatuses :
                 [j EXCEPT !.status = status, !.owner = NoWorker, !.expired = FALSE] \in JobRow
BY DEF JobRow

JobAttemptRow == [status : {"none", "running", "succeeded", "failed", "timed_out"},
                  owner : Workers \cup {NoWorker}]

(* The job attempts of a message are rows.                                 *)
LEMMA JobAttemptKinds ==
    ASSUME TypeOK
    PROVE  /\ jobAttempt \in [Messages -> [Numbers -> JobAttemptRow]]
           /\ \A m \in Messages, n \in Numbers : jobAttempt[m][n] \in JobAttemptRow
<1>1. jobAttempt \in [Messages -> [Numbers -> JobAttemptRow]]
  BY DEF TypeOK, JobAttemptRow
<1> QED BY <1>1

(* The verdict of prepare is a result, or lets the attempt start.          *)
LEMMA VerdictType ==
    ASSUME NEW m, NEW condition \in Conditions
    PROVE  Verdict(m, condition) \in Results \cup {"ready"}
BY DEF Verdict, Results, Conditions

(* Every outcome of a provider call is answered with a result.             *)
LEMMA ProviderAnswers ==
    ASSUME NEW m, NEW outcome \in DOMAIN ResultOf(m)
    PROVE  /\ ResultOf(m)[outcome] \in Results \ {"resource_deleted", "access_unavailable"}
           /\ ResultOf(m)[outcome] = "accepted" => outcome \in Delivered
           /\ Channel[m] = "ota" /\ outcome \in Delivered \cup MaybeDelivered
                 => ResultOf(m)[outcome] \in {"accepted", "ambiguous"}
<1>1. CASE Channel[m] = "ota"
  <2>1. ResultOf(m) = ChannexResult
    BY <1>1 DEF ResultOf
  <2> QED BY <1>1, <2>1 DEF ChannexResult, Results, Delivered, MaybeDelivered
<1>2. CASE Channel[m] # "ota"
  <2>1. ResultOf(m) = ResendResult
    BY <1>2 DEF ResultOf
  <2> QED BY <1>2, <2>1 DEF ResendResult, Results, Delivered, MaybeDelivered
<1> QED BY <1>1, <1>2

(* What completing with a result makes of the rows.                        *)
LEMMA Projected ==
    ASSUME NEW result \in Results, NEW number
    PROVE  LET p == Projection(result, number) IN
           /\ p.attempt \in {"accepted", "transient_failure", "terminal_failure"}
           /\ p.job \in {"pending", "succeeded", "failed", "dead_lettered"}
           /\ p.state \in {"retrying", "sent", "held", "failed", "deleted"}
           /\ p.state = "retrying" <=> p.job = "pending"
           /\ p.state = "sent" <=> p.job = "succeeded"
           /\ p.state = "sent" <=> result = "accepted"
           /\ p.attempt = "accepted" <=> result = "accepted"
           /\ p.job = "failed" => p.state \in {"held", "failed"}
           /\ p.job = "dead_lettered" => p.state \in {"failed", "deleted"}
           /\ p.state = "deleted" <=> result = "resource_deleted"
           /\ result = "ambiguous" => p.attempt = "terminal_failure" /\ p.state = "held"
BY DEF Projection, ProjectFailure, Results

(* Every step keeps the types.                                             *)
LEMMA TypeStep ==
    ASSUME TypeOK, JobRows, Next
    PROVE  TypeOK'
<1>0. MaxAttempts \in Nat \ {0} /\ MaxFaults \in Nat /\ Numbers \subseteq Nat
      /\ \A m \in Messages : Key[m] \in Keys
  BY InboxAssumption DEF Numbers, Keys
<1>1. ASSUME NEW t, AdvanceThread(t)
      PROVE  view' \in [Messages -> {"unread", "current", "stale"}]
  BY <1>1 DEF AdvanceThread, TypeOK
<1>2. ASSUME NEW m \in Messages, ReadThread(m) PROVE TypeOK'
  BY <1>2 DEF ReadThread, TypeOK, storeVars, providerVars
<1>3. ASSUME NEW t \in Threads, InboundMessage(t) PROVE TypeOK'
  BY <1>1, <1>3 DEF InboundMessage, TypeOK, storeVars, providerVars
<1>4. ASSUME NEW m \in Messages, NEW route \in Routes, NEW attachments \in AttachmentAnswers,
             Reply(m, route, attachments)
      PROVE  TypeOK'
  <2>1. CASE view[m] = "current" /\ attachments = "valid"
    <3>1. /\ view' \in [Messages -> {"unread", "current", "stale"}]
          /\ replyIdem' \in [Keys -> {"none", "accepted", "rejected"}]
          /\ message' \in [Messages -> {"none", "queued", "retrying", "sent", "held",
                                        "failed", "deleted"}]
          /\ outbox' \in [Messages -> {"none", "pending", "published"}]
      <4>1. view' \in [Messages -> {"unread", "current", "stale"}]
        BY <1>1, <1>4, <2>1 DEF Reply
      <4>2. replyIdem' \in [Keys -> {"none", "accepted", "rejected"}]
        BY <1>0, <1>4, <2>1 DEF Reply, CommitResult, TypeOK
      <4>3. message' \in [Messages -> {"none", "queued", "retrying", "sent", "held",
                                       "failed", "deleted"}]
        BY <1>4, <2>1 DEF Reply, InsertMessage, TypeOK
      <4>4. outbox' \in [Messages -> {"none", "pending", "published"}]
        BY <1>4, <2>1 DEF Reply, InsertDeliveryOutbox, TypeOK
      <4> QED BY <4>1, <4>2, <4>3, <4>4
    <3> QED BY <1>4, <2>1, <3>1 DEF Reply, TypeOK, providerVars
  <2>2. CASE ~(view[m] = "current" /\ attachments = "valid")
    BY <1>0, <1>4, <2>2 DEF Reply, CommitResult, TypeOK, providerVars
  <2> QED BY <2>1, <2>2
<1>5. ASSUME NEW m \in Messages, Relay(m) PROVE TypeOK'
  <2>1. job' \in [Messages -> JobRow]
    <3>1. [job[m] EXCEPT !.status = "pending"] \in JobRow
      BY JobKinds, JobFields DEF JobStatuses
    <3> QED BY <1>5, <3>1, JobKinds DEF Relay
  <2> QED BY <1>5, <2>1 DEF Relay, TypeOK, JobRow, replyVars, providerVars
<1>6. ASSUME NEW w \in Workers, NEW m \in Messages, Claim(w, m) PROVE TypeOK'
  <2> DEFINE number == ClaimNumber(m)
  <2>1. number \in Numbers
    <3>1. job[m].attempts \in Nat
      BY JobKinds
    <3>2. CASE job[m].status = "pending" /\ job[m].attempts < MaxAttempts
      BY <1>0, <3>1, <3>2 DEF ClaimNumber, Numbers
    <3>3. CASE job[m].status = "running"
      <4>1. job[m].attempts \in Numbers
        BY <3>3 DEF JobRows
      <4>2. number = job[m].attempts
        BY <3>1, <3>3 DEF ClaimNumber
      <4> QED BY <4>1, <4>2
    <3> QED BY <1>6, <3>2, <3>3 DEF Claim, Claimable
  <2> HIDE DEF number
  <2>2. job' \in [Messages -> JobRow]
    BY <1>6, <2>1 DEF Claim, TypeOK, JobRow, JobStatuses, number
  <2>3. worker' \in [Workers -> {Idle} \cup Busy \cup Done]
    BY <1>6, <2>1 DEF Claim, TypeOK, Busy, Done, number
  <2>4. jobAttempt' \in [Messages -> [Numbers -> JobAttemptRow]]
    <3> DEFINE row(n) == IF n < number /\ jobAttempt[m][n].status = "running"
                         THEN [jobAttempt[m][n] EXCEPT !.status = "timed_out"]
                         ELSE IF n = number /\ jobAttempt[m][n].status \in {"none", "running"}
                         THEN [status |-> "running", owner |-> w]
                         ELSE jobAttempt[m][n]
    <3>1. jobAttempt' = [jobAttempt EXCEPT ![m] = [n \in Numbers |-> row(n)]]
      BY <1>6 DEF Claim, number
    <3>2. \A n \in Numbers : row(n) \in JobAttemptRow
      <4> TAKE n \in Numbers
      <4>1. jobAttempt[m][n] \in JobAttemptRow
        BY JobAttemptKinds
      <4> QED BY <4>1 DEF JobAttemptRow
    <3> HIDE DEF row
    <3> QED BY <3>1, <3>2, JobAttemptKinds
  <2> QED BY <1>6, <2>2, <2>3, <2>4
          DEF Claim, TypeOK, JobRow, JobAttemptRow, Busy, Done, replyVars, providerVars
<1>7. ASSUME NEW w \in Workers, NEW condition \in Conditions, Prepare(w, condition) PROVE TypeOK'
  <2> DEFINE m == worker[w].job
             number == worker[w].number
             verdict == Verdict(m, condition)
  <2>1. worker[w] \in Busy /\ m \in Messages /\ number \in Numbers
    BY <1>7, WorkerKinds DEF Prepare
  <2>2. CASE verdict = "ready"
    <3>1. StartAttempt(w, m, number)
      BY <1>7, <2>2 DEF Prepare
    <3>2. worker' \in [Workers -> {Idle} \cup Busy \cup Done]
      BY <2>1, <3>1 DEF StartAttempt, TypeOK, Busy, Done
    <3>3. job' \in [Messages -> JobRow]
      <4>1. [job[m] EXCEPT !.expired = FALSE] \in JobRow
        BY <2>1, JobKinds, JobFields DEF JobStatuses
      <4> QED BY <3>1, <4>1, JobKinds DEF StartAttempt
    <3>4. /\ attempt' \in [Messages -> [Numbers -> AttemptStates]]
          /\ current' \in [Messages -> Numbers \cup {0}]
          /\ firstTry' \in [Messages -> {"none", "recent", "old"}]
      BY <2>1, <3>1 DEF StartAttempt, TypeOK, AttemptStates
    <3> QED BY <1>7, <3>2, <3>3, <3>4
            DEF Prepare, TypeOK, JobRow, Busy, Done, AttemptStates, replyVars, providerVars
  <2>3. CASE verdict # "ready"
    <3>1. verdict \in Results
      BY <2>3, VerdictType
    <3>2. current[m] \in Numbers \cup {0}
      BY <2>1 DEF TypeOK
    <3>3. /\ worker' = [worker EXCEPT ![w] = Answered(m, number, verdict,
                IF AboutCurrent(m, verdict) THEN current[m] ELSE 0)]
          /\ UNCHANGED <<attempt, current, job, firstTry>>
      BY <1>7, <2>3 DEF Prepare
    <3> HIDE DEF verdict, m, number
    <3>4. Answered(m, number, verdict, IF AboutCurrent(m, verdict) THEN current[m] ELSE 0) \in Done
      BY <2>1, <3>1, <3>2 DEF Answered, Done
    <3>5. worker' \in [Workers -> {Idle} \cup Busy \cup Done]
      BY <3>3, <3>4 DEF TypeOK, Busy, Done
    <3> QED BY <1>7, <3>3, <3>5 DEF Prepare, TypeOK, Busy, Done, replyVars, providerVars
  <2> QED BY <2>2, <2>3
<1>8. ASSUME NEW w \in Workers, worker' = [worker EXCEPT ![w] = Idle], faults' \in 0..MaxFaults,
             UNCHANGED <<outbox, firstTry, echo, replyVars, storeVars, providerVars>>
      PROVE  TypeOK'
  BY <1>8 DEF TypeOK, replyVars, storeVars, providerVars
<1>9. ASSUME NEW w \in Workers, NEW outcome \in Outcomes, Send(w, outcome) PROVE TypeOK'
  <2> DEFINE m == worker[w].job
             number == worker[w].number
  <2>1. worker[w] \in Busy /\ m \in Messages /\ number \in Numbers
    BY <1>9, WorkerKinds DEF Send
  <2>2. outcome \in DOMAIN ResultOf(m)
    BY <1>9 DEF Send
  <2>3. ResultOf(m)[outcome] \in Results
    BY <2>2, ProviderAnswers
  <2>4. worker' = [worker EXCEPT ![w] = Answered(m, number, ResultOf(m)[outcome], number)]
    BY <1>9 DEF Send
  <2>5. /\ copies' \in [Messages -> Nat] /\ remembered' \in SUBSET Messages
        /\ echo' \in [Messages -> {"none", "due", "recognized", "imported", "dropped"}]
    BY <1>9, <2>1 DEF Send, TypeOK
  <2> HIDE DEF m, number
  <2>6. Answered(m, number, ResultOf(m)[outcome], number) \in Done
    BY <2>1, <2>3 DEF Answered, Done
  <2>7. worker' \in [Workers -> {Idle} \cup Busy \cup Done]
    BY <2>4, <2>6 DEF TypeOK, Busy, Done
  <2> QED BY <1>9, <2>5, <2>7 DEF Send, TypeOK, Busy, Done, replyVars, storeVars
<1>10. ASSUME NEW w \in Workers, Complete(w) PROVE TypeOK'
  <2> DEFINE m == worker[w].job
             number == worker[w].number
             p == Projection(worker[w].result, number)
  <2>1. worker[w] \in Done /\ m \in Messages /\ number \in Numbers /\ worker[w].result \in Results
        /\ worker[w].about \in Numbers \cup {0}
    BY <1>10, WorkerKinds DEF Complete, Done
  <2>2. /\ p.attempt \in AttemptStates /\ p.job \in JobStatuses
        /\ p.state \in {"retrying", "sent", "held", "failed", "deleted"}
    BY <2>1, Projected DEF AttemptStates, JobStatuses
  <2> HIDE DEF p
  <2>3. FinishPlatformWork(m, number, p.job)
    BY <1>10 DEF Complete, p
  <2>4. job' \in [Messages -> JobRow]
    <3>1. [job[m] EXCEPT !.status = p.job, !.owner = NoWorker, !.expired = FALSE] \in JobRow
      BY <2>1, <2>2, JobKinds, JobFields
    <3> QED BY <2>3, <3>1, JobKinds DEF FinishPlatformWork
  <2>5. jobAttempt' \in [Messages -> [Numbers -> JobAttemptRow]]
    <3>1. \A s \in {"succeeded", "failed"} :
             [jobAttempt[m][number] EXCEPT !.status = s] \in JobAttemptRow
      <4>1. jobAttempt[m][number] \in JobAttemptRow
        BY <2>1, JobAttemptKinds
      <4> QED BY <4>1 DEF JobAttemptRow
    <3>2. \E s \in {"succeeded", "failed"} :
             jobAttempt' = [jobAttempt EXCEPT ![m][number].status = s]
      BY <2>3 DEF FinishPlatformWork
    <3>3. PICK s \in {"succeeded", "failed"} :
             jobAttempt' = [jobAttempt EXCEPT ![m][number].status = s]
      BY <3>2
    <3>4. jobAttempt' = [jobAttempt EXCEPT ![m] =
             [jobAttempt[m] EXCEPT ![number] = [jobAttempt[m][number] EXCEPT !.status = s]]]
      BY <2>1, <3>3, JobAttemptKinds
    <3>5. [jobAttempt[m][number] EXCEPT !.status = s] \in JobAttemptRow
      BY <3>1
    <3> QED BY <2>1, <3>4, <3>5, JobAttemptKinds
  <2>6. /\ attempt' = [attempt EXCEPT ![m] = [n \in Numbers |->
              IF n = worker[w].about THEN p.attempt ELSE @[n]]]
        /\ message' = [message EXCEPT ![m] = p.state]
        /\ current' = [current EXCEPT ![m] = IF worker[w].about # 0 THEN worker[w].about ELSE @]
        /\ worker' = [worker EXCEPT ![w] = Idle]
        /\ UNCHANGED <<outbox, firstTry, echo, faults, replyVars, providerVars>>
    BY <1>10 DEF Complete, p
  <2>7. /\ attempt' \in [Messages -> [Numbers -> AttemptStates]]
        /\ message' \in [Messages -> {"none", "queued", "retrying", "sent", "held",
                                      "failed", "deleted"}]
        /\ current' \in [Messages -> Numbers \cup {0}]
    BY <2>1, <2>2, <2>6 DEF TypeOK, AttemptStates
  <2> QED BY <2>4, <2>5, <2>6, <2>7
          DEF TypeOK, JobRow, JobAttemptRow, AttemptStates, replyVars, providerVars
<1>11. ASSUME NEW m \in Messages, TryGetsOld(m) PROVE TypeOK'
  BY <1>11 DEF TryGetsOld, TypeOK, replyVars, storeVars, providerVars
<1>12. ASSUME NEW m \in Messages, ProviderForgets(m) PROVE TypeOK'
  BY <1>12 DEF ProviderForgets, TypeOK, replyVars, storeVars
<1>13. ASSUME NEW m \in Messages, IngestEcho(m) \/ DropEcho(m) PROVE TypeOK'
  <2>1. /\ view' \in [Messages -> {"unread", "current", "stale"}]
        /\ echo' \in [Messages -> {"none", "due", "recognized", "imported", "dropped"}]
    <3>1. view' = view \/ AdvanceThread(Thread[m])
      BY <1>13 DEF IngestEcho, DropEcho, replyVars
    <3> QED BY <1>1, <1>13, <3>1 DEF IngestEcho, DropEcho, TypeOK
  <2>2. UNCHANGED <<replyIdem, outbox, firstTry, worker, faults, storeVars, providerVars>>
    BY <1>13 DEF IngestEcho, DropEcho, replyVars
  <2> QED BY <2>1, <2>2 DEF TypeOK, storeVars, providerVars
<1>14. ASSUME NEW m \in Messages, DeleteMessage(m) PROVE TypeOK'
  BY <1>14 DEF DeleteMessage, TypeOK, replyVars, providerVars
<1>15. ASSUME NEW m \in Messages, LeaseExpires(m) PROVE TypeOK'
  <2>1. job' \in [Messages -> JobRow]
    <3>1. [job[m] EXCEPT !.expired = TRUE] \in JobRow
      BY JobKinds, JobFields DEF JobStatuses
    <3> QED BY <1>15, <3>1, JobKinds DEF LeaseExpires
  <2>2. faults' \in 0..MaxFaults
    BY <1>0, <1>15 DEF LeaseExpires, TypeOK
  <2> QED BY <1>15, <2>1, <2>2 DEF LeaseExpires, TypeOK, JobRow, replyVars, providerVars
<1>16. ASSUME NEW w \in Workers, PrepareWithoutLease(w) \/ CompleteInVain(w) \/ Crash(w)
       PROVE  TypeOK'
  <2>1. faults' \in 0..MaxFaults
    BY <1>0, <1>16 DEF PrepareWithoutLease, CompleteInVain, Crash, TypeOK
  <2> QED BY <1>8, <1>16, <2>1 DEF PrepareWithoutLease, CompleteInVain, Crash
<1> QED BY <1>2, <1>3, <1>4, <1>5, <1>6, <1>7, <1>9, <1>10, <1>11, <1>12, <1>13, <1>14,
           <1>15, <1>16 DEF Next, WorkerStep

-----------------------------------------------------------------------------
(* What a step that leaves some of the rows alone keeps.                   *)

RunningKept ==
    \A m \in Messages : job[m].status = "running" =>
        job'[m].status = "running" /\ job'[m].attempts = job[m].attempts
StatusKept == \A m \in Messages : job'[m].status = job[m].status
JobsKept ==
    \A m \in Messages : /\ job'[m].status = job[m].status
                         /\ job'[m].attempts = job[m].attempts
                         /\ job'[m].owner = job[m].owner
FinalKept ==
    \A m \in Messages :
        message[m] \in {"sent", "held", "failed", "deleted"} => message'[m] = message[m]
NoNewSender == \A w \in Workers : worker'[w].step = "sending" => worker'[w] = worker[w]
NoNewAnswer == \A w \in Workers : worker'[w].step = "answered" => worker'[w] = worker[w]
NoNewLease ==
    \A w \in Workers : worker'[w].step = "answered" /\ HasLease(w)' => HasLease(w)

(* A step that keeps the running jobs running, and the attempts, leaves no *)
(* orphan.                                                                 *)
LEMMA OrphanKept ==
    ASSUME NoOrphanAttempt, RunningKept, UNCHANGED <<attempt, current, jobAttempt>>
    PROVE  NoOrphanAttempt'
BY DEF NoOrphanAttempt, RunningKept

(* Job, outbox row and message state stay together.                        *)
LEMMA MatchKept ==
    ASSUME JobMatchesMessage, OutboxRows, StatusKept, UNCHANGED <<message, outbox>>
    PROVE  JobMatchesMessage' /\ OutboxRows'
BY DEF JobMatchesMessage, OutboxRows, StatusKept

(* The keys stay taken.                                                    *)
LEMMA KeysKept ==
    ASSUME KeysTaken, UNCHANGED <<message, replyIdem>>
    PROVE  KeysTaken'
BY DEF KeysTaken

(* The rows of the jobs stay as they are.                                  *)
LEMMA JobsStay ==
    ASSUME JobRows, JobsKept, UNCHANGED jobAttempt
    PROVE  JobRows'
BY DEF JobRows, JobsKept

(* Without a new sender, answer or lease a sender stays the only one.      *)
LEMMA SendersKept ==
    ASSUME SenderRows, FinalKept, NoNewSender, NoNewAnswer, NoNewLease, UNCHANGED attempt
    PROVE  SenderRows'
BY DEF SenderRows, FinalKept, NoNewSender, NoNewAnswer, NoNewLease, Sends, Answers

(* The answers go on standing for what they stood for.                     *)
LEMMA AnswersKept ==
    ASSUME AnswerRows, FinalKept, NoNewAnswer, NoNewLease, UNCHANGED <<attempt, copies>>
    PROVE  AnswerRows'
BY DEF AnswerRows, FinalKept, NoNewAnswer, NoNewLease, Answers

(* The copies of every message are accounted for.                          *)
LEMMA CopiesKept ==
    ASSUME CopyRows, UNCHANGED <<attempt, copies, message>>
    PROVE  CopyRows'
BY DEF CopyRows

(* The copies over Channex are accounted for.                              *)
LEMMA OtaKept ==
    ASSUME OtaCopies, FinalKept, NoNewSender, NoNewAnswer, NoNewLease,
           UNCHANGED <<attempt, copies>>
    PROVE  OtaCopies'
BY DEF OtaCopies, FinalKept, NoNewSender, NoNewAnswer, NoNewLease, Sends, Answers

(* The copies over Resend are accounted for.                               *)
LEMMA EmailKept ==
    ASSUME EmailCopies, NoNewSender, UNCHANGED <<copies, remembered>>,
           \A m \in Messages : firstTry[m] = "old" => firstTry'[m] = "old"
    PROVE  EmailCopies'
BY DEF EmailCopies, NoNewSender, Sends

(* The echoes stay as they are.                                            *)
LEMMA EchoesKept ==
    ASSUME EchoRows, FinalKept, UNCHANGED <<echo, copies>>
    PROVE  EchoRows'
BY DEF EchoRows, FinalKept

-----------------------------------------------------------------------------
(* Each kind of step keeps the invariant; the types come from TypeStep.    *)

(* Reading or writing to a thread, a lease that runs out, and a worker     *)
(* that ends without completing: the rows stay, and no one gains a lease.  *)
LEMMA QuietStep ==
    ASSUME InboxInv, TypeOK', JobsKept, NoNewSender, NoNewAnswer,
           UNCHANGED <<replyIdem, outbox, firstTry, echo, message, current, jobAttempt,
                       attempt, copies, remembered>>
    PROVE  InboxInv'
<1>1. RunningKept /\ StatusKept /\ FinalKept
  BY DEF JobsKept, RunningKept, StatusKept, FinalKept
<1>2. NoNewLease
  <2> SUFFICES ASSUME NEW w \in Workers, worker'[w].step = "answered", HasLease(w)'
               PROVE  HasLease(w)
    BY DEF NoNewLease
  <2>1. worker'[w] = worker[w] /\ worker[w].job \in Messages
    BY WorkerKinds DEF NoNewAnswer, InboxInv
  <2> QED BY <2>1 DEF HasLease, JobsKept
<1> QED BY <1>1, <1>2, OrphanKept, MatchKept, KeysKept, JobsStay, SendersKept, AnswersKept,
           CopiesKept, OtaKept, EmailKept, EchoesKept DEF InboxInv

(* The quiet steps of the threads and of a worker that gives up.           *)
LEMMA QuietSteps ==
    ASSUME InboxInv, TypeOK',
           \/ \E m \in Messages : ReadThread(m)
           \/ \E t \in Threads : InboundMessage(t)
           \/ \E w \in Workers : PrepareWithoutLease(w) \/ CompleteInVain(w) \/ Crash(w)
    PROVE  InboxInv'
<1>1. UNCHANGED <<replyIdem, outbox, firstTry, echo, message, current, job, jobAttempt,
                  attempt, copies, remembered>>
  BY DEF ReadThread, InboundMessage, PrepareWithoutLease, CompleteInVain, Crash, replyVars,
         storeVars, providerVars
<1>2. JobsKept
  BY <1>1 DEF JobsKept
<1>3. UNCHANGED worker \/ \E w \in Workers : worker' = [worker EXCEPT ![w] = Idle]
  BY DEF ReadThread, InboundMessage, PrepareWithoutLease, CompleteInVain, Crash
<1>4. NoNewSender /\ NoNewAnswer
  <2>1. worker = [w \in Workers |-> worker[w]]
    BY DEF InboxInv, TypeOK
  <2> QED BY <1>3, <2>1 DEF NoNewSender, NoNewAnswer, Idle
<1> QED BY <1>1, <1>2, <1>4, QuietStep

(* A lease that runs out leaves the job with its owner and number.         *)
LEMMA LeaseStep ==
    ASSUME InboxInv, TypeOK', NEW m \in Messages, LeaseExpires(m)
    PROVE  InboxInv'
<1>1. UNCHANGED <<replyIdem, outbox, firstTry, echo, message, current, jobAttempt,
                  attempt, copies, remembered, worker>>
  BY DEF LeaseExpires, replyVars, providerVars
<1>2. JobsKept
  <2>1. job' = [job EXCEPT ![m] = [job[m] EXCEPT !.expired = TRUE]]
    BY DEF LeaseExpires
  <2>2. job \in [Messages -> JobRow]
    BY JobKinds DEF InboxInv
  <2>3. \A j \in JobRow : LET k == [j EXCEPT !.expired = TRUE]
                          IN  k.status = j.status /\ k.attempts = j.attempts /\ k.owner = j.owner
    BY DEF JobRow
  <2> QED BY <2>1, <2>2, <2>3 DEF JobsKept
<1>3. NoNewSender /\ NoNewAnswer
  BY <1>1 DEF NoNewSender, NoNewAnswer
<1> QED BY <1>1, <1>2, <1>3, QuietStep

(* The reply's key is unused, so its message is not there yet.             *)
LEMMA ReplyStep ==
    ASSUME InboxInv, TypeOK', NEW m \in Messages, NEW route \in Routes,
           NEW attachments \in AttachmentAnswers, Reply(m, route, attachments)
    PROVE  InboxInv'
<1>1. \A n \in Messages : Key[n] = Key[m] => message[n] = "none"
  BY DEF InboxInv, KeysTaken, Reply, FindReplay
<1>2. /\ message[m] = "none" /\ outbox[m] = "none" /\ job[m].status = "none"
      /\ \A n \in Numbers : attempt[m][n] = "none"
  BY <1>1 DEF InboxInv, OutboxRows, CopyRows, TypeOK, JobStatuses
<1>3. /\ Key[m] \in Keys /\ replyIdem \in [Keys -> {"none", "accepted", "rejected"}]
      /\ message = [n \in Messages |-> message[n]] /\ outbox = [n \in Messages |-> outbox[n]]
  BY DEF InboxInv, TypeOK, Keys
<1>4. /\ UNCHANGED <<current, job, jobAttempt, attempt, firstTry, echo, worker, copies, remembered>>
      /\ \A n \in Messages : n # m => message'[n] = message[n] /\ outbox'[n] = outbox[n]
  BY <1>3 DEF Reply, providerVars, InsertMessage, InsertDeliveryOutbox
<1>5. /\ RunningKept /\ StatusKept /\ JobsKept /\ FinalKept
      /\ NoNewSender /\ NoNewAnswer
  BY <1>2, <1>4 DEF RunningKept, StatusKept, JobsKept, FinalKept, NoNewSender, NoNewAnswer
<1>6. NoNewLease
  BY <1>4 DEF NoNewLease, HasLease
<1>7. \/ UNCHANGED <<message, outbox>>
      \/ /\ message'[m] = "queued" /\ outbox'[m] = "pending" /\ replyIdem'[Key[m]] = "accepted"
      \/ /\ message'[m] = "held" /\ outbox'[m] = "none" /\ replyIdem'[Key[m]] = "accepted"
  BY <1>2, <1>3 DEF Reply, InsertMessage, InsertDeliveryOutbox, CommitResult
<1>8. \A k \in Keys : k # Key[m] => replyIdem'[k] = replyIdem[k]
  BY <1>3 DEF Reply, CommitResult
<1>9. JobMatchesMessage' /\ OutboxRows'
  BY <1>2, <1>4, <1>7 DEF InboxInv, JobMatchesMessage, OutboxRows
<1>10. KeysTaken'
  BY <1>1, <1>2, <1>4, <1>7, <1>8 DEF InboxInv, KeysTaken, Keys
<1>11. CopyRows'
  BY <1>2, <1>4, <1>7 DEF InboxInv, CopyRows
<1> QED BY <1>4, <1>5, <1>6, <1>9, <1>10, <1>11, OrphanKept, JobsStay, SendersKept, AnswersKept,
           OtaKept, EmailKept, EchoesKept DEF InboxInv

(* The relay makes the job of a message that had none.                     *)
LEMMA RelayStep ==
    ASSUME InboxInv, TypeOK', NEW m \in Messages, Relay(m)
    PROVE  InboxInv'
<1>1. UNCHANGED <<replyIdem, firstTry, echo, message, current, jobAttempt,
                  attempt, copies, remembered, worker>>
  BY DEF Relay, replyVars, providerVars
<1>2. outbox[m] = "pending" /\ job[m].status = "none"
  BY DEF Relay, InboxInv, OutboxRows
<1>3. /\ job \in [Messages -> JobRow] /\ job[m] \in JobRow /\ job[m].attempts \in Nat
      /\ outbox = [n \in Messages |-> outbox[n]]
  BY JobKinds DEF InboxInv, TypeOK
<1>4. /\ job'[m].status = "pending" /\ job'[m].attempts = job[m].attempts
      /\ job'[m].owner = job[m].owner /\ outbox'[m] = "published"
      /\ \A n \in Messages : n # m => job'[n] = job[n] /\ outbox'[n] = outbox[n]
  <2>1. job' = [job EXCEPT ![m] = [job[m] EXCEPT !.status = "pending"]]
    BY <1>2, <1>3 DEF Relay
  <2>2. LET k == [job[m] EXCEPT !.status = "pending"]
        IN  k.status = "pending" /\ k.attempts = job[m].attempts /\ k.owner = job[m].owner
    BY <1>3 DEF JobRow
  <2> QED BY <1>3, <2>1, <2>2 DEF Relay
<1>5. RunningKept /\ FinalKept /\ NoNewSender /\ NoNewAnswer
  BY <1>1, <1>2, <1>4 DEF RunningKept, FinalKept, NoNewSender, NoNewAnswer
<1>6. NoNewLease
  <2> SUFFICES ASSUME NEW w \in Workers, worker'[w].step = "answered", HasLease(w)'
               PROVE  HasLease(w)
    BY DEF NoNewLease
  <2>1. worker'[w] = worker[w] /\ worker[w].job \in Messages
    BY <1>1, WorkerKinds DEF InboxInv
  <2> QED BY <1>4, <2>1 DEF HasLease
<1>7. JobMatchesMessage' /\ OutboxRows'
  BY <1>1, <1>2, <1>4 DEF InboxInv, JobMatchesMessage, OutboxRows
<1>8. JobRows'
  BY <1>1, <1>4 DEF InboxInv, JobRows
<1> QED BY <1>1, <1>5, <1>6, <1>7, <1>8, OrphanKept, KeysKept, SendersKept, AnswersKept,
           CopiesKept, OtaKept, EmailKept, EchoesKept DEF InboxInv

(* A claim numbers the run: the next number of a pending job, the same one *)
(* of a job taken over; the job attempt of that number is free or running. *)
LEMMA ClaimedNumber ==
    ASSUME TypeOK, JobRows, NEW m \in Messages, Claimable(m)
    PROVE  /\ ClaimNumber(m) \in Numbers
           /\ job[m].status = "running" => ClaimNumber(m) = job[m].attempts
           /\ job[m].attempts \in Nat /\ ClaimNumber(m) >= job[m].attempts
           /\ jobAttempt[m][ClaimNumber(m)].status \in {"none", "running"}
<1>1. job[m].attempts \in Nat /\ MaxAttempts \in Nat
  BY JobKinds, InboxAssumption
<1>2. CASE job[m].status = "pending" /\ job[m].attempts < MaxAttempts
  <2>1. ClaimNumber(m) = job[m].attempts + 1
    BY <1>2 DEF ClaimNumber
  <2>2. ClaimNumber(m) \in Numbers /\ ClaimNumber(m) > job[m].attempts
    BY <1>1, <1>2, <2>1 DEF Numbers
  <2>3. jobAttempt[m][ClaimNumber(m)].status = "none"
    BY <2>2 DEF JobRows
  <2> QED BY <1>1, <1>2, <2>1, <2>2, <2>3
<1>3. CASE job[m].status = "running"
  <2>1. ClaimNumber(m) = job[m].attempts
    BY <1>1, <1>3 DEF ClaimNumber
  <2>2. /\ job[m].attempts \in Numbers
        /\ jobAttempt[m][job[m].attempts] = [status |-> "running", owner |-> job[m].owner]
    BY <1>3 DEF JobRows
  <2> QED BY <1>1, <2>1, <2>2
<1> QED BY <1>2, <1>3 DEF Claimable

(* A claim takes the job from whoever had it: a worker that still has an   *)
(* answer for it has lost its lease.                                       *)
LEMMA ClaimStep ==
    ASSUME InboxInv, TypeOK', NEW w \in Workers, NEW m \in Messages, Claim(w, m)
    PROVE  InboxInv'
<1> DEFINE number == ClaimNumber(m)
<1>1. UNCHANGED <<replyIdem, outbox, firstTry, echo, message, current, attempt, copies, remembered>>
  BY DEF Claim, replyVars, providerVars
<1>2. Claimable(m) /\ worker[w].step = "idle" /\ job[m].status \in {"pending", "running"}
  BY DEF Claim, Claimable
<1>3. /\ number \in Numbers
      /\ job[m].status = "running" => number = job[m].attempts
      /\ job[m].attempts \in Nat /\ number >= job[m].attempts
      /\ jobAttempt[m][number].status \in {"none", "running"}
  BY <1>2, ClaimedNumber DEF InboxInv
<1> HIDE DEF number
<1>4. /\ job \in [Messages -> JobRow] /\ jobAttempt \in [Messages -> [Numbers -> JobAttemptRow]]
      /\ worker = [v \in Workers |-> worker[v]]
      /\ Numbers \subseteq Nat
  BY JobKinds, JobAttemptKinds, InboxAssumption DEF InboxInv, TypeOK, Numbers
<1>5. /\ job'[m] = [status |-> "running", attempts |-> number, owner |-> w, expired |-> FALSE]
      /\ \A n \in Messages : n # m => job'[n] = job[n] /\ jobAttempt'[n] = jobAttempt[n]
  BY <1>4 DEF Claim, number
<1>6. /\ worker'[w] = [step |-> "claimed", job |-> m, number |-> number]
      /\ \A v \in Workers : v # w => worker'[v] = worker[v]
  BY <1>4 DEF Claim, number
<1>7. /\ jobAttempt'[m][number] = [status |-> "running", owner |-> w]
      /\ \A n \in Numbers : n > number => jobAttempt'[m][n] = jobAttempt[m][n]
  <2>1. jobAttempt'[m] = [n \in Numbers |->
              IF n < number /\ jobAttempt[m][n].status = "running"
              THEN [jobAttempt[m][n] EXCEPT !.status = "timed_out"]
              ELSE IF n = number /\ jobAttempt[m][n].status \in {"none", "running"}
              THEN [status |-> "running", owner |-> w]
              ELSE jobAttempt[m][n]]
    BY <1>4 DEF Claim, number
  <2> QED BY <1>3, <1>4, <2>1
<1>8. RunningKept /\ FinalKept /\ NoNewSender /\ NoNewAnswer
  BY <1>1, <1>3, <1>5, <1>6 DEF RunningKept, FinalKept, NoNewSender, NoNewAnswer
<1>9. NoNewLease
  <2> SUFFICES ASSUME NEW v \in Workers, worker'[v].step = "answered", HasLease(v)'
               PROVE  HasLease(v)
    BY DEF NoNewLease
  <2>1. v # w /\ worker'[v] = worker[v] /\ worker[v].job \in Messages
    BY <1>6, WorkerKinds DEF InboxInv
  <2>2. worker[v].job # m
    BY <1>5, <2>1 DEF HasLease
  <2> QED BY <1>5, <2>1, <2>2 DEF HasLease
<1>10. NoOrphanAttempt'
  <2> SUFFICES ASSUME NEW k \in Messages, NEW n \in Numbers, attempt[k][n] = "running"
               PROVE  /\ current[k] = n
                      /\ job'[k].status = "running" /\ job'[k].attempts = n
                      /\ jobAttempt'[k][n].status = "running"
    BY <1>1 DEF NoOrphanAttempt
  <2>1. /\ current[k] = n /\ job[k].status = "running" /\ job[k].attempts = n
        /\ jobAttempt[k][n].status = "running"
    BY DEF InboxInv, NoOrphanAttempt
  <2> QED BY <1>3, <1>5, <1>7, <2>1
<1>11. JobMatchesMessage' /\ OutboxRows'
  BY <1>1, <1>2, <1>5 DEF InboxInv, JobMatchesMessage, OutboxRows
<1>12. JobRows'
  <2> SUFFICES ASSUME NEW k \in Messages
               PROVE  /\ job'[k].status = "running" =>
                           /\ job'[k].attempts \in Numbers /\ job'[k].owner \in Workers
                           /\ jobAttempt'[k][job'[k].attempts]
                                = [status |-> "running", owner |-> job'[k].owner]
                      /\ \A n \in Numbers : n > job'[k].attempts => jobAttempt'[k][n].status = "none"
    BY DEF JobRows
  <2>1. CASE k = m
    <3>1. \A n \in Numbers : n > number => n > job[m].attempts
      BY <1>3, <1>4
    <3>2. /\ job'[k].attempts = number /\ job'[k].owner = w
      BY <1>5, <2>1
    <3>3. \A n \in Numbers : n > number => jobAttempt'[m][n].status = "none"
      <4>1. \A n \in Numbers : n > job[m].attempts => jobAttempt[m][n].status = "none"
        BY DEF InboxInv, JobRows
      <4> QED BY <1>7, <3>1, <4>1
    <3> QED BY <1>3, <1>7, <2>1, <3>2, <3>3
  <2>2. CASE k # m
    BY <1>5, <2>2 DEF InboxInv, JobRows
  <2> QED BY <2>1, <2>2
<1> QED BY <1>1, <1>8, <1>9, <1>10, <1>11, <1>12, KeysKept, SendersKept, AnswersKept,
           CopiesKept, OtaKept, EmailKept, EchoesKept DEF InboxInv

(* An attempt starts only when none is running: no one else sends the      *)
(* message, no copy went out over Channex, and a copy that went out over   *)
(* Resend is young enough to be remembered.                                *)
LEMMA StartStep ==
    ASSUME InboxInv, TypeOK', NEW w \in Workers, NEW condition \in Conditions,
           Prepare(w, condition), Verdict(worker[w].job, condition) = "ready"
    PROVE  InboxInv'
<1> DEFINE m == worker[w].job
           number == worker[w].number
<1>1. /\ worker[w] \in Busy /\ m \in Messages /\ number \in Numbers
      /\ worker[w].step = "claimed" /\ HasLease(w)
  BY WorkerKinds DEF Prepare, InboxInv
<1>2. StartAttempt(w, m, number)
  BY DEF Prepare
<1>3. UNCHANGED <<replyIdem, outbox, echo, message, jobAttempt, copies, remembered>>
  BY DEF Prepare, replyVars, providerVars
<1>4. /\ job[m].status = "running" /\ job[m].owner = w /\ job[m].attempts = number
  BY <1>1 DEF HasLease
<1>5. /\ message[m] \in {"queued", "retrying"}
      /\ ~(current[m] # 0 /\ attempt[m][current[m]] = "running")
      /\ ~(Channel[m] = "email" /\ firstTry[m] = "old")
  BY DEF Verdict, Conditions
<1>6. \A n \in Numbers : attempt[m][n] # "running"
  BY <1>1, <1>5, InboxAssumption DEF InboxInv, NoOrphanAttempt, Numbers
<1>7. \A v \in Workers : ~Sends(v, m)
  <2> SUFFICES ASSUME NEW v \in Workers, Sends(v, m) PROVE FALSE
    OBVIOUS
  <2>1. worker[v].number \in Numbers
    BY WorkerKinds DEF InboxInv, Sends
  <2> QED BY <1>1, <1>5, <1>6, <2>1 DEF InboxInv, SenderRows
<1>8. Channel[m] = "ota" => copies[m] # 1
  BY <1>1, <1>5, <1>6 DEF InboxInv, OtaCopies
<1>9. job \in [Messages -> JobRow] /\ job[m] \in JobRow
      /\ worker = [v \in Workers |-> worker[v]]
      /\ attempt = [n \in Messages |-> attempt[n]] /\ attempt[m] = [k \in Numbers |-> attempt[m][k]]
      /\ current = [n \in Messages |-> current[n]] /\ firstTry = [n \in Messages |-> firstTry[n]]
  BY <1>1, JobKinds DEF InboxInv, TypeOK
<1> HIDE DEF m, number
<1>10. /\ attempt'[m][number] = "running" /\ current'[m] = number
       /\ \A k \in Numbers : k # number => attempt'[m][k] = attempt[m][k]
       /\ \A n \in Messages : n # m => attempt'[n] = attempt[n] /\ current'[n] = current[n]
       /\ attempt[m][number] = "none"
  BY <1>1, <1>2, <1>9 DEF StartAttempt
<1>11. /\ worker'[w] = [worker[w] EXCEPT !.step = "sending"]
       /\ \A v \in Workers : v # w => worker'[v] = worker[v]
  BY <1>2, <1>9 DEF StartAttempt
<1>12. worker'[w].step = "sending" /\ worker'[w].job = m /\ worker'[w].number = number
  BY <1>1, <1>11 DEF Busy, m, number
<1>13. JobsKept
  <2>1. job' = [job EXCEPT ![m] = [job[m] EXCEPT !.expired = FALSE]]
    BY <1>2 DEF StartAttempt
  <2>2. LET k == [job[m] EXCEPT !.expired = FALSE]
        IN  k.status = job[m].status /\ k.attempts = job[m].attempts /\ k.owner = job[m].owner
    BY <1>9 DEF JobRow
  <2> QED BY <1>1, <1>9, <2>1, <2>2 DEF JobsKept
<1>14. RunningKept /\ StatusKept /\ FinalKept /\ NoNewAnswer
  BY <1>3, <1>11, <1>12, <1>13 DEF JobsKept, RunningKept, StatusKept, FinalKept, NoNewAnswer
<1>15. \A v \in Workers : worker'[v].step = "answered" =>
          /\ v # w /\ worker'[v] = worker[v] /\ worker[v].job \in Messages
          /\ HasLease(v)' => HasLease(v) /\ worker[v].job # m
  <2> SUFFICES ASSUME NEW v \in Workers, worker'[v].step = "answered"
               PROVE  /\ v # w /\ worker'[v] = worker[v] /\ worker[v].job \in Messages
                      /\ HasLease(v)' => HasLease(v) /\ worker[v].job # m
    OBVIOUS
  <2>1. v # w /\ worker'[v] = worker[v] /\ worker[v].job \in Messages
    BY <1>11, <1>12, WorkerKinds DEF InboxInv
  <2> QED BY <1>4, <1>13, <2>1 DEF HasLease, JobsKept
<1>16. NoOrphanAttempt'
  <2>1. jobAttempt[m][number].status = "running"
    <3>1. jobAttempt[m][job[m].attempts] = [status |-> "running", owner |-> job[m].owner]
      BY <1>1, <1>4 DEF InboxInv, JobRows, m
    <3> QED BY <1>4, <3>1
  <2> QED BY <1>3, <1>4, <1>6, <1>10, <1>13, <2>1 DEF InboxInv, NoOrphanAttempt, JobsKept
<1>17. SenderRows'
  <2> SUFFICES ASSUME NEW v \in Workers, NEW n \in Messages, Sends(v, n)'
               PROVE  /\ \/ attempt'[n][worker'[v].number] = "running"
                         \/ attempt'[n][worker'[v].number] = "terminal_failure" /\ message'[n] = "held"
                      /\ \A u \in Workers : Sends(u, n)' => u = v
                      /\ \A u \in Workers : Answers(u, n)' /\ worker'[u].about # 0 /\ HasLease(u)'
                            => worker'[u].result = "ambiguous"
    BY DEF SenderRows
  <2>1. CASE n = m
    <3>1. v = w /\ \A u \in Workers : Sends(u, n)' => u = v
      BY <1>7, <1>11, <2>1 DEF Sends
    <3>2. \A u \in Workers : ~(Answers(u, n)' /\ HasLease(u)')
      BY <1>15, <2>1 DEF Answers
    <3> QED BY <1>10, <1>12, <2>1, <3>1, <3>2
  <2>2. CASE n # m
    <3>1. v # w /\ Sends(v, n) /\ \A u \in Workers : Sends(u, n)' => Sends(u, n)
      BY <1>11, <1>12, <2>2 DEF Sends
    <3>2. \A u \in Workers : Answers(u, n)' /\ HasLease(u)' => Answers(u, n) /\ HasLease(u)
             /\ worker'[u] = worker[u]
      BY <1>15 DEF Answers
    <3> QED BY <1>3, <1>10, <1>11, <2>2, <3>1, <3>2 DEF InboxInv, SenderRows
  <2> QED BY <2>1, <2>2
<1>18. AnswerRows'
  <2> SUFFICES ASSUME NEW v \in Workers, NEW n \in Messages, Answers(v, n)'
               PROVE  /\ worker'[v].about \in {0, worker'[v].number}
                      /\ worker'[v].result = "accepted" => copies'[n] = 1 /\ worker'[v].about # 0
                      /\ worker'[v].result = "resource_deleted" => message'[n] = "deleted"
                      /\ HasLease(v)' => (worker'[v].about # 0
                                            <=> attempt'[n][worker'[v].number] = "running")
    BY DEF AnswerRows
  <2>1. /\ worker'[v] = worker[v] /\ Answers(v, n)
        /\ HasLease(v)' => HasLease(v) /\ n # m
    BY <1>15 DEF Answers
  <2> QED BY <1>3, <1>10, <2>1 DEF InboxInv, AnswerRows
<1>19. CopyRows'
  BY <1>1, <1>3, <1>5, <1>10 DEF InboxInv, CopyRows
<1>20. OtaCopies'
  <2> SUFFICES ASSUME NEW n \in Messages, Channel[n] = "ota", copies'[n] = 1
               PROVE  /\ \A v \in Workers : ~Sends(v, n)'
                      /\ \/ message'[n] \in {"sent", "held"}
                         \/ \E k \in Numbers : attempt'[n][k] = "running"
                      /\ \A v \in Workers : Answers(v, n)' /\ worker'[v].about # 0 /\ HasLease(v)'
                            => worker'[v].result \in {"accepted", "ambiguous"}
    BY DEF OtaCopies
  <2>1. n # m /\ copies[n] = 1
    BY <1>3, <1>8
  <2>2. \A v \in Workers : Sends(v, n)' => Sends(v, n)
    BY <1>11, <1>12, <2>1 DEF Sends
  <2>3. \A v \in Workers : Answers(v, n)' /\ HasLease(v)' => Answers(v, n) /\ HasLease(v)
             /\ worker'[v] = worker[v]
    BY <1>15 DEF Answers
  <2> QED BY <1>3, <1>10, <2>1, <2>2, <2>3 DEF InboxInv, OtaCopies
<1>21. EmailCopies'
  <2>1. \A n \in Messages : firstTry[n] = "old" => firstTry'[n] = "old"
    BY <1>2, <1>9 DEF StartAttempt
  <2>2. \A n \in Messages, v \in Workers : Sends(v, n)' => Sends(v, n) \/ n = m
    BY <1>11, <1>12 DEF Sends
  <2> QED BY <1>3, <1>5, <2>1, <2>2 DEF InboxInv, EmailCopies
<1> QED BY <1>3, <1>13, <1>14, <1>16, <1>17, <1>18, <1>19, <1>20, <1>21, MatchKept, KeysKept,
           JobsStay, EchoesKept DEF InboxInv

(* A verdict other than "ready" is about the running attempt, if there is  *)
(* one, and then unknown: with the lease nobody is sent twice.             *)
LEMMA VerdictStep ==
    ASSUME InboxInv, TypeOK', NEW w \in Workers, NEW condition \in Conditions,
           Prepare(w, condition), Verdict(worker[w].job, condition) # "ready"
    PROVE  InboxInv'
<1> DEFINE m == worker[w].job
           number == worker[w].number
           verdict == Verdict(m, condition)
           about == IF AboutCurrent(m, verdict) THEN current[m] ELSE 0
<1>1. /\ worker[w] \in Busy /\ m \in Messages /\ number \in Numbers
      /\ worker[w].step = "claimed" /\ HasLease(w)
  BY WorkerKinds DEF Prepare, InboxInv
<1>2. /\ worker' = [worker EXCEPT ![w] = Answered(m, number, verdict, about)]
      /\ UNCHANGED <<attempt, current, job, firstTry>>
  BY DEF Prepare
<1>3. UNCHANGED <<replyIdem, outbox, echo, message, jobAttempt, copies, remembered>>
  BY DEF Prepare, replyVars, providerVars
<1>4. /\ job[m].status = "running" /\ job[m].owner = w /\ job[m].attempts = number
  BY <1>1 DEF HasLease
<1>5. /\ message[m] \in {"queued", "retrying", "deleted"}
      /\ message[m] = "deleted" => \A n \in Numbers : attempt[m][n] = "none"
  BY <1>1, <1>4 DEF InboxInv, JobMatchesMessage, CopyRows
<1>6. \A n \in Numbers : attempt[m][n] = "running" => n = number /\ current[m] = n
  BY <1>1, <1>4 DEF InboxInv, NoOrphanAttempt
<1>7. current[m] \in Numbers \cup {0} /\ 0 \notin Numbers
  BY <1>1, InboxAssumption DEF InboxInv, TypeOK, Numbers
<1>8. /\ verdict # "accepted"
      /\ verdict = "resource_deleted" => message[m] = "deleted"
      /\ attempt[m][number] = "running" => verdict = "ambiguous"
  BY <1>1, <1>5, <1>6, <1>7 DEF Verdict, Conditions
<1>9. /\ about \in {0, number}
      /\ about # 0 => verdict = "ambiguous"
      /\ about # 0 <=> attempt[m][number] = "running"
  BY <1>1, <1>6, <1>7, <1>8 DEF AboutCurrent
<1>10. worker = [v \in Workers |-> worker[v]]
  BY DEF InboxInv, TypeOK
<1> HIDE DEF m, number, verdict, about
<1>11. /\ worker'[w].step = "answered" /\ worker'[w].job = m /\ worker'[w].number = number
       /\ worker'[w].result = verdict /\ worker'[w].about = about
       /\ \A v \in Workers : v # w => worker'[v] = worker[v]
  BY <1>2, <1>10 DEF Answered
<1>12. RunningKept /\ StatusKept /\ JobsKept /\ FinalKept /\ NoNewSender
  BY <1>2, <1>3, <1>11 DEF RunningKept, StatusKept, JobsKept, FinalKept, NoNewSender
<1>13. /\ \A v \in Workers : v # w /\ HasLease(v)' => HasLease(v)
       /\ \A v \in Workers, n \in Messages :
             /\ v # w /\ Answers(v, n)' => Answers(v, n)
             /\ Sends(v, n)' => v # w /\ Sends(v, n)
       /\ \A n \in Messages : Answers(w, n)' => n = m
  BY <1>2, <1>11 DEF HasLease, Answers, Sends
<1>14. SenderRows'
  <2> SUFFICES ASSUME NEW v \in Workers, NEW n \in Messages, Sends(v, n)'
               PROVE  /\ \/ attempt'[n][worker'[v].number] = "running"
                         \/ attempt'[n][worker'[v].number] = "terminal_failure" /\ message'[n] = "held"
                      /\ \A u \in Workers : Sends(u, n)' => u = v
                      /\ \A u \in Workers : Answers(u, n)' /\ worker'[u].about # 0 /\ HasLease(u)'
                            => worker'[u].result = "ambiguous"
    BY DEF SenderRows
  <2>1. v # w /\ Sends(v, n) /\ worker'[v] = worker[v]
    BY <1>11, <1>13
  <2>2. ASSUME NEW u \in Workers, Answers(u, n)', worker'[u].about # 0, HasLease(u)'
        PROVE  worker'[u].result = "ambiguous"
    <3>1. CASE u = w
      BY <1>9, <1>11, <2>2, <3>1
    <3>2. CASE u # w
      BY <1>11, <1>13, <2>1, <2>2, <3>2 DEF InboxInv, SenderRows
    <3> QED BY <3>1, <3>2
  <2> QED BY <1>2, <1>3, <1>13, <2>1, <2>2 DEF InboxInv, SenderRows
<1>15. AnswerRows'
  <2> SUFFICES ASSUME NEW v \in Workers, NEW n \in Messages, Answers(v, n)'
               PROVE  /\ worker'[v].about \in {0, worker'[v].number}
                      /\ worker'[v].result = "accepted" => copies'[n] = 1 /\ worker'[v].about # 0
                      /\ worker'[v].result = "resource_deleted" => message'[n] = "deleted"
                      /\ HasLease(v)' => (worker'[v].about # 0
                                            <=> attempt'[n][worker'[v].number] = "running")
    BY DEF AnswerRows
  <2>1. CASE v = w
    BY <1>2, <1>3, <1>8, <1>9, <1>11, <1>13, <2>1
  <2>2. CASE v # w
    BY <1>2, <1>3, <1>11, <1>13, <2>2 DEF InboxInv, AnswerRows
  <2> QED BY <2>1, <2>2
<1>16. OtaCopies'
  <2> SUFFICES ASSUME NEW n \in Messages, Channel[n] = "ota", copies[n] = 1
               PROVE  /\ \A v \in Workers : ~Sends(v, n)'
                      /\ \/ message'[n] \in {"sent", "held"}
                         \/ \E k \in Numbers : attempt'[n][k] = "running"
                      /\ \A v \in Workers : Answers(v, n)' /\ worker'[v].about # 0 /\ HasLease(v)'
                            => worker'[v].result \in {"accepted", "ambiguous"}
    BY <1>3 DEF OtaCopies
  <2>1. ASSUME NEW v \in Workers, Answers(v, n)', worker'[v].about # 0, HasLease(v)'
        PROVE  worker'[v].result \in {"accepted", "ambiguous"}
    <3>1. CASE v = w
      BY <1>9, <1>11, <2>1, <3>1
    <3>2. CASE v # w
      BY <1>11, <1>13, <2>1, <3>2 DEF InboxInv, OtaCopies
    <3> QED BY <3>1, <3>2
  <2> QED BY <1>2, <1>3, <1>13, <2>1 DEF InboxInv, OtaCopies
<1> QED BY <1>2, <1>3, <1>12, <1>14, <1>15, <1>16, OrphanKept, MatchKept, KeysKept, JobsStay,
           CopiesKept, EmailKept, EchoesKept DEF InboxInv

(* The sender is the only one, and no copy went out that the provider      *)
(* does not know, so after the call one copy went out at most.             *)
LEMMA SendStep ==
    ASSUME InboxInv, TypeOK', NEW w \in Workers, NEW outcome \in Outcomes, Send(w, outcome)
    PROVE  InboxInv'
<1> DEFINE m == worker[w].job
           number == worker[w].number
           result == ResultOf(m)[outcome]
           known == Channel[m] = "email" /\ m \in remembered
<1>1. /\ m \in Messages /\ number \in Numbers /\ worker[w].step = "sending"
      /\ Sends(w, m) /\ 0 \notin Numbers
  BY WorkerKinds, InboxAssumption DEF Send, InboxInv, Sends, Numbers
<1>2. UNCHANGED <<replyIdem, outbox, firstTry, message, current, job, jobAttempt, attempt>>
  BY DEF Send, replyVars, storeVars
<1>3. worker' = [worker EXCEPT ![w] = Answered(m, number, result, number)]
  BY DEF Send
<1>4. PICK reaches \in BOOLEAN :
        /\ outcome \in Delivered => reaches
        /\ reaches => outcome \in Delivered \cup MaybeDelivered
        /\ copies' = [copies EXCEPT ![m] = IF reaches /\ ~known THEN @ + 1 ELSE @]
        /\ remembered' = IF reaches /\ Channel[m] = "email"
                         THEN remembered \cup {m} ELSE remembered
        /\ echo' = [echo EXCEPT ![m] =
              IF reaches /\ Channel[m] = "ota" /\ @ = "none" THEN "due" ELSE @]
  BY DEF Send
<1>5. /\ result \in Results \ {"resource_deleted", "access_unavailable"}
      /\ result = "accepted" => reaches
      /\ Channel[m] = "ota" /\ reaches => result \in {"accepted", "ambiguous"}
  <2>1. outcome \in DOMAIN ResultOf(m)
    BY DEF Send
  <2> QED BY <1>4, <2>1, ProviderAnswers
<1>6. /\ \/ attempt[m][number] = "running"
         \/ attempt[m][number] = "terminal_failure" /\ message[m] = "held"
      /\ \A v \in Workers : Sends(v, m) => v = w
      /\ \A v \in Workers : Answers(v, m) /\ worker[v].about # 0 /\ HasLease(v)
            => worker[v].result = "ambiguous"
  <2>1. SenderRows
    BY DEF InboxInv
  <2> QED BY <1>1, <2>1 DEF SenderRows
<1>7. /\ copies[m] \in {0, 1} /\ Channel[m] \in {"ota", "email"}
      /\ Channel[m] = "ota" => copies[m] = 0
      /\ Channel[m] = "email" /\ copies[m] = 1 => m \in remembered
      /\ m \in remembered => copies[m] = 1
  BY <1>1, InboxAssumption DEF InboxInv, CopyRows, OtaCopies, EmailCopies
<1>8. /\ worker = [v \in Workers |-> worker[v]]
      /\ copies = [n \in Messages |-> copies[n]] /\ echo = [n \in Messages |-> echo[n]]
  BY DEF InboxInv, TypeOK
<1> HIDE DEF m, number, result
<1>9. /\ copies'[m] = IF reaches THEN 1 ELSE copies[m]
      /\ \A n \in Messages : n # m => copies'[n] = copies[n] /\ echo'[n] = echo[n]
      /\ echo'[m] = IF reaches /\ Channel[m] = "ota" /\ echo[m] = "none" THEN "due" ELSE echo[m]
  <2>1. copies'[m] = IF reaches /\ ~known THEN copies[m] + 1 ELSE copies[m]
    BY <1>1, <1>4, <1>8
  <2>2. copies'[m] = IF reaches THEN 1 ELSE copies[m]
    BY <1>7, <2>1
  <2> QED BY <1>1, <1>4, <1>8, <2>2
<1>10. /\ worker'[w].step = "answered" /\ worker'[w].job = m /\ worker'[w].number = number
       /\ worker'[w].result = result /\ worker'[w].about = number
       /\ \A v \in Workers : v # w => worker'[v] = worker[v]
  BY <1>3, <1>8 DEF Answered
<1>11. RunningKept /\ StatusKept /\ JobsKept /\ FinalKept
  BY <1>2 DEF RunningKept, StatusKept, JobsKept, FinalKept
<1>12. /\ \A v \in Workers : v # w /\ HasLease(v)' => HasLease(v)
       /\ \A v \in Workers, n \in Messages :
             /\ v # w /\ Answers(v, n)' => Answers(v, n)
             /\ Sends(v, n)' => v # w /\ n # m /\ Sends(v, n)
       /\ \A n \in Messages : Answers(w, n)' => n = m
  BY <1>2, <1>6, <1>10 DEF HasLease, Answers, Sends
<1>13. SenderRows'
  <2> SUFFICES ASSUME NEW v \in Workers, NEW n \in Messages, Sends(v, n)'
               PROVE  /\ \/ attempt'[n][worker'[v].number] = "running"
                         \/ attempt'[n][worker'[v].number] = "terminal_failure" /\ message'[n] = "held"
                      /\ \A u \in Workers : Sends(u, n)' => u = v
                      /\ \A u \in Workers : Answers(u, n)' /\ worker'[u].about # 0 /\ HasLease(u)'
                            => worker'[u].result = "ambiguous"
    BY DEF SenderRows
  <2>1. v # w /\ n # m /\ Sends(v, n) /\ worker'[v] = worker[v]
    BY <1>10, <1>12
  <2>2. ASSUME NEW u \in Workers, Answers(u, n)', worker'[u].about # 0, HasLease(u)'
        PROVE  worker'[u].result = "ambiguous"
    BY <1>10, <1>12, <2>1, <2>2 DEF InboxInv, SenderRows
  <2> QED BY <1>2, <1>12, <2>1, <2>2 DEF InboxInv, SenderRows
<1>14. AnswerRows'
  <2> SUFFICES ASSUME NEW v \in Workers, NEW n \in Messages, Answers(v, n)'
               PROVE  /\ worker'[v].about \in {0, worker'[v].number}
                      /\ worker'[v].result = "accepted" => copies'[n] = 1 /\ worker'[v].about # 0
                      /\ worker'[v].result = "resource_deleted" => message'[n] = "deleted"
                      /\ HasLease(v)' => (worker'[v].about # 0
                                            <=> attempt'[n][worker'[v].number] = "running")
    BY DEF AnswerRows
  <2>1. CASE v = w
    <3>1. HasLease(v)' => message[m] # "held"
      BY <1>1, <1>2, <1>10, <2>1 DEF HasLease, InboxInv, JobMatchesMessage
    <3> QED BY <1>1, <1>2, <1>5, <1>6, <1>9, <1>10, <1>12, <2>1, <3>1
  <2>2. CASE v # w
    <3>1. copies[n] = 1 => copies'[n] = 1
      BY <1>9
    <3> QED BY <1>2, <1>10, <1>12, <2>2, <3>1 DEF InboxInv, AnswerRows
  <2> QED BY <2>1, <2>2
<1>15. CopyRows'
  <2>1. \A n \in Messages : /\ copies'[n] \in {0, 1}
                            /\ copies[n] = 1 => copies'[n] = 1
                            /\ copies'[n] = 1 => copies[n] = 1 \/ n = m
    BY <1>7, <1>9 DEF InboxInv, CopyRows
  <2>2. attempt[m][number] # "none"
    BY <1>6
  <2> QED BY <1>1, <1>2, <2>1, <2>2 DEF InboxInv, CopyRows
<1>16. OtaCopies'
  <2> SUFFICES ASSUME NEW n \in Messages, Channel[n] = "ota", copies'[n] = 1
               PROVE  /\ \A v \in Workers : ~Sends(v, n)'
                      /\ \/ message'[n] \in {"sent", "held"}
                         \/ \E k \in Numbers : attempt'[n][k] = "running"
                      /\ \A v \in Workers : Answers(v, n)' /\ worker'[v].about # 0 /\ HasLease(v)'
                            => worker'[v].result \in {"accepted", "ambiguous"}
    BY DEF OtaCopies
  <2>1. CASE n = m
    <3>1. reaches
      BY <1>7, <1>9, <2>1
    <3>2. ASSUME NEW v \in Workers, Answers(v, n)', worker'[v].about # 0, HasLease(v)'
          PROVE  worker'[v].result \in {"accepted", "ambiguous"}
      <4>1. CASE v = w
        BY <1>5, <1>10, <2>1, <3>1, <4>1
      <4>2. CASE v # w
        BY <1>6, <1>10, <1>12, <2>1, <3>2, <4>2
      <4> QED BY <4>1, <4>2
    <3> QED BY <1>1, <1>2, <1>6, <1>12, <2>1, <3>2
  <2>2. CASE n # m
    <3>1. copies[n] = 1
      BY <1>9, <2>2
    <3>2. ASSUME NEW v \in Workers, Answers(v, n)', worker'[v].about # 0, HasLease(v)'
          PROVE  worker'[v].result \in {"accepted", "ambiguous"}
      BY <1>10, <1>12, <2>2, <3>1, <3>2 DEF InboxInv, OtaCopies
    <3> QED BY <1>2, <1>12, <3>1, <3>2 DEF InboxInv, OtaCopies
  <2> QED BY <2>1, <2>2
<1>17. EmailCopies'
  <2> SUFFICES ASSUME NEW n \in Messages
               PROVE  /\ n \in remembered' => copies'[n] = 1
                      /\ Channel[n] = "email" /\ copies'[n] = 1 /\ n \notin remembered' =>
                            /\ firstTry'[n] = "old"
                            /\ \A v \in Workers : ~Sends(v, n)'
    BY DEF EmailCopies
  <2>1. CASE n = m
    <3>1. n \in remembered' => copies'[n] = 1
      BY <1>4, <1>7, <1>9, <2>1
    <3>2. Channel[n] = "email" /\ copies'[n] = 1 => n \in remembered'
      BY <1>4, <1>7, <1>9, <2>1
    <3> QED BY <3>1, <3>2
  <2>2. CASE n # m
    <3>1. n \in remembered' <=> n \in remembered
      BY <1>4, <2>2
    <3> QED BY <1>2, <1>9, <1>12, <2>2, <3>1 DEF InboxInv, EmailCopies
  <2> QED BY <2>1, <2>2
<1>18. EchoRows'
  BY <1>2, <1>7, <1>9 DEF InboxInv, EchoRows
<1> QED BY <1>2, <1>11, <1>13, <1>14, <1>15, <1>16, <1>17, <1>18, OrphanKept, MatchKept,
           KeysKept, JobsStay DEF InboxInv

(* Completion closes the running attempt, if there is one, with the job.   *)
(* While another worker still sends, the answer is unknown and the message *)
(* is held.                                                                *)
LEMMA CompleteStep ==
    ASSUME InboxInv, TypeOK', NEW w \in Workers, Complete(w)
    PROVE  InboxInv'
<1> DEFINE m == worker[w].job
           number == worker[w].number
           about == worker[w].about
           result == worker[w].result
           p == Projection(result, number)
<1>1. /\ m \in Messages /\ number \in Numbers /\ result \in Results
      /\ Answers(w, m) /\ 0 \notin Numbers /\ Numbers \subseteq Nat
  <2>1. worker[w].step = "answered"
    BY DEF Complete
  <2> QED BY <2>1, WorkerKinds, InboxAssumption DEF InboxInv, Done, Answers, Numbers
<1>2. HasLease(w) /\ CompletionFits(w)
  BY DEF Complete, MayComplete
<1>3. UNCHANGED <<replyIdem, outbox, firstTry, echo, copies, remembered>>
  BY DEF Complete, replyVars, providerVars
<1>4. /\ job[m].status = "running" /\ job[m].owner = w /\ job[m].attempts = number
  BY <1>2 DEF HasLease
<1>5. /\ about \in {0, number}
      /\ result = "accepted" => copies[m] = 1 /\ about # 0
      /\ result = "resource_deleted" => message[m] = "deleted"
      /\ about # 0 <=> attempt[m][number] = "running"
  BY <1>1, <1>2 DEF InboxInv, AnswerRows
<1>6. /\ message[m] \in {"queued", "retrying", "deleted"}
      /\ message[m] = "deleted" => result = "resource_deleted"
                                   /\ \A n \in Numbers : attempt[m][n] = "none"
  BY <1>1, <1>2, <1>4 DEF InboxInv, JobMatchesMessage, CopyRows, CompletionFits
<1>7. \A n \in Numbers : attempt[m][n] = "running" => n = number /\ about = number
  BY <1>1, <1>4, <1>5 DEF InboxInv, NoOrphanAttempt
<1>8. /\ p.attempt \in {"accepted", "transient_failure", "terminal_failure"}
      /\ p.job \in {"pending", "succeeded", "failed", "dead_lettered"}
      /\ p.state \in {"retrying", "sent", "held", "failed", "deleted"}
      /\ p.state = "retrying" <=> p.job = "pending"
      /\ p.state = "sent" <=> p.job = "succeeded"
      /\ p.state = "sent" <=> result = "accepted"
      /\ p.attempt = "accepted" <=> result = "accepted"
      /\ p.job = "failed" => p.state \in {"held", "failed"}
      /\ p.job = "dead_lettered" => p.state \in {"failed", "deleted"}
      /\ p.state = "deleted" <=> result = "resource_deleted"
      /\ result = "ambiguous" => p.attempt = "terminal_failure" /\ p.state = "held"
  BY <1>1, Projected
<1> HIDE DEF p
<1>9. /\ job \in [Messages -> JobRow] /\ jobAttempt \in [Messages -> [Numbers -> JobAttemptRow]]
      /\ worker = [v \in Workers |-> worker[v]] /\ message = [n \in Messages |-> message[n]]
      /\ current = [n \in Messages |-> current[n]] /\ attempt = [n \in Messages |-> attempt[n]]
  BY JobKinds, JobAttemptKinds DEF InboxInv, TypeOK
<1>10. FinishPlatformWork(m, number, p.job)
  BY DEF Complete, p
<1>11. /\ attempt' = [attempt EXCEPT ![m] = [n \in Numbers |->
              IF n = about THEN p.attempt ELSE attempt[m][n]]]
       /\ message' = [message EXCEPT ![m] = p.state]
       /\ current' = [current EXCEPT ![m] = IF about # 0 THEN about ELSE @]
       /\ worker' = [worker EXCEPT ![w] = Idle]
  BY <1>1, <1>9 DEF Complete, p
<1> HIDE DEF m, number, about, result
<1>12. /\ job'[m].status = p.job /\ job'[m].attempts = number
       /\ \A n \in Messages : n # m => job'[n] = job[n]
  <2>1. job' = [job EXCEPT ![m] =
                  [job[m] EXCEPT !.status = p.job, !.owner = NoWorker, !.expired = FALSE]]
    BY <1>1, <1>9, <1>10 DEF FinishPlatformWork
  <2>2. job[m] \in JobRow
    BY <1>1, <1>9
  <2>3. LET k == [job[m] EXCEPT !.status = p.job, !.owner = NoWorker, !.expired = FALSE]
        IN  k.status = p.job /\ k.attempts = job[m].attempts
    BY <2>2 DEF JobRow
  <2> QED BY <1>1, <1>4, <1>9, <2>1, <2>3
<1>13. /\ \A n \in Numbers : n # number => jobAttempt'[m][n] = jobAttempt[m][n]
       /\ \A n \in Messages : n # m => jobAttempt'[n] = jobAttempt[n]
  BY <1>1, <1>9, <1>10 DEF FinishPlatformWork
<1>14. /\ \A n \in Numbers : attempt'[m][n] = IF n = about THEN p.attempt ELSE attempt[m][n]
       /\ message'[m] = p.state
       /\ \A n \in Messages : n # m => /\ attempt'[n] = attempt[n]
                                       /\ message'[n] = message[n]
                                       /\ current'[n] = current[n]
  BY <1>1, <1>9, <1>11
<1>15. worker'[w] = Idle /\ \A v \in Workers : v # w => worker'[v] = worker[v]
  BY <1>9, <1>11
<1>16. FinalKept /\ NoNewSender /\ NoNewAnswer
  <2>1. FinalKept
    BY <1>6, <1>8, <1>14 DEF FinalKept
  <2> QED BY <1>15, <2>1 DEF NoNewSender, NoNewAnswer, Idle
<1>17. /\ \A v \in Workers : worker'[v].step = "answered" /\ HasLease(v)' =>
             HasLease(v) /\ worker'[v].job # m
       /\ \A v \in Workers, n \in Messages :
             /\ Answers(v, n)' => v # w /\ worker'[v] = worker[v] /\ Answers(v, n)
             /\ Sends(v, n)' => v # w /\ worker'[v] = worker[v] /\ Sends(v, n)
  <2>1. \A v \in Workers : worker'[v].step \in {"sending", "answered"} =>
           /\ v # w /\ worker'[v] = worker[v] /\ worker[v].job \in Messages
    BY <1>15, WorkerKinds DEF Idle, InboxInv
  <2>2. p.job # "running"
    BY <1>8
  <2>3. \A v \in Workers : worker'[v].step = "answered" /\ HasLease(v)' =>
             HasLease(v) /\ worker'[v].job # m
    BY <1>12, <2>1, <2>2 DEF HasLease
  <2> QED BY <2>1, <2>3 DEF Answers, Sends
<1>18. NoOrphanAttempt'
  <2>1. \A n \in Numbers : attempt'[m][n] # "running"
    BY <1>7, <1>8, <1>14
  <2> QED BY <1>12, <1>13, <1>14, <2>1 DEF InboxInv, NoOrphanAttempt
<1>19. JobMatchesMessage'
  <2>1. message'[m] = p.state /\ job'[m].status = p.job
    BY <1>12, <1>14
  <2> QED BY <1>3, <1>8, <1>12, <1>14, <2>1 DEF InboxInv, JobMatchesMessage
<1>20. OutboxRows'
  <2>1. outbox[m] = "published"
    BY <1>1, <1>4 DEF InboxInv, OutboxRows
  <2> QED BY <1>3, <1>8, <1>12, <1>14, <2>1 DEF InboxInv, OutboxRows
<1>21. KeysTaken'
  <2>1. message'[m] # "none" /\ message[m] # "none"
    BY <1>6, <1>8, <1>14
  <2> QED BY <1>3, <1>14, <2>1 DEF InboxInv, KeysTaken
<1>22. JobRows'
  <2>1. \A n \in Numbers : n > number => n # number
    BY <1>1
  <2>2. job'[m].status # "running"
    BY <1>8, <1>12
  <2>3. \A n \in Numbers : n > job'[m].attempts => jobAttempt'[m][n].status = "none"
    <3>1. \A n \in Numbers : n > job[m].attempts => jobAttempt[m][n].status = "none"
      BY <1>1 DEF InboxInv, JobRows
    <3> QED BY <1>4, <1>12, <1>13, <2>1, <3>1
  <2>4. ASSUME NEW k \in Messages, k # m
        PROVE  /\ job'[k].status = "running" =>
                    /\ job'[k].attempts \in Numbers /\ job'[k].owner \in Workers
                    /\ jobAttempt'[k][job'[k].attempts]
                         = [status |-> "running", owner |-> job'[k].owner]
               /\ \A n \in Numbers : n > job'[k].attempts => jobAttempt'[k][n].status = "none"
    BY <1>12, <1>13, <2>4 DEF InboxInv, JobRows
  <2> QED BY <2>2, <2>3, <2>4 DEF JobRows
<1>23. SenderRows'
  <2> SUFFICES ASSUME NEW v \in Workers, NEW n \in Messages, Sends(v, n)'
               PROVE  /\ \/ attempt'[n][worker'[v].number] = "running"
                         \/ attempt'[n][worker'[v].number] = "terminal_failure" /\ message'[n] = "held"
                      /\ \A u \in Workers : Sends(u, n)' => u = v
                      /\ \A u \in Workers : Answers(u, n)' /\ worker'[u].about # 0 /\ HasLease(u)'
                            => worker'[u].result = "ambiguous"
    BY DEF SenderRows
  <2>1. /\ v # w /\ worker'[v] = worker[v] /\ Sends(v, n) /\ worker[v].number \in Numbers
    BY <1>17, WorkerKinds DEF InboxInv, Sends
  <2>2. /\ \/ attempt[n][worker[v].number] = "running"
           \/ attempt[n][worker[v].number] = "terminal_failure" /\ message[n] = "held"
        /\ \A u \in Workers : Sends(u, n) => u = v
        /\ \A u \in Workers : Answers(u, n) /\ worker[u].about # 0 /\ HasLease(u)
              => worker[u].result = "ambiguous"
    BY <2>1 DEF InboxInv, SenderRows
  <2>3. /\ \A u \in Workers : Sends(u, n)' => u = v
        /\ \A u \in Workers : Answers(u, n)' /\ worker'[u].about # 0 /\ HasLease(u)'
                            => worker'[u].result = "ambiguous"
    BY <1>17, <2>2 DEF Answers
  <2>4. CASE n = m
    <3>1. attempt[m][worker[v].number] = "running"
      BY <1>6, <2>2, <2>4
    <3>2. worker[v].number = number /\ about = number
      BY <1>7, <2>1, <3>1
    <3>3. result = "ambiguous"
      BY <1>1, <1>2, <2>2, <2>4, <3>2 DEF about, result
    <3> QED BY <1>8, <1>14, <2>1, <2>3, <2>4, <3>2, <3>3
  <2>5. CASE n # m
    BY <1>14, <2>1, <2>2, <2>3, <2>5
  <2> QED BY <2>4, <2>5
<1>24. AnswerRows'
  <2> SUFFICES ASSUME NEW v \in Workers, NEW n \in Messages, Answers(v, n)'
               PROVE  /\ worker'[v].about \in {0, worker'[v].number}
                      /\ worker'[v].result = "accepted" => copies'[n] = 1 /\ worker'[v].about # 0
                      /\ worker'[v].result = "resource_deleted" => message'[n] = "deleted"
                      /\ HasLease(v)' => (worker'[v].about # 0
                                            <=> attempt'[n][worker'[v].number] = "running")
    BY DEF AnswerRows
  <2>1. worker'[v] = worker[v] /\ Answers(v, n) /\ (HasLease(v)' => HasLease(v) /\ n # m)
    BY <1>17 DEF Answers
  <2>2. message[n] = "deleted" => message'[n] = "deleted"
    BY <1>16 DEF FinalKept
  <2> QED BY <1>3, <1>14, <2>1, <2>2 DEF InboxInv, AnswerRows
<1>25. CopyRows'
  <2>1. \A n \in Numbers : attempt[m][n] # "none" => attempt'[m][n] # "none"
    BY <1>8, <1>14
  <2>2. p.state = "deleted" => \A n \in Numbers : attempt'[m][n] = "none"
    BY <1>1, <1>5, <1>6, <1>8, <1>14
  <2>3. p.state = "sent" => copies[m] = 1 /\ attempt'[m][number] = "accepted"
    BY <1>1, <1>5, <1>8, <1>14
  <2> QED BY <1>1, <1>3, <1>8, <1>14, <2>1, <2>2, <2>3 DEF InboxInv, CopyRows
<1>26. OtaCopies'
  <2> SUFFICES ASSUME NEW n \in Messages, Channel[n] = "ota", copies[n] = 1
               PROVE  /\ \A v \in Workers : ~Sends(v, n)'
                      /\ \/ message'[n] \in {"sent", "held"}
                         \/ \E k \in Numbers : attempt'[n][k] = "running"
                      /\ \A v \in Workers : Answers(v, n)' /\ worker'[v].about # 0 /\ HasLease(v)'
                            => worker'[v].result \in {"accepted", "ambiguous"}
    BY <1>3 DEF OtaCopies
  <2>1. /\ \A v \in Workers : ~Sends(v, n)
        /\ \/ message[n] \in {"sent", "held"}
           \/ \E k \in Numbers : attempt[n][k] = "running"
        /\ \A v \in Workers : Answers(v, n) /\ worker[v].about # 0 /\ HasLease(v)
              => worker[v].result \in {"accepted", "ambiguous"}
    BY DEF InboxInv, OtaCopies
  <2>2. \A v \in Workers : Answers(v, n)' /\ worker'[v].about # 0 /\ HasLease(v)'
              => worker'[v].result \in {"accepted", "ambiguous"}
    BY <1>17, <2>1 DEF Answers
  <2>3. CASE n = m
    <3>1. about = number
      BY <1>6, <1>7, <2>1, <2>3
    <3>2. result \in {"accepted", "ambiguous"}
      BY <1>1, <1>2, <2>1, <2>3, <3>1 DEF about, result
    <3> QED BY <1>8, <1>14, <1>17, <2>1, <2>2, <2>3, <3>2
  <2>4. CASE n # m
    BY <1>14, <1>17, <2>1, <2>2, <2>4
  <2> QED BY <2>3, <2>4
<1> QED BY <1>3, <1>16, <1>18, <1>19, <1>20, <1>21, <1>22, <1>23, <1>24, <1>25, <1>26,
           EmailKept, EchoesKept DEF InboxInv

(* Time passing at Resend: a key is forgotten only after the 23 hours, and *)
(* while no one sends the message.                                         *)
LEMMA AgeStep ==
    ASSUME InboxInv, TypeOK', NEW m \in Messages, TryGetsOld(m) \/ ProviderForgets(m)
    PROVE  InboxInv'
<1>1. UNCHANGED <<replyIdem, outbox, echo, worker, message, current, job, jobAttempt, attempt,
                  copies>>
  BY DEF TryGetsOld, ProviderForgets, replyVars, storeVars, providerVars
<1>2. RunningKept /\ StatusKept /\ JobsKept /\ FinalKept /\ NoNewSender /\ NoNewAnswer
  BY <1>1 DEF RunningKept, StatusKept, JobsKept, FinalKept, NoNewSender, NoNewAnswer
<1>3. NoNewLease
  BY <1>1 DEF NoNewLease, HasLease
<1>4. EmailCopies'
  <2>1. CASE TryGetsOld(m)
    <3>1. UNCHANGED remembered /\ \A n \in Messages : firstTry[n] = "old" => firstTry'[n] = "old"
      BY <2>1 DEF TryGetsOld, providerVars, InboxInv, TypeOK
    <3> QED BY <1>1, <1>2, <3>1, EmailKept DEF InboxInv
  <2>2. CASE ProviderForgets(m)
    <3>1. /\ firstTry[m] = "old" /\ UNCHANGED firstTry /\ remembered' = remembered \ {m}
          /\ \A w \in Workers : ~Sends(w, m)
      BY <2>2 DEF ProviderForgets, Sends
    <3> QED BY <1>1, <3>1 DEF InboxInv, EmailCopies, Sends
  <2> QED BY <2>1, <2>2
<1> QED BY <1>1, <1>2, <1>3, <1>4, OrphanKept, MatchKept, KeysKept, JobsStay, SendersKept,
           AnswersKept, CopiesKept, OtaKept, EchoesKept DEF InboxInv

(* An echo is imported only when no attempt of its message is open or      *)
(* accepted: its message is held.                                          *)
LEMMA EchoStep ==
    ASSUME InboxInv, TypeOK', NEW m \in Messages, IngestEcho(m) \/ DropEcho(m)
    PROVE  InboxInv'
<1>1. UNCHANGED <<replyIdem, outbox, firstTry, worker, message, current, job, jobAttempt, attempt,
                  copies, remembered>>
  BY DEF IngestEcho, DropEcho, replyVars, storeVars, providerVars
<1>2. RunningKept /\ StatusKept /\ JobsKept /\ FinalKept /\ NoNewSender /\ NoNewAnswer
  BY <1>1 DEF RunningKept, StatusKept, JobsKept, FinalKept, NoNewSender, NoNewAnswer
<1>3. NoNewLease
  BY <1>1 DEF NoNewLease, HasLease
<1>4. EchoRows'
  <2>1. echo[m] = "due" /\ Channel[m] = "ota" /\ copies[m] = 1
    BY DEF IngestEcho, DropEcho, InboxInv, EchoRows
  <2>2. \A n \in Messages : n # m => echo'[n] = echo[n]
    BY DEF IngestEcho, DropEcho, InboxInv, TypeOK
  <2>3. echo'[m] = "imported" => message[m] = "held"
    <3> SUFFICES ASSUME echo'[m] = "imported" PROVE message[m] = "held"
      OBVIOUS
    <3>1. /\ \A n \in Numbers : attempt[m][n] # "accepted"
          /\ ~InFlight(Thread[m])
      BY DEF IngestEcho, DropEcho, InboxInv, TypeOK
    <3>2. \A n \in Numbers : attempt[m][n] # "running"
      BY <2>1, <3>1 DEF InFlight
    <3> QED BY <2>1, <3>1, <3>2 DEF InboxInv, OtaCopies, CopyRows
  <2> QED BY <1>1, <2>1, <2>2, <2>3 DEF InboxInv, EchoRows
<1> QED BY <1>1, <1>2, <1>3, <1>4, OrphanKept, MatchKept, KeysKept, JobsStay, SendersKept,
           AnswersKept, CopiesKept, OtaKept, EmailKept DEF InboxInv

(* A message with no attempt may disappear.                                *)
LEMMA DeleteStep ==
    ASSUME InboxInv, TypeOK', NEW m \in Messages, DeleteMessage(m)
    PROVE  InboxInv'
<1>1. UNCHANGED <<replyIdem, outbox, echo, firstTry, worker, current, job, jobAttempt, attempt,
                  copies, remembered>>
  BY DEF DeleteMessage, replyVars, providerVars
<1>2. /\ message[m] \in {"queued", "retrying"} /\ message'[m] = "deleted"
      /\ \A n \in Messages : n # m => message'[n] = message[n]
      /\ \A n \in Numbers : attempt[m][n] = "none"
  BY DEF DeleteMessage, InboxInv, TypeOK
<1>3. RunningKept /\ JobsKept /\ FinalKept /\ NoNewSender /\ NoNewAnswer
  BY <1>1, <1>2 DEF RunningKept, JobsKept, FinalKept, NoNewSender, NoNewAnswer
<1>4. NoNewLease
  BY <1>1 DEF NoNewLease, HasLease
<1>5. JobMatchesMessage' /\ OutboxRows'
  BY <1>1, <1>2 DEF InboxInv, JobMatchesMessage, OutboxRows
<1>6. KeysTaken'
  BY <1>1, <1>2 DEF InboxInv, KeysTaken
<1>7. CopyRows'
  BY <1>1, <1>2 DEF InboxInv, CopyRows
<1> QED BY <1>1, <1>3, <1>4, <1>5, <1>6, <1>7, OrphanKept, JobsStay, SendersKept,
           AnswersKept, OtaKept, EmailKept, EchoesKept DEF InboxInv

-----------------------------------------------------------------------------
(* The theorems.                                                           *)

(* The invariant holds at first: no reply was made.                        *)
LEMMA InboxInit ==
    ASSUME Init
    PROVE  InboxInv
<1>1. TypeOK
  <2>1. 0 \in 0..MaxFaults
    BY InboxAssumption
  <2> QED BY <2>1 DEF Init, TypeOK, JobStatuses
<1>2. NoOrphanAttempt /\ JobMatchesMessage /\ KeysTaken /\ OutboxRows
  BY DEF Init, NoOrphanAttempt, JobMatchesMessage, KeysTaken, OutboxRows
<1>3. JobRows /\ SenderRows /\ AnswerRows
  BY DEF Init, JobRows, SenderRows, AnswerRows, Sends, Answers, Idle
<1>4. CopyRows /\ OtaCopies /\ EmailCopies /\ EchoRows
  BY DEF Init, CopyRows, OtaCopies, EmailCopies, EchoRows
<1> QED BY <1>1, <1>2, <1>3, <1>4 DEF InboxInv

(* Every step of the replies, relay, workers, providers and echoes keeps   *)
(* it.                                                                     *)
LEMMA InboxNext ==
    ASSUME InboxInv, [Next]_vars
    PROVE  InboxInv'
<1>1. CASE Next
  <2>1. TypeOK'
    BY <1>1, TypeStep DEF InboxInv
  <2>2. ASSUME NEW w \in Workers, WorkerStep(w) PROVE InboxInv'
    <3>1. ASSUME NEW c \in Conditions, Prepare(w, c) PROVE InboxInv'
      BY <2>1, <3>1, StartStep, VerdictStep
    <3> QED BY <2>1, <2>2, <3>1, ClaimStep, SendStep, CompleteStep, QuietSteps DEF WorkerStep
  <2> QED BY <1>1, <2>1, <2>2, QuietSteps, ReplyStep, RelayStep, AgeStep, EchoStep, DeleteStep,
             LeaseStep DEF Next
<1>2. CASE UNCHANGED vars
  <2>1. TypeOK'
    BY <1>2 DEF InboxInv, TypeOK, vars
  <2>2. UNCHANGED <<replyIdem, outbox, firstTry, echo, message, current, job, jobAttempt,
                    attempt, copies, remembered, worker>>
    BY <1>2 DEF vars
  <2>3. JobsKept /\ NoNewSender /\ NoNewAnswer
    BY <2>2 DEF JobsKept, NoNewSender, NoNewAnswer
  <2> QED BY <2>1, <2>2, <2>3, QuietStep
<1> QED BY <1>1, <1>2

(* The inductive invariant of the Inbox holds in every state: whatever     *)
(* crashes, leases lost, takeovers, provider outcomes and echoes there     *)
(* are, outbox, jobs, attempts, workers and copies agree.                  *)
THEOREM InboxInvariant == Spec => []InboxInv
BY InboxInit, InboxNext, PTL DEF Spec

(* The rows and the workers keep their shape.                              *)
THEOREM InboxTypeOK == Spec => []TypeOK
<1>1. InboxInv => TypeOK
  BY DEF InboxInv
<1> QED BY <1>1, InboxInvariant, PTL

(* No delivery attempt stays running after its job is closed or has gone   *)
(* on to another number.                                                   *)
THEOREM AttemptsNeverOrphaned == Spec => []NoOrphanAttempt
<1>1. InboxInv => NoOrphanAttempt
  BY DEF InboxInv
<1> QED BY <1>1, InboxInvariant, PTL

(* The job, the outbox row and the state of the message never drift apart. *)
THEOREM JobAlwaysMatches == Spec => []JobMatchesMessage
<1>1. InboxInv => JobMatchesMessage
  BY DEF InboxInv
<1> QED BY <1>1, InboxInvariant, PTL

(* The guest gets a reply once, and one of the replies under a key.        *)
THEOREM GuestReachedOnce == Spec => []ReplyReachesGuestOnce
<1>1. InboxInv => ReplyReachesGuestOnce
  <2> SUFFICES ASSUME InboxInv, NEW m \in Messages, NEW n \in Messages
               PROVE  /\ copies[m] <= 1
                      /\ m # n /\ Key[m] = Key[n] => copies[m] + copies[n] <= 1
    BY DEF ReplyReachesGuestOnce
  <2>1. copies[m] \in {0, 1} /\ copies[n] \in {0, 1}
    BY DEF InboxInv, CopyRows
  <2>2. m # n /\ Key[m] = Key[n] => message[m] = "none" \/ message[n] = "none"
    BY DEF InboxInv, KeysTaken
  <2>3. \A k \in Messages : message[k] = "none" => copies[k] # 1
    BY DEF InboxInv, CopyRows
  <2> QED BY <2>1, <2>2, <2>3
<1> QED BY <1>1, InboxInvariant, PTL

(* The echo of a message shown as sent is never imported.                  *)
THEOREM EchoNeverDoubled == Spec => []EchoNotDoubled
<1>1. InboxInv => EchoNotDoubled
  BY DEF InboxInv, EchoRows, EchoNotDoubled
<1> QED BY <1>1, InboxInvariant, PTL

(* A channel message shown as failed did not reach the guest.              *)
THEOREM FailedOtaNeverDelivered == Spec => []FailedOtaUndelivered
<1>1. InboxInv => FailedOtaUndelivered
  <2> SUFFICES ASSUME InboxInv, NEW m \in Messages, Channel[m] = "ota", message[m] = "failed"
               PROVE  copies[m] = 0
    BY DEF FailedOtaUndelivered
  <2>1. \A n \in Numbers : attempt[m][n] # "running"
    BY DEF InboxInv, NoOrphanAttempt, JobMatchesMessage
  <2> QED BY <2>1 DEF InboxInv, OtaCopies, CopyRows
<1> QED BY <1>1, InboxInvariant, PTL

-----------------------------------------------------------------------------
(* The refinement.                                                         *)

(* A step that changes the state of one message changes its phase.         *)
LEMMA PhaseChange ==
    ASSUME NEW m \in Messages, NEW state,
           message = [n \in Messages |-> message[n]],
           message' = [message EXCEPT ![m] = state]
    PROVE  Phase' = [Phase EXCEPT ![m] =
                       IF state \in {"queued", "retrying"} THEN "pending" ELSE state]
BY DEF Phase

(* Every step is a step of the guest's delivery or leaves it alone.        *)
LEMMA GuestStep ==
    ASSUME InboxInv, InboxInv', Next
    PROVE  Guest!Next \/ UNCHANGED <<Phase, copies>>
<1>0. /\ message = [n \in Messages |-> message[n]] /\ copies = [n \in Messages |-> copies[n]]
      /\ \A n \in Messages : copies[n] \in {0, 1}
      /\ \A n \in Messages : copies'[n] \in {0, 1}
      /\ \A n \in Messages : message'[n] = "sent" => copies'[n] = 1
      /\ \A n \in Messages : message'[n] = "deleted" => copies'[n] = 0
  BY DEF InboxInv, TypeOK, CopyRows
<1>1. CASE UNCHANGED <<message, copies>>
  BY <1>1 DEF Phase
<1>2. ASSUME NEW m \in Messages, NEW route \in Routes, NEW attachments \in AttachmentAnswers,
             Reply(m, route, attachments), message' # message
      PROVE  Guest!Accept(m)
  <2>1. message[m] = "none"
    BY <1>2 DEF InboxInv, KeysTaken, Reply, FindReplay
  <2>2. /\ message' = [message EXCEPT ![m] = IF route = "ready" THEN "queued" ELSE "held"]
        /\ UNCHANGED copies
    BY <1>2 DEF Reply, InsertMessage, providerVars
  <2>3. \E p \in {"pending", "held"} : Phase' = [Phase EXCEPT ![m] = p]
    <3>1. CASE route = "ready"
      BY <1>0, <2>2, <3>1, PhaseChange
    <3>2. CASE route # "ready"
      BY <1>0, <2>2, <3>2, PhaseChange
    <3> QED BY <3>1, <3>2
  <2>4. Phase[m] = "none"
    BY <2>1 DEF Phase
  <2> QED BY <2>2, <2>3, <2>4 DEF Guest!Accept
<1>3. ASSUME NEW w \in Workers, NEW outcome \in Outcomes, Send(w, outcome), copies' # copies
      PROVE  Guest!Deliver(worker[w].job)
  <2> DEFINE m == worker[w].job
  <2>1. m \in Messages /\ worker[w].number \in Numbers /\ Sends(w, m)
    BY <1>3, WorkerKinds DEF Send, InboxInv, Sends
  <2>2. message[m] \in {"queued", "retrying", "held"}
    <3>1. \/ attempt[m][worker[w].number] = "running"
          \/ message[m] = "held"
      BY <2>1 DEF InboxInv, SenderRows
    <3>2. CASE attempt[m][worker[w].number] = "running"
      <4>1. job[m].status = "running"
        BY <2>1, <3>2 DEF InboxInv, NoOrphanAttempt
      <4>2. message[m] # "deleted"
        BY <2>1, <3>2 DEF InboxInv, CopyRows
      <4> QED BY <2>1, <4>1, <4>2 DEF InboxInv, JobMatchesMessage
    <3> QED BY <3>1, <3>2
  <2>3. Phase[m] \in {"pending", "held"} /\ Phase' = Phase
    BY <1>3, <2>1, <2>2 DEF Phase, Send, storeVars
  <2>4. \E c \in {copies[m], copies[m] + 1} : copies' = [copies EXCEPT ![m] = c]
    BY <1>3 DEF Send
  <2> HIDE DEF m
  <2>5. PICK c \in {copies[m], copies[m] + 1} : copies' = [copies EXCEPT ![m] = c]
    BY <2>4
  <2>6. c # copies[m]
    BY <1>0, <1>3, <2>1, <2>5
  <2>7. c \in {0, 1}
    BY <1>0, <2>1, <2>5
  <2>8. copies[m] = 0 /\ c = 1
    BY <1>0, <2>1, <2>6, <2>7
  <2> QED BY <2>3, <2>5, <2>8 DEF Guest!Deliver, m
<1>4. ASSUME NEW w \in Workers, Complete(w)
      PROVE  Guest!Settle(worker[w].job) \/ UNCHANGED <<Phase, copies>>
  <2> DEFINE m == worker[w].job
             p == Projection(worker[w].result, worker[w].number)
  <2>1. m \in Messages /\ worker[w].result \in Results /\ Answers(w, m)
    BY <1>4, WorkerKinds DEF Complete, InboxInv, Done, Answers
  <2>2. HasLease(w) /\ CompletionFits(w) /\ message' = [message EXCEPT ![m] = p.state]
        /\ UNCHANGED copies
    BY <1>4 DEF Complete, MayComplete, providerVars
  <2>3. /\ p.state \in {"retrying", "sent", "held", "failed", "deleted"}
        /\ p.state = "deleted" <=> worker[w].result = "resource_deleted"
    BY <2>1, Projected
  <2> HIDE DEF p
  <2>4. \/ message[m] \in {"queued", "retrying"}
        \/ message[m] = "deleted" /\ p.state = "deleted"
    <3>1. job[m].status = "running"
      BY <2>2 DEF HasLease
    <3>2. message[m] \in {"queued", "retrying", "deleted"}
      BY <2>1, <3>1 DEF InboxInv, JobMatchesMessage
    <3>3. message[m] = "deleted" => worker[w].result = "resource_deleted"
      BY <2>2 DEF CompletionFits
    <3> QED BY <2>3, <3>2, <3>3
  <2> HIDE DEF m
  <2>5. Phase' = [Phase EXCEPT ![m] =
                    IF p.state \in {"queued", "retrying"} THEN "pending" ELSE p.state]
    BY <1>0, <2>1, <2>2, PhaseChange
  <2>6. Phase = [n \in Messages |-> Phase[n]] /\ Phase[m] =
          IF message[m] \in {"queued", "retrying"} THEN "pending" ELSE message[m]
    BY <2>1 DEF Phase
  <2>7. CASE p.state = "retrying"
    <3>1. Phase[m] = "pending" /\ Phase' = [Phase EXCEPT ![m] = "pending"]
      BY <2>4, <2>5, <2>6, <2>7
    <3> QED BY <2>2, <2>6, <3>1
  <2>8. CASE message[m] = "deleted" /\ p.state = "deleted"
    <3>1. Phase[m] = "deleted" /\ Phase' = [Phase EXCEPT ![m] = "deleted"]
      BY <2>5, <2>6, <2>8
    <3> QED BY <2>2, <2>6, <3>1
  <2>9. CASE message[m] \in {"queued", "retrying"} /\ p.state # "retrying"
    <3>1. Phase[m] = "pending" /\ Phase' = [Phase EXCEPT ![m] = p.state]
      BY <2>3, <2>5, <2>6, <2>9
    <3>2. message'[m] = p.state
      BY <1>0, <2>1, <2>2
    <3>3. /\ p.state = "sent" => copies[m] = 1
          /\ p.state = "deleted" => copies[m] = 0
      BY <1>0, <2>1, <2>2, <3>2
    <3>4. p.state \in {"sent", "held", "failed", "deleted"}
      BY <2>3, <2>9
    <3>5. Guest!Settle(m)
      BY <2>2, <3>1, <3>3, <3>4 DEF Guest!Settle
    <3> QED BY <3>5 DEF m
  <2> QED BY <2>4, <2>7, <2>8, <2>9
<1>5. ASSUME NEW m \in Messages, DeleteMessage(m) PROVE Guest!Settle(m)
  <2>1. /\ message' = [message EXCEPT ![m] = "deleted"] /\ message[m] \in {"queued", "retrying"}
        /\ UNCHANGED copies
    BY <1>5 DEF DeleteMessage, providerVars
  <2>2. Phase' = [Phase EXCEPT ![m] = "deleted"] /\ Phase[m] = "pending"
    <3>1. Phase[m] = "pending"
      BY <2>1 DEF Phase
    <3> QED BY <1>0, <2>1, <3>1, PhaseChange
  <2>3. copies[m] = 0
    <3>1. message'[m] = "deleted"
      BY <1>0, <2>1
    <3> QED BY <1>0, <2>1, <3>1
  <2> QED BY <2>1, <2>2, <2>3 DEF Guest!Settle
<1>6. ASSUME \/ \E m \in Messages : ReadThread(m) \/ Relay(m) \/ TryGetsOld(m) \/ ProviderForgets(m)
                   \/ IngestEcho(m) \/ DropEcho(m) \/ LeaseExpires(m)
             \/ \E t \in Threads : InboundMessage(t)
             \/ \E w \in Workers : \/ \E m \in Messages : Claim(w, m)
                                   \/ \E c \in Conditions : Prepare(w, c)
                                   \/ PrepareWithoutLease(w) \/ CompleteInVain(w) \/ Crash(w)
      PROVE  UNCHANGED <<message, copies>>
  BY <1>6 DEF ReadThread, Relay, TryGetsOld, ProviderForgets, IngestEcho, DropEcho, LeaseExpires,
              InboundMessage, Claim, Prepare, PrepareWithoutLease, CompleteInVain, Crash,
              storeVars, providerVars
<1>7. ASSUME NEW m \in Messages, NEW route \in Routes, NEW attachments \in AttachmentAnswers,
             Reply(m, route, attachments)
      PROVE  Guest!Next \/ UNCHANGED <<Phase, copies>>
  <2>1. UNCHANGED copies
    BY <1>7 DEF Reply, providerVars
  <2> QED BY <1>1, <1>2, <1>7, <2>1 DEF Guest!Next
<1>8. ASSUME NEW w \in Workers, NEW outcome \in Outcomes, Send(w, outcome)
      PROVE  Guest!Next \/ UNCHANGED <<Phase, copies>>
  <2>1. UNCHANGED message /\ worker[w].job \in Messages
    BY <1>8, WorkerKinds DEF Send, storeVars, InboxInv
  <2> QED BY <1>1, <1>3, <1>8, <2>1 DEF Guest!Next
<1>9. ASSUME NEW w \in Workers, Complete(w)
      PROVE  Guest!Next \/ UNCHANGED <<Phase, copies>>
  <2>1. worker[w].job \in Messages
    BY <1>9, WorkerKinds DEF Complete, InboxInv
  <2> QED BY <1>4, <1>9, <2>1 DEF Guest!Next
<1>10. ASSUME NEW m \in Messages, DeleteMessage(m) PROVE Guest!Next
  BY <1>5, <1>10 DEF Guest!Next
<1> QED BY <1>1, <1>6, <1>7, <1>8, <1>9, <1>10 DEF Next, WorkerStep

(* The outbox, jobs, leases, attempts, providers and echoes implement the  *)
(* promise of GuestDelivery: a message reaches the guest at most once, its *)
(* outcome is final and true, and nothing goes out after a failure.        *)
THEOREM InboxImplementsGuestDelivery == Spec => ImplementsGuestDelivery
<1>1. ASSUME Init PROVE Guest!Init
  BY <1>1 DEF Init, Guest!Init, Phase
<1>2. ASSUME InboxInv, InboxInv', [Next]_vars PROVE [Guest!Next]_<<Phase, copies>>
  <2>1. CASE Next
    BY <1>2, <2>1, GuestStep
  <2>2. CASE UNCHANGED vars
    BY <2>2 DEF vars, Phase
  <2> QED BY <1>2, <2>1, <2>2
<1> QED BY <1>1, <1>2, InboxInvariant, PTL DEF Spec, Guest!Spec, ImplementsGuestDelivery
=============================================================================
