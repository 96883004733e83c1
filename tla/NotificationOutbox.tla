-------------------------- MODULE NotificationOutbox --------------------------
(***************************************************************************)
(* The e-mail outbox of work/notifications.py.  Services queue rows in     *)
(* their own transaction; the notifier service and whoever runs the        *)
(* send_notifications command deliver them, each by bounded batches.       *)
(*                                                                         *)
(* A batch is a set of ids read without a lock.  Each is then attempted,   *)
(* oldest first, in a transaction of its own, on the locked row, whose     *)
(* status is not tested again.  The mail leaves inside that transaction:   *)
(* it may leave and the row not tell.                                      *)
(*                                                                         *)
(* Time is relative: a row holds the minutes until its next attempt is     *)
(* due, a batch the minutes since its `now`.                               *)
(***************************************************************************)
EXTENDS Integers, Sequences, FiniteSets, FiniteSetsExt

CONSTANTS
    Watch,          \* the notifier service, restarted by compose.yml
    Manual,         \* runs of send_notifications by hand
    Users,          \* the employee, the manager and the authors of an event
    MaxAttempts,    \* MAX_ATTEMPTS, 5 in the code
    Limit,          \* --limit, the size of a batch
    MaxDeliveries,  \* bound on the rows queued
    MaxLost,        \* bound on the mails that leave and are not recorded
    None            \* a notifier between two batches

Notifiers == Manual \cup {Watch}

ASSUME OutboxAssumption ==
    /\ IsFiniteSet(Manual) /\ Watch \notin Manual
    /\ MaxAttempts \in Nat \ {0, 1}
    /\ Limit \in Nat \ {0}
    /\ MaxDeliveries \in Nat \ {0}
    /\ MaxLost \in Nat

\* A notifier between two batches holds none.
ASSUME NoneIsNoBatch == None \notin [ids : SUBSET Nat, age : Nat]

VARIABLES
    outbox,   \* the NotificationDelivery rows, in the order of created_at
    batch,    \* by notifier, the ids it has still to attempt and the batch's age
    sent,     \* history: by row, the successes recorded on it
    lost      \* history: by row, the mails that left without being recorded

vars == <<outbox, batch, sent, lost>>

Ids == DOMAIN outbox

\* _retry_delay, in minutes
RetryDelay(attempts) == Min({60, 2 ^ Max({0, attempts - 1})})

\* The delay before the last attempt.
LongestDelay == 2 ^ (MaxAttempts - 2)

Row == [status : {"pending", "sent", "failed", "deleted"},
        attempts : Nat, wait : 0..LongestDelay]

\* Type invariant: attempts are bounded, whoever attempts; delays are the code's.
TypeOK ==
    /\ outbox \in Seq(Row)
    /\ batch \in [Notifiers -> [ids : SUBSET Ids, age : 0..LongestDelay] \cup {None}]
    /\ \A n \in Notifiers : batch[n] # None => batch[n].ids # {}
    /\ sent \in [1..MaxDeliveries -> Nat]
    /\ lost \in [1..MaxDeliveries -> 0..MaxLost]

Init ==
    /\ outbox = <<>>
    /\ batch = [n \in Notifiers |-> None]
    /\ sent = [d \in 1..MaxDeliveries |-> 0]
    /\ lost = [d \in 1..MaxDeliveries |-> 0]

-----------------------------------------------------------------------------
(* Queueing, by the service that the event belongs to *)

CommentRecipient(author, employee, manager) ==
    IF author = employee THEN manager ELSE employee

NewRow == [status |-> "pending", attempts |-> 0, wait |-> 0]

Queue ==
    /\ Len(outbox) < MaxDeliveries
    /\ outbox' = Append(outbox, NewRow)
    /\ UNCHANGED <<batch, sent, lost>>

QueueAssignment == Queue

QueueComment(author, employee, manager) ==
    /\ CommentRecipient(author, employee, manager) # author
    /\ Queue

QueueReopening(author, manager) ==
    /\ manager # author
    /\ Queue

-----------------------------------------------------------------------------
(* deliver_due_notifications *)

\* A plausible slip: a row's last attempt is never due.
DueBeforeLast(d) ==
    /\ outbox[d].status = "pending" /\ outbox[d].wait = 0
    /\ outbox[d].attempts < MaxAttempts - 1

Due(d) == outbox[d].status = "pending" /\ outbox[d].wait = 0

DueIds == {d \in Ids : Due(d)}

\* The --limit oldest of some ids.
Oldest(ids) == {d \in ids : Cardinality({e \in ids : e < d}) < Limit}

ReadBatch(n) ==
    /\ batch[n] = None
    /\ DueIds # {}
    /\ batch' = [batch EXCEPT ![n] = [ids |-> Oldest(DueIds), age |-> 0]]
    /\ UNCHANGED <<outbox, sent, lost>>

\* The id that the notifier attempts next, the oldest of its batch.
Attempting(n, d) ==
    /\ batch[n] # None
    /\ d \in batch[n].ids
    /\ \A e \in batch[n].ids : d <= e

Rest(n, d) ==
    IF batch[n].ids = {d} THEN None ELSE [batch[n] EXCEPT !.ids = @ \ {d}]

\* The notifier has done with the id and turns to the next one.
Turn(n, d) ==
    /\ Attempting(n, d)
    /\ batch' = [batch EXCEPT ![n] = Rest(n, d)]

\* The server takes the mail and the transaction commits.
Deliver(n, d) ==
    /\ Turn(n, d)
    /\ outbox[d].status # "deleted"
    /\ outbox' = [outbox EXCEPT ![d].status = "sent", ![d].attempts = @ + 1]
    /\ sent' = [sent EXCEPT ![d] = @ + 1]
    /\ UNCHANGED lost

\* Plausible slips: the limit is tested before the attempt counts, or the row
\* is put back in the queue by a failed attempt.
AfterFailureRetriedOnce(row, age) ==
    LET tried == [row EXCEPT !.attempts = @ + 1] IN
    IF tried.attempts > MaxAttempts
    THEN [tried EXCEPT !.status = "failed"]
    ELSE [tried EXCEPT !.wait = Max({0, RetryDelay(tried.attempts) - age})]
AfterFailureRequeued(row, age) ==
    LET tried == [row EXCEPT !.attempts = @ + 1] IN
    IF tried.attempts >= MaxAttempts
    THEN [tried EXCEPT !.status = "failed"]
    ELSE [tried EXCEPT !.status = "pending", !.wait = 1]
AfterFailureGivesUpEarly(row, age) ==
    [row EXCEPT !.attempts = @ + 1, !.status = "failed"]

\* next_attempt_at is counted from the `now` of the batch, not of the attempt.
AfterFailure(row, age) ==
    LET tried == [row EXCEPT !.attempts = @ + 1] IN
    IF tried.attempts >= MaxAttempts
    THEN [tried EXCEPT !.status = "failed"]
    ELSE [tried EXCEPT !.wait = Max({0, RetryDelay(tried.attempts) - age})]

\* send_mail raises; the server may have taken the mail all the same.
Fail(n, d) ==
    /\ Turn(n, d)
    /\ outbox[d].status # "deleted"
    /\ outbox' = [outbox EXCEPT ![d] = AfterFailure(@, batch[n].age)]
    /\ \E left \in {0, 1} :
          /\ lost[d] + left <= MaxLost
          /\ lost' = [lost EXCEPT ![d] = @ + left]
    /\ UNCHANGED sent

\* The process dies after the mail has left: the row does not change and the
\* rest of the batch is forgotten.
CrashAfterMail(n) ==
    /\ \E d \in Ids :
          /\ Attempting(n, d)
          /\ outbox[d].status # "deleted"
          /\ lost[d] < MaxLost
          /\ lost' = [lost EXCEPT ![d] = @ + 1]
    /\ batch' = [batch EXCEPT ![n] = None]
    /\ UNCHANGED <<outbox, sent>>

\* The process is killed before its next transaction commits.
Crash(n) ==
    /\ batch[n] # None
    /\ batch' = [batch EXCEPT ![n] = None]
    /\ UNCHANGED <<outbox, sent, lost>>

\* DoesNotExist: the row was deleted after the batch was read.
CrashOnMissing(n) ==
    /\ \E d \in Ids : Attempting(n, d) /\ outbox[d].status = "deleted"
    /\ batch' = [batch EXCEPT ![n] = None]
    /\ UNCHANGED <<outbox, sent, lost>>

Attempt(n) ==
    \/ \E d \in Ids : Deliver(n, d) \/ Fail(n, d)
    \/ CrashAfterMail(n)
    \/ CrashOnMissing(n)

-----------------------------------------------------------------------------

\* scripts/reset_reporting_data.sh stops the notifier and deletes the rows; a
\* run by hand is not stopped.
Reset ==
    /\ outbox' = [d \in Ids |-> [outbox[d] EXCEPT !.status = "deleted"]]
    /\ batch' = [batch EXCEPT ![Watch] = None]
    /\ UNCHANGED <<sent, lost>>

\* A minute passes.
Tick ==
    /\ outbox' = [d \in Ids |->
           [outbox[d] EXCEPT !.wait = Max({0, @ - 1})]]
    /\ batch' = [n \in Notifiers |->
           IF batch[n] # None /\ batch[n].age < LongestDelay
           THEN [batch[n] EXCEPT !.age = @ + 1] ELSE batch[n]]
    /\ UNCHANGED <<sent, lost>>

Next ==
    \/ QueueAssignment
    \/ \E author, employee, manager \in Users :
          QueueComment(author, employee, manager) \/ QueueReopening(author, manager)
    \/ \E n \in Notifiers : ReadBatch(n) \/ Attempt(n) \/ Crash(n)
    \/ Reset
    \/ Tick

\* compose.yml restarts the notifier whenever it stops: it may be killed any
\* number of times, not each time before its first attempt.  Time passes.  Runs
\* by hand may stop anywhere.
Fairness ==
    /\ WF_vars(ReadBatch(Watch))
    /\ SF_vars(Attempt(Watch))
    /\ WF_vars(Tick)

Spec == Init /\ [][Next]_vars /\ Fairness

-----------------------------------------------------------------------------
(* Properties *)

\* However batches overlap, a row is attempted MAX_ATTEMPTS times and at most
\* once more by every other notifier that held it in a stale batch.
AttemptsBounded ==
    \A d \in Ids : outbox[d].attempts < MaxAttempts + Cardinality(Notifiers)

\* A mail leaves once per notifier at most, unless it left unrecorded before:
\* retries and stale batches never send again what one notifier recorded.
RecordedAtMostOncePerNotifier ==
    \A d \in Ids : sent[d] <= Cardinality(Notifiers)

\* The outbox tells the truth: a row is sent only after a recorded success,
\* given up only after MAX_ATTEMPTS, and waiting only while nothing succeeded.
StatusIsTruthful ==
    \A d \in Ids :
        /\ outbox[d].status = "sent" => sent[d] > 0
        /\ outbox[d].status = "failed" => outbox[d].attempts >= MaxAttempts
        /\ outbox[d].status = "pending" => sent[d] = 0

Waiting(d) == d \in Ids /\ outbox[d].status = "pending"

\* Every row is sent or given up, through failures, crashes of the notifier,
\* stale batches and resets.
EveryRowSettles ==
    \A d \in 1..MaxDeliveries : Waiting(d) ~> ~ Waiting(d)
=============================================================================
