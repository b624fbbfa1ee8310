------------------------------- MODULE Outbox -------------------------------
(***************************************************************************)
(* The transactional outbox.  A request's unit of work writes one          *)
(* outbox_events row per domain event in the transaction of the state      *)
(* change; replicas of the outbox worker claim due rows with FOR UPDATE    *)
(* SKIP LOCKED, publish them to RabbitMQ one by one, mail the ones that    *)
(* carry a token, and mark or reschedule the whole batch in the            *)
(* transaction that claimed it.                                            *)
(*                                                                         *)
(* The broker, the SMTP server and the clock are the environment: they     *)
(* fail, lose a confirm, or let a backoff elapse at any moment.            *)
(***************************************************************************)
EXTENDS Naturals, FiniteSets

CONSTANTS
    Events,       \* outbox rows: one id per domain event ever recorded
    Sensitive,    \* events with sensitive_fields; they are also the mailed ones
    Audited,      \* events whose type is in EVENT_TO_ACTION
    Requests,     \* requests, each with its own unit of work
    Workers,      \* replicas of the outbox worker
    MAX_ATTEMPTS, \* failed publishes after which a row is dead-lettered
    BatchSizes,   \* values of batch_size, the LIMIT of a poll
    MaxFaults,    \* bound: worker crashes, publishes that hang, lost confirms
    MaxReplays    \* bound: operator replays of dead-lettered rows

ASSUME OutboxAssumption ==
    /\ Sensitive \subseteq Events /\ Audited \subseteq Events
    /\ MAX_ATTEMPTS \in Nat \ {0}
    /\ BatchSizes \subseteq Nat \ {0}
    /\ MaxFaults \in Nat
    /\ MaxReplays \in Nat

VARIABLES
    table,     \* outbox_events: the rows present
    purged,    \* rows the retention sweep has deleted
    created,   \* created_at of each row
    processed, \* rows with processed_at set
    failed,    \* rows with failed_at set: the dead letters
    waiting,   \* rows whose next_attempt_at is in the future
    attempts,  \* failed attempts of each row
    token,     \* rows whose payload still carries its credential
    changed,   \* requests whose state change is committed
    audit,     \* events whose audit entry is committed
    clock,     \* created_at of the next row
    uow,       \* per request: where its unit of work stands
    stamp,     \* per request: created_at of the rows its commit() adds
    events,    \* per request: the events its aggregates recorded
    pc,        \* per worker: where _process_batch stands
    batch,     \* per worker: the rows its transaction has locked
    todo,      \* per worker: what the current loop has still to handle
    ok,        \* per worker: the events published
    broker,    \* copies of each event the exchange has accepted
    wire,      \* events whose published body carried a credential
    inbox,     \* copies of each event's mail the SMTP server has accepted
    faults,    \* faults so far
    replays    \* replays so far

rowVars    == <<table, purged, created, processed, failed, waiting, attempts, token>>
uowVars    == <<changed, audit, clock, uow, stamp, events>>
workerVars == <<pc, batch, todo, ok>>
envVars    == <<broker, wire, inbox>>
vars       == <<rowVars, uowVars, workerVars, envVars, faults, replays>>

(***************************************************************************)
(* The repository: what each statement does to the columns of the rows E.  *)
(***************************************************************************)
\* Mutant: the failed_at IS NULL filter is missing.
PendingDespiteFailure(e) == e \in table /\ e \notin processed

Pending(e) == e \in table /\ e \notin processed /\ e \notin failed

\* The rows some worker's transaction holds a row lock on.
Locked == UNION {batch[w] : w \in Workers}

\* Mutant: FOR UPDATE without SKIP LOCKED's exclusion.
DueIgnoringLocks == {e \in Events : Pending(e) /\ e \notin waiting}

\* What a poll may claim: due rows that no other transaction has locked.
Due == {e \in Events : Pending(e) /\ e \notin waiting} \ Locked

Older(e, f) == created[e] <= created[f]

\* ORDER BY created_at LIMIT: a claimed row is never younger than a due row
\* left behind, and rows are left behind only when the batch is full.
get_unprocessed(B, limit) ==
    /\ B # {} /\ B \subseteq Due /\ Cardinality(B) <= limit
    /\ B # Due => Cardinality(B) = limit
    /\ \A e \in B, f \in Due \ B : Older(e, f)

\* Add the rows of the events E: pending, due now, with their credentials.
_persist_outbox_event(E, now) ==
    /\ table' = table \cup E
    /\ created' = [e \in Events |-> IF e \in E THEN now ELSE created[e]]
    /\ token' = token \cup (E \cap Sensitive)
    /\ UNCHANGED <<purged, processed, failed, waiting, attempts>>

\* Mutant: the payload keeps its credential.
MarkWithoutScrubbing(E) == processed' = processed \cup E /\ UNCHANGED token

\* Mutant: processed_at is not set.
ScrubWithoutMarking(E) == token' = token \ E /\ UNCHANGED processed

\* The rows E are handled: their credentials are scrubbed.
mark_processed(E) ==
    /\ processed' = processed \cup E
    /\ token' = token \ E

\* Mutant: failures are not counted.
RescheduleForEver(E) == waiting' = waiting \cup E /\ UNCHANGED <<attempts, failed>>

\* One more failed attempt for the rows E: back off, or give up.
reschedule(E) ==
    LET Exhausted == {e \in E : attempts[e] + 1 >= MAX_ATTEMPTS}
    IN  /\ attempts' = [e \in Events |->
                           IF e \in E THEN attempts[e] + 1 ELSE attempts[e]]
        /\ failed' = failed \cup Exhausted
        /\ waiting' = (waiting \cup E) \ Exhausted

\* The body published for a row: the credentials it may carry are those of
\* its payload, and the value of every sensitive key is replaced.
wire_payload(e) == (token \cap {e}) \ Sensitive

-----------------------------------------------------------------------------
(***************************************************************************)
(* The unit of work of a request.                                          *)
(***************************************************************************)
Recorded == UNION {events[r] : r \in Requests}

Init ==
    /\ table = {} /\ purged = {} /\ processed = {} /\ failed = {}
    /\ waiting = {} /\ token = {}
    /\ created = [e \in Events |-> 0]
    /\ attempts = [e \in Events |-> 0]
    /\ changed = {} /\ audit = {} /\ clock = 0
    /\ uow = [r \in Requests |-> "idle"]
    /\ stamp = [r \in Requests |-> 0]
    /\ events = [r \in Requests |-> {}]
    /\ pc = [w \in Workers |-> "idle"]
    /\ batch = [w \in Workers |-> {}]
    /\ todo = [w \in Workers |-> {}]
    /\ ok = [w \in Workers |-> {}]
    /\ broker = [e \in Events |-> 0]
    /\ wire = {}
    /\ inbox = [e \in Events |-> 0]
    /\ faults = 0 /\ replays = 0

\* The services mutate aggregates and register them: the events E are
\* recorded in memory only.
register(r, E) ==
    /\ uow[r] = "idle" /\ E # {} /\ E \cap Recorded = {}
    /\ uow' = [uow EXCEPT ![r] = "open"]
    /\ events' = [events EXCEPT ![r] = E]
    /\ UNCHANGED <<rowVars, changed, audit, clock, stamp, workerVars, envVars, faults, replays>>

\* commit() drains the aggregates and stamps the rows; they are not yet
\* visible to anyone else.
Flush(r) ==
    /\ uow[r] = "open"
    /\ uow' = [uow EXCEPT ![r] = "flushed"]
    /\ stamp' = [stamp EXCEPT ![r] = clock]
    /\ clock' = clock + 1
    /\ UNCHANGED <<rowVars, changed, audit, events, workerVars, envVars, faults, replays>>

\* The audit entries written for the events E.
handle_many(E) == E \cap Audited

\* Mutant: the audit handlers write outside the transaction that commits.
CommitWithoutAudit(r) ==
    /\ uow[r] = "flushed"
    /\ _persist_outbox_event(events[r], stamp[r])
    /\ changed' = changed \cup {r}
    /\ uow' = [uow EXCEPT ![r] = "done"]
    /\ UNCHANGED <<audit, clock, stamp, events, workerVars, envVars, faults, replays>>

\* The audit handlers have run and the transaction commits: the change, the
\* rows and the audit entries become visible together.
Commit(r) ==
    /\ uow[r] = "flushed"
    /\ _persist_outbox_event(events[r], stamp[r])
    /\ changed' = changed \cup {r}
    /\ audit' = audit \cup handle_many(events[r])
    /\ uow' = [uow EXCEPT ![r] = "done"]
    /\ UNCHANGED <<clock, stamp, events, workerVars, envVars, faults, replays>>

\* The use case, an audit handler or the commit raised, or the process died:
\* nothing of the transaction survives.
Rollback(r) ==
    /\ uow[r] \in {"open", "flushed"}
    /\ uow' = [uow EXCEPT ![r] = "done"]
    /\ UNCHANGED <<rowVars, changed, audit, clock, stamp, events, workerVars, envVars, faults, replays>>

-----------------------------------------------------------------------------
(***************************************************************************)
(* The worker: one poll is one transaction.                                *)
(***************************************************************************)

\* The next event of the loop: the rows come in created_at order.
NextTodo(w, e) == e \in todo[w] /\ \A f \in todo[w] : Older(e, f)

\* A poll with any of the batch sizes: what holds of these behaviours holds
\* of the replicas of any deployment, whose sizes are fixed.
Claim(w, B) ==
    /\ pc[w] = "idle"
    /\ \E limit \in BatchSizes : get_unprocessed(B, limit)
    /\ pc' = [pc EXCEPT ![w] = "publish"]
    /\ batch' = [batch EXCEPT ![w] = B]
    /\ todo' = [todo EXCEPT ![w] = B]
    /\ UNCHANGED <<rowVars, uowVars, ok, envVars, faults, replays>>

\* The exchange accepts and confirms the message.
publish_event(w, e) ==
    /\ pc[w] = "publish" /\ NextTodo(w, e)
    /\ broker' = [broker EXCEPT ![e] = @ + 1]
    /\ wire' = wire \cup wire_payload(e)
    /\ todo' = [todo EXCEPT ![w] = @ \ {e}]
    /\ ok' = [ok EXCEPT ![w] = @ \cup {e}]
    /\ UNCHANGED <<rowVars, uowVars, pc, batch, inbox, faults, replays>>

\* The publish raises and nothing reached the exchange.
PublishFails(w, e) ==
    /\ pc[w] = "publish" /\ NextTodo(w, e)
    /\ todo' = [todo EXCEPT ![w] = @ \ {e}]
    /\ UNCHANGED <<rowVars, uowVars, pc, batch, ok, envVars, faults, replays>>

\* The publish raises although the exchange took the message: the confirm
\* was lost.
ConfirmLost(w, e) ==
    /\ pc[w] = "publish" /\ NextTodo(w, e) /\ faults < MaxFaults
    /\ faults' = faults + 1
    /\ broker' = [broker EXCEPT ![e] = @ + 1]
    /\ wire' = wire \cup wire_payload(e)
    /\ todo' = [todo EXCEPT ![w] = @ \ {e}]
    /\ UNCHANGED <<rowVars, uowVars, pc, batch, ok, inbox, replays>>

\* The publish never returns, whether or not the exchange took the message:
\* publish() has no timeout, and a broker that blocks its publishers never
\* confirms.  The worker keeps its row locks until it is restarted.
Hang(w, e) ==
    /\ pc[w] = "publish" /\ NextTodo(w, e) /\ faults < MaxFaults
    /\ faults' = faults + 1
    /\ pc' = [pc EXCEPT ![w] = "hung"]
    /\ \/ UNCHANGED <<broker, wire>>
       \/ /\ broker' = [broker EXCEPT ![e] = @ + 1]
          /\ wire' = wire \cup wire_payload(e)
    /\ UNCHANGED <<rowVars, uowVars, batch, todo, ok, inbox, replays>>

\* publish_outbox returns; the mails of the published events come next.
PublishDone(w) ==
    /\ pc[w] = "publish" /\ todo[w] = {}
    /\ pc' = [pc EXCEPT ![w] = "email"]
    /\ todo' = [todo EXCEPT ![w] = ok[w] \cap Sensitive]
    /\ UNCHANGED <<rowVars, uowVars, batch, ok, envVars, faults, replays>>

send_email(w, e) ==
    /\ pc[w] = "email" /\ NextTodo(w, e)
    /\ inbox' = [inbox EXCEPT ![e] = @ + 1]
    /\ todo' = [todo EXCEPT ![w] = @ \ {e}]
    /\ UNCHANGED <<rowVars, uowVars, pc, batch, ok, broker, wire, faults, replays>>

\* The SMTP server refuses, the payload has no usable address, or mail is
\* not configured: the exception is logged and the loop goes on.
SendFails(w, e) ==
    /\ pc[w] = "email" /\ NextTodo(w, e)
    /\ todo' = [todo EXCEPT ![w] = @ \ {e}]
    /\ UNCHANGED <<rowVars, uowVars, pc, batch, ok, envVars, faults, replays>>

\* mark_processed, reschedule and the commit that releases the row locks.
Finish(w) ==
    /\ pc[w] = "email" /\ todo[w] = {}
    /\ mark_processed(ok[w])
    /\ reschedule(batch[w] \ ok[w])
    /\ pc' = [pc EXCEPT ![w] = "idle"]
    /\ batch' = [batch EXCEPT ![w] = {}]
    /\ ok' = [ok EXCEPT ![w] = {}]
    /\ UNCHANGED <<table, purged, created, uowVars, todo, envVars, faults, replays>>

\* The worker dies, is restarted or the database fails the transaction: the
\* row locks go, what was published or mailed stays, and the next poll starts afresh.
Crash(w) ==
    /\ pc[w] # "idle" /\ faults < MaxFaults
    /\ faults' = faults + 1
    /\ pc' = [pc EXCEPT ![w] = "idle"]
    /\ batch' = [batch EXCEPT ![w] = {}]
    /\ todo' = [todo EXCEPT ![w] = {}]
    /\ ok' = [ok EXCEPT ![w] = {}]
    /\ UNCHANGED <<rowVars, uowVars, envVars, replays>>

-----------------------------------------------------------------------------
(***************************************************************************)
(* The clock, the operator and the maintenance worker.                     *)
(***************************************************************************)

\* backoff_delay has passed: next_attempt_at is no longer in the future.
BackoffElapses(e) ==
    /\ e \in waiting
    /\ waiting' = waiting \ {e}
    /\ UNCHANGED <<table, purged, created, processed, failed, attempts, token>>
    /\ UNCHANGED <<uowVars, workerVars, envVars, faults, replays>>

\* An operator puts the dead-lettered rows among E back in the queue.
replay(E) ==
    LET Back == E \cap failed \cap table
    IN  /\ Back # {} /\ replays < MaxReplays
        /\ replays' = replays + 1
        /\ failed' = failed \ Back
        /\ attempts' = [e \in Events |-> IF e \in Back THEN 0 ELSE attempts[e]]
        /\ waiting' = waiting \ Back
        /\ UNCHANGED <<table, purged, created, processed, token>>
        /\ UNCHANGED <<uowVars, workerVars, envVars, faults>>

\* Mutant: the sweep looks at the age of a row alone.
DeleteAnyOld(E) ==
    LET Old == E \cap table
    IN  /\ Old # {}
        /\ table' = table \ Old
        /\ purged' = purged \cup Old
        /\ UNCHANGED <<created, processed, failed, waiting, attempts, token>>
        /\ UNCHANGED <<uowVars, workerVars, envVars, faults, replays>>

\* Retention: processed rows are deleted once they are old enough.
delete_processed_older_than(E) ==
    LET Old == E \cap processed \cap table
    IN  /\ Old # {}
        /\ table' = table \ Old
        /\ purged' = purged \cup Old
        /\ UNCHANGED <<created, processed, failed, waiting, attempts, token>>
        /\ UNCHANGED <<uowVars, workerVars, envVars, faults, replays>>

_process_batch(w) ==
    \/ \E B \in SUBSET Events : Claim(w, B)
    \/ \E e \in Events :
          publish_event(w, e) \/ PublishFails(w, e) \/ ConfirmLost(w, e)
    \/ PublishDone(w)
    \/ \E e \in Events : send_email(w, e) \/ SendFails(w, e)
    \/ Finish(w)

RequestNext(r) ==
    \/ \E E \in SUBSET Events : register(r, E)
    \/ Flush(r) \/ Commit(r) \/ Rollback(r)

Next ==
    \/ \E r \in Requests : RequestNext(r)
    \/ \E w \in Workers : _process_batch(w) \/ Crash(w)
    \/ \E w \in Workers, e \in Events : Hang(w, e)
    \/ \E e \in Events : BackoffElapses(e)
    \/ \E E \in SUBSET Events : replay(E) \/ delete_processed_older_than(E)

Spec == Init /\ [][Next]_vars

(***************************************************************************)
(* Fairness.  A worker's loop polls for ever, and a worker that is not     *)
(* hung goes on: SMTP calls have aiosmtplib's timeout, a publish that does *)
(* not return is Hang, and the database is assumed to answer or to drop    *)
(* the connection, which the worker's engine does not enforce by itself.   *)
(* Backoffs elapse.  Requests, operators, retention, faults and the        *)
(* restart of a hung worker owe nothing.                                   *)
(***************************************************************************)
FairSpec ==
    /\ Spec
    /\ \A w \in Workers : WF_vars(_process_batch(w))
    /\ \A e \in Events : WF_vars(BackoffElapses(e))

-----------------------------------------------------------------------------
(***************************************************************************)
(* Properties.                                                             *)
(***************************************************************************)

\* The variables have the shapes the code gives them.
TypeOK ==
    /\ \A column \in {table, purged, processed, failed, waiting, token, audit, wire} :
          column \subseteq Events
    /\ created \in [Events -> Nat]
    /\ attempts \in [Events -> 0..MAX_ATTEMPTS]
    /\ changed \subseteq Requests /\ clock \in Nat
    /\ uow \in [Requests -> {"idle", "open", "flushed", "done"}]
    /\ stamp \in [Requests -> Nat]
    /\ events \in [Requests -> SUBSET Events]
    /\ pc \in [Workers -> {"idle", "publish", "hung", "email"}]
    /\ batch \in [Workers -> SUBSET Events]
    /\ todo \in [Workers -> SUBSET Events]
    /\ ok \in [Workers -> SUBSET Events]
    /\ broker \in [Events -> Nat] /\ inbox \in [Events -> Nat]
    /\ faults \in 0..MaxFaults /\ replays \in 0..MaxReplays

\* FOR UPDATE SKIP LOCKED: two replicas never work on the same row, and a
\* claimed row stays pending and due until its own transaction ends, whatever
\* the operator and the retention sweep do meanwhile.
ClaimExclusive ==
    /\ \A v, w \in Workers : v # w => batch[v] \cap batch[w] = {}
    /\ \A w \in Workers : \A e \in batch[w] : Pending(e) /\ e \notin waiting

\* commit() is all or nothing: an event's row and audit entry exist exactly
\* when the request that recorded it committed its change, and a row leaves
\* the table only after it was relayed.
Transactional ==
    \A r \in Requests : \A e \in events[r] :
        /\ r \in changed <=> e \in table \cup purged
        /\ e \in audit <=> r \in changed /\ e \in Audited
        /\ e \in purged => e \in processed

\* At least once: a row counts as processed only when the exchange has taken
\* its message, and nothing is published for a request that rolled back.
ProcessedWasPublished ==
    \A e \in Events :
        /\ e \in processed => broker[e] > 0
        /\ broker[e] > 0 => e \in table \cup purged

\* With several replicas, retries, dead-lettering and replays, every message
\* beyond the first costs a fault: a crash or database error before the
\* commit, a publish that hung, or a lost publisher confirm.  The same holds of the mails.
DuplicatesNeedAFault ==
    \A e \in Events : broker[e] <= 1 + faults /\ inbox[e] <= 1 + faults

\* A token is nowhere but in the row of an event not yet handled: never in a
\* published body, never in a processed row, and mailed only from its row.
SecretsConfined ==
    /\ wire = {}
    /\ token = Sensitive \cap (table \ processed)
    /\ \A e \in Events : inbox[e] > 0 => e \in Sensitive

\* reschedule: a row is dead-lettered exactly when its failures reach
\* MAX_ATTEMPTS, and a dead-lettered row is never processed.
RetryBudget ==
    /\ failed = {e \in Events : attempts[e] = MAX_ATTEMPTS}
    /\ failed \cap processed = {}

\* What a step may do to a row: a processed row is only ever deleted, a
\* deleted one is gone for good, and a dead-lettered one leaves that state by
\* a replay alone, with its retry budget restored.
RowLifecycle ==
    [][/\ processed \subseteq processed' /\ purged \subseteq purged'
       /\ table \ table' \subseteq processed
       /\ failed \ failed' # {} => replays' = replays + 1
       /\ \A e \in failed \ failed' : attempts'[e] = 0 /\ Pending(e)'
       /\ \A e \in processed : attempts'[e] = attempts[e]
       /\ \A e \in Events : attempts'[e] > attempts[e] =>
             \E w \in Workers : e \in batch[w] /\ e \notin batch'[w]]_vars

\* Where a worker stands in its batch: the loops run over what it claimed,
\* and only published events are mailed.
BatchInv ==
    \A w \in Workers :
        /\ todo[w] \subseteq batch[w] /\ ok[w] \subseteq batch[w]
        /\ pc[w] = "idle" => batch[w] = {}
        /\ pc[w] \in {"publish", "hung"} => todo[w] \cap ok[w] = {}
        /\ pc[w] = "email" => todo[w] \subseteq ok[w] \cap Sensitive

\* Where an event comes from: one request, which committed if it has a row.
OriginInv ==
    /\ \A r, s \in Requests : r # s => events[r] \cap events[s] = {}
    /\ \A r \in Requests : uow[r] = "idle" => events[r] = {}
    /\ \A r \in changed : uow[r] = "done"
    /\ table \cap purged = {} /\ purged \subseteq processed
    /\ processed \cup failed \cup waiting \subseteq table \cup purged
    /\ waiting \cap (processed \cup failed) = {}
    /\ \A e \in Events :
          /\ e \in table \cup purged => \E r \in changed : e \in events[r]
          /\ e \in audit => \E r \in changed : e \in events[r]

\* The copy that needs no fault is the one of the row's successful attempt:
\* it is accounted for by the row, or by the worker about to mark it.
Relayed(e) == e \in processed \/ \E w \in Workers : e \in ok[w]
Mailed(e) ==
    \/ e \in processed
    \/ \E w \in Workers : pc[w] = "email" /\ e \in ok[w] \ todo[w]

CopiesInv ==
    \A e \in Events :
        /\ broker[e] <= faults + (IF Relayed(e) THEN 1 ELSE 0)
        /\ inbox[e] <= faults + (IF Mailed(e) THEN 1 ELSE 0)
        /\ Relayed(e) => broker[e] > 0

\* The inductive invariant the safety properties follow from.
OutboxInv ==
    /\ TypeOK /\ ClaimExclusive /\ Transactional /\ ProcessedWasPublished
    /\ SecretsConfined /\ RetryBudget
    /\ BatchInv /\ OriginInv /\ CopiesInv

\* What the table and the exchange look like from outside: the abstract relay.
Relay == INSTANCE ReliableRelay WITH
    accepted  <- table \cup purged,
    settled   <- processed,
    parked    <- failed,
    delivered <- broker

\* The worker replicas, their retries and their crashes implement an
\* at-least-once relay: no event of an aborted request is delivered, none is
\* settled undelivered, none is delivered after it was settled or parked.
ImplementsRelay == Relay!Spec

\* An event waits for the restart of a hung worker: the one that has locked
\* its row, or all of them.
HeldUp(e) ==
    \/ \E w \in Workers : pc[w] = "hung" /\ e \in batch[w]
    \/ \A w \in Workers : pc[w] = "hung"

\* A poison message cannot block the queue.  Although a poll takes the oldest
\* due rows first and no more than LIMIT of them, every committed event is
\* relayed or dead-lettered, even when publishes fail for ever; it waits
\* only while a hung worker holds its row, or while every worker hangs.
EventuallySettled ==
    \A e \in Events :
        e \in table ~> e \in processed \cup failed \/ HeldUp(e)
=============================================================================
