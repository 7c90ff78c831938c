# librdkafka in TLA+

Models, model-checking runs and machine-checked proofs for the client protocols
of librdkafka. Source paths are relative to the repository root; `src/src/` is
the C library. Definitions keep the names of the code where TLA+ allows it, and
`PROJECT.json` maps each one to the lines it models.

Six parts of the library are modelled, the ones that carry the delivery
guarantees of its documentation: the **idempotent producer**, the **transaction
manager**, the **consumer group** with the classic protocol, the **consumer
assignment** with its offset commits, the **fetcher** of a partition, and the
**share consumer** with its acknowledgements.

## 1. The system

A client instance (`rd_kafka_t`) runs one *main thread*, one *broker thread* per
broker, and the application's own threads. Threads talk through op queues; the
producer's hot paths also share state under locks and atomic counters.

| Component | State | Operations | Talks to | What is hard | What makes it correct |
|---|---|---|---|---|---|
| Idempotent producer (`rdkafka_idempotence.c`) | `rk_eos`: state, PID and epoch, `inflight_toppar_cnt` | acquire PID, drain and bump, drain and reset, partition in/out of flight | broker threads (drain, counts), main thread (PID requests) | counts read outside the lock, epoch shared by all partitions, int16 wrap | counts are exact; an epoch changes only when drained; never parked for ever |
| Partition queues (`rdkafka_partition.c`, `rdkafka_msg.c`, `rdkafka_msgset_writer.c`) | `rktp_msgq`, `rktp_xmit_msgq`, `rktp_eos`, message status, retries, `last_msgid` | produce, batch, retry in order, time out, purge, report | application, broker thread, old and new leader's thread | batches must be rebuilt identically; sequence derived from message ids | each message has one owner; log order; honest reports |
| Broker thread (`rdkafka_broker.c`) | `rkb_outbufs`, `rkb_waitresps`, connection, toppar list | serve partitions, send, receive, fail, purge, partition join/leave | main thread ops, brokers | lock released inside `producer_serve`; migration with requests in flight | window of in-flight requests; nothing lost when a partition leaves |
| Produce replies (`rdkafka_request.c`) | `next_ack_seq`, `next_err_seq`, `acked_msgid` | success, implicit ack, error classification, retry/fail/bump/fatal | all of the above | lost replies, duplicates, gaps, `UNKNOWN_PRODUCER_ID` | no false ack, no renumbering of what may be written |
| Consumer assignment (`rdkafka_assignment.c`) | `.all .pending .queried .removed`, `started_cnt`, `wait_stop_cnt`, `version` | assign, unassign, incremental forms, serve, stop, query committed offsets | cgrp, fetchers, coordinator | calls outrun replies and stops; replies of older assignments | assertions hold; starts at the committed offset; always finishes |
| Offset commits (`rdkafka_cgrp.c`, `rdkafka_offset.c`) | `wait_commit_cnt`, `rkcg_wait_coord_q`, stored and committed positions | timer, final commit on revoke, defer, retry, expire | assignment, coordinator | hand-overs between queues, retries overtaking | every commit has one result; never past what was consumed |
| Consumer group (`rdkafka_cgrp.c`) | cgrp state, join state, member id, generation/epoch, subscription | join, sync, heartbeat, rebalance callbacks, leave, terminate; KIP-848 reconciliation | assignment, coordinator, application | rebalance while an assign is in progress, lost assignment, termination | one rebalance at a time; no join without a finished unassign |
| Transaction manager (`rdkafka_txnmgr.c`) | txn state, pending/waiting partitions, current API call | init, begin, add partitions, send offsets, commit, abort, errors | idempotence, coordinator, application | API timeout and resume, abortable/fatal errors from other threads | no commit after an abortable error; state machine legal |
| Fetcher and offsets (`rdkafka_fetcher.c`, `rdkafka_offset.c`, `rdkafka_partition.c`) | fetch state, `rktp_version`, next position, fetch queue | start, stop, seek, pause, validate, reset, decode | broker thread, assignment | stale fetches and ops after seek/stop | no message of an older version reaches the application |
| Share consumer (`rdkafka_share_acknowledgement.c`, `rdkafka.c`) | acquired records, cached and pending acknowledgements per broker, the commit_sync() under way, share sessions | poll, acknowledge, commit, close | broker threads, application | one op per broker with everything else waiting; late replies; brokers that leave | each acknowledgement has one outcome, and the true one; fetching never stalls |
| Op queues (`rdkafka_queue.c`, `rdkafka_op.c`) | queue, forward pointer, wakeup | enqueue, pop, serve, forward, purge by version | everything | forwarding while enqueueing, lost wakeups | no op lost or reordered |
| Timers (`rdkafka_timer.c`) | sorted list, one lock | start, stop, one-shot, run | main and broker threads | callback runs unlocked | stopped means not fired |
| Metadata and cache (`rdkafka_metadata*.c`), topics (`rdkafka_topic.c`) | topic entries with expiry, hints, leader epochs | request, update, expire | everything | stale leaders, waiters | leader epoch never moves back |
| Coordinator cache (`rdkafka_coord.c`) | cache, request FSM | find coordinator, connect, send | admin, txn | FSM restarted from several callbacks | each request answered once |
| Assignors (`rdkafka_*assignor.c`) | none | assignment algorithms | cgrp | stickiness, generations | every partition to exactly one subscriber; balance |
| Admin, configuration, TLS/SASL, telemetry, codecs, mock cluster | | | | | not part of the delivery protocols |

Other facts used below: the broker and the group coordinator are not in the
repository; their behaviour is modelled from what the reply handlers expect and
is marked external.

## 2. Modules

| Module | What it is |
|---|---|
| `PartitionLog` | the partition leader as the producer sees it (external): log, producer epoch, window of remembered batches, replies |
| `IdempotentProducer` | the producer: application, main thread, broker threads, cluster |
| `ExactlyOnceLog` | abstract promise: in order, at most once, honest delivery reports |
| `MCIdempotentProducer` | instances for TLC |
| `IdempotentProducer_proofs` | theorems: types; every message has one owner; the in-flight counters are exact; NOT_PERSISTED is true; the in-flight window; renumbering waits for the drain |
| `ExactlyOnceLog_proofs` | theorems: what the abstract specification promises |
| `Assignment` | the consumer's assignment, offset queries and commits, the coordinator |
| `MCAssignment` | instances for TLC |
| `Assignment_proofs` | theorems: assertions, types, the count of commits, at least once |
| `TxnManager`, `MCTxnManager` | the transactional producer: API calls, transaction and producer id states, the coordinator |
| `TxnCases_proofs`, `TxnManager_proofs` | the invariant and the cases of the handlers; theorems: assertions and types; all or nothing; the calls return the truth |
| `Fetcher`, `MCFetcher` | one consumed partition: version barrier, offset look-ups, Fetch loop, consume queue |
| `Fetcher_proofs` | theorems: types and version order; no message of an old version is delivered |
| `Cgrp`, `MCCgrp` | the classic consumer group: join state machine, rebalances, subscriptions, close |
| `Cgrp_proofs` | theorems: types, assertions and the rebalance calls of the consumer group |
| `ShareConsumer`, `MCShareConsumer` | the share consumer: application, main thread, broker threads and share sessions, the brokers |
| `ShareConsumer_proofs` | theorems: all safety properties of the share consumer |

### IdempotentProducer

State: `rk` is the client's `rk_eos` and fatal flag; `msgq`, `xmit_msgq`,
`msgs_inflight`, `eos`, `rkm` the partition and its messages; `th` and `hand`
the program counter and locals of each broker thread; `outbufs`, `waitresps`,
`up` its requests and connection; `leader`, `plog`, `stale` the cluster.
Queues are sorted by message id in the code (`msg_order_cmp`), so they are sets.

Actions follow the code's critical sections. `rd_kafka_toppar_producer_serve()`
is four steps (`ServeTimeout`, `ServeToppar`, `ServeChecks`, `ProduceRequest`,
with the purges between them), because it drops the partition lock; a thread
reads the PID once per round (`ServeBegin`) and uses it later. The reply handler
is `HandleStart` (the decrement of `rktp_msgs_inflight`) followed by
`HandleSuccess` or `HandleError` with the decrement of `inflight_toppar_cnt` at
its end, and `CallDrainDone` is the drain completion that the code runs after
having read the count without the lock. `Delegate`, `PartitionLeave`,
`PartitionLeft` and `PartitionJoin` are the migration ops. Faults (named in
`Faults`, at most `MaxFaults`): disconnect or request timeout, message timeout,
purge, a refused write, a write refused after the append, a permanent error, a
leader change, the broker forgetting the producer, a failing InitProducerId.

Abstractions: `linger.ms` 0 and no retry backoff (a message may always be sent);
request timeout is a disconnect (`socket.max.fails` 1); no transactions, no
termination, no purge of in-flight requests; a metadata update is an atomic
change of the leader known to the client, seen at any later time; for a
non-transactional producer only the epoch of the PID changes; `xmit_msgq` is
modified atomically (the purge of another thread's queue goes through an op, as
in the code); batches are limited by message count only. The in-flight window
compares requests with the number of *messages* in flight, as
`rdkafka_broker.c` does.

### Assignment

State: the record `c` is everything the main thread owns: the lists, the
`started`/`wait_stop`/`ASSIGNED` flags of partitions, the three counters, the
assignment version, stored/committed/application positions, the coordinator's
availability, the requests on the wire, in retry backoff, deferred
(`rkcg_wait_coord_q`) or to be reprocessed, and `asserts`, false once an
`rd_assert()` of the code would have failed. `committed` is the coordinator's
state; `delivered` and `acked` are history.

A handler of the main thread is one action, with `rd_kafka_assignment_serve()`
at its end (`Serve`: removals, then pending partitions, then `assignment_done`).
`.removed` is always empty between handlers, so it is an argument of `Serve`.
The coordinator answers one connection's requests in order; a retried request
goes behind later ones. `OtherMember` is another consumer of the group, which
may work on partitions that this consumer has given up completely.

Abstractions: the application assigns partitions itself, the group's join state
is not modelled (only the `assignment_done` signal, `done`), nor the lost
assignment flag, pause/resume, fatal errors, termination, manual commits, the
KIP-848 deferral of a commit answered STALE_MEMBER_EPOCH, and the share
consumer's variants. `enable.auto.commit` and `enable.auto.offset.store` are on,
`auto.offset.reset` is `earliest`, and receiving a message and storing its
offset is one step (one application thread that takes single messages). A
request lost with its connection is not processed by the coordinator later.
The group has committed nothing at first.

### TxnManager

State: the record `c` is `rk->rk_eos` as the transaction manager uses it (the
transaction state, the idempotence state, the lists of pending, waiting and
registered partitions, the current API call and its one result slot, the
timers), the op queue of the main thread, the requests to the coordinator, and
the messages queued and in flight. `app` is the application's thread inside a
public call: a call is a sequence of ops, each waited for (`Enter`, `TakeResult`,
`Flushed`, `Return`). `co` is the coordinator with the partition logs (external),
`told` what the calls have returned of each transaction.

Each action is one critical section: an op or a reply handled by the main thread
(`HandleOp`, `HandleReply`, with one operator per handler, the error
classification included), a timer, the look-up of the coordinator, the broker
thread's round, send and reply, a message timeout, the purge of an abort. A
message timeout of a partition's leader thread is two: the scan reports the
message as failed (`MessageTimeout`), and after it has let go of the partition's
lock the same call asks for a new epoch (`TimeoutBump`), if the producer id it read at
the start of its round was valid (`has_pid`). In between, any thread may run; only
the purge op, which a broker thread serves between two rounds and an abort waits
for, cannot. The scan of the internal broker has no second part. The one function
with two critical sections that is one step is
`rd_kafka_idemp_drain_epoch_bump0()`: first the producer id's state, then the
abortable error; with these two split for timed out messages both runs pass as well
(7.1 million and 775 thousand states). A
request is retried, refreshes the coordinator, or raises an abortable or fatal
error as its handler says; `SetState` checks the transition as
`rd_kafka_txn_set_state()` does.

Abstractions: at most one message per partition and transaction; the offsets of
`send_offsets_to_transaction()` are a message of the partition `OFF`; the
delivery of a message is one step (its detail is `IdempotentProducer`), with the
error classes a transaction can tell apart; group metadata and termination are
left out. In the runs calls time out while they wait for the producer id or for
the flush (`TimeoutPhases`); section 6 says why not later.

### Fetcher

State: the record `c` is one `rd_kafka_toppar_t`: the three versions, the fetch
state, the positions (next and last fetch start, fetch, application, validation
and query position), the pause flag, the timers, `rktp_leader` and `rktp_broker`,
`rktp_ops`, `rktp_fetchq` and the requests that are not answered. `call` is the
application's thread between taking a new version, enqueueing its op and the
reply; `app` what it knows; `log` the leader's log (external).

Actions: the main thread handles one op of `rktp_ops` (start, stop, seek,
pause/resume, reset, and the replies of ListOffsets and OffsetForLeaderEpoch), a
timer, or a metadata update (`LeaderUpdate`); the broker thread takes over the
partition (`Migrate`), serves it (`ConsumerServe`: fetch_decide and the Fetch
request) and handles a reply (`FetchReply`); the application calls and consumes.
`era` and `start` are history: an era begins where the code rightly places the
partition, and the properties compare what is consumed with the era it is of.

`OneAtATime` restricts what may overlap: calls that move the position, leader
changes, retention and truncation then only happen when the previous one has been
carried out, with Fetch requests in flight throughout. It is on for `InPosition`,
because the code loses a seek or skips messages in several overlaps (section 6),
and off in `FetcherRaces`.

Abstractions: one partition and one Fetch request at a time per broker; the
backoff after a fetch error outlasts the main thread's handling of the reset it
raised; batch consume, the event API and its barrier op, tail and stored offsets,
end-of-partition events, preferred replicas, authorisation errors, destruction
and the decoding of message sets are left out.

### Cgrp

State: the record `c` is `rd_kafka_cgrp_t` with the part of the assignment it
talks to: both state machines, the member id and generation, current and
postponed subscription, the group's and the incremental assignment, the flags
(lost, leave on unassign, terminate, max.poll exceeded...), the op queue, the
rebalance ops at the application, and the requests on the wire. Member ids and
generations are relative: `known` is the id given out last, `current` its
generation, and the coordinator renames what it replaces. `k` is the coordinator
and the other members (external).

Actions: `CgrpServe` (the periodic serve: join, session and rejoin checks),
`ServeOp` (subscribe, unsubscribe, assign calls, close), `ServeReply` (JoinGroup,
SyncGroup, Heartbeat, LeaveGroup with their error classes), `AssignorMetadata`
and `MetadataReply`, fetchers that stop and offsets that arrive, `Poll` (the
application takes a rebalance op and answers it with the documented call), the
coordinator's steps, and the faults: a lost connection, an expired session, a
missed poll deadline, an eviction, other members that join and leave, topics that
appear and disappear. The assignment inside `c` is what `Assignment` promises: a
removal ends when the fetchers have stopped, an addition when offsets are known.

Abstractions: a topic has one partition and the two are identified; the client
forgets its old member id when it is given a new one; a broker for metadata is
always available; the times between joins are left out. Not modelled: KIP-848
and share groups, static membership, wildcard subscriptions, fatal errors,
SyncGroup attempts running out, rebalancing without a callback, pausing inside
the callback, close without waiting (`NO_CONSUMER_CLOSE`), and the errors of an
OffsetCommit that start a revocation (a heartbeat reply has the same effect at
any time).

### ShareConsumer

State: `app` is the application's thread with `rkshare_inflight_acks` (the
records it has been given, and those with a type set) and its flag that a fetch
was asked for; `main` is `rkcg_share` and `rkcg_commit_sync_request`; `rkb` the
brokers, each with the fields of the main thread (a share op is out, cached and
pending acknowledgements) and of its own thread (session epoch, ops, request on
the wire, response not yet passed on); `rk_ops` and `rkcg_q` the queues to the
main thread and to the application; `srv` the brokers' side (external): leaders,
sessions, acquisition locks. `cb` is the outcome passed to the acknowledgement
callback; it becomes "twice" if there are two.

Actions: the application's calls, `poll()` in two steps; the main thread handles
one op (`MainServe`: the three fan-outs, the reply of a share op with its seven
steps, TERMINATE), re-triggers a fetch, runs the timer of `commit_sync()`, applies
Metadata and decommissions a broker; a broker thread takes an op (`BrokerServe`),
handles a reply (`Receive`), and passes the records on *after* the main thread
has been told (`RespEnqueue`). The handlers of the main thread are functions of
the record `State`, composed as the code composes them.

Abstractions: an acknowledgement is its record, whatever its type; error codes
are `ok` and `err`; the round robin of `rd_kafka_share_select_broker()` is a free
choice; a session that the broker drops and a lock that expires are among the
outcomes of `Disconnect`. The assignment is fixed and no subscription changes:
the group's heartbeats, destruction without close, fatal errors and the decoding
of records are left out.

## 3. Runs

Every bound is a constant of the `.cfg`. Deadlock is checked in `TxnFaults`;
elsewhere `CHECK_DEADLOCK FALSE`, because with bounded messages, calls and faults
a behaviour ends when all is done (the liveness runs say that it does not end
earlier). In `TxnManager` and `ShareConsumer` the type invariant is a conjunct of
`AssertsHold`.

| Run | Instance | Checks | Shows |
|---|---|---|---|
| `Retries` | 1 partition, 4 messages, a window of 2, gapless on, 2 faults | `HonestReports`, `LogOrder`, `InflightBound`, `GaplessOrFatal`, `AllReported` | recovery reports honestly and keeps the order; the window at its limit; outcomes that stay unknown; every message is reported |
| `TwoPartitions` | 2 partitions, 2 messages each, 7 kinds of fault | `InflightAccounting`, `RenumberWhenDrained`, `ImplementsExactlyOnce` | the shared epoch and counters, lost producer state, failing PID requests |
| `LeaderChange` | 2 broker threads, epoch space 2, 1 fault of 7 kinds, a move among them | `TypeOK`, `MessageConservation`, `NoFatalError`, `ImplementsExactlyOnce`, `AllReported` | migration with requests in flight; the epoch wraps; every message is reported |
| `AssignmentFaults` | 2 partitions, 2 messages each, 3 calls, 2 faults of 7 kinds | `TypeOK`, `AssertsHold`, `CommitAccounting`, `AtLeastOnce`, `ReadsOwnCommits`, `CommitsAdvance` | any order of calls, replies, stops and failures |
| `AssignmentLiveness` | 2 partitions, 2 calls, timer, other members, 1 fault | `EventuallyServed` | every assignment is carried out and signalled |
| `TxnFaults` | 1 partition and offsets, 2 transactions, 1 fault of 12 kinds, 1 timeout | `AssertsHold`, `AllOrNothing`, `ToldTheTruth` | no call or error in any order breaks the state machine; a commit is all or nothing; calls return the truth |
| `TxnLiveness` | the same with 1 transaction | `CallsReturn` | every transactional call returns |
| `FetcherPositions` | a log of 2 to 3 messages, 3 calls, 1 move, 1 fault of 5 kinds, `OneAtATime` | `TypeOK`, `InPosition` | each message once and in order from the right position |
| `FetcherRaces` | 1 message, 2 calls, 1 move, 1 fault, every overlap | `NoStaleDelivery`, `CaughtUp` | nothing of an old version is delivered; the partition catches up |
| `CgrpRebalances` | 2 topics, EAGER and COOPERATIVE, 3 calls or faults of 6 kinds | `TypeOK`, `AssertsHold`, `RebalanceCallsSucceed`, `SoleOwner`, `InStep`, `Settles` | rebalances, subscriptions, losses and close in any order |
| `ShareCommits` | 2 brokers, 2 records, explicit mode, 2 commits, 1 fault of 5 kinds | `OneOpPerBroker`, `AssertsHold`, `AckConservation`, `ToldTheTruth`, `RequestAlive`, `Settles` | acknowledgements and fetches under lost connections and sessions, refusals, moved leaders and brokers that leave |
| `V_Leave` | COOPERATIVE, 2 calls | `LeftGroup` | a disagreement, section 6 |

Why the bounds are enough to matter: three messages with batches of two give a
batch before, inside and after the one that fails, and a batch to rebuild; two
faults let a recovery fail while another is under way; two partitions are the
smallest number for which "all partitions have drained" differs from "this one
has"; the window equals the number of requests so that one too many is visible;
three calls are assign, unassign, assign again, the shortest sequence in which
a reply, a stop or a commit can belong to an earlier assignment. The sequence
and epoch spaces are larger than the behaviours can use up, except in
`LeaderChange` where the one fault makes the epoch wrap. Two transactions let a reply, an error or a result of
the first reach the second. Three calls of the fetcher are start, one that moves
the position and one more while it is carried out; two of the three messages fit
in a Fetch, so a Fetch can end before, at and after a position. In `CgrpRebalances`
one event has to be the first subscribe(), and the other two may meet in any
state of the join it causes; close() is not counted. Its invariants
have also been checked with four events and every cached set (8.5 million states). `ShareCommits`
starts with two records of one partition (one may be acknowledged and committed
while the other is held or not yet fetched) or with one of each of two partitions
with leaders of their own; two commits are an earlier one whose reply is late and
the one it could be taken for. Implicit mode acknowledges everything at the next
call, which is one of the choices of the explicit application.

Fairness. `IdempotentProducer!Fairness`: a thread inside a function finishes it
(weak fairness of `Internal`); a broker thread's loop returns to each of its
duties whatever else it has to do, and they disable each other while one runs,
hence strong fairness for them; the PID timer fires and PID requests are
answered; the cluster answers what it receives. `Assignment!FairSpec`: the main
thread keeps handling what is queued and the coordinator answers. Nothing is
assumed of the application, of the commit timer, of other members or of faults.
`TxnManager!Fairness`: the main and broker threads run, timers fire, the
coordinator connects and answers, a message that cannot be sent times out
(`message.timeout.ms`), a thread that has timed out a message goes on to ask for
the new epoch, and the application's thread goes on inside a call.
`Fetcher!Fairness`: the threads run, brokers answer and the application polls.
`Cgrp!Fairness`: the same; the application polls and answers rebalance ops (a
missed poll deadline is a fault that ends), other members rejoin when the group
rebalances, and the session of a member that sends no heartbeats runs out
(`SessionStarved`: the coordinator's and the client's clock).
`ShareConsumer!Fairness`: the main and broker threads run and a broker answers
what it has received; the application and the timer owe nothing. No fairness is
assumed of calls or faults anywhere.

`ImplementsExactlyOnce` instantiates `ExactlyOnceLog` with the ids in each log,
the last produced id and the reports derived from status and delivery report.

## 4. Proofs

Proved by TLAPS for every value of the constants that satisfies the named
assumptions (`BoundsAssumption`, `BrokersAssumption`, `SeqSpaceAssumption`,
`WindowAssumption`: bounds are naturals, sizes are positive, `None` is no
broker):

- `TypeCorrect` (`IdempotentProducer_proofs`): `Spec => []TypeOK`. `TypeOK` is
  inductive with three conjuncts that are more than types and are needed: a
  thread at a partition step has a partition, no request is empty (otherwise
  the first message of a request, its sequence and its retry are undefined), and
  `last_msgid` of a retried batch is not before its first message (otherwise the
  rebuilt batch could be empty). The proof has one lemma per action, lemmas for
  the helpers, and lemmas on sets of numbers for what `Min`, `Max` and the sorted
  batch return.
- `MessagesConserved`: `Spec => []MessageConservation`.
  The property speaks of slots, positions in the queues of requests, which shift
  when a request is taken from the middle; the invariant `OwnersInv` does not: a
  produced message is in one partition queue, reported, or in the requests of
  one broker (`Holds`), and there in one place (`Once`). `TakenOut` and its lemmas
  say what taking a request out of a sequence, or appending one, does to `Has`
  and `Uniq`. One lemma per action; `OwnersOne` goes back to the slots.
- `InflightExact`: `Spec => []InflightAccounting`, from
  `OwnersInv` and two counts: `PerToppar`, `rktp_msgs_inflight` is the size of
  `Flying(p)`, the set of messages that the partition's counted requests carry,
  and `PerClient`, `inflight_toppar_cnt` is the number of partitions with any plus
  the number of handlers in their last phase (both sets stay finite, so no
  assumption on the number of brokers or partitions is needed). A step that only
  moves requests leaves `Flying` alone because `OwnersInv` holds before and after
  and the queues are the same. That a message counts once although it is counted
  per request follows from `MessageConservation` (`CountedOnce`, a bijection).
- `NotPersistedIsTrue`: `Spec => []NotPersistedIsNotWritten`,
  the half of `HonestReports` that lets an application produce a failed message
  again. The status alone is not inductive: a request may be written and its
  reply, or the news that its connection broke, still be on the way.
  `KnownInv` says that a message that is in a log, or in a request of a lost
  connection that the broker may still handle, has another status or is
  `Unsettled`: in a sent request whose result, arrived or certain to come, will change
  it. `LostInv` is what makes the latter certain: requests wait for a reply without
  a connection only while the thread fails them one by one.
- `WindowRespected` and `BoundRespected`: the code limits
  requests by comparing `rktp_msgs_inflight`, a number of messages, with
  `RD_KAFKA_IDEMP_MAX_INFLIGHT`. `Near(p)` is the set of the partition's batches
  under way; because no request is empty and no message is in two requests
  (`TypeOK`, `OwnersInv`), requests map one to one to batches and there are no
  more batches than messages. `BoundInv` adds `Room`: what a thread in the middle of
  `producer_serve` may still send is within the limit, and stays so because only the
  partition's own broker thread serves it (`AtHome`). `InflightWindow`, for any
  number of brokers, leaves out a result that a former leader's thread has begun
  to handle (its messages are already counted out); with one broker there is no
  such thread and the property of the run, `InflightBound`, follows from
  `MaxInflight <= Window`.
- `RenumbersWhenQuiet` and `RenumbersWhenDrained`: for any
  number of brokers a partition adopts a new epoch only when it has no request
  under way (`NearSlots(p) = {}`, from `PerToppar`: a count of zero is an empty
  set). `RenumberWhenDrained` says more: no request at all, and the client's epoch
  only changes with no partition in flight. It is proved for `OneBroker`, where
  the code's unlocked read of the count is safe: the thread that read zero is the
  only one that could put a partition in flight, so the count is still zero when it
  calls `rd_kafka_idemp_drain_done()` (`DrainedInv`), and the main thread's bump only
  follows a drain (`PidInv`, `DrainInv`). With two brokers and one leader change TLC
  refutes it and `InflightBound` too (section 6); the hypothesis is the cluster of the runs `Retries`
  and `TwoPartitions`, which check the two.
- `Guarantees` (`ExactlyOnceLog_proofs`): the abstract specification implies
  that log ids strictly increase (once and in order) and that reports agree
  with the log for ever. The inductive invariant adds that logs and reports have
  their types. With `ImplementsExactlyOnce` (checked by TLC) this is the chain
  from the code to the manual's promises.
- `AssertsNeverFail` (`Assignment_proofs`): `Spec => []AssertsHold`, from
  `AssignmentPartitions` alone (the partitions are a finite set). The assertions
  are not inductive; the invariant `Sound` adds what makes them true. Lists:
  `.pending` and `.queried` are disjoint parts of `.all`. Flags: ASSIGNED holds
  exactly for `.all` and what is being removed; a running partition that is not
  being stopped is assigned and waits for no offset and no start. Counters: one
  stop is outstanding for each partition being stopped, and `started_cnt` and
  `wait_stop_cnt` are the sizes of the sets they count. Within a handler
  `.removed` is not empty, so `Sound(s, R)` takes it as `R`; the proof has one
  lemma per transformation of the state record, then one per action.
- `TypeCorrect`, `CommitsCounted`, `NothingSkipped` (`Assignment_proofs`):
  `Spec => []TypeOK`, `Spec => []CommitAccounting` and, for applications that
  start partitions at logical offsets only (`StartOffsets \cap Nat = {}`),
  `Spec => []AtLeastOnce`; from `AssignmentBounds`, `AssignmentPartitions` and
  `AssignmentStartOffsets`. The restriction is the meaning of the property: one
  who starts at an offset of his own choice skips what is before it and commits
  past it, by design. All three come from one predicate, `Fit(s, F, k)`. `F[p]`
  is the set of offsets that may be seen for partition `p`; every list of the
  assignment, every position, every request and reply, wherever it is queued,
  holds only such offsets, and the handlers move offsets but make none: they are
  preserved for every `F` that has STORED and INVALID. With all offsets as `F`
  this is type correctness; with the offsets below which everything has been
  consumed (`Covered`) it says that what can ever be committed is covered, which
  is why a commit that is retried or deferred late can do no harm to
  `AtLeastOnce`. Only consuming makes a new offset, and it covers it in the same
  step. `k` is the number of commits that a handler has taken from a queue and not
  finished, which makes the count of `CommitAccounting` true within a handler too.
- `TypeCorrect` and `BarrierHolds` (`Fetcher_proofs`): `Spec => []TypeOK` and
  `Spec => []NoStaleDelivery`, for every log, start, number of calls, leader
  changes and faults and every overlap (`OneAtATime` is not assumed), from
  `FetcherBounds` and `FetcherFaults`. The invariant `Inv` says of the partition
  that its three versions are ordered, that positions lie within the log or are
  logical, and that the broker thread is not ahead of the leader; of each queue
  that an op carries no version that has not been given out; of the
  application that its barrier is at most the partition's version and has never
  been crossed. The barrier is not inductive without the middle part: an op
  with a version from the future would set `fetch_version` past `version`, and
  the check that drops old messages compares with the latter.
- `TypeCorrect`, `AssertsNeverFail`, `CallsSucceed` (`Cgrp_proofs`):
  `Spec => []TypeOK`, `Spec => []AssertsHold`, `Spec => []RebalanceCallsSucceed`,
  for any topics, starts, peers, events and kinds of fault, from `CgrpBounds` and
  `CgrpSets`. None of the three is inductive; one invariant, `Inv`, carries
  them. `WireOK`: of the requests outstanding, sent or answered, at most one is a
  JoinGroup or SyncGroup, it is the one that `rkcg_wait_resp` names, and at most one is
  a Heartbeat, while its flag is set: this is what makes the assertions on
  `wait_resp` and on the join state true. `AssignmentOK`: how the lists of the
  assignment fit together, `TermOK`: a group that has terminated fetches
  nothing. `QueuesOK`: a call of the application that is not close() is the last
  op queued. `ViewOK`, for a COOPERATIVE group that is not closing: from the
  assignment, the call under way and then the rebalance ops that the application
  has not yet answered lead to the group's assignment, each op adding what is
  not there or removing what is (`Leads`, a path of sets). This is the fact that the two
  views never part; it breaks inside a handler that is carrying out a call,
  hence `Solid`, everything but the view. The group is a record that handlers pass
  on, so there is one lemma for each handler and each of these predicates. The attempt to
  prove it showed the third assertion of section 6.
- `TxnAssertsHold`, `TxnAllOrNothing`, `TxnCommitIsTrue`, `TxnToldTheTruth`
  (`TxnManager_proofs`): `Spec => []AssertsHold`, `Spec => []AllOrNothing`,
  `Spec => []CommitIsTrue`, `Spec => []ToldTheTruth`, for
  any partitions, transactions, calls, timeouts and faults, from `TxnBounds`,
  `TxnFaults`, `TxnPartitions` and the hypothesis `NoLateResult`: `commit_transaction()`
  and `abort_transaction()` do not time out while EndTxn is out, and no call times out
  before the main thread has got to its op. Both parts are needed for the
  assertions: with either of them dropped TLC breaks `AssertsHold` by the sequence of
  section 6, and the runs `TxnFaults` and `TxnLiveness` are such instances. `Inv`
  has these parts. `StatesOK`: which states of the producer id go with which of the
  transaction. `Ordered` and `WireOK`: at most one request of each kind is out, an
  EndTxn or InitProducerId is the last, and each only in the states that wait for it.
  `SlotOK`, `OpsOK`, `CallOK`, `EndOK`: for each step of a call, whether its op,
  its execution or its result is under way, never two of them; this is what a late
  result breaks. `ListsOK`, `CountOK`: the three lists of partitions are disjoint and
  `txn_req_cnt` is not below what it counts. `LogOK`, `RepliesOK`, `PartsOK`: what the client
  sends to is in the coordinator's transaction, or the client has been fenced and
  will learn of it. `OutcomeOK`: until EndTxn(commit) is sent every message is
  queued, in flight, written, or has failed with `txn_dr_fails` set; when it
  is sent every one is written and none is aborted. `ToldOK` carries this to what the
  application has been told. `TxnToldTheTruth` adds what an abort returns, with one
  more hypothesis, `NoBump`: the coordinator gives no reply that calls for a new epoch
  (the fault "bump"; without it section 6 has the sequence that breaks it). Errors of
  the broker threads that call for one, a message timeout among them, are allowed.
  `AbortOK`: while a commit that was carried out is unknown to the client, nothing
  is queued, in flight or timed out, so no such error can come, EndTxn(abort) has
  to be sent, and it is refused. `SettledOK` says what a fatal error leaves of the
  transaction when a call returns. Without a fatal error the call's parts are exact; with
  one, only that no later step succeeds. The client is a record, and one event runs
  several handlers on it, so there is one lemma for each case of a handler
  (`...Sound` in `TxnCases_proofs`, the effect as hypotheses) and one for each handler
  and action (`...Good`).
- `OneOpAlways`, `AcksConserved`, `ReportsAreTrue`, `RequestStaysAlive`,
  `ClosesClean` (`ShareConsumer_proofs`): the safety properties of the run
  `ShareCommits`, for any number of brokers, partitions, records, calls and
  faults, from `ShareBounds`, `ShareSets` (the brokers are a finite set) and
  `NoneIsNoResponse` (the value for "no response" is not a set of records). One
  inductive invariant, `Inv`, carries all five, because they need each other.
  `Struct`: the share op of a broker is in one of three places (its queue, the
  wire, a reply), never two, and the flag says whether it is (`Exclusive`).
  `FetchOK`, `RequestOK`: at most one broker fetches, and a reply that says that
  records came is ahead of those records or of the next request for some.
  `DeliveryOK`: the responses, the records given and those acknowledged are
  disjoint, so no record is acknowledged twice, and all records of one partition
  that the application holds come from one broker. `AcksOK`: an acknowledgement
  without a result is in exactly one place, and at the broker that delivered it.
  `TruthOK`: a code "ok" in an op means that the broker has processed its
  acknowledgements. `SyncOK`: the results outstanding are those of the brokers
  that hold acknowledgements of the current commit_sync(), each with all of a
  partition or nothing of it; the last part is why the result of a partition can
  be taken from one reply, and why it needs `DeliveryOK`. `CallsOK`: a call
  waits in the queue or is being carried out, not both, and nothing follows
  TERMINATE. `LeaveOK`: one leave is counted for each op out after TERMINATE.
  In the middle of a handler part of this is broken; the predicates take what
  the main thread holds in its hands (`hand`, `late`, `back`) as parameters, and
  there is one lemma per handler and conjunct. `ClosesClean` assumes `~Overlap`
  because the code does break the assertions otherwise (section 6); the other
  four hold with the overlap too.

Only model-checked:

- liveness (`AllReported`, `EventuallyServed`, `CallsReturn`, `CaughtUp`, `Settles`):
  fairness is outside the prover;
- of the producer, the other half of `HonestReports` (`DeliveredIsWritten`),
  `LogOrder`, `GaplessOrFatal`, `NoFatalError` and the refinement
  `ImplementsExactlyOnce`. They have no theorem for all constants because they
  are not true for all constants: the sequences of section 6 break each of the
  first three on instances a little larger than the runs, with two partitions of
  one broker already. A theorem would have to exclude those sequences by
  hypothesis, and what is left is what TLC checks;
- of the transaction manager, `AbortIsTrue` where the coordinator may answer with an
  error that calls for a new epoch: it is not true for all constants (section 6);
- `ReadsOwnCommits` and `CommitsAdvance` of the assignment and `InPosition` of the
  fetcher: sequences of section 6 refute them on instances larger than their runs.
  A theorem would first need a hypothesis that excludes exactly those, as
  `NoLateResult` does for the transaction manager;
- `SoleOwner` and `InStep` of the consumer group, which leave the states of section 6
  out by definition: they relate the member to the generations and the other
  members at the coordinator, and that invariant has not been worked out.

## 5. Plan

Done: the idempotent producer, the assignment, the transaction manager, the
fetcher, the classic consumer group and the share consumer. In order of importance:

1. Proofs: `SoleOwner` of the consumer group, `InPosition` of the fetcher,
   `ReadsOwnCommits` of the assignment under hypotheses that exclude section 6; the
   invariant over sequence numbers that `ImplementsExactlyOnce` and `LogOrder` need.
2. `Cgrp` with KIP-848: heartbeat, target assignment and reconciliation; an
   abstract `AssignmentService` that both `Cgrp` and `Assignment` refer to, with
   the refinement as a property.
3. *Assignment*, second part: messages the application holds back across a
   revocation, manual commits, the STALE_MEMBER_EPOCH deferral, pause/resume,
   the errors of a commit that reach the group.
4. `OpQueue` (forwarding, wakeup), `Timers`, `CoordReq`, `MetadataCache`.
5. `Assignors`: range, round-robin and sticky as operators against a reference;
   the share consumer with changing assignments.

## 6. Disagreements between code and documentation

`V_Leave` is the run that TLC must find violated. A COOPERATIVE consumer that
is closed after the coordinator has made it a member, and before it has been
assigned anything, terminates without a LeaveGroup:
`rd_kafka_cgrp_revoke_all_rejoin()` returns at "terminating, skipping rejoin" and
the rejoin, which would have acted on `LEAVE_ON_UNASSIGN_DONE`, never comes. The
group waits for the session timeout; the manual says that close() leaves the group.

The following were seen with TLC while modelling and are not kept as runs; the
passing runs have the bounds or options that exclude them. The constants
reproduce them.

Producer.
- `rd_kafka_broker_produce_toppars()` passes one copy of the PID to all partitions
  of a round. A message of the first partition times out with nothing in flight, so
  the epoch is bumped at once; the second partition, later in the same round,
  still builds requests with the old PID and, at the limit of the window, leaves
  messages in `rktp_xmit_msgq`. In the next round the new PID makes
  `rd_kafka_toppar_producer_serve()` purge the unsent requests, whose messages go
  back to `rktp_msgq`, and `rd_kafka_toppar_pid_change()` takes the new base from
  the first message that stayed in `rktp_xmit_msgq`. That later message is sent
  as sequence 0 and acknowledged, and the earlier one is implicitly acknowledged
  with it though it was never written (`Partitions = {p1, p2}`,
  `Brokers = {b1}`, `MaxMsgs = 2`, `BatchMax = 1`, `OutbufsMax = 2`, `MaxInflight = 1`,
  `MaxRetries = 2`, `Gapless = FALSE`, `Faults = {"expire"}`, `MaxFaults = 1`:
  `HonestReports`, 28 states). The attempt to prove `DeliveredIsWritten` showed it.
- A partition moves to another leader and back while a reply is handled;
  `producer_serve` has released the lock between filling the transmit queue and
  numbering it, a batch is put back below the new base, and a later
  acknowledgement implicitly reports it as persisted though it never was
  written (`Brokers = {b1, b2}`, `Faults = {"move"}`, `MaxFaults = 2`,
  `MaxMsgs = 3`: `HonestReports`).
- A batch that runs out of retries is failed without `ERR__GAPLESS_GUARANTEE`,
  and later messages are written (`MaxRetries = 1`, `Faults = {"replicas"}`,
  `MaxFaults = 2`, `Gapless = TRUE`: `GaplessOrFatal`).
- `next_ack_seq` can exceed `next_err_seq` against the comment in
  `rdkafka_partition.h`; a wrapped sequence number makes a reply look rewound
  (`rdkafka_request.c:4187`); a message that timed out in the queue keeps
  `POSSIBLY_PERSISTED` against `INTRODUCTION.md`; with two broker threads the
  epoch can be bumped although a partition has gone in flight since the count
  was read (`RenumberWhenDrained`), and a former leader's thread can still be
  handling a result when the new one sends up to the limit (`InflightBound`); a message left `POSSIBLY_PERSISTED` by
  NOT_ENOUGH_REPLICAS_AFTER_APPEND can be renumbered under a new epoch and
  written twice (`Retries` therefore checks the order of first copies, and
  `ImplementsExactlyOnce` is checked where the faults exclude that sequence).

Transaction manager.
- `abort_transaction()` times out and is called again; the EndTxn reply is
  handled between the resumed call's enqueue and its op. The result meant for
  one call is taken by the next, and results stay shifted by one until an
  abort's reply completes a commit and `rd_kafka_txn_set_state()` asserts
  (`TimeoutPhases = {"abort"}`, `MaxTimeouts = 1`, `MaxTxns = 2`, `MaxSends = 0`,
  no faults: `AssertsHold`).
- The reply of AddPartitionsToTxn that arrives in BEGIN_ABORT is taken for
  outdated, so the partition does not count as registered and the abort
  completes without EndTxn; the coordinator's transaction stays open until the
  next one or its timeout (`MaxTxns = 1`, no faults).
- EndTxn(commit) is carried out and its reply is lost with the connection; the
  retry is refused with an error that fails the transaction, the application
  aborts, and EndTxn(abort) is answered UNKNOWN_PRODUCER_ID. The client then
  acquires a new epoch and `abort_transaction()` returns success although the
  transaction is committed (`rdkafka_txnmgr.c:2123`; `Partitions = {p1}`,
  `MaxTxns = 1`, `MaxSends = 0`, no timeouts, `MaxFaults = 3`,
  `Faults = {"disconnect", "perm", "bump"}`: `ToldTheTruth`, 62 states; without
  "bump" it holds). The attempt to prove `AbortIsTrue` showed it.

Assignment.
- Unassigning all partitions of an outstanding OffsetFetch empties `.queried`,
  so a second one is sent when a partition comes back, and the first, stale
  reply decides where it starts (one partition, `LogEnd = 2`, `MaxCalls = 3`,
  `Features = {"others"}`).
- An UNSTABLE_OFFSET_COMMIT reply to a query of an older assignment leaves the
  partition pending at INVALID: it starts at `auto.offset.reset`
  (`Features = {"unstable"}`, `MaxFaults = 1`, `MaxCalls = 3`: `ReadsOwnCommits`).
- A query of an older assignment that fails with `_TRANSPORT` leaves its
  partitions on `.queried` for ever; nothing is queried or signalled any more
  (`MaxCalls = 2`, `Features = {"disconnect"}`, `MaxFaults = 1`:
  `EventuallyServed`). Request-level errors without a partition list do the same.
- A timer commit in retry backoff can overwrite a later commit
  (`AssignmentFaults` has no timer for this reason).

Fetcher, with `OneAtATime = FALSE` (`InPosition`).
- A ListOffsets reply that comes after a seek or stop is still retried by
  `rd_kafka_toppar_offset_retry()`, and the query timer it arms stays armed.
- The reset op of OFFSET_OUT_OF_RANGE carries no version and overrides a seek or
  a stop that was handled before it.
- The seek that follows a detected truncation overrides a seek of the
  application; an OffsetForLeaderEpoch reply is compared with a newer validation
  position than the one it was asked about.
- A late Fetch reply of the old leader moves the fetch position of the new one.
- A reset to the position of the last one leaves `next_fetch_start` equal to
  `last_next_fetch_start` and is not picked up.
- A pause after a reset puts the partition back at the application's position.

Consumer group.
- A metadata update that changes the topics during a change of the assignment
  makes the group rejoin at once, before the fetchers of what it gives up have
  stopped: for a while a partition has two owners, and an EAGER group may keep
  fetching a deleted topic's partition (`SoleOwner` and `Settles` leave these
  `midway` states out). A COOPERATIVE member that is not the leader and loses a
  topic in WAIT_SYNC leaves partitions of that assignment unconsumed until
  the next rebalance.
- `max.poll.interval.ms` runs out in WAIT_SYNC: the member has left, the reply is
  still applied, and with heartbeats suppressed it takes the session timeout to
  recover.
- Three assertions can fail, and the model ends the process where they do (`Abort`;
  the invariant `~c.aborted` shows them). A COOPERATIVE member that has lost its
  member id is not "rebalancing" while it waits for the reply to its JoinGroup, so
  a subscribe() to a topic that is not cached modifies the subscription at once
  and `rd_kafka_cgrp_modify_subscription()` asserts INIT or STEADY in WAIT_JOIN
  (`Starts <- MCCooperative`, `Faults = {"evict"}`, `MaxEvents = 3`). And the
  metadata reply of the assignor is not tied to the join it was asked for: a
  leader whose topics change twice and whose subscription is modified waits for
  metadata of another kind, the assignor runs, and `rd_kafka_cgrp_set_wait_resp()`
  asserts because a JoinGroup is outstanding (`Faults = {"topics"}`,
  `MaxEvents = 4`). Third, the assignment that is to follow a revocation
  (`rkcg_rebalance_incr_assignment`) survives a metadata update that makes a
  COOPERATIVE group rejoin before the revocation is done; a later rebalance may assign
  the same partition, and the next revocation to end assigns it once more:
  `rd_kafka_cgrp_group_assignment_modify()` asserts that it is not yet there (three
  topics, all cached, `Faults = {"topics", "peers"}`, `MaxEvents = 6`).
- Without the outstanding JoinGroup the same reply makes the leader assign for a
  subscription that is no longer its own; when the topics it then knows are the
  ones it knew before it does not join again, and keeps a partition of a deleted
  topic (`InStep` and `Settles` leave these `outdated` states out).

Share consumer.
- A broker is decommissioned while a share op is out on it, and the consumer is
  closed before the reply: `rd_kafka_cgrp_terminate0()` skips the broker
  (`rdkafka_cgrp.c:6443`). If the op fetches, it is still counted when
  `rd_kafka_cgrp_terminated()` asserts that no fetch is in flight; and the reply,
  seen with TERMINATE set, enqueues a leave nobody counted, whose own reply takes
  `share_session_leave_remaining_cnt` below what is outstanding
  (`Overlap = TRUE`: `AssertsHold`; `ShareCommits` has it FALSE).
- A response that acquired offsets but holds no record is dropped by `poll()`
  with the acknowledgements of its gaps (`rdkafka_queue.c:933`): the broker gets
  them back only when the lock expires (the fault "gap").

Not covered by a property or a run: an application that holds back the messages
of an event across a revocation and a new assignment, and so stores the offset of
one in the new assignment (`rdkafka_offset.c:1558`).

## 7. Not modelled

Listed with reasons in `PROJECT.json`: configuration, admin client, transport
with TLS and SASL, telemetry, interceptors, plugins and codecs (no protocol
state of their own), the mock cluster (a test double), and the components of
section 5 that are still to come: the KIP-848 group protocol,
the op queues, timers, the metadata and coordinator caches and the assignors.
