---------------------------- MODULE ShareConsumer ----------------------------
(***************************************************************************)
(* The share consumer (KIP-932): records are acquired from the leaders of  *)
(* the partitions, delivered by poll(), and their acknowledgements go back *)
(* with the next fetch, with commit_async(), commit_sync() or close().     *)
(*                                                                         *)
(* Three kinds of threads work together through queues: the application    *)
(* thread (`app`), the main thread (`main` and the fields of `rkb` that it *)
(* owns: enq, async, pend), which reads `rk_ops`, and one thread per       *)
(* broker (the rest of `rkb`).  A broker has at most one share op out.     *)
(*                                                                         *)
(* A record is <<partition, n>>, the n-th acquired from its partition; an  *)
(* acknowledgement is named by its record.  Error codes are "in_progress", *)
(* "ok" and "err".  The session epoch is -1 (closed), 0 (none yet) or 1    *)
(* (any positive one): whether it is the one the broker expects is         *)
(* `srv.sess`.  The partitions stay assigned until the consumer is closed. *)
(***************************************************************************)
EXTENDS Integers, Sequences, FiniteSets, FiniteSetsExt

CONSTANTS
  Brokers, Partitions, None,
  Starts,      \* where it may start: who leads each partition (leader) and,
               \* a bound, how many records it holds (supply)
  Modes,       \* share.acknowledgement.mode: TRUE is explicit
  MaxCommits,  \* bound: calls of commit_async() and commit_sync()
  Faults,      \* which faults take part, see FaultNames
  MaxFaults,   \* bound: faults
  Overlap      \* may rd_kafka_cgrp_terminate0() find a decommissioned broker
               \* that still has a share op out?

FaultNames ==
  { "disconnect",    \* the connection breaks, or a request on it times out
    "refuse",        \* the broker answers with another top-level error
    "gap",           \* a response acquires only offsets without records
    "move",          \* a partition gets another leader
    "leave" }        \* a broker leaves the cluster, others lead its partitions

ASSUME ShareBounds ==
  /\ MaxCommits \in Nat /\ MaxFaults \in Nat
  /\ Modes \subseteq BOOLEAN /\ Overlap \in BOOLEAN
ASSUME ShareSets ==
  /\ Faults \subseteq FaultNames /\ None \notin Brokers /\ IsFiniteSet(Brokers)
  /\ Starts \subseteq [leader : [Partitions -> Brokers], supply : [Partitions -> Nat]]

VARIABLES
  app,     \* the application thread: its call, rkshare_inflight_acks (map and
           \* the types set so far), rkshare_fetch_more_records_requested
  main,    \* rkcg_share, rkcg_commit_sync_request, the TERMINATE flag
  rkb,     \* the brokers
  rk_ops,  \* ops for the main thread
  rkcg_q,  \* responses for the application
  leader,  \* rktp_leader, as the metadata told last
  srv,     \* external: the cluster
  cb,      \* the outcome passed to the acknowledgement commit callback
  faults   \* faults so far

vars == <<app, main, rkb, rk_ops, rkcg_q, leader, srv, cb, faults>>

(***************************************************************************)
(* State.                                                                  *)
(***************************************************************************)

Records == UNION {{<<p, n>> : n \in 1 .. s.supply[p]} : s \in Starts, p \in Partitions}
ASSUME NoneIsNoResponse == \A ids \in SUBSET Records : ids # None

Codes == {"in_progress", "ok", "err"}
Parts(recs) == {r[1] : r \in recs}

\* `synced`, `result` and `built` are history: the records of the last
\* commit_sync() and its results, and every acknowledgement taken from the map.
App(explicit) ==
  [at |-> "idle", explicit |-> explicit, requested |-> FALSE, map |-> {}, typed |-> {},
   synced |-> {}, result |-> [p \in Partitions |-> "absent"],
   built |-> {}, given |-> {}, commits |-> 0]

NoSync == [id |-> 0, cnt |-> 0, results |-> [p \in Partitions |-> "absent"]]

Main == [more |-> FALSE, fetches |-> 0, leaves |-> 0, terminate |-> FALSE,
         sync |-> NoSync, counter |-> 0]

Broker == [enq |-> FALSE, async |-> {}, pend |-> {}, pendid |-> 0, term |-> FALSE,
           up |-> TRUE, epoch |-> 0, ops |-> <<>>, sent |-> <<>>, resp |-> None]

ShareOp(fetch, leave, sync, acks) ==
  [type |-> "SHARE_FETCH", fetch |-> fetch, leave |-> leave, sync |-> sync,
   acks |-> acks, code |-> [p \in Partitions |-> "in_progress"],
   wire |-> acks, epoch |-> 0, records |-> FALSE, err |-> FALSE]

Init ==
  /\ app \in {App(e) : e \in Modes} /\ main = Main /\ rkb = [b \in Brokers |-> Broker]
  /\ rk_ops = <<>> /\ rkcg_q = <<>>
  /\ \E s \in Starts :
       /\ leader = s.leader
       /\ srv = [leader |-> s.leader, supply |-> s.supply, gone |-> {}, sess |-> [b \in Brokers |-> FALSE],
                 next |-> [p \in Partitions |-> 1],
                 by |-> [r \in Records |-> None], lock |-> [r \in Records |-> "none"]]
  /\ cb = [r \in Records |-> "none"]
  /\ faults = 0

\* A handler of the main thread is a function of the state it may change.
State == [app |-> app, main |-> main, rkb |-> rkb, cb |-> cb]
Becomes(s) ==
  \E t \in {s} : app' = t.app /\ main' = t.main /\ rkb' = t.rkb /\ cb' = t.cb

Fault(f) == f \in Faults /\ faults < MaxFaults /\ faults' = faults + 1

(***************************************************************************)
(* Main thread: acknowledgements and share ops.                            *)
(***************************************************************************)

\* rd_kafka_share_dispatch_ack_callbacks()
DispatchAckCallbacks(s, acks, code) ==
  [s EXCEPT !.cb = [r \in Records |->
     IF r \notin acks THEN @[r] ELSE IF @[r] = "none" THEN code[r[1]] ELSE "twice"]]

AllErr == [p \in Partitions |-> "err"]

\* rd_kafka_share_ack_batch_resolve_leader_or_fail_acks(): the leader the record
\* was acquired from, while it is the leader and stays in the cluster.
Resolves(s, r) == leader[r[1]] = srv.by[r] /\ ~s.rkb[leader[r[1]]].term

\* rd_kafka_share_segregate_acks_by_leader()
SegregateAcks(s, acks) ==
  LET good == {r \in acks : Resolves(s, r)}
      t == DispatchAckCallbacks(s, acks \ good, AllErr)
  IN [t EXCEPT !.rkb = [b \in Brokers |->
        [s.rkb[b] EXCEPT !.async = @ \cup {r \in good : srv.by[r] = b}]]]

\* Mutant: the acknowledgements stay in the cache.
EnqueueFetchOps_KeepsCache(s, to, selected, leave) ==
  [s EXCEPT
     !.rkb = [b \in Brokers |-> IF b \notin to THEN s.rkb[b]
        ELSE [s.rkb[b] EXCEPT !.enq = TRUE,
                !.ops = Append(@, ShareOp(b = selected, leave, 0, s.rkb[b].async))]],
     !.main.fetches = IF selected \in to THEN @ + 1 ELSE @]

\* rd_kafka_share_enqueue_fetch_op() for each broker of `to`: takes the cached
\* acknowledgements along; the selected broker is asked for records.
EnqueueFetchOps(s, to, selected, leave) ==
  [s EXCEPT
     !.rkb = [b \in Brokers |-> IF b \notin to THEN s.rkb[b]
        ELSE [s.rkb[b] EXCEPT !.enq = TRUE, !.async = {},
                !.ops = Append(@, ShareOp(b = selected, leave, 0, s.rkb[b].async))]],
     !.main.fetches = IF selected \in to THEN @ + 1 ELSE @]

\* rd_kafka_share_enqueue_sync_ack_op() for each broker of `to`
EnqueueSyncAckOps(s, to) ==
  [s EXCEPT !.rkb = [b \in Brokers |-> IF b \notin to THEN s.rkb[b]
     ELSE [s.rkb[b] EXCEPT !.enq = TRUE, !.pend = {}, !.pendid = 0,
             !.ops = Append(@, ShareOp(FALSE, FALSE, s.rkb[b].pendid, s.rkb[b].pend))]]]

\* Mutant: without the test of rkb_share_fetch_enqueued.
SegregateAndDispatch_Busy(s, acks, selected) ==
  LET t == SegregateAcks(s, acks) IN
  EnqueueFetchOps(t, {b \in Brokers : ~t.rkb[b].term /\ (t.rkb[b].async # {} \/ b = selected)},
                  selected, FALSE)

\* rd_kafka_share_segregate_and_dispatch_acks()
SegregateAndDispatch(s, acks, selected) ==
  LET t == SegregateAcks(s, acks) IN
  EnqueueFetchOps(t, {b \in Brokers : /\ ~t.rkb[b].term /\ ~t.rkb[b].enq
                                      /\ t.rkb[b].async # {} \/ b = selected},
                  selected, FALSE)

\* rd_kafka_share_select_broker(): one of the leaders that can be asked now,
\* or None.  The round robin over the partitions is left open.
Selectable(s) ==
  {b \in {leader[p] : p \in Partitions} :
     ~s.rkb[b].term /\ ~s.rkb[b].enq /\ s.rkb[b].up}
SelectBroker(s) == IF Selectable(s) = {} THEN {None} ELSE Selectable(s)

(***************************************************************************)
(* Main thread: commit_sync().                                             *)
(***************************************************************************)

\* rd_kafka_share_commit_sync_send_response(): the application, which waits for
\* nothing else, returns from its call with it.
SendResponse(s) ==
  [s EXCEPT !.app.at = "idle", !.app.result = s.main.sync.results, !.main.sync = NoSync]

\* rd_kafka_share_commit_sync_apply_result()
ApplyResult(s, acks, code) ==
  LET t == [s EXCEPT !.main.sync.cnt = @ - 1,
              !.main.sync.results = [p \in Partitions |->
                 IF p \in Parts(acks) /\ @[p] # "absent" THEN code[p] ELSE @[p]]]
  IN IF t.main.sync.cnt > 0 THEN t ELSE SendResponse(t)

\* rd_kafka_share_segregate_sync_acks_by_leader()
SegregateSyncAcks(s, acks) ==
  LET good == {r \in acks : Resolves(s, r)}
      t == DispatchAckCallbacks(s, acks \ good, AllErr)
  IN [t EXCEPT
       !.main.sync.results = [p \in Partitions |->
          IF p \in Parts(acks \ good) THEN "err" ELSE s.main.sync.results[p]],
       !.rkb = [b \in Brokers |->
          LET mine == {r \in good : srv.by[r] = b} IN
          IF mine = {} THEN s.rkb[b]
          ELSE [s.rkb[b] EXCEPT !.pend = @ \cup mine, !.pendid = s.main.sync.id]]]

\* rd_kafka_share_dispatch_pending_sync_acks()
DispatchPendingSyncAcks(s) ==
  LET pending == {b \in Brokers : s.rkb[b].pend # {}}
      free == {b \in pending : ~s.rkb[b].enq /\ ~s.rkb[b].term}
  IN EnqueueSyncAckOps([s EXCEPT !.main.sync.cnt = @ + Cardinality(pending)], free)

\* rd_kafka_share_commit_sync_fanout_op()
CommitSyncFanout(s, acks) ==
  LET id == s.main.counter + 1
      t == [s EXCEPT !.main.counter = id,
              !.main.sync = [id |-> id, cnt |-> 0, results |->
                 [p \in Partitions |-> IF p \in Parts(acks) THEN "in_progress" ELSE "absent"]]]
      u == DispatchPendingSyncAcks(SegregateSyncAcks(t, acks))
  IN IF u.main.sync.cnt = 0 THEN SendResponse(u) ELSE u

\* rd_kafka_share_commit_sync_timeout_cb(), of the timer that runs as long as
\* the request: what was not sent yet is left to the asynchronous path.
CommitSyncTimeout ==
  /\ main.sync.id # 0
  /\ Becomes(SendResponse([State EXCEPT
       !.rkb = [b \in Brokers |->
          [rkb[b] EXCEPT !.async = @ \cup rkb[b].pend, !.pend = {},
                         !.pendid = IF rkb[b].pend = {} THEN @ ELSE 0]],
       !.main.sync.results = [p \in Partitions |->
          IF @[p] = "in_progress" THEN "err" ELSE @[p]]]))
  /\ UNCHANGED <<rk_ops, rkcg_q, leader, srv, faults>>

(***************************************************************************)
(* Main thread: the ops of rk_ops.                                         *)
(***************************************************************************)

\* rd_kafka_share_fetch_fanout_op()
FetchFanout(s, op, selected) ==
  LET t == IF op.more THEN [s EXCEPT !.main.more = TRUE] ELSE s IN
  IF selected = None /\ op.acks = {} THEN t
  ELSE SegregateAndDispatch(t, op.acks, selected)
FetchFanoutOp(op) ==
  LET select == op.more /\ (~main.more \/ main.fetches = 0) IN
  /\ op.type = "FETCH_FANOUT"
  /\ \E b \in IF select THEN SelectBroker(State) ELSE {None} :
       Becomes(FetchFanout(State, op, b))

\* rd_kafka_share_commit_async_fanout_op()
CommitAsyncFanoutOp(op) ==
  /\ op.type = "COMMIT_ASYNC_FANOUT"
  /\ Becomes(SegregateAndDispatch(State, op.acks, None))

CommitSyncFanoutOp(op) ==
  /\ op.type = "COMMIT_SYNC_FANOUT"
  /\ Becomes(CommitSyncFanout(State, op.acks))

\* Mutant: every reply to a fetch ends the request.
StillWanted_AnyReply(more, op) == more /\ ~op.fetch

\* Step 2 of rd_kafka_share_fetch_reply_op(): does the application still wait
\* for records?
StillWanted(more, op) == more /\ ~op.records

\* Mutant: a late reply to an earlier commit_sync() counts for the current one.
OfCurrentSync_Any(s, op) == op.sync # 0 /\ s.main.sync.id # 0

\* Step 4: does it answer the commit_sync() that is under way?
OfCurrentSync(s, op) == op.sync # 0 /\ op.sync = s.main.sync.id

\* rd_kafka_share_fetch_reply_op(), up to step 4: the callbacks, the counters
\* and the result of commit_sync().
ReplyReceived(s, b, op) ==
  LET code == [p \in Partitions |->
                 IF op.err /\ op.code[p] = "in_progress" THEN "err" ELSE op.code[p]]
      t == DispatchAckCallbacks(
             [s EXCEPT !.rkb[b].enq = FALSE,
                       !.main.fetches = IF op.fetch THEN @ - 1 ELSE @,
                       !.main.leaves = IF op.leave THEN @ - 1 ELSE @,
                       !.main.more = StillWanted(@, op)],
             op.acks, code)
  IN IF ~op.leave /\ ~s.main.terminate /\ OfCurrentSync(s, op)
     THEN ApplyResult(t, op.acks, code) ELSE t

\* Its steps 5 to 7: the broker is free again.  What waited for it is sent, a
\* fetch without records goes to another broker.
DispatchPending(s, b) ==
  IF ~s.rkb[b].term /\ s.rkb[b].pend # {} THEN EnqueueSyncAckOps(s, {b}) ELSE s

\* Mutant: without step 7.
ReplyContinues_NoFlush(s, b, selected) ==
  LET sync == DispatchPending(s, b) IN
  IF selected # None THEN EnqueueFetchOps(sync, {selected}, selected, FALSE) ELSE sync

ReplyContinues(s, b, selected) ==
  LET sync == DispatchPending(s, b)
      fetch == IF selected # None THEN EnqueueFetchOps(sync, {selected}, selected, FALSE) ELSE sync
  IN IF fetch.rkb[b].async # {} /\ ~fetch.rkb[b].enq /\ ~fetch.rkb[b].term
     THEN EnqueueFetchOps(fetch, {b}, None, FALSE) ELSE fetch

ShareFetchReplyOp(op) ==
  LET b == op.broker
      s == ReplyReceived(State, b, op.op)
      again == op.op.fetch /\ ~op.op.records /\ s.main.more
  IN /\ op.type = "REPLY"
     /\ \/ op.op.leave /\ Becomes(s)
        \/ /\ ~op.op.leave /\ main.terminate
           /\ Becomes(EnqueueFetchOps(s, {b}, None, TRUE))
        \/ /\ ~op.op.leave /\ ~main.terminate
           /\ \E n \in IF again THEN SelectBroker(DispatchPending(s, b)) ELSE {None} :
                Becomes(ReplyContinues(s, b, n))

\* rd_kafka_cgrp_terminate0() for a share consumer: the session with every
\* broker is left, at once or when its op is back.
TerminateOp(op) ==
  LET s == SegregateAcks([State EXCEPT !.main.terminate = TRUE], op.acks)
      live == {b \in Brokers : ~s.rkb[b].term}
  IN /\ op.type = "TERMINATE"
     /\ Becomes(EnqueueFetchOps([s EXCEPT !.main.leaves = Cardinality(live)],
                                {b \in live : ~s.rkb[b].enq}, None, TRUE))

MainServe ==
  /\ rk_ops # <<>>
  /\ LET op == Head(rk_ops) IN
       \/ FetchFanoutOp(op) \/ CommitAsyncFanoutOp(op) \/ CommitSyncFanoutOp(op)
       \/ ShareFetchReplyOp(op) \/ TerminateOp(op)
  /\ rk_ops' = Tail(rk_ops)
  /\ UNCHANGED <<rkcg_q, leader, srv, faults>>

\* The main loop: a fetch that was asked for and is with no broker.
Retrigger ==
  /\ ~main.terminate /\ main.more /\ main.fetches = 0
  /\ \E b \in Selectable(State) : Becomes(EnqueueFetchOps(State, {b}, b, FALSE))
  /\ UNCHANGED <<rk_ops, rkcg_q, leader, srv, faults>>

\* Mutant: does not wait for the sessions to be left.
TryTerminate_NoLeaves ==
  /\ main.terminate /\ app.at = "close"
  /\ app' = [app EXCEPT !.at = "closed"]
  /\ UNCHANGED <<main, rkb, rk_ops, rkcg_q, leader, srv, cb, faults>>

\* rd_kafka_cgrp_try_terminate(): close() returns.
TryTerminate ==
  /\ main.terminate /\ app.at = "close" /\ main.leaves = 0
  /\ app' = [app EXCEPT !.at = "closed"]
  /\ UNCHANGED <<main, rkb, rk_ops, rkcg_q, leader, srv, cb, faults>>

\* rd_kafka_broker_decommission() of a broker that the Metadata names no more.
Decommission(b) ==
  /\ b \in srv.gone /\ ~rkb[b].term
  /\ Overlap \/ ~rkb[b].enq \/ app.at # "close" \/ main.terminate
  /\ LET s == DispatchAckCallbacks(State, rkb[b].async, AllErr)
         t == IF rkb[b].pend = {} THEN s
              ELSE DispatchAckCallbacks(ApplyResult(s, rkb[b].pend, AllErr), rkb[b].pend, AllErr)
     IN Becomes([t EXCEPT !.rkb[b].term = TRUE, !.rkb[b].async = {}, !.rkb[b].pend = {},
                          !.rkb[b].ops = Append(@, [type |-> "TERMINATE"])])
  /\ UNCHANGED <<rk_ops, rkcg_q, leader, srv, faults>>

\* A Metadata response that names the new leaders of the topic.
MetadataUpdate ==
  /\ leader # srv.leader
  /\ leader' = srv.leader
  /\ UNCHANGED <<app, main, rkb, rk_ops, rkcg_q, srv, cb, faults>>

(***************************************************************************)
(* Broker thread.                                                          *)
(***************************************************************************)

\* rd_kafka_share_fetch_op_reply_and_update_ack_details_with_err()
OpReply(b, op, err) ==
  [type |-> "REPLY", broker |-> b, op |->
     [op EXCEPT !.err = err, !.wire = {}, !.epoch = 0, !.code = [p \in Partitions |->
        IF err /\ @[p] = "in_progress" THEN "err" ELSE @[p]]]]

FailAll(b, ops) == [i \in DOMAIN ops |-> OpReply(b, ops[i], TRUE)]

\* rd_kafka_broker_share_fetch_session_leave() and rd_kafka_broker_share_rpc():
\* the request for op, or None when the op is answered at once.
Request(k, op) ==
  IF op.leave THEN IF k.epoch > 0 THEN op ELSE None
  ELSE IF op.fetch
       THEN IF k.epoch # 0 \/ op.acks = {} THEN op
            ELSE [op EXCEPT !.wire = {}, !.code = [p \in Partitions |->
                    IF p \in Parts(op.acks) THEN "err" ELSE @[p]]]
       ELSE IF op.acks = {} \/ k.epoch = 0 THEN None ELSE op

\* rd_kafka_broker_op_serve()
BrokerServe(b) ==
  /\ rkb[b].ops # <<>> /\ rkb[b].resp = None
  /\ LET k == [rkb[b] EXCEPT !.ops = Tail(@)]
         op == Head(rkb[b].ops)
         left == IF op.type = "SHARE_FETCH" /\ op.leave THEN [k EXCEPT !.epoch = -1] ELSE k
     IN \/ /\ op.type = "TERMINATE"
           /\ rkb' = [rkb EXCEPT ![b] = [k EXCEPT !.epoch = -1, !.up = FALSE, !.sent = <<>>]]
           /\ rk_ops' = rk_ops \o FailAll(b, k.sent)
        \/ /\ op.type = "SHARE_FETCH" /\ (k.term \/ ~k.up)
           /\ rkb' = [rkb EXCEPT ![b] = k]
           /\ rk_ops' = Append(rk_ops, OpReply(b, op, TRUE))
        \/ /\ op.type = "SHARE_FETCH" /\ ~k.term /\ k.up
           /\ LET req == Request(k, op) IN
              \/ /\ req = None
                 /\ rkb' = [rkb EXCEPT ![b] = left]
                 /\ rk_ops' = Append(rk_ops, OpReply(b, op, TRUE))
              \/ /\ req # None
                 /\ rkb' = [rkb EXCEPT ![b] = [left EXCEPT !.sent =
                              Append(@, [req EXCEPT !.epoch = left.epoch])]]
                 /\ UNCHANGED rk_ops
  /\ UNCHANGED <<app, main, rkcg_q, leader, srv, cb, faults>>

(***************************************************************************)
(* External: what the brokers do with a request.                           *)
(***************************************************************************)

Session(b, req) == req.epoch = 0 \/ srv.sess[b]

\* A partition's acknowledgements succeed or fail together.
Accepted(b, req) ==
  {p \in Parts(req.wire) : /\ srv.leader[p] = b
                           /\ \A r \in req.wire : r[1] = p => srv.lock[r] = "acquired"}
Acknowledged(b, req) ==
  [r \in Records |-> IF r \in req.wire /\ r[1] \in Accepted(b, req) THEN "done" ELSE srv.lock[r]]

\* How far a fetch may take each partition, and the records it then acquires.
Reach(b, req) ==
  {f \in [Partitions -> 1 .. Max({srv.supply[p] + 1 : p \in Partitions})] :
     \A p \in Partitions :
       \/ f[p] = srv.next[p]
       \/ /\ req.fetch /\ srv.leader[p] = b
          /\ f[p] \in srv.next[p] .. srv.supply[p] + 1}
Acquired(f) == {r \in Records : r[2] \in srv.next[r[1]] .. f[r[1]] - 1}

(***************************************************************************)
(* Broker thread: responses.                                               *)
(***************************************************************************)

\* rd_kafka_broker_session_update() and rd_kafka_broker_session_reset(); a
\* session that was left stays closed.
NextEpoch(epoch, req, reset) ==
  IF req.leave THEN -1 ELSE IF reset THEN 0 ELSE IF epoch = -1 THEN -1 ELSE 1

\* rd_kafka_share_acknowledge_reply_handle() and its like for a fetch: what the
\* response says of a partition, or INVALID_RECORD_STATE when it says nothing.
AckCodes(b, req) ==
  [p \in Partitions |->
     IF p \notin Parts(req.acks) \/ req.code[p] # "in_progress" THEN req.code[p]
     ELSE IF p \in Accepted(b, req) THEN "ok" ELSE "err"]

\* rd_kafka_broker_share_fetch_reply() and rd_kafka_broker_share_acknowledge_reply()
\* of a request the broker carried out: the main thread gets the reply before
\* the application may see the records (RespEnqueue).
Succeeded(b) ==
  LET req == Head(rkb[b].sent) IN
  /\ Session(b, req)
  /\ \E f \in Reach(b, req), records \in BOOLEAN :
     /\ \/ records = (Acquired(f) # {}) /\ UNCHANGED faults
        \/ Acquired(f) = {} /\ req.fetch /\ records /\ Fault("gap")
     /\ srv' = [srv EXCEPT
          !.sess[b] = req.epoch # -1, !.next = f,
          !.lock = [r \in Records |-> IF r \in Acquired(f) THEN "acquired"
                                      ELSE Acknowledged(b, req)[r]],
          !.by = [r \in Records |-> IF r \in Acquired(f) THEN b ELSE @[r]]]
     /\ rkb' = [rkb EXCEPT ![b].sent = Tail(@), ![b].epoch = NextEpoch(@, req, FALSE),
                           ![b].resp = IF records THEN Acquired(f) ELSE None]
     /\ rk_ops' = Append(rk_ops,
          OpReply(b, [req EXCEPT !.code = AckCodes(b, req), !.records = records], FALSE))

\* The same of a top-level error.
Refused(b) ==
  LET req == Head(rkb[b].sent) IN
  /\ \/ ~Session(b, req) /\ UNCHANGED faults
     \/ Session(b, req) /\ Fault("refuse")
  /\ rkb' = [rkb EXCEPT ![b].sent = Tail(@),
                        ![b].epoch = NextEpoch(@, req, ~Session(b, req))]
  /\ rk_ops' = Append(rk_ops, OpReply(b, req, TRUE))
  /\ UNCHANGED srv

Receive(b) ==
  /\ rkb[b].sent # <<>> /\ rkb[b].resp = None
  /\ Succeeded(b) \/ Refused(b)
  /\ UNCHANGED <<app, main, rkcg_q, leader, cb>>

RespEnqueue(b) ==
  /\ rkb[b].resp # None
  /\ rkcg_q' = Append(rkcg_q, rkb[b].resp)
  /\ rkb' = [rkb EXCEPT ![b].resp = None]
  /\ UNCHANGED <<app, main, rk_ops, leader, srv, cb, faults>>

\* The connection breaks or the request times out: the broker has carried the
\* request out or not, and drops the session, its locks now or later.
Disconnect(b) ==
  /\ Fault("disconnect") /\ rkb[b].up /\ rkb[b].resp = None
  /\ \E done, release \in BOOLEAN :
       LET lock == IF done /\ rkb[b].sent # <<>> /\ Session(b, Head(rkb[b].sent))
                   THEN Acknowledged(b, Head(rkb[b].sent)) ELSE srv.lock
       IN srv' = [srv EXCEPT !.sess[b] = FALSE, !.lock = [r \in Records |->
                    IF release /\ srv.by[r] = b /\ lock[r] = "acquired" THEN "gone" ELSE lock[r]]]
  /\ rkb' = [rkb EXCEPT ![b].up = FALSE, ![b].sent = <<>>, ![b].epoch =
               IF rkb[b].sent = <<>> THEN @ ELSE NextEpoch(@, Head(rkb[b].sent), TRUE)]
  /\ rk_ops' = rk_ops \o FailAll(b, rkb[b].sent)
  /\ UNCHANGED <<app, main, rkcg_q, leader, cb>>

Connect(b) ==
  /\ ~rkb[b].up /\ ~rkb[b].term
  /\ rkb' = [rkb EXCEPT ![b].up = TRUE]
  /\ UNCHANGED <<app, main, rk_ops, rkcg_q, leader, srv, cb, faults>>

\* External: faults of the cluster.
ClusterFault ==
  /\ \/ \E p \in Partitions, b \in Brokers \ srv.gone :
          /\ Fault("move") /\ srv.leader[p] # b
          /\ srv' = [srv EXCEPT !.leader[p] = b]
     \/ \E b, c \in Brokers \ srv.gone :
          /\ Fault("leave") /\ b # c
          /\ srv' = [srv EXCEPT !.gone = @ \cup {b}, !.sess[b] = FALSE,
               !.leader = [p \in Partitions |-> IF @[p] = b THEN c ELSE @[p]]]
  /\ UNCHANGED <<app, main, rkb, rk_ops, rkcg_q, leader, cb>>

(***************************************************************************)
(* Application thread.                                                     *)
(***************************************************************************)

\* rd_kafka_share_ack_all() in implicit mode, and then
\* rd_kafka_share_build_ack_details(): what is acknowledged leaves the map.
AckDetails == IF app.explicit THEN app.typed ELSE app.map
Build(at, acks) ==
  [app EXCEPT !.at = at, !.map = @ \ acks, !.typed = {}, !.built = @ \cup acks,
              !.synced = {}, !.result = [p \in Partitions |-> "absent"]]

\* rd_kafka_share_acknowledge() and its variants
Acknowledge(r) ==
  /\ app.explicit /\ app.at = "idle" /\ r \in app.map \ app.typed
  /\ app' = [app EXCEPT !.typed = @ \cup {r}]
  /\ UNCHANGED <<main, rkb, rk_ops, rkcg_q, leader, srv, cb, faults>>

\* rd_kafka_share_ensure_all_acknowledged_if_explicit()
AllAcknowledged == app.explicit => app.map = app.typed

\* rd_kafka_share_poll(), up to its wait
Poll ==
  LET more == rkcg_q = <<>> /\ ~app.requested IN
  /\ app.at = "idle" /\ AllAcknowledged
  /\ app' = [Build("poll", AckDetails) EXCEPT !.requested = @ \/ more]
  /\ rk_ops' = IF ~more /\ AckDetails = {} THEN rk_ops
               ELSE Append(rk_ops, [type |-> "FETCH_FANOUT", more |-> more, acks |-> AckDetails])
  /\ UNCHANGED <<main, rkb, rkcg_q, leader, srv, cb, faults>>

\* rd_kafka_q_serve_share_rkmessages(): the first response, or none in time.
\* The records of a partition replace those it has in the map
\* (rd_kafka_share_build_inflight_acks_map()).
PollReturn ==
  /\ app.at = "poll"
  /\ \/ /\ rkcg_q = <<>>
        /\ app' = [app EXCEPT !.at = "idle"]
        /\ UNCHANGED rkcg_q
     \/ /\ rkcg_q # <<>>
        /\ LET ids == Head(rkcg_q)
               kept == {r \in app.map : r[1] \notin Parts(ids)}
           IN app' = [app EXCEPT !.at = "idle", !.requested = FALSE, !.given = @ \cup ids,
                                 !.map = kept \cup ids, !.typed = @ \cap kept]
        /\ rkcg_q' = Tail(rkcg_q)
  /\ UNCHANGED <<main, rkb, rk_ops, leader, srv, cb, faults>>

\* rd_kafka_share_commit_async()
CommitAsync ==
  /\ app.at = "idle" /\ AckDetails # {} /\ app.commits < MaxCommits
  /\ app' = [Build("idle", AckDetails) EXCEPT !.commits = @ + 1]
  /\ rk_ops' = Append(rk_ops, [type |-> "COMMIT_ASYNC_FANOUT", acks |-> AckDetails])
  /\ UNCHANGED <<main, rkb, rkcg_q, leader, srv, cb, faults>>

\* rd_kafka_share_commit_sync(): waits for SendResponse.
CommitSync ==
  /\ app.at = "idle" /\ AckDetails # {} /\ app.commits < MaxCommits
  /\ app' = [Build("sync", AckDetails) EXCEPT !.commits = @ + 1, !.synced = AckDetails]
  /\ rk_ops' = Append(rk_ops, [type |-> "COMMIT_SYNC_FANOUT", acks |-> AckDetails])
  /\ UNCHANGED <<main, rkb, rkcg_q, leader, srv, cb, faults>>

\* rd_kafka_share_consumer_close() and rd_kafka_cgrp_terminate(): what was not
\* acknowledged goes back to the brokers with the session.
Close ==
  /\ app.at = "idle"
  /\ Overlap \/ \A b \in Brokers : rkb[b].term => ~rkb[b].enq
  /\ app' = [Build("close", app.typed) EXCEPT !.map = {}]
  /\ rk_ops' = Append(rk_ops, [type |-> "TERMINATE", acks |-> app.typed])
  /\ UNCHANGED <<main, rkb, rkcg_q, leader, srv, cb, faults>>

(***************************************************************************)
(* Specification.                                                          *)
(***************************************************************************)

Application ==
  \/ Poll \/ PollReturn \/ CommitAsync \/ CommitSync \/ Close
  \/ \E r \in Records : Acknowledge(r)

MainThread ==
  \/ MainServe \/ Retrigger \/ CommitSyncTimeout \/ TryTerminate \/ MetadataUpdate
  \/ \E b \in Brokers : Decommission(b)

BrokerThread(b) ==
  \/ BrokerServe(b) \/ Receive(b) \/ RespEnqueue(b) \/ Disconnect(b) \/ Connect(b)

Next == Application \/ MainThread \/ ClusterFault \/ \E b \in Brokers : BrokerThread(b)

Spec == Init /\ [][Next]_vars

\* The threads run, a broker answers what it receives, and can be reached
\* again.  The application need not call anything, and no timer need fire.
Fairness ==
  /\ WF_vars(MainServe \/ TryTerminate)
  /\ \A b \in Brokers : WF_vars(BrokerServe(b) \/ Receive(b) \/ RespEnqueue(b))

FairSpec == Spec /\ Fairness

(***************************************************************************)
(* Properties.                                                             *)
(***************************************************************************)

Ops(q) == {i \in DOMAIN q : q[i].type = "SHARE_FETCH"}
Replies(b) == {i \in DOMAIN rk_ops : rk_ops[i].type = "REPLY" /\ rk_ops[i].broker = b}

\* The share ops that broker b has out, the replies under way included.
Out(b) ==
  {<<"ops", rkb[b].ops[i], i>> : i \in Ops(rkb[b].ops)} \cup
  {<<"sent", rkb[b].sent[i], i>> : i \in Ops(rkb[b].sent)} \cup
  {<<"reply", rk_ops[i].op, i>> : i \in Replies(b)}

\* The types, and the counters within the ranges their use presumes: one
\* fetch for the application at a time, never more leaves than brokers.
TypeOK ==
  /\ app.at \in {"idle", "poll", "sync", "close", "closed"}
  /\ app.typed \subseteq app.map /\ app.map \subseteq Records
  /\ main.fetches \in 0 .. 1 /\ main.leaves \in 0 .. Cardinality(Brokers)
  /\ main.sync.cnt \in 0 .. Cardinality(Brokers)
  /\ \A b \in Brokers :
       /\ rkb[b].epoch \in -1 .. 1
       /\ rkb[b].async \subseteq Records /\ rkb[b].pend \subseteq Records
  /\ cb \in [Records -> {"none", "ok", "err"}]
  /\ faults \in 0 .. MaxFaults

\* A broker has a share op out exactly while rkb_share_fetch_enqueued says so,
\* and never a second one: the broker thread keeps one session epoch.  At most
\* one of them fetches for the application, and it is the one counted.
OneOpPerBroker ==
  /\ \A b \in Brokers : Cardinality(Out(b)) = IF rkb[b].enq THEN 1 ELSE 0
  /\ main.fetches = Cardinality({b \in Brokers : \E o \in Out(b) : o[2].fetch})

\* The assertions of rd_kafka_cgrp_terminate0() and rd_kafka_cgrp_terminated():
\* nothing of a commit_sync() is left when the consumer is closed, and it ends
\* with every session left, no share op out and no acknowledgement cached.
\* The counters stay within the ranges that these assertions presume.
AssertsHold ==
  /\ TypeOK
  /\ main.terminate => \A b \in Brokers : rkb[b].pend = {}
  /\ app.at = "closed" =>
       /\ main.fetches = 0 /\ main.leaves = 0
       /\ \A b \in Brokers : ~rkb[b].enq /\ rkb[b].async = {}

\* An acknowledgement the application has given is at every moment in exactly
\* one place on its way, or its outcome was passed to the callback, once: none
\* is lost and none is sent twice, whatever fails on the way.  A record that was
\* delivered stays in the map until then: a later response never displaces it.
Places(r) ==
  {<<"ops", i>> : i \in {j \in DOMAIN rk_ops : rk_ops[j].type # "REPLY" /\ r \in rk_ops[j].acks}}
  \cup {<<"async", b>> : b \in {c \in Brokers : r \in rkb[c].async}}
  \cup {<<"pend", b>> : b \in {c \in Brokers : r \in rkb[c].pend}}
  \cup (UNION {{<<b, o>> : o \in {x \in Out(b) : r \in x[2].acks}} : b \in Brokers})
AckConservation ==
  \A r \in Records :
    /\ Cardinality(Places(r)) = IF r \in app.built /\ cb[r] = "none" THEN 1 ELSE 0
    /\ cb[r] # "twice"
    /\ r \in app.given /\ app.at \notin {"close", "closed"} => r \in app.map \cup app.built

\* A record reported acknowledged, by the callback or by commit_sync(), is
\* acknowledged at the broker, also when the session was lost in between, and
\* commit_sync() never returns a partition without its result.
ToldTheTruth ==
  /\ \A r \in Records : cb[r] = "ok" => srv.lock[r] = "done"
  /\ \A r \in app.synced : app.result[r[1]] = "ok" => srv.lock[r] = "done"
  /\ \A p \in Partitions : app.result[p] # "in_progress"

\* While the application believes that records are on their way to it, which
\* keeps poll() from asking for any, they are: the request is in the queue, is
\* remembered by the main thread, or its response is coming.
RequestAlive ==
  app.requested /\ ~main.terminate /\ app.at \notin {"close", "closed"} =>
    \/ main.more
    \/ \E i \in DOMAIN rk_ops : rk_ops[i].type = "FETCH_FANOUT" /\ rk_ops[i].more
    \/ rkcg_q # <<>>
    \/ \E b \in Brokers : rkb[b].resp # None

\* commit_sync() and close() return, and every acknowledgement given is
\* reported, also when brokers are lost, leave, or refuse.
Settles ==
  []<>(app.at \notin {"sync", "close"} /\ \A r \in app.built : cb[r] # "none")

=============================================================================
