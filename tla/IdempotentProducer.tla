------------------------- MODULE IdempotentProducer -------------------------
(***************************************************************************)
(* The idempotent (not transactional) producer of librdkafka: the queues   *)
(* of each partition, the broker threads that build ProduceRequests from   *)
(* them and handle the replies, the producer-id state machine, and the     *)
(* recovery from failed requests: draining, retrying in order, bumping the *)
(* epoch.                                                                  *)
(*                                                                         *)
(* Threads.  Each broker has one thread (th[b]); a thread runs one step of *)
(* its loop at a time and the steps of different threads interleave.  A    *)
(* step is a section of code between two points where another thread can   *)
(* see or change shared state: a lock taken or released, an atomic         *)
(* counter read or updated.                                                *)
(*                                                                         *)
(* Queues are always sorted by message id (rkt_conf.msg_order_cmp), so     *)
(* they are sets of ids here.                                              *)
(***************************************************************************)
EXTENDS PartitionLog, FiniteSetsExt

CONSTANTS
  Partitions,   \* the partitions (toppars) the application produces to
  Brokers,      \* the brokers, one client thread each
  None,         \* no broker
  MaxMsgs,      \* bound: messages produced per partition
  MaxRetries,   \* message.send.max.retries
  BatchMax,     \* batch.num.messages
  OutbufsMax,   \* queue.buffering.backpressure.threshold
  MaxInflight,  \* RD_KAFKA_IDEMP_MAX_INFLIGHT
  EpochSpace,   \* producer epochs wrap at this value: 2^15 in the protocol
  Gapless,      \* enable.gapless.guarantee
  Faults,       \* the kinds of fault that may happen
  MaxFaults     \* bound: faults in a behaviour

ASSUME BoundsAssumption ==
  /\ MaxMsgs \in Nat /\ MaxRetries \in Nat /\ MaxFaults \in Nat
  /\ BatchMax \in Nat \ {0} /\ OutbufsMax \in Nat \ {0}
  /\ MaxInflight \in Nat \ {0} /\ EpochSpace \in Nat \ {0}
  /\ Gapless \in BOOLEAN
ASSUME BrokersAssumption == None \notin Brokers

MsgIds == 1 .. MaxMsgs

VARIABLES
  rk,             \* client instance: idempotence state, pid, in-flight partitions, fatal error
  rktp_msgid,     \* per partition: id of the last message produced
  rkm,            \* per partition and message: retries, last_msgid, status, delivery report
  msgq,           \* per partition: rktp_msgq, filled by the application and by retries
  xmit_msgq,      \* per partition: rktp_xmit_msgq, owned by the broker thread
  msgs_inflight,  \* per partition: rktp_msgs_inflight
  eos,            \* per partition: rktp_eos
  rktp_broker,    \* per partition: the broker whose thread serves it
  next_broker,    \* per partition: the broker it migrates to
  th,             \* per broker thread: where it is in its loop, and its locals
  hand,           \* per broker thread: the request whose result is being handled
  outbufs,        \* per broker: requests not sent yet
  waitresps,      \* per broker: requests sent, in order, with the reply on its way
  up,             \* per broker: connected
  purge_op,       \* per broker: a PURGE op is queued
  leader,         \* the cluster: leader of each partition
  plog,           \* the cluster: the partitions
  stale,          \* the cluster: requests of a lost connection it may still handle
  expired,        \* per partition: messages up to this id are past message.timeout.ms
  faults          \* number of faults so far

toppar_vars == <<rktp_msgid, rkm, msgq, xmit_msgq, msgs_inflight, eos>>
place_vars  == <<rktp_broker, next_broker>>
thread_vars == <<th, hand>>
buf_vars    == <<outbufs, waitresps, up>>
kafka_vars  == <<leader, plog, stale>>
vars == <<rk, toppar_vars, place_vars, thread_vars, buf_vars, purge_op,
          kafka_vars, expired, faults>>

IdempStates == {"REQ_PID", "WAIT_TRANSPORT", "WAIT_PID", "ASSIGNED",
                "DRAIN_RESET", "DRAIN_BUMP", "FATAL_ERROR"}
Statuses    == {"NOT_PERSISTED", "POSSIBLY_PERSISTED", "PERSISTED"}
ReplyCodes  == {"OK", "NOT_LEADER_FOR_PARTITION", "NOT_ENOUGH_REPLICAS",
                "NOT_ENOUGH_REPLICAS_AFTER_APPEND", "MSG_SIZE_TOO_LARGE",
                "OUT_OF_ORDER_SEQUENCE_NUMBER", "DUPLICATE_SEQUENCE_NUMBER",
                "UNKNOWN_PRODUCER_ID", "INVALID_PRODUCER_EPOCH"}
LocalErrs   == {"_TRANSPORT", "_RETRY", "_PURGE_QUEUE"}
NoReply     == "none"

NoReq == [tp |-> None, pid |-> NoPid, first_seq |-> 0, msgs |-> {}, resp |-> NoReply]
NoHand == [phase |-> "none", req |-> NoReq, err |-> "OK", sent |-> FALSE]
IdleThread == [pc |-> "idle", pid |-> NoPid, scan |-> FALSE, todo |-> {},
               tp |-> None, left |-> 0, dd |-> FALSE]

Fault(kind) == kind \in Faults /\ faults < MaxFaults /\ faults' = faults + 1

-----------------------------------------------------------------------------
(* The idempotence state, as functions of the client record g.             *)

\* rd_kafka_idemp_set_state(): with a fatal error only some states are allowed.
SetState(g, s) ==
  [g EXCEPT !.state =
     IF @ # s /\ g.fatal /\ s \notin {"FATAL_ERROR", "DRAIN_RESET", "DRAIN_BUMP"}
     THEN "FATAL_ERROR" ELSE s]

\* Mutant: the epoch is not masked to its width.
PidBump_NoWrap(pid) == pid + 1

\* rd_kafka_pid_bump(): the epoch is an int16 that wraps to 0.
PidBump(pid) == (pid + 1) % EpochSpace

\* rd_kafka_idemp_get_pid(): the pid may be used in state ASSIGNED only.
GetPid(g) == IF g.state = "ASSIGNED" THEN g.pid ELSE NoPid

\* Mutant: the drained state is not left for an epoch bump.
DrainDone_ResetOnly(g) == IF g.state = "DRAIN_RESET" THEN SetState(g, "REQ_PID") ELSE g

\* rd_kafka_idemp_drain_done(): what the state alone decides; the in-flight
\* count is not looked at again.
DrainDone(g) ==
  IF g.state = "DRAIN_RESET" THEN SetState(g, "REQ_PID")
  ELSE IF g.state = "DRAIN_BUMP" /\ g.pid # NoPid
  THEN SetState([g EXCEPT !.pid = PidBump(@)], "ASSIGNED")
  ELSE g

SetFatal(g) == [g EXCEPT !.fatal = TRUE]

\* rd_kafka_set_fatal_error0() has every broker purge its queues, once.
PurgeOnFatal == purge_op' = IF rk'.fatal /\ ~rk.fatal
                            THEN [b \in Brokers |-> TRUE] ELSE purge_op

-----------------------------------------------------------------------------
(* Acquiring the producer id (main thread).                                *)

\* rd_kafka_idemp_pid_fsm(), run by the pid timer.
PidFsm ==
  /\ rk.state \in {"REQ_PID", "WAIT_TRANSPORT"}
  /\ ~rk.fatal
  /\ rk' = SetState(rk, IF \E b \in Brokers : up[b] THEN "WAIT_PID" ELSE "WAIT_TRANSPORT")
  /\ UNCHANGED <<toppar_vars, place_vars, thread_vars, buf_vars, purge_op,
                 kafka_vars, expired, faults>>

\* rd_kafka_idemp_pid_update()
PidUpdate ==
  /\ rk.state = "WAIT_PID"
  /\ rk' = SetState([rk EXCEPT !.pid = 0], "ASSIGNED")
  /\ UNCHANGED <<toppar_vars, place_vars, thread_vars, buf_vars, purge_op,
                 kafka_vars, expired, faults>>

\* rd_kafka_idemp_request_pid_failed(): some errors are fatal, others retried.
RequestPidFailed ==
  /\ rk.state = "WAIT_PID"
  /\ \/ Fault("initpid") /\ rk' = SetState(rk, "REQ_PID")
     \/ Fault("initpid_fatal") /\ rk' = SetState(SetFatal(rk), "FATAL_ERROR")
  /\ PurgeOnFatal
  /\ UNCHANGED <<toppar_vars, place_vars, thread_vars, buf_vars, kafka_vars, expired>>

-----------------------------------------------------------------------------
(* The application.                                                        *)

\* rd_kafka_producev() refuses messages once a fatal error has been raised.
Produce(p) ==
  /\ ~rk.fatal
  /\ rktp_msgid[p] < MaxMsgs
  /\ rktp_msgid' = [rktp_msgid EXCEPT ![p] = @ + 1]
  /\ msgq' = [msgq EXCEPT ![p] = @ \cup {rktp_msgid[p] + 1}]
  /\ UNCHANGED <<rk, rkm, xmit_msgq, msgs_inflight, eos, place_vars,
                 thread_vars, buf_vars, purge_op, kafka_vars, expired, faults>>

\* rd_kafka_purge(RD_KAFKA_PURGE_F_QUEUE): one op to every broker.
Purge ==
  /\ Fault("purge")
  /\ purge_op' = [b \in Brokers |-> TRUE]
  /\ UNCHANGED <<rk, toppar_vars, place_vars, thread_vars, buf_vars, kafka_vars, expired>>

\* Time passes: the oldest message that is not yet past its timeout is now.
Expire(p) ==
  /\ expired[p] < rktp_msgid[p]
  /\ Fault("expire")
  /\ expired' = [expired EXCEPT ![p] = @ + 1]
  /\ UNCHANGED <<rk, toppar_vars, place_vars, thread_vars, buf_vars, purge_op, kafka_vars>>

-----------------------------------------------------------------------------
(* Delivery reports.                                                       *)

\* Neither a retry nor a delivery report downgrades a message that may have
\* been persisted to NOT_PERSISTED (rd_kafka_retry_msgq(),
\* rd_kafka_msgq_set_metadata()).
NewStatus(old, new) == IF new = "NOT_PERSISTED" THEN old ELSE new

\* rd_kafka_dr_msgq() for messages that leave a queue: the status stays.
DrQueued(p, S) ==
  [rkm EXCEPT ![p] = [m \in MsgIds |->
     IF m \in S THEN [@[m] EXCEPT !.dr = "error"] ELSE @[m]]]

-----------------------------------------------------------------------------
(* Broker thread b.                                                        *)

\* The thread is not in the middle of a response handler.
Free(b) == hand[b].phase = "none" /\ ~th[b].dd
Idle(b) == Free(b) /\ th[b].pc = "idle"

\* Proceed with the next partition of this round.
NextToppar(t) == IF t.todo = {} THEN IdleThread
                 ELSE [t EXCEPT !.pc = "toppar", !.left = 0, !.tp = None]

Expired(p) == {m \in msgq[p] \cup xmit_msgq[p] : m <= expired[p]}
Active(b) == {p \in Partitions : rktp_broker[p] = b}

\* rd_kafka_broker_produce_toppars(): one copy of the pid serves the whole
\* round.  The timeout scan runs now and then, and without a pid only it does.
ServeBegin(b) ==
  /\ Idle(b)
  /\ Active(b) # {}
  /\ \E scan \in BOOLEAN :
       /\ scan => \E p \in Active(b) : Expired(p) # {}
       /\ scan \/ GetPid(rk) # NoPid
       /\ th' = [th EXCEPT ![b] = [@ EXCEPT !.pc = "toppar", !.scan = scan,
                                   !.pid = GetPid(rk), !.todo = Active(b)]]
  /\ UNCHANGED <<rk, toppar_vars, place_vars, hand, buf_vars, purge_op,
                 kafka_vars, expired, faults>>

\* rd_kafka_toppar_producer_serve(), up to the release of the toppar lock:
\* messages have timed out in the queues: fail them and, with a pid, bump the
\* epoch (rd_kafka_broker_toppar_msgq_scan(), rd_kafka_idemp_drain_epoch_bump()).
ServeTimeout(b, p) ==
  LET todo == th[b].todo \ {p} IN
  /\ Free(b) /\ th[b].pc = "toppar" /\ p \in th[b].todo
  /\ rktp_broker[p] = b
  /\ th[b].scan /\ Expired(p) # {}
  /\ msgq' = [msgq EXCEPT ![p] = @ \ Expired(p)]
  /\ xmit_msgq' = [xmit_msgq EXCEPT ![p] = @ \ Expired(p)]
  /\ rkm' = DrQueued(p, Expired(p))
  /\ rk' = IF th[b].pid # NoPid THEN SetState(rk, "DRAIN_BUMP") ELSE rk
  /\ th' = [th EXCEPT ![b] =
              [NextToppar([@ EXCEPT !.todo = todo])
                 EXCEPT !.dd = th[b].pid # NoPid /\ rk.inflight_toppar_cnt = 0]]
  /\ UNCHANGED <<rktp_msgid, msgs_inflight, eos, place_vars, hand, buf_vars,
                 purge_op, kafka_vars, expired, faults>>

\* ... nothing timed out: move the messages to the transmit queue.  Without a
\* pid, or when the partition has left this broker, it is skipped.
ServeToppar(b, p) ==
  LET left == IF rk.fatal THEN 0 ELSE OutbufsMax - Len(outbufs[b])
      todo == th[b].todo \ {p}
      pc == IF th[b].pid # eos[p].pid THEN "purge_pid" ELSE "checks"
  IN
  /\ Free(b) /\ th[b].pc = "toppar" /\ p \in th[b].todo
  /\ ~(rktp_broker[p] = b /\ th[b].scan /\ Expired(p) # {})
  /\ IF rktp_broker[p] # b \/ th[b].pid = NoPid
     THEN /\ th' = [th EXCEPT ![b] = NextToppar([@ EXCEPT !.todo = todo])]
          /\ UNCHANGED <<msgq, xmit_msgq>>
     ELSE /\ th' = [th EXCEPT ![b] =
                      [@ EXCEPT !.todo = todo, !.tp = p, !.left = left, !.pc = pc]]
          /\ IF left > 0
             THEN /\ xmit_msgq' = [xmit_msgq EXCEPT ![p] = @ \cup msgq[p]]
                  /\ msgq' = [msgq EXCEPT ![p] = {}]
             ELSE UNCHANGED <<msgq, xmit_msgq>>
  /\ UNCHANGED <<rk, rktp_msgid, rkm, msgs_inflight, eos, place_vars, hand,
                 buf_vars, purge_op, kafka_vars, expired, faults>>

\* Unsent requests the thread is purging: those of one partition
\* (rd_kafka_broker_bufq_purge_by_toppar()) or all of them (a PURGE op).
Victims(b) ==
  {i \in DOMAIN outbufs[b] :
     \/ th[b].pc = "purge_op"
     \/ /\ th[b].pc \in {"purge_pid", "purge_drain", "purge_leave"}
        /\ outbufs[b][i].tp = th[b].tp}

\* The next purged request goes to its response handler.
PurgeNext(b) ==
  /\ Free(b)
  /\ Victims(b) # {}
  /\ LET i == Min(Victims(b)) IN
       /\ hand' = [hand EXCEPT ![b] =
                     [phase |-> "start", req |-> outbufs[b][i],
                      err |-> IF th[b].pc = "purge_op" THEN "_PURGE_QUEUE" ELSE "_RETRY",
                      sent |-> FALSE]]
       /\ outbufs' = [outbufs EXCEPT ![b] = RemoveAt(@, i)]
  /\ UNCHANGED <<rk, toppar_vars, place_vars, th, waitresps, up, purge_op,
                 kafka_vars, expired, faults>>

\* Requests of a partition that waits for its in-flight requests are purged,
\* and the partition is left alone in this round.
PurgeDrainDone(b) ==
  /\ Free(b) /\ th[b].pc = "purge_drain" /\ Victims(b) = {}
  /\ th' = [th EXCEPT ![b] = NextToppar(@)]
  /\ UNCHANGED <<rk, toppar_vars, place_vars, hand, buf_vars, purge_op,
                 kafka_vars, expired, faults>>

\* Mutant: requests in flight do not hold up the new pid.
MayChangePid_Always(p) == TRUE

\* rd_kafka_toppar_pid_change(): refused while messages are in flight ...
MayChangePid(p) == msgs_inflight[p] = 0

\* ... else the messages are renumbered from the first one in the queue.
PidChange(t, pid, base) ==
  [t EXCEPT !.pid = pid, !.epoch_base_msgid = base,
            !.next_ack_seq = 0, !.next_err_seq = 0]

\* Mutant: what is already in flight is not subtracted.
MaxRequests_NoInflight(left, inflight) == Min({left, MaxInflight})

\* Requests that may be added: limited by the space in outbufs and by the
\* broker's window, which is compared with the number of MESSAGES in flight.
MaxRequests(left, inflight) == Min({left, MaxInflight - inflight})

\* rd_kafka_toppar_producer_serve(), from the purge to the request loop.
ServeChecks(b) ==
  LET p == th[b].tp
      n == MaxRequests(th[b].left, msgs_inflight[p])
      draining == eos[p].wait_drain /\ msgs_inflight[p] > 0
      e == [eos[p] EXCEPT !.wait_drain = FALSE]
      newpid == th[b].pid # eos[p].pid
      blocked == n <= 0 \/ xmit_msgq[p] = {} \/ (newpid /\ ~MayChangePid(p))
  IN
  /\ Free(b)
  /\ th[b].pc = "checks" \/ (th[b].pc = "purge_pid" /\ Victims(b) = {})
  /\ IF draining
     THEN /\ th' = [th EXCEPT ![b] = IF @.pc = "purge_pid" THEN NextToppar(@)
                                     ELSE [@ EXCEPT !.pc = "purge_drain"]]
          /\ UNCHANGED eos
     ELSE IF blocked
     THEN /\ th' = [th EXCEPT ![b] = NextToppar(@)]
          /\ eos' = [eos EXCEPT ![p] = e]
     ELSE /\ eos' = [eos EXCEPT ![p] =
                       IF newpid THEN PidChange(e, th[b].pid, Min(xmit_msgq[p])) ELSE e]
          /\ th' = [th EXCEPT ![b] = IF up[b] THEN [@ EXCEPT !.pc = "produce", !.left = n]
                                     ELSE NextToppar(@)]
  /\ UNCHANGED <<rk, rktp_msgid, rkm, msgq, xmit_msgq, msgs_inflight, place_vars,
                 hand, buf_vars, purge_op, kafka_vars, expired, faults>>

\* Mutant: a retried batch takes in the messages queued since.
NextBatch_NoLastMsgid(p) ==
  {m \in xmit_msgq[p] : Cardinality({n \in xmit_msgq[p] : n < m}) < BatchMax}

\* rd_kafka_msgset_writer_write_msgq(): the messages of the next request.  A
\* batch that is retried is reconstructed: it ends at the last_msgid kept on
\* its first message.
NextBatch(p) ==
  LET last == rkm[p][Min(xmit_msgq[p])].last_msgid
  IN {m \in xmit_msgq[p] :
        /\ Cardinality({n \in xmit_msgq[p] : n < m}) < BatchMax
        /\ last # 0 => m <= last}

\* The reconstructed batch is not the one that was sent before.
Inconsistent(p) ==
  LET last == rkm[p][Min(xmit_msgq[p])].last_msgid
  IN last # 0 /\ Max(NextBatch(p)) # last

\* Mutant: requests are numbered from the last acknowledgement.
FirstSeq_NextAck(p, S) == eos[p].next_ack_seq

\* rd_kafka_msgbatch_set_first_msg(): the base sequence follows from the message
\* id, so that a retry carries the number of the first attempt.
FirstSeq(p, S) == SeqWrap(Min(S) - eos[p].epoch_base_msgid)

\* rd_kafka_ProduceRequest(), rd_kafka_msgset_create_ProduceRequest(),
\* rd_kafka_msgbatch_ready_produce().  Nothing is sent when the queue is empty
\* (the old leader's thread may acknowledge queued messages), or when a batch
\* cannot be reconstructed, which is a fatal error.
ProduceRequest(b) ==
  LET p == th[b].tp
      S == NextBatch(p)
      req == [tp |-> p, pid |-> th[b].pid, msgs |-> S, resp |-> NoReply,
              first_seq |-> FirstSeq(p, S)]
      left == th[b].left - 1
      more == left > 0 /\ xmit_msgq[p] # S
  IN
  /\ Free(b) /\ th[b].pc = "produce"
  /\ IF xmit_msgq[p] = {} \/ Inconsistent(p)
     THEN /\ rk' = IF xmit_msgq[p] = {} THEN rk ELSE SetFatal(rk)
          /\ th' = [th EXCEPT ![b] = NextToppar(@)]
          /\ UNCHANGED <<xmit_msgq, outbufs, msgs_inflight>>
     ELSE /\ xmit_msgq' = [xmit_msgq EXCEPT ![p] = @ \ S]
          /\ outbufs' = [outbufs EXCEPT ![b] = Append(@, req)]
          /\ msgs_inflight' = [msgs_inflight EXCEPT ![p] = @ + Cardinality(S)]
          /\ rk' = IF msgs_inflight[p] = 0
                   THEN [rk EXCEPT !.inflight_toppar_cnt = @ + 1] ELSE rk
          /\ th' = [th EXCEPT ![b] = IF more THEN [@ EXCEPT !.left = left]
                                     ELSE NextToppar(@)]
  /\ PurgeOnFatal
  /\ UNCHANGED <<rktp_msgid, rkm, msgq, eos, place_vars, hand, waitresps, up,
                 kafka_vars, expired, faults>>

-----------------------------------------------------------------------------
(* Connection and requests of broker thread b.                             *)

\* rd_kafka_broker_send(): the first unsent request goes out.
Transmit(b) ==
  /\ Idle(b) /\ up[b]
  /\ outbufs[b] # <<>>
  /\ outbufs' = [outbufs EXCEPT ![b] = Tail(@)]
  /\ waitresps' = [waitresps EXCEPT ![b] = Append(@, Head(outbufs[b]))]
  /\ UNCHANGED <<rk, toppar_vars, place_vars, thread_vars, up, purge_op,
                 kafka_vars, expired, faults>>

\* rd_kafka_req_response(), rd_kafka_handle_Produce()
RecvResponse(b) ==
  /\ Idle(b) /\ up[b]
  /\ waitresps[b] # <<>> /\ Head(waitresps[b]).resp # NoReply
  /\ hand' = [hand EXCEPT ![b] = [phase |-> "start", req |-> Head(waitresps[b]),
                                  err |-> Head(waitresps[b]).resp, sent |-> TRUE]]
  /\ waitresps' = [waitresps EXCEPT ![b] = Tail(@)]
  /\ UNCHANGED <<rk, toppar_vars, place_vars, th, outbufs, up, purge_op,
                 kafka_vars, expired, faults>>

\* rd_kafka_broker_fail(): a transport error, or a request that timed out
\* (rd_kafka_broker_timeout_scan() with socket.max.fails = 1).  The cluster
\* may still handle the requests it has received and not answered.
BrokerFail(b) ==
  LET answered == Cardinality({i \in DOMAIN waitresps[b] : waitresps[b][i].resp # NoReply})
  IN
  /\ Idle(b) /\ up[b]
  /\ Fault("disconnect")
  /\ up' = [up EXCEPT ![b] = FALSE]
  /\ th' = [th EXCEPT ![b].pc = "fail"]
  /\ stale' = [stale EXCEPT ![b] =
                 @ \o SubSeq(waitresps[b], answered + 1, Len(waitresps[b]))]
  /\ UNCHANGED <<rk, toppar_vars, place_vars, hand, outbufs, waitresps,
                 purge_op, leader, plog, expired>>

\* rd_kafka_bufq_purge() of the requests waiting for a response, then of the
\* unsent ones.
FailNext(b) ==
  /\ Free(b) /\ th[b].pc = "fail"
  /\ IF waitresps[b] # <<>>
     THEN /\ hand' = [hand EXCEPT ![b] = [phase |-> "start", req |-> Head(waitresps[b]),
                                          err |-> "_TRANSPORT", sent |-> TRUE]]
          /\ waitresps' = [waitresps EXCEPT ![b] = Tail(@)]
          /\ UNCHANGED <<th, outbufs>>
     ELSE IF outbufs[b] # <<>>
     THEN /\ hand' = [hand EXCEPT ![b] = [phase |-> "start", req |-> Head(outbufs[b]),
                                          err |-> "_TRANSPORT", sent |-> FALSE]]
          /\ outbufs' = [outbufs EXCEPT ![b] = Tail(@)]
          /\ UNCHANGED <<th, waitresps>>
     ELSE /\ th' = [th EXCEPT ![b].pc = "idle"]
          /\ UNCHANGED <<hand, outbufs, waitresps>>
  /\ UNCHANGED <<rk, toppar_vars, place_vars, up, purge_op, kafka_vars, expired, faults>>

Reconnect(b) ==
  /\ Idle(b) /\ ~up[b]
  /\ up' = [up EXCEPT ![b] = TRUE]
  /\ UNCHANGED <<rk, toppar_vars, place_vars, thread_vars, outbufs, waitresps,
                 purge_op, kafka_vars, expired, faults>>

\* rd_kafka_broker_handle_purge_queues(): first the unsent requests ...
PurgeOp(b) ==
  /\ Idle(b) /\ purge_op[b]
  /\ purge_op' = [purge_op EXCEPT ![b] = FALSE]
  /\ th' = [th EXCEPT ![b].pc = "purge_op"]
  /\ UNCHANGED <<rk, toppar_vars, place_vars, hand, buf_vars, kafka_vars, expired, faults>>

\* ... then the partition queues (rd_kafka_toppar_purge_queues()).
PurgeQueues(b) ==
  /\ Free(b) /\ th[b].pc = "purge_op" /\ Victims(b) = {}
  /\ rkm' = [p \in Partitions |->
               IF p \in Active(b) THEN DrQueued(p, msgq[p] \cup xmit_msgq[p])[p] ELSE rkm[p]]
  /\ msgq' = [p \in Partitions |-> IF p \in Active(b) THEN {} ELSE msgq[p]]
  /\ xmit_msgq' = [p \in Partitions |-> IF p \in Active(b) THEN {} ELSE xmit_msgq[p]]
  /\ th' = [th EXCEPT ![b].pc = "idle"]
  /\ UNCHANGED <<rk, rktp_msgid, msgs_inflight, eos, place_vars, hand, buf_vars,
                 purge_op, kafka_vars, expired, faults>>

-----------------------------------------------------------------------------
(* The result of a request: rd_kafka_msgbatch_handle_Produce_result().     *)

\* The in-flight counter goes down before the messages are looked at.
HandleStart(b) ==
  LET r == hand[b].req
      n == msgs_inflight[r.tp] - Cardinality(r.msgs)
  IN
  /\ hand[b].phase = "start"
  /\ msgs_inflight' = [msgs_inflight EXCEPT ![r.tp] = n]
  /\ hand' = [hand EXCEPT ![b].phase = IF n = 0 THEN "last" ELSE "more"]
  /\ UNCHANGED <<rk, rktp_msgid, rkm, msgq, xmit_msgq, eos, place_vars, th,
                 buf_vars, purge_op, kafka_vars, expired, faults>>

NextSeq(r) == SeqWrap(r.first_seq + Cardinality(r.msgs))

\* Mutant: every result counts as the partition's last one.
HandlerEnd_AlwaysLast(b, g, bumped) ==
  /\ rk' = [g EXCEPT !.inflight_toppar_cnt = @ - 1]
  /\ th' = [th EXCEPT ![b].dd = rk'.inflight_toppar_cnt = 0]
  /\ hand' = [hand EXCEPT ![b] = NoHand]

\* The end of the handler: rd_kafka_idemp_inflight_toppar_sub() if this was
\* the partition's last request.  g is the client record so far, bumped says
\* that rd_kafka_idemp_check_drain_done() has been called.
HandlerEnd(b, g, bumped) ==
  LET last == hand[b].phase = "last"
      cnt == IF last THEN g.inflight_toppar_cnt - 1 ELSE g.inflight_toppar_cnt
  IN /\ rk' = [g EXCEPT !.inflight_toppar_cnt = cnt]
     /\ th' = [th EXCEPT ![b].dd = (last \/ bumped) /\ cnt = 0]
     /\ hand' = [hand EXCEPT ![b] = NoHand]

\* Mutant: one message too many.
ImplicitAck_OffByOne(p, last) == {m \in xmit_msgq[p] \cup msgq[p] : m <= last + 1}

\* rd_kafka_dr_implicit_ack(), rd_kafka_msgq_move_acked(): the queued messages
\* that a success up to message last acknowledges.
ImplicitAck(p, last) == {m \in xmit_msgq[p] \cup msgq[p] : m <= last}

\* rd_kafka_handle_idempotent_Produce_success() and the delivery reports.
\* Success of a later request implies that of the ones before it
\* (rd_kafka_dr_implicit_ack()).
HandleSuccess(b) ==
  LET r == hand[b].req
      p == r.tp
      t == eos[p]
      first == Min(r.msgs)
      last == Max(r.msgs)
      implicit == t.acked_msgid < first - 1
      acked == IF implicit THEN ImplicitAck(p, last) ELSE {}
      unexpected == /\ ~implicit
                    /\ r.first_seq # t.next_ack_seq
                    /\ r.first_seq = t.next_err_seq
  IN
  /\ hand[b].phase \in {"more", "last"} /\ hand[b].err = "OK"
  /\ eos' = [eos EXCEPT ![p] =
       [t EXCEPT !.next_err_seq = IF unexpected \/ t.next_err_seq = t.next_ack_seq
                                  THEN NextSeq(r) ELSE t.next_err_seq,
                 !.next_ack_seq = IF unexpected THEN t.next_ack_seq ELSE NextSeq(r),
                 !.acked_msgid = Max({t.acked_msgid, last})]]
  /\ xmit_msgq' = [xmit_msgq EXCEPT ![p] = @ \ acked]
  /\ msgq' = [msgq EXCEPT ![p] = @ \ acked]
  /\ rkm' = [rkm EXCEPT ![p] = [m \in MsgIds |->
       IF m \in r.msgs \cup acked
       THEN [@[m] EXCEPT !.status = "PERSISTED", !.dr = "ok"] ELSE @[m]]]
  /\ HandlerEnd(b, IF unexpected THEN SetFatal(rk) ELSE rk, FALSE)
  /\ PurgeOnFatal
  /\ UNCHANGED <<rktp_msgid, msgs_inflight, place_vars, buf_vars, kafka_vars, expired, faults>>

\* Mutant: a lost connection renumbers the messages at once.
ErrAction_BumpOnTransport(e) ==
  [retry |-> e \in {"_TRANSPORT", "_RETRY", "NOT_ENOUGH_REPLICAS",
                    "NOT_ENOUGH_REPLICAS_AFTER_APPEND", "NOT_LEADER_FOR_PARTITION"},
   incr |-> 1, status |-> "POSSIBLY_PERSISTED", fatal |-> FALSE,
   bump |-> e = "_TRANSPORT", ok |-> FALSE]

\* The action table of rd_kafka_handle_Produce_error() and the defaults of
\* rd_kafka_err_action(): whether the messages are retried (counting it as an
\* attempt or not) or failed, and what is known of their persistence.
ErrAction(e) ==
  LET act(retry, incr, status) == [retry |-> retry, incr |-> incr, status |-> status,
                                   fatal |-> FALSE, bump |-> FALSE, ok |-> FALSE]
  IN CASE e \in {"_TRANSPORT", "NOT_ENOUGH_REPLICAS_AFTER_APPEND"} ->
            act(TRUE, 1, "POSSIBLY_PERSISTED")
       [] e \in {"NOT_ENOUGH_REPLICAS", "_RETRY"} -> act(TRUE, 1, "NOT_PERSISTED")
       [] e = "NOT_LEADER_FOR_PARTITION" -> act(TRUE, 0, "NOT_PERSISTED")
       [] OTHER -> act(FALSE, 1, "NOT_PERSISTED")

\* The messages are failed for good.
Permanent(a) == ~a.retry /\ ~a.ok

\* Mutant: an unknown producer id passes for a duplicate.
IdempotentProduceError_UnknownIsDup(r, e, t, retries) ==
  LET a == ErrAction(e)
  IN IF e \in {"DUPLICATE_SEQUENCE_NUMBER", "UNKNOWN_PRODUCER_ID"}
     THEN [a EXCEPT !.ok = TRUE, !.status = "PERSISTED"]
     ELSE [a EXCEPT !.bump = Permanent(a)]

\* rd_kafka_handle_idempotent_Produce_error(): t is the partition's rktp_eos,
\* retries the retry count of the first message.
IdempotentProduceError(r, e, t, retries) ==
  LET a == ErrAction(e)
      permanent == [a EXCEPT !.retry = FALSE, !.status = "POSSIBLY_PERSISTED"]
      fatal == [permanent EXCEPT !.fatal = TRUE]
      renumber == [a EXCEPT !.retry = TRUE, !.incr = 0, !.bump = TRUE,
                            !.status = "NOT_PERSISTED"]
  IN IF r.pid # t.pid THEN permanent
     ELSE CASE e = "OUT_OF_ORDER_SEQUENCE_NUMBER" ->
                 IF r.first_seq > t.next_ack_seq THEN renumber ELSE fatal
            [] e = "DUPLICATE_SEQUENCE_NUMBER" ->
                 [a EXCEPT !.ok = TRUE, !.status = "PERSISTED"]
            [] e = "UNKNOWN_PRODUCER_ID" ->
                 IF retries = 0 /\ t.next_err_seq = r.first_seq THEN renumber ELSE fatal
            [] OTHER -> a

\* Mutant: the gap-less guarantee is not looked at.
AfterError_NoGapless(g, a) ==
  LET h == IF a.fatal THEN SetFatal(g) ELSE g
  IN IF a.bump \/ Permanent(a) THEN SetState(h, "DRAIN_BUMP") ELSE h

\* What action a makes of the client record: a permanent error leaves a gap in
\* the sequence numbers, which is fatal with enable.gapless.guarantee and leads
\* to an epoch bump without.
AfterError(g, a) ==
  LET gap == Permanent(a) /\ Gapless
      h == IF a.fatal \/ gap THEN SetFatal(g) ELSE g
  IN IF gap THEN SetState(h, "DRAIN_RESET")
     ELSE IF a.bump \/ Permanent(a) THEN SetState(h, "DRAIN_BUMP")
     ELSE h

\* rd_kafka_handle_Produce_error(), rd_kafka_toppar_retry_msgq() and the
\* delivery reports of the messages that are not retried.
HandleError(b) ==
  LET r == hand[b].req
      p == r.tp
      t == eos[p]
      first == Min(r.msgs)
      a0 == IdempotentProduceError(r, hand[b].err, t, rkm[p][first].retries)
      \* a request that was not sent cannot have been persisted
      incr == IF hand[b].sent THEN a0.incr ELSE 0
      status == IF a0.retry /\ incr = 0 THEN "NOT_PERSISTED" ELSE a0.status
      requeue == {m \in r.msgs : a0.retry /\ rkm[p][m].retries + incr <= MaxRetries}
  IN
  /\ hand[b].phase \in {"more", "last"} /\ hand[b].err # "OK"
  /\ rkm' = [rkm EXCEPT ![p] = [m \in MsgIds |->
       IF m \notin r.msgs THEN @[m]
       ELSE [retries |-> IF m \in requeue THEN @[m].retries + incr ELSE @[m].retries,
             last_msgid |-> IF m = first THEN Max(r.msgs) ELSE @[m].last_msgid,
             status |-> NewStatus(@[m].status, status),
             dr |-> IF m \in requeue THEN "none" ELSE IF a0.ok THEN "ok" ELSE "error"]]]
  /\ msgq' = [msgq EXCEPT ![p] = @ \cup requeue]
  /\ eos' = [eos EXCEPT ![p] =
       [t EXCEPT !.next_ack_seq = IF a0.ok THEN NextSeq(r) ELSE t.next_ack_seq,
                 !.next_err_seq = NextSeq(r),
                 !.wait_drain = t.wait_drain \/ a0.retry]]
  /\ HandlerEnd(b, AfterError(rk, a0), a0.bump \/ Permanent(a0))
  /\ PurgeOnFatal
  /\ UNCHANGED <<rktp_msgid, xmit_msgq, msgs_inflight, place_vars, buf_vars,
                 kafka_vars, expired, faults>>

\* rd_kafka_idemp_drain_done(), called after the in-flight partition count
\* was seen to be zero.
CallDrainDone(b) ==
  /\ th[b].dd
  /\ rk' = DrainDone(rk)
  /\ th' = [th EXCEPT ![b].dd = FALSE]
  /\ UNCHANGED <<toppar_vars, place_vars, hand, buf_vars, purge_op, kafka_vars,
                 expired, faults>>

-----------------------------------------------------------------------------
(* Leader changes.                                                         *)

\* Where the partition is, or is going to be.
Delegated(p) == IF next_broker[p] # None THEN next_broker[p] ELSE rktp_broker[p]

\* rd_kafka_toppar_broker_delegate(), rd_kafka_toppar_broker_migrate(): the
\* metadata names another leader.
Delegate(p) ==
  /\ Delegated(p) # leader[p]
  /\ next_broker' = [next_broker EXCEPT ![p] = leader[p]]
  /\ UNCHANGED <<rk, toppar_vars, rktp_broker, thread_vars, buf_vars, purge_op,
                 kafka_vars, expired, faults>>

\* PARTITION_LEAVE: purge the partition's unsent requests ...
PartitionLeave(b, p) ==
  /\ Idle(b)
  /\ rktp_broker[p] = b /\ next_broker[p] # None
  /\ th' = [th EXCEPT ![b] = [@ EXCEPT !.pc = "purge_leave", !.tp = p]]
  /\ UNCHANGED <<rk, toppar_vars, place_vars, hand, buf_vars, purge_op,
                 kafka_vars, expired, faults>>

\* Mutant: the messages in the transmit queue are left behind.
GivenBack_Nothing(p) == msgq[p]

\* The transmit queue is merged back into the partition queue ...
GivenBack(p) == msgq[p] \cup xmit_msgq[p]

\* ... and the partition leaves the broker.
PartitionLeft(b) ==
  LET p == th[b].tp IN
  /\ Free(b) /\ th[b].pc = "purge_leave" /\ Victims(b) = {}
  /\ msgq' = [msgq EXCEPT ![p] = GivenBack(p)]
  /\ xmit_msgq' = [xmit_msgq EXCEPT ![p] = {}]
  /\ rktp_broker' = [rktp_broker EXCEPT ![p] = None]
  /\ th' = [th EXCEPT ![b] = IdleThread]
  /\ UNCHANGED <<rk, rktp_msgid, rkm, msgs_inflight, eos, next_broker, hand,
                 buf_vars, purge_op, kafka_vars, expired, faults>>

\* PARTITION_JOIN: wait for the requests of the previous leader.
PartitionJoin(b, p) ==
  /\ Idle(b)
  /\ rktp_broker[p] = None /\ next_broker[p] = b
  /\ rktp_broker' = [rktp_broker EXCEPT ![p] = b]
  /\ next_broker' = [next_broker EXCEPT ![p] = None]
  /\ eos' = [eos EXCEPT ![p].wait_drain = TRUE]
  /\ UNCHANGED <<rk, rktp_msgid, rkm, msgq, xmit_msgq, msgs_inflight,
                 thread_vars, buf_vars, purge_op, kafka_vars, expired, faults>>

-----------------------------------------------------------------------------
(* The cluster.                                                            *)

\* The replies to request r arriving at broker b, with the partition's new
\* state; fault names the fault that makes the reply possible.
KafkaReplies(b, r) ==
  LET k == plog[r.tp]
      reply(resp, fault) == [resp |-> resp, k |-> k, fault |-> fault]
  IN IF leader[r.tp] # b
     THEN {reply("NOT_LEADER_FOR_PARTITION", "none")}
     ELSE {[resp |-> x.resp, k |-> x.k, fault |-> "none"] : x \in Replies(k, r)}
          \cup {reply("NOT_ENOUGH_REPLICAS", "replicas"),
                reply("MSG_SIZE_TOO_LARGE", "permanent")}
          \cup {[resp |-> "NOT_ENOUGH_REPLICAS_AFTER_APPEND", k |-> x.k, fault |-> "append"] :
                  x \in {y \in Replies(k, r) : y.resp = "OK"}}

MayReply(x) == \/ x.fault = "none" /\ UNCHANGED faults
               \/ x.fault # "none" /\ Fault(x.fault)

\* The requests of a connection are handled in order.
KafkaHandle(b) ==
  LET unanswered == {i \in DOMAIN waitresps[b] : waitresps[b][i].resp = NoReply}
      i == Min(unanswered)
      r == waitresps[b][i]
  IN
  /\ up[b] /\ unanswered # {}
  /\ \E x \in KafkaReplies(b, r) :
       /\ MayReply(x)
       /\ plog' = [plog EXCEPT ![r.tp] = x.k]
       /\ waitresps' = [waitresps EXCEPT ![b][i].resp = x.resp]
  /\ UNCHANGED <<rk, toppar_vars, place_vars, thread_vars, outbufs, up,
                 purge_op, leader, stale, expired>>

\* A request of a lost connection is handled late, or never was received.
KafkaStale(b) ==
  /\ stale[b] # <<>>
  /\ stale' = [stale EXCEPT ![b] = Tail(@)]
  /\ \/ UNCHANGED plog
     \/ \E x \in KafkaReplies(b, Head(stale[b])) :
          /\ x.fault = "none"
          /\ plog' = [plog EXCEPT ![Head(stale[b]).tp] = x.k]
  /\ UNCHANGED <<rk, toppar_vars, place_vars, thread_vars, buf_vars, purge_op,
                 leader, expired, faults>>

LeaderChange(p) ==
  /\ Fault("move")
  /\ \E b \in Brokers \ {leader[p]} : leader' = [leader EXCEPT ![p] = b]
  /\ UNCHANGED <<rk, toppar_vars, place_vars, thread_vars, buf_vars, purge_op,
                 plog, stale, expired>>

KafkaForget(p) ==
  /\ plog[p].epoch # NoPid
  /\ Fault("forget")
  /\ plog' = [plog EXCEPT ![p] = Forgotten(@)]
  /\ UNCHANGED <<rk, toppar_vars, place_vars, thread_vars, buf_vars, purge_op,
                 leader, stale, expired>>

-----------------------------------------------------------------------------
Init ==
  /\ rk = [state |-> "REQ_PID", pid |-> NoPid, inflight_toppar_cnt |-> 0, fatal |-> FALSE]
  /\ rktp_msgid = [p \in Partitions |-> 0]
  /\ rkm = [p \in Partitions |-> [m \in MsgIds |->
              [retries |-> 0, last_msgid |-> 0, status |-> "NOT_PERSISTED", dr |-> "none"]]]
  /\ msgq = [p \in Partitions |-> {}]
  /\ xmit_msgq = [p \in Partitions |-> {}]
  /\ msgs_inflight = [p \in Partitions |-> 0]
  /\ eos = [p \in Partitions |->
              [pid |-> NoPid, acked_msgid |-> 0, epoch_base_msgid |-> 0,
               next_ack_seq |-> 0, next_err_seq |-> 0, wait_drain |-> TRUE]]
  /\ leader \in [Partitions -> Brokers]
  /\ rktp_broker = leader
  /\ next_broker = [p \in Partitions |-> None]
  /\ th = [b \in Brokers |-> IdleThread]
  /\ hand = [b \in Brokers |-> NoHand]
  /\ outbufs = [b \in Brokers |-> <<>>]
  /\ waitresps = [b \in Brokers |-> <<>>]
  /\ up = [b \in Brokers |-> TRUE]
  /\ purge_op = [b \in Brokers |-> FALSE]
  /\ plog = [p \in Partitions |-> EmptyLog]
  /\ stale = [b \in Brokers |-> <<>>]
  /\ expired = [p \in Partitions |-> 0]
  /\ faults = 0

\* One iteration of something in broker thread b.
BrokerThread(b) ==
  \/ ServeBegin(b) \/ PurgeNext(b) \/ PurgeDrainDone(b) \/ ServeChecks(b)
  \/ ProduceRequest(b)
  \/ Transmit(b) \/ RecvResponse(b) \/ FailNext(b) \/ Reconnect(b)
  \/ PurgeOp(b) \/ PurgeQueues(b)
  \/ HandleStart(b) \/ HandleSuccess(b) \/ HandleError(b) \/ CallDrainDone(b)
  \/ PartitionLeft(b)
  \/ \E p \in Partitions : \/ ServeTimeout(b, p) \/ ServeToppar(b, p)
                           \/ PartitionLeave(b, p) \/ PartitionJoin(b, p)

Next ==
  \/ PidFsm \/ PidUpdate \/ RequestPidFailed \/ Purge
  \/ \E p \in Partitions : \/ Produce(p) \/ Expire(p) \/ Delegate(p)
                           \/ LeaderChange(p) \/ KafkaForget(p)
  \/ \E b \in Brokers : BrokerThread(b) \/ BrokerFail(b) \/ KafkaHandle(b) \/ KafkaStale(b)

Spec == Init /\ [][Next]_vars

(***************************************************************************)
(* Fairness.  A broker thread that is inside a function goes on to its     *)
(* end, and its loop comes back to sending, receiving and its other duties *)
(* (ops, reconnecting) again and again, whatever else there is to do: these*)
(* are alternatives of one loop, hence strong fairness.  The timers of the *)
(* main thread fire, and the cluster answers.                              *)
(***************************************************************************)
Internal(b) ==
  \/ PurgeNext(b) \/ PurgeDrainDone(b) \/ ServeChecks(b)
  \/ ProduceRequest(b)
  \/ FailNext(b) \/ PurgeQueues(b)
  \/ HandleStart(b) \/ HandleSuccess(b) \/ HandleError(b) \/ CallDrainDone(b)
  \/ PartitionLeft(b)
  \/ \E p \in Partitions : ServeTimeout(b, p) \/ ServeToppar(b, p)

Fairness ==
  /\ WF_vars(PidFsm) /\ WF_vars(PidUpdate)
  /\ \A p \in Partitions : WF_vars(Delegate(p))
  /\ \A b \in Brokers :
       /\ WF_vars(Internal(b)) /\ WF_vars(KafkaHandle(b))
       /\ WF_vars(ServeBegin(b)) /\ SF_vars(Transmit(b)) /\ SF_vars(RecvResponse(b))
       /\ SF_vars(\/ Reconnect(b) \/ PurgeOp(b)
                  \/ \E p \in Partitions : PartitionLeave(b, p) \/ PartitionJoin(b, p))

FairSpec == Spec /\ Fairness

-----------------------------------------------------------------------------
(* Properties.                                                             *)

Requests == [tp : Partitions, pid : Int, first_seq : Int,
             msgs : (SUBSET MsgIds) \ {{}}, resp : ReplyCodes \cup {NoReply}]

Clients == [state : IdempStates, pid : NoPid .. EpochSpace - 1,
            inflight_toppar_cnt : Int, fatal : BOOLEAN]
Messages == [retries : Nat, last_msgid : 0 .. MaxMsgs, status : Statuses,
             dr : {"none", "ok", "error"}]
EosStates == [pid : Int, acked_msgid : 0 .. MaxMsgs, epoch_base_msgid : 0 .. MaxMsgs,
              next_ack_seq : Int, next_err_seq : Int, wait_drain : BOOLEAN]
TopparPcs == {"checks", "produce", "purge_pid", "purge_drain", "purge_leave"}
ThreadPcs == TopparPcs \cup {"idle", "toppar", "fail", "purge_op"}
Threads == [pc : ThreadPcs,
            pid : Int, scan : BOOLEAN, todo : SUBSET Partitions,
            tp : Partitions \cup {None}, left : Int, dd : BOOLEAN]
Hands == [phase : {"start", "more", "last"}, req : Requests,
          err : ReplyCodes \cup LocalErrs, sent : BOOLEAN]
Batches == [first_seq : Int, cnt : Nat]
Records == [id : MsgIds, epoch : Int]
Logs == [epoch : Int, window : Seq(Batches), log : Seq(Records)]

RkType == rk \in Clients
MsgType ==
  /\ rktp_msgid \in [Partitions -> 0 .. MaxMsgs]
  /\ rkm \in [Partitions -> [MsgIds -> Messages]]
  /\ \A p \in Partitions : \A m \in MsgIds :
       rkm[p][m].last_msgid # 0 => rkm[p][m].last_msgid >= m
TopparType ==
  /\ msgq \in [Partitions -> SUBSET MsgIds]
  /\ xmit_msgq \in [Partitions -> SUBSET MsgIds]
  /\ msgs_inflight \in [Partitions -> Int]
  /\ eos \in [Partitions -> EosStates]
PlaceType ==
  /\ rktp_broker \in [Partitions -> Brokers \cup {None}]
  /\ next_broker \in [Partitions -> Brokers \cup {None}]
ThreadType ==
  /\ th \in [Brokers -> Threads]
  /\ \A b \in Brokers : th[b].pc \in TopparPcs => th[b].tp \in Partitions
HandType == hand \in [Brokers -> Hands \cup {NoHand}]
BufType ==
  /\ outbufs \in [Brokers -> Seq(Requests)]
  /\ waitresps \in [Brokers -> Seq(Requests)]
  /\ up \in [Brokers -> BOOLEAN]
  /\ purge_op \in [Brokers -> BOOLEAN]
KafkaType ==
  /\ leader \in [Partitions -> Brokers]
  /\ plog \in [Partitions -> Logs]
  /\ stale \in [Brokers -> Seq(Requests)]
  /\ expired \in [Partitions -> Nat]
  /\ faults \in Nat

\* Every variable has its type.  A thread that works on a partition has one, a
\* request carries at least one message, and the last_msgid kept on the first
\* message of a retried batch is not before it.
TypeOK == /\ RkType /\ MsgType /\ TopparType /\ PlaceType /\ ThreadType
          /\ HandType /\ BufType /\ KafkaType

\* The requests inside the client: unsent, waiting for a reply, or having
\* their result handled.
Slots == (UNION {{"out"} \X {b} \X DOMAIN outbufs[b] : b \in Brokers})
         \cup (UNION {{"wait"} \X {b} \X DOMAIN waitresps[b] : b \in Brokers})
         \cup {"hand"} \X {b \in Brokers : hand[b].phase # "none"} \X {1}
ReqAt(s) == CASE s[1] = "out"  -> outbufs[s[2]][s[3]]
              [] s[1] = "wait" -> waitresps[s[2]][s[3]]
              [] s[1] = "hand" -> hand[s[2]].req
SlotsOf(p) == {s \in Slots : ReqAt(s).tp = p}

Written(p) == {plog[p].log[i].id : i \in DOMAIN plog[p].log}

\* Who owns message m of partition p: a queue, a request, or the application
\* that has its delivery report.
Owners(p, m) ==
  {s \in SlotsOf(p) : m \in ReqAt(s).msgs}
  \cup {q \in {"msgq", "xmit_msgq", "dr"} \X {None} \X {0} :
          \/ q[1] = "msgq" /\ m \in msgq[p]
          \/ q[1] = "xmit_msgq" /\ m \in xmit_msgq[p]
          \/ q[1] = "dr" /\ rkm[p][m].dr # "none"}

\* A produced message has exactly one owner at every moment: no path through
\* timeouts, retries, purges, implicit acks and leader changes loses a message,
\* keeps it in two places, or reports it and goes on using it.
MessageConservation ==
  \A p \in Partitions : \A m \in MsgIds :
    IF m <= rktp_msgid[p] THEN \E o \in Owners(p, m) : Owners(p, m) = {o}
                          ELSE Owners(p, m) = {}

\* Message m of the request in slot s counts as in flight.
InFlight(s, m) ==
  (s[1] = "hand" => hand[s[2]].phase = "start") /\ m \in ReqAt(s).msgs

\* rktp_msgs_inflight counts the messages of the partition's requests, and
\* rk_eos.inflight_toppar_cnt the partitions that have any, except for the
\* window between the two decrements of rd_kafka_msgbatch_handle_Produce_result().
\* A count that leaks keeps the drain, and so the producer, waiting for ever.
InflightAccounting ==
  /\ \A p \in Partitions :
       msgs_inflight[p] =
         Cardinality({x \in SlotsOf(p) \X MsgIds : InFlight(x[1], x[2])})
  /\ rk.inflight_toppar_cnt =
       Cardinality({p \in Partitions : msgs_inflight[p] > 0})
       + Cardinality({b \in Brokers : hand[b].phase = "last"})

\* A partition never has more requests in flight than the broker's window of
\* remembered batches (RD_KAFKA_IDEMP_MAX_INFLIGHT): a retry the broker has
\* forgotten would be written twice.
InflightBound ==
  \A p \in Partitions : Cardinality(SlotsOf(p)) <= Window

\* A message reported as delivered is in the log, also when it is another
\* message's acknowledgement that reported it (rd_kafka_dr_implicit_ack()).
DeliveredIsWritten ==
  \A p \in Partitions : \A m \in MsgIds : rkm[p][m].dr = "ok" => m \in Written(p)

\* A message reported as failed with RD_KAFKA_MSG_STATUS_NOT_PERSISTED is not in
\* the log and never will be, so that the application may produce it again.
NotPersistedIsNotWritten ==
  \A p \in Partitions : \A m \in MsgIds :
    rkm[p][m].dr = "error" /\ rkm[p][m].status = "NOT_PERSISTED" => m \notin Written(p)

\* Honest reports: what a delivery report says of a message is true of the log.
HonestReports == DeliveredIsWritten /\ NotPersistedIsNotWritten

\* Ordering: the first copies of the messages are in the order of produce().
LogOrder ==
  \A p \in Partitions : \A i, j \in DOMAIN plog[p].log :
    i < j /\ plog[p].log[i].id > plog[p].log[j].id =>
      \E k \in 1 .. i : plog[p].log[k].id = plog[p].log[j].id

\* The producer never takes what happened for a desynchronised sequence: none
\* of the faults that it must recover from ends in a fatal error.
NoFatalError == ~rk.fatal

\* Gap-less: with enable.gapless.guarantee, a message that failed while a later
\* one is in the log has raised a fatal error (timeouts apart).
GaplessOrFatal ==
  \A p \in Partitions : \A m \in MsgIds :
    /\ Gapless /\ m > expired[p]
    /\ rkm[p][m].dr = "error" /\ m \notin Written(p)
    /\ \E n \in Written(p) : n > m
    => rk.fatal

\* "The PID is not bumped until the queues are fully drained", and a partition
\* takes the new pid, and renumbers its messages, only when no request of its own
\* is left anywhere in the client.
RenumberWhenDrained ==
  [][/\ rk.pid # NoPid /\ rk'.pid # rk.pid => rk.inflight_toppar_cnt = 0
     /\ \A p \in Partitions : eos'[p].pid # eos[p].pid => SlotsOf(p) = {}]_vars

\* Every message is eventually reported, unless a fatal error stops the producer.
AllReported ==
  []<>(\A p \in Partitions : \A m \in MsgIds :
         m <= rktp_msgid[p] => rkm[p][m].dr # "none" \/ rk.fatal)

\* What the application and the consumers of the log see of the state.
Reported(m) == CASE m.dr = "none" -> "none"
                 [] m.dr = "ok" -> "persisted"
                 [] m.dr = "error" /\ m.status = "NOT_PERSISTED" -> "not_persisted"
                 [] OTHER -> "unknown"

\* The producer implements the promise: in order, at most once, honest reports.
ExactlyOnce == INSTANCE ExactlyOnceLog WITH
  produced <- rktp_msgid,
  log <- [p \in Partitions |-> [i \in DOMAIN plog[p].log |-> plog[p].log[i].id]],
  report <- [p \in Partitions |-> [m \in MsgIds |-> Reported(rkm[p][m])]]
ImplementsExactlyOnce == ExactlyOnce!Spec
=============================================================================
