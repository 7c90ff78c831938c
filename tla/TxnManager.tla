----------------------------- MODULE TxnManager -----------------------------
(***************************************************************************)
(* The transaction manager of a transactional producer: the state machine  *)
(* behind init_transactions(), begin_transaction(), produce(),             *)
(* send_offsets_to_transaction(), commit_transaction() and                 *)
(* abort_transaction(), with the acquisition of the producer id it waits   *)
(* for and the look-up of the transaction coordinator.                     *)
(*                                                                         *)
(* `c` is the client instance (rk->rk_eos): the main thread changes it in  *)
(* the handlers of ops, replies and timers, the broker threads when a      *)
(* delivery fails, the application's thread through curr_api.  Each action *)
(* is one critical section; rd_kafka_idemp_drain_epoch_bump0(), which lets *)
(* go of the lock before it raises its error, is one step too.  `app` is   *)
(* the application's thread inside a public call.  The coordinator and the *)
(* logs (`co`) are external.                                               *)
(* A transaction has at most one message per partition; the offsets sent   *)
(* by send_offsets_to_transaction() are a message of the partition OFF.    *)
(***************************************************************************)
EXTENDS Integers, FiniteSets, Sequences

CONSTANTS
  Partitions,    \* partitions that messages are produced to
  MaxTxns,       \* bound: transactions begun
  MaxSends,      \* bound: calls of send_offsets_to_transaction()
  TimeoutPhases, \* the phases of a call that may time out, see Timed
  MaxTimeouts,   \* bound: API calls that time out
  Stalls,        \* a call may time out before the main thread gets to its op
  MaxFaults,     \* bound: faults in a behaviour
  Faults         \* which faults take part, see FaultNames

FaultNames ==
  { "disconnect",   \* the connection to the coordinator breaks
    "coord",        \* NOT_COORDINATOR, COORDINATOR_NOT_AVAILABLE
    "load",         \* COORDINATOR_LOAD_IN_PROGRESS, CONCURRENT_TRANSACTIONS
    "bump",         \* UNKNOWN_PRODUCER_ID, INVALID_PRODUCER_ID_MAPPING
    "perm",         \* an error that fails the transaction
    "find",         \* FindCoordinator fails
    "find_auth",    \* FindCoordinator: TRANSACTIONAL_ID_AUTHORIZATION_FAILED
    "expire",       \* the coordinator's transaction timeout: abort and fence
    "msg_perm",     \* a message is refused
    "msg_bump",     \* a message is refused with UNKNOWN_PRODUCER_ID
    "msg_lost",     \* a ProduceRequest times out: written or not
    "msg_timeout" } \* a message times out in its queue

OFF == "offsets"

\* Phases of a call, see Phases, that end with its timeout; the others wait for
\* as long as it takes.
Timed == {"init", "begin_commit", "begin_abort", "flush", "commit", "abort"}

ASSUME TxnBounds ==
  /\ MaxTxns \in Nat /\ MaxSends \in Nat /\ MaxTimeouts \in Nat /\ MaxFaults \in Nat
ASSUME TxnFaults ==
  Faults \subseteq FaultNames /\ TimeoutPhases \subseteq Timed /\ Stalls \in BOOLEAN
ASSUME TxnPartitions == IsFiniteSet(Partitions) /\ OFF \notin Partitions

VARIABLES
  c,        \* the client instance, see ClientInit
  app,      \* the application's thread
  co,       \* the transaction coordinator and the partition logs
  told,     \* what the application has been told of each transaction
  bound     \* timeouts, faults and calls so far

vars == <<c, app, co, told, bound>>

Messages == (1 .. MaxTxns) \X (Partitions \cup {OFF})

(***************************************************************************)
(* State.                                                                  *)
(***************************************************************************)

TxnStates ==
  {"INIT", "WAIT_PID", "READY_NOT_ACKED", "READY", "IN_TRANSACTION",
   "BEGIN_COMMIT", "COMMITTING_TRANSACTION", "COMMIT_NOT_ACKED", "BEGIN_ABORT",
   "ABORTING_TRANSACTION", "ABORT_NOT_ACKED", "ABORTABLE_ERROR", "FATAL_ERROR"}

IdempStates ==
  {"INIT", "FATAL_ERROR", "REQ_PID", "WAIT_TRANSPORT", "WAIT_PID", "ASSIGNED",
   "DRAIN_RESET", "DRAIN_BUMP", "WAIT_TXN_ABORT"}

\* Classes of rd_kafka_error_t: none, not valid in this state, retriable,
\* txn_requires_abort, fatal.
Errors == {"none", "state", "retriable", "abortable", "fatal"}

Apis == {"init", "begin", "offsets", "commit", "abort"}

\* Requests to the coordinator.  reply is "none" until it is answered or lost.
Request(kind, parts) == [kind |-> kind, parts |-> parts, reply |-> "none"]

ClientInit ==
  [ txn_state  |-> "INIT", idemp_state |-> "INIT",
    fatal      |-> FALSE,  \* rd_kafka_fatal_error_code() is set
    txn_err    |-> FALSE,  \* txn_err is set
    bump       |-> FALSE,  \* txn_requires_epoch_bump
    req_cnt    |-> 0,      \* txn_req_cnt
    may_enq    |-> FALSE,  \* txn_may_enq
    dr_fails   |-> FALSE,  \* txn_dr_fails > 0
    pending    |-> {}, waitresp |-> {}, rktps |-> {},  \* txn_*_rktps
    api        |-> [name |-> "none", calling |-> FALSE, has_result |-> FALSE,
                    error |-> "none"],   \* txn_curr_api
    ops        |-> <<>>,   \* rk_ops: TXN ops of the application
    wire       |-> <<>>,   \* requests to the coordinator and their replies
    offc       |-> "none", \* TxnOffsetCommit: none, to be sent, or sent
    coord      |-> FALSE,  \* txn_curr_coord is known
    up         |-> FALSE,  \* the connection to it is up
    wait_coord |-> FALSE,  \* txn_wait_coord: a FindCoordinator is outstanding
    timers     |-> {},     \* armed: txn_coord_tmr, txn_register_parts_tmr, pid_tmr
    queued     |-> {},     \* messages in the partitions' queues
    flight     |-> {},     \* messages in ProduceRequests
    may_send   |-> FALSE,  \* what the broker thread read at the start of its round
    has_pid    |-> FALSE,  \* the same: the producer id it read is valid
    timedout   |-> {},     \* partitions whose scan timed out a message, bump to follow
    purge      |-> FALSE,  \* a PURGE op is on the broker thread's queue
    txn        |-> 0,      \* transactions begun
    produced   |-> {},     \* messages accepted from the application
    asserts    |-> TRUE ]  \* every rd_assert() so far held

CoordinatorInit ==
  [ parts |-> {}, open |-> FALSE, last |-> "none", fenced |-> FALSE,
    written |-> {}, committed |-> {}, aborted |-> {} ]

Init ==
  /\ c = ClientInit
  /\ app = [at |-> "idle", api |-> "none", stage |-> 0, error |-> "none", arg |-> "none"]
  /\ co = CoordinatorInit
  /\ told = [t \in 1 .. MaxTxns |-> "none"]
  /\ bound = [timeouts |-> 0, faults |-> 0, sends |-> 0]

(***************************************************************************)
(* The current API call: one at a time, its result in one slot.            *)
(***************************************************************************)

RequireState(s, states) ==
  CASE s.txn_state \in states -> "none"
    [] s.txn_state \notin states /\ s.txn_state = "FATAL_ERROR" -> "fatal"
    [] s.txn_state \notin states /\ s.txn_state = "ABORTABLE_ERROR" -> "abortable"
    [] OTHER -> "state"

\* curr_api_set_result(): dropped when no call is current; an error that is
\* already there stays.
SetResult(s, error) ==
  IF s.api.name = "none" THEN s
  ELSE [s EXCEPT !.api.has_result = TRUE,
                 !.api.error = IF @ # "none" THEN @ ELSE error]

Retains(resumable, error) == resumable /\ error \in {"none", "retriable"}

\* curr_api_return(): the call stays current only if it can be resumed.
ApiReturn(s, resumable, error) ==
  IF Retains(resumable, error) THEN [s EXCEPT !.api.calling = FALSE]
  ELSE [s EXCEPT !.api.calling = FALSE, !.api.name = "none", !.api.error = "none"]

(***************************************************************************)
(* Transaction state.                                                      *)
(***************************************************************************)

\* The states a state may be entered from.
Predecessors ==
  [ INIT |-> {},
    WAIT_PID |-> {"INIT"},
    READY_NOT_ACKED |-> {"WAIT_PID"},
    READY |-> {"READY_NOT_ACKED", "COMMIT_NOT_ACKED", "ABORT_NOT_ACKED"},
    IN_TRANSACTION |-> {"READY"},
    BEGIN_COMMIT |-> {"IN_TRANSACTION"},
    COMMITTING_TRANSACTION |-> {"BEGIN_COMMIT"},
    COMMIT_NOT_ACKED |-> {"BEGIN_COMMIT", "COMMITTING_TRANSACTION"},
    BEGIN_ABORT |-> {"IN_TRANSACTION", "ABORTING_TRANSACTION", "ABORTABLE_ERROR"},
    ABORTING_TRANSACTION |-> {"BEGIN_ABORT"},
    ABORT_NOT_ACKED |-> {"BEGIN_ABORT", "ABORTING_TRANSACTION"},
    ABORTABLE_ERROR |-> {"IN_TRANSACTION", "BEGIN_COMMIT", "COMMITTING_TRANSACTION"},
    FATAL_ERROR |-> TxnStates ]

\* Mutant: a late abortable error is not ignored while aborting.
Ignores_OnlyFatal(state, new) == new = "ABORTABLE_ERROR" /\ state = "FATAL_ERROR"

\* Later abortable errors are ignored in these states.
Ignores(state, new) ==
  new = "ABORTABLE_ERROR"
    /\ state \in {"BEGIN_ABORT", "ABORTING_TRANSACTION", "FATAL_ERROR"}

SetState(s, new) ==
  CASE s.txn_state = new \/ Ignores(s.txn_state, new) -> s
    [] s.txn_state # new /\ s.txn_state \in Predecessors[new] ->
         [s EXCEPT !.txn_state = new,
                   !.may_enq = (s.txn_state # "IN_TRANSACTION")
                               /\ (@ \/ new = "IN_TRANSACTION")]
    [] OTHER -> [s EXCEPT !.asserts = FALSE]

SetFatalError(s) ==
  SetResult(SetState([s EXCEPT !.fatal = TRUE, !.txn_err = TRUE], "FATAL_ERROR"),
            "fatal")

SetAbortableError(s, requires_epoch_bump) ==
  LET b == [s EXCEPT !.bump = @ \/ requires_epoch_bump]
  IN CASE s.fatal -> s
       [] ~s.fatal /\ s.txn_err -> b
       [] ~s.fatal /\ ~s.txn_err ->
            [SetState([b EXCEPT !.txn_err = TRUE], "ABORTABLE_ERROR")
               EXCEPT !.purge = TRUE]

(***************************************************************************)
(* The producer id and the coordinator it comes from.                      *)
(***************************************************************************)

\* Mutant: the epoch bump after EndTxn does not complete the abort.
TxnIdempStateChange_NotAborting(s, new) ==
  CASE new = "ASSIGNED" /\ s.txn_state = "WAIT_PID" ->
         SetResult(SetState(s, "READY_NOT_ACKED"), "none")
    [] new = "ASSIGNED" /\ s.txn_state = "BEGIN_ABORT" ->
         SetResult(SetState(s, "ABORT_NOT_ACKED"), "none")
    [] new = "FATAL_ERROR" -> SetState(s, "FATAL_ERROR")
    [] OTHER -> s

\* rd_kafka_txn_idemp_state_change(): what the transaction was waiting for.
TxnIdempStateChange(s, new) ==
  CASE new = "ASSIGNED" /\ s.txn_state = "WAIT_PID" ->
         SetResult(SetState(s, "READY_NOT_ACKED"), "none")
    [] new = "ASSIGNED" /\ s.txn_state \in {"BEGIN_ABORT", "ABORTING_TRANSACTION"} ->
         SetResult(SetState(s, "ABORT_NOT_ACKED"), "none")
    [] new = "FATAL_ERROR" -> SetState(s, "FATAL_ERROR")
    [] OTHER -> s

IdempSetState(s, new) ==
  LET allowed == IF s.fatal /\ new \notin {"DRAIN_RESET", "DRAIN_BUMP"}
                 THEN "FATAL_ERROR" ELSE new
  IN IF s.idemp_state \in {new, allowed} THEN s
     ELSE TxnIdempStateChange([s EXCEPT !.idemp_state = allowed], allowed)

PidValid(s) == s.idemp_state = "ASSIGNED"

Arm(s, timer) == [s EXCEPT !.timers = @ \cup {timer}]

Send(s, request) == [s EXCEPT !.wire = Append(@, request)]

CoordQuery(s) == [s EXCEPT !.wait_coord = TRUE]

\* rd_kafka_idemp_pid_fsm()
PidFsm(s) ==
  LET w == IF s.idemp_state = "REQ_PID" /\ s.coord
           THEN IdempSetState(s, "WAIT_TRANSPORT") ELSE s
  IN CASE s.fatal \/ w.idemp_state \notin {"REQ_PID", "WAIT_TRANSPORT"} -> s
       [] ~s.fatal /\ w.idemp_state \in {"REQ_PID", "WAIT_TRANSPORT"} /\ ~s.coord ->
            CoordQuery(w)
       [] ~s.fatal /\ w.idemp_state = "WAIT_TRANSPORT" /\ s.coord /\ ~s.up ->
            Arm(w, "pid")
       [] ~s.fatal /\ w.idemp_state = "WAIT_TRANSPORT" /\ s.coord /\ s.up ->
            IdempSetState(Send(w, Request("init_pid", {})), "WAIT_PID")

\* rd_kafka_txn_coord_set(), to the coordinator or to none.  Losing it also
\* ends the connection, see Disconnect.
CoordSet(s, known) ==
  CASE ~known -> Arm([s EXCEPT !.coord = FALSE], "coord")
    [] known /\ s.coord -> s
    [] known /\ ~s.coord -> PidFsm([s EXCEPT !.coord = TRUE])

\* rd_kafka_idemp_check_drain_done(): all in-flight requests are done.
CheckDrainDone(s) ==
  IF s.flight = {} /\ s.idemp_state \in {"DRAIN_RESET", "DRAIN_BUMP"}
  THEN Arm(IdempSetState(s, "REQ_PID"), "pid") ELSE s

DrainReset(s) == CheckDrainDone(IdempSetState(s, "DRAIN_RESET"))

\* rd_kafka_idemp_drain_epoch_bump0()
DrainEpochBump(s, allow_txn_abort) ==
  IF allow_txn_abort
  THEN SetAbortableError(IdempSetState(s, "WAIT_TXN_ABORT"), TRUE)
  ELSE CheckDrainDone(IdempSetState(s, "DRAIN_BUMP"))

\* rd_kafka_handle_InitProducerId(), _pid_update() and _request_pid_failed()
HandleInitProducerId(s, reply) ==
  CASE reply = "ok" ->
         IF s.idemp_state = "WAIT_PID" THEN IdempSetState(s, "ASSIGNED") ELSE s
    [] reply = "fenced" -> IdempSetState(SetFatalError(s), "FATAL_ERROR")
    [] reply \in {"transport", "coord", "load", "bump", "perm"} ->
         Arm(IdempSetState(IF reply = "coord" THEN CoordSet(s, FALSE) ELSE s, "REQ_PID"),
             "pid")

(***************************************************************************)
(* Registering partitions with the transaction.                            *)
(***************************************************************************)

\* rd_kafka_txn_add_partition(), on the application's thread.
AddPartition(s, p) ==
  CASE p \in s.pending \cup s.waitresp \cup s.rktps -> s
    [] p \notin s.pending \cup s.waitresp \cup s.rktps ->
         [s EXCEPT !.pending = @ \cup {p},
                   !.timers = IF s.pending = {} THEN @ \cup {"register"} ELSE @]

RegisterPartitions(s) ==
  IF /\ RequireState(s, {"IN_TRANSACTION", "BEGIN_COMMIT"}) = "none"
     /\ s.up /\ s.pending # {} /\ s.waitresp = {} /\ PidValid(s)
  THEN [Send(s, Request("add_parts", s.pending))
          EXCEPT !.waitresp = s.pending, !.pending = {}, !.req_cnt = @ + 1]
  ELSE s

\* rd_kafka_txn_partition_registered() for each partition of the reply: only a
\* partition with PEND_TXN set, which must be on the waitresp list.
PartitionsRegistered(s, parts) ==
  LET pend == parts \cap (s.pending \cup s.waitresp)
  IN [s EXCEPT !.waitresp = @ \ pend, !.rktps = @ \cup pend,
               !.asserts = @ /\ pend \subseteq s.waitresp]

\* rd_kafka_txn_handle_AddPartitionsToTxn()
HandleAddPartitionsToTxn(s, r) ==
  LET outdated == r.reply # "transport"
                    /\ s.txn_state \notin {"IN_TRANSACTION", "BEGIN_COMMIT"}
      checked == [s EXCEPT !.asserts = @
                    /\ (r.reply = "transport" \/ s.txn_state # "COMMITTING_TRANSACTION")
                    /\ ((r.reply = "ok" /\ ~outdated) \/ s.req_cnt > 0)]
      handled == CASE r.reply = "ok"    -> PartitionsRegistered(checked, r.parts)
                   [] r.reply = "coord" -> CoordSet(checked, FALSE)
                   [] OTHER             -> checked
      waiting == [handled EXCEPT !.pending = @ \cup handled.waitresp, !.waitresp = {}]
  IN CASE outdated -> [checked EXCEPT !.req_cnt = @ - 1]
       [] ~outdated /\ r.reply = "fenced" -> SetFatalError(waiting)
       [] ~outdated /\ r.reply = "bump"   -> DrainEpochBump(waiting, TRUE)
       [] ~outdated /\ r.reply = "perm"   -> SetAbortableError(waiting, FALSE)
       [] ~outdated /\ r.reply \in {"ok", "transport", "coord", "load"} ->
            Arm(waiting, "register")

(***************************************************************************)
(* Sending offsets: AddOffsetsToTxn to the transaction coordinator, then   *)
(* TxnOffsetCommit to the group coordinator.                               *)
(***************************************************************************)

OpSendOffsets(s) ==
  LET e == RequireState(s, {"IN_TRANSACTION"})
  IN CASE e # "none" -> SetResult(s, e)
       [] e = "none" /\ ~PidValid(s) -> SetResult(s, "retriable")
       [] e = "none" /\ PidValid(s) ->
            [Send(s, Request("add_offsets", {OFF})) EXCEPT !.req_cnt = @ + 1]

\* rd_kafka_txn_handle_AddOffsetsToTxn(); expired: the call's timeout is over.
HandleAddOffsetsToTxn(s, r, expired) ==
  LET late == expired /\ r.reply = "ok"
      less == [s EXCEPT !.req_cnt = @ - 1, !.asserts = @ /\ s.req_cnt > 0]
      uncertain == r.reply = "transport" \/ late
      counted == CASE late -> [s EXCEPT !.req_cnt = @ + 1]
                   [] r.reply = "transport" -> [less EXCEPT !.req_cnt = @ + 1]
                   [] OTHER -> less
      refreshed == IF uncertain \/ r.reply = "coord" THEN Arm(counted, "coord") ELSE counted
  IN CASE r.reply = "ok" /\ ~late -> [s EXCEPT !.offc = "request"]
       [] r.reply = "fenced" -> SetResult(SetFatalError(less), "fatal")
       [] r.reply \in {"bump", "perm"} -> SetResult(SetAbortableError(less, FALSE), "abortable")
       [] (r.reply \in {"transport", "coord", "load"} \/ late) /\ expired ->
            SetResult(refreshed, "retriable")
       [] r.reply \in {"transport", "coord", "load"} /\ ~expired ->
            Send([refreshed EXCEPT !.req_cnt = @ + 1], Request(r.kind, r.parts))

\* rd_kafka_txn_handle_TxnOffsetCommit()
HandleTxnOffsetCommit(s, reply, expired) ==
  LET done == [s EXCEPT !.offc = "none"]
  IN CASE reply = "ok" -> SetResult([done EXCEPT !.produced = @ \cup {<<s.txn, OFF>>}], "none")
       [] reply = "fenced" -> SetResult(SetFatalError(done), "fatal")
       [] reply = "transport" /\ ~expired -> [s EXCEPT !.offc = "request"]
       [] reply = "perm" \/ (reply = "transport" /\ expired) ->
            SetResult(SetAbortableError(done, FALSE), "abortable")

\* rd_kafka_txn_send_TxnOffsetCommitRequest(), called for the coord_req.
SendTxnOffsetCommitRequest(s) ==
  IF s.txn_state = "IN_TRANSACTION" /\ PidValid(s)
  THEN [s EXCEPT !.offc = "sent"] ELSE HandleTxnOffsetCommit(s, "perm", FALSE)

(***************************************************************************)
(* Ending the transaction.                                                 *)
(***************************************************************************)

ClearPendingPartitions(s) == [s EXCEPT !.pending = {}, !.waitresp = {}]

TxnComplete(s) ==
  SetState([ClearPendingPartitions(s)
              EXCEPT !.rktps = {}, !.bump = FALSE, !.req_cnt = 0], "READY")

\* rd_kafka_txn_endtxn_complete(): the name of the current call tells what was
\* done; an epoch bump, if one is required, comes first.
EndTxnComplete(s) ==
  LET is_commit == s.api.name = "commit"
  IN IF s.bump THEN DrainEpochBump(s, FALSE)
     ELSE SetResult(SetState(s, IF is_commit THEN "COMMIT_NOT_ACKED" ELSE "ABORT_NOT_ACKED"),
                    "none")

\* rd_kafka_txn_handle_EndTxn()
HandleEndTxn(s, r) ==
  LET is_commit == r.kind = "end_commit"
      may_retry == s.txn_state \in {"COMMITTING_TRANSACTION", "ABORTING_TRANSACTION"}
      refreshed == CASE r.reply = "transport" -> Arm(s, "coord")
                     [] r.reply = "coord"     -> CoordSet(s, FALSE)
                     [] OTHER                 -> s
      reverted == IF s.txn_state = "ABORTING_TRANSACTION"
                  THEN SetState(s, "BEGIN_ABORT") ELSE s
  IN CASE s.txn_state = "ABORTABLE_ERROR" ->
            SetResult(s, IF r.reply = "ok" /\ is_commit THEN "fatal" ELSE "abortable")
       [] s.txn_state # "ABORTABLE_ERROR" /\ r.reply = "ok" ->
            IF may_retry THEN EndTxnComplete(s) ELSE SetResult(s, "state")
       [] s.txn_state # "ABORTABLE_ERROR" /\ r.reply = "fenced" ->
            SetResult(SetFatalError(s), "fatal")
       [] s.txn_state # "ABORTABLE_ERROR" /\ r.reply \in {"transport", "coord", "load"} ->
            IF may_retry THEN Send(refreshed, Request(r.kind, r.parts))
            ELSE SetResult(refreshed, "retriable")
       [] s.txn_state # "ABORTABLE_ERROR" /\ r.reply = "bump" /\ ~is_commit ->
            DrainEpochBump(s, FALSE)
       [] s.txn_state # "ABORTABLE_ERROR" /\ (r.reply = "perm" \/ (r.reply = "bump" /\ is_commit)) ->
            SetResult(SetAbortableError(reverted, r.reply = "bump"), "abortable")

\* Ops of the application, on the main thread.  Each ends in a result, or
\* leaves it to a reply or to IdempSetState().
OpInitTransactions(s) ==
  LET e == RequireState(s, {"INIT", "WAIT_PID", "READY_NOT_ACKED"})
      w == SetState(s, "WAIT_PID")
  IN CASE e # "none" -> SetResult(s, e)
       [] e = "none" /\ s.txn_state = "READY_NOT_ACKED" -> s
       [] e = "none" /\ s.txn_state # "READY_NOT_ACKED" ->
            Arm(IF w.idemp_state = "WAIT_PID" THEN w ELSE IdempSetState(w, "REQ_PID"), "pid")

OpAckInitTransactions(s) ==
  LET e == RequireState(s, {"READY_NOT_ACKED"})
  IN SetResult(IF e = "none" THEN SetState(s, "READY") ELSE s, e)

OpBeginTransaction(s) ==
  LET e == RequireState(s, {"READY"})
      b == SetState(s, "IN_TRANSACTION")
  IN SetResult(IF e # "none" THEN s
               ELSE [b EXCEPT !.dr_fails = FALSE, !.txn_err = FALSE, !.txn = @ + 1,
                              !.asserts = @ /\ s.rktps = {} /\ s.req_cnt = 0],
               e)

OpBeginCommit(s) ==
  LET e == RequireState(s, {"IN_TRANSACTION", "BEGIN_COMMIT", "COMMITTING_TRANSACTION",
                            "COMMIT_NOT_ACKED"})
  IN SetResult(IF s.txn_state = "IN_TRANSACTION" THEN SetState(s, "BEGIN_COMMIT") ELSE s, e)

\* Mutant: failed deliveries do not fail the commit.
OpCommitTransaction_NoDrFails(s) ==
  LET e == RequireState(s, {"BEGIN_COMMIT", "COMMITTING_TRANSACTION", "COMMIT_NOT_ACKED"})
  IN CASE e # "none" ->
            SetResult(IF e = "abortable" THEN SetAbortableError(s, FALSE) ELSE s, e)
       [] s.txn_state = "COMMIT_NOT_ACKED" -> SetResult(s, "none")
       [] s.txn_state = "COMMITTING_TRANSACTION" -> s
       [] s.txn_state = "BEGIN_COMMIT" /\ s.req_cnt = 0 -> EndTxnComplete(s)
       [] s.txn_state = "BEGIN_COMMIT" /\ s.req_cnt # 0 ->
            IF ~PidValid(s) THEN SetResult(s, "retriable")
            ELSE SetState(Send(s, Request("end_commit", {})), "COMMITTING_TRANSACTION")

OpCommitTransaction(s) ==
  LET e == RequireState(s, {"BEGIN_COMMIT", "COMMITTING_TRANSACTION", "COMMIT_NOT_ACKED"})
  IN CASE e # "none" ->
            SetResult(IF e = "abortable" THEN SetAbortableError(s, FALSE) ELSE s, e)
       [] s.txn_state = "COMMIT_NOT_ACKED" -> SetResult(s, "none")
       [] s.txn_state = "COMMITTING_TRANSACTION" -> s
       [] s.txn_state = "BEGIN_COMMIT" /\ s.dr_fails ->
            SetResult(SetAbortableError(s, FALSE), "abortable")
       [] s.txn_state = "BEGIN_COMMIT" /\ ~s.dr_fails /\ s.req_cnt = 0 -> EndTxnComplete(s)
       [] s.txn_state = "BEGIN_COMMIT" /\ ~s.dr_fails /\ s.req_cnt # 0 ->
            IF ~PidValid(s) THEN SetResult(s, "retriable")
            ELSE SetState(Send(s, Request("end_commit", {})), "COMMITTING_TRANSACTION")

OpCommitTransactionAck(s) ==
  LET e == RequireState(s, {"COMMIT_NOT_ACKED"})
  IN SetResult(IF e = "none" THEN TxnComplete(s) ELSE s, e)

OpBeginAbort(s) ==
  LET e == RequireState(s, {"IN_TRANSACTION", "BEGIN_ABORT", "ABORTING_TRANSACTION",
                            "ABORTABLE_ERROR", "ABORT_NOT_ACKED"})
  IN SetResult(IF s.txn_state \in {"IN_TRANSACTION", "ABORTABLE_ERROR"}
               THEN ClearPendingPartitions(SetState(s, "BEGIN_ABORT")) ELSE s, e)

\* While the producer id is being acquired there is nothing to send: the reply
\* to that request ends the abort, see TxnIdempStateChange.
OpAbortTransaction(s) ==
  LET e == RequireState(s, {"BEGIN_ABORT", "ABORTING_TRANSACTION", "ABORT_NOT_ACKED"})
  IN CASE e # "none" -> SetResult(s, e)
       [] s.txn_state = "ABORT_NOT_ACKED" -> SetResult(s, "none")
       [] s.txn_state = "ABORTING_TRANSACTION" -> s
       [] s.txn_state = "BEGIN_ABORT" /\ s.req_cnt = 0 -> EndTxnComplete(s)
       [] s.txn_state = "BEGIN_ABORT" /\ s.req_cnt # 0 ->
            IF s.idemp_state \notin {"ASSIGNED", "WAIT_TXN_ABORT"} THEN s
            ELSE SetState(Send(s, Request("end_abort", {})), "ABORTING_TRANSACTION")

OpAbortTransactionAck(s) ==
  LET e == RequireState(s, {"ABORT_NOT_ACKED"})
  IN SetResult(IF e = "none" THEN TxnComplete(s) ELSE s, e)

(***************************************************************************)
(* The main thread.                                                        *)
(***************************************************************************)

Op(s, op) ==
  CASE op = "init"         -> OpInitTransactions(s)
    [] op = "init_ack"     -> OpAckInitTransactions(s)
    [] op = "begin"        -> OpBeginTransaction(s)
    [] op = "offsets"      -> OpSendOffsets(s)
    [] op = "begin_commit" -> OpBeginCommit(s)
    [] op = "commit"       -> OpCommitTransaction(s)
    [] op = "commit_ack"   -> OpCommitTransactionAck(s)
    [] op = "begin_abort"  -> OpBeginAbort(s)
    [] op = "abort"        -> OpAbortTransaction(s)
    [] op = "abort_ack"    -> OpAbortTransactionAck(s)

HandleOp ==
  /\ c.ops # <<>>
  /\ c' = Op([c EXCEPT !.ops = Tail(@)], Head(c.ops))
  /\ UNCHANGED <<app, co, told, bound>>

Expiry(expired) ==
  /\ expired => bound.timeouts < MaxTimeouts
  /\ bound' = IF expired THEN [bound EXCEPT !.timeouts = @ + 1] ELSE bound

HandleReply ==
  /\ c.wire # <<>> /\ Head(c.wire).reply # "none"
  /\ LET r == Head(c.wire)
         s == [c EXCEPT !.wire = Tail(@)]
     IN \/ /\ r.kind = "add_offsets"
           /\ \E expired \in BOOLEAN :
                /\ Expiry(expired)
                /\ c' = HandleAddOffsetsToTxn(s, r, expired)
        \/ /\ r.kind # "add_offsets"
           /\ c' = CASE r.kind = "add_parts" -> HandleAddPartitionsToTxn(s, r)
                     [] r.kind = "init_pid"  -> HandleInitProducerId(s, r.reply)
                     [] r.kind \in {"end_commit", "end_abort"} -> HandleEndTxn(s, r)
           /\ UNCHANGED bound
  /\ UNCHANGED <<app, co, told>>

\* A timer fires.
Timer ==
  /\ \E t \in c.timers :
       LET s == [c EXCEPT !.timers = @ \ {t}]
       IN c' = CASE t = "coord"    -> CoordQuery(s)
                 [] t = "pid"      -> PidFsm(s)
                 [] t = "register" -> RegisterPartitions(s)
  /\ UNCHANGED <<app, co, told, bound>>

Fault(f) ==
  /\ f \in Faults /\ bound.faults < MaxFaults
  /\ bound' = [bound EXCEPT !.faults = @ + 1]

\* rd_kafka_txn_handle_FindCoordinator()
HandleFindCoordinator ==
  /\ c.wait_coord
  /\ LET s == [c EXCEPT !.wait_coord = FALSE]
     IN \/ c' = CoordSet(s, TRUE) /\ UNCHANGED bound
        \/ c' = CoordSet(s, FALSE) /\ Fault("find")
        \/ c' = IdempSetState(SetFatalError(s), "FATAL_ERROR") /\ Fault("find_auth")
  /\ UNCHANGED <<app, co, told>>

\* rd_kafka_txn_coord_monitor_cb(), coordinator up.
Connect ==
  /\ c.coord /\ ~c.up
  /\ LET s == [c EXCEPT !.up = TRUE]
     IN c' = CASE s.idemp_state \in {"INIT", "FATAL_ERROR", "REQ_PID", "WAIT_TRANSPORT",
                                     "WAIT_PID"} -> PidFsm(s)
               [] s.idemp_state = "ASSIGNED" -> Arm(s, "register")
               [] OTHER -> s
  /\ UNCHANGED <<app, co, told, bound>>

\* The connection breaks, or is closed because the coordinator is not one any
\* more: requests whose reply has not arrived fail, carried out or not.
Disconnect ==
  /\ c.up
  /\ \/ ~c.coord /\ UNCHANGED bound
     \/ c.coord /\ Fault("disconnect")
  /\ \E n \in 0 .. Len(c.wire) :
       /\ \A i \in 1 .. n : c.wire[i].reply # "none"
       /\ c' = Arm([c EXCEPT !.up = FALSE,
                      !.wire = [i \in DOMAIN @ |->
                                  IF i <= n THEN @[i] ELSE [@[i] EXCEPT !.reply = "transport"]]],
                   "coord")
  /\ UNCHANGED <<app, co, told>>

\* The coord_req for the TxnOffsetCommit is ready to be sent.
SendTxnOffsetCommit ==
  /\ c.offc = "request"
  /\ c' = SendTxnOffsetCommitRequest(c)
  /\ UNCHANGED <<app, co, told, bound>>

(***************************************************************************)
(* The broker threads, as one: they send, deliver, time out and purge the  *)
(* messages.                                                               *)
(***************************************************************************)

\* rd_kafka_broker_produce_toppars(): read once for a round of the partitions.
BrokerRound ==
  /\ c' = [c EXCEPT !.may_send = PidValid(c) /\ c.txn_state \in {"IN_TRANSACTION", "BEGIN_COMMIT"},
                    !.has_pid = PidValid(c)]
  /\ c' # c
  /\ UNCHANGED <<app, co, told, bound>>

\* Mutant: the partition need not be registered.
SendMessage_Unregistered ==
  /\ c.may_send /\ ~c.fatal
  /\ \E m \in c.queued : c' = [c EXCEPT !.queued = @ \ {m}, !.flight = @ \cup {m}]
  /\ UNCHANGED <<app, co, told, bound>>

\* rd_kafka_toppar_producer_serve()
SendMessage ==
  /\ c.may_send /\ ~c.fatal
  /\ \E m \in c.queued :
       /\ m[2] \in c.rktps
       /\ c' = [c EXCEPT !.queued = @ \ {m}, !.flight = @ \cup {m}]
  /\ UNCHANGED <<app, co, told, bound>>

\* The messages have failed: rd_kafka_dr_msgq0() counts them.
Failed(s, ms) == [s EXCEPT !.dr_fails = @ \/ ms # {}]

\* The ProduceRequest of m is done.
Landed(s, m) == CheckDrainDone([s EXCEPT !.flight = @ \ {m}])

\* A ProduceResponse, or the lack of one: rd_kafka_handle_Produce_error().
HandleProduce(m) ==
  LET refused == Failed(c, {m})
  IN \/ /\ ~co.fenced
        /\ c' = Landed(c, m)
        /\ co' = [co EXCEPT !.written = @ \cup {m}]
        /\ UNCHANGED bound
     \/ /\ co.fenced
        /\ c' = Landed(DrainReset(SetFatalError(refused)), m)
        /\ UNCHANGED <<co, bound>>
     \/ /\ Fault("msg_perm")
        /\ c' = Landed(SetAbortableError(refused, FALSE), m)
        /\ UNCHANGED co
     \/ /\ Fault("msg_bump")
        /\ c' = Landed(SetAbortableError(DrainEpochBump(refused, TRUE), TRUE), m)
        /\ UNCHANGED co
     \/ /\ Fault("msg_lost")
        /\ c' = Landed(refused, m)
        /\ \/ UNCHANGED co
           \/ ~co.fenced /\ co' = [co EXCEPT !.written = @ \cup {m}]

ProduceReply ==
  /\ \E m \in c.flight : HandleProduce(m)
  /\ UNCHANGED <<app, told>>

\* A message that is not sent: after a fatal error, or outside a transaction.
Stuck(s) == s.fatal \/ s.txn_state \notin {"IN_TRANSACTION", "BEGIN_COMMIT"}

\* rd_kafka_broker_toppar_msgq_scan(): a message times out before it is sent.  That
\* is a fault when it would have been sent; a stuck one always ends this way.  The
\* scan is the internal broker's, which has nothing more to do, or one of the
\* leader's thread, which needs a new epoch if its round has a producer id.
MessageTimeout ==
  /\ \E m \in c.queued :
       LET s == Failed([c EXCEPT !.queued = @ \ {m}], {m})
       IN \/ c' = s
          \/ c.has_pid /\ c' = [s EXCEPT !.timedout = @ \cup {m[2]}]
  /\ IF Stuck(c) THEN UNCHANGED bound ELSE Fault("msg_timeout")
  /\ UNCHANGED <<app, co, told>>

\* rd_kafka_toppar_producer_serve() goes on after the scan, without the lock.
TimeoutBump ==
  /\ \E p \in c.timedout : c' = DrainEpochBump([c EXCEPT !.timedout = @ \ {p}], TRUE)
  /\ UNCHANGED <<app, co, told, bound>>

\* rd_kafka_purge(), RD_KAFKA_PURGE_F_QUEUE: a broker thread gets to the op
\* between two rounds.
Purged(s) ==
  [Failed(s, s.queued)
     EXCEPT !.queued = {}, !.purge = FALSE, !.may_send = FALSE, !.has_pid = FALSE]

PurgeQueues ==
  /\ c.purge /\ c.timedout = {}
  /\ c' = Purged(c)
  /\ UNCHANGED <<app, co, told, bound>>

(***************************************************************************)
(* The application's thread.                                               *)
(***************************************************************************)

\* The phases of each call: ops to the main thread, and rd_kafka_flush().
Phases ==
  [ init    |-> <<"init", "init_ack">>,
    begin   |-> <<"begin">>,
    offsets |-> <<"offsets">>,
    commit  |-> <<"begin_commit", "flush", "commit", "commit_ack">>,
    abort   |-> <<"begin_abort", "flush", "abort", "abort_ack">> ]

Phase == Phases[app.api][app.stage]

\* Phases after which a retriable error leaves the call current.
Resumable == {"init", "flush", "commit", "abort"}

\* curr_api_begin(): a call that is not in conflict with the current one.
Call(api) ==
  /\ app.at = "idle"
  /\ c.api.name \in {"none", api} /\ ~c.api.calling
  /\ c' = [c EXCEPT !.api.name = api, !.api.calling = TRUE,
                    !.asserts = @ /\ (c.api.name = api \/ c.api.error = "none")]
  /\ app' = [app EXCEPT !.at = "enter", !.api = api, !.stage = 1]
  /\ UNCHANGED <<co, told>>

InitTransactions == Call("init") /\ UNCHANGED bound
BeginTransaction == c.txn < MaxTxns /\ Call("begin") /\ UNCHANGED bound
SendOffsets ==
  /\ bound.sends < MaxSends
  /\ Call("offsets")
  /\ bound' = [bound EXCEPT !.sends = @ + 1]
CommitTransaction == Call("commit") /\ UNCHANGED bound
AbortTransaction == Call("abort") /\ UNCHANGED bound

\* The phase has ended with this error: on to the next one, or return.
PhaseDone(a, error) ==
  IF error = "none" /\ a.stage < Len(Phases[a.api])
  THEN [a EXCEPT !.at = "enter", !.stage = @ + 1]
  ELSE [a EXCEPT !.at = "return", !.error = error]

\* rd_kafka_txn_op_req(): a result that is already there is taken and the op is
\* not sent.  An abort's flush() is preceded by a blocking purge, which waits for
\* the broker threads to be between two rounds.
Enter ==
  /\ app.at = "enter"
  /\ \/ /\ Phase = "flush" /\ (app.api = "abort" => c.timedout = {})
        /\ c' = IF app.api = "abort" THEN Purged(c) ELSE c
        /\ app' = [app EXCEPT !.at = "flush"]
     \/ /\ Phase # "flush" /\ c.api.has_result
        /\ c' = [c EXCEPT !.api.has_result = FALSE, !.api.error = "none"]
        /\ app' = PhaseDone(app, c.api.error)
     \/ /\ Phase # "flush" /\ ~c.api.has_result
        /\ c' = [c EXCEPT !.ops = Append(@, Phase)]
        /\ app' = [app EXCEPT !.at = "wait"]
  /\ UNCHANGED <<co, told, bound>>

TakeResult ==
  /\ app.at = "wait" /\ c.api.has_result
  /\ c' = [c EXCEPT !.api.has_result = FALSE, !.api.error = "none"]
  /\ app' = PhaseDone(app, c.api.error)
  /\ UNCHANGED <<co, told, bound>>

\* rd_kafka_flush() returns once no message is queued or in flight.
Flushed ==
  /\ app.at = "flush" /\ c.queued \cup c.flight = {}
  /\ app' = PhaseDone(app, "none")
  /\ UNCHANGED <<c, co, told, bound>>

TimedOut ==
  /\ app.at \in {"wait", "flush"} /\ Phase \in TimeoutPhases
  /\ app.at = "wait" => ~c.api.has_result /\ (Stalls \/ c.ops = <<>>)
  /\ app.at = "flush" => c.queued \cup c.flight # {}
  /\ Expiry(TRUE)
  /\ app' = PhaseDone(app, "retriable")
  /\ UNCHANGED <<c, co, told>>

\* The call returns; success of commit and abort is what the application may
\* rely on.
Return ==
  /\ app.at = "return"
  /\ c' = ApiReturn(c, Phase \in Resumable, app.error)
  /\ app' = [app EXCEPT !.at = "idle", !.api = "none", !.stage = 0, !.error = "none"]
  /\ told' = IF app.error = "none" /\ app.api \in {"commit", "abort"} /\ c.txn > 0
             THEN [told EXCEPT ![c.txn] = app.api] ELSE told
  /\ UNCHANGED <<co, bound>>

\* rd_kafka_produce() checks that messages are accepted, then queues this one.
ProduceCheck ==
  /\ app.at = "idle"
  /\ ~c.fatal /\ c.may_enq
  /\ \E p \in Partitions :
       /\ <<c.txn, p>> \notin c.produced
       /\ app' = [app EXCEPT !.at = "produce", !.arg = p]
  /\ UNCHANGED <<c, co, told, bound>>

ProduceEnqueue ==
  /\ app.at = "produce"
  /\ c' = AddPartition([c EXCEPT !.queued = @ \cup {<<c.txn, app.arg>>},
                                 !.produced = @ \cup {<<c.txn, app.arg>>}], app.arg)
  /\ app' = [app EXCEPT !.at = "idle", !.arg = "none"]
  /\ UNCHANGED <<co, told, bound>>

(***************************************************************************)
(* The transaction coordinator, the group coordinator and the logs.        *)
(***************************************************************************)

\* Markers end every open message of the registered partitions.
Ended(k, how) ==
  LET ms == {m \in k.written \ (k.committed \cup k.aborted) : m[2] \in k.parts}
  IN [k EXCEPT !.open = FALSE, !.parts = {}, !.last = how,
               !.committed = IF how = "end_commit" THEN @ \cup ms ELSE @,
               !.aborted = IF how = "end_commit" THEN @ ELSE @ \cup ms]

\* Requests are handled in order.  EndTxn may be repeated; INVALID_TXN_STATE is
\* as fatal to the client as being fenced.
CoordinatorReply(k, r) ==
  CASE k.fenced -> "fenced"
    [] ~k.fenced /\ r.kind \in {"end_commit", "end_abort"} ->
         IF k.open \/ k.last = r.kind THEN "ok" ELSE "fenced"
    [] OTHER -> "ok"

CoordinatorStep(k, r) ==
  CASE CoordinatorReply(k, r) # "ok" -> k
    [] CoordinatorReply(k, r) = "ok" /\ r.kind \in {"add_parts", "add_offsets"} ->
         [k EXCEPT !.open = TRUE, !.parts = @ \cup r.parts]
    [] CoordinatorReply(k, r) = "ok" /\ r.kind \in {"end_commit", "end_abort"} ->
         IF k.open THEN Ended(k, r.kind) ELSE k
    [] CoordinatorReply(k, r) = "ok" /\ r.kind = "init_pid" -> Ended(k, "none")

Unanswered(i) ==
  c.wire[i].reply = "none" /\ \A j \in 1 .. (i - 1) : c.wire[j].reply # "none"

Coordinator ==
  /\ c.up
  /\ \E i \in DOMAIN c.wire :
       /\ Unanswered(i)
       /\ \/ /\ c' = [c EXCEPT !.wire[i].reply = CoordinatorReply(co, c.wire[i])]
             /\ co' = CoordinatorStep(co, c.wire[i])
             /\ UNCHANGED bound
          \/ \E f \in {"coord", "load", "bump", "perm"} :
               /\ Fault(f)
               /\ c' = [c EXCEPT !.wire[i].reply = f]
               /\ UNCHANGED co
  /\ UNCHANGED <<app, told>>

GroupCoordinator ==
  /\ c.offc = "sent"
  /\ \/ /\ ~co.fenced
        /\ c' = HandleTxnOffsetCommit(c, "ok", FALSE)
        /\ co' = [co EXCEPT !.written = @ \cup {<<c.txn, OFF>>}]
        /\ UNCHANGED bound
     \/ /\ co.fenced
        /\ c' = HandleTxnOffsetCommit(c, "fenced", FALSE)
        /\ UNCHANGED <<co, bound>>
     \/ /\ Fault("perm")
        /\ c' = HandleTxnOffsetCommit(c, "perm", FALSE)
        /\ UNCHANGED co
     \/ /\ Fault("disconnect")
        /\ \E expired \in BOOLEAN : c' = HandleTxnOffsetCommit(c, "transport", expired)
        /\ \/ UNCHANGED co
           \/ ~co.fenced /\ co' = [co EXCEPT !.written = @ \cup {<<c.txn, OFF>>}]
  /\ UNCHANGED <<app, told>>

\* transaction.timeout.ms runs out at the coordinator: it aborts the transaction
\* and bumps the epoch, which fences this producer.
Expire ==
  /\ co.open /\ Fault("expire")
  /\ co' = [Ended(co, "none") EXCEPT !.fenced = TRUE]
  /\ UNCHANGED <<c, app, told>>

(***************************************************************************)
(* Specification.                                                          *)
(***************************************************************************)

MainThread == HandleOp \/ HandleReply \/ Timer \/ HandleFindCoordinator \/ SendTxnOffsetCommit

BrokerThread ==
  \/ BrokerRound \/ SendMessage \/ ProduceReply \/ MessageTimeout \/ TimeoutBump
  \/ PurgeQueues

AppThread ==
  \/ InitTransactions \/ BeginTransaction \/ SendOffsets \/ CommitTransaction
  \/ AbortTransaction \/ Enter \/ TakeResult \/ Flushed \/ TimedOut \/ Return
  \/ ProduceCheck \/ ProduceEnqueue

Environment == Connect \/ Disconnect \/ Coordinator \/ GroupCoordinator \/ Expire

Next == MainThread \/ BrokerThread \/ AppThread \/ Environment

Spec == Init /\ [][Next]_vars

\* Timers fire, broker threads go on with their rounds, requests are answered or
\* fail, the connection is re-established, and a call in progress goes on.
Fairness ==
  /\ WF_vars(HandleOp) /\ WF_vars(HandleReply) /\ WF_vars(HandleFindCoordinator)
  /\ WF_vars(SendTxnOffsetCommit)
  /\ \A t \in {"coord", "pid", "register"} : WF_vars(Timer /\ t \in c.timers /\ t \notin c'.timers)
  /\ WF_vars(BrokerRound) /\ WF_vars(SendMessage) /\ WF_vars(ProduceReply)
  /\ WF_vars(PurgeQueues) /\ WF_vars(MessageTimeout /\ Stuck(c)) /\ WF_vars(TimeoutBump)
  /\ WF_vars(Enter) /\ WF_vars(TakeResult) /\ WF_vars(Flushed) /\ WF_vars(Return)
  /\ WF_vars(ProduceEnqueue)
  /\ WF_vars(Connect) /\ WF_vars(Disconnect /\ ~c.coord)
  /\ WF_vars(Coordinator) /\ WF_vars(GroupCoordinator)

FairSpec == Spec /\ Fairness

(***************************************************************************)
(* Properties.                                                             *)
(***************************************************************************)

Of(t, ms) == {m \in ms : m[1] = t}

\* Every field has its type: the state machines of rdkafka_txnmgr.c and
\* rdkafka_idempotence.c stay in their states, and txn_req_cnt, which each
\* request counts and each reply discounts, never falls below zero.
TypeOK ==
  /\ c.txn_state \in TxnStates /\ c.idemp_state \in IdempStates
  /\ c.req_cnt \in Nat /\ c.txn \in 0 .. MaxTxns
  /\ c.api.name \in Apis \cup {"none"} /\ c.api.error \in Errors
  /\ c.pending \cup c.waitresp \cup c.rktps \subseteq Partitions
  /\ c.queued \cup c.flight \cup c.produced \subseteq Messages /\ c.timedout \subseteq Partitions
  /\ c.timers \subseteq {"coord", "pid", "register"}
  /\ app.at \in {"idle", "enter", "wait", "flush", "return", "produce"}
  /\ co.written \subseteq Messages
  /\ told \in [1 .. MaxTxns -> {"none", "commit", "abort"}]

\* No rd_assert() of rdkafka_txnmgr.c fails, whatever the broker threads report
\* while the main thread commits or aborts: every change of the transaction's
\* state is a valid one (rd_kafka_txn_set_state()), a request that is answered
\* has been counted, and nothing is left of the last transaction when the next
\* begins.  The state keeps its types.
AssertsHold == TypeOK /\ c.asserts

\* All or nothing: if any message or offset of a transaction is committed, all
\* that the application has given to it are.  An error that reaches the client
\* from any request, or for any message, must stop rd_kafka_commit_transaction()
\* before it sends EndTxn.
AllOrNothing ==
  \A t \in 1 .. MaxTxns :
    Of(t, co.committed) # {} => Of(t, c.produced) \subseteq co.committed

\* What rd_kafka_commit_transaction() returns is true: a commit the application was
\* told of has committed every message.
CommitIsTrue ==
  \A t \in 1 .. MaxTxns : told[t] = "commit" => Of(t, c.produced) \subseteq co.committed

\* What rd_kafka_abort_transaction() returns is true: no message of the transaction
\* is committed, nor will one be by a later transaction.
AbortIsTrue ==
  \A t \in 1 .. MaxTxns : told[t] = "abort" => Of(t, co.committed) = {}

\* The application is told the truth about the outcome of its transactions.
ToldTheTruth == CommitIsTrue /\ AbortIsTrue

\* Every transactional call returns: the main thread sets a result for it
\* (rd_kafka_txn_curr_api_set_result()) on every path of recovery, or its timeout
\* ends it where the code gives it one.
CallsReturn == (app.at # "idle") ~> (app.at = "idle")
=============================================================================
