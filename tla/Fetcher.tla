------------------------------ MODULE Fetcher -------------------------------
(***************************************************************************)
(* The fetcher of one consumed partition: the version barrier, the fetch   *)
(* state machine with its look-up and validation of offsets, the Fetch     *)
(* loop of the broker thread and the queue to the application.             *)
(*                                                                         *)
(* Three threads meet on the partition `c` (rd_kafka_toppar_t): the        *)
(* application calls start, seek, pause, resume and stop, each an op on    *)
(* rktp_ops under a new version, and consumes from rktp_fetchq; the main   *)
(* thread handles rktp_ops, the timers and the metadata; the thread of     *)
(* rktp_broker fetches.  Each action is one critical section.              *)
(*                                                                         *)
(* The leader of leader epoch e is broker e.  A position is an offset,     *)
(* negative when logical, with the leader epoch it was read in, 0 when     *)
(* unknown.  The fields era, start and asked of `c`, and era and start of  *)
(* a fetch and a message, are history: an era begins when the partition is *)
(* rightly placed at a new position, and start is that position.           *)
(***************************************************************************)
EXTENDS Integers, Sequences, SequencesExt

CONSTANTS
  InitLog,    \* messages in the log at first, of leader epoch 1
  MaxLog,     \* bound: length of the log
  MaxMoves,   \* bound: changes of leader
  MaxCalls,   \* bound: calls of the application
  MaxFaults,  \* bound: faults
  Faults,     \* which faults take part, see FaultNames
  FetchMax,   \* messages in a Fetch response
  QueueMin,   \* queued.min.messages
  Policy,     \* auto.offset.reset: "earliest", "latest" or "error"
  Starts,     \* positions the application starts at
  Seeks,      \* positions it seeks to
  OneAtATime  \* one thing at a time moves the position of the partition, see Calm

FaultNames ==
  { "trim",      \* retention deletes the head of the log
    "truncate",  \* a new leader lacks the tail of the log
    "lookup",    \* a ListOffsets or OffsetForLeaderEpoch request fails
    "refused",   \* ListOffsets is refused for good
    "lost" }     \* a Fetch request is lost with its connection

Invalid == -1
Begin   == -2
End     == -3

Pos(off, ep) == [off |-> off, ep |-> ep]
NoPos == Pos(Invalid, 0)

AutoOffsetReset == CASE Policy = "earliest" -> Begin
                     [] Policy = "latest"   -> End
                     [] Policy = "error"    -> Invalid

Offsets == 0 .. MaxLog
Epochs  == 0 .. MaxMoves + 1
Positions == [off : Offsets \cup {Invalid, Begin, End}, ep : Epochs]

ASSUME FetcherBounds ==
  /\ InitLog \in Nat /\ MaxLog \in Nat /\ MaxMoves \in Nat /\ InitLog <= MaxLog
  /\ MaxCalls \in Nat /\ MaxFaults \in Nat
  /\ FetchMax \in Nat \ {0} /\ QueueMin \in Nat \ {0}
ASSUME FetcherFaults ==
  /\ Faults \subseteq FaultNames /\ OneAtATime \in BOOLEAN
  /\ Policy \in {"earliest", "latest", "error"}
  /\ Starts \subseteq Positions /\ Seeks \subseteq Positions

VARIABLES
  c,      \* the partition, its queues and its requests, see PartitionInit
  log,    \* external: the partition's log at its leader
  call,   \* the application's thread inside a call
  app,    \* what the application knows
  bound   \* calls and faults so far

vars == <<c, log, call, app, bound>>

(***************************************************************************)
(* State.                                                                  *)
(***************************************************************************)

FetchStates == {"NONE", "STOPPED", "OFFSET_QUERY", "OFFSET_WAIT",
                "VALIDATE_EPOCH_WAIT", "ACTIVE"}

Started(s) == s.state \notin {"NONE", "STOPPED"}

PartitionInit ==
  [ version |-> 1, op_version |-> 1, fetch_version |-> 0,
    state     |-> "NONE",
    next      |-> NoPos,   \* rktp_next_fetch_start
    last      |-> NoPos,   \* rktp_last_next_fetch_start
    fetch_pos |-> NoPos, app_pos |-> NoPos, val_pos |-> NoPos,
    query     |-> Invalid, \* rktp_query_pos
    lo        |-> Invalid, \* rktp_lo_offset
    validating |-> FALSE, paused |-> FALSE,
    query_tmr |-> FALSE, validate_tmr |-> FALSE, backoff |-> FALSE,
    leader    |-> 0,       \* rktp_leader and rktp_leader_epoch
    broker    |-> 0,       \* rktp_broker
    ops       |-> <<>>,    \* rktp_ops
    fetchq    |-> <<>>,    \* rktp_fetchq
    net       |-> <<>>,    \* requests that are not answered
    era |-> 0, start |-> 0, asked |-> FALSE, fera |-> 0, fstart |-> 0 ]

Init ==
  /\ c = PartitionInit
  /\ log = [lo |-> 0, epochs |-> [i \in 1 .. InitLog |-> 1], leader |-> 1]
  /\ call = [at |-> "idle", op |-> "none", ver |-> 0, pos |-> NoPos, async |-> FALSE]
  /\ app = [started |-> FALSE, paused |-> FALSE, barrier |-> 0, era |-> 0, next |-> 0,
            stale |-> FALSE, astray |-> FALSE]
  /\ bound = [calls |-> 0, faults |-> 0]

\* An op of rktp_ops: a command of the application, a reset raised by the broker
\* thread (not versioned: ver is history, the era of its Fetch), or a reply.
Op(type, ver, pos) == [type |-> type, ver |-> ver, pos |-> pos, res |-> "ok", from |-> 0]

Request(type, ver, pos, s) ==
  [type |-> type, ver |-> ver, pos |-> pos, to |-> s.leader,
   answer |-> "none", msgs |-> <<>>, lo |-> Invalid, era |-> s.fera, start |-> s.fstart]

\* rd_kafka_fetch_pos_cmp() = 0, and > 0
SamePos(a, b) == a.off = b.off /\ (a.ep = b.ep \/ a.ep = 0 \/ b.ep = 0)

\* rd_kafka_consumer_err() with version 0: an error for the application
ConsumerErr(s) ==
  [s EXCEPT !.fetchq = Append(@, [err |-> TRUE, ver |-> 0, off |-> 0, ep |-> 0,
                                  era |-> 0, start |-> 0])]

(***************************************************************************)
(* The offset state machine, on the main thread.                           *)
(***************************************************************************)

\* Mutant: the timer is not started.
OffsetRetry_NoTimer(s) == [s EXCEPT !.state = "OFFSET_QUERY"]

OffsetRetry(s) == [s EXCEPT !.state = "OFFSET_QUERY", !.query_tmr = TRUE]

OffsetRequest(s, delayed) ==
  IF delayed \/ s.leader = 0
  THEN OffsetRetry(s)
  ELSE [s EXCEPT !.query_tmr = FALSE,
                 !.net = Append(@, Request("list", s.op_version, Pos(s.query, 0), s)),
                 !.state = "OFFSET_WAIT"]

\* The partition is to be placed at a new position: the history of a request
Ask(s) == [s EXCEPT !.asked = TRUE]

Place(s, pos) ==
  [s EXCEPT !.next = pos, !.asked = FALSE,
            !.era = IF s.asked THEN @ + 1 ELSE @,
            !.start = IF s.asked THEN pos.off ELSE @]

OffsetReset(s, pos, err) ==
  LET target == IF err \/ pos.off = Invalid THEN AutoOffsetReset ELSE pos.off
  IN IF target = Invalid
     THEN [ConsumerErr(s) EXCEPT !.state = "NONE"]
     ELSE IF target = Begin /\ s.lo >= 0
     THEN [Place(s, Pos(s.lo, 0)) EXCEPT !.state = "ACTIVE"]
     ELSE OffsetRequest([s EXCEPT !.query = target, !.state = "OFFSET_QUERY"], err)

NextOffsetHandle(s, pos) ==
  IF pos.off < 0
  THEN OffsetReset([s EXCEPT !.next = pos], pos, FALSE)
  ELSE [Place(s, pos) EXCEPT !.state = "ACTIVE"]

HandleOffset(s, op) ==
  IF op.from # s.leader \/ op.ver < s.op_version \/ op.res = "temporary"
  THEN OffsetRetry(s)
  ELSE IF op.res = "permanent"
  THEN ConsumerErr(OffsetReset(s, Pos(s.query, 0), TRUE))
  ELSE NextOffsetHandle(s, op.pos)

\* Validation of a position after a change of leader (KIP-320)
OffsetValidate(s) ==
  IF s.state \notin {"ACTIVE", "VALIDATE_EPOCH_WAIT"} \/ s.leader = 0
  THEN s
  ELSE IF s.val_pos.ep = 0
  THEN [s EXCEPT !.state = "ACTIVE"]
  ELSE IF s.validating
  THEN s
  ELSE [s EXCEPT !.state = "VALIDATE_EPOCH_WAIT", !.validating = TRUE,
                 !.net = Append(@, Request("epoch", 0, s.val_pos, s))]

\* op.ver is history: the epoch asked for
HandleOffsetForLeaderEpoch(s0, op) ==
  LET s == [s0 EXCEPT !.validating = FALSE]
      asked == [s EXCEPT !.asked = @ \/ op.ver = s.val_pos.ep]
  IN IF s.state # "VALIDATE_EPOCH_WAIT"
     THEN s
     ELSE IF op.res = "temporary"
     THEN [s EXCEPT !.validate_tmr = TRUE]
     ELSE IF op.pos.off < 0
     THEN OffsetReset(asked, s.val_pos, TRUE)
     ELSE IF op.pos.off >= s.val_pos.off
     THEN [s EXCEPT !.state = "ACTIVE"]
     ELSE IF AutoOffsetReset = Invalid
     THEN OffsetReset(asked, NoPos, TRUE)
     ELSE [asked EXCEPT !.version = @ + 1,
                        !.ops = Append(@, Op("reseek", s.version + 1, op.pos))]

(***************************************************************************)
(* The application's ops, on the main thread.                              *)
(***************************************************************************)

VersionBump(s, v) == [s EXCEPT !.op_version = v]

StopQuery(s) == [s EXCEPT !.query_tmr = @ /\ s.state # "OFFSET_QUERY"]

FetchStart(s, op) ==
  LET b == Ask(VersionBump(s, op.ver))
  IN CASE op.pos.off \in {Begin, End} -> NextOffsetHandle(b, op.pos)
       [] op.pos.off = Invalid        -> OffsetReset(b, op.pos, TRUE)
       [] OTHER                       -> [Place(b, op.pos) EXCEPT !.state = "ACTIVE"]

FetchStop(s, op) ==
  [StopQuery(VersionBump(s, op.ver)) EXCEPT
     !.state = "STOPPED", !.app_pos = NoPos, !.asked = FALSE]

\* A seek of the application, or ("reseek") of the validation to where the log was
\* truncated: that one is validated already.
Seek(s, op) ==
  LET b == StopQuery([VersionBump(s, op.ver) EXCEPT !.app_pos = NoPos])
      a == IF op.type = "seek" THEN Ask(b) ELSE b
  IN IF op.pos.off <= 0 \/ op.type = "reseek"
     THEN NextOffsetHandle(a, op.pos)
     ELSE OffsetValidate([Place(a, op.pos) EXCEPT
                            !.state = "VALIDATE_EPOCH_WAIT", !.val_pos = op.pos])

\* rd_kafka_q_purge_toppar_version(): only from the head of the queue
PurgeVersion(q, v) ==
  SelectInSeq(q, LAMBDA m : m.ver >= v)

Purged(q, v) ==
  IF PurgeVersion(q, v) = 0 THEN <<>> ELSE SubSeq(q, PurgeVersion(q, v), Len(q))

\* Mutant: the fetcher does not return to the position of the application.
Pause_KeepsStart(s, op) ==
  [VersionBump(s, op.ver) EXCEPT !.paused = TRUE, !.fetchq = Purged(@, op.ver)]

Pause(s, op) ==
  LET b == VersionBump(s, op.ver)
  IN [b EXCEPT !.paused = TRUE,
               !.next = IF s.app_pos.off # Invalid THEN s.app_pos ELSE @,
               !.fetchq = Purged(@, op.ver)]

Resume(s, op) ==
  LET b == [VersionBump(s, op.ver) EXCEPT !.paused = FALSE]
  IN IF ~s.paused
     THEN VersionBump(s, op.ver)
     ELSE IF s.state \in {"ACTIVE", "OFFSET_WAIT"} /\ s.next.off = Invalid
     THEN NextOffsetHandle(b, s.next)
     ELSE b

Commands == {"start", "seek", "reseek", "pause", "resume", "stop"}

\* What the caller of an op is told
Result(s, op) ==
  IF op.ver < s.op_version THEN "outdated"
  ELSE IF op.type \in {"seek", "reseek"} /\ ~Started(s) THEN "state"
  ELSE "ok"

Apply(s, op) ==
  IF op.type \in Commands /\ Result(s, op) # "ok"
  THEN s
  ELSE CASE op.type = "list"   -> HandleOffset(s, op)
         [] op.type = "epoch"  -> HandleOffsetForLeaderEpoch(s, op)
         [] op.type = "reset"  -> OffsetReset([s EXCEPT !.asked = @ \/ op.ver = s.era],
                                              op.pos, TRUE)
         [] op.type = "start"  -> FetchStart(s, op)
         [] op.type = "stop"   -> FetchStop(s, op)
         [] op.type = "pause"  -> Pause(s, op)
         [] op.type = "resume" -> Resume(s, op)
         [] OTHER              -> Seek(s, op)

\* rd_kafka_toppar_op_serve() and the callbacks of replies
HandleOp ==
  LET op == Head(c.ops)
      s  == [c EXCEPT !.ops = Tail(@)]
      mine == call.at = "wait" /\ op.type = call.op /\ op.ver = call.ver
  IN /\ c.ops # <<>>
     /\ c' = Apply(s, op)
     /\ call' = IF mine THEN [call EXCEPT !.at = Result(s, op)] ELSE call
     /\ UNCHANGED <<log, app, bound>>

QueryTimer ==
  /\ c.query_tmr
  /\ c' = OffsetRequest(c, FALSE)
  /\ UNCHANGED <<log, call, app, bound>>

ValidateTimer ==
  /\ c.validate_tmr
  /\ LET s == [c EXCEPT !.validate_tmr = FALSE]
     IN c' = IF s.state = "VALIDATE_EPOCH_WAIT" THEN OffsetValidate(s) ELSE s
  /\ UNCHANGED <<log, call, app, bound>>

\* Restart from rktp_next_fetch_start rather than go on from fetch_pos
StartFromNext(s) ==
  s.op_version > s.fetch_version \/ ~SamePos(s.next, s.last) \/ s.fetch_pos.off = Invalid

FetchFrom(s) == IF StartFromNext(s) THEN s.next ELSE s.fetch_pos

\* Nothing is moving the position: no call, look-up, reset or validation is under way.
Calm ==
  /\ call.at = "idle" /\ c.ops = <<>>
  /\ c.state \in {"NONE", "STOPPED", "ACTIVE"} /\ ~c.query_tmr
  /\ \A i \in DOMAIN c.net : c.net[i].type = "fetch"

\* Nor is a Fetch outstanding
Still == OneAtATime => Calm /\ c.net = <<>>

\* rd_kafka_toppar_leader_update(): metadata names a new leader, or is refreshed
\* while a position waits for its validation
LeaderUpdate ==
  LET wait == IF c.leader # log.leader /\ c.state = "OFFSET_WAIT" THEN OffsetRetry(c) ELSE c
  IN /\ c.leader # log.leader \/ c.state = "VALIDATE_EPOCH_WAIT"
     /\ Still
     /\ c' = OffsetValidate([wait EXCEPT
                !.leader = log.leader,
                !.val_pos = FetchFrom(c)])
     /\ UNCHANGED <<log, call, app, bound>>

\* The old broker thread serves PARTITION_LEAVE, the new one PARTITION_JOIN.
Migrate ==
  /\ c.broker # c.leader
  /\ c' = [c EXCEPT !.broker = c.leader]
  /\ UNCHANGED <<log, call, app, bound>>

(***************************************************************************)
(* The thread of rktp_broker.                                              *)
(***************************************************************************)

\* Mutant: the newest version is taken for the one whose op has been handled.
FetchDecide_Newest(s) ==
  LET d == IF s.state = "ACTIVE" /\ StartFromNext(s)
           THEN [s EXCEPT !.fetch_pos = s.next, !.last = s.next,
                          !.fetch_version = s.version,
                          !.fetchq = Purged(@, s.version)]
           ELSE s
  IN IF d.state = "ACTIVE" /\ d.fetch_pos = d.next
     THEN [d EXCEPT !.fera = s.era, !.fstart = s.start]
     ELSE d

\* rd_kafka_toppar_fetch_decide(): the broker thread's copy of version and position
FetchDecide(s) ==
  LET d == IF s.state = "ACTIVE" /\ StartFromNext(s)
           THEN [s EXCEPT !.fetch_pos = s.next, !.last = s.next,
                          !.fetch_version = s.op_version,
                          !.fetchq = Purged(@, s.op_version)]
           ELSE s
  IN IF d.state = "ACTIVE" /\ d.fetch_pos = d.next
     THEN [d EXCEPT !.fera = s.era, !.fstart = s.start]
     ELSE d

Fetchable(s) ==
  /\ s.state = "ACTIVE" /\ ~s.paused /\ ~s.backoff /\ s.next.off >= 0
  /\ Len(s.fetchq) < QueueMin

\* rkb_fetching: a Fetch is outstanding with this broker
Fetching(s) == \E i \in DOMAIN s.net : s.net[i].type = "fetch" /\ s.net[i].to = s.broker

ConsumerServe ==
  LET s == FetchDecide(c)
  IN /\ c.broker # 0
     /\ c' = IF Fetchable(s) /\ ~Fetching(s)
             THEN [s EXCEPT !.net = Append(@,
                     [Request("fetch", s.fetch_version, s.fetch_pos, s) EXCEPT !.to = s.broker])]
             ELSE s
     /\ c' # c
     /\ UNCHANGED <<log, call, app, bound>>

\* rd_kafka_msgset_reader_run(): what lies before fetch_pos is skipped; offsets ascend,
\* so that is the head of the message set
From(msgs, off) ==
  LET first == SelectInSeq(msgs, LAMBDA m : m.off >= off)
  IN IF first = 0 THEN <<>> ELSE SubSeq(msgs, first, Len(msgs))

Parse(s, r) ==
  LET new == From(r.msgs, s.fetch_pos.off)
  IN IF r.msgs = <<>> THEN s
     ELSE [s EXCEPT
             !.fetchq = @ \o [i \in DOMAIN new |->
               [err |-> FALSE, ver |-> r.ver, off |-> new[i].off, ep |-> new[i].ep,
                era |-> r.era, start |-> r.start]],
             !.fetch_pos = Pos(IF new = <<>> THEN @.off ELSE Last(new).off + 1,
                               Last(r.msgs).ep)]

\* rd_kafka_fetch_reply_handle_partition_error()
FetchError(s, r) ==
  CASE r.answer = "not_leader"   -> [s EXCEPT !.backoff = TRUE]
    [] r.answer = "out_of_range" ->
         [s EXCEPT !.fetch_pos = NoPos, !.backoff = TRUE,
                   !.ops = Append(@, Op("reset", r.era, s.fetch_pos))]

\* rd_kafka_fetch_reply_handle_partition()
HandleFetch(s0, r) ==
  LET s == [s0 EXCEPT !.lo = r.lo]
  IN IF r.answer = "lost" THEN s0
     ELSE IF s.broker # r.to \/ r.ver < s.fetch_version THEN s
     ELSE IF r.answer = "ok" THEN Parse(s, r)
     ELSE FetchError(s, r)

FetchReply ==
  \E i \in DOMAIN c.net :
    /\ c.net[i].type = "fetch" /\ c.net[i].answer # "none"
    /\ c' = HandleFetch([c EXCEPT !.net = RemoveAt(@, i)], c.net[i])
    /\ UNCHANGED <<log, call, app, bound>>

\* fetch.error.backoff.ms has passed; it is longer than the main thread takes to get
\* to a reset.
BackoffOver ==
  /\ c.backoff
  /\ \A i \in DOMAIN c.ops : c.ops[i].type # "reset"
  /\ c' = [c EXCEPT !.backoff = FALSE]
  /\ UNCHANGED <<log, call, app, bound>>

(***************************************************************************)
(* External: the brokers.                                                  *)
(***************************************************************************)

LogEnd == Len(log.epochs)

MessageAt(off) == [off |-> off, ep |-> log.epochs[off + 1]]

\* The end offset of the largest leader epoch that is not larger than ep
EpochEnd(ep) ==
  LET upto == {i \in 1 .. LogEnd : log.epochs[i] <= ep}
  IN IF ep >= log.leader THEN Pos(LogEnd, ep)
     ELSE IF upto = {} THEN NoPos
     ELSE Pos(Max(upto), log.epochs[Max(upto)])

OutOfRange(pos) == pos.off < log.lo \/ pos.off > LogEnd

Available(r) ==
  LET n == IF LogEnd - r.pos.off < FetchMax THEN LogEnd - r.pos.off ELSE FetchMax
  IN [i \in 1 .. n |-> MessageAt(r.pos.off + i - 1)]

\* A reply with an error has no LogStartOffset.
FetchAnswer(r) ==
  IF r.to # log.leader THEN [r EXCEPT !.answer = "not_leader"]
  ELSE IF OutOfRange(r.pos) THEN [r EXCEPT !.answer = "out_of_range"]
  ELSE [r EXCEPT !.answer = "ok", !.lo = log.lo, !.msgs = Available(r)]

BrokerFetch ==
  \E i \in DOMAIN c.net :
    /\ c.net[i].type = "fetch" /\ c.net[i].answer = "none"
    /\ c' = [c EXCEPT !.net[i] = FetchAnswer(c.net[i])]
    /\ UNCHANGED <<log, call, app, bound>>

\* The reply to a look-up is put on rktp_ops.
LookupAnswer(r) ==
  LET ok == IF r.type = "epoch" THEN EpochEnd(r.pos.ep)
            ELSE Pos(IF r.pos.off = Begin THEN log.lo ELSE LogEnd, 0)
  IN [Op(r.type, IF r.type = "epoch" THEN r.pos.ep ELSE r.ver, ok) EXCEPT
        !.from = r.to, !.res = IF r.to = log.leader THEN "ok" ELSE "temporary"]

BrokerLookup ==
  \E i \in DOMAIN c.net :
    /\ c.net[i].type # "fetch"
    /\ c' = [c EXCEPT !.net = RemoveAt(@, i), !.ops = Append(@, LookupAnswer(c.net[i]))]
    /\ UNCHANGED <<log, call, app, bound>>

Fault(f) == /\ f \in Faults /\ bound.faults < MaxFaults
            /\ bound' = [bound EXCEPT !.faults = @ + 1]

LookupFails ==
  \E i \in DOMAIN c.net, f \in {"lookup", "refused"} :
    /\ Fault(f)
    /\ c.net[i].type = "list" \/ (c.net[i].type = "epoch" /\ f = "lookup")
    /\ c' = [c EXCEPT !.net = RemoveAt(@, i),
                      !.ops = Append(@, [LookupAnswer(c.net[i]) EXCEPT
                        !.res = IF f = "lookup" THEN "temporary" ELSE "permanent"])]
    /\ UNCHANGED <<log, call, app>>

FetchLost ==
  \E i \in DOMAIN c.net :
    /\ Fault("lost")
    /\ c.net[i].type = "fetch" /\ c.net[i].answer = "none"
    /\ c' = [c EXCEPT !.net[i].answer = "lost"]
    /\ UNCHANGED <<log, call, app>>

Produce ==
  /\ LogEnd < MaxLog
  /\ log' = [log EXCEPT !.epochs = Append(@, log.leader)]
  /\ UNCHANGED <<c, call, app, bound>>

Trim ==
  /\ Fault("trim") /\ log.lo < LogEnd
  /\ Still
  /\ log' = [log EXCEPT !.lo = @ + 1]
  /\ UNCHANGED <<c, call, app>>

Move ==
  /\ log.leader <= MaxMoves
  /\ log' = [log EXCEPT !.leader = @ + 1]
  /\ UNCHANGED <<c, call, app, bound>>

Truncate ==
  /\ Fault("truncate") /\ log.leader <= MaxMoves
  /\ Still
  /\ \E n \in log.lo .. LogEnd - 1 :
       log' = [log EXCEPT !.leader = @ + 1, !.epochs = SubSeq(@, 1, n)]
  /\ UNCHANGED <<c, call, app>>

(***************************************************************************)
(* The application's thread.                                               *)
(***************************************************************************)

Undisturbed ==
  OneAtATime => /\ c.broker \in {0, log.leader}
                /\ Calm /\ \A i \in DOMAIN c.net : /\ ~OutOfRange(c.net[i].pos)
                                                  /\ c.net[i].answer # "out_of_range"
                /\ c.state = "ACTIVE" => ~OutOfRange(FetchFrom(c))

\* rd_kafka_toppar_op_*(): a new version barrier first, then the op
Call(op, pos, async) ==
  /\ call.at = "idle" /\ bound.calls < MaxCalls
  /\ c' = [c EXCEPT !.version = @ + 1]
  /\ call' = [at |-> "bumped", op |-> op, ver |-> c.version + 1, pos |-> pos, async |-> async]
  /\ bound' = [bound EXCEPT !.calls = @ + 1]
  /\ app' = [app EXCEPT !.barrier = c.version + 1,
                        !.paused = @ /\ op # "resume", !.started = @ /\ op # "stop"]
  /\ UNCHANGED log

CallStart == \E p \in Starts : ~app.started /\ Undisturbed /\ Call("start", p, FALSE)

CallSeek == \E p \in Seeks, async \in BOOLEAN :
              app.started /\ Undisturbed /\ Call("seek", p, async)

CallStop == app.started /\ Undisturbed /\ Call("stop", NoPos, FALSE)

CallPause == /\ app.started /\ ~app.paused /\ Call("pause", NoPos, FALSE)
             /\ OneAtATime => /\ c.app_pos.off = Invalid \/ app.era = c.era
                              /\ ~c.asked /\ c.state # "VALIDATE_EPOCH_WAIT"
                              /\ \A i \in DOMAIN c.ops : c.ops[i].type # "reset"

\* A resume of a partition that is not paused returns at once.
CallResume == c.paused /\ Call("resume", NoPos, FALSE)

Enqueue ==
  /\ call.at = "bumped"
  /\ c' = [c EXCEPT !.ops = Append(@, Op(call.op, call.ver, call.pos))]
  /\ call' = [call EXCEPT !.at = IF call.async THEN "idle" ELSE "wait"]
  /\ UNCHANGED <<log, app, bound>>

Return ==
  /\ call.at \in {"ok", "outdated", "state"}
  /\ call' = [call EXCEPT !.at = "idle"]
  /\ app' = IF call.at # "ok"
            THEN [app EXCEPT !.started = @ \/ call.op = "stop",
                             !.paused = c.paused]
            ELSE [app EXCEPT !.started = @ \/ call.op = "start",
                             !.paused = @ \/ call.op = "pause"]
  /\ UNCHANGED <<c, log, bound>>

\* Mutant: only an op that has been handled makes a message outdated.
Outdated_Handled(s, m) == m.ver # 0 /\ m.ver < s.op_version

\* rd_kafka_op_version_outdated() with version 0: the partition's own version counts
Outdated(s, m) == m.ver # 0 /\ m.ver < s.version

\* The history of what the application reads: the next message of its era, or the first
\* of a later one, and none from before its last call
Reads(a, m) ==
  [a EXCEPT !.era = m.era, !.next = m.off + 1,
            !.stale = @ \/ m.ver < a.barrier,
            !.astray = @ \/ ~ \/ m.era = a.era /\ m.off = a.next
                              \/ m.era > a.era /\ m.off = m.start]

\* rd_kafka_consume(), rd_kafka_consumer_poll()
Consume ==
  /\ call.at = "idle" /\ c.fetchq # <<>>
  /\ LET m == Head(c.fetchq)
         s == [c EXCEPT !.fetchq = Tail(@)]
     IN IF m.err \/ Outdated(c, m)
        THEN c' = s /\ app' = app
        ELSE /\ c' = [s EXCEPT !.app_pos = Pos(m.off + 1, m.ep)]
             /\ app' = Reads(app, m)
  /\ UNCHANGED <<log, call, bound>>

(***************************************************************************)
(* Specification.                                                          *)
(***************************************************************************)

Next ==
  \/ HandleOp \/ QueryTimer \/ ValidateTimer \/ LeaderUpdate
  \/ Migrate \/ ConsumerServe \/ FetchReply \/ BackoffOver
  \/ BrokerFetch \/ BrokerLookup \/ LookupFails \/ FetchLost
  \/ Produce \/ Trim \/ Move \/ Truncate
  \/ CallStart \/ CallSeek \/ CallStop \/ CallPause \/ CallResume
  \/ Enqueue \/ Return \/ Consume

Spec == Init /\ [][Next]_vars

\* The library's threads run, the brokers answer and the application's thread
\* polls; its calls and the faults need not happen.
Fairness ==
  /\ WF_vars(HandleOp) /\ WF_vars(QueryTimer) /\ WF_vars(ValidateTimer)
  /\ WF_vars(LeaderUpdate) /\ WF_vars(Migrate) /\ WF_vars(ConsumerServe)
  /\ WF_vars(FetchReply) /\ WF_vars(BackoffOver) /\ WF_vars(BrokerFetch)
  /\ WF_vars(BrokerLookup) /\ WF_vars(Enqueue) /\ WF_vars(Return) /\ WF_vars(Consume)

FairSpec == Spec /\ Fairness

(***************************************************************************)
(* Properties.                                                             *)
(***************************************************************************)

Message == [err : BOOLEAN, ver : Nat, off : Offsets, ep : Epochs, era : Nat, start : Int]

\* Every field has its type; the broker thread's version never passes the one the main
\* thread has handled, nor that one the one the application has asked for
\* (rktp_fetch_version <= rktp_op_version <= rktp_version), and the partition is never
\* handed to a broker ahead of the main thread's leader.
TypeOK ==
  /\ c.state \in FetchStates
  /\ 0 <= c.fetch_version /\ c.fetch_version <= c.op_version /\ c.op_version <= c.version
  /\ {c.next, c.last, c.fetch_pos, c.app_pos, c.val_pos} \subseteq Positions
  /\ c.query \in {Invalid, Begin, End} /\ c.lo \in Offsets \cup {Invalid}
  /\ c.leader \in Epochs /\ c.broker \in Epochs /\ c.broker <= c.leader
  /\ \A i \in DOMAIN c.fetchq : c.fetchq[i] \in Message
  /\ \A i \in DOMAIN c.ops : c.ops[i].type \in Commands \cup {"list", "epoch", "reset"}
  /\ call.at \in {"idle", "bumped", "wait", "ok", "outdated", "state"}

\* The application reads each message of the log once and in order: what it is handed is
\* the message after the one it read last, or the first one at the position where a start,
\* a seek, a reset (auto.offset.reset) or a truncation has placed the partition since.
\* Neither a pause and resume, nor a change of leader, nor a Fetch that is lost or
\* answered by the old leader repeats or skips one.
InPosition == ~app.astray

\* Once a call of start, seek, pause, resume or stop has returned, and however long the
\* other threads take to carry it out, the application is handed no message that was
\* fetched under an earlier version of the partition (rdkafka.h, rd_kafka_seek(): "no
\* previously fetched messages for the old offset (or fetch position) will be passed").
NoStaleDelivery == ~app.stale

\* When calls and faults have ended, a partition that is started and not paused gets to
\* ACTIVE, and the application is handed what there is up to the end of the log: no look-up,
\* validation or reset is left waiting for a timer or a reply that does not come.
CaughtUp ==
  <>[](app.started /\ ~c.paused =>
         c.state = "ACTIVE" /\ c.fetch_pos.off = LogEnd /\ c.fetchq = <<>>)
=============================================================================
