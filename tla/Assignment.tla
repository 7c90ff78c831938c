----------------------------- MODULE Assignment -----------------------------
(***************************************************************************)
(* The assignment of a (classic, not share) consumer: which partitions are *)
(* assigned, where each one starts, and the two kinds of request that      *)
(* decide it: OffsetFetch, which reads the group's committed offsets, and  *)
(* OffsetCommit, which writes them when partitions are given up.           *)
(*                                                                         *)
(* Everything in `c` belongs to the main thread of the client and changes  *)
(* only in its handlers: an *assign() call, a reply, a stopped fetcher, a  *)
(* timer.  A handler runs to its end, rd_kafka_assignment_serve()          *)
(* included, before the next one starts; what interleaves is the order of  *)
(* the handlers, the coordinator's work, and the application's consuming.  *)
(* The application assigns partitions itself (no subscription), with       *)
(* enable.auto.commit and enable.auto.offset.store on.                     *)
(***************************************************************************)
EXTENDS Integers, FiniteSets, Sequences, SequencesExt

CONSTANTS
  Partitions,     \* the partitions that may be assigned
  LogEnd,         \* messages in each partition: offsets 0 .. LogEnd - 1
  StartOffsets,   \* the start offsets the application passes
  RetriesMax,     \* RD_KAFKA_REQUEST_DEFAULT_RETRIES
  MaxCalls,       \* bound: *assign() calls
  MaxCommits,     \* bound: times the auto-commit timer fires
  MaxFaults,      \* bound: faults in a behaviour
  Features        \* which faults and other parties take part, see FeatureNames

FeatureNames ==
  { "disconnect",   \* the connection to the coordinator breaks
    "down",         \* the coordinator is reported dead
    "unstable",     \* open transactions block committed offsets
    "part_err",     \* OffsetFetch fails for a partition
    "req_err",      \* OffsetFetch fails as a whole
    "stale_epoch",  \* OffsetFetch is answered STALE_MEMBER_EPOCH
    "commit_err",   \* OffsetCommit is refused
    "expire",       \* a deferred commit waits too long for a coordinator
    "others" }      \* other members consume what is not assigned here

\* Logical offsets, with their values in rdkafka.h.
BEGINNING == -2
END       == -1
STORED    == -1000
INVALID   == -1001

Offsets == (0 .. LogEnd) \cup {BEGINNING, END, STORED, INVALID}

ASSUME AssignmentBounds ==
  /\ LogEnd \in Nat /\ RetriesMax \in Nat
  /\ MaxCalls \in Nat /\ MaxCommits \in Nat /\ MaxFaults \in Nat
ASSUME AssignmentFeatures == Features \subseteq FeatureNames
ASSUME AssignmentPartitions == IsFiniteSet(Partitions)
ASSUME AssignmentStartOffsets == StartOffsets \subseteq Offsets

VARIABLES
  c,          \* the consumer's main thread, see ConsumerState
  committed,  \* the group's committed offset of each partition, at the coordinator
  delivered,  \* offsets of each partition some member of the group has consumed
  acked,      \* highest offset this consumer has had acknowledged
  bound       \* calls, timer ticks and faults so far

vars == <<c, committed, delivered, acked, bound>>

(***************************************************************************)
(* State.                                                                  *)
(***************************************************************************)

IsLogical(o) == o < 0

\* Partition lists with an offset each: functions on the partitions listed.
PartitionLists == UNION { [S -> Offsets] : S \in SUBSET Partitions }

Without(list, S) == [p \in DOMAIN list \ S |-> list[p]]

With(list, more) ==
  [p \in DOMAIN list \cup DOMAIN more |->
     IF p \in DOMAIN more THEN more[p] ELSE list[p]]

\* Requests to the coordinator.  reply is NoReply until it has answered.
NoReply == [err |-> "pending", offsets |-> <<>>, errors |-> <<>>]

FetchRequest(parts, version) ==
  [kind |-> "fetch", parts |-> parts, version |-> version, reply |-> NoReply]

\* An OFFSET_COMMIT op: deferred is set once it has been on wait_coord_q.
CommitRequest(offsets, deferred) ==
  [kind |-> "commit", offsets |-> offsets, deferred |-> deferred,
   retries |-> 0, reply |-> NoReply]

Answered(r) == r.reply # NoReply

ConsumerInit ==
  [ all        |-> <<>>,   \* .all, with the offsets the application gave
    pending    |-> <<>>,   \* .pending: partitions to query or to start
    queried    |-> {},     \* .queried: partitions of the outstanding query
    started    |-> {},     \* partitions with rktp_started set
    wait_stop  |-> {},     \* partitions with rktp_wait_stop set
    assigned   |-> {},     \* partitions with RD_KAFKA_TOPPAR_F_ASSIGNED
    stored     |-> [p \in Partitions |-> INVALID],  \* rktp_stored_pos
    committed_pos |-> [p \in Partitions |-> INVALID],  \* rktp_committed_pos
    app_pos    |-> [p \in Partitions |-> INVALID],  \* next offset the fetcher delivers
    started_cnt |-> 0, wait_stop_cnt |-> 0, wait_commit_cnt |-> 0,
    version    |-> 0,      \* .version
    stops      |-> [p \in Partitions |-> 0],  \* FETCH_STOP replies to come
    up         |-> TRUE,   \* rkcg_state is UP
    wire       |-> <<>>,   \* requests to the coordinator, in order
    retry      |-> <<>>,   \* requests waiting for their retry backoff
    wait_coord |-> <<>>,   \* rkcg_wait_coord_q: commits waiting for a coordinator
    ops        |-> <<>>,   \* rkcg_ops: deferred commits to reprocess
    errs       |-> 0,      \* rkcg_ops: commits that failed before they were sent
    serve_pending |-> FALSE,  \* RD_KAFKA_CGRP_CONSUMER_F_SERVE_PENDING
    done       |-> TRUE,   \* assignment_done signalled since the last call
    asserts    |-> TRUE ]  \* every rd_assert() so far held

Init ==
  /\ c = ConsumerInit
  /\ committed = [p \in Partitions |-> INVALID]
  /\ delivered = [p \in Partitions |-> {}]
  /\ acked = [p \in Partitions |-> INVALID]
  /\ bound = [calls |-> 0, commits |-> 0, faults |-> 0]

(***************************************************************************)
(* Committing offsets.                                                     *)
(***************************************************************************)

HasValidOffset(offsets) == \E p \in DOMAIN offsets : ~IsLogical(offsets[p])

\* The partitions with a valid offset are the ones the request carries.
ValidOffsets(offsets) ==
  [p \in {q \in DOMAIN offsets : ~IsLogical(offsets[q])} |-> offsets[p]]

\* Mutant: only a commit that is sent at once is counted.
OffsetsCommit_CountSent(s, offsets) ==
  LET op == CommitRequest(ValidOffsets(offsets), FALSE)
  IN CASE ~HasValidOffset(offsets) -> [s EXCEPT !.errs = @ + 1]
       [] HasValidOffset(offsets) /\ ~s.up ->
            [s EXCEPT !.wait_coord = Append(@, [op EXCEPT !.deferred = TRUE])]
       [] HasValidOffset(offsets) /\ s.up ->
            [s EXCEPT !.wire = Append(@, op), !.wait_commit_cnt = @ + 1]

\* Mutant: commits are not counted.
OffsetsCommit_NoCount(s, offsets) ==
  LET op == CommitRequest(ValidOffsets(offsets), FALSE)
  IN IF s.up THEN [s EXCEPT !.wire = Append(@, op)]
     ELSE [s EXCEPT !.wait_coord = Append(@, [op EXCEPT !.deferred = TRUE])]

\* rd_kafka_cgrp_offsets_commit() once the offsets are set: an empty commit
\* fails through the ops queue, one without a coordinator is deferred.
OffsetsCommit(s, offsets) ==
  LET counted == [s EXCEPT !.wait_commit_cnt = @ + 1]
      op      == CommitRequest(ValidOffsets(offsets), FALSE)
  IN CASE ~HasValidOffset(offsets) -> [counted EXCEPT !.errs = @ + 1]
       [] HasValidOffset(offsets) /\ ~s.up ->
            [counted EXCEPT !.wait_coord = Append(@, [op EXCEPT !.deferred = TRUE])]
       [] HasValidOffset(offsets) /\ s.up ->
            [counted EXCEPT !.wire = Append(@, op)]

\* rd_kafka_topic_partition_list_set_offsets(): only what is ahead of the
\* committed position is committed.
StoredOffsets(s) ==
  [p \in DOMAIN s.all |->
     IF s.stored[p] > s.committed_pos[p] THEN s.stored[p] ELSE INVALID]

(***************************************************************************)
(* Serving the assignment.                                                 *)
(***************************************************************************)

\* Mutant: a partition that is being stopped is stopped again.
ToStop_Again(s, R) == s.started \cap R

\* Started partitions of R that are not being stopped already.
ToStop(s, R) == (s.started \cap R) \ s.wait_stop

\* rd_kafka_assignment_request_stop() for the partitions of R.
RequestStop(s, R) ==
  LET S == ToStop(s, R)
  IN [s EXCEPT !.asserts = @ /\ (S # {} => s.started_cnt > 0),
               !.wait_stop = @ \cup S,
               !.wait_stop_cnt = @ + Cardinality(S),
               !.stops = [p \in Partitions |-> IF p \in S THEN @[p] + 1 ELSE @[p]]]

\* rd_kafka_assignment_serve_removals0() for the partitions R of .removed.
ServeRemovals(s, R) ==
  LET stopped == RequestStop([s EXCEPT !.pending = Without(@, R),
                                       !.queried = @ \ R], R)
      final   == [p \in R |-> s.stored[p]]
      cleaned == [stopped EXCEPT
                    !.stored = [p \in Partitions |-> IF p \in R THEN INVALID ELSE @[p]],
                    !.asserts = @ /\ R \subseteq s.assigned,
                    !.assigned = @ \ R]
  IN IF HasValidOffset(final) THEN OffsetsCommit(cleaned, final) ELSE cleaned

\* The fetcher can start at these: all but STORED of what may be pending.
Startable(o) == ~IsLogical(o) \/ o \in {BEGINNING, END, INVALID}

\* rd_kafka_assignment_serve_pending(): can_query_offsets.
CanQuery(s) == s.up /\ s.wait_commit_cnt = 0 /\ s.queried = {}

\* rd_kafka_assignment_serve_pending(): start what has a start offset, query
\* the committed offsets of the rest if that is possible now.
ServePending(s) ==
  LET ready == {p \in DOMAIN s.pending : Startable(s.pending[p])}
      ask   == IF CanQuery(s) THEN DOMAIN s.pending \ ready ELSE {}
  IN [s EXCEPT
        !.asserts = @ /\ DOMAIN s.pending \cap (s.started \cup s.wait_stop) = {},
        !.started = @ \cup ready,
        !.started_cnt = @ + Cardinality(ready),
        !.app_pos = [p \in Partitions |-> IF p \in ready THEN s.pending[p] ELSE @[p]],
        !.queried = @ \cup ask,
        !.pending = Without(@, ready \cup ask),
        !.wire = IF ask # {} THEN Append(@, FetchRequest(ask, s.version)) ELSE @]

\* serve_pending() waits for earlier removals and for outstanding commits.
MayServePending(s) ==
  s.wait_stop_cnt = 0 /\ s.wait_commit_cnt = 0 /\ DOMAIN s.pending # {}

\* Nothing is left to do for the assignment.
Settled(s) ==
  /\ DOMAIN s.pending = {} /\ s.queried = {}
  /\ s.wait_stop_cnt = 0 /\ s.wait_commit_cnt = 0

\* rd_kafka_assignment_serve() with the partitions R on .removed; when
\* nothing is in progress the cgrp is told so, which lets it rejoin.
Serve(s, R) ==
  LET removed == IF R # {} THEN ServeRemovals(s, R) ELSE s
      served  == IF MayServePending(removed) THEN ServePending(removed) ELSE removed
  IN IF Settled(served) THEN [served EXCEPT !.done = TRUE] ELSE served

(***************************************************************************)
(* Changing the assignment.                                                *)
(***************************************************************************)

\* rd_kafka_assignment_clear(); the partitions move to .removed.
Clear(s) ==
  IF DOMAIN s.all = {} THEN s
  ELSE [s EXCEPT !.pending = <<>>, !.queried = {}, !.all = <<>>,
                 !.version = @ + 1]

\* rd_kafka_assignment_add(): INVALID from the application means STORED.
Add(s, list) ==
  LET L     == DOMAIN list
      begin == [p \in L |-> IF list[p] = INVALID THEN STORED ELSE list[p]]
  IN [s EXCEPT !.asserts = @ /\ L \cap s.assigned = {},
               !.assigned = @ \cup L,
               !.stored = [p \in Partitions |-> IF p \in L THEN INVALID ELSE @[p]],
               !.all = With(@, begin),
               !.pending = With(@, begin),
               !.version = @ + 1]

\* rd_kafka_assignment_subtract(); the partitions move to .removed.
Subtract(s, R) ==
  LET left == DOMAIN s.all \ R
      off  == [s EXCEPT !.all = Without(@, R),
                        !.pending = Without(@, R \ s.queried),
                        !.queried = @ \ R,
                        !.version = @ + 1]
  IN [off EXCEPT !.asserts =
        @ /\ (left = {} => DOMAIN off.pending = {} /\ off.queried = {})]

\* An application's call; done turns true again when it has been carried out.
Call(s) ==
  /\ bound.calls < MaxCalls
  /\ c' = s
  /\ bound' = [bound EXCEPT !.calls = @ + 1]
  /\ UNCHANGED <<committed, delivered, acked>>

Called == [c EXCEPT !.done = FALSE]

\* rd_kafka_assign(list): replaces the assignment, serving the removal of the
\* old one first.
Assign(list) ==
  LET cleared == Clear(Called)
      removed == IF DOMAIN c.all = {} THEN cleared ELSE Serve(cleared, DOMAIN c.all)
  IN Call(Serve(Add([removed EXCEPT !.done = FALSE], list), {}))

\* rd_kafka_assign(NULL)
Unassign == Call(Serve(Clear(Called), DOMAIN c.all))

\* rd_kafka_incremental_assign(list): refused if one of them is assigned.
IncrementalAssign(list) ==
  /\ DOMAIN list \cap DOMAIN c.all = {}
  /\ Call(Serve(Add(Called, list), {}))

\* rd_kafka_incremental_unassign(R): refused unless all of them are assigned.
IncrementalUnassign(R) ==
  /\ R \subseteq DOMAIN c.all
  /\ Call(Serve(Subtract(Called, R), R))

(***************************************************************************)
(* Replies and other events the main thread handles.                       *)
(***************************************************************************)

\* rd_kafka_assignment_partition_stopped(): a fetcher has stopped.
PartitionStopped(p) ==
  /\ c.stops[p] > 0
  /\ LET s == [c EXCEPT
                 !.asserts = @ /\ c.wait_stop_cnt > 0 /\ c.started_cnt > 0
                               /\ p \in c.wait_stop /\ p \in c.started,
                 !.stops[p] = @ - 1,
                 !.wait_stop_cnt = @ - 1, !.wait_stop = @ \ {p},
                 !.started_cnt = @ - 1, !.started = @ \ {p},
                 !.app_pos[p] = INVALID]
     IN c' = IF s.wait_stop_cnt = 0 THEN Serve(s, {}) ELSE s
  /\ UNCHANGED <<committed, delivered, acked, bound>>

\* rd_kafka_assignment_apply_offsets(): only partitions still on .queried
\* count.  A partition whose offset is blocked keeps the INVALID of the reply.
ApplyOffsets(s, offsets, errors, err) ==
  LET hit   == DOMAIN offsets \cap s.queried
      stale == {p \in hit : "STALE_MEMBER_EPOCH" \in {err, errors[p]}}
      open  == {p \in hit \ stale : "UNSTABLE_OFFSET_COMMIT" \in {err, errors[p]}}
      good  == {p \in hit \ (stale \cup open) : errors[p] = "none" /\ err = "none"}
      back  == [p \in stale \cup open \cup good |->
                  IF p \in stale THEN STORED ELSE offsets[p]]
      moved == [s EXCEPT !.queried = @ \ hit, !.pending = With(@, back)]
  IN IF DOMAIN offsets # {} /\ err # "STALE_MEMBER_EPOCH"
     THEN Serve(moved, {}) ELSE moved

\* rd_kafka_handle_OffsetFetch(): the committed positions are updated even if
\* the request is retried.
UpdateCommitted(s, reply) ==
  [s EXCEPT !.committed_pos =
     [p \in Partitions |->
        IF p \in DOMAIN reply.offsets /\ reply.errors[p] = "none"
        THEN reply.offsets[p] ELSE @[p]]]

Retriable(reply) ==
  \/ reply.err = "TRANSPORT"
  \/ \E p \in DOMAIN reply.offsets : reply.errors[p] = "UNSTABLE_OFFSET_COMMIT"

\* rd_kafka_assignment_handle_OffsetFetch(): a retry only if the assignment is
\* still the one of the request.  Without offsets (the request never was
\* answered) and without a retry, the error goes to the application.
FetchResult(s, r) ==
  LET known == UpdateCommitted(s, r.reply)
      retry == Retriable(r.reply) /\ r.version = s.version
  IN CASE retry -> [known EXCEPT !.retry = Append(@, [r EXCEPT !.reply = NoReply])]
       [] ~retry /\ r.reply.err = "TRANSPORT" -> known
       [] ~retry /\ r.reply.err # "TRANSPORT" ->
            ApplyOffsets([known EXCEPT !.serve_pending =
                            @ \/ r.reply.err = "STALE_MEMBER_EPOCH"],
                         r.reply.offsets, r.reply.errors, r.reply.err)

\* Mutant: the assignment is not served after the last commit.
CommitDone_NoServe(s) == [s EXCEPT !.wait_commit_cnt = @ - 1]

\* rd_kafka_cgrp_op_handle_OffsetCommit() when the commit has its final result.
CommitDone(s) ==
  LET less == [s EXCEPT !.wait_commit_cnt = @ - 1]
  IN IF less.wait_commit_cnt = 0 THEN Serve(less, {}) ELSE less

\* Mutant: a commit is retried without end.
CommitResult_AlwaysRetry(s, r) ==
  CASE r.reply.err = "none" ->
         CommitDone([s EXCEPT !.committed_pos = With(@, r.offsets)])
    [] r.reply.err = "TRANSPORT" ->
         [s EXCEPT !.up = FALSE,
                   !.retry = Append(@, [r EXCEPT !.reply = NoReply, !.retries = @ + 1])]
    [] OTHER -> CommitDone(s)

\* The same from the start: on a transport error the coordinator is declared
\* dead and the request is retried, then deferred once, then given up.
CommitResult(s, r) ==
  LET dead == [s EXCEPT !.up = FALSE]
      ok   == [s EXCEPT !.committed_pos = With(@, r.offsets)]
  IN CASE r.reply.err = "none" -> CommitDone(ok)
       [] r.reply.err = "TRANSPORT" /\ r.retries < RetriesMax ->
            [dead EXCEPT !.retry =
               Append(@, [r EXCEPT !.reply = NoReply, !.retries = @ + 1])]
       [] r.reply.err = "TRANSPORT" /\ r.retries = RetriesMax /\ ~r.deferred ->
            [dead EXCEPT !.wait_coord = Append(@, CommitRequest(r.offsets, TRUE))]
       [] r.reply.err = "TRANSPORT" /\ r.retries = RetriesMax /\ r.deferred ->
            CommitDone(dead)
       [] OTHER -> CommitDone(s)

\* The reply that arrived first is handled.
HandleReply ==
  /\ c.wire # <<>> /\ Answered(Head(c.wire))
  /\ LET r == Head(c.wire)
         s == [c EXCEPT !.wire = Tail(@)]
     IN IF r.kind = "fetch"
        THEN /\ c' = FetchResult(s, r)
             /\ UNCHANGED acked
        ELSE /\ c' = CommitResult(s, r)
             /\ acked' = [p \in Partitions |->
                            IF r.reply.err = "none" /\ p \in DOMAIN r.offsets
                               /\ r.offsets[p] > acked[p]
                            THEN r.offsets[p] ELSE acked[p]]
  /\ UNCHANGED <<committed, delivered, bound>>

\* The reply of a commit that failed before it was sent.
HandleUnsentCommit ==
  /\ c.errs > 0
  /\ c' = CommitDone([c EXCEPT !.errs = @ - 1])
  /\ UNCHANGED <<committed, delivered, acked, bound>>

\* A request's retry backoff is over: it is sent again, behind later ones.
Resend(i) ==
  /\ i \in DOMAIN c.retry
  /\ c' = [c EXCEPT !.wire = Append(@, c.retry[i]), !.retry = RemoveAt(@, i)]
  /\ UNCHANGED <<committed, delivered, acked, bound>>

\* rd_kafka_cgrp_offset_commit_tmr_cb(): the auto-commit timer.
CommitTimer ==
  /\ bound.commits < MaxCommits
  /\ c' = OffsetsCommit(c, StoredOffsets(c))
  /\ bound' = [bound EXCEPT !.commits = @ + 1]
  /\ UNCHANGED <<committed, delivered, acked>>

\* rd_kafka_cgrp_serve() finds the coordinator's connection up.
CoordUp ==
  /\ ~c.up
  /\ c' = Serve([c EXCEPT !.up = TRUE], {})
  /\ UNCHANGED <<committed, delivered, acked, bound>>

\* rd_kafka_cgrp_serve() with a coordinator moves the deferred commits to the
\* ops queue ...
MoveDeferred ==
  /\ c.up /\ c.wait_coord # <<>>
  /\ c' = [c EXCEPT !.ops = @ \o c.wait_coord, !.wait_coord = <<>>]
  /\ UNCHANGED <<committed, delivered, acked, bound>>

\* ... where they are sent, or fail if the coordinator is gone again: a commit
\* is deferred only once.
Reprocess ==
  /\ c.ops # <<>>
  /\ c' = IF c.up
          THEN [c EXCEPT !.ops = Tail(@), !.wire = Append(@, Head(c.ops))]
          ELSE [c EXCEPT !.ops = Tail(@), !.errs = @ + 1]
  /\ UNCHANGED <<committed, delivered, acked, bound>>

\* A ConsumerGroupHeartbeat succeeded after a stale epoch.
Heartbeat ==
  /\ c.serve_pending
  /\ c' = [Serve(c, {}) EXCEPT !.serve_pending = FALSE]
  /\ UNCHANGED <<committed, delivered, acked, bound>>

(***************************************************************************)
(* The fetchers and the application.                                       *)
(***************************************************************************)

\* Mutant: the stored offset is one too high.
Consume_StoreNext(p) ==
  LET o == IF IsLogical(c.app_pos[p]) THEN 0 ELSE c.app_pos[p]
  IN /\ p \in c.started \ c.wait_stop
     /\ c.app_pos[p] # END
     /\ o < LogEnd
     /\ c' = [c EXCEPT !.app_pos[p] = o + 1, !.stored[p] = o + 2]
     /\ delivered' = [delivered EXCEPT ![p] = @ \cup {o}]
     /\ UNCHANGED <<committed, acked, bound>>

\* The application consumes the next message of a partition, which stores the
\* offset behind it.  auto.offset.reset is "earliest".
Consume(p) ==
  LET o == IF IsLogical(c.app_pos[p]) THEN 0 ELSE c.app_pos[p]
  IN /\ p \in c.started \ c.wait_stop
     /\ c.app_pos[p] # END
     /\ o < LogEnd
     /\ c' = [c EXCEPT !.app_pos[p] = o + 1, !.stored[p] = o + 1]
     /\ delivered' = [delivered EXCEPT ![p] = @ \cup {o}]
     /\ UNCHANGED <<committed, acked, bound>>

(***************************************************************************)
(* The group coordinator, and what goes wrong between it and the client.   *)
(***************************************************************************)

Fault(f) ==
  /\ f \in Features /\ bound.faults < MaxFaults
  /\ bound' = [bound EXCEPT !.faults = @ + 1]

\* The first request the coordinator has not answered yet.
Unanswered == {i \in DOMAIN c.wire : ~Answered(c.wire[i])}
Next1 == CHOOSE i \in Unanswered : \A j \in Unanswered : i <= j

Reply(i, reply) == c' = [c EXCEPT !.wire[i].reply = reply]

\* The committed offsets, and an error e for the partitions in bad.
FetchReply(parts, bad, e) ==
  [err     |-> "none",
   offsets |-> [p \in parts |-> IF p \in bad THEN INVALID ELSE committed[p]],
   errors  |-> [p \in parts |-> IF p \in bad THEN e ELSE "none"]]

\* An error for the whole request; the reply lists its partitions or none.
FetchError(listed, e) ==
  [err |-> e, offsets |-> [p \in listed |-> INVALID], errors |-> [p \in listed |-> e]]

CommitReply(e) == [err |-> e, offsets |-> <<>>, errors |-> <<>>]

\* The coordinator answers an OffsetFetch.
AnswerFetch ==
  /\ Unanswered # {} /\ c.wire[Next1].kind = "fetch"
  /\ LET parts == c.wire[Next1].parts
     IN \/ Reply(Next1, FetchReply(parts, {}, "none")) /\ UNCHANGED bound
        \/ /\ Fault("unstable")
           /\ \E bad \in (SUBSET parts) \ {{}} :
                Reply(Next1, FetchReply(parts, bad, "UNSTABLE_OFFSET_COMMIT"))
        \/ /\ Fault("part_err")
           /\ \E bad \in (SUBSET parts) \ {{}} :
                Reply(Next1, FetchReply(parts, bad, "ERROR"))
        \/ /\ Fault("req_err")
           /\ \E listed \in {{}, parts} : Reply(Next1, FetchError(listed, "ERROR"))
        \/ /\ Fault("stale_epoch")
           /\ \E listed \in {{}, parts} :
                Reply(Next1, FetchError(listed, "STALE_MEMBER_EPOCH"))
  /\ UNCHANGED <<committed, delivered, acked>>

\* The coordinator carries out or refuses an OffsetCommit.
AnswerCommit ==
  /\ Unanswered # {} /\ c.wire[Next1].kind = "commit"
  /\ \/ /\ Reply(Next1, CommitReply("none"))
        /\ committed' = With(committed, c.wire[Next1].offsets)
        /\ UNCHANGED bound
     \/ /\ Fault("commit_err")
        /\ Reply(Next1, CommitReply("ERROR"))
        /\ UNCHANGED committed
  /\ UNCHANGED <<delivered, acked>>

\* The connection breaks: the replies after the first k are lost, and
\* rd_kafka_cgrp_serve() notices or not.
Disconnect ==
  /\ Fault("disconnect")
  /\ \E k \in 0 .. Len(c.wire) - 1, up \in {c.up, FALSE} :
       /\ \A i \in 1 .. k : Answered(c.wire[i])
       /\ c' = [c EXCEPT !.up = up,
                         !.wire = [i \in DOMAIN @ |->
                           IF i <= k THEN @[i]
                           ELSE [@[i] EXCEPT !.reply = CommitReply("TRANSPORT")]]]
  /\ UNCHANGED <<committed, delivered, acked>>

\* rd_kafka_cgrp_coord_dead(): the coordinator is gone, its connection is not.
CoordDead ==
  /\ Fault("down") /\ c.up
  /\ c' = [c EXCEPT !.up = FALSE]
  /\ UNCHANGED <<committed, delivered, acked>>

\* rd_kafka_cgrp_timeout_scan(): the deferred commits have waited too long.
ExpireDeferred ==
  /\ Fault("expire") /\ ~c.up /\ c.wait_coord # <<>>
  /\ c' = CommitDone([c EXCEPT !.wait_coord = Tail(@)])
  /\ UNCHANGED <<committed, delivered, acked>>

\* Another member of the group consumes and commits a partition that this
\* consumer has given up completely.
OtherMember(p) ==
  LET o == IF IsLogical(committed[p]) THEN 0 ELSE committed[p]
  IN /\ "others" \in Features
     /\ p \notin DOMAIN c.all /\ p \notin c.started /\ c.wait_commit_cnt = 0
     /\ o < LogEnd
     /\ committed' = [committed EXCEPT ![p] = o + 1]
     /\ delivered' = [delivered EXCEPT ![p] = @ \cup {o}]
     /\ UNCHANGED <<c, acked, bound>>

(***************************************************************************)
(* The specification.                                                      *)
(***************************************************************************)

\* Non-empty lists the application may pass.
AppLists == UNION { [S -> StartOffsets] : S \in (SUBSET Partitions) \ {{}} }

AppCall ==
  \/ \E list \in AppLists : Assign(list) \/ IncrementalAssign(list)
  \/ Unassign
  \/ \E R \in (SUBSET Partitions) \ {{}} : IncrementalUnassign(R)

MainThread ==
  \/ HandleReply \/ HandleUnsentCommit
  \/ \E p \in Partitions : PartitionStopped(p)
  \/ \E i \in DOMAIN c.retry : Resend(i)
  \/ CoordUp \/ MoveDeferred \/ Reprocess \/ Heartbeat

Coordinator == AnswerFetch \/ AnswerCommit

Next ==
  \/ AppCall \/ CommitTimer \/ MainThread \/ Coordinator
  \/ Disconnect \/ CoordDead \/ ExpireDeferred
  \/ \E p \in Partitions : Consume(p) \/ OtherMember(p)

Spec == Init /\ [][Next]_vars

\* The main thread goes on as long as it has something to do (its queue of
\* ops and replies, its timers) and the coordinator answers what it receives.
\* The application, the commit timer, other members and faults owe nothing.
FairSpec == Spec /\ WF_vars(MainThread) /\ WF_vars(Coordinator)

(***************************************************************************)
(* Properties.                                                             *)
(***************************************************************************)

Errors == { "pending", "none", "TRANSPORT", "ERROR", "UNSTABLE_OFFSET_COMMIT",
            "STALE_MEMBER_EPOCH" }

Replies ==
  [err : Errors, offsets : PartitionLists,
   errors : UNION { [S -> Errors] : S \in SUBSET Partitions }]

Requests ==
  [kind : {"fetch"}, parts : SUBSET Partitions, version : Nat, reply : Replies]
  \cup
  [kind : {"commit"}, offsets : PartitionLists, deferred : BOOLEAN,
   retries : 0 .. RetriesMax, reply : Replies]

ConsumerState ==
  [ all : PartitionLists, pending : PartitionLists, queried : SUBSET Partitions,
    started : SUBSET Partitions, wait_stop : SUBSET Partitions,
    assigned : SUBSET Partitions,
    stored : [Partitions -> Offsets], committed_pos : [Partitions -> Offsets],
    app_pos : [Partitions -> Offsets],
    started_cnt : Int, wait_stop_cnt : Int, wait_commit_cnt : Int,
    version : Nat, stops : [Partitions -> Int], up : BOOLEAN,
    wire : Seq(Requests), retry : Seq(Requests), wait_coord : Seq(Requests),
    ops : Seq(Requests), errs : Int,
    serve_pending : BOOLEAN, done : BOOLEAN, asserts : BOOLEAN ]

\* Every variable holds values of its type.
TypeOK ==
  /\ c \in ConsumerState
  /\ committed \in [Partitions -> Offsets]
  /\ delivered \in [Partitions -> SUBSET (0 .. LogEnd)]
  /\ acked \in [Partitions -> Offsets]
  /\ bound \in [calls : 0 .. MaxCalls, commits : 0 .. MaxCommits,
                faults : 0 .. MaxFaults]

\* No rd_assert() of rdkafka_assignment.c ever fails, in any order of calls,
\* replies and stopped fetchers: a partition is never stopped twice nor started
\* while it is still stopping, the counters never go below zero, and the
\* ASSIGNED flag is set exactly once per assignment.
AssertsHold == c.asserts

CommitOps(q) == Cardinality({i \in DOMAIN q : q[i].kind = "commit"})

\* wait_commit_cnt counts the commits that still get a result: on the wire, to
\* be retried, deferred, to be reprocessed, or failed with the result queued.
\* One too many and no partition is ever started again, one too few and the
\* assertion in rd_kafka_cgrp_op_handle_OffsetCommit() fails.
CommitAccounting ==
  c.wait_commit_cnt = CommitOps(c.wire) + CommitOps(c.retry) + Len(c.wait_coord)
                      + Len(c.ops) + c.errs

\* At least once: the group never commits past a message that nobody consumed.
AtLeastOnce ==
  \A p \in Partitions : \A o \in 0 .. (committed[p] - 1) : o \in delivered[p]

Starting(p) == p \in c'.started /\ p \notin c.started /\ c'.all[p] = STORED

\* The requests of a sequence that commit partition p.
CommitsOf(p, q) == {i \in DOMAIN q : q[i].kind = "commit" /\ p \in DOMAIN q[i].offsets}

\* A partition that starts at the committed offset starts when none of its
\* commits is outstanding, and never before an offset this consumer has had
\* acknowledged: it has waited for its commits before it asked, and an answer
\* from before them has arrived by then.
ReadsOwnCommits ==
  [][\A p \in Partitions : Starting(p) =>
       /\ c'.app_pos[p] >= acked[p]
       /\ \A q \in {c'.wire, c'.retry, c'.wait_coord, c'.ops} : CommitsOf(p, q) = {}]_vars

\* The group's committed offset never moves back.
CommitsAdvance ==
  [][\A p \in Partitions : committed'[p] >= committed[p]]_vars

\* Every change of the assignment is carried out in the end: all assigned
\* partitions are being fetched, and the cgrp, which waits for that to go on
\* with a rebalance, has been told.
EventuallyServed ==
  []<>(c.done /\ DOMAIN c.all \subseteq c.started \ c.wait_stop)
=============================================================================
