-------------------------------- MODULE Cgrp --------------------------------
(***************************************************************************)
(* The consumer group of a client with the classic protocol: the join      *)
(* state machine, EAGER and COOPERATIVE rebalances delegated to the        *)
(* application, the change of subscription, the loss of the membership     *)
(* and the close of the consumer.                                          *)
(*                                                                         *)
(* The main thread runs the group `c` (rd_kafka_cgrp_t); the application   *)
(* sends ops and serves the rebalance callbacks; the coordinator `k` is    *)
(* external.  A topic has one partition and the two are identified.        *)
(*                                                                         *)
(* The names a member id and a generation have are relative: "known" is    *)
(* the id the coordinator last gave out and "current" its generation, and  *)
(* the coordinator renames the ones it replaces (Forget, Age).             *)
(*                                                                         *)
(* The assignment (all, pending, started, removed, removing) is what       *)
(* module Assignment promises: a removal ends when the fetchers of the     *)
(* partitions have stopped, an addition when their offsets are known.      *)
(***************************************************************************)
EXTENDS Naturals, Sequences

CONSTANTS
  Parts,          \* the topics, with one partition each
  Starts,         \* how an instance may start: its protocol and cached topics
  Subscriptions,  \* the sets of topics the application subscribes to
  Faults,         \* which faults take part, see FaultNames
  MaxEvents,      \* bound: calls of subscribe() and unsubscribe(), and faults
  None            \* NULL

FaultNames ==
  { "disconnect",  \* the connection to the coordinator breaks
    "session",     \* no heartbeat succeeded for session.timeout.ms
    "maxpoll",     \* the application does not poll for max.poll.interval.ms
    "evict",       \* the coordinator drops the member
    "peers",       \* another member joins or leaves the group
    "topics" }     \* a metadata refresh finds a topic created or deleted

ASSUME CgrpBounds == MaxEvents \in Nat
ASSUME CgrpSets ==
  /\ Faults \subseteq FaultNames
  /\ Subscriptions \subseteq SUBSET Parts
  /\ Starts \subseteq [proto : {"EAGER", "COOPERATIVE"}, cached : SUBSET Parts]
  /\ \A S \in SUBSET Parts : S # None

VARIABLES
  c,      \* the consumer group, its queues and its application
  k,      \* external: the group coordinator and the other members
  events  \* calls and faults so far

vars == <<c, k, events>>

(***************************************************************************)
(* State.                                                                  *)
(***************************************************************************)

JoinStates ==
  {"INIT", "WAIT_JOIN", "WAIT_METADATA", "WAIT_SYNC", "WAIT_ASSIGN_CALL",
   "WAIT_UNASSIGN_CALL", "WAIT_UNASSIGN_TO_COMPLETE",
   "WAIT_INCR_UNASSIGN_TO_COMPLETE", "STEADY"}

Group(start) ==
  [ proto |-> start.proto, cached |-> start.cached,
    assignor   |-> FALSE,          \* rkcg_assignor is set
    state      |-> "QUERY_COORD",  \* rkcg_state
    join_state |-> "INIT",
    wait_resp  |-> "none",         \* rkcg_wait_resp
    member     |-> "none",         \* rkcg_member_id
    gen        |-> "none",         \* rkcg_generation_id
    subscription |-> None, topics |-> {}, \* rkcg_subscription, _subscribed_topics
    next_sub   |-> None, next_unsub |-> FALSE,
    incr       |-> None,           \* rkcg_rebalance_incr_assignment
    rejoin     |-> FALSE,          \* rkcg_rebalance_rejoin
    group      |-> None,           \* rkcg_group_assignment
    lost       |-> FALSE,          \* rkcg_assignment_lost
    leave_on   |-> FALSE,          \* F_LEAVE_ON_UNASSIGN_DONE
    wait_leave |-> FALSE,          \* F_WAIT_LEAVE
    terminate  |-> FALSE,          \* F_TERMINATE
    hb         |-> FALSE,          \* F_HEARTBEAT_IN_TRANSIT
    poll_exceeded |-> FALSE,       \* F_MAX_POLL_EXCEEDED
    polltmr    |-> FALSE,          \* rkcg_max_poll_interval_tmr is started
    session    |-> FALSE,          \* rkcg_ts_session_timeout is set
    leader     |-> FALSE,          \* rkcg_group_leader.members is set
    terminated |-> FALSE,
    all |-> {}, pending |-> {}, started |-> {}, removed |-> {}, removing |-> {},
    asgn |-> 0,       \* metadata requests of the assignor in flight
    meta |-> {},      \* metadata requests of the group in flight
    exists |-> Parts, \* the topics that exist, as the metadata says
    net |-> <<>>,     \* requests to the coordinator
    resp |-> <<>>,    \* its replies, on rkcg_ops
    ops |-> <<>>,     \* ops of the application, on rkcg_ops
    appq |-> <<>>,    \* rebalance ops, on rkcg_q
    busy |-> FALSE,   \* the application waits for the reply to its op
    late |-> FALSE,   \* the application has not polled for too long
    closed |-> FALSE, \* the application has called close()
    failed |-> FALSE, \* history: an assertion failed
    aborted |-> FALSE, \* history: one that can fail did, and the process is gone
    midway |-> FALSE, \* history: the topics changed while the assignment did
    assigning |-> FALSE, \* history: WAIT_METADATA is for the assignor
    outdated |-> FALSE, \* history: the assignor ran on the reply to an earlier join's request
    refused |-> FALSE ] \* history: the application's *assign() call failed

Init ==
  /\ \E start \in Starts : c = Group(start)
  /\ k = [member |-> FALSE, rebalance |-> FALSE, peers |-> FALSE, follow |-> FALSE,
          target |-> Parts, assigned |-> {}, others |-> {}]
  /\ events = 0

Elems(list) == IF list = None THEN {} ELSE list

\* rd_assert() and rd_dassert()
Check(s, cond) == [s EXCEPT !.failed = @ \/ ~cond]

\* One of the three that events can make fail has: rd_kafka_cgrp_modify_subscription()
\* asserts that the join state is INIT or STEADY before it waits for metadata,
\* rd_kafka_cgrp_set_wait_resp() that no reply is awaited when the assignor has run, and
\* rd_kafka_cgrp_group_assignment_modify() that what follows a revocation is not yet
\* in the assignment.
Abort(s) == [s EXCEPT !.aborted = TRUE]

HasJoined(s) == s.member # "none"

WaitAssignCall(s) == s.join_state \in {"WAIT_ASSIGN_CALL", "WAIT_UNASSIGN_CALL"}

Rebalancing(s) ==
  \/ HasJoined(s) /\ s.join_state \in {"WAIT_JOIN", "WAIT_METADATA"}
  \/ s.join_state \in {"WAIT_SYNC", "WAIT_UNASSIGN_TO_COMPLETE",
                       "WAIT_INCR_UNASSIGN_TO_COMPLETE"}
  \/ WaitAssignCall(s)
  \/ s.incr # None
  \/ s.rejoin

\* rd_kafka_cgrp_rebalance_protocol()
Protocol(s) == IF s.assignor THEN s.proto ELSE "NONE"

Cooperative(s) == Protocol(s) = "COOPERATIVE"

SetWaitResp(s, api) == [Check(s, s.wait_resp = "none") EXCEPT !.wait_resp = api]

ClearWaitResp(s, api) == [Check(s, s.wait_resp = api) EXCEPT !.wait_resp = "none"]

Request(api, s) ==
  [api |-> api, member |-> s.member, gen |-> s.gen,
   topics |-> IF api = "JoinGroup" THEN s.topics ELSE {},
   owned  |-> IF api = "JoinGroup" THEN Elems(s.group) ELSE {}]

\* external: a reply, which names the member, its generation and its assignment
Reply(req, err, P, leader) ==
  [req |-> [req EXCEPT !.topics = {}, !.owned = {}], err |-> err, parts |-> P, leader |-> leader,
   member |-> IF err = "MEMBER_ID_REQUIRED" THEN "known" ELSE req.member,
   gen |-> "current"]

Send(s, req) == [s EXCEPT !.net = Append(@, req)]

SetLost(s) == [s EXCEPT !.lost = @ \/ s.group # None]

ClearLost(s) == [s EXCEPT !.lost = FALSE]

(***************************************************************************)
(* Leaving, terminating and rejoining.                                     *)
(***************************************************************************)

\* rd_kafka_assignment_in_progress()
InProgress(s) == s.removed \cup s.removing \cup s.pending # {}

TryTerminate(s) ==
  IF /\ s.terminate
     /\ ~WaitAssignCall(s)
     /\ s.started = {}
     /\ ~InProgress(s)
     /\ ~s.wait_leave
  THEN [s EXCEPT !.state = "TERM"]
  ELSE s

HandleLeaveGroup(s) == TryTerminate([s EXCEPT !.wait_leave = FALSE])

Leave(s) ==
  LET left == [s EXCEPT !.member = "none"]
      waiting == [left EXCEPT !.wait_leave = TRUE]
  IN  IF s.wait_leave THEN left
      ELSE IF s.state = "UP" THEN Send(waiting, Request("LeaveGroup", s))
      ELSE HandleLeaveGroup(waiting)

LeaveMaybe(s) ==
  IF s.leave_on THEN Leave([s EXCEPT !.leave_on = FALSE]) ELSE s

Rejoin(s) ==
  LET t == IF s.subscription = None /\ s.next_sub = None THEN LeaveMaybe(s) ELSE s
  IN  [t EXCEPT !.join_state = "INIT"]

(***************************************************************************)
(* Rebalance ops for the application's callback.                           *)
(***************************************************************************)

\* rd_kafka_cgrp_group_assignment_modify()
GroupAssignmentModify(s, add, P) ==
  LET now == IF add THEN Elems(s.group) \cup P ELSE Elems(s.group) \ P
      t   == IF add THEN Check(s, Elems(s.group) \cap P = {})
                    ELSE Check(s, Elems(s.group) # {} /\ P \subseteq Elems(s.group))
  IN  [t EXCEPT !.group = IF ~add /\ now = {} THEN None ELSE now]

CallApp(s, op, P) ==
  [s EXCEPT !.join_state = IF op = "assign" THEN "WAIT_ASSIGN_CALL" ELSE "WAIT_UNASSIGN_CALL",
            !.appq = Append(@, [op |-> op, parts |-> P])]

RebalanceOpIncr(s, op, P, rejoin) ==
  GroupAssignmentModify(CallApp([s EXCEPT !.rejoin = rejoin], op, P), op = "assign", P)

RebalanceOp(s, op, P) ==
  [CallApp(s, op, P) EXCEPT !.group = IF op = "assign" THEN P ELSE None]

RevokeAllRejoin(s, lost) ==
  IF ~Cooperative(s)
  THEN LET t == IF lost THEN SetLost(s) ELSE s
       IN  IF s.group # None /\ ~WaitAssignCall(s)
           THEN RebalanceOp(t, "revoke", s.group)
           ELSE Rejoin(t)
  ELSE LET t == Check(s, s.terminate \/ lost \/ s.subscription = None \/ s.leave_on)
       IN  IF Elems(s.group) # {}
           THEN RebalanceOpIncr(IF lost THEN SetLost(t) ELSE t, "revoke", s.group, ~s.terminate)
           ELSE IF s.terminate THEN t
           ELSE Rejoin(t)

RevokeAllRejoinMaybe(s, lost) ==
  IF Rebalancing(s) THEN s ELSE RevokeAllRejoin(s, lost)

\* Mutant: an EAGER member joins again without revoking its assignment.
GroupIsRebalancing_NoRevoke(s) ==
  IF Rebalancing(s) THEN s ELSE Rejoin(s)

GroupIsRebalancing(s) ==
  IF Protocol(s) = "EAGER" THEN RevokeAllRejoinMaybe(s, FALSE)
  ELSE IF Rebalancing(s) THEN s
  ELSE Rejoin(s)

(***************************************************************************)
(* The assignment.                                                         *)
(***************************************************************************)

AssignmentClear(s) ==
  [s EXCEPT !.removed = @ \cup s.all, !.all = {}, !.pending = {}]

\* No partition has RD_KAFKA_TOPPAR_F_ASSIGNED set, which serving its removal clears.
AssignmentAdd(s, P) ==
  [Check(s, P \cap (s.all \cup s.removed) = {}) EXCEPT
     !.all = @ \cup P, !.pending = @ \cup P]

\* Mutant: the partitions that leave stay on the list of those to be queried.
AssignmentSubtract_KeepsPending(s, P) ==
  [s EXCEPT !.all = @ \ P, !.removed = @ \cup P]

AssignmentSubtract(s, P) ==
  [s EXCEPT !.all = @ \ P, !.pending = @ \ P, !.removed = @ \cup P]

CgrpUnassign(s) ==
  LET t == AssignmentClear(s)
  IN  IF s.join_state = "WAIT_UNASSIGN_CALL"
      THEN [t EXCEPT !.join_state = "WAIT_UNASSIGN_TO_COMPLETE"]
      ELSE t

UnassignDone(s) == Rejoin(LeaveMaybe(ClearLost(s)))

WaitingSubscribe(s) == s.next_sub # None \/ s.next_unsub

IncrUnassignDone(s) ==
  LET t == ClearLost(s)
  IN  IF s.terminate THEN CgrpUnassign(t)
      ELSE IF Elems(s.incr) \cap Elems(s.group) # {} THEN Abort(t)
      ELSE IF s.incr # None
      THEN [RebalanceOpIncr(t, "assign", s.incr, TRUE) EXCEPT !.incr = None]
      ELSE IF s.rejoin THEN Rejoin([t EXCEPT !.rejoin = FALSE])
      ELSE IF WaitingSubscribe(s) THEN Rejoin(t)
      ELSE [t EXCEPT !.join_state = "STEADY"]

\* Mutant: the postponed subscription is forgotten once the assignment is served.
AssignmentDone_NoSubscribe(s) ==
  CASE s.join_state = "WAIT_UNASSIGN_TO_COMPLETE" -> UnassignDone(s)
    [] s.join_state = "WAIT_INCR_UNASSIGN_TO_COMPLETE" -> IncrUnassignDone(s)
    [] s.join_state = "STEADY" /\ s.rejoin -> Rejoin([s EXCEPT !.rejoin = FALSE])
    [] s.join_state = "INIT" \/ (s.join_state = "STEADY" /\ ~s.rejoin) -> TryTerminate(s)
    [] OTHER -> s

\* rd_kafka_cgrp_assignment_done()
AssignmentDone(s) ==
  CASE s.join_state = "WAIT_UNASSIGN_TO_COMPLETE" -> UnassignDone(s)
    [] s.join_state = "WAIT_INCR_UNASSIGN_TO_COMPLETE" -> IncrUnassignDone(s)
    [] s.join_state = "STEADY" /\ WaitingSubscribe(s) -> Rejoin(s)
    [] s.join_state = "STEADY" /\ s.rejoin /\ ~WaitingSubscribe(s) ->
         Rejoin([s EXCEPT !.rejoin = FALSE])
    [] \/ s.join_state = "INIT"
       \/ s.join_state = "STEADY" /\ ~s.rejoin /\ ~WaitingSubscribe(s) -> TryTerminate(s)
    [] OTHER -> s

AssignmentServe(s) ==
  LET t == [s EXCEPT !.removing = @ \cup (s.removed \cap s.started), !.removed = {}]
  IN  IF t.removing = {} /\ t.pending = {} THEN AssignmentDone(t) ELSE t

AssignCalled(s) ==
  IF s.join_state = "WAIT_ASSIGN_CALL"
  THEN [s EXCEPT !.join_state = "STEADY", !.polltmr = @ \/ s.subscription # None]
  ELSE s

CgrpAssign(s, P) ==
  LET t == IF s.all = {} THEN s ELSE AssignmentServe(AssignmentClear(s))
  IN  AssignCalled(ClearLost(AssignmentAdd(t, P)))

IncrementalAssign(s, P) == ClearLost(AssignCalled(AssignmentAdd(s, P)))

IncrementalUnassign(s, P) ==
  LET t == AssignmentSubtract(s, P)
  IN  IF s.join_state = "WAIT_UNASSIGN_CALL"
      THEN [t EXCEPT !.join_state = "WAIT_INCR_UNASSIGN_TO_COMPLETE"]
      ELSE t

(***************************************************************************)
(* The subscription.                                                       *)
(***************************************************************************)

\* A new version of the subscription: a request made for the old one is outdated.
SubscriptionSet(s, S) ==
  [s EXCEPT !.subscription = S,
            !.next_sub = IF S = None THEN None ELSE @,
            !.meta = {m \in @ : m.ver = "any"}]

\* rd_kafka_cgrp_metadata_refresh() returned 1
NeedsMetadata(s) == ~(s.subscription \subseteq s.cached)

WaitMetadata(s, ver) ==
  [Check(s, s.join_state \in {"INIT", "STEADY"}) EXCEPT
     !.join_state = "WAIT_METADATA", !.assigning = FALSE,
     !.meta = @ \cup {[ver |-> ver, topics |-> s.subscription]}]

\* The subscribed topics that metadata knows, rd_kafka_metadata_topic_filter()
TopicFilter(s) == s.subscription \cap s.cached \cap s.exists

\* Mutant: a new join does not wait for the reply to the one given up.
Join_NoWait(s, ver) ==
  LET t == [s EXCEPT !.poll_exceeded = FALSE]
      u == IF t.topics = {} THEN [t EXCEPT !.topics = TopicFilter(t)] ELSE t
  IN  IF \/ s.state # "UP" \/ s.join_state # "INIT"
         \/ s.poll_exceeded /\ s.late
      THEN s
      ELSE IF NeedsMetadata(t) THEN WaitMetadata(t, ver)
      ELSE IF u.topics = {} THEN u
      ELSE Send(SetWaitResp([u EXCEPT !.join_state = "WAIT_JOIN"], "JoinGroup"),
                Request("JoinGroup", u))

Join(s, ver) ==
  LET t == [s EXCEPT !.poll_exceeded = FALSE]
      u == IF t.topics = {} THEN [t EXCEPT !.topics = TopicFilter(t)] ELSE t
  IN  IF \/ s.state # "UP" \/ s.join_state # "INIT" \/ s.wait_resp # "none"
         \/ s.poll_exceeded /\ s.late
      THEN s
      ELSE IF NeedsMetadata(t) THEN WaitMetadata(t, ver)
      ELSE IF u.topics = {} THEN u
      ELSE Send(SetWaitResp([u EXCEPT !.join_state = "WAIT_JOIN"], "JoinGroup"),
                Request("JoinGroup", u))

Unsubscribe(s, leave) ==
  LET t == [SubscriptionSet(s, None) EXCEPT
              !.polltmr = FALSE, !.topics = {}, !.leader = FALSE,
              !.leave_on = @ \/ (leave /\ HasJoined(s))]
  IN  IF s.lost THEN t ELSE RevokeAllRejoin(t, FALSE)

ModifySubscription(s, S) ==
  LET revoking == Elems(s.group) \cap (s.topics \ S)
      t == SubscriptionSet(s, S)
      u == [t EXCEPT !.topics = TopicFilter(t)]
  IN  IF NeedsMetadata(t)
      THEN IF s.join_state \in {"INIT", "STEADY"} THEN WaitMetadata(t, "same") ELSE Abort(t)
      ELSE IF revoking # {} THEN RebalanceOpIncr(u, "revoke", revoking, TRUE)
      ELSE IF u.topics # s.topics THEN Rejoin(u)
      ELSE u

Subscribe(s, S) ==
  LET t == [s EXCEPT !.next_sub = None, !.next_unsub = FALSE]
      u == IF t.subscription = None THEN t ELSE Unsubscribe(t, S = None)
  IN  IF Rebalancing(s)
      THEN [t EXCEPT !.next_sub = S, !.next_unsub = (S = None)]
      ELSE IF Cooperative(s) /\ S # None /\ s.subscription # None
      THEN ModifySubscription(t, S)
      ELSE IF S = None THEN u
      ELSE Join(SubscriptionSet(u, S), "same")

ApplyNextSubscribe(s) ==
  IF s.next_sub # None THEN Subscribe([s EXCEPT !.next_sub = None], s.next_sub)
  ELSE IF s.next_unsub THEN Unsubscribe([s EXCEPT !.next_unsub = FALSE], TRUE)
  ELSE s

\* A rebalance op is with the application or its outcome is being carried out.
Changing(s) ==
  WaitAssignCall(s) \/ s.join_state \in {"WAIT_UNASSIGN_TO_COMPLETE",
                                        "WAIT_INCR_UNASSIGN_TO_COMPLETE"}

\* rd_kafka_cgrp_metadata_update_check(do_join = true)
MetadataUpdateCheck(s) ==
  LET t == [s EXCEPT !.topics = TopicFilter(s),
                     !.midway = @ \/ (Changing(s) /\ s.topics # TopicFilter(s))]
      gone == Elems(s.group) \ t.topics
      u == IF Cooperative(s)
           THEN IF gone # {}
                THEN RebalanceOpIncr(SetLost(t), "revoke", gone, s.leader)
                ELSE Rejoin(t)
           ELSE RevokeAllRejoin([t EXCEPT !.leader = FALSE], FALSE)
  IN  IF Elems(s.subscription) = {} THEN s
      ELSE IF t.topics = s.topics /\ s.join_state # "WAIT_METADATA" THEN t
      ELSE Check(u, u.join_state # "WAIT_METADATA")

(***************************************************************************)
(* Handlers of the main thread.                                            *)
(***************************************************************************)

\* rd_kafka_cgrp_terminate0(), before it serves the assignment
Terminate0(s) ==
  LET t == [s EXCEPT !.terminate = TRUE]
      u == IF t.subscription # None THEN Unsubscribe(t, TRUE) ELSE t
  IN  IF WaitAssignCall(u) THEN u ELSE CgrpUnassign(u)

HandleAssignOp(s, op, P) ==
  IF s.terminate
  THEN LET t == [s EXCEPT !.incr = None,
                          !.join_state = IF @ = "WAIT_ASSIGN_CALL" THEN "WAIT_UNASSIGN_CALL" ELSE @]
       IN  AssignmentServe(CgrpUnassign(t))
  ELSE IF s.proto = "EAGER"
  THEN AssignmentServe(IF op = "assign" THEN CgrpAssign(s, P) ELSE CgrpUnassign(s))
  ELSE IF op = "assign" /\ P \cap s.all = {} THEN AssignmentServe(IncrementalAssign(s, P))
  ELSE IF op = "revoke" /\ P \subseteq s.all THEN AssignmentServe(IncrementalUnassign(s, P))
  ELSE [s EXCEPT !.refused = TRUE]

SyncGroup(s) ==
  LET t == SetWaitResp([s EXCEPT !.join_state = "WAIT_SYNC"], "SyncGroup")
  IN  Send(t, Request("SyncGroup", t))

\* The reply to a JoinGroup request without error.
Joined(s, r) ==
  LET t == [s EXCEPT !.member = r.member, !.gen = r.gen, !.assignor = TRUE]
  IN  IF r.leader
      THEN [t EXCEPT !.leader = TRUE, !.join_state = "WAIT_METADATA", !.assigning = TRUE,
                     !.asgn = @ + 1]
      ELSE SyncGroup(t)

\* An error of the coordinator says what it no longer knows.
Unknown(s, err) ==
  [s EXCEPT !.gen = IF err = "ILLEGAL_GENERATION" THEN "none" ELSE @,
            !.member = IF err = "UNKNOWN_MEMBER_ID" THEN "none" ELSE @]

HandleJoinGroup(s, r) ==
  LET t == ClearWaitResp(s, "JoinGroup")
      u == IF r.err = "MEMBER_ID_REQUIRED" THEN [t EXCEPT !.member = r.member]
           ELSE Unknown(t, r.err)
  IN  IF s.terminate \/ s.join_state # "WAIT_JOIN" THEN t
      ELSE IF r.err = "ok" THEN Joined(t, r)
      ELSE IF Cooperative(s) /\ r.err \in {"ILLEGAL_GENERATION", "MEMBER_ID_REQUIRED"}
      THEN RevokeAllRejoin(u, TRUE)
      ELSE Rejoin(u)

\* rd_kafka_cgrp_assignor_handle_Metadata_op()
HandleAssignorMetadata(s) ==
  IF s.join_state # "WAIT_METADATA" \/ ~s.leader THEN s
  ELSE IF s.wait_resp # "none" THEN Abort(s)
  ELSE SyncGroup([s EXCEPT !.outdated = @ \/ ~s.assigning])

\* Mutant: the application is told the whole assignment, not what is new in it.
HandleAssignment_All(s, P) ==
  LET revoked == Elems(s.group) \ P
      added   == P \ Elems(s.group)
  IN  IF ~Cooperative(s) THEN RebalanceOp(s, "assign", P)
      ELSE IF revoked # {}
      THEN RebalanceOpIncr([s EXCEPT !.incr = added], "revoke", revoked, FALSE)
      ELSE CallApp([s EXCEPT !.rejoin = FALSE, !.group = P], "assign", P)

\* Mutant: what is added is not assigned when something is revoked first.
HandleAssignment_NoIncr(s, P) ==
  LET revoked == Elems(s.group) \ P
      added   == P \ Elems(s.group)
  IN  IF ~Cooperative(s) THEN RebalanceOp(s, "assign", P)
      ELSE IF revoked # {} THEN RebalanceOpIncr(s, "revoke", revoked, FALSE)
      ELSE RebalanceOpIncr(s, "assign", added, FALSE)

HandleAssignment(s, P) ==
  LET revoked == Elems(s.group) \ P
      added   == P \ Elems(s.group)
  IN  IF ~Cooperative(s) THEN RebalanceOp(s, "assign", P)
      ELSE IF revoked # {}
      THEN RebalanceOpIncr([s EXCEPT !.incr = added], "revoke", revoked, FALSE)
      ELSE RebalanceOpIncr(s, "assign", added, FALSE)

HandleSyncGroup(s, r) ==
  LET t == ClearWaitResp(s, "SyncGroup")
      u == Unknown(t, r.err)
  IN  IF s.join_state # "WAIT_SYNC" THEN t
      ELSE IF r.err = "TRANSPORT" THEN Send(s, r.req)
      ELSE IF r.err = "ok" /\ ~s.terminate
      THEN HandleAssignment([t EXCEPT !.session = TRUE], r.parts)
      ELSE IF Cooperative(s) /\ r.err \in {"ILLEGAL_GENERATION", "UNKNOWN_MEMBER_ID"}
      THEN RevokeAllRejoin(u, TRUE)
      ELSE Rejoin(u)

HandleHeartbeat(s, r) ==
  LET t == [Check(s, s.hb) EXCEPT !.hb = FALSE]
  IN  IF \/ r.err \in {"ok", "TRANSPORT"}
         \/ s.join_state \in {"INIT", "WAIT_JOIN", "WAIT_METADATA", "WAIT_SYNC"}
      THEN t
      ELSE IF r.err = "REBALANCE_IN_PROGRESS"
      THEN IF WaitAssignCall(s) THEN t ELSE GroupIsRebalancing(t)
      ELSE RevokeAllRejoinMaybe(Unknown(t, r.err), TRUE)

Handle(s, r) ==
  CASE r.req.api = "JoinGroup"  -> HandleJoinGroup(s, r)
    [] r.req.api = "SyncGroup"  -> HandleSyncGroup(s, r)
    [] r.req.api = "Heartbeat"  -> HandleHeartbeat(s, r)
    [] r.req.api = "LeaveGroup" -> HandleLeaveGroup(s)

Heartbeat(s) ==
  IF s.poll_exceeded \/ s.hb THEN s
  ELSE Send([s EXCEPT !.hb = TRUE], Request("Heartbeat", s))

JoinStateServe(s) ==
  LET t == ApplyNextSubscribe(s)
  IN  CASE s.join_state = "INIT" /\ s.wait_resp = "none" ->
             IF t.subscription = None THEN t ELSE Join(t, "any")
        [] s.join_state \in {"STEADY", "WAIT_ASSIGN_CALL", "WAIT_UNASSIGN_CALL"}
             /\ s.subscription # None -> Heartbeat(s)
        [] OTHER -> s

\* rd_kafka_cgrp_terminated()
Terminated(s) ==
  [Check(s, ~InProgress(s)) EXCEPT
     !.terminated = TRUE, !.group = None, !.busy = FALSE,
     !.ops = <<>>, !.resp = <<>>, !.appq = <<>>, !.meta = {}, !.asgn = 0]

(***************************************************************************)
(* The main thread.                                                        *)
(***************************************************************************)

\* The group's handlers run until it has terminated, or the process has.
Running == ~c.terminated /\ ~c.aborted

\* rd_kafka_cgrp_serve()
CgrpServe ==
  /\ Running
  /\ c' = LET t == TryTerminate(c)
          IN  IF t.state = "TERM" THEN Terminated(t)
              ELSE IF t.state = "UP" THEN JoinStateServe(t)
              ELSE t
  /\ UNCHANGED <<k, events>>

\* The coordinator is found and its connection is up.
CoordinatorUp ==
  /\ Running /\ c.state = "QUERY_COORD"
  /\ c' = AssignmentServe(JoinStateServe([c EXCEPT !.state = "UP"]))
  /\ UNCHANGED <<k, events>>

\* rd_kafka_cgrp_op_serve(), for an op of the application
ServeOp ==
  /\ Running /\ c.ops # <<>>
  /\ LET op == Head(c.ops)
         s  == [c EXCEPT !.ops = Tail(@), !.busy = @ /\ op.op = "terminate"]
     IN  \/ op.op = "subscribe" /\ c' = Subscribe([s EXCEPT !.late = FALSE], op.parts)
         \/ /\ op.op = "terminate"
            /\ \E t \in {Terminate0(s)} : \E u \in {AssignmentServe(t)} : c' = TryTerminate(u)
         \/ op.op \in {"assign", "revoke"} /\ c' = HandleAssignOp(s, op.op, op.parts)
  /\ UNCHANGED <<k, events>>

ServeReply ==
  /\ Running /\ c.resp # <<>>
  /\ c' = Handle([c EXCEPT !.resp = Tail(@)], Head(c.resp))
  /\ UNCHANGED <<k, events>>

AssignorMetadata ==
  /\ Running /\ c.asgn > 0
  /\ c' = HandleAssignorMetadata([c EXCEPT !.asgn = @ - 1])
  /\ UNCHANGED <<k, events>>

\* rd_kafka_parse_Metadata() of a reply to a request of the group
MetadataReply ==
  /\ Running
  /\ \E m \in c.meta :
       c' = MetadataUpdateCheck([c EXCEPT !.meta = @ \ {m}, !.cached = @ \cup m.topics])
  /\ UNCHANGED <<k, events>>

\* The fetcher of a removed partition has stopped and its offset is committed.
PartitionStopped(p) ==
  /\ Running /\ p \in c.removing
  /\ c' = AssignmentServe([c EXCEPT !.removing = @ \ {p}, !.started = @ \ {p}])
  /\ UNCHANGED <<k, events>>

\* The committed offsets of the added partitions have arrived.
OffsetsFetched ==
  /\ Running /\ c.pending # {} /\ c.removing \cup c.removed = {} /\ c.state = "UP"
  /\ c' = AssignmentServe([c EXCEPT !.started = @ \cup c.pending, !.pending = {}])
  /\ UNCHANGED <<k, events>>

Fault(f) ==
  /\ f \in Faults /\ events < MaxEvents /\ Running
  /\ events' = events + 1

\* rd_kafka_cgrp_session_timeout_check()
SessionExpires ==
  /\ c.join_state = "STEADY" /\ c.session
  /\ c' = RevokeAllRejoinMaybe([c EXCEPT !.session = FALSE, !.member = "none"], TRUE)
  /\ UNCHANGED k

SessionTimeout == Fault("session") /\ SessionExpires

\* No heartbeats are sent after max.poll.interval.ms: the session runs out.
SessionStarved == Running /\ c.poll_exceeded /\ SessionExpires /\ UNCHANGED events

\* rd_kafka_cgrp_max_poll_interval_check_tmr_cb()
MaxPollExceeded ==
  /\ Fault("maxpoll") /\ c.polltmr /\ ~c.busy
  /\ c' = RevokeAllRejoinMaybe(
            Leave([c EXCEPT !.late = TRUE, !.poll_exceeded = TRUE, !.polltmr = FALSE]), TRUE)
  /\ UNCHANGED k

\* A metadata refresh finds one topic created or deleted; the other members
\* find it out too.
TopicsChange ==
  /\ Fault("topics")
  /\ \E p \in Parts :
       c' = MetadataUpdateCheck(
              [c EXCEPT !.exists = IF p \in @ THEN @ \ {p} ELSE @ \cup {p},
                        !.cached = @ \cup Elems(c.subscription)])
  /\ k' = [k EXCEPT !.follow = @ \/ (k.member /\ k.peers)]

\* The requests that are not answered fail.
Disconnect ==
  /\ Fault("disconnect") /\ c.state = "UP"
  /\ c' = [c EXCEPT !.state = "QUERY_COORD", !.net = <<>>,
                    !.resp = @ \o [i \in DOMAIN c.net |-> Reply(c.net[i], "TRANSPORT", {}, FALSE)]]
  /\ UNCHANGED k

(***************************************************************************)
(* The application: one thread, which polls and may close the consumer.    *)
(***************************************************************************)

CallOp(op, P) ==
  [c EXCEPT !.ops = Append(@, [op |-> op, parts |-> P]), !.busy = TRUE]

CallSubscribe ==
  /\ ~c.busy /\ ~c.closed /\ Running /\ events < MaxEvents
  /\ \E S \in Subscriptions \cup {None} : c' = CallOp("subscribe", S)
  /\ events' = events + 1
  /\ UNCHANGED k

\* The application polls; the rebalance callback calls assign() or one of
\* its incremental forms with the partitions of the event.
Poll ==
  /\ ~c.busy /\ Running
  /\ c' = IF c.appq = <<>> THEN [c EXCEPT !.late = FALSE]
          ELSE [CallOp(Head(c.appq).op, Head(c.appq).parts) EXCEPT
                  !.appq = Tail(@), !.late = FALSE]
  /\ UNCHANGED <<k, events>>

\* rd_kafka_consumer_close(): the op, then the loop that serves the queue
CallClose ==
  /\ ~c.busy /\ ~c.closed /\ Running
  /\ c' = [c EXCEPT !.ops = Append(@, [op |-> "terminate", parts |-> None]), !.closed = TRUE]
  /\ UNCHANGED <<k, events>>

(***************************************************************************)
(* External: the coordinator and the other members of the group.           *)
(***************************************************************************)

NewName(r, field, from, to) == [r EXCEPT ![field] = IF @ = from THEN to ELSE @]

NewReply(r, field, from, to) ==
  [NewName(r, field, from, to) EXCEPT !.req = NewName(@, field, from, to)]

Rename(s, field, from, to) ==
  [NewName(s, field, from, to) EXCEPT
     !.net  = [i \in DOMAIN s.net |-> NewName(s.net[i], field, from, to)],
     !.resp = [i \in DOMAIN s.resp |-> NewReply(s.resp[i], field, from, to)]]

Forget(s) == Rename(s, "member", "known", "gone")

Age(s) == Rename(s, "gen", "current", "old")

\* The member is out of the group and the others take its partitions.
Drop == [k EXCEPT !.member = FALSE, !.rebalance = FALSE, !.follow = FALSE, !.assigned = {},
                  !.others = IF k.peers THEN Parts ELSE {}]

\* All the members have joined and the leader has assigned the partitions.  A
\* cooperative assignor gives out no partition that another member still owns.
Complete(req) ==
  LET mine == k.target \cap req.topics
  IN  [k EXCEPT !.member = TRUE, !.rebalance = FALSE,
                !.assigned = IF c.proto = "EAGER" THEN mine ELSE mine \ k.others,
                !.follow = c.proto = "COOPERATIVE" /\ mine \cap k.others # {},
                !.others = IF ~k.peers THEN {}
                           ELSE IF c.proto = "EAGER" THEN Parts \ mine
                           ELSE @ \cup ((Parts \ mine) \ req.owned)]

\* The error of a request that must come from the current generation.
MemberError(req) ==
  IF req.member # "known" \/ ~k.member THEN "UNKNOWN_MEMBER_ID"
  ELSE IF req.gen # "current" THEN "ILLEGAL_GENERATION"
  ELSE IF k.rebalance THEN "REBALANCE_IN_PROGRESS"
  ELSE "ok"

Answer(s, r) == IF s.terminated THEN s ELSE [s EXCEPT !.resp = Append(@, r)]

CoordinatorJoin(s, req) ==
  \/ /\ req.member = "none"
     /\ c' = Answer(Forget(s), Reply(req, "MEMBER_ID_REQUIRED", {}, FALSE))
     /\ k' = IF k.member THEN Drop ELSE k
  \/ /\ req.member = "gone"
     /\ c' = Answer(s, Reply(req, "UNKNOWN_MEMBER_ID", {}, FALSE))
     /\ UNCHANGED k
  \/ /\ req.member = "known"
     /\ \E leader \in IF k.peers THEN BOOLEAN ELSE {TRUE} :
          c' = Answer(Age(s), Reply(req, "ok", {}, leader))
     /\ k' = Complete(req)

CoordinatorLeave(s, req) ==
  \/ /\ req.member = "known"
     /\ c' = Answer(Forget(s), Reply(req, "ok", {}, FALSE))
     /\ k' = Drop
  \/ /\ req.member # "known"
     /\ c' = Answer(s, Reply(req, "UNKNOWN_MEMBER_ID", {}, FALSE))
     /\ UNCHANGED k

Coordinator ==
  /\ c.net # <<>> /\ c.state # "QUERY_COORD"
  /\ LET req == Head(c.net)
         s   == [c EXCEPT !.net = Tail(@)]
     IN  \/ req.api = "JoinGroup" /\ CoordinatorJoin(s, req)
         \/ req.api = "LeaveGroup" /\ CoordinatorLeave(s, req)
         \/ /\ req.api \in {"SyncGroup", "Heartbeat"}
            /\ c' = Answer(s, Reply(req, MemberError(req),
                                    IF req.api = "SyncGroup" THEN k.assigned ELSE {}, FALSE))
            /\ UNCHANGED k
  /\ UNCHANGED events

Evict ==
  /\ Fault("evict") /\ k.member
  /\ c' = Forget(c) /\ k' = Drop

PeersChange ==
  /\ Fault("peers")
  /\ \E target \in IF k.peers THEN {Parts} ELSE SUBSET Parts :
       k' = [k EXCEPT !.peers = ~@, !.target = target, !.rebalance = k.member, !.follow = FALSE,
                      !.others = IF k.peers \/ k.member THEN {} ELSE Parts]
  /\ UNCHANGED c

\* The other members join again: they have revoked what is due to this one, or
\* the topics have changed.
PeersRejoin ==
  /\ k.follow
  /\ k' = [k EXCEPT !.follow = FALSE, !.rebalance = TRUE, !.others = @ \ k.target]
  /\ UNCHANGED <<c, events>>

(***************************************************************************)
(* The specification.                                                      *)
(***************************************************************************)

MainThread ==
  \/ CgrpServe \/ CoordinatorUp \/ ServeOp \/ ServeReply \/ AssignorMetadata \/ MetadataReply
  \/ \E p \in Parts : PartitionStopped(p)
  \/ OffsetsFetched

Next ==
  \/ MainThread
  \/ SessionTimeout \/ SessionStarved \/ MaxPollExceeded \/ TopicsChange \/ Disconnect
  \/ CallSubscribe \/ Poll \/ CallClose
  \/ Coordinator \/ Evict \/ PeersChange \/ PeersRejoin

Spec == Init /\ [][Next]_vars

Fairness ==
  /\ WF_vars(CgrpServe) /\ WF_vars(CoordinatorUp) /\ WF_vars(ServeOp) /\ WF_vars(ServeReply)
  /\ WF_vars(AssignorMetadata) /\ WF_vars(MetadataReply)
  /\ \A p \in Parts : WF_vars(PartitionStopped(p))
  /\ WF_vars(OffsetsFetched) /\ WF_vars(SessionStarved)
  /\ WF_vars(Poll) /\ WF_vars(Coordinator) /\ WF_vars(PeersRejoin)

FairSpec == Spec /\ Fairness

(***************************************************************************)
(* Properties.                                                             *)
(***************************************************************************)

Lists == (SUBSET Parts) \cup {None}

\* Every field has its type, a partition is queried only while it is assigned,
\* and every fetcher that runs belongs to a partition that is assigned or being
\* removed: no fetcher is left behind by assign(), the incremental calls or close().
TypeOK ==
  /\ c.state \in {"QUERY_COORD", "UP", "TERM"} /\ c.join_state \in JoinStates
  /\ c.wait_resp \in {"none", "JoinGroup", "SyncGroup"}
  /\ c.member \in {"none", "known", "gone"} /\ c.gen \in {"none", "current", "old"}
  /\ {c.subscription, c.next_sub, c.incr, c.group} \subseteq Lists
  /\ c.pending \subseteq c.all /\ c.removing \subseteq c.started
  /\ c.started \subseteq c.all \cup c.removing \cup c.removed

\* No rd_assert() or rd_dassert() of the group fails but the three of Abort,
\* whatever the order of replies, calls, timeouts and metadata updates: one join
\* or sync request is outstanding at a time, no partition is added to the group's
\* assignment twice or revoked when it is not in it, a join awaits metadata only
\* from INIT and STEADY, a COOPERATIVE assignment is revoked as a whole only when it is lost,
\* left or closed, and nothing is in progress when the group has terminated.
AssertsHold == ~c.failed

\* An application that answers every rebalance event with the call the
\* documentation asks for, with the partitions of the event, never gets an error
\* from rd_kafka_incremental_assign() or rd_kafka_incremental_unassign(): the
\* group's view of the assignment and the assignment's own never part.
RebalanceCallsSucceed == ~c.refused

\* While the coordinator counts this client as a member and the client has not
\* marked its assignment lost, it fetches no partition that the coordinator has
\* given to another member: rd_kafka_cgrp_rejoin() follows the revocation.
\* rd_kafka_cgrp_metadata_update_check() does not keep to that order when the
\* topics change during a change of the assignment, the `midway` states.
SoleOwner ==
  c.member = "known" /\ k.member /\ ~c.lost /\ ~c.midway /\ ~c.aborted => c.started \cap k.others = {}

\* A STEADY member of the current generation, with no rebalance under way, has
\* exactly the partitions that the coordinator has for it: no reply of an older
\* join or sync, postponed revocation or metadata update leaves it with less or
\* with more than the others believe.  An assignor that ran on the metadata of an
\* earlier join, the `outdated` states, assigns for the old subscription.
InStep ==
  /\ c.join_state = "STEADY" /\ c.member = "known" /\ c.gen = "current"
  /\ ~c.rejoin /\ ~c.terminate /\ ~c.outdated /\ c.subscription # None
  /\ c.appq = <<>> /\ c.ops = <<>> /\ ~k.rebalance /\ ~k.follow
  => c.all = k.assigned \cap c.topics

\* The group has reached what the application asked for last: it is closed; or
\* it is not subscribed, or to no topic that exists, and fetches nothing; or it
\* is a STEADY member with its share of the partitions, all of them fetched.
Settled ==
  \/ c.terminated
  \/ ~c.closed /\ c.subscription = None /\ c.all = {} /\ c.started = {}
  \/ ~c.closed /\ c.topics = {} /\ c.started = {}
  \/ /\ ~c.closed /\ c.join_state = "STEADY" /\ c.member = "known" /\ c.gen = "current"
     /\ ~k.rebalance /\ c.next_sub = None /\ ~c.next_unsub
     /\ c.all = k.target \cap c.topics /\ c.started = c.all

\* Once the application has stopped changing its mind and the faults are over,
\* the group settles for good: rd_kafka_consumer_close() ends, a postponed
\* subscribe() or unsubscribe() is carried out, and a member that lost its
\* connection, session, poll deadline or place in the group is fetching again.
\* A change of the topics during a change of the assignment is left out: an
\* EAGER group may keep a partition of a deleted topic; so may a leader whose
\* assignor has run on outdated metadata.
Settles == <>[](Settled \/ c.midway \/ c.outdated \/ c.aborted)

\* rd_kafka_consumer_close() "will block until the consumer has [...] left the
\* consumer group": once the group has terminated and its requests have been
\* answered the coordinator does not count it as a member.
LeftGroup == c.terminated /\ c.net = <<>> => ~k.member
=============================================================================
