---------------------------- MODULE Cgrp_proofs ----------------------------
(***************************************************************************)
(* The consumer group, for any topics, subscriptions, members and faults:  *)
(* its type invariant, that no assertion fails but the three of Abort, and *)
(* that the rebalance calls of the application succeed.                    *)
(*                                                                         *)
(* The group is a record s that the handlers transform: the invariant is a *)
(* conjunction of predicates on such a record, and there are lemmas for    *)
(* what each handler does to each.                                         *)
(***************************************************************************)
EXTENDS Cgrp, SequenceTheorems, TLAPS

-----------------------------------------------------------------------------
(* Types. *)

Fields ==
  {"proto", "cached", "assignor", "state", "join_state", "wait_resp", "member", "gen",
   "subscription", "topics", "next_sub", "next_unsub", "incr", "rejoin", "group", "lost",
   "leave_on", "wait_leave", "terminate", "hb", "poll_exceeded", "polltmr", "session",
   "leader", "terminated", "all", "pending", "started", "removed", "removing", "asgn", "meta",
   "exists", "net", "resp", "ops", "appq", "busy", "late", "closed", "failed", "aborted",
   "midway", "assigning", "outdated", "refused"}

Members == {"none", "known", "gone"}
Gens == {"none", "current", "old"}
Waits == {"JoinGroup", "SyncGroup"}
Apis == Waits \cup {"Heartbeat", "LeaveGroup"}

Errors ==
  {"ok", "MEMBER_ID_REQUIRED", "UNKNOWN_MEMBER_ID", "ILLEGAL_GENERATION",
   "REBALANCE_IN_PROGRESS", "TRANSPORT"}

Requests ==
  [api : Apis, member : Members, gen : Gens, topics : SUBSET Parts, owned : SUBSET Parts]
Replies ==
  [req : Requests, err : Errors, parts : SUBSET Parts, leader : BOOLEAN,
   member : Members, gen : Gens]
AppOps == [op : {"assign", "revoke"}, parts : SUBSET Parts]
Ops == AppOps \cup [op : {"subscribe", "terminate"}, parts : Lists]

\* The fields of the join, and those of the subscription.
JoinOK(s) ==
  /\ s.proto \in {"EAGER", "COOPERATIVE"}
  /\ s.state \in {"QUERY_COORD", "UP", "TERM"} /\ s.join_state \in JoinStates
  /\ s.wait_resp \in Waits \cup {"none"}
  /\ s.member \in Members /\ s.gen \in Gens
SubsOK(s) ==
  /\ s.subscription \in Lists /\ s.next_sub \in Lists
  /\ s.cached \subseteq Parts /\ s.topics \subseteq Parts /\ s.exists \subseteq Parts
  /\ \A m \in s.meta : m.topics \subseteq Parts

\* Only a member that has been told its assignor has something to assign.
ListsOK(s) ==
  /\ s.incr \in Lists /\ s.group \in Lists
  /\ \/ s.assignor
     \/ s.group = None /\ s.incr = None /\ ~s.leader /\ s.join_state # "WAIT_SYNC"

-----------------------------------------------------------------------------
(* The assignment. *)

AssignmentOK(s) ==
  /\ s.all \subseteq Parts /\ s.started \subseteq Parts /\ s.removed \subseteq Parts
  /\ s.pending \subseteq s.all /\ s.removing \subseteq s.started
  /\ s.started \subseteq s.all \cup s.removing \cup s.removed
  /\ s.all \subseteq s.pending \cup (s.started \ s.removing)
  /\ s.all \cap s.removed = {}

\* A group that has terminated fetches nothing.
TermOK(s) ==
  s.state = "TERM" =>
    s.terminate /\ s.started = {} /\ s.removed = {} /\ s.removing = {} /\ s.pending = {}

-----------------------------------------------------------------------------
(* The requests that are not answered: those of net follow those of resp. *)

Outstanding(p, q) == Len(p) + Len(q)
Api(p, q, i) == IF i <= Len(p) THEN p[i].req.api ELSE q[i - Len(p)].api

\* One JoinGroup or SyncGroup, which `wait` names, and one Heartbeat, with p for resp
\* and q for net.
Wire(p, q, wait, hb) ==
  /\ p \in Seq(Replies) /\ q \in Seq(Requests)
  /\ \A i \in 1 .. Outstanding(p, q) :
       /\ Api(p, q, i) \in Waits => wait = Api(p, q, i)
       /\ Api(p, q, i) = "Heartbeat" => hb
  /\ \A i, j \in 1 .. Outstanding(p, q) :
       /\ Api(p, q, i) \in Waits /\ Api(p, q, j) \in Waits => i = j
       /\ Api(p, q, i) = "Heartbeat" /\ Api(p, q, j) = "Heartbeat" => i = j

WireOK(s) == Wire(s.resp, s.net, s.wait_resp, s.hb)

-----------------------------------------------------------------------------
(* The ops of the application: those of ops are with the main thread, and *)
(* those of appq will be.                                                  *)

QueuesOK(s) ==
  /\ s.ops \in Seq(Ops) /\ s.appq \in Seq(AppOps)
  /\ \A i \in 1 .. Len(s.ops) : s.ops[i].op # "terminate" => s.busy /\ i = Len(s.ops)

\* What the op o makes of the partitions A, if it is one that succeeds.
Moves(o, A, B) ==
  \/ o.op = "assign" /\ o.parts \cap A = {} /\ B = A \cup o.parts
  \/ o.op = "revoke" /\ o.parts \subseteq A /\ B = A \ o.parts

\* The application waits for a rebalance call, the last of ops.
Calling(ops) == ops # <<>> /\ ops[Len(ops)].op \in {"assign", "revoke"}

\* The assignment after that call.
Base(ops, all, A) == IF Calling(ops) THEN Moves(ops[Len(ops)], all, A) ELSE A = all

\* v leads from A through the ops q to B.
Path(q, v, A, B) ==
  /\ v \in [0 .. Len(q) -> SUBSET Parts]
  /\ v[0] = A /\ v[Len(q)] = B
  /\ \A i \in 1 .. Len(q) : Moves(q[i], v[i - 1], v[i])
Leads(q, A, B) == \E v \in [0 .. Len(q) -> SUBSET Parts] : Path(q, v, A, B)

\* With the calls under way and to come, the assignment becomes the group's.
View(ops, all, appq, group) ==
  \E A \in SUBSET Parts : Base(ops, all, A) /\ Leads(appq, A, Elems(group))

ViewOK(s) ==
  s.proto = "COOPERATIVE" /\ ~s.terminate => View(s.ops, s.all, s.appq, s.group)

-----------------------------------------------------------------------------
\* Everything but the view, which a call that is being carried out has not yet changed.
Solid(s) ==
  /\ DOMAIN s = Fields /\ ~s.failed /\ ~s.refused
  /\ JoinOK(s) /\ SubsOK(s) /\ ListsOK(s) /\ AssignmentOK(s) /\ TermOK(s)
  /\ WireOK(s) /\ QueuesOK(s)
Sound(s) == Solid(s) /\ ViewOK(s)

\* Removals are served at once, unless close() has them wait.
Good(s) == Sound(s) /\ (s.terminate \/ s.removed = {})

Coords == {"member", "rebalance", "peers", "follow", "target", "assigned", "others"}
Inv == Good(c) /\ DOMAIN k = Coords /\ k.assigned \subseteq Parts

-----------------------------------------------------------------------------
(* What a handler leaves alone. *)

SameWire(s, t) ==
  t.net = s.net /\ t.resp = s.resp /\ t.wait_resp = s.wait_resp /\ t.hb = s.hb
SameQueues(s, t) == t.ops = s.ops /\ t.appq = s.appq /\ t.busy = s.busy
SameParts(s, t) ==
  /\ t.all = s.all /\ t.pending = s.pending /\ t.started = s.started
  /\ t.removed = s.removed /\ t.removing = s.removing
SameView(s, t) ==
  /\ t.proto = s.proto /\ t.terminate = s.terminate /\ t.group = s.group
  /\ t.ops = s.ops /\ t.appq = s.appq /\ t.all = s.all
SameFlags(s, t) == (t.failed => s.failed) /\ (t.refused => s.refused)

LEMMA SameWireOK ==
  ASSUME NEW s, NEW t, WireOK(s), SameWire(s, t)
  PROVE  WireOK(t)
BY DEF WireOK, SameWire

LEMMA SameQueuesOK ==
  ASSUME NEW s, NEW t, QueuesOK(s), SameQueues(s, t)
  PROVE  QueuesOK(t)
BY DEF QueuesOK, SameQueues

LEMMA SameViewOK ==
  ASSUME NEW s, NEW t, ViewOK(s), SameView(s, t)
  PROVE  ViewOK(t)
BY DEF ViewOK, SameView

LEMMA SamePartsOK ==
  ASSUME NEW s, NEW t, AssignmentOK(s), SameParts(s, t)
  PROVE  AssignmentOK(t)
BY DEF AssignmentOK, SameParts

\* Only the fields of the join and of the subscription have changed.
LEMMA JoinFrame ==
  ASSUME NEW s, NEW t, Good(s), DOMAIN t = Fields, SameFlags(s, t),
         SameWire(s, t), SameQueues(s, t), SameParts(s, t), SameView(s, t),
         t.state = "TERM" => s.state = "TERM",
         JoinOK(t), SubsOK(t), ListsOK(t)
  PROVE  Good(t)
<1>1. WireOK(t) /\ QueuesOK(t) /\ ViewOK(t) /\ AssignmentOK(t)
  BY SameWireOK, SameQueuesOK, SameViewOK, SamePartsOK DEF Good, Sound, Solid
<1>2. TermOK(t) /\ (t.terminate \/ t.removed = {})
  BY DEF Good, Sound, Solid, TermOK, SameParts, SameView
<1>3. QED
  BY <1>1, <1>2 DEF Good, Sound, Solid, SameFlags

-----------------------------------------------------------------------------
(* The requests. *)

\* No request of K is outstanding.
Free(p, q, K) == \A i \in 1 .. Outstanding(p, q) : Api(p, q, i) \notin K

LEMMA AppendApi ==
  ASSUME NEW p \in Seq(Replies), NEW q \in Seq(Requests), NEW req \in Requests
  PROVE  /\ Append(q, req) \in Seq(Requests)
         /\ Outstanding(p, q) \in Nat
         /\ Outstanding(p, Append(q, req)) = Outstanding(p, q) + 1
         /\ \A i \in 1 .. Outstanding(p, q) : Api(p, Append(q, req), i) = Api(p, q, i)
         /\ Api(p, Append(q, req), Outstanding(p, q) + 1) = req.api
<1> DEFINE z == Append(q, req)
<1>1. /\ z \in Seq(Requests) /\ Len(z) = Len(q) + 1
      /\ z[Len(q) + 1] = req /\ \A i \in 1 .. Len(q) : z[i] = q[i]
  BY AppendProperties
<1>2. Len(p) \in Nat /\ Len(q) \in Nat
  OBVIOUS
<1> HIDE DEF z
<1>3. Outstanding(p, q) \in Nat /\ Outstanding(p, z) = Outstanding(p, q) + 1
  BY <1>1, <1>2 DEF Outstanding
<1>4. ASSUME NEW i \in 1 .. Outstanding(p, q) PROVE Api(p, z, i) = Api(p, q, i)
  <2>1. CASE i <= Len(p)
    BY <2>1 DEF Api
  <2>2. CASE ~(i <= Len(p))
    <3>1. i - Len(p) \in 1 .. Len(q)
      BY <2>2, <1>2 DEF Outstanding
    <3>2. QED
      BY <2>2, <3>1, <1>1 DEF Api
  <2>3. QED
    BY <2>1, <2>2
<1>5. Api(p, z, Outstanding(p, q) + 1) = req.api
  <2>1. /\ ~(Outstanding(p, q) + 1 <= Len(p))
        /\ (Outstanding(p, q) + 1) - Len(p) = Len(q) + 1
    BY <1>2 DEF Outstanding
  <2>2. QED
    BY <2>1, <1>1 DEF Api
<1>6. QED
  BY <1>1, <1>3, <1>4, <1>5 DEF z

LEMMA SendWire ==
  ASSUME NEW p, NEW q, NEW wait, NEW hb, NEW wait1, NEW hb1, Wire(p, q, wait, hb),
         NEW req \in Requests,
         req.api \in Waits => Free(p, q, Waits) /\ wait1 = req.api,
         req.api \notin Waits => wait1 = wait,
         req.api = "Heartbeat" => Free(p, q, {"Heartbeat"}) /\ hb1,
         req.api # "Heartbeat" => hb1 = hb
  PROVE  Wire(p, Append(q, req), wait1, hb1)
<1> DEFINE n == Outstanding(p, q)
           z == Append(q, req)
<1>1. /\ p \in Seq(Replies) /\ q \in Seq(Requests)
  BY DEF Wire
<1>2. /\ n \in Nat /\ z \in Seq(Requests) /\ Outstanding(p, z) = n + 1
      /\ \A i \in 1 .. n : Api(p, z, i) = Api(p, q, i)
      /\ Api(p, z, n + 1) = req.api
  BY <1>1, AppendApi
<1>4. \A i \in 1 .. n : Api(p, q, i) \in Waits => wait = Api(p, q, i)
  BY DEF Wire
<1>5. \A i \in 1 .. n : Api(p, q, i) = "Heartbeat" => hb
  BY DEF Wire
<1>6. \A i, j \in 1 .. n : Api(p, q, i) \in Waits /\ Api(p, q, j) \in Waits => i = j
  BY DEF Wire
<1>7. \A i, j \in 1 .. n : Api(p, q, i) = "Heartbeat" /\ Api(p, q, j) = "Heartbeat" => i = j
  BY DEF Wire
<1>8. req.api \in Waits => \A i \in 1 .. n : Api(p, q, i) \notin Waits
  BY DEF Free
<1>9. req.api = "Heartbeat" => \A i \in 1 .. n : Api(p, q, i) # "Heartbeat"
  BY DEF Free
<1> HIDE DEF n, z
<1>3. \A i \in 1 .. (n + 1) : i \in 1 .. n \/ i = n + 1
  BY <1>2
<1>10. \A i \in 1 .. (n + 1) : Api(p, z, i) \in Waits => wait1 = Api(p, z, i)
  BY <1>2, <1>3, <1>4, <1>8
<1>11. \A i \in 1 .. (n + 1) : Api(p, z, i) = "Heartbeat" => hb1
  BY <1>2, <1>3, <1>5, <1>9
<1>12. \A i, j \in 1 .. (n + 1) : Api(p, z, i) \in Waits /\ Api(p, z, j) \in Waits => i = j
  BY <1>2, <1>3, <1>6, <1>8
<1>13. \A i, j \in 1 .. (n + 1) :
         Api(p, z, i) = "Heartbeat" /\ Api(p, z, j) = "Heartbeat" => i = j
  BY <1>2, <1>3, <1>7, <1>9
<1>14. Wire(p, z, wait1, hb1)
  BY <1>1, <1>2, <1>10, <1>11, <1>12, <1>13 DEF Wire
<1>15. QED
  BY <1>14 DEF z

LEMMA RequestType ==
  ASSUME NEW s, JoinOK(s), SubsOK(s), ListsOK(s), NEW api \in Apis
  PROVE  Request(api, s) \in Requests /\ Request(api, s).api = api
<1>1. Elems(s.group) \subseteq Parts
  BY DEF Elems, ListsOK, Lists
<1>2. QED
  BY <1>1 DEF Request, Requests, JoinOK, SubsOK

-----------------------------------------------------------------------------
(* Leaving, terminating and rejoining. *)

Kept(s, t) ==
  t.proto = s.proto /\ t.terminate = s.terminate /\ t.all = s.all /\ t.assignor = s.assignor

LEMMA TryTerminateGood ==
  ASSUME NEW s, Good(s)
  PROVE  /\ Good(TryTerminate(s)) /\ Kept(s, TryTerminate(s))
         /\ TryTerminate(s).join_state = s.join_state
<1> DEFINE t == TryTerminate(s)
<1>1. CASE s.terminate /\ ~WaitAssignCall(s) /\ s.started = {} /\ ~InProgress(s) /\ ~s.wait_leave
  <2>1. t = [s EXCEPT !.state = "TERM"]
    BY <1>1, Zenon DEF TryTerminate
  <2>2. DOMAIN s = Fields
    BY DEF Good, Sound, Solid
  <2> HIDE DEF t
  <2>3. /\ DOMAIN t = Fields /\ SameFlags(s, t) /\ SameWire(s, t) /\ SameQueues(s, t)
        /\ SameParts(s, t) /\ SameView(s, t) /\ t.state = "TERM"
        /\ t.assignor = s.assignor /\ t.join_state = s.join_state
    BY <2>1, <2>2 DEF Fields, SameFlags, SameWire, SameQueues, SameParts, SameView
  <2>4. JoinOK(t) /\ SubsOK(t) /\ ListsOK(t)
    BY <2>1, <2>2 DEF Good, Sound, Solid, JoinOK, SubsOK, ListsOK, Fields
  <2>5. WireOK(t) /\ QueuesOK(t) /\ ViewOK(t) /\ AssignmentOK(t)
    BY <2>3, SameWireOK, SameQueuesOK, SameViewOK, SamePartsOK DEF Good, Sound, Solid
  <2>6. TermOK(t)
    BY <1>1, <2>3 DEF TermOK, InProgress, SameParts, SameView
  <2>7. Good(t) /\ Kept(s, t)
    BY <2>3, <2>4, <2>5, <2>6 DEF Good, Sound, Solid, SameFlags, SameParts, SameView, Kept
  <2>8. QED
    BY <2>3, <2>7 DEF t
<1>2. CASE ~(s.terminate /\ ~WaitAssignCall(s) /\ s.started = {} /\ ~InProgress(s) /\ ~s.wait_leave)
  <2>1. t = s
    BY <1>2, Zenon DEF TryTerminate
  <2>2. QED
    BY <2>1 DEF Kept
<1>3. QED
  BY <1>1, <1>2

\* Only flags have changed that the invariant does not speak of.
LEMMA HandleLeaveGroupGood ==
  ASSUME NEW s, Good(s)
  PROVE  /\ Good(HandleLeaveGroup(s)) /\ Kept(s, HandleLeaveGroup(s))
         /\ HandleLeaveGroup(s).join_state = s.join_state
<1> DEFINE u == [s EXCEPT !.wait_leave = FALSE]
<1>1. DOMAIN s = Fields
  BY DEF Good, Sound, Solid
<1>2. /\ DOMAIN u = Fields /\ SameFlags(s, u) /\ SameWire(s, u) /\ SameQueues(s, u)
      /\ SameParts(s, u) /\ SameView(s, u) /\ u.state = s.state
      /\ u.assignor = s.assignor /\ u.join_state = s.join_state
  BY <1>1 DEF Fields, SameFlags, SameWire, SameQueues, SameParts, SameView
<1>3. JoinOK(u) /\ SubsOK(u) /\ ListsOK(u)
  BY <1>1 DEF Good, Sound, Solid, JoinOK, SubsOK, ListsOK, Fields
<1> HIDE DEF u
<1>4. Good(u)
  BY <1>2, <1>3, JoinFrame
<1>5. Good(TryTerminate(u)) /\ Kept(u, TryTerminate(u)) /\ TryTerminate(u).join_state = u.join_state
  BY <1>4, TryTerminateGood
<1>6. HandleLeaveGroup(s) = TryTerminate(u)
  BY DEF HandleLeaveGroup, u
<1>7. QED
  BY <1>2, <1>5, <1>6 DEF Kept, SameView

LEMMA LeaveGood ==
  ASSUME NEW s, Good(s)
  PROVE  Good(Leave(s)) /\ Kept(s, Leave(s)) /\ Leave(s).join_state = s.join_state
<1> DEFINE left == [s EXCEPT !.member = "none"]
           waiting == [left EXCEPT !.wait_leave = TRUE]
           req == Request("LeaveGroup", s)
           sent == [waiting EXCEPT !.net = Append(@, req)]
<1>1. DOMAIN s = Fields
  BY DEF Good, Sound, Solid
<1>2. /\ DOMAIN left = Fields /\ SameFlags(s, left) /\ SameWire(s, left) /\ SameQueues(s, left)
      /\ SameParts(s, left) /\ SameView(s, left) /\ left.state = s.state
      /\ left.assignor = s.assignor /\ left.join_state = s.join_state
  BY <1>1 DEF Fields, SameFlags, SameWire, SameQueues, SameParts, SameView
<1>3. JoinOK(left) /\ SubsOK(left) /\ ListsOK(left)
  BY <1>1 DEF Good, Sound, Solid, JoinOK, SubsOK, ListsOK, Fields, Members
<1>4. Good(left) /\ Kept(s, left)
  BY <1>2, <1>3, JoinFrame DEF Kept, SameView
<1>5. /\ DOMAIN waiting = Fields /\ SameFlags(s, waiting) /\ SameWire(s, waiting)
      /\ SameQueues(s, waiting) /\ SameParts(s, waiting) /\ SameView(s, waiting)
      /\ waiting.state = s.state
      /\ waiting.assignor = s.assignor /\ waiting.join_state = s.join_state
  BY <1>1 DEF Fields, SameFlags, SameWire, SameQueues, SameParts, SameView
<1>6. JoinOK(waiting) /\ SubsOK(waiting) /\ ListsOK(waiting)
  BY <1>1 DEF Good, Sound, Solid, JoinOK, SubsOK, ListsOK, Fields, Members
<1>7. Good(waiting) /\ Kept(s, waiting)
  BY <1>5, <1>6, JoinFrame DEF Kept, SameView
<1>8. CASE s.wait_leave
  <2>1. Leave(s) = left
    BY <1>8 DEF Leave
  <2> HIDE DEF left
  <2>2. QED
    BY <2>1, <1>2, <1>4
<1>9. CASE ~s.wait_leave /\ s.state = "UP"
  <2>1. Leave(s) = sent
    BY <1>9 DEF Leave, Send
  <2>2. req \in Requests /\ req.api = "LeaveGroup"
    BY RequestType DEF Good, Sound, Solid, Apis
  <2> HIDE DEF req
  <2>3. /\ DOMAIN sent = Fields /\ SameFlags(s, sent)
        /\ SameQueues(s, sent) /\ SameParts(s, sent) /\ SameView(s, sent)
        /\ sent.state = s.state /\ sent.assignor = s.assignor /\ sent.join_state = s.join_state
        /\ sent.net = Append(s.net, req) /\ sent.resp = s.resp
        /\ sent.wait_resp = s.wait_resp /\ sent.hb = s.hb
    BY <1>1 DEF Fields, SameFlags, SameQueues, SameParts, SameView
  <2>4. JoinOK(sent) /\ SubsOK(sent) /\ ListsOK(sent)
    BY <1>1 DEF Good, Sound, Solid, JoinOK, SubsOK, ListsOK, Fields, Members
  <2> HIDE DEF sent
  <2>5. Wire(sent.resp, Append(s.net, req), sent.wait_resp, sent.hb)
    <3>1. Wire(s.resp, s.net, s.wait_resp, s.hb)
      BY DEF Good, Sound, Solid, WireOK
    <3>2. Wire(s.resp, Append(s.net, req), s.wait_resp, s.hb)
      BY <2>2, <3>1, SendWire DEF Waits
    <3>3. QED
      BY <2>3, <3>2
  <2>6. WireOK(sent) /\ QueuesOK(sent) /\ ViewOK(sent) /\ AssignmentOK(sent)
    BY <2>3, <2>5, SameQueuesOK, SameViewOK, SamePartsOK DEF Good, Sound, Solid, WireOK
  <2>7. TermOK(sent)
    BY <1>9, <2>3 DEF TermOK
  <2>8. Good(sent) /\ Kept(s, sent)
    BY <2>3, <2>4, <2>6, <2>7 DEF Good, Sound, Solid, SameFlags, SameParts, SameView, Kept
  <2>9. QED
    BY <2>1, <2>3, <2>8
<1>10. CASE ~s.wait_leave /\ s.state # "UP"
  <2>1. Leave(s) = HandleLeaveGroup(waiting)
    BY <1>10, Zenon DEF Leave
  <2> HIDE DEF waiting
  <2>2. /\ Good(HandleLeaveGroup(waiting)) /\ Kept(waiting, HandleLeaveGroup(waiting))
        /\ HandleLeaveGroup(waiting).join_state = waiting.join_state
    BY <1>7, HandleLeaveGroupGood
  <2>3. QED
    BY <2>1, <2>2, <1>5, <1>7 DEF Kept
<1>11. QED
  BY <1>8, <1>9, <1>10

\* What the invariant speaks of is the same, or all of it but the requests.
SameJoin(s, t) ==
  /\ t.state = s.state /\ t.join_state = s.join_state /\ t.member = s.member /\ t.gen = s.gen
  /\ t.subscription = s.subscription /\ t.next_sub = s.next_sub /\ t.cached = s.cached
  /\ t.topics = s.topics /\ t.exists = s.exists /\ t.meta = s.meta
  /\ t.incr = s.incr /\ t.assignor = s.assignor /\ t.leader = s.leader
Alike(s, t) ==
  /\ DOMAIN t = Fields /\ SameFlags(s, t) /\ SameWire(s, t) /\ SameQueues(s, t)
  /\ SameParts(s, t) /\ SameView(s, t) /\ SameJoin(s, t)

LEMMA AlikeGood ==
  ASSUME NEW s, NEW t, Good(s), Alike(s, t)
  PROVE  Good(t) /\ Kept(s, t)
<1>1. JoinOK(t) /\ SubsOK(t) /\ ListsOK(t)
  BY DEF Good, Sound, Solid, JoinOK, SubsOK, ListsOK, Alike, SameJoin, SameWire, SameView
<1>2. Good(t)
  BY <1>1, JoinFrame DEF Alike, SameJoin
<1>3. QED
  BY <1>2 DEF Kept, Alike, SameView, SameJoin

\* Only the fields of the join, of the subscription and of the requests have changed.
LEMMA WireFrame ==
  ASSUME NEW s, NEW t, Good(s), DOMAIN t = Fields, SameFlags(s, t),
         SameQueues(s, t), SameParts(s, t), SameView(s, t),
         t.state = "TERM" => s.state = "TERM",
         JoinOK(t), SubsOK(t), ListsOK(t), WireOK(t)
  PROVE  Good(t)
<1>1. QueuesOK(t) /\ ViewOK(t) /\ AssignmentOK(t)
  BY SameQueuesOK, SameViewOK, SamePartsOK DEF Good, Sound, Solid
<1>2. TermOK(t) /\ (t.terminate \/ t.removed = {})
  BY DEF Good, Sound, Solid, TermOK, SameParts, SameView
<1>3. QED
  BY <1>1, <1>2 DEF Good, Sound, Solid, SameFlags

LEMMA LeaveMaybeGood ==
  ASSUME NEW s, Good(s)
  PROVE  Good(LeaveMaybe(s)) /\ Kept(s, LeaveMaybe(s)) /\ LeaveMaybe(s).join_state = s.join_state
<1> DEFINE u == [s EXCEPT !.leave_on = FALSE]
<1>1. Alike(s, u)
  BY DEF Good, Sound, Solid, Fields, Alike, SameFlags, SameWire, SameQueues, SameParts,
         SameView, SameJoin
<1> HIDE DEF u
<1>2. Good(u) /\ Kept(s, u) /\ u.join_state = s.join_state
  BY <1>1, AlikeGood DEF Alike, SameJoin
<1>3. Good(Leave(u)) /\ Kept(u, Leave(u)) /\ Leave(u).join_state = u.join_state
  BY <1>2, LeaveGood
<1>4. LeaveMaybe(s) \in {Leave(u), s}
  BY DEF LeaveMaybe, u
<1>5. QED
  BY <1>2, <1>3, <1>4 DEF Kept

LEMMA RejoinGood ==
  ASSUME NEW s, Good(s)
  PROVE  Good(Rejoin(s)) /\ Kept(s, Rejoin(s)) /\ Rejoin(s).join_state = "INIT"
<1> DEFINE t == IF s.subscription = None /\ s.next_sub = None THEN LeaveMaybe(s) ELSE s
           u == [t EXCEPT !.join_state = "INIT"]
<1>1. Good(t) /\ Kept(s, t)
  BY LeaveMaybeGood DEF Kept
<1>2. Rejoin(s) = u
  BY DEF Rejoin
<1> HIDE DEF t
<1>3. /\ DOMAIN u = Fields /\ SameFlags(t, u) /\ SameWire(t, u) /\ SameQueues(t, u)
      /\ SameParts(t, u) /\ SameView(t, u) /\ u.state = t.state
      /\ u.assignor = t.assignor /\ u.join_state = "INIT"
  BY <1>1 DEF Good, Sound, Solid, Fields, SameFlags, SameWire, SameQueues, SameParts, SameView
<1>4. JoinOK(u) /\ SubsOK(u) /\ ListsOK(u)
  BY <1>1 DEF Good, Sound, Solid, JoinOK, SubsOK, ListsOK, Fields, JoinStates
<1> HIDE DEF u
<1>5. Good(u)
  BY <1>1, <1>3, <1>4, JoinFrame
<1>6. QED
  BY <1>1, <1>2, <1>3, <1>5 DEF Kept, SameView

LEMMA LostGood ==
  ASSUME NEW s, Good(s)
  PROVE  /\ Good(SetLost(s)) /\ Kept(s, SetLost(s)) /\ Alike(s, SetLost(s))
         /\ Good(ClearLost(s)) /\ Kept(s, ClearLost(s)) /\ Alike(s, ClearLost(s))
<1>1. Alike(s, SetLost(s)) /\ Alike(s, ClearLost(s))
  BY DEF Good, Sound, Solid, Fields, Alike, SameFlags, SameWire, SameQueues, SameParts,
         SameView, SameJoin, SetLost, ClearLost
<1>2. QED
  BY <1>1, AlikeGood

-----------------------------------------------------------------------------
(* Rebalance ops. *)

LEMMA AppendMoves ==
  ASSUME NEW q \in Seq(AppOps), NEW o \in AppOps, NEW A, NEW B, NEW B1 \in SUBSET Parts,
         Leads(q, A, B), Moves(o, B, B1)
  PROVE  Leads(Append(q, o), A, B1)
<1>1. PICK v \in [0 .. Len(q) -> SUBSET Parts] : Path(q, v, A, B)
  BY DEF Leads
<1> DEFINE n == Len(q)
           z == Append(q, o)
           w == [i \in 0 .. (n + 1) |-> IF i = n + 1 THEN B1 ELSE v[i]]
<1>2. /\ z \in Seq(AppOps) /\ Len(z) = n + 1
      /\ z[n + 1] = o /\ \A i \in 1 .. n : z[i] = q[i]
  BY AppendProperties
<1>3. n \in Nat
  OBVIOUS
<1>4. v[0] = A /\ v[n] = B /\ \A i \in 1 .. n : Moves(q[i], v[i - 1], v[i])
  BY <1>1 DEF Path
<1> HIDE DEF z, n
<1>5. w \in [0 .. (n + 1) -> SUBSET Parts]
  BY <1>1, <1>3 DEF n
<1>6. w[0] = A /\ w[n + 1] = B1
  BY <1>3, <1>4
<1>7. ASSUME NEW i \in 1 .. (n + 1) PROVE Moves(z[i], w[i - 1], w[i])
  <2>1. CASE i = n + 1
    <3>1. w[i] = B1 /\ w[i - 1] = B /\ z[i] = o
      BY <2>1, <1>2, <1>3, <1>4
    <3>2. QED
      BY <3>1
  <2>2. CASE i # n + 1
    <3>1. i \in 1 .. n /\ w[i] = v[i] /\ w[i - 1] = v[i - 1]
      BY <2>2, <1>3
    <3>2. QED
      BY <3>1, <1>2, <1>4
  <2>3. QED
    BY <2>1, <2>2
<1> HIDE DEF w
<1>8. Path(z, w, A, B1)
  BY <1>2, <1>5, <1>6, <1>7 DEF Path
<1>9. Leads(z, A, B1)
  BY <1>2, <1>5, <1>8 DEF Leads
<1>10. QED
  BY <1>9 DEF z

LEMMA TailMoves ==
  ASSUME NEW q \in Seq(AppOps), q # <<>>, NEW A, NEW B, Leads(q, A, B)
  PROVE  \E A1 \in SUBSET Parts : Moves(Head(q), A, A1) /\ Leads(Tail(q), A1, B)
<1>1. PICK v \in [0 .. Len(q) -> SUBSET Parts] : Path(q, v, A, B)
  BY DEF Leads
<1> DEFINE n == Len(q)
           z == Tail(q)
           w == [i \in 0 .. (n - 1) |-> v[i + 1]]
<1>2. /\ z \in Seq(AppOps) /\ Len(z) = n - 1 /\ Head(q) = q[1]
      /\ \A i \in 1 .. Len(z) : z[i] = q[i + 1]
  BY HeadTailProperties
<1>3. n \in Nat /\ n # 0
  BY EmptySeq
<1>4. v[0] = A /\ v[n] = B /\ \A i \in 1 .. n : Moves(q[i], v[i - 1], v[i])
  BY <1>1 DEF Path
<1>5. v \in [0 .. n -> SUBSET Parts]
  BY <1>1
<1> HIDE DEF z, n
<1>6. w \in [0 .. (n - 1) -> SUBSET Parts]
  BY <1>5, <1>3
<1>7. w[0] = v[1] /\ w[n - 1] = B
  BY <1>3, <1>4
<1>8. ASSUME NEW i \in 1 .. (n - 1) PROVE Moves(z[i], w[i - 1], w[i])
  <2>1. i + 1 \in 1 .. n /\ w[i] = v[i + 1] /\ w[i - 1] = v[i] /\ z[i] = q[i + 1]
        /\ (i + 1) - 1 = i
    BY <1>2, <1>3
  <2>2. QED
    BY <2>1, <1>4
<1>9. Moves(Head(q), A, v[1])
  <2>1. 1 \in 1 .. n /\ 1 - 1 = 0
    BY <1>3
  <2>2. QED
    BY <2>1, <1>2, <1>4
<1>10. v[1] \in SUBSET Parts
  BY <1>3, <1>5
<1> HIDE DEF w
<1>11. Path(z, w, v[1], B)
  BY <1>2, <1>6, <1>7, <1>8 DEF Path
<1>12. Leads(z, v[1], B)
  BY <1>2, <1>6, <1>11 DEF Leads
<1>13. QED
  BY <1>9, <1>10, <1>12 DEF z

LEMMA ElemsType ==
  ASSUME NEW x \in Lists
  PROVE  Elems(x) \subseteq Parts /\ (x # None => Elems(x) = x)
BY DEF Elems, Lists

\* A rebalance op is queued and the assignment of the group becomes g.
LEMMA QueuedGood ==
  ASSUME NEW s, NEW t, NEW op \in {"assign", "revoke"}, NEW P \in SUBSET Parts,
         NEW g \in Lists,
         Good(s), DOMAIN t = Fields, ~t.failed, ~t.refused,
         SameWire(s, t), SameParts(s, t), t.ops = s.ops, t.busy = s.busy,
         t.appq = Append(s.appq, [op |-> op, parts |-> P]), t.group = g,
         t.proto = s.proto, t.terminate = s.terminate,
         t.state = s.state, JoinOK(t), SubsOK(t), ListsOK(t),
         s.proto = "COOPERATIVE" => Moves([op |-> op, parts |-> P], Elems(s.group), Elems(g))
  PROVE  Good(t)
<1> DEFINE o == [op |-> op, parts |-> P]
<1>1. o \in AppOps
  BY DEF AppOps
<1> HIDE DEF o
<1>2. s.ops \in Seq(Ops) /\ s.appq \in Seq(AppOps)
  BY DEF Good, Sound, Solid, QueuesOK
<1>3. Append(s.appq, o) \in Seq(AppOps)
  BY <1>1, <1>2, AppendProperties
<1>4. QueuesOK(t)
  BY <1>3 DEF QueuesOK, Good, Sound, Solid, o
<1>5. ViewOK(t)
  <2>1. SUFFICES ASSUME s.proto = "COOPERATIVE", ~s.terminate
                 PROVE  View(s.ops, s.all, Append(s.appq, o), g)
    BY DEF ViewOK, SameParts, o
  <2>2. PICK A \in SUBSET Parts : Base(s.ops, s.all, A) /\ Leads(s.appq, A, Elems(s.group))
    BY <2>1 DEF Good, Sound, ViewOK, View
  <2>3. Moves(o, Elems(s.group), Elems(g)) /\ Elems(g) \in SUBSET Parts
    BY <2>1, ElemsType DEF o
  <2>4. Leads(Append(s.appq, o), A, Elems(g))
    BY <1>1, <1>2, <2>2, <2>3, AppendMoves
  <2>5. QED
    BY <2>2, <2>4 DEF View
<1>6. WireOK(t) /\ AssignmentOK(t)
  BY SameWireOK, SamePartsOK DEF Good, Sound, Solid
<1>7. TermOK(t) /\ (t.terminate \/ t.removed = {})
  BY DEF Good, Sound, Solid, TermOK, SameParts
<1>8. QED
  BY <1>4, <1>5, <1>6, <1>7 DEF Good, Sound, Solid

LEMMA RebalanceOpIncrGood ==
  ASSUME NEW s, NEW op \in {"assign", "revoke"}, NEW P \in SUBSET Parts, NEW rejoin,
         Good(s), s.assignor,
         op = "assign" => P \cap Elems(s.group) = {},
         op = "revoke" => Elems(s.group) # {} /\ P \subseteq Elems(s.group)
  PROVE  /\ Good(RebalanceOpIncr(s, op, P, rejoin)) /\ Kept(s, RebalanceOpIncr(s, op, P, rejoin))
         /\ RebalanceOpIncr(s, op, P, rejoin).join_state \in {"WAIT_ASSIGN_CALL", "WAIT_UNASSIGN_CALL"}
<1> DEFINE t == RebalanceOpIncr(s, op, P, rejoin)
           now == IF op = "assign" THEN Elems(s.group) \cup P ELSE Elems(s.group) \ P
           g == IF op # "assign" /\ now = {} THEN None ELSE now
           o == [op |-> op, parts |-> P]
           js == IF op = "assign" THEN "WAIT_ASSIGN_CALL" ELSE "WAIT_UNASSIGN_CALL"
<1>1. DOMAIN s = Fields /\ ~s.failed /\ ~s.refused /\ s.group \in Lists
  BY DEF Good, Sound, Solid, ListsOK
<1>2. now \in SUBSET Parts /\ g \in Lists /\ Elems(g) = now
  <2>1. now \in SUBSET Parts
    BY <1>1, ElemsType
  <2> HIDE DEF now
  <2>2. now # None
    BY <2>1, CgrpSets
  <2>3. QED
    BY <2>1, <2>2 DEF Elems, Lists
<1>3. /\ DOMAIN t = Fields /\ SameWire(s, t) /\ SameParts(s, t) /\ t.ops = s.ops /\ t.busy = s.busy
      /\ t.appq = Append(s.appq, o) /\ t.group = g /\ t.join_state = js
      /\ t.proto = s.proto /\ t.terminate = s.terminate /\ t.state = s.state
      /\ t.assignor = s.assignor /\ t.refused = s.refused
      /\ t.failed = (s.failed \/ ~(IF op = "assign" THEN Elems(s.group) \cap P = {}
                                   ELSE Elems(s.group) # {} /\ P \subseteq Elems(s.group)))
      /\ t.member = s.member /\ t.gen = s.gen /\ t.incr = s.incr /\ t.leader = s.leader
      /\ t.subscription = s.subscription /\ t.next_sub = s.next_sub /\ t.cached = s.cached
      /\ t.topics = s.topics /\ t.exists = s.exists /\ t.meta = s.meta
  <2> DEFINE b == CallApp([s EXCEPT !.rejoin = rejoin], op, P)
             cond == IF op = "assign" THEN Elems(b.group) \cap P = {}
                     ELSE Elems(b.group) # {} /\ P \subseteq Elems(b.group)
             n == IF op = "assign" THEN Elems(b.group) \cup P ELSE Elems(b.group) \ P
             h == IF op # "assign" /\ n = {} THEN None ELSE n
  <2>1. /\ DOMAIN b = Fields /\ SameWire(s, b) /\ SameParts(s, b) /\ b.ops = s.ops /\ b.busy = s.busy
        /\ b.appq = Append(s.appq, o) /\ b.group = s.group /\ b.join_state = js
        /\ b.proto = s.proto /\ b.terminate = s.terminate /\ b.state = s.state
        /\ b.assignor = s.assignor /\ b.refused = s.refused /\ b.failed = s.failed
        /\ b.member = s.member /\ b.gen = s.gen /\ b.incr = s.incr /\ b.leader = s.leader
        /\ b.subscription = s.subscription /\ b.next_sub = s.next_sub /\ b.cached = s.cached
        /\ b.topics = s.topics /\ b.exists = s.exists /\ b.meta = s.meta
    BY <1>1 DEF CallApp, Fields, SameWire, SameParts
  <2>2. t = [[b EXCEPT !.failed = @ \/ ~cond] EXCEPT !.group = h]
    BY DEF RebalanceOpIncr, GroupAssignmentModify, Check
  <2> HIDE DEF b, cond, h, t
  <2>3. /\ DOMAIN t = Fields /\ SameWire(b, t) /\ SameParts(b, t) /\ t.ops = b.ops /\ t.busy = b.busy
        /\ t.appq = b.appq /\ t.group = h /\ t.join_state = b.join_state
        /\ t.proto = b.proto /\ t.terminate = b.terminate /\ t.state = b.state
        /\ t.assignor = b.assignor /\ t.refused = b.refused /\ t.failed = (b.failed \/ ~cond)
        /\ t.member = b.member /\ t.gen = b.gen /\ t.incr = b.incr /\ t.leader = b.leader
        /\ t.subscription = b.subscription /\ t.next_sub = b.next_sub /\ t.cached = b.cached
        /\ t.topics = b.topics /\ t.exists = b.exists /\ t.meta = b.meta
    BY <2>1, <2>2 DEF Fields, SameWire, SameParts
  <2>4. h = g /\ cond = (IF op = "assign" THEN Elems(s.group) \cap P = {}
                         ELSE Elems(s.group) # {} /\ P \subseteq Elems(s.group))
    BY <2>1 DEF h, cond
  <2>5. SameWire(s, t) /\ SameParts(s, t)
    BY <2>1, <2>3 DEF SameWire, SameParts
  <2> HIDE DEF g, o, js
  <2>6. QED
    BY <2>1, <2>3, <2>4, <2>5
<1>4. ~t.failed
  BY <1>1, <1>3
<1>5. Moves(o, Elems(s.group), now)
  BY DEF Moves
<1> HIDE DEF t, g, now, o
<1>6. JoinOK(t) /\ SubsOK(t) /\ ListsOK(t)
  BY <1>2, <1>3 DEF Good, Sound, Solid, JoinOK, SubsOK, ListsOK, JoinStates, SameWire
<1>7. Good(t)
  BY <1>1, <1>2, <1>3, <1>4, <1>5, <1>6, QueuedGood DEF o
<1>8. Kept(s, t) /\ t.join_state \in {"WAIT_ASSIGN_CALL", "WAIT_UNASSIGN_CALL"}
  BY <1>3 DEF Kept, SameParts
<1>9. QED
  BY <1>7, <1>8 DEF t

LEMMA RebalanceOpGood ==
  ASSUME NEW s, NEW op \in {"assign", "revoke"}, NEW P \in SUBSET Parts,
         Good(s), s.proto = "EAGER", op = "assign" => s.assignor
  PROVE  /\ Good(RebalanceOp(s, op, P)) /\ Kept(s, RebalanceOp(s, op, P))
         /\ RebalanceOp(s, op, P).join_state \in {"WAIT_ASSIGN_CALL", "WAIT_UNASSIGN_CALL"}
<1> DEFINE t == RebalanceOp(s, op, P)
           g == IF op = "assign" THEN P ELSE None
           o == [op |-> op, parts |-> P]
           js == IF op = "assign" THEN "WAIT_ASSIGN_CALL" ELSE "WAIT_UNASSIGN_CALL"
<1>1. DOMAIN s = Fields /\ ~s.failed /\ ~s.refused
  BY DEF Good, Sound, Solid
<1>2. g \in Lists
  BY DEF Lists
<1>3. /\ DOMAIN t = Fields /\ SameWire(s, t) /\ SameParts(s, t) /\ t.ops = s.ops /\ t.busy = s.busy
      /\ t.appq = Append(s.appq, o) /\ t.group = g /\ t.join_state = js
      /\ t.proto = s.proto /\ t.terminate = s.terminate /\ t.state = s.state
      /\ t.assignor = s.assignor /\ t.refused = s.refused /\ t.failed = s.failed
      /\ t.member = s.member /\ t.gen = s.gen /\ t.incr = s.incr /\ t.leader = s.leader
      /\ t.subscription = s.subscription /\ t.next_sub = s.next_sub /\ t.cached = s.cached
      /\ t.topics = s.topics /\ t.exists = s.exists /\ t.meta = s.meta
  BY <1>1 DEF RebalanceOp, CallApp, Fields, SameWire, SameParts
<1> HIDE DEF t, o
<1>6. JoinOK(t) /\ SubsOK(t) /\ ListsOK(t)
  BY <1>2, <1>3 DEF Good, Sound, Solid, JoinOK, SubsOK, ListsOK, JoinStates, SameWire
<1> HIDE DEF g
<1>7. Good(t)
  BY <1>1, <1>2, <1>3, <1>6, QueuedGood DEF o
<1>8. Kept(s, t) /\ t.join_state \in {"WAIT_ASSIGN_CALL", "WAIT_UNASSIGN_CALL"}
  BY <1>3 DEF Kept, SameParts
<1>9. QED
  BY <1>7, <1>8 DEF t

LEMMA CheckGood ==
  ASSUME NEW s, NEW cond, Good(s), cond
  PROVE  Good(Check(s, cond)) /\ Kept(s, Check(s, cond)) /\ Alike(s, Check(s, cond))
<1> DEFINE t == Check(s, cond)
<1>1. DOMAIN s = Fields
  BY DEF Good, Sound, Solid
<1>2. t.failed = (s.failed \/ ~cond)
  BY <1>1 DEF Check, Fields
<1>3. t.failed => s.failed
  BY <1>2
<1>4. Alike(s, t)
  BY <1>1, <1>3 DEF Fields, Alike, SameFlags, SameWire, SameQueues, SameParts,
                    SameView, SameJoin, Check
<1>5. QED
  BY <1>4, AlikeGood

LEMMA CheckSolid ==
  ASSUME NEW s, NEW cond, DOMAIN s = Fields, cond, ~s.failed, ~s.refused
  PROVE  /\ ~Check(s, cond).failed /\ ~Check(s, cond).refused
         /\ Alike(s, Check(s, cond))
<1> DEFINE t == Check(s, cond)
<1>1. t.failed = (s.failed \/ ~cond) /\ t.refused = s.refused
  BY DEF Check, Fields
<1>2. t.failed => s.failed
  BY <1>1
<1>3. Alike(s, t)
  BY <1>2 DEF Fields, Alike, SameFlags, SameWire, SameQueues, SameParts,
              SameView, SameJoin, Check
<1>4. QED
  BY <1>1, <1>3

\* The condition is the one that rd_kafka_cgrp_revoke_all_rejoin() asserts.
LEMMA RevokeAllRejoinGood ==
  ASSUME NEW s, NEW lost, Good(s), lost \/ ~Cooperative(s) \/ s.subscription = None
  PROVE  /\ Good(RevokeAllRejoin(s, lost)) /\ Kept(s, RevokeAllRejoin(s, lost))
         /\ ~Cooperative(s) => RevokeAllRejoin(s, lost).join_state # "WAIT_METADATA"
<1> DEFINE t == RevokeAllRejoin(s, lost)
           u == IF lost THEN SetLost(s) ELSE s
<1>0. s.group \in Lists /\ s.proto \in {"EAGER", "COOPERATIVE"} /\ (s.group # None => s.assignor)
  BY DEF Good, Sound, Solid, ListsOK, JoinOK
<1>1. Good(u) /\ Kept(s, u) /\ u.group = s.group
  BY LostGood DEF Kept, Alike, SameView
<1>2. CASE ~Cooperative(s)
  <2>1. CASE s.group # None /\ ~WaitAssignCall(s)
    <3>1. t = RebalanceOp(u, "revoke", s.group)
      BY <1>2, <2>1, Zenon DEF RevokeAllRejoin
    <3>2. s.proto = "EAGER"
      BY <1>0, <1>2, <2>1 DEF Cooperative, Protocol
    <3>3. s.group \in SUBSET Parts
      BY <1>0, <2>1 DEF Lists
    <3> HIDE DEF u
    <3>4. /\ Good(RebalanceOp(u, "revoke", s.group))
          /\ Kept(u, RebalanceOp(u, "revoke", s.group))
          /\ RebalanceOp(u, "revoke", s.group).join_state # "WAIT_METADATA"
      BY <1>1, <3>2, <3>3, RebalanceOpGood DEF Kept
    <3>5. QED
      BY <1>1, <3>1, <3>4 DEF Kept
  <2>2. CASE ~(s.group # None /\ ~WaitAssignCall(s))
    <3>1. t = Rejoin(u)
      BY <1>2, <2>2, Zenon DEF RevokeAllRejoin
    <3> HIDE DEF u
    <3>2. Good(Rejoin(u)) /\ Kept(u, Rejoin(u)) /\ Rejoin(u).join_state = "INIT"
      BY <1>1, RejoinGood
    <3>3. QED
      BY <1>1, <3>1, <3>2 DEF Kept
  <2>3. QED
    BY <2>1, <2>2
<1>3. CASE Cooperative(s)
  <2> DEFINE v == Check(s, s.terminate \/ lost \/ s.subscription = None \/ s.leave_on)
             w == IF lost THEN SetLost(v) ELSE v
  <2>1. Good(v) /\ Kept(s, v) /\ v.group = s.group
    <3> DEFINE cond == s.terminate \/ lost \/ s.subscription = None \/ s.leave_on
    <3>1. cond
      BY <1>3
    <3> HIDE DEF cond
    <3>2. Good(Check(s, cond)) /\ Kept(s, Check(s, cond)) /\ Alike(s, Check(s, cond))
      BY <3>1, CheckGood
    <3>3. QED
      BY <3>2 DEF cond, Alike, SameView
  <2> HIDE DEF v
  <2>2. Good(w) /\ Kept(v, w) /\ w.group = s.group
    BY <2>1, LostGood DEF Kept, Alike, SameView
  <2> HIDE DEF w
  <2>3. CASE Elems(s.group) # {}
    <3> DEFINE r == RebalanceOpIncr(w, "revoke", s.group, ~s.terminate)
    <3>1. t = r
      BY <1>3, <2>3, Zenon DEF RevokeAllRejoin, w, v
    <3>2. s.group # None /\ s.assignor
      BY <1>0, <2>3 DEF Elems
    <3>3. s.group \in SUBSET Parts /\ Elems(w.group) = s.group
      BY <1>0, <2>2, <3>2 DEF Lists, Elems
    <3>7. w.assignor
      BY <2>1, <2>2, <3>2 DEF Kept
    <3>8. s.group \subseteq Elems(w.group) /\ Elems(w.group) # {}
      BY <2>2, <2>3, <3>3
    <3>4. Good(r) /\ Kept(w, r)
      BY <2>2, <3>3, <3>7, <3>8, RebalanceOpIncrGood
    <3> HIDE DEF r
    <3>5. QED
      BY <1>3, <2>1, <2>2, <3>1, <3>4 DEF Kept
  <2>4. CASE Elems(s.group) = {} /\ s.terminate
    <3>1. t = v
      BY <1>3, <2>4, Zenon DEF RevokeAllRejoin, v
    <3>2. QED
      BY <1>3, <2>1, <3>1
  <2>5. CASE Elems(s.group) = {} /\ ~s.terminate
    <3>1. t = Rejoin(v)
      BY <1>3, <2>5, Zenon DEF RevokeAllRejoin, v
    <3>2. Good(Rejoin(v)) /\ Kept(v, Rejoin(v))
      BY <2>1, RejoinGood
    <3>3. QED
      BY <1>3, <2>1, <3>1, <3>2 DEF Kept
  <2>6. QED
    BY <2>3, <2>4, <2>5
<1>4. QED
  BY <1>2, <1>3

LEMMA RevokeAllRejoinMaybeGood ==
  ASSUME NEW s, NEW lost, Good(s), lost \/ ~Cooperative(s)
  PROVE  Good(RevokeAllRejoinMaybe(s, lost))
<1>1. Good(RevokeAllRejoin(s, lost))
  BY RevokeAllRejoinGood
<1>2. QED
  BY <1>1 DEF RevokeAllRejoinMaybe

LEMMA GroupIsRebalancingGood ==
  ASSUME NEW s, Good(s)
  PROVE  Good(GroupIsRebalancing(s))
<1>1. CASE Protocol(s) = "EAGER"
  <2>1. Good(RevokeAllRejoinMaybe(s, FALSE))
    BY <1>1, RevokeAllRejoinMaybeGood DEF Cooperative
  <2>2. QED
    BY <1>1, <2>1 DEF GroupIsRebalancing
<1>2. CASE Protocol(s) # "EAGER"
  <2>1. Good(Rejoin(s))
    BY RejoinGood
  <2>2. QED
    BY <1>2, <2>1 DEF GroupIsRebalancing
<1>3. QED
  BY <1>1, <1>2

-----------------------------------------------------------------------------
(* The assignment. *)

\* What the invariant speaks of but the lists of partitions and the join state.
Around(s, t) ==
  /\ DOMAIN t = Fields /\ SameFlags(s, t) /\ SameWire(s, t) /\ SameQueues(s, t)
  /\ t.proto = s.proto /\ t.terminate = s.terminate /\ t.group = s.group
  /\ t.state = s.state /\ t.member = s.member /\ t.gen = s.gen
  /\ t.subscription = s.subscription /\ t.next_sub = s.next_sub /\ t.cached = s.cached
  /\ t.topics = s.topics /\ t.exists = s.exists /\ t.meta = s.meta
  /\ t.incr = s.incr /\ t.assignor = s.assignor /\ t.leader = s.leader

LEMMA AroundSolid ==
  ASSUME NEW s, NEW t, Solid(s), Around(s, t), AssignmentOK(t), TermOK(t),
         t.join_state \in JoinStates, t.join_state = "WAIT_SYNC" => s.join_state = "WAIT_SYNC"
  PROVE  Solid(t)
<1>1. WireOK(t) /\ QueuesOK(t)
  BY SameWireOK, SameQueuesOK DEF Solid, Around
<1>2. JoinOK(t) /\ SubsOK(t) /\ ListsOK(t)
  BY DEF Solid, JoinOK, SubsOK, ListsOK, Around, SameWire
<1>3. QED
  BY <1>1, <1>2 DEF Solid, Around, SameFlags

LEMMA CgrpUnassignSound ==
  ASSUME NEW s, Solid(s), s.terminate \/ s.proto = "EAGER"
  PROVE  /\ Sound(CgrpUnassign(s)) /\ CgrpUnassign(s).terminate = s.terminate
         /\ CgrpUnassign(s).proto = s.proto
<1> DEFINE t == CgrpUnassign(s)
<1>1. DOMAIN s = Fields /\ s.join_state \in JoinStates
  BY DEF Solid, JoinOK
<1>2. /\ Around(s, t) /\ t.all = {} /\ t.pending = {} /\ t.removed = s.removed \cup s.all
      /\ t.started = s.started /\ t.removing = s.removing
      /\ t.join_state \in {s.join_state, "WAIT_UNASSIGN_TO_COMPLETE"}
  <2>1. CASE s.join_state = "WAIT_UNASSIGN_CALL"
    BY <1>1, <2>1 DEF CgrpUnassign, AssignmentClear, Fields, Around, SameFlags, SameWire, SameQueues
  <2>2. CASE s.join_state # "WAIT_UNASSIGN_CALL"
    BY <1>1, <2>2 DEF CgrpUnassign, AssignmentClear, Fields, Around, SameFlags, SameWire, SameQueues
  <2>3. QED
    BY <2>1, <2>2
<1> HIDE DEF t
<1>3. AssignmentOK(t)
  BY <1>2 DEF Solid, AssignmentOK
<1>4. TermOK(t)
  BY <1>2 DEF Solid, AssignmentOK, TermOK, Around
<1>5. t.join_state \in JoinStates /\ (t.join_state = "WAIT_SYNC" => s.join_state = "WAIT_SYNC")
  BY <1>1, <1>2 DEF JoinStates
<1>6. Solid(t)
  BY <1>2, <1>3, <1>4, <1>5, AroundSolid
<1>7. t.terminate = s.terminate /\ t.proto = s.proto
  BY <1>2 DEF Around
<1>8. ViewOK(t)
  BY <1>7 DEF ViewOK
<1>9. QED
  BY <1>6, <1>7, <1>8 DEF Sound, t

\* What serving the assignment leaves alone unless the consumer is being closed.
Stays(s, t) ==
  t.proto = s.proto /\ t.terminate = s.terminate /\ (~s.terminate => t.all = s.all)

LEMMA UnassignDoneGood ==
  ASSUME NEW s, Good(s)
  PROVE  Good(UnassignDone(s)) /\ Stays(s, UnassignDone(s))
<1> DEFINE u == ClearLost(s)
           v == LeaveMaybe(u)
           w == Rejoin(v)
<1>1. Good(u) /\ Kept(s, u)
  BY LostGood
<1> HIDE DEF u
<1>2. Good(v) /\ Kept(u, v)
  BY <1>1, LeaveMaybeGood
<1> HIDE DEF v
<1>3. Good(w) /\ Kept(v, w)
  BY <1>2, RejoinGood
<1>4. UnassignDone(s) = w
  BY DEF UnassignDone, u, v
<1> HIDE DEF w
<1>5. QED
  BY <1>1, <1>2, <1>3, <1>4 DEF Kept, Stays

LEMMA AbortGood ==
  ASSUME NEW s, Good(s)
  PROVE  Good(Abort(s)) /\ Kept(s, Abort(s))
<1>1. Alike(s, Abort(s))
  BY DEF Good, Sound, Solid, Fields, Alike, SameFlags, SameWire, SameQueues, SameParts,
         SameView, SameJoin, Abort
<1>2. QED
  BY <1>1, AlikeGood

\* The flag rejoin is not part of the invariant.
LEMMA RejoinFlagGood ==
  ASSUME NEW s, Good(s), NEW b
  PROVE  Good([s EXCEPT !.rejoin = b]) /\ Kept(s, [s EXCEPT !.rejoin = b])
<1>1. Alike(s, [s EXCEPT !.rejoin = b])
  BY DEF Good, Sound, Solid, Fields, Alike, SameFlags, SameWire, SameQueues, SameParts,
         SameView, SameJoin
<1> DEFINE t == [s EXCEPT !.rejoin = b]
<1> HIDE DEF t
<1>2. Good(t) /\ Kept(s, t)
  BY <1>1, AlikeGood DEF t
<1>3. QED
  BY <1>2 DEF t

\* The join state changes, or what is to be assigned after a revocation.
LEMMA JoinStateGood ==
  ASSUME NEW s, NEW t, Good(s), NEW js \in JoinStates, NEW g \in {s.incr, None},
         t = [s EXCEPT !.join_state = js, !.incr = g], js # "WAIT_SYNC" \/ s.assignor
  PROVE  Good(t) /\ Kept(s, t)
<1>1. DOMAIN s = Fields
  BY DEF Good, Sound, Solid
<1>2. /\ DOMAIN t = Fields /\ SameFlags(s, t) /\ SameWire(s, t) /\ SameQueues(s, t)
      /\ SameParts(s, t) /\ SameView(s, t) /\ t.state = s.state
      /\ t.assignor = s.assignor
  BY <1>1 DEF Fields, SameFlags, SameWire, SameQueues, SameParts, SameView
<1>3. JoinOK(t) /\ SubsOK(t) /\ ListsOK(t)
  BY <1>1 DEF Good, Sound, Solid, JoinOK, SubsOK, ListsOK, Fields, Lists
<1>4. QED
  BY <1>2, <1>3, JoinFrame DEF Kept, SameView

LEMMA IncrUnassignDoneGood ==
  ASSUME NEW s, Good(s)
  PROVE  Good(IncrUnassignDone(s)) /\ Stays(s, IncrUnassignDone(s))
<1> DEFINE t == ClearLost(s)
           r == IncrUnassignDone(s)
<1>1. Good(t) /\ Kept(s, t) /\ t.group = s.group /\ t.incr = s.incr /\ DOMAIN t = Fields
  BY LostGood DEF Alike, SameView, SameJoin
<1>2. s.group \in Lists /\ s.incr \in Lists /\ (s.incr # None => s.assignor)
  BY DEF Good, Sound, Solid, ListsOK
<1>3. CASE s.terminate
  <2>1. r = CgrpUnassign(t)
    BY <1>3 DEF IncrUnassignDone
  <2> HIDE DEF t
  <2>2. /\ Sound(CgrpUnassign(t)) /\ CgrpUnassign(t).terminate = t.terminate
        /\ CgrpUnassign(t).proto = t.proto
    BY <1>1, <1>3, CgrpUnassignSound DEF Good, Sound, Kept
  <2> HIDE DEF r
  <2>3. QED
    BY <1>1, <1>3, <2>1, <2>2 DEF Good, Kept, Stays, r
<1>4. CASE ~s.terminate /\ Elems(s.incr) \cap Elems(s.group) # {}
  <2>1. r = Abort(t)
    BY <1>4 DEF IncrUnassignDone
  <2> HIDE DEF t
  <2>2. Good(Abort(t)) /\ Kept(t, Abort(t))
    BY <1>1, AbortGood
  <2>3. QED
    BY <1>1, <2>1, <2>2 DEF Kept, Stays
<1>5. CASE ~s.terminate /\ Elems(s.incr) \cap Elems(s.group) = {} /\ s.incr # None
  <2> DEFINE o == RebalanceOpIncr(t, "assign", s.incr, TRUE)
             p == [o EXCEPT !.incr = None]
  <2>1. r = p
    BY <1>5 DEF IncrUnassignDone
  <2> HIDE DEF t
  <2>2. s.incr \in SUBSET Parts /\ s.incr \cap Elems(t.group) = {} /\ t.assignor
    BY <1>1, <1>2, <1>5 DEF Lists, Elems, Kept
  <2>3. Good(o) /\ Kept(t, o) /\ o.join_state \in {"WAIT_ASSIGN_CALL", "WAIT_UNASSIGN_CALL"}
    BY <1>1, <2>2, RebalanceOpIncrGood
  <2> HIDE DEF o
  <2>4. p = [o EXCEPT !.join_state = o.join_state, !.incr = None]
    <3>1. DOMAIN o = Fields
      BY <2>3 DEF Good, Sound, Solid
    <3>2. QED
      BY <3>1 DEF Fields
  <2>5. Good(p) /\ Kept(o, p)
    BY <2>3, <2>4, JoinStateGood DEF JoinStates
  <2> HIDE DEF p
  <2>6. QED
    BY <1>1, <2>1, <2>3, <2>5 DEF Kept, Stays
<1>6. CASE ~s.terminate /\ s.incr = None /\ s.rejoin
  <2> DEFINE p == [t EXCEPT !.rejoin = FALSE]
  <2>1. r = Rejoin(p)
    BY <1>6 DEF IncrUnassignDone, Elems
  <2> HIDE DEF t
  <2>2. Good(p) /\ Kept(t, p)
    BY <1>1, RejoinFlagGood
  <2> HIDE DEF p
  <2>3. Good(Rejoin(p)) /\ Kept(p, Rejoin(p))
    BY <2>2, RejoinGood
  <2>4. QED
    BY <1>1, <2>1, <2>2, <2>3 DEF Kept, Stays
<1>7. CASE ~s.terminate /\ s.incr = None /\ ~s.rejoin /\ WaitingSubscribe(s)
  <2>1. r = Rejoin(t)
    BY <1>7 DEF IncrUnassignDone, Elems
  <2> HIDE DEF t
  <2>2. Good(Rejoin(t)) /\ Kept(t, Rejoin(t))
    BY <1>1, RejoinGood
  <2>3. QED
    BY <1>1, <2>1, <2>2 DEF Kept, Stays
<1>8. CASE ~s.terminate /\ s.incr = None /\ ~s.rejoin /\ ~WaitingSubscribe(s)
  <2> DEFINE p == [t EXCEPT !.join_state = "STEADY"]
  <2>1. r = p
    BY <1>8 DEF IncrUnassignDone, Elems
  <2> HIDE DEF t
  <2>2. p = [t EXCEPT !.join_state = "STEADY", !.incr = t.incr]
    BY <1>1 DEF Fields
  <2>3. Good(p) /\ Kept(t, p)
    BY <1>1, <2>2, JoinStateGood DEF JoinStates
  <2> HIDE DEF p
  <2>4. QED
    BY <1>1, <2>1, <2>3 DEF Kept, Stays
<1>9. Elems(s.incr) \cap Elems(s.group) # {} => s.incr # None
  BY DEF Elems
<1>10. QED
  BY <1>3, <1>4, <1>5, <1>6, <1>7, <1>8, <1>9

LEMMA AssignmentDoneGood ==
  ASSUME NEW s, Good(s)
  PROVE  Good(AssignmentDone(s)) /\ Stays(s, AssignmentDone(s))
<1> DEFINE u == [s EXCEPT !.rejoin = FALSE]
<1>1. AssignmentDone(s) \in
        {UnassignDone(s), IncrUnassignDone(s), Rejoin(s), Rejoin(u), TryTerminate(s), s}
  BY DEF AssignmentDone
<1>2. Good(UnassignDone(s)) /\ Stays(s, UnassignDone(s))
  BY UnassignDoneGood
<1>3. Good(IncrUnassignDone(s)) /\ Stays(s, IncrUnassignDone(s))
  BY IncrUnassignDoneGood
<1>4. Good(Rejoin(s)) /\ Stays(s, Rejoin(s))
  BY RejoinGood DEF Kept, Stays
<1>5. Good(u) /\ Kept(s, u)
  BY RejoinFlagGood
<1> HIDE DEF u
<1>6. Good(Rejoin(u)) /\ Stays(s, Rejoin(u))
  BY <1>5, RejoinGood DEF Kept, Stays
<1>7. Good(TryTerminate(s)) /\ Stays(s, TryTerminate(s))
  BY TryTerminateGood DEF Kept, Stays
<1>8. Stays(s, s)
  BY DEF Stays
<1>9. QED
  BY <1>1, <1>2, <1>3, <1>4, <1>6, <1>7, <1>8

LEMMA AssignmentServeGood ==
  ASSUME NEW s, Sound(s)
  PROVE  Good(AssignmentServe(s)) /\ Stays(s, AssignmentServe(s))
<1> DEFINE t == [s EXCEPT !.removing = @ \cup (s.removed \cap s.started), !.removed = {}]
<1>1. DOMAIN s = Fields /\ s.join_state \in JoinStates
  BY DEF Sound, Solid, JoinOK
<1>2. /\ Around(s, t) /\ t.all = s.all /\ t.pending = s.pending /\ t.removed = {}
      /\ t.started = s.started /\ t.removing = s.removing \cup (s.removed \cap s.started)
      /\ t.join_state = s.join_state
  BY <1>1 DEF Fields, Around, SameFlags, SameWire, SameQueues
<1>3. AssignmentServe(s) \in {AssignmentDone(t), t}
  BY DEF AssignmentServe
<1> HIDE DEF t
<1>4. AssignmentOK(t)
  BY <1>2 DEF Sound, Solid, AssignmentOK
<1>5. TermOK(t)
  BY <1>2 DEF Sound, Solid, TermOK, Around
<1>6. Solid(t)
  BY <1>1, <1>2, <1>4, <1>5, AroundSolid DEF Sound
<1>7. ViewOK(t)
  BY <1>2, SameViewOK DEF Sound, SameView, Around, SameQueues
<1>8. Good(t) /\ Stays(s, t)
  BY <1>2, <1>6, <1>7 DEF Good, Sound, Stays, Around
<1>9. Good(AssignmentDone(t)) /\ Stays(t, AssignmentDone(t))
  BY <1>8, AssignmentDoneGood
<1>10. QED
  BY <1>3, <1>8, <1>9 DEF Stays

\* What a call of assign() adds; x is the order of the last two steps of
\* CgrpAssign and of IncrementalAssign.
LEMMA AddedSolid ==
  ASSUME NEW s, NEW P \in SUBSET Parts, Solid(s), ~s.terminate, s.removed = {}, P \cap s.all = {},
         NEW t \in {AssignCalled(ClearLost(AssignmentAdd(s, P))),
                    ClearLost(AssignCalled(AssignmentAdd(s, P)))}
  PROVE  Solid(t) /\ Around(s, t) /\ t.all = s.all \cup P
<1> DEFINE u == Check(s, P \cap (s.all \cup s.removed) = {})
<1>1. DOMAIN s = Fields /\ s.join_state \in JoinStates /\ ~s.failed /\ ~s.refused
  BY DEF Solid, JoinOK
<1>2. DOMAIN u = Fields /\ Alike(s, u)
  <2> DEFINE cond == P \cap (s.all \cup s.removed) = {}
  <2>1. cond
    OBVIOUS
  <2> HIDE DEF cond
  <2>2. Alike(s, Check(s, cond))
    BY <1>1, <2>1, CheckSolid
  <2>3. QED
    BY <2>2 DEF cond, Alike
<1>3. AssignmentAdd(s, P) = [u EXCEPT !.all = @ \cup P, !.pending = @ \cup P]
  BY DEF AssignmentAdd
<1> HIDE DEF u
<1> DEFINE v == AssignmentAdd(s, P)
<1>4. /\ Around(u, v) /\ v.all = u.all \cup P /\ v.pending = u.pending \cup P
      /\ v.removed = u.removed /\ v.started = u.started /\ v.removing = u.removing
      /\ v.join_state = u.join_state
  BY <1>2, <1>3 DEF Fields, Around, SameFlags, SameWire, SameQueues
<1> HIDE DEF v
<1>5. /\ Around(v, t) /\ SameParts(v, t) /\ t.join_state \in {v.join_state, "STEADY"}
  <2>1. CASE t = AssignCalled(ClearLost(v))
    <3> DEFINE w == ClearLost(v)
    <3>1. Around(v, w) /\ SameParts(v, w) /\ w.join_state = v.join_state
      BY <1>4 DEF ClearLost, Around, Fields, SameFlags, SameWire, SameQueues, SameParts
    <3> HIDE DEF w
    <3>2. Around(w, t) /\ SameParts(w, t) /\ t.join_state \in {w.join_state, "STEADY"}
      BY <2>1, <3>1 DEF AssignCalled, Around, Fields, SameFlags, SameWire, SameQueues, SameParts, w
    <3>3. QED
      BY <3>1, <3>2 DEF Around, SameFlags, SameWire, SameQueues, SameParts
  <2>2. CASE t = ClearLost(AssignCalled(v))
    <3> DEFINE w == AssignCalled(v)
    <3>1. Around(v, w) /\ SameParts(v, w) /\ w.join_state \in {v.join_state, "STEADY"}
      BY <1>4 DEF AssignCalled, Around, Fields, SameFlags, SameWire, SameQueues, SameParts
    <3> HIDE DEF w
    <3>2. Around(w, t) /\ SameParts(w, t) /\ t.join_state = w.join_state
      BY <2>2, <3>1 DEF ClearLost, Around, Fields, SameFlags, SameWire, SameQueues, SameParts, w
    <3>3. QED
      BY <3>1, <3>2 DEF Around, SameFlags, SameWire, SameQueues, SameParts
  <2>3. QED
    BY <2>1, <2>2 DEF v
<1>6. /\ Around(s, t) /\ t.all = s.all \cup P /\ t.pending = s.pending \cup P
      /\ t.removed = s.removed /\ t.started = s.started /\ t.removing = s.removing
      /\ t.join_state \in {s.join_state, "STEADY"}
  BY <1>2, <1>4, <1>5 DEF Alike, Around, SameFlags, SameWire, SameQueues, SameParts, SameView,
                         SameJoin
<1>7. AssignmentOK(t)
  BY <1>6 DEF Solid, AssignmentOK
<1>8. TermOK(t)
  BY <1>6 DEF Solid, TermOK, Around
<1>9. t.join_state \in JoinStates /\ (t.join_state = "WAIT_SYNC" => s.join_state = "WAIT_SYNC")
  BY <1>1, <1>6 DEF JoinStates
<1>10. Solid(t)
  BY <1>6, <1>7, <1>8, <1>9, AroundSolid
<1>11. QED
  BY <1>6, <1>10

\* The call (op, P) has been taken from ops and is not carried out yet.
Taken(s, op, P) ==
  /\ Solid(s) /\ (s.terminate \/ s.removed = {}) /\ ~Calling(s.ops)
  /\ s.proto = "COOPERATIVE" /\ ~s.terminate =>
       \E A \in SUBSET Parts :
         Moves([op |-> op, parts |-> P], s.all, A) /\ Leads(s.appq, A, Elems(s.group))

LEMMA CgrpAssignSound ==
  ASSUME NEW s, NEW P \in SUBSET Parts, Solid(s), ~s.terminate, s.removed = {}, s.proto = "EAGER"
  PROVE  Sound(CgrpAssign(s, P))
<1> DEFINE u == AssignmentClear(s)
           v == IF s.all = {} THEN s ELSE AssignmentServe(u)
           t == AssignCalled(ClearLost(AssignmentAdd(v, P)))
<1>1. DOMAIN s = Fields /\ s.join_state \in JoinStates
  BY DEF Solid, JoinOK
<1>2. Sound(u) /\ u.terminate = s.terminate /\ u.proto = s.proto /\ u.all = {}
  <2>1. /\ Around(s, u) /\ u.all = {} /\ u.pending = {} /\ u.removed = s.removed \cup s.all
        /\ u.started = s.started /\ u.removing = s.removing /\ u.join_state = s.join_state
    BY <1>1 DEF AssignmentClear, Fields, Around, SameFlags, SameWire, SameQueues
  <2> HIDE DEF u
  <2>2. AssignmentOK(u)
    BY <2>1 DEF Solid, AssignmentOK
  <2>3. TermOK(u)
    BY <2>1 DEF Solid, AssignmentOK, TermOK, Around
  <2>4. Solid(u)
    BY <1>1, <2>1, <2>2, <2>3, AroundSolid
  <2>5. QED
    BY <2>1, <2>4 DEF Sound, ViewOK, Around
<1> HIDE DEF u
<1>3. Good(AssignmentServe(u)) /\ Stays(u, AssignmentServe(u))
  BY <1>2, AssignmentServeGood
<1>4. Solid(v) /\ ~v.terminate /\ v.removed = {} /\ v.all = {} /\ v.proto = "EAGER"
  BY <1>2, <1>3 DEF Good, Sound, Stays
<1>5. CgrpAssign(s, P) = t
  BY DEF CgrpAssign, u
<1> HIDE DEF v
<1>6. Solid(t) /\ Around(v, t)
  BY <1>4, AddedSolid
<1> HIDE DEF t
<1>7. QED
  BY <1>4, <1>5, <1>6 DEF Sound, ViewOK, Around

LEMMA TakenView ==
  ASSUME NEW s, NEW t, NEW op, NEW P, Taken(s, op, P), SameQueues(s, t), t.group = s.group,
         t.proto = s.proto, t.terminate = s.terminate,
         s.proto = "COOPERATIVE" /\ ~s.terminate =>
           \A A : Moves([op |-> op, parts |-> P], s.all, A) => A = t.all
  PROVE  ViewOK(t)
<1>1. SUFFICES ASSUME s.proto = "COOPERATIVE", ~s.terminate
               PROVE  View(s.ops, t.all, s.appq, s.group)
  BY DEF ViewOK, SameQueues
<1>2. PICK A \in SUBSET Parts :
        Moves([op |-> op, parts |-> P], s.all, A) /\ Leads(s.appq, A, Elems(s.group))
  BY <1>1 DEF Taken
<1>3. A = t.all
  BY <1>1, <1>2
<1>4. Base(s.ops, t.all, A)
  BY <1>3 DEF Taken, Base
<1>5. QED
  BY <1>2, <1>4 DEF View

LEMMA IncrementalAssignSound ==
  ASSUME NEW s, NEW P \in SUBSET Parts, Taken(s, "assign", P), ~s.terminate, P \cap s.all = {}
  PROVE  Sound(IncrementalAssign(s, P))
<1> DEFINE t == IncrementalAssign(s, P)
<1>1. t = ClearLost(AssignCalled(AssignmentAdd(s, P)))
  BY DEF IncrementalAssign
<1> HIDE DEF t
<1>2. Solid(t) /\ Around(s, t) /\ t.all = s.all \cup P
  BY <1>1, AddedSolid DEF Taken
<1>3. \A A : Moves([op |-> "assign", parts |-> P], s.all, A) => A = t.all
  BY <1>2 DEF Moves
<1>4. ViewOK(t)
  BY <1>2, <1>3, TakenView DEF Around
<1>5. QED
  BY <1>2, <1>4 DEF Sound, t

LEMMA IncrementalUnassignSound ==
  ASSUME NEW s, NEW P \in SUBSET Parts, Taken(s, "revoke", P), ~s.terminate, P \subseteq s.all
  PROVE  Sound(IncrementalUnassign(s, P))
<1> DEFINE t == IncrementalUnassign(s, P)
<1>1. DOMAIN s = Fields /\ s.join_state \in JoinStates /\ Solid(s)
  BY DEF Taken, Solid, JoinOK
<1>2. /\ Around(s, t) /\ t.all = s.all \ P /\ t.pending = s.pending \ P
      /\ t.removed = s.removed \cup P
      /\ t.started = s.started /\ t.removing = s.removing
      /\ t.join_state \in {s.join_state, "WAIT_INCR_UNASSIGN_TO_COMPLETE"}
  <2>1. CASE s.join_state = "WAIT_UNASSIGN_CALL"
    BY <1>1, <2>1 DEF IncrementalUnassign, AssignmentSubtract, Fields, Around, SameFlags, SameWire,
                      SameQueues
  <2>2. CASE s.join_state # "WAIT_UNASSIGN_CALL"
    BY <1>1, <2>2 DEF IncrementalUnassign, AssignmentSubtract, Fields, Around, SameFlags, SameWire,
                      SameQueues
  <2>3. QED
    BY <2>1, <2>2
<1> HIDE DEF t
<1>3. AssignmentOK(t)
  BY <1>1, <1>2 DEF Solid, AssignmentOK
<1>4. TermOK(t)
  BY <1>1, <1>2 DEF Solid, TermOK, Around
<1>5. t.join_state \in JoinStates /\ (t.join_state = "WAIT_SYNC" => s.join_state = "WAIT_SYNC")
  BY <1>1, <1>2 DEF JoinStates
<1>6. Solid(t)
  BY <1>1, <1>2, <1>3, <1>4, <1>5, AroundSolid
<1>7. \A A : Moves([op |-> "revoke", parts |-> P], s.all, A) => A = t.all
  BY <1>2 DEF Moves
<1>8. ViewOK(t)
  BY <1>2, <1>7, TakenView DEF Around
<1>9. QED
  BY <1>6, <1>8 DEF Sound, t

\* A call of the application that is in step with the group is not refused.
LEMMA HandleAssignOpGood ==
  ASSUME NEW s, NEW op \in {"assign", "revoke"}, NEW P \in SUBSET Parts, Taken(s, op, P)
  PROVE  Good(HandleAssignOp(s, op, P))
<1>1. Solid(s) /\ DOMAIN s = Fields /\ s.proto \in {"EAGER", "COOPERATIVE"}
  BY DEF Taken, Solid, JoinOK
<1>2. CASE s.terminate
  <2> DEFINE js == IF s.join_state = "WAIT_ASSIGN_CALL" THEN "WAIT_UNASSIGN_CALL"
                   ELSE s.join_state
             t == [s EXCEPT !.incr = None, !.join_state = js]
  <2>1. HandleAssignOp(s, op, P) = AssignmentServe(CgrpUnassign(t))
    BY <1>1, <1>2 DEF HandleAssignOp, Fields
  <2>2. DOMAIN t = Fields /\ t.terminate
    BY <1>1, <1>2 DEF Fields
  <2>3. Solid(t)
    <3>1. /\ SameFlags(s, t) /\ SameWire(s, t) /\ SameQueues(s, t) /\ SameParts(s, t)
          /\ t.state = s.state /\ t.terminate = s.terminate
      BY <1>1 DEF Fields, SameFlags, SameWire, SameQueues, SameParts
    <3>2. JoinOK(t) /\ SubsOK(t) /\ ListsOK(t)
      BY <1>1 DEF Solid, JoinOK, SubsOK, ListsOK, Fields, Lists, JoinStates
    <3> HIDE DEF t
    <3>3. WireOK(t) /\ QueuesOK(t) /\ AssignmentOK(t)
      BY <1>1, <3>1, SameWireOK, SameQueuesOK, SamePartsOK DEF Solid
    <3>4. TermOK(t)
      BY <1>1, <3>1 DEF Solid, TermOK, SameParts
    <3>5. QED
      BY <1>1, <2>2, <3>1, <3>2, <3>3, <3>4 DEF Solid, SameFlags
  <2> HIDE DEF t
  <2>4. Sound(CgrpUnassign(t))
    BY <2>2, <2>3, CgrpUnassignSound
  <2>5. QED
    BY <2>1, <2>4, AssignmentServeGood
<1>3. CASE ~s.terminate /\ s.proto = "EAGER"
  <2>1. Sound(CgrpAssign(s, P)) /\ Sound(CgrpUnassign(s))
    BY <1>1, <1>3, CgrpAssignSound, CgrpUnassignSound DEF Taken
  <2>2. HandleAssignOp(s, op, P) \in {AssignmentServe(CgrpAssign(s, P)), AssignmentServe(CgrpUnassign(s))}
    BY <1>3 DEF HandleAssignOp
  <2>3. QED
    BY <2>1, <2>2, AssignmentServeGood
<1>4. CASE ~s.terminate /\ s.proto = "COOPERATIVE"
  <2>1. PICK A \in SUBSET Parts : Moves([op |-> op, parts |-> P], s.all, A)
    BY <1>4 DEF Taken
  <2>2. CASE op = "assign"
    <3>1. P \cap s.all = {}
      BY <2>1, <2>2 DEF Moves
    <3>2. HandleAssignOp(s, op, P) = AssignmentServe(IncrementalAssign(s, P))
      BY <1>4, <2>2, <3>1, Zenon DEF HandleAssignOp
    <3>3. Sound(IncrementalAssign(s, P))
      BY <1>4, <2>2, <3>1, IncrementalAssignSound
    <3>4. QED
      BY <3>2, <3>3, AssignmentServeGood
  <2>3. CASE op = "revoke"
    <3>1. P \subseteq s.all
      BY <2>1, <2>3 DEF Moves
    <3>2. HandleAssignOp(s, op, P) = AssignmentServe(IncrementalUnassign(s, P))
      BY <1>4, <2>3, <3>1 DEF HandleAssignOp
    <3>3. Sound(IncrementalUnassign(s, P))
      BY <1>4, <2>3, <3>1, IncrementalUnassignSound
    <3>4. QED
      BY <3>2, <3>3, AssignmentServeGood
  <2>4. QED
    BY <2>2, <2>3
<1>5. QED
  BY <1>1, <1>2, <1>3, <1>4

-----------------------------------------------------------------------------
(* The subscription. *)

\* Only fields of the subscription, with their types, and flags have changed.
Subscribed(s, t) ==
  /\ DOMAIN t = Fields /\ SameFlags(s, t) /\ SameWire(s, t) /\ SameQueues(s, t)
  /\ SameParts(s, t) /\ SameView(s, t) /\ SubsOK(t)
  /\ t.state = s.state /\ t.join_state = s.join_state /\ t.member = s.member /\ t.gen = s.gen
  /\ t.incr = s.incr /\ t.assignor = s.assignor /\ (t.leader => s.leader)

LEMMA SubscribedGood ==
  ASSUME NEW s, NEW t, Good(s), Subscribed(s, t)
  PROVE  Good(t) /\ Kept(s, t)
<1>1. JoinOK(t) /\ SubsOK(t) /\ ListsOK(t)
  BY DEF Good, Sound, Solid, JoinOK, ListsOK, Subscribed, SameWire, SameView
<1>2. Good(t)
  BY <1>1, JoinFrame DEF Subscribed
<1>3. QED
  BY <1>2 DEF Kept, Subscribed, SameView

LEMMA SubscriptionSetGood ==
  ASSUME NEW s, NEW S \in Lists, Good(s)
  PROVE  /\ Good(SubscriptionSet(s, S)) /\ Subscribed(s, SubscriptionSet(s, S))
         /\ SubscriptionSet(s, S).subscription = S
<1> DEFINE t == SubscriptionSet(s, S)
<1>1. DOMAIN s = Fields /\ SubsOK(s)
  BY DEF Good, Sound, Solid
<1>2. /\ DOMAIN t = Fields /\ SameFlags(s, t) /\ SameWire(s, t) /\ SameQueues(s, t)
      /\ SameParts(s, t) /\ SameView(s, t)
      /\ t.state = s.state /\ t.join_state = s.join_state /\ t.member = s.member /\ t.gen = s.gen
      /\ t.incr = s.incr /\ t.assignor = s.assignor /\ t.leader = s.leader
      /\ t.subscription = S /\ t.next_sub \in {None, s.next_sub} /\ t.topics = s.topics
      /\ t.cached = s.cached /\ t.exists = s.exists /\ t.meta \subseteq s.meta
  BY <1>1 DEF SubscriptionSet, Fields, SameFlags, SameWire, SameQueues, SameParts, SameView
<1> HIDE DEF t
<1>3. SubsOK(t)
  BY <1>1, <1>2 DEF SubsOK, Lists
<1>4. Subscribed(s, t)
  BY <1>2, <1>3 DEF Subscribed
<1>5. QED
  BY <1>2, <1>4, SubscribedGood DEF t

LEMMA TopicFilterType ==
  ASSUME NEW s, SubsOK(s)
  PROVE  TopicFilter(s) \subseteq Parts
BY DEF TopicFilter, SubsOK

LEMMA TopicsGood ==
  ASSUME NEW s, NEW T \in SUBSET Parts, Good(s)
  PROVE  /\ Good([s EXCEPT !.topics = T]) /\ Subscribed(s, [s EXCEPT !.topics = T])
         /\ [s EXCEPT !.topics = T].subscription = s.subscription
<1> DEFINE t == [s EXCEPT !.topics = T]
<1>1. DOMAIN s = Fields /\ SubsOK(s)
  BY DEF Good, Sound, Solid
<1>2. SubsOK(t) /\ t.subscription = s.subscription
  BY <1>1 DEF SubsOK, Fields
<1>3. Subscribed(s, t)
  BY <1>1, <1>2 DEF Subscribed, Fields, SameFlags, SameWire, SameQueues, SameParts, SameView
<1> HIDE DEF t
<1>4. Good(t)
  BY <1>3, SubscribedGood
<1>5. QED
  BY <1>2, <1>3, <1>4 DEF t

LEMMA WaitMetadataGood ==
  ASSUME NEW s, NEW ver, Good(s), s.join_state \in {"INIT", "STEADY"}, s.subscription # None
  PROVE  Good(WaitMetadata(s, ver))
<1> DEFINE u == Check(s, s.join_state \in {"INIT", "STEADY"})
           t == WaitMetadata(s, ver)
<1>1. Good(u) /\ Alike(s, u)
  <2> DEFINE cond == s.join_state \in {"INIT", "STEADY"}
  <2>1. cond
    OBVIOUS
  <2> HIDE DEF cond
  <2>2. Good(Check(s, cond)) /\ Alike(s, Check(s, cond))
    BY <2>1, CheckGood
  <2>3. QED
    BY <2>2 DEF cond
<1>2. t = [u EXCEPT !.join_state = "WAIT_METADATA", !.assigning = FALSE,
                    !.meta = @ \cup {[ver |-> ver, topics |-> s.subscription]}]
  BY DEF WaitMetadata
<1> HIDE DEF u, t
<1>3. DOMAIN u = Fields /\ SubsOK(u) /\ s.subscription \in Lists
  BY <1>1 DEF Good, Sound, Solid, SubsOK
<1>4. /\ DOMAIN t = Fields /\ SameFlags(u, t) /\ SameWire(u, t) /\ SameQueues(u, t)
      /\ SameParts(u, t) /\ SameView(u, t) /\ t.state = u.state
      /\ t.join_state = "WAIT_METADATA" /\ t.member = u.member /\ t.gen = u.gen
      /\ t.incr = u.incr /\ t.assignor = u.assignor /\ t.leader = u.leader
      /\ t.subscription = u.subscription /\ t.next_sub = u.next_sub /\ t.topics = u.topics
      /\ t.cached = u.cached /\ t.exists = u.exists
      /\ t.meta = u.meta \cup {[ver |-> ver, topics |-> s.subscription]}
  BY <1>2, <1>3 DEF Fields, SameFlags, SameWire, SameQueues, SameParts, SameView
<1>5. SubsOK(t)
  <2>1. \A m \in t.meta : m.topics \subseteq Parts
    BY <1>3, <1>4 DEF SubsOK, Lists
  <2>2. QED
    BY <1>3, <1>4, <2>1 DEF SubsOK
<1>6. JoinOK(t) /\ ListsOK(t)
  BY <1>1, <1>4 DEF Good, Sound, Solid, JoinOK, ListsOK, JoinStates, SameWire, SameView
<1>7. Good(t)
  BY <1>1, <1>4, <1>5, <1>6, JoinFrame
<1>8. QED
  BY <1>7 DEF t

\* A JoinGroup or a SyncGroup is sent and its reply awaited.
LEMMA AwaitGood ==
  ASSUME NEW s, NEW t, NEW js \in JoinStates, NEW api \in Waits, NEW req \in Requests,
         Good(s), s.wait_resp = "none", req.api = api, js = "WAIT_SYNC" => s.assignor,
         t = Send(SetWaitResp([s EXCEPT !.join_state = js], api), req)
  PROVE  Good(t)
<1> DEFINE u == [s EXCEPT !.join_state = js]
           v == Check(u, u.wait_resp = "none")
<1>1. DOMAIN s = Fields /\ ~s.failed /\ ~s.refused
  BY DEF Good, Sound, Solid
<1>2. DOMAIN u = Fields /\ u.failed = s.failed /\ u.refused = s.refused /\ u.wait_resp = "none"
      /\ SameWire(s, u) /\ SameQueues(s, u) /\ SameParts(s, u) /\ SameView(s, u) /\ SameFlags(s, u)
      /\ u.state = s.state /\ u.join_state = js /\ u.assignor = s.assignor
  BY <1>1 DEF Fields, SameFlags, SameWire, SameQueues, SameParts, SameView
<1>3. JoinOK(u) /\ SubsOK(u) /\ ListsOK(u)
  BY <1>1 DEF Good, Sound, Solid, JoinOK, SubsOK, ListsOK, Fields
<1> HIDE DEF u
<1>4. Good(u)
  BY <1>2, <1>3, JoinFrame
<1>5. Good(v) /\ Alike(u, v)
  <2> DEFINE cond == u.wait_resp = "none"
  <2>1. cond
    BY <1>2
  <2> HIDE DEF cond
  <2>2. Good(Check(u, cond)) /\ Alike(u, Check(u, cond))
    BY <1>4, <2>1, CheckGood
  <2>3. QED
    BY <2>2 DEF cond
<1>6. t = [[v EXCEPT !.wait_resp = api] EXCEPT !.net = Append(@, req)]
  BY DEF Send, SetWaitResp, u
<1> HIDE DEF v
<1>7. DOMAIN v = Fields /\ v.wait_resp = "none" /\ Wire(v.resp, v.net, "none", v.hb)
      /\ JoinOK(v) /\ SubsOK(v) /\ ListsOK(v)
  BY <1>2, <1>5 DEF Good, Sound, Solid, WireOK, Alike, SameWire
<1>8. /\ DOMAIN t = Fields /\ SameFlags(v, t) /\ SameQueues(v, t)
      /\ SameParts(v, t) /\ SameView(v, t) /\ SameJoin(v, t)
      /\ t.net = Append(v.net, req) /\ t.resp = v.resp /\ t.wait_resp = api /\ t.hb = v.hb
  <2> DEFINE w == [v EXCEPT !.wait_resp = api]
             n == Append(v.net, req)
  <2>1. /\ DOMAIN w = Fields /\ SameFlags(v, w) /\ SameQueues(v, w)
        /\ SameParts(v, w) /\ SameView(v, w) /\ SameJoin(v, w)
        /\ w.net = v.net /\ w.resp = v.resp /\ w.wait_resp = api /\ w.hb = v.hb
    BY <1>7 DEF Fields, SameFlags, SameQueues, SameParts, SameView, SameJoin
  <2>2. t = [w EXCEPT !.net = n]
    BY <1>6, <2>1
  <2> HIDE DEF w, n
  <2>3. /\ DOMAIN t = Fields /\ SameFlags(w, t) /\ SameQueues(w, t)
        /\ SameParts(w, t) /\ SameView(w, t) /\ SameJoin(w, t)
        /\ t.net = n /\ t.resp = w.resp /\ t.wait_resp = w.wait_resp /\ t.hb = w.hb
    BY <2>1, <2>2 DEF Fields, SameFlags, SameQueues, SameParts, SameView, SameJoin
  <2>4. SameFlags(v, t) /\ SameQueues(v, t) /\ SameParts(v, t) /\ SameView(v, t) /\ SameJoin(v, t)
    BY <2>1, <2>3 DEF SameFlags, SameQueues, SameParts, SameView, SameJoin
  <2>5. QED
    BY <2>1, <2>3, <2>4 DEF n
<1>9. Free(v.resp, v.net, Waits)
  BY <1>7 DEF Wire, Free, Waits
<1>10. Wire(v.resp, Append(v.net, req), api, v.hb)
  <2>1. req.api # "Heartbeat" /\ req.api \in Waits
    BY DEF Waits
  <2>2. QED
    BY <1>7, <1>9, <2>1, SendWire
<1>11. WireOK(t)
  BY <1>8, <1>10 DEF WireOK
<1>12. JoinOK(t) /\ SubsOK(t) /\ ListsOK(t)
  BY <1>7, <1>8 DEF JoinOK, SubsOK, ListsOK, SameJoin, SameView
<1>13. QED
  BY <1>5, <1>8, <1>11, <1>12, WireFrame DEF SameJoin

\* A flag has changed that the invariant does not speak of.
LEMMA FlagGood ==
  ASSUME NEW s, NEW f \in {"poll_exceeded", "next_unsub", "late", "session", "outdated", "polltmr"},
         NEW b, Good(s)
  PROVE  /\ Good([s EXCEPT ![f] = b]) /\ Kept(s, [s EXCEPT ![f] = b])
         /\ Alike(s, [s EXCEPT ![f] = b])
<1> DEFINE t == [s EXCEPT ![f] = b]
<1>1. Alike(s, t)
  BY DEF Good, Sound, Solid, Fields, Alike, SameFlags, SameWire, SameQueues, SameParts,
         SameView, SameJoin
<1> HIDE DEF t
<1>2. Good(t) /\ Kept(s, t)
  BY <1>1, AlikeGood
<1>3. QED
  BY <1>1, <1>2 DEF t

LEMMA JoinGood ==
  ASSUME NEW s, NEW ver, Good(s), s.subscription # None
  PROVE  Good(Join(s, ver))
<1> DEFINE t == [s EXCEPT !.poll_exceeded = FALSE]
           T == TopicFilter(t)
           u == IF t.topics = {} THEN [t EXCEPT !.topics = T] ELSE t
           req == Request("JoinGroup", u)
           v == Send(SetWaitResp([u EXCEPT !.join_state = "WAIT_JOIN"], "JoinGroup"), req)
<1>1. Good(t) /\ Alike(s, t)
  BY FlagGood
<1>2. /\ t.subscription # None /\ t.join_state = s.join_state /\ t.wait_resp = s.wait_resp
      /\ SubsOK(t)
  BY <1>1 DEF Alike, SameJoin, SameWire, Good, Sound, Solid
<1>3. Join(s, ver) = IF \/ s.state # "UP" \/ s.join_state # "INIT" \/ s.wait_resp # "none"
                        \/ s.poll_exceeded /\ s.late
                     THEN s
                     ELSE IF NeedsMetadata(t) THEN WaitMetadata(t, ver)
                     ELSE IF u.topics = {} THEN u ELSE v
  BY DEF Join
<1>4. CASE s.join_state = "INIT" /\ s.wait_resp = "none"
  <2> HIDE DEF t
  <2>1. T \in SUBSET Parts
    BY <1>2, TopicFilterType
  <2> HIDE DEF T
  <2>2. Good(WaitMetadata(t, ver))
    BY <1>1, <1>2, <1>4, WaitMetadataGood
  <2>3. Good(u) /\ u.wait_resp = "none"
    BY <1>1, <1>2, <1>4, <2>1, TopicsGood DEF Subscribed, SameWire
  <2> HIDE DEF u
  <2>4. req \in Requests /\ req.api = "JoinGroup"
    BY <2>3, RequestType DEF Apis, Waits, Good, Sound, Solid
  <2> HIDE DEF req
  <2>5. "WAIT_JOIN" \in JoinStates /\ "WAIT_JOIN" # "WAIT_SYNC" /\ "JoinGroup" \in Waits
    BY DEF JoinStates, Waits
  <2>6. Good(v)
    BY <2>3, <2>4, <2>5, AwaitGood
  <2> HIDE DEF v
  <2>7. Join(s, ver) \in {s, WaitMetadata(t, ver), u, v}
    BY <1>3
  <2>8. QED
    BY <2>2, <2>3, <2>6, <2>7
<1>5. CASE ~(s.join_state = "INIT" /\ s.wait_resp = "none")
  <2>1. Join(s, ver) = s
    BY <1>5 DEF Join
  <2>2. QED
    BY <2>1
<1>6. QED
  BY <1>4, <1>5

LEMMA UnsubscribeGood ==
  ASSUME NEW s, NEW leave, Good(s)
  PROVE  Good(Unsubscribe(s, leave)) /\ Kept(s, Unsubscribe(s, leave))
<1> DEFINE u == SubscriptionSet(s, None)
           on == leave /\ HasJoined(s)
           t == [u EXCEPT !.polltmr = FALSE, !.topics = {}, !.leader = FALSE,
                          !.leave_on = @ \/ on]
<1>1. Good(u) /\ Subscribed(s, u) /\ u.subscription = None
  BY SubscriptionSetGood DEF Lists
<1> HIDE DEF u, on
<1>2. DOMAIN u = Fields /\ SubsOK(u)
  BY <1>1 DEF Good, Sound, Solid
<1>3. SubsOK(t) /\ t.subscription = None
  BY <1>1, <1>2 DEF SubsOK, Fields
<1>4. Subscribed(u, t)
  BY <1>2, <1>3 DEF Subscribed, Fields, SameFlags, SameWire, SameQueues, SameParts, SameView
<1>5. Unsubscribe(s, leave) = IF s.lost THEN t ELSE RevokeAllRejoin(t, FALSE)
  BY DEF Unsubscribe, u, on
<1> HIDE DEF t
<1>6. Good(t) /\ Kept(u, t)
  BY <1>1, <1>4, SubscribedGood
<1>7. Kept(s, t)
  BY <1>1, <1>6 DEF Kept, Subscribed, SameView
<1>8. Good(RevokeAllRejoin(t, FALSE)) /\ Kept(t, RevokeAllRejoin(t, FALSE))
  BY <1>3, <1>6, RevokeAllRejoinGood
<1>9. QED
  BY <1>5, <1>6, <1>7, <1>8 DEF Kept

LEMMA CooperativeAssignor ==
  ASSUME NEW s, Cooperative(s)
  PROVE  s.assignor /\ s.proto = "COOPERATIVE"
BY DEF Cooperative, Protocol

LEMMA ModifySubscriptionGood ==
  ASSUME NEW s, NEW S \in SUBSET Parts, Good(s), s.assignor
  PROVE  Good(ModifySubscription(s, S))
<1> DEFINE revoking == Elems(s.group) \cap (s.topics \ S)
           t == SubscriptionSet(s, S)
           T == TopicFilter(t)
           u == [t EXCEPT !.topics = T]
<1>1. Good(t) /\ Subscribed(s, t) /\ t.subscription = S
  BY SubscriptionSetGood DEF Lists
<1>2. \/ ModifySubscription(s, S) = WaitMetadata(t, "same") /\ s.join_state \in {"INIT", "STEADY"}
      \/ ModifySubscription(s, S) = RebalanceOpIncr(u, "revoke", revoking, TRUE) /\ revoking # {}
      \/ ModifySubscription(s, S) \in {Abort(t), Rejoin(u), u}
  <2> HIDE DEF t, T, u, revoking
  <2>1. ModifySubscription(s, S) =
          IF NeedsMetadata(t)
          THEN IF s.join_state \in {"INIT", "STEADY"} THEN WaitMetadata(t, "same") ELSE Abort(t)
          ELSE IF revoking # {} THEN RebalanceOpIncr(u, "revoke", revoking, TRUE)
          ELSE IF u.topics # s.topics THEN Rejoin(u)
          ELSE u
    BY DEF ModifySubscription, t, T, u, revoking
  <2>2. QED
    BY <2>1
<1> HIDE DEF t
<1>3. T \in SUBSET Parts
  BY <1>1, TopicFilterType DEF Good, Sound, Solid
<1> HIDE DEF T
<1>4. Good(u) /\ Subscribed(t, u)
  BY <1>1, <1>3, TopicsGood
<1> HIDE DEF u
<1>5. u.assignor /\ u.group = s.group /\ t.join_state = s.join_state /\ t.subscription # None
  BY <1>1, <1>4, CgrpSets DEF Subscribed, SameView
<1>6. CASE ModifySubscription(s, S) = WaitMetadata(t, "same") /\ s.join_state \in {"INIT", "STEADY"}
  BY <1>1, <1>5, <1>6, WaitMetadataGood
<1>7. CASE ModifySubscription(s, S) = RebalanceOpIncr(u, "revoke", revoking, TRUE) /\ revoking # {}
  <2>1. /\ revoking \in SUBSET Parts /\ Elems(u.group) # {} /\ revoking \subseteq Elems(u.group)
    <3>1. s.group \in Lists
      BY DEF Good, Sound, Solid, ListsOK
    <3>2. Elems(s.group) \subseteq Parts
      BY <3>1, ElemsType
    <3>3. QED
      BY <1>5, <1>7, <3>2
  <2> HIDE DEF revoking
  <2>2. Good(RebalanceOpIncr(u, "revoke", revoking, TRUE))
    BY <1>4, <1>5, <2>1, RebalanceOpIncrGood
  <2>3. QED
    BY <1>7, <2>2
<1>8. CASE ModifySubscription(s, S) \in {Abort(t), Rejoin(u), u}
  BY <1>1, <1>4, <1>8, AbortGood, RejoinGood
<1>9. QED
  BY <1>2, <1>6, <1>7, <1>8

LEMMA SubscribeGood ==
  ASSUME NEW s, NEW S \in Lists, Good(s)
  PROVE  Good(Subscribe(s, S))
<1> DEFINE t == [s EXCEPT !.next_sub = None, !.next_unsub = FALSE]
           u == IF t.subscription = None THEN t ELSE Unsubscribe(t, S = None)
           w == [t EXCEPT !.next_sub = S, !.next_unsub = (S = None)]
           v == SubscriptionSet(u, S)
<1>1. DOMAIN s = Fields /\ SubsOK(s)
  BY DEF Good, Sound, Solid
<1>2. SubsOK(t)
  BY <1>1 DEF SubsOK, Fields, Lists
<1>3. Subscribed(s, t)
  BY <1>1, <1>2 DEF Subscribed, Fields, SameFlags, SameWire, SameQueues, SameParts, SameView
<1>4. Subscribe(s, S) =
        IF Rebalancing(s) THEN w
        ELSE IF Cooperative(s) /\ S # None /\ s.subscription # None THEN ModifySubscription(t, S)
        ELSE IF S = None THEN u
        ELSE Join(v, "same")
  BY DEF Subscribe
<1> HIDE DEF t
<1>5. Good(t) /\ DOMAIN t = Fields
  BY <1>3, SubscribedGood DEF Subscribed
<1>6. Good(w)
  <2>1. SubsOK(w)
    BY <1>2, <1>5 DEF SubsOK, Fields
  <2>2. Subscribed(t, w)
    BY <1>5, <2>1 DEF Subscribed, Fields, SameFlags, SameWire, SameQueues, SameParts, SameView
  <2> HIDE DEF w
  <2>3. QED
    BY <1>5, <2>2, SubscribedGood
<1>7. Good(u)
  BY <1>5, UnsubscribeGood
<1>8. ASSUME Cooperative(s), S # None PROVE Good(ModifySubscription(t, S))
  <2>1. S \in SUBSET Parts /\ t.assignor
    BY <1>8, <1>3, CooperativeAssignor DEF Lists, Subscribed
  <2>2. QED
    BY <1>5, <2>1, ModifySubscriptionGood
<1> HIDE DEF u, w
<1>9. ASSUME S # None PROVE Good(Join(v, "same"))
  <2>1. Good(v) /\ v.subscription = S
    BY <1>7, SubscriptionSetGood
  <2> HIDE DEF v
  <2>2. QED
    BY <1>9, <2>1, JoinGood
<1> HIDE DEF v
<1>10. QED
  BY <1>4, <1>6, <1>7, <1>8, <1>9

LEMMA ApplyNextSubscribeGood ==
  ASSUME NEW s, Good(s)
  PROVE  Good(ApplyNextSubscribe(s))
<1> DEFINE t == [s EXCEPT !.next_sub = None]
           u == [s EXCEPT !.next_unsub = FALSE]
<1>1. DOMAIN s = Fields /\ SubsOK(s) /\ s.next_sub \in Lists
  BY DEF Good, Sound, Solid, SubsOK
<1>2. SubsOK(t)
  BY <1>1 DEF SubsOK, Fields, Lists
<1>3. Subscribed(s, t)
  BY <1>1, <1>2 DEF Subscribed, Fields, SameFlags, SameWire, SameQueues, SameParts, SameView
<1>4. Good(u)
  BY FlagGood
<1>5. ApplyNextSubscribe(s) \in {Subscribe(t, s.next_sub), Unsubscribe(u, TRUE), s}
  BY DEF ApplyNextSubscribe
<1> HIDE DEF t, u
<1>6. Good(t)
  BY <1>3, SubscribedGood
<1>7. QED
  BY <1>1, <1>4, <1>5, <1>6, SubscribeGood, UnsubscribeGood

LEMMA MetadataUpdateCheckGood ==
  ASSUME NEW s, Good(s)
  PROVE  Good(MetadataUpdateCheck(s))
<1> DEFINE T == TopicFilter(s)
           mid == Changing(s) /\ s.topics # T
           t == [s EXCEPT !.topics = T, !.midway = @ \/ mid]
           gone == Elems(s.group) \ t.topics
           l == SetLost(t)
           n == [t EXCEPT !.leader = FALSE]
           u == IF Cooperative(s)
                THEN IF gone # {} THEN RebalanceOpIncr(l, "revoke", gone, s.leader) ELSE Rejoin(t)
                ELSE RevokeAllRejoin(n, FALSE)
<1>1. DOMAIN s = Fields /\ SubsOK(s) /\ s.group \in Lists
  BY DEF Good, Sound, Solid, ListsOK
<1>2. T \in SUBSET Parts
  BY <1>1, TopicFilterType
<1>3. MetadataUpdateCheck(s) =
        IF Elems(s.subscription) = {} THEN s
        ELSE IF t.topics = s.topics /\ s.join_state # "WAIT_METADATA" THEN t
        ELSE Check(u, u.join_state # "WAIT_METADATA")
  BY DEF MetadataUpdateCheck
<1> HIDE DEF T, mid
<1>4. SubsOK(t) /\ SubsOK(n)
  BY <1>1, <1>2 DEF SubsOK, Fields
<1>5. Subscribed(s, t)
  BY <1>1, <1>4 DEF Subscribed, Fields, SameFlags, SameWire, SameQueues, SameParts, SameView
<1>6. Subscribed(s, n)
  BY <1>1, <1>4 DEF Subscribed, Fields, SameFlags, SameWire, SameQueues, SameParts, SameView
<1> HIDE DEF t, n
<1>7. Good(t) /\ Good(n) /\ Good(l) /\ Alike(t, l)
  BY <1>5, <1>6, SubscribedGood, LostGood
<1> HIDE DEF l
<1>8. Good(u) /\ u.join_state # "WAIT_METADATA"
  <2>1. CASE Cooperative(s) /\ gone # {}
    <3>1. gone \in SUBSET Parts /\ Elems(l.group) # {} /\ gone \subseteq Elems(l.group) /\ l.assignor
      <4>1. l.group = s.group /\ l.assignor = s.assignor
        BY <1>5, <1>7 DEF Alike, SameView, SameJoin, Subscribed
      <4>2. Elems(s.group) \subseteq Parts /\ s.assignor
        BY <1>1, <2>1, ElemsType, CooperativeAssignor
      <4>3. QED
        BY <2>1, <4>1, <4>2
    <3> HIDE DEF gone
    <3>2. Good(RebalanceOpIncr(l, "revoke", gone, s.leader))
          /\ RebalanceOpIncr(l, "revoke", gone, s.leader).join_state
               \in {"WAIT_ASSIGN_CALL", "WAIT_UNASSIGN_CALL"}
      BY <1>7, <3>1, RebalanceOpIncrGood
    <3>3. u = RebalanceOpIncr(l, "revoke", gone, s.leader)
      BY <2>1
    <3> HIDE DEF u
    <3>4. QED
      BY <3>2, <3>3
  <2>2. CASE Cooperative(s) /\ ~(gone # {})
    <3>1. u = Rejoin(t)
      BY <2>2
    <3> HIDE DEF u
    <3>2. QED
      BY <1>7, <3>1, RejoinGood
  <2>3. CASE ~Cooperative(s)
    <3>1. u = RevokeAllRejoin(n, FALSE)
      BY <2>3
    <3>2. ~Cooperative(n)
      BY <1>6, <2>3 DEF Cooperative, Protocol, Subscribed, SameView
    <3> HIDE DEF u
    <3>3. Good(RevokeAllRejoin(n, FALSE)) /\ RevokeAllRejoin(n, FALSE).join_state # "WAIT_METADATA"
      BY <1>7, <3>2, RevokeAllRejoinGood
    <3>4. QED
      BY <3>1, <3>3
  <2>4. QED
    BY <2>1, <2>2, <2>3
<1> HIDE DEF u
<1>9. Good(Check(u, u.join_state # "WAIT_METADATA"))
  <2> DEFINE cond == u.join_state # "WAIT_METADATA"
  <2>1. cond
    BY <1>8
  <2> HIDE DEF cond
  <2>2. Good(Check(u, cond))
    BY <1>8, <2>1, CheckGood
  <2>3. QED
    BY <2>2 DEF cond
<1>10. QED
  BY <1>3, <1>7, <1>9

-----------------------------------------------------------------------------
(* The replies of the coordinator. *)

\* A reply that no request outstanding needs is no longer awaited.
LEMMA FreedWire ==
  ASSUME NEW p, NEW q, NEW wait, NEW hb, NEW wait1, NEW hb1, Wire(p, q, wait, hb),
         wait1 = wait \/ Free(p, q, Waits), hb1 = hb \/ Free(p, q, {"Heartbeat"})
  PROVE  Wire(p, q, wait1, hb1)
BY DEF Wire, Free

\* The reply r is being handled: it is the only one of its kind.
Answered(s, r) ==
  /\ Good(s) /\ r \in Replies
  /\ r.req.api \in Waits => s.wait_resp = r.req.api /\ Free(s.resp, s.net, Waits)
  /\ r.req.api = "Heartbeat" => s.hb /\ Free(s.resp, s.net, {"Heartbeat"})

LEMMA ClearWaitRespGood ==
  ASSUME NEW s, NEW api, Good(s), s.wait_resp = api, Free(s.resp, s.net, Waits)
  PROVE  /\ Good(ClearWaitResp(s, api)) /\ Kept(s, ClearWaitResp(s, api))
         /\ SameJoin(s, ClearWaitResp(s, api)) /\ ClearWaitResp(s, api).group = s.group
         /\ ClearWaitResp(s, api).wait_resp = "none"
<1> DEFINE cond == s.wait_resp = api
           u == Check(s, cond)
           t == [u EXCEPT !.wait_resp = "none"]
<1>1. cond
  OBVIOUS
<1>2. ClearWaitResp(s, api) = t
  BY DEF ClearWaitResp
<1> HIDE DEF cond
<1>3. Good(u) /\ Alike(s, u)
  BY <1>1, CheckGood
<1> HIDE DEF u
<1>4. DOMAIN u = Fields /\ JoinOK(u) /\ SubsOK(u) /\ ListsOK(u) /\ WireOK(u)
  BY <1>3 DEF Good, Sound, Solid
<1>5. /\ DOMAIN t = Fields /\ SameFlags(u, t) /\ SameQueues(u, t) /\ SameParts(u, t)
      /\ SameView(u, t) /\ SameJoin(u, t)
      /\ t.net = u.net /\ t.resp = u.resp /\ t.hb = u.hb /\ t.wait_resp = "none"
  BY <1>4 DEF Fields, SameFlags, SameQueues, SameParts, SameView, SameJoin
<1> HIDE DEF t
<1>6. WireOK(t)
  <2>1. Wire(u.resp, u.net, u.wait_resp, u.hb) /\ Free(u.resp, u.net, Waits)
    BY <1>3, <1>4 DEF WireOK, Alike, SameWire
  <2>2. Wire(u.resp, u.net, "none", u.hb)
    BY <2>1, FreedWire
  <2>3. QED
    BY <1>5, <2>2 DEF WireOK
<1>7. JoinOK(t) /\ SubsOK(t) /\ ListsOK(t)
  BY <1>4, <1>5 DEF JoinOK, SubsOK, ListsOK, SameJoin, SameView
<1>8. Good(t)
  BY <1>3, <1>5, <1>6, <1>7, WireFrame DEF SameJoin
<1>9. Kept(s, t) /\ SameJoin(s, t) /\ t.group = s.group
  BY <1>3, <1>5 DEF Kept, Alike, SameJoin, SameView
<1>10. QED
  BY <1>2, <1>5, <1>8, <1>9

\* Only the member id, the generation and the like have changed.
LEMMA MemberGood ==
  ASSUME NEW s, NEW t, NEW m \in Members, NEW g \in Gens, Good(s),
         t = [s EXCEPT !.member = m, !.gen = g]
  PROVE  /\ Good(t) /\ Kept(s, t) /\ SameWire(s, t)
         /\ t.join_state = s.join_state /\ t.group = s.group
<1>1. DOMAIN s = Fields
  BY DEF Good, Sound, Solid
<1>2. /\ DOMAIN t = Fields /\ SameFlags(s, t) /\ SameWire(s, t) /\ SameQueues(s, t)
      /\ SameParts(s, t) /\ SameView(s, t) /\ t.state = s.state
      /\ t.join_state = s.join_state /\ t.group = s.group /\ t.assignor = s.assignor
  BY <1>1 DEF Fields, SameFlags, SameWire, SameQueues, SameParts, SameView
<1>3. JoinOK(t) /\ SubsOK(t) /\ ListsOK(t)
  BY <1>1 DEF Good, Sound, Solid, JoinOK, SubsOK, ListsOK, Fields
<1>4. Good(t)
  BY <1>2, <1>3, JoinFrame
<1>5. QED
  BY <1>2, <1>4 DEF Kept, SameView

LEMMA UnknownGood ==
  ASSUME NEW s, NEW err, Good(s)
  PROVE  Good(Unknown(s, err)) /\ Kept(s, Unknown(s, err))
<1> DEFINE m == IF err = "UNKNOWN_MEMBER_ID" THEN "none" ELSE s.member
           g == IF err = "ILLEGAL_GENERATION" THEN "none" ELSE s.gen
           t == Unknown(s, err)
<1>1. DOMAIN s = Fields /\ m \in Members /\ g \in Gens
  BY DEF Good, Sound, Solid, JoinOK, Members, Gens
<1>2. t = [s EXCEPT !.member = m, !.gen = g]
  BY <1>1 DEF Unknown, Fields
<1> HIDE DEF m, g, t
<1>3. Good(t) /\ Kept(s, t)
  BY <1>1, <1>2, MemberGood
<1>4. QED
  BY <1>3 DEF t

LEMMA SyncGroupGood ==
  ASSUME NEW s, Good(s), s.wait_resp = "none", s.assignor
  PROVE  Good(SyncGroup(s))
<1> DEFINE u == [s EXCEPT !.join_state = "WAIT_SYNC"]
           t == SetWaitResp(u, "SyncGroup")
           req == Request("SyncGroup", s)
<1>1. DOMAIN s = Fields
  BY DEF Good, Sound, Solid
<1>2. t.member = s.member /\ t.gen = s.gen
  BY <1>1 DEF SetWaitResp, Check, Fields
<1> HIDE DEF t
<1>3. Request("SyncGroup", t) = req
  BY <1>2 DEF Request
<1>4. SyncGroup(s) = Send(SetWaitResp([s EXCEPT !.join_state = "WAIT_SYNC"], "SyncGroup"), req)
  BY <1>3 DEF SyncGroup, t
<1>5. req \in Requests /\ req.api = "SyncGroup"
  BY RequestType DEF Apis, Waits, Good, Sound, Solid
<1> HIDE DEF req
<1>6. "WAIT_SYNC" \in JoinStates /\ "SyncGroup" \in Waits
  BY DEF JoinStates, Waits
<1>7. QED
  BY <1>4, <1>5, <1>6, AwaitGood

LEMMA JoinedGood ==
  ASSUME NEW s, NEW r \in Replies, Good(s), s.wait_resp = "none"
  PROVE  Good(Joined(s, r))
<1> DEFINE t == [s EXCEPT !.member = r.member, !.gen = r.gen, !.assignor = TRUE]
           u == [t EXCEPT !.leader = TRUE, !.join_state = "WAIT_METADATA", !.assigning = TRUE,
                          !.asgn = @ + 1]
<1>1. DOMAIN s = Fields /\ r.member \in Members /\ r.gen \in Gens
  BY DEF Good, Sound, Solid, Replies
<1>2. /\ DOMAIN t = Fields /\ SameFlags(s, t) /\ SameWire(s, t) /\ SameQueues(s, t)
      /\ SameParts(s, t) /\ SameView(s, t) /\ t.state = s.state /\ t.assignor
  BY <1>1 DEF Fields, SameFlags, SameWire, SameQueues, SameParts, SameView
<1>3. JoinOK(t) /\ SubsOK(t) /\ ListsOK(t)
  BY <1>1 DEF Good, Sound, Solid, JoinOK, SubsOK, ListsOK, Fields
<1> HIDE DEF t
<1>4. Good(t)
  BY <1>2, <1>3, JoinFrame
<1>5. Good(u)
  <2>1. /\ DOMAIN u = Fields /\ SameFlags(t, u) /\ SameWire(t, u) /\ SameQueues(t, u)
        /\ SameParts(t, u) /\ SameView(t, u) /\ u.state = t.state
    BY <1>2 DEF Fields, SameFlags, SameWire, SameQueues, SameParts, SameView
  <2>2. JoinOK(u) /\ SubsOK(u) /\ ListsOK(u)
    BY <1>2, <1>3 DEF JoinOK, SubsOK, ListsOK, Fields, JoinStates
  <2> HIDE DEF u
  <2>3. QED
    BY <1>4, <2>1, <2>2, JoinFrame
<1>6. Good(SyncGroup(t))
  BY <1>2, <1>4, SyncGroupGood DEF SameWire
<1>7. Joined(s, r) \in {u, SyncGroup(t)}
  BY DEF Joined, t
<1>8. QED
  BY <1>5, <1>6, <1>7

LEMMA HandleJoinGroupGood ==
  ASSUME NEW s, NEW r, Answered(s, r), r.req.api = "JoinGroup"
  PROVE  Good(HandleJoinGroup(s, r))
<1> DEFINE t == ClearWaitResp(s, "JoinGroup")
           w == [t EXCEPT !.member = r.member]
           u == IF r.err = "MEMBER_ID_REQUIRED" THEN w ELSE Unknown(t, r.err)
<1>1. Good(s) /\ s.wait_resp = "JoinGroup" /\ Free(s.resp, s.net, Waits)
  BY DEF Answered, Waits
<1>2. Good(t) /\ t.wait_resp = "none"
  BY <1>1, ClearWaitRespGood
<1>3. HandleJoinGroup(s, r) \in {t, Joined(t, r), RevokeAllRejoin(u, TRUE), Rejoin(u)}
  BY DEF HandleJoinGroup
<1> HIDE DEF t
<1>4. Good(w)
  <2>1. DOMAIN t = Fields /\ t.gen \in Gens /\ r.member \in Members
    BY <1>2 DEF Good, Sound, Solid, JoinOK, Answered, Replies
  <2>2. w = [t EXCEPT !.member = r.member, !.gen = t.gen]
    BY <2>1 DEF Fields
  <2> HIDE DEF w
  <2>3. QED
    BY <1>2, <2>1, <2>2, MemberGood
<1> HIDE DEF w
<1>5. Good(u)
  BY <1>2, <1>4, UnknownGood
<1> HIDE DEF u
<1>6. Good(Joined(t, r))
  BY <1>2, JoinedGood DEF Answered
<1>7. Good(RevokeAllRejoin(u, TRUE)) /\ Good(Rejoin(u))
  BY <1>5, RevokeAllRejoinGood, RejoinGood
<1>8. QED
  BY <1>2, <1>3, <1>6, <1>7

LEMMA HandleAssignorMetadataGood ==
  ASSUME NEW s, Good(s)
  PROVE  Good(HandleAssignorMetadata(s))
<1> DEFINE t == [s EXCEPT !.outdated = @ \/ ~s.assigning]
<1>1. DOMAIN s = Fields /\ ListsOK(s)
  BY DEF Good, Sound, Solid
<1>2. Good(t) /\ Alike(s, t)
  <2> DEFINE b == s.outdated \/ ~s.assigning
  <2>1. t = [s EXCEPT !.outdated = b]
    BY <1>1 DEF Fields
  <2> HIDE DEF b, t
  <2>2. QED
    BY <2>1, FlagGood
<1>3. CASE s.join_state = "WAIT_METADATA" /\ s.leader /\ s.wait_resp = "none"
  <2>1. HandleAssignorMetadata(s) = SyncGroup(t)
    BY <1>3 DEF HandleAssignorMetadata
  <2> HIDE DEF t
  <2>2. t.assignor /\ t.wait_resp = "none"
    BY <1>1, <1>2, <1>3 DEF ListsOK, Alike, SameJoin, SameWire
  <2>3. QED
    BY <1>2, <2>1, <2>2, SyncGroupGood
<1>4. CASE ~(s.join_state = "WAIT_METADATA" /\ s.leader /\ s.wait_resp = "none")
  <2>1. HandleAssignorMetadata(s) \in {s, Abort(s)}
    BY <1>4 DEF HandleAssignorMetadata
  <2>2. QED
    BY <2>1, AbortGood
<1>5. QED
  BY <1>3, <1>4

LEMMA HandleAssignmentGood ==
  ASSUME NEW s, NEW P \in SUBSET Parts, Good(s), s.assignor
  PROVE  Good(HandleAssignment(s, P))
<1> DEFINE G == Elems(s.group)
           revoked == G \ P
           added == P \ G
           t == [s EXCEPT !.incr = added]
<1>1. DOMAIN s = Fields /\ s.group \in Lists /\ s.proto \in {"EAGER", "COOPERATIVE"}
  BY DEF Good, Sound, Solid, JoinOK, ListsOK
<1>2. revoked \in SUBSET Parts /\ added \in SUBSET Parts /\ revoked \subseteq G /\ added \cap G = {}
  BY <1>1, ElemsType
<1>3. CASE ~Cooperative(s)
  <2>1. s.proto = "EAGER"
    BY <1>1, <1>3 DEF Cooperative, Protocol
  <2>2. HandleAssignment(s, P) = RebalanceOp(s, "assign", P)
    BY <1>3 DEF HandleAssignment
  <2>3. QED
    BY <2>1, <2>2, RebalanceOpGood
<1>4. CASE Cooperative(s) /\ revoked # {}
  <2>1. HandleAssignment(s, P) = RebalanceOpIncr(t, "revoke", revoked, FALSE)
    BY <1>4 DEF HandleAssignment
  <2> HIDE DEF added
  <2>2. /\ DOMAIN t = Fields /\ SameFlags(s, t) /\ SameWire(s, t) /\ SameQueues(s, t)
        /\ SameParts(s, t) /\ SameView(s, t) /\ t.state = s.state /\ t.assignor
    BY <1>1 DEF Fields, SameFlags, SameWire, SameQueues, SameParts, SameView
  <2>3. JoinOK(t) /\ SubsOK(t) /\ ListsOK(t)
    BY <1>1, <1>2 DEF Good, Sound, Solid, JoinOK, SubsOK, ListsOK, Fields, Lists
  <2> HIDE DEF t
  <2>4. Good(t)
    BY <2>2, <2>3, JoinFrame
  <2>5. Elems(t.group) = G /\ G # {}
    BY <1>2, <1>4, <2>2 DEF SameView
  <2> HIDE DEF G, revoked
  <2>6. Good(RebalanceOpIncr(t, "revoke", revoked, FALSE))
    BY <1>2, <2>2, <2>4, <2>5, RebalanceOpIncrGood
  <2>7. QED
    BY <2>1, <2>6
<1>5. CASE Cooperative(s) /\ ~(revoked # {})
  <2>1. HandleAssignment(s, P) = RebalanceOpIncr(s, "assign", added, FALSE)
    BY <1>5 DEF HandleAssignment
  <2>2. added \cap Elems(s.group) = {}
    BY <1>2
  <2> HIDE DEF added, G
  <2>3. Good(RebalanceOpIncr(s, "assign", added, FALSE))
    BY <1>2, <2>2, RebalanceOpIncrGood
  <2>4. QED
    BY <2>1, <2>3
<1>6. QED
  BY <1>3, <1>4, <1>5

LEMMA HandleSyncGroupGood ==
  ASSUME NEW s, NEW r, Answered(s, r), r.req.api = "SyncGroup"
  PROVE  Good(HandleSyncGroup(s, r))
<1> DEFINE t == ClearWaitResp(s, "SyncGroup")
           u == Unknown(t, r.err)
           v == [t EXCEPT !.session = TRUE]
           req == r.req
           w == [s EXCEPT !.net = Append(@, req)]
<1>1. /\ Good(s) /\ s.wait_resp = "SyncGroup" /\ Free(s.resp, s.net, Waits)
      /\ req \in Requests /\ req.api = "SyncGroup" /\ r.parts \in SUBSET Parts
  BY DEF Answered, Waits, Replies
<1>2. Good(t) /\ SameJoin(s, t)
  BY <1>1, ClearWaitRespGood
<1>3. CASE s.join_state # "WAIT_SYNC"
  <2>1. HandleSyncGroup(s, r) = t
    BY <1>3 DEF HandleSyncGroup
  <2>2. QED
    BY <1>2, <2>1
<1>4. CASE s.join_state = "WAIT_SYNC"
  <2>1. HandleSyncGroup(s, r) \in {w, HandleAssignment(v, r.parts), RevokeAllRejoin(u, TRUE), Rejoin(u)}
    BY <1>4 DEF HandleSyncGroup, Send
  <2> HIDE DEF t, req
  <2>2. Good(v) /\ v.assignor
    <3>1. Good(v) /\ Alike(t, v)
      BY <1>2, FlagGood
    <3>2. s.assignor
      BY <1>1, <1>4 DEF Good, Sound, Solid, ListsOK
    <3>3. QED
      BY <1>2, <3>1, <3>2 DEF Alike, SameJoin
  <2> HIDE DEF v
  <2>3. Good(HandleAssignment(v, r.parts))
    BY <1>1, <2>2, HandleAssignmentGood
  <2>4. Good(u)
    BY <1>2, UnknownGood
  <2> HIDE DEF u
  <2>5. Good(RevokeAllRejoin(u, TRUE)) /\ Good(Rejoin(u))
    BY <2>4, RevokeAllRejoinGood, RejoinGood
  <2>6. Good(w)
    <3>1. DOMAIN s = Fields /\ JoinOK(s) /\ SubsOK(s) /\ ListsOK(s)
          /\ Wire(s.resp, s.net, s.wait_resp, s.hb)
      BY <1>1 DEF Good, Sound, Solid, WireOK
    <3>2. /\ DOMAIN w = Fields /\ SameFlags(s, w) /\ SameQueues(s, w) /\ SameParts(s, w)
          /\ SameView(s, w) /\ SameJoin(s, w)
          /\ w.net = Append(s.net, req) /\ w.resp = s.resp /\ w.wait_resp = s.wait_resp
          /\ w.hb = s.hb
      BY <3>1 DEF Fields, SameFlags, SameQueues, SameParts, SameView, SameJoin
    <3> HIDE DEF w
    <3>3. req.api # "Heartbeat" /\ req.api \in Waits
      BY <1>1 DEF Waits
    <3>4. Wire(s.resp, Append(s.net, req), s.wait_resp, s.hb)
      BY <1>1, <3>1, <3>3, SendWire
    <3>5. WireOK(w)
      BY <3>2, <3>4 DEF WireOK
    <3>6. JoinOK(w) /\ SubsOK(w) /\ ListsOK(w)
      BY <3>1, <3>2 DEF JoinOK, SubsOK, ListsOK, SameJoin, SameView
    <3>7. QED
      BY <1>1, <3>2, <3>5, <3>6, WireFrame DEF SameJoin
  <2> HIDE DEF w
  <2>7. QED
    BY <2>1, <2>3, <2>5, <2>6
<1>5. QED
  BY <1>3, <1>4

LEMMA HandleHeartbeatGood ==
  ASSUME NEW s, NEW r, Answered(s, r), r.req.api = "Heartbeat"
  PROVE  Good(HandleHeartbeat(s, r))
<1> DEFINE v == Check(s, s.hb)
           t == [v EXCEPT !.hb = FALSE]
<1>1. Good(s) /\ s.hb /\ Free(s.resp, s.net, {"Heartbeat"})
  BY DEF Answered
<1>2. Good(v) /\ Alike(s, v)
  BY <1>1, CheckGood
<1>3. HandleHeartbeat(s, r) \in {t, GroupIsRebalancing(t), RevokeAllRejoinMaybe(Unknown(t, r.err), TRUE)}
  BY DEF HandleHeartbeat
<1> HIDE DEF v
<1>4. DOMAIN v = Fields /\ JoinOK(v) /\ SubsOK(v) /\ ListsOK(v) /\ WireOK(v)
  BY <1>2 DEF Good, Sound, Solid
<1>5. /\ DOMAIN t = Fields /\ SameFlags(v, t) /\ SameQueues(v, t) /\ SameParts(v, t)
      /\ SameView(v, t) /\ SameJoin(v, t)
      /\ t.net = v.net /\ t.resp = v.resp /\ t.hb = FALSE /\ t.wait_resp = v.wait_resp
  BY <1>4 DEF Fields, SameFlags, SameQueues, SameParts, SameView, SameJoin
<1> HIDE DEF t
<1>6. WireOK(t)
  <2>1. Wire(v.resp, v.net, v.wait_resp, v.hb) /\ Free(v.resp, v.net, {"Heartbeat"})
    BY <1>1, <1>2, <1>4 DEF WireOK, Alike, SameWire
  <2>2. Wire(v.resp, v.net, v.wait_resp, FALSE)
    BY <2>1, FreedWire
  <2>3. QED
    BY <1>5, <2>2 DEF WireOK
<1>7. JoinOK(t) /\ SubsOK(t) /\ ListsOK(t)
  BY <1>4, <1>5 DEF JoinOK, SubsOK, ListsOK, SameJoin, SameView
<1>8. Good(t)
  BY <1>2, <1>5, <1>6, <1>7, WireFrame DEF SameJoin
<1>9. Good(Unknown(t, r.err))
  BY <1>8, UnknownGood
<1>10. QED
  BY <1>3, <1>8, <1>9, GroupIsRebalancingGood, RevokeAllRejoinMaybeGood

LEMMA HandleGood ==
  ASSUME NEW s, NEW r, Answered(s, r)
  PROVE  Good(Handle(s, r))
<1>1. Good(s) /\ r.req.api \in {"JoinGroup", "SyncGroup", "Heartbeat", "LeaveGroup"}
  BY DEF Answered, Replies, Requests, Apis, Waits
<1>2. CASE r.req.api = "JoinGroup"
  <2>1. Handle(s, r) = HandleJoinGroup(s, r)
    BY <1>2 DEF Handle
  <2>2. QED
    BY <1>2, <2>1, HandleJoinGroupGood
<1>3. CASE r.req.api = "SyncGroup"
  <2>1. Handle(s, r) = HandleSyncGroup(s, r)
    BY <1>3 DEF Handle
  <2>2. QED
    BY <1>3, <2>1, HandleSyncGroupGood
<1>4. CASE r.req.api = "Heartbeat"
  <2>1. Handle(s, r) = HandleHeartbeat(s, r)
    BY <1>4 DEF Handle
  <2>2. QED
    BY <1>4, <2>1, HandleHeartbeatGood
<1>5. CASE r.req.api = "LeaveGroup"
  <2>1. Handle(s, r) = HandleLeaveGroup(s)
    BY <1>5 DEF Handle
  <2>2. QED
    BY <1>1, <2>1, HandleLeaveGroupGood
<1>6. QED
  BY <1>1, <1>2, <1>3, <1>4, <1>5

-----------------------------------------------------------------------------
(* Serving the group. *)

LEMMA HeartbeatGood ==
  ASSUME NEW s, Good(s)
  PROVE  Good(Heartbeat(s))
<1> DEFINE u == [s EXCEPT !.hb = TRUE]
           req == Request("Heartbeat", s)
           n == Append(s.net, req)
           t == [u EXCEPT !.net = n]
<1>1. DOMAIN s = Fields /\ JoinOK(s) /\ SubsOK(s) /\ ListsOK(s)
      /\ Wire(s.resp, s.net, s.wait_resp, s.hb)
  BY DEF Good, Sound, Solid, WireOK
<1>2. CASE ~s.poll_exceeded /\ ~s.hb
  <2>1. Heartbeat(s) = t
    BY <1>1, <1>2 DEF Heartbeat, Send, Fields
  <2>2. req \in Requests /\ req.api = "Heartbeat"
    BY <1>1, RequestType DEF Apis
  <2> HIDE DEF req
  <2>3. /\ DOMAIN t = Fields /\ SameFlags(s, t) /\ SameQueues(s, t) /\ SameParts(s, t)
        /\ SameView(s, t) /\ SameJoin(s, t)
        /\ t.net = n /\ t.resp = s.resp /\ t.wait_resp = s.wait_resp /\ t.hb = TRUE
    BY <1>1 DEF Fields, SameFlags, SameQueues, SameParts, SameView, SameJoin
  <2> HIDE DEF t
  <2>4. Free(s.resp, s.net, {"Heartbeat"})
    BY <1>1, <1>2 DEF Wire, Free
  <2>5. req.api \notin Waits
    BY <2>2 DEF Waits
  <2>6. Wire(s.resp, n, s.wait_resp, TRUE)
    BY <1>1, <2>2, <2>4, <2>5, SendWire
  <2>7. WireOK(t)
    BY <2>3, <2>6 DEF WireOK
  <2>8. JoinOK(t) /\ SubsOK(t) /\ ListsOK(t)
    BY <1>1, <2>3 DEF JoinOK, SubsOK, ListsOK, SameJoin, SameView
  <2>9. Good(t)
    BY <2>3, <2>7, <2>8, WireFrame DEF SameJoin
  <2>10. QED
    BY <2>1, <2>9
<1>3. CASE s.poll_exceeded \/ s.hb
  <2>1. Heartbeat(s) = s
    BY <1>3 DEF Heartbeat
  <2>2. QED
    BY <2>1
<1>4. QED
  BY <1>2, <1>3

LEMMA JoinStateServeGood ==
  ASSUME NEW s, Good(s)
  PROVE  Good(JoinStateServe(s))
<1> DEFINE t == ApplyNextSubscribe(s)
           u == IF t.subscription = None THEN t ELSE Join(t, "any")
<1>1. Good(t)
  BY ApplyNextSubscribeGood
<1> HIDE DEF t
<1>2. Good(u)
  BY <1>1, JoinGood
<1> HIDE DEF u
<1>3. JoinStateServe(s) =
        CASE s.join_state = "INIT" /\ s.wait_resp = "none" -> u
          [] s.join_state \in {"STEADY", "WAIT_ASSIGN_CALL", "WAIT_UNASSIGN_CALL"}
               /\ s.subscription # None -> Heartbeat(s)
          [] OTHER -> s
  BY DEF JoinStateServe, t, u
<1>4. JoinStateServe(s) \in {u, Heartbeat(s), s}
  BY <1>3
<1>5. QED
  BY <1>2, <1>4, HeartbeatGood

\* f takes the requests outstanding with p1 and q1 to those with p and q.
Embeds(f, p1, q1, p, q) ==
  /\ f \in [1 .. Outstanding(p1, q1) -> 1 .. Outstanding(p, q)]
  /\ \A i, j \in 1 .. Outstanding(p1, q1) : f[i] = f[j] => i = j
  /\ \A i \in 1 .. Outstanding(p1, q1) : Api(p1, q1, i) = Api(p, q, f[i])

LEMMA SubWire ==
  ASSUME NEW p, NEW q, NEW wait, NEW hb, Wire(p, q, wait, hb),
         NEW p1 \in Seq(Replies), NEW q1 \in Seq(Requests), NEW f, Embeds(f, p1, q1, p, q)
  PROVE  Wire(p1, q1, wait, hb)
<1> DEFINE n == Outstanding(p1, q1)
           m == Outstanding(p, q)
<1>1. /\ \A i \in 1 .. n : f[i] \in 1 .. m
      /\ \A i, j \in 1 .. n : f[i] = f[j] => i = j
      /\ \A i \in 1 .. n : Api(p1, q1, i) = Api(p, q, f[i])
  BY DEF Embeds
<1>2. \A i \in 1 .. m : (Api(p, q, i) \in Waits => wait = Api(p, q, i))
                        /\ (Api(p, q, i) = "Heartbeat" => hb)
  BY DEF Wire
<1>3. \A i, j \in 1 .. m : /\ Api(p, q, i) \in Waits /\ Api(p, q, j) \in Waits => i = j
                           /\ Api(p, q, i) = "Heartbeat" /\ Api(p, q, j) = "Heartbeat" => i = j
  BY DEF Wire
<1> HIDE DEF m
<1>4. \A i \in 1 .. n : (Api(p1, q1, i) \in Waits => wait = Api(p1, q1, i))
                        /\ (Api(p1, q1, i) = "Heartbeat" => hb)
  BY <1>1, <1>2
<1>5. \A i, j \in 1 .. n :
         /\ Api(p1, q1, i) \in Waits /\ Api(p1, q1, j) \in Waits => i = j
         /\ Api(p1, q1, i) = "Heartbeat" /\ Api(p1, q1, j) = "Heartbeat" => i = j
  BY <1>1, <1>3
<1>6. QED
  BY <1>4, <1>5 DEF Wire

LEMMA NoReplies ==
  ASSUME NEW p, NEW q, NEW wait, NEW hb, Wire(p, q, wait, hb),
         NEW e, e = <<>>
  PROVE  Wire(e, q, wait, hb)
<1> DEFINE f == [i \in 1 .. Outstanding(e, q) |-> i + Len(p)]
           n == Len(q)
           m == Len(p)
<1>1. p \in Seq(Replies) /\ q \in Seq(Requests) /\ e \in Seq(Replies) /\ Len(e) = 0
  BY DEF Wire
<1>2. n \in Nat /\ m \in Nat
  BY <1>1
<1>3. Outstanding(e, q) = n /\ Outstanding(p, q) = m + n
  BY <1>1, <1>2 DEF Outstanding
<1>4. \A i \in 1 .. n : f[i] = i + m
  BY <1>3
<1>5. \A i \in 1 .. n : Api(e, q, i) = q[i].api /\ Api(p, q, i + m) = q[i].api
  <2>1. SUFFICES ASSUME NEW i \in 1 .. n
                 PROVE  Api(e, q, i) = q[i].api /\ Api(p, q, i + m) = q[i].api
    OBVIOUS
  <2>2. ~(i <= 0) /\ i - 0 = i /\ ~(i + m <= m) /\ (i + m) - m = i
    BY <1>2
  <2>3. QED
    BY <1>1, <2>2 DEF Api
<1> HIDE DEF n, m
<1>6. f \in [1 .. Outstanding(e, q) -> 1 .. Outstanding(p, q)]
  BY <1>2, <1>3 DEF m
<1> HIDE DEF f
<1>7. \A i, j \in 1 .. Outstanding(e, q) : f[i] = f[j] => i = j
  BY <1>2, <1>3, <1>4
<1>8. \A i \in 1 .. Outstanding(e, q) : Api(e, q, i) = Api(p, q, f[i])
  BY <1>3, <1>4, <1>5
<1>9. Embeds(f, e, q, p, q)
  BY <1>6, <1>7, <1>8 DEF Embeds
<1>10. QED
  BY <1>1, <1>9, SubWire

LEMMA TerminatedGood ==
  ASSUME NEW s, Good(s), s.state = "TERM"
  PROVE  Good(Terminated(s))
<1> DEFINE cond == ~InProgress(s)
           u == Check(s, cond)
           t == [u EXCEPT !.terminated = TRUE, !.group = None, !.busy = FALSE,
                          !.ops = <<>>, !.resp = <<>>, !.appq = <<>>, !.meta = {}, !.asgn = 0]
<1>1. Terminated(s) = t
  BY DEF Terminated
<1>2. cond /\ s.terminate
  BY DEF Good, Sound, Solid, TermOK, InProgress
<1> HIDE DEF cond
<1>3. Good(u) /\ Alike(s, u)
  BY <1>2, CheckGood
<1> HIDE DEF u
<1>4. Solid(u) /\ DOMAIN u = Fields /\ u.terminate
  BY <1>2, <1>3 DEF Good, Sound, Solid, Alike, SameView
<1>5. /\ DOMAIN t = Fields /\ SameFlags(u, t) /\ SameParts(u, t)
      /\ t.resp = <<>> /\ t.net = u.net /\ t.wait_resp = u.wait_resp /\ t.hb = u.hb
      /\ t.ops = <<>> /\ t.appq = <<>> /\ t.terminate = u.terminate /\ t.state = u.state
  BY <1>4 DEF Fields, SameFlags, SameParts
<1>6. JoinOK(t) /\ SubsOK(t) /\ ListsOK(t)
  BY <1>4 DEF Solid, JoinOK, SubsOK, ListsOK, Fields, Lists
<1> HIDE DEF t
<1>7. WireOK(t)
  <2>1. Wire(u.resp, u.net, u.wait_resp, u.hb)
    BY <1>4 DEF Solid, WireOK
  <2>2. Wire(<<>>, u.net, u.wait_resp, u.hb)
    BY <2>1, NoReplies
  <2>3. QED
    BY <1>5, <2>2 DEF WireOK
<1>8. QueuesOK(t)
  BY <1>5 DEF QueuesOK
<1>9. AssignmentOK(t) /\ TermOK(t)
  BY <1>4, <1>5, SamePartsOK DEF Solid, TermOK, SameParts
<1>10. ViewOK(t)
  BY <1>4, <1>5 DEF ViewOK
<1>11. QED
  BY <1>1, <1>4, <1>5, <1>6, <1>7, <1>8, <1>9, <1>10 DEF Good, Sound, Solid, SameFlags

LEMMA Terminate0Sound ==
  ASSUME NEW s, Good(s)
  PROVE  Sound(Terminate0(s))
<1> DEFINE t == [s EXCEPT !.terminate = TRUE]
           u == IF t.subscription # None THEN Unsubscribe(t, TRUE) ELSE t
<1>1. Solid(s) /\ DOMAIN s = Fields
  BY DEF Good, Sound, Solid
<1>2. /\ DOMAIN t = Fields /\ SameFlags(s, t) /\ SameWire(s, t) /\ SameQueues(s, t)
      /\ SameParts(s, t) /\ t.terminate /\ t.state = s.state
  BY <1>1 DEF Fields, SameFlags, SameWire, SameQueues, SameParts
<1>3. JoinOK(t) /\ SubsOK(t) /\ ListsOK(t)
  BY <1>1 DEF Solid, JoinOK, SubsOK, ListsOK, Fields
<1>4. Terminate0(s) = IF WaitAssignCall(u) THEN u ELSE CgrpUnassign(u)
  BY DEF Terminate0
<1> HIDE DEF t
<1>5. WireOK(t) /\ QueuesOK(t) /\ AssignmentOK(t) /\ TermOK(t)
  BY <1>1, <1>2, SameWireOK, SameQueuesOK, SamePartsOK DEF Solid, TermOK, SameParts
<1>6. Good(t)
  BY <1>1, <1>2, <1>3, <1>5 DEF Good, Sound, Solid, ViewOK, SameFlags
<1>7. Good(u) /\ u.terminate
  BY <1>2, <1>6, UnsubscribeGood DEF Kept
<1> HIDE DEF u
<1>8. Sound(u) /\ Sound(CgrpUnassign(u))
  BY <1>7, CgrpUnassignSound DEF Good, Sound
<1>9. QED
  BY <1>4, <1>8

-----------------------------------------------------------------------------
(* What the connection and the coordinator do to the requests. *)

LEMMA ReplyType ==
  ASSUME NEW req \in Requests, NEW err \in Errors, NEW P \in SUBSET Parts, NEW leader \in BOOLEAN
  PROVE  Reply(req, err, P, leader) \in Replies /\ Reply(req, err, P, leader).req.api = req.api
<1> DEFINE bare == [req EXCEPT !.topics = {}, !.owned = {}]
<1>1. bare \in Requests /\ bare.api = req.api
  BY DEF Requests
<1>2. req.member \in Members
  BY DEF Requests
<1>3. Reply(req, err, P, leader) =
        [req |-> bare, err |-> err, parts |-> P, leader |-> leader,
         member |-> IF err = "MEMBER_ID_REQUIRED" THEN "known" ELSE req.member, gen |-> "current"]
  BY DEF Reply
<1> HIDE DEF bare
<1>4. QED
  BY <1>1, <1>2, <1>3 DEF Replies, Members, Gens

\* The first reply is taken.
LEMMA PopReply ==
  ASSUME NEW p, NEW q, NEW wait, NEW hb, Wire(p, q, wait, hb), p # <<>>
  PROVE  /\ Wire(Tail(p), q, wait, hb) /\ Head(p) \in Replies
         /\ Head(p).req.api \in Waits => wait = Head(p).req.api /\ Free(Tail(p), q, Waits)
         /\ Head(p).req.api = "Heartbeat" => hb /\ Free(Tail(p), q, {"Heartbeat"})
<1> DEFINE z == Tail(p)
           n == Len(z)
           m == Len(q)
           f == [i \in 1 .. Outstanding(z, q) |-> i + 1]
<1>1. p \in Seq(Replies) /\ q \in Seq(Requests)
  BY DEF Wire
<1>2. /\ z \in Seq(Replies) /\ Len(p) = n + 1 /\ Head(p) = p[1] /\ Head(p) \in Replies
      /\ \A i \in 1 .. n : z[i] = p[i + 1]
  <2>1. /\ Head(p) \in Replies /\ z \in Seq(Replies) /\ Len(z) = Len(p) - 1
        /\ \A i \in 1 .. Len(z) : z[i] = p[i + 1]
    BY <1>1, HeadTailProperties
  <2>2. Len(p) \in Nat /\ Head(p) = p[1]
    BY <1>1
  <2>3. QED
    BY <2>1, <2>2
<1>3. n \in Nat /\ m \in Nat
  BY <1>1, <1>2
<1>4. Outstanding(z, q) = n + m /\ Outstanding(p, q) = (n + m) + 1
  BY <1>2, <1>3 DEF Outstanding
<1>5. \A i \in 1 .. (n + m) : f[i] = i + 1
  BY <1>4
<1>6. \A i \in 1 .. (n + m) : Api(z, q, i) = Api(p, q, i + 1)
  <2>1. SUFFICES ASSUME NEW i \in 1 .. (n + m) PROVE Api(z, q, i) = Api(p, q, i + 1)
    OBVIOUS
  <2> HIDE DEF z
  <2>2. CASE i <= n
    <3>1. i \in 1 .. n /\ i + 1 <= n + 1
      BY <1>3, <2>2 DEF n, m
    <3>2. QED
      BY <1>2, <2>2, <3>1 DEF Api
  <2>3. CASE ~(i <= n)
    <3>1. ~(i + 1 <= n + 1) /\ (i + 1) - (n + 1) = i - n
      BY <1>3, <2>3 DEF n, m
    <3>2. QED
      BY <1>2, <2>3, <3>1 DEF Api
  <2>4. QED
    BY <2>2, <2>3
<1>7. Api(p, q, 1) = Head(p).req.api
  <2>1. 1 <= Len(p)
    BY <1>2, <1>3
  <2>2. QED
    BY <1>2, <2>1 DEF Api
<1>8. 1 \in 1 .. Outstanding(p, q) /\ \A i \in 1 .. (n + m) : i + 1 \in 1 .. Outstanding(p, q) /\ i + 1 # 1
  BY <1>3, <1>4
<1> HIDE DEF z, n, m
<1>9. f \in [1 .. Outstanding(z, q) -> 1 .. Outstanding(p, q)]
  BY <1>3, <1>4
<1> HIDE DEF f
<1>10. Embeds(f, z, q, p, q)
  BY <1>3, <1>4, <1>5, <1>6, <1>9 DEF Embeds
<1>11. Wire(z, q, wait, hb)
  BY <1>1, <1>2, <1>10, SubWire
<1>12. ASSUME Api(p, q, 1) \in Waits
       PROVE  wait = Api(p, q, 1) /\ Free(z, q, Waits)
  BY <1>4, <1>6, <1>8, <1>12 DEF Wire, Free
<1>13. ASSUME Api(p, q, 1) = "Heartbeat"
       PROVE  hb /\ Free(z, q, {"Heartbeat"})
  BY <1>4, <1>6, <1>8, <1>13 DEF Wire, Free
<1>14. QED
  BY <1>2, <1>7, <1>11, <1>12, <1>13 DEF z

\* The first request is answered.
LEMMA AnswerWire ==
  ASSUME NEW p, NEW q, NEW wait, NEW hb, Wire(p, q, wait, hb), q # <<>>,
         NEW r \in Replies, r.req.api = Head(q).api
  PROVE  Wire(Append(p, r), Tail(q), wait, hb)
<1> DEFINE y == Append(p, r)
           z == Tail(q)
           n == Len(p)
           m == Len(z)
           f == [i \in 1 .. Outstanding(y, z) |-> i]
<1>1. p \in Seq(Replies) /\ q \in Seq(Requests)
  BY DEF Wire
<1>2. /\ z \in Seq(Requests) /\ Len(q) = m + 1 /\ Head(q) = q[1]
      /\ \A i \in 1 .. m : z[i] = q[i + 1]
  <2>1. /\ z \in Seq(Requests) /\ Len(z) = Len(q) - 1
        /\ \A i \in 1 .. Len(z) : z[i] = q[i + 1]
    BY <1>1, HeadTailProperties
  <2>2. Len(q) \in Nat /\ Head(q) = q[1]
    BY <1>1
  <2>3. QED
    BY <2>1, <2>2
<1>3. /\ y \in Seq(Replies) /\ Len(y) = n + 1 /\ y[n + 1] = r
      /\ \A i \in 1 .. n : y[i] = p[i]
  BY <1>1, AppendProperties
<1>4. n \in Nat /\ m \in Nat
  BY <1>1, <1>2
<1>5. Outstanding(y, z) = (n + m) + 1 /\ Outstanding(p, q) = (n + m) + 1
  BY <1>2, <1>3, <1>4 DEF Outstanding
<1>6. ASSUME NEW i \in 1 .. ((n + m) + 1) PROVE Api(y, z, i) = Api(p, q, i)
  <2> HIDE DEF y, z
  <2>1. CASE i <= n
    <3>1. i \in 1 .. n /\ i <= n + 1
      BY <1>4, <2>1 DEF n, m
    <3>2. QED
      BY <1>3, <2>1, <3>1 DEF Api
  <2>2. CASE i = n + 1
    <3>1. ~(i <= n) /\ i <= n + 1 /\ i - n = 1
      BY <1>4, <2>2 DEF n, m
    <3>2. QED
      BY <1>2, <1>3, <2>2, <3>1 DEF Api
  <2>3. CASE ~(i <= n) /\ i # n + 1
    <3>1. ~(i <= n + 1) /\ i - (n + 1) \in 1 .. m /\ (i - (n + 1)) + 1 = i - n
      BY <1>4, <2>3 DEF n, m
    <3>2. QED
      BY <1>2, <1>3, <2>3, <3>1 DEF Api
  <2>4. QED
    BY <2>1, <2>2, <2>3
<1> HIDE DEF y, z, n, m
<1>7. f \in [1 .. Outstanding(y, z) -> 1 .. Outstanding(p, q)]
      /\ \A i \in 1 .. Outstanding(y, z) : f[i] = i
  BY <1>5
<1> HIDE DEF f
<1>8. Embeds(f, y, z, p, q)
  BY <1>5, <1>6, <1>7 DEF Embeds
<1>9. Wire(y, z, wait, hb)
  BY <1>2, <1>3, <1>8, SubWire
<1>10. QED
  BY <1>9 DEF y, z

\* The first request is not answered: the client has terminated.
LEMMA DropWire ==
  ASSUME NEW p, NEW q, NEW wait, NEW hb, Wire(p, q, wait, hb), q # <<>>
  PROVE  Wire(p, Tail(q), wait, hb)
<1> DEFINE z == Tail(q)
           n == Len(p)
           m == Len(z)
           f == [i \in 1 .. Outstanding(p, z) |-> IF i <= n THEN i ELSE i + 1]
<1>1. p \in Seq(Replies) /\ q \in Seq(Requests)
  BY DEF Wire
<1>2. z \in Seq(Requests) /\ Len(q) = m + 1 /\ \A i \in 1 .. m : z[i] = q[i + 1]
  <2>1. /\ z \in Seq(Requests) /\ Len(z) = Len(q) - 1
        /\ \A i \in 1 .. Len(z) : z[i] = q[i + 1]
    BY <1>1, HeadTailProperties
  <2>2. Len(q) \in Nat
    BY <1>1
  <2>3. QED
    BY <2>1, <2>2
<1>3. n \in Nat /\ m \in Nat
  BY <1>1, <1>2
<1>4. Outstanding(p, z) = n + m /\ Outstanding(p, q) = (n + m) + 1
  BY <1>2, <1>3 DEF Outstanding
<1>5. ASSUME NEW i \in 1 .. (n + m)
      PROVE  Api(p, z, i) = Api(p, q, IF i <= n THEN i ELSE i + 1)
  <2> HIDE DEF z
  <2>1. CASE i <= n
    BY <2>1 DEF Api
  <2>2. CASE ~(i <= n)
    <3>1. ~(i + 1 <= n) /\ i - n \in 1 .. m /\ (i - n) + 1 = (i + 1) - n
      BY <1>3, <2>2 DEF n, m
    <3>2. QED
      BY <1>2, <2>2, <3>1 DEF Api
  <2>3. QED
    BY <2>1, <2>2
<1> HIDE DEF z, n, m
<1>6. f \in [1 .. Outstanding(p, z) -> 1 .. Outstanding(p, q)]
      /\ \A i \in 1 .. Outstanding(p, z) : f[i] = IF i <= n THEN i ELSE i + 1
  BY <1>3, <1>4
<1> HIDE DEF f
<1>7. \A i, j \in 1 .. Outstanding(p, z) : f[i] = f[j] => i = j
  BY <1>3, <1>4, <1>6
<1>8. Embeds(f, p, z, p, q)
  BY <1>4, <1>5, <1>6, <1>7 DEF Embeds
<1>9. Wire(p, z, wait, hb)
  BY <1>1, <1>2, <1>8, SubWire
<1>10. QED
  BY <1>9 DEF z

\* The same requests and replies, with other member ids and generations.
LikeRequests(q, q1) ==
  /\ q1 \in Seq(Requests) /\ Len(q1) = Len(q)
  /\ \A i \in 1 .. Len(q) : q1[i].api = q[i].api
LikeReplies(p, p1) ==
  /\ p1 \in Seq(Replies) /\ Len(p1) = Len(p)
  /\ \A i \in 1 .. Len(p) : p1[i].req.api = p[i].req.api

LEMMA RenameWire ==
  ASSUME NEW p, NEW q, NEW wait, NEW hb, Wire(p, q, wait, hb),
         NEW p1, NEW q1, LikeReplies(p, p1), LikeRequests(q, q1)
  PROVE  Wire(p1, q1, wait, hb)
<1> DEFINE n == Len(p)
           m == Len(q)
           f == [i \in 1 .. Outstanding(p1, q1) |-> i]
<1>0. /\ p1 \in Seq(Replies) /\ q1 \in Seq(Requests) /\ Len(p1) = n /\ Len(q1) = m
      /\ \A i \in 1 .. n : p1[i].req.api = p[i].req.api
      /\ \A i \in 1 .. m : q1[i].api = q[i].api
  BY DEF LikeReplies, LikeRequests
<1>1. p \in Seq(Replies) /\ q \in Seq(Requests)
  BY DEF Wire
<1>2. n \in Nat /\ m \in Nat
  BY <1>1
<1>3. Outstanding(p1, q1) = n + m /\ Outstanding(p, q) = n + m
  BY <1>0, <1>2 DEF Outstanding
<1>4. ASSUME NEW i \in 1 .. (n + m) PROVE Api(p1, q1, i) = Api(p, q, i)
  <2>1. CASE i <= n
    <3>1. i \in 1 .. n
      BY <1>2, <2>1 DEF n, m
    <3>2. QED
      BY <1>0, <2>1, <3>1 DEF Api
  <2>2. CASE ~(i <= n)
    <3>1. i - n \in 1 .. m
      BY <1>2, <2>2 DEF n, m
    <3>2. QED
      BY <1>0, <2>2, <3>1 DEF Api
  <2>3. QED
    BY <2>1, <2>2
<1> HIDE DEF n, m
<1>5. f \in [1 .. Outstanding(p1, q1) -> 1 .. Outstanding(p, q)]
      /\ \A i \in 1 .. Outstanding(p1, q1) : f[i] = i
  BY <1>3
<1> HIDE DEF f
<1>6. Embeds(f, p1, q1, p, q)
  BY <1>3, <1>4, <1>5 DEF Embeds
<1>7. QED
  BY <1>0, <1>6, SubWire

\* The requests that are not answered fail, after the replies that have arrived.
LEMMA FailWire ==
  ASSUME NEW p, NEW q, NEW wait, NEW hb, Wire(p, q, wait, hb),
         NEW z \in Seq(Replies), Len(z) = Len(q), NEW e, e = <<>>,
         \A i \in 1 .. Len(q) : z[i].req.api = q[i].api
  PROVE  Wire(p \o z, e, wait, hb)
<1> DEFINE n == Len(p)
           m == Len(q)
           y == p \o z
           f == [i \in 1 .. Outstanding(y, e) |-> i]
<1>1. p \in Seq(Replies) /\ q \in Seq(Requests) /\ e \in Seq(Requests) /\ Len(e) = 0
  BY DEF Wire
<1>2. /\ y \in Seq(Replies) /\ Len(y) = n + m
      /\ \A i \in 1 .. (n + m) : y[i] = IF i <= n THEN p[i] ELSE z[i - n]
  <2>1. y \in Seq(Replies) /\ Len(y) = Len(p) + Len(z)
    BY <1>1
  <2>2. ASSUME NEW i \in 1 .. (n + m) PROVE y[i] = IF i <= n THEN p[i] ELSE z[i - n]
    BY <1>1
  <2>3. QED
    BY <2>1, <2>2
<1>3. n \in Nat /\ m \in Nat
  BY <1>1
<1>4. Outstanding(y, e) = n + m /\ Outstanding(p, q) = n + m
  BY <1>1, <1>2, <1>3 DEF Outstanding
<1>5. ASSUME NEW i \in 1 .. (n + m) PROVE Api(y, e, i) = Api(p, q, i)
  <2> HIDE DEF y
  <2>0. i <= Len(y)
    BY <1>2, <1>3 DEF n, m
  <2>1. CASE i <= n
    BY <1>2, <2>0, <2>1 DEF Api
  <2>2. CASE ~(i <= n)
    <3>1. i - n \in 1 .. m
      BY <1>3, <2>2 DEF n, m
    <3>2. QED
      BY <1>2, <2>0, <2>2, <3>1 DEF Api
  <2>3. QED
    BY <2>1, <2>2
<1> HIDE DEF n, m, y
<1>6. f \in [1 .. Outstanding(y, e) -> 1 .. Outstanding(p, q)]
      /\ \A i \in 1 .. Outstanding(y, e) : f[i] = i
  BY <1>4
<1> HIDE DEF f
<1>7. Embeds(f, y, e, p, q)
  BY <1>4, <1>5, <1>6 DEF Embeds
<1>8. Wire(y, e, wait, hb)
  BY <1>1, <1>2, <1>7, SubWire
<1>9. QED
  BY <1>8 DEF y

-----------------------------------------------------------------------------
(* The steps of the main thread. *)

LEMMA CgrpServeStep ==
  ASSUME Inv, CgrpServe
  PROVE  Good(c')
<1> DEFINE t == TryTerminate(c)
<1>1. Good(t)
  BY TryTerminateGood DEF Inv
<1>2. c' = IF t.state = "TERM" THEN Terminated(t)
           ELSE IF t.state = "UP" THEN JoinStateServe(t)
           ELSE t
  BY DEF CgrpServe
<1> HIDE DEF t
<1>3. QED
  BY <1>1, <1>2, TerminatedGood, JoinStateServeGood

LEMMA CoordinatorUpStep ==
  ASSUME Inv, CoordinatorUp
  PROVE  Good(c')
<1> DEFINE u == [c EXCEPT !.state = "UP"]
<1>1. Good(c) /\ DOMAIN c = Fields
  BY DEF Inv, Good, Sound, Solid
<1>2. /\ DOMAIN u = Fields /\ SameFlags(c, u) /\ SameWire(c, u) /\ SameQueues(c, u)
      /\ SameParts(c, u) /\ SameView(c, u) /\ u.state = "UP"
  BY <1>1 DEF Fields, SameFlags, SameWire, SameQueues, SameParts, SameView
<1>3. JoinOK(u) /\ SubsOK(u) /\ ListsOK(u)
  BY <1>1 DEF Good, Sound, Solid, JoinOK, SubsOK, ListsOK, Fields
<1>4. c' = AssignmentServe(JoinStateServe(u))
  BY DEF CoordinatorUp
<1> HIDE DEF u
<1>5. Good(u)
  BY <1>1, <1>2, <1>3, JoinFrame
<1>6. Sound(JoinStateServe(u))
  BY <1>5, JoinStateServeGood DEF Good
<1>7. QED
  BY <1>4, <1>6, AssignmentServeGood

LEMMA ServeReplyStep ==
  ASSUME Inv, ServeReply
  PROVE  Good(c')
<1> DEFINE p == Tail(c.resp)
           s == [c EXCEPT !.resp = p]
           r == Head(c.resp)
<1>1. Good(c) /\ DOMAIN c = Fields /\ Wire(c.resp, c.net, c.wait_resp, c.hb)
  BY DEF Inv, Good, Sound, Solid, WireOK
<1>2. c.resp # <<>> /\ c' = Handle(s, r)
  BY <1>1 DEF ServeReply, Fields
<1>3. /\ Wire(p, c.net, c.wait_resp, c.hb) /\ r \in Replies
      /\ r.req.api \in Waits => c.wait_resp = r.req.api /\ Free(p, c.net, Waits)
      /\ r.req.api = "Heartbeat" => c.hb /\ Free(p, c.net, {"Heartbeat"})
  BY <1>1, <1>2, PopReply
<1> HIDE DEF p, r
<1>4. /\ DOMAIN s = Fields /\ SameFlags(c, s) /\ SameQueues(c, s) /\ SameParts(c, s)
      /\ SameView(c, s) /\ SameJoin(c, s)
      /\ s.net = c.net /\ s.resp = p /\ s.wait_resp = c.wait_resp /\ s.hb = c.hb
  BY <1>1 DEF Fields, SameFlags, SameQueues, SameParts, SameView, SameJoin
<1> HIDE DEF s
<1>5. JoinOK(s) /\ SubsOK(s) /\ ListsOK(s) /\ WireOK(s)
  BY <1>1, <1>3, <1>4 DEF Good, Sound, Solid, JoinOK, SubsOK, ListsOK, SameJoin, SameView, WireOK
<1>6. Good(s)
  BY <1>1, <1>4, <1>5, WireFrame DEF SameJoin
<1>7. Answered(s, r)
  BY <1>3, <1>4, <1>6 DEF Answered
<1>8. QED
  BY <1>2, <1>7, HandleGood

LEMMA AssignorMetadataStep ==
  ASSUME Inv, AssignorMetadata
  PROVE  Good(c')
<1> DEFINE u == [c EXCEPT !.asgn = @ - 1]
<1>1. Good(c)
  BY DEF Inv
<1>2. Alike(c, u)
  BY <1>1 DEF Good, Sound, Solid, Fields, Alike, SameFlags, SameWire, SameQueues, SameParts,
              SameView, SameJoin
<1>3. c' = HandleAssignorMetadata(u)
  BY DEF AssignorMetadata
<1> HIDE DEF u
<1>4. QED
  BY <1>1, <1>2, <1>3, AlikeGood, HandleAssignorMetadataGood

LEMMA MetadataReplyStep ==
  ASSUME Inv, MetadataReply
  PROVE  Good(c')
<1>1. PICK m \in c.meta :
        c' = MetadataUpdateCheck([c EXCEPT !.meta = @ \ {m}, !.cached = @ \cup m.topics])
  BY DEF MetadataReply
<1> DEFINE u == [c EXCEPT !.meta = @ \ {m}, !.cached = @ \cup m.topics]
<1>2. Good(c) /\ DOMAIN c = Fields /\ SubsOK(c)
  BY DEF Inv, Good, Sound, Solid
<1>3. SubsOK(u)
  BY <1>1, <1>2 DEF SubsOK, Fields
<1>4. Subscribed(c, u)
  BY <1>2, <1>3 DEF Subscribed, Fields, SameFlags, SameWire, SameQueues, SameParts, SameView
<1> HIDE DEF u
<1>5. QED
  BY <1>1, <1>2, <1>4, SubscribedGood, MetadataUpdateCheckGood DEF u

\* The assignment has changed, but not its partitions.
LEMMA ServedGood ==
  ASSUME NEW s, NEW t, Good(s), Around(s, t), t.join_state = s.join_state, t.all = s.all,
         AssignmentOK(t), TermOK(t)
  PROVE  Good(AssignmentServe(t))
<1>1. Solid(s) /\ ViewOK(s) /\ s.join_state \in JoinStates
  BY DEF Good, Sound, Solid, JoinOK
<1>2. Solid(t)
  BY <1>1, AroundSolid
<1>3. ViewOK(t)
  BY <1>1, SameViewOK DEF Around, SameView, SameQueues
<1>4. QED
  BY <1>2, <1>3, AssignmentServeGood DEF Sound

LEMMA PartitionStoppedStep ==
  ASSUME Inv, NEW p \in Parts, PartitionStopped(p)
  PROVE  Good(c')
<1> DEFINE t == [c EXCEPT !.removing = @ \ {p}, !.started = @ \ {p}]
<1>1. Good(c) /\ DOMAIN c = Fields /\ AssignmentOK(c) /\ TermOK(c)
  BY DEF Inv, Good, Sound, Solid
<1>2. p \in c.removing /\ c' = AssignmentServe(t)
  BY DEF PartitionStopped
<1>3. /\ Around(c, t) /\ t.join_state = c.join_state /\ t.all = c.all /\ t.pending = c.pending
      /\ t.removed = c.removed /\ t.removing = c.removing \ {p} /\ t.started = c.started \ {p}
  BY <1>1 DEF Fields, Around, SameFlags, SameWire, SameQueues
<1> HIDE DEF t
<1>4. AssignmentOK(t)
  BY <1>1, <1>2, <1>3 DEF AssignmentOK
<1>5. TermOK(t)
  BY <1>1, <1>2, <1>3 DEF TermOK, Around
<1>6. QED
  BY <1>1, <1>2, <1>3, <1>4, <1>5, ServedGood

LEMMA OffsetsFetchedStep ==
  ASSUME Inv, OffsetsFetched
  PROVE  Good(c')
<1> DEFINE t == [c EXCEPT !.started = @ \cup c.pending, !.pending = {}]
<1>1. Good(c) /\ DOMAIN c = Fields /\ AssignmentOK(c)
  BY DEF Inv, Good, Sound, Solid
<1>2. c.removing \cup c.removed = {} /\ c.state = "UP" /\ c' = AssignmentServe(t)
  BY DEF OffsetsFetched
<1>3. /\ Around(c, t) /\ t.join_state = c.join_state /\ t.all = c.all /\ t.pending = {}
      /\ t.removed = c.removed /\ t.removing = c.removing /\ t.started = c.started \cup c.pending
  BY <1>1 DEF Fields, Around, SameFlags, SameWire, SameQueues
<1> HIDE DEF t
<1>4. AssignmentOK(t)
  BY <1>1, <1>2, <1>3 DEF AssignmentOK
<1>5. TermOK(t)
  BY <1>2, <1>3 DEF TermOK, Around
<1>6. QED
  BY <1>1, <1>2, <1>3, <1>4, <1>5, ServedGood

LEMMA SessionExpiresStep ==
  ASSUME Inv, SessionExpires
  PROVE  Good(c')
<1> DEFINE v == [c EXCEPT !.session = FALSE]
           u == [v EXCEPT !.member = "none"]
<1>1. Good(c) /\ DOMAIN c = Fields
  BY DEF Inv, Good, Sound, Solid
<1>2. c' = RevokeAllRejoinMaybe(u, TRUE)
  BY <1>1 DEF SessionExpires, Fields
<1>3. Good(v)
  BY <1>1, FlagGood
<1> HIDE DEF v
<1>4. Good(u)
  <2>1. DOMAIN v = Fields /\ v.gen \in Gens /\ "none" \in Members
    BY <1>3 DEF Good, Sound, Solid, JoinOK, Members
  <2>2. u = [v EXCEPT !.member = "none", !.gen = v.gen]
    BY <2>1 DEF Fields
  <2> HIDE DEF u
  <2>3. QED
    BY <1>3, <2>1, <2>2, MemberGood
<1> HIDE DEF u
<1>5. QED
  BY <1>2, <1>4, RevokeAllRejoinMaybeGood

LEMMA MaxPollExceededStep ==
  ASSUME Inv, MaxPollExceeded
  PROVE  Good(c')
<1> DEFINE u == [c EXCEPT !.late = TRUE, !.poll_exceeded = TRUE, !.polltmr = FALSE]
<1>1. Good(c)
  BY DEF Inv
<1>2. Alike(c, u)
  BY <1>1 DEF Good, Sound, Solid, Fields, Alike, SameFlags, SameWire, SameQueues, SameParts,
              SameView, SameJoin
<1>3. c' = RevokeAllRejoinMaybe(Leave(u), TRUE)
  BY DEF MaxPollExceeded
<1> HIDE DEF u
<1>4. Good(u)
  BY <1>1, <1>2, AlikeGood
<1>5. Good(Leave(u))
  BY <1>4, LeaveGood
<1>6. QED
  BY <1>3, <1>5, RevokeAllRejoinMaybeGood

LEMMA TopicsChangeStep ==
  ASSUME Inv, TopicsChange
  PROVE  Good(c') /\ DOMAIN k' = Coords /\ k'.assigned = k.assigned
<1>1. PICK p \in Parts :
        c' = MetadataUpdateCheck(
               [c EXCEPT !.exists = IF p \in @ THEN @ \ {p} ELSE @ \cup {p},
                         !.cached = @ \cup Elems(c.subscription)])
  BY DEF TopicsChange
<1> DEFINE S == Elems(c.subscription)
           E == IF p \in c.exists THEN c.exists \ {p} ELSE c.exists \cup {p}
           u == [c EXCEPT !.exists = E, !.cached = @ \cup S]
<1>2. Good(c) /\ DOMAIN c = Fields /\ SubsOK(c)
  BY DEF Inv, Good, Sound, Solid
<1>3. S \subseteq Parts /\ E \subseteq Parts
  BY <1>2, ElemsType DEF SubsOK
<1>4. c' = MetadataUpdateCheck(u)
  BY <1>1, <1>2 DEF Fields
<1> HIDE DEF S, E
<1>5. SubsOK(u)
  BY <1>2, <1>3 DEF SubsOK, Fields
<1>6. Subscribed(c, u)
  BY <1>2, <1>5 DEF Subscribed, Fields, SameFlags, SameWire, SameQueues, SameParts, SameView
<1> HIDE DEF u
<1>7. Good(c')
  BY <1>2, <1>4, <1>6, SubscribedGood, MetadataUpdateCheckGood
<1>8. DOMAIN k' = Coords /\ k'.assigned = k.assigned
  BY DEF TopicsChange, Inv, Coords
<1>9. QED
  BY <1>7, <1>8

LEMMA FailedReplies ==
  ASSUME NEW q \in Seq(Requests)
  PROVE  \E z \in Seq(Replies) :
           /\ z = [i \in DOMAIN q |-> Reply(q[i], "TRANSPORT", {}, FALSE)]
           /\ Len(z) = Len(q)
           /\ \A i \in 1 .. Len(q) : z[i].req.api = q[i].api
<1> DEFINE R(i) == Reply(q[i], "TRANSPORT", {}, FALSE)
           n == Len(q)
           z == [i \in 1 .. n |-> R(i)]
<1>1. n \in Nat /\ DOMAIN q = 1 .. n /\ \A i \in 1 .. n : q[i] \in Requests
  OBVIOUS
<1>2. "TRANSPORT" \in Errors /\ {} \in SUBSET Parts
  BY DEF Errors
<1>3. FALSE \in BOOLEAN
  BY Zenon
<1>4. \A i \in 1 .. n : R(i) \in Replies /\ R(i).req.api = q[i].api
  BY <1>1, <1>2, <1>3, ReplyType, Zenon
<1> HIDE DEF R, n
<1>5. z \in Seq(Replies) /\ Len(z) = n
  <2>1. z \in [1 .. n -> Replies]
    BY <1>4
  <2> HIDE DEF z
  <2>2. QED
    BY <1>1, <2>1
<1>6. \A i \in 1 .. n : z[i].req.api = q[i].api
  BY <1>4
<1>7. z = [i \in DOMAIN q |-> Reply(q[i], "TRANSPORT", {}, FALSE)]
  BY <1>1 DEF R
<1> HIDE DEF z
<1>8. QED
  BY <1>5, <1>6, <1>7 DEF n

LEMMA DisconnectStep ==
  ASSUME Inv, Disconnect
  PROVE  Good(c')
<1>1. Good(c) /\ DOMAIN c = Fields /\ Wire(c.resp, c.net, c.wait_resp, c.hb)
  BY DEF Inv, Good, Sound, Solid, WireOK
<1>3. c.net \in Seq(Requests)
  BY <1>1 DEF Wire
<1>4. PICK z \in Seq(Replies) :
        /\ z = [i \in DOMAIN c.net |-> Reply(c.net[i], "TRANSPORT", {}, FALSE)]
        /\ Len(z) = Len(c.net)
        /\ \A i \in 1 .. Len(c.net) : z[i].req.api = c.net[i].api
  BY <1>3, FailedReplies
<1> DEFINE y == c.resp \o z
<1>2. c' = [c EXCEPT !.state = "QUERY_COORD", !.net = <<>>, !.resp = y]
  BY <1>1, <1>4 DEF Disconnect, Fields
<1>6. ASSUME NEW e, e = <<>> PROVE Wire(y, e, c.wait_resp, c.hb)
  BY <1>1, <1>4, <1>6, FailWire
<1> HIDE DEF y
<1> DEFINE t == [c EXCEPT !.state = "QUERY_COORD", !.net = <<>>, !.resp = y]
<1>7. /\ DOMAIN t = Fields /\ SameFlags(c, t) /\ SameQueues(c, t) /\ SameParts(c, t)
      /\ SameView(c, t) /\ t.state = "QUERY_COORD"
      /\ t.net = <<>> /\ t.resp = y /\ t.wait_resp = c.wait_resp /\ t.hb = c.hb
  BY <1>1 DEF Fields, SameFlags, SameQueues, SameParts, SameView
<1>8. JoinOK(t) /\ SubsOK(t) /\ ListsOK(t)
  BY <1>1 DEF Good, Sound, Solid, JoinOK, SubsOK, ListsOK, Fields
<1>9. c' = t
  BY <1>2
<1> HIDE DEF t
<1>10. WireOK(t)
  <2>1. Wire(y, t.net, c.wait_resp, c.hb)
    BY <1>6, <1>7
  <2>2. QED
    BY <1>7, <2>1 DEF WireOK
<1>11. QED
  BY <1>1, <1>7, <1>8, <1>9, <1>10, WireFrame

-----------------------------------------------------------------------------
(* The ops of the application. *)

\* Only the queues have changed.
LEMMA QueueFrame ==
  ASSUME NEW s, NEW t, Solid(s), DOMAIN t = Fields, SameFlags(s, t), SameWire(s, t),
         SameParts(s, t), SameJoin(s, t),
         t.proto = s.proto /\ t.terminate = s.terminate /\ t.group = s.group, QueuesOK(t)
  PROVE  Solid(t)
<1>1. JoinOK(t) /\ SubsOK(t) /\ ListsOK(t)
  BY DEF Solid, JoinOK, SubsOK, ListsOK, SameJoin, SameWire
<1>2. WireOK(t) /\ AssignmentOK(t) /\ TermOK(t)
  BY SameWireOK, SamePartsOK DEF Solid, TermOK, SameParts, SameJoin
<1>3. QED
  BY <1>1, <1>2 DEF Solid, SameFlags

LastCall(q, busy) == \A i \in 1 .. Len(q) : q[i].op # "terminate" => busy /\ i = Len(q)

LEMMA PopOp ==
  ASSUME NEW q \in Seq(Ops), q # <<>>, NEW busy, LastCall(q, busy)
  PROVE  /\ Head(q) \in Ops /\ Tail(q) \in Seq(Ops)
         /\ LastCall(Tail(q), busy /\ Head(q).op = "terminate")
         /\ Head(q).op # "terminate" =>
              ~Calling(Tail(q)) /\ Head(q) = q[Len(q)]
         /\ Head(q).op = "terminate" =>
              /\ Calling(Tail(q)) <=> Calling(q)
              /\ Calling(q) => Tail(q)[Len(Tail(q))] = q[Len(q)]
<1> DEFINE z == Tail(q)
           n == Len(q)
<1>1. /\ Head(q) \in Ops /\ z \in Seq(Ops) /\ Len(z) = n - 1 /\ Head(q) = q[1]
      /\ \A i \in 1 .. Len(z) : z[i] = q[i + 1]
  BY HeadTailProperties
<1>2. n \in Nat /\ n # 0
  BY EmptySeq
<1>3. \A i \in 1 .. n : q[i].op # "terminate" => busy /\ i = n
  BY DEF LastCall
<1>4. z = <<>> <=> Len(z) = 0
  BY <1>1, EmptySeq
<1> HIDE DEF z, n
<1>5. ASSUME Head(q).op # "terminate" PROVE n = 1 /\ Head(q) = q[n] /\ z = <<>>
  BY <1>1, <1>2, <1>3, <1>4, <1>5
<1>6. \A i \in 1 .. (n - 1) : i + 1 \in 1 .. n
  BY <1>2
<1>7. LastCall(z, busy /\ Head(q).op = "terminate")
  <2>1. SUFFICES ASSUME NEW i \in 1 .. (n - 1), z[i].op # "terminate"
                 PROVE  busy /\ Head(q).op = "terminate" /\ i = n - 1
    BY <1>1 DEF LastCall
  <2>2. q[i + 1].op # "terminate" /\ i + 1 \in 1 .. n
    BY <1>1, <1>6, <2>1
  <2>3. busy /\ i + 1 = n
    BY <1>3, <2>2
  <2>4. n # 1
    BY <1>2, <2>1
  <2>5. QED
    BY <1>2, <1>5, <2>3, <2>4
<1>8. ASSUME Head(q).op # "terminate" PROVE ~Calling(z)
  BY <1>5, <1>8 DEF Calling
<1>9. ASSUME Head(q).op = "terminate"
      PROVE  (Calling(z) <=> Calling(q)) /\ (Calling(q) => z[Len(z)] = q[n])
  <2>1. CASE n = 1
    <3>1. ~Calling(z)
      BY <1>1, <1>4, <2>1 DEF Calling
    <3>2. ~Calling(q)
      BY <1>1, <1>9, <2>1 DEF Calling, n
    <3>3. QED
      BY <3>1, <3>2
  <2>2. CASE n # 1
    <3>1. Len(z) \in 1 .. Len(z) /\ Len(z) + 1 = n /\ z # <<>>
      BY <1>1, <1>2, <1>4, <2>2
    <3>2. z[Len(z)] = q[n]
      BY <1>1, <3>1
    <3>3. QED
      BY <3>1, <3>2 DEF Calling, n
  <2>3. QED
    BY <2>1, <2>2
<1>10. QED
  BY <1>1, <1>5, <1>7, <1>8, <1>9 DEF z, n

LEMMA ServeOpStep ==
  ASSUME Inv, ServeOp
  PROVE  Good(c')
<1> DEFINE op == Head(c.ops)
           q == Tail(c.ops)
           b == c.busy /\ op.op = "terminate"
           s == [c EXCEPT !.ops = q, !.busy = b]
<1>1. Good(c) /\ Solid(c) /\ ViewOK(c) /\ DOMAIN c = Fields
  BY DEF Inv, Good, Sound, Solid
<1>2. c.ops \in Seq(Ops) /\ c.appq \in Seq(AppOps) /\ LastCall(c.ops, c.busy)
  BY <1>1 DEF Solid, QueuesOK, LastCall
<1>3. /\ c.ops # <<>>
      /\ \/ op.op = "subscribe" /\ c' = Subscribe([s EXCEPT !.late = FALSE], op.parts)
         \/ op.op = "terminate" /\ c' = TryTerminate(AssignmentServe(Terminate0(s)))
         \/ op.op \in {"assign", "revoke"} /\ c' = HandleAssignOp(s, op.op, op.parts)
  <2>1. s = [c EXCEPT !.ops = Tail(@), !.busy = @ /\ op.op = "terminate"]
    BY <1>1 DEF Fields
  <2> HIDE DEF s, b, q
  <2>2. QED
    BY <2>1 DEF ServeOp
<1>4. /\ op \in Ops /\ q \in Seq(Ops) /\ LastCall(q, b)
      /\ op.op # "terminate" => ~Calling(q) /\ op = c.ops[Len(c.ops)]
      /\ op.op = "terminate" =>
           (Calling(q) <=> Calling(c.ops)) /\ (Calling(c.ops) => q[Len(q)] = c.ops[Len(c.ops)])
  BY <1>2, <1>3, PopOp
<1> HIDE DEF op, q, b
<1>5. /\ DOMAIN s = Fields /\ SameFlags(c, s) /\ SameWire(c, s) /\ SameParts(c, s) /\ SameJoin(c, s)
      /\ s.proto = c.proto /\ s.terminate = c.terminate /\ s.group = c.group
      /\ s.ops = q /\ s.busy = b /\ s.appq = c.appq
  BY <1>1 DEF Fields, SameFlags, SameWire, SameParts, SameJoin
<1> HIDE DEF s
<1>6. QueuesOK(s)
  BY <1>2, <1>4, <1>5 DEF QueuesOK, LastCall
<1>7. Solid(s)
  BY <1>1, <1>5, <1>6, QueueFrame
<1>8. s.terminate \/ s.removed = {}
  BY <1>1, <1>5 DEF Good, SameParts
<1>9. CASE op.op \in {"subscribe", "terminate"}
  <2>1. (Calling(q) <=> Calling(c.ops)) /\ (Calling(c.ops) => q[Len(q)] = c.ops[Len(c.ops)])
    <3>1. CASE op.op = "subscribe"
      <4>1. ~Calling(q) /\ ~Calling(c.ops)
        BY <1>4, <3>1 DEF Calling
      <4>2. QED
        BY <4>1
    <3>2. QED
      BY <1>4, <1>9, <3>1
  <2>2. \A A : Base(q, c.all, A) <=> Base(c.ops, c.all, A)
    BY <2>1 DEF Base
  <2>3. ViewOK(s)
    BY <1>1, <1>5, <2>2 DEF ViewOK, View, SameParts
  <2>4. Good(s)
    BY <1>7, <1>8, <2>3 DEF Good, Sound
  <2>5. Good(TryTerminate(AssignmentServe(Terminate0(s))))
    <3>1. Sound(Terminate0(s))
      BY <2>4, Terminate0Sound
    <3>2. Good(AssignmentServe(Terminate0(s)))
      BY <3>1, AssignmentServeGood
    <3>3. QED
      BY <3>2, TryTerminateGood
  <2>6. Good(Subscribe([s EXCEPT !.late = FALSE], op.parts))
    <3> DEFINE t == [s EXCEPT !.late = FALSE]
    <3>1. Good(t)
      BY <2>4, FlagGood
    <3>2. op.parts \in Lists
      BY <1>4, <1>9 DEF Ops, AppOps
    <3> HIDE DEF t
    <3>3. Good(Subscribe(t, op.parts))
      BY <3>1, <3>2, SubscribeGood
    <3>4. QED
      BY <3>3 DEF t
  <2>7. QED
    BY <1>3, <1>9, <2>5, <2>6
<1>10. CASE op.op \in {"assign", "revoke"}
  <2>1. op \in AppOps /\ op.parts \in SUBSET Parts /\ op = [op |-> op.op, parts |-> op.parts]
    BY <1>4, <1>10 DEF Ops, AppOps
  <2>2. ~Calling(q) /\ Calling(c.ops) /\ op = c.ops[Len(c.ops)]
    BY <1>3, <1>4, <1>10 DEF Calling
  <2>3. Taken(s, op.op, op.parts)
    <3>1. SUFFICES ASSUME c.proto = "COOPERATIVE", ~c.terminate
                   PROVE  \E A \in SUBSET Parts : Moves(op, c.all, A) /\ Leads(c.appq, A, Elems(c.group))
      BY <1>5, <1>7, <1>8, <2>1, <2>2 DEF Taken, SameParts
    <3>2. PICK A \in SUBSET Parts : Base(c.ops, c.all, A) /\ Leads(c.appq, A, Elems(c.group))
      BY <1>1, <3>1 DEF ViewOK, View
    <3>3. Moves(op, c.all, A)
      BY <2>2, <3>2 DEF Base
    <3>4. QED
      BY <3>2, <3>3
  <2>4. Good(HandleAssignOp(s, op.op, op.parts))
    BY <1>10, <2>1, <2>3, HandleAssignOpGood
  <2>5. c' = HandleAssignOp(s, op.op, op.parts)
    BY <1>3, <1>10
  <2>6. QED
    BY <2>4, <2>5
<1>11. QED
  BY <1>3, <1>9, <1>10

\* An op o is sent by an application that waits for no other.
LEMMA PushOp ==
  ASSUME NEW q \in Seq(Ops), NEW o \in Ops, LastCall(q, FALSE), NEW busy,
         o.op # "terminate" => busy
  PROVE  /\ Append(q, o) \in Seq(Ops) /\ LastCall(Append(q, o), busy)
         /\ ~Calling(q) /\ (Calling(Append(q, o)) <=> o.op \in {"assign", "revoke"})
         /\ Append(q, o)[Len(Append(q, o))] = o
<1> DEFINE z == Append(q, o)
           n == Len(q)
<1>1. /\ z \in Seq(Ops) /\ Len(z) = n + 1 /\ z[n + 1] = o /\ \A i \in 1 .. n : z[i] = q[i]
  BY AppendProperties
<1>2. n \in Nat /\ (q = <<>> <=> n = 0)
  BY EmptySeq
<1>3. \A i \in 1 .. n : q[i].op = "terminate"
  BY DEF LastCall
<1>4. ~Calling(q)
  <2>1. n # 0 => n \in 1 .. n
    BY <1>2
  <2>2. QED
    BY <1>2, <1>3, <2>1 DEF Calling
<1>5. z # <<>>
  <2>1. Len(z) # 0
    BY <1>1, <1>2
  <2> HIDE DEF z
  <2>2. QED
    BY <2>1, EmptySeq
<1> HIDE DEF z, n
<1>6. \A i \in 1 .. (n + 1) : i \in 1 .. n \/ i = n + 1
  BY <1>2
<1>7. LastCall(z, busy)
  BY <1>1, <1>3, <1>6 DEF LastCall
<1>8. (Calling(z) <=> o.op \in {"assign", "revoke"})
  BY <1>1, <1>5 DEF Calling
<1>9. QED
  BY <1>1, <1>4, <1>7, <1>8 DEF z

\* The application calls with o, and q1 is left for it to serve.
LEMMA CalledGood ==
  ASSUME NEW s, NEW t, NEW o \in Ops, NEW q1, Good(s), LastCall(s.ops, FALSE),
         DOMAIN t = Fields, SameFlags(s, t), SameWire(s, t), SameParts(s, t), SameJoin(s, t),
         t.proto = s.proto /\ t.terminate = s.terminate /\ t.group = s.group,
         t.ops = Append(s.ops, o), o.op # "terminate" => t.busy, t.appq = q1,
         \/ o.op \notin {"assign", "revoke"} /\ q1 = s.appq
         \/ s.appq # <<>> /\ o = Head(s.appq) /\ q1 = Tail(s.appq)
  PROVE  Good(t)
<1> DEFINE z == Append(s.ops, o)
<1>1. Solid(s) /\ ViewOK(s) /\ s.ops \in Seq(Ops) /\ s.appq \in Seq(AppOps)
  BY DEF Good, Sound, Solid, QueuesOK
<1>2. /\ z \in Seq(Ops) /\ LastCall(z, t.busy)
      /\ ~Calling(s.ops) /\ (Calling(z) <=> o.op \in {"assign", "revoke"}) /\ z[Len(z)] = o
  BY <1>1, PushOp
<1>3. q1 \in Seq(AppOps)
  BY <1>1, HeadTailProperties
<1> HIDE DEF z
<1>4. QueuesOK(t)
  BY <1>2, <1>3 DEF QueuesOK, LastCall, z
<1>5. Solid(t)
  BY <1>1, <1>4, QueueFrame
<1>6. ViewOK(t)
  <2>1. SUFFICES ASSUME s.proto = "COOPERATIVE", ~s.terminate
                 PROVE  View(z, s.all, q1, s.group)
    BY DEF ViewOK, SameParts, z
  <2>2. PICK A \in SUBSET Parts : Base(s.ops, s.all, A) /\ Leads(s.appq, A, Elems(s.group))
    BY <1>1, <2>1 DEF ViewOK, View
  <2>3. A = s.all
    BY <1>2, <2>2 DEF Base
  <2>4. CASE o.op \notin {"assign", "revoke"} /\ q1 = s.appq
    <3>1. Base(z, s.all, A)
      BY <1>2, <2>3, <2>4 DEF Base
    <3>2. QED
      BY <2>2, <2>4, <3>1 DEF View
  <2>5. CASE s.appq # <<>> /\ o = Head(s.appq) /\ q1 = Tail(s.appq)
    <3>1. PICK A1 \in SUBSET Parts : Moves(o, A, A1) /\ Leads(q1, A1, Elems(s.group))
      BY <1>1, <2>2, <2>5, TailMoves
    <3>2. o.op \in {"assign", "revoke"}
      BY <3>1 DEF Moves
    <3>3. Base(z, s.all, A1)
      BY <1>2, <2>3, <3>1, <3>2 DEF Base
    <3>4. QED
      BY <3>1, <3>3 DEF View
  <2>6. QED
    BY <2>4, <2>5
<1>7. t.terminate \/ t.removed = {}
  BY DEF Good, SameParts
<1>8. QED
  BY <1>5, <1>6, <1>7 DEF Good, Sound

LEMMA CallSubscribeStep ==
  ASSUME Inv, CallSubscribe
  PROVE  Good(c')
<1>1. PICK S \in Subscriptions \cup {None} : c' = CallOp("subscribe", S)
  BY DEF CallSubscribe
<1> DEFINE o == [op |-> "subscribe", parts |-> S]
           z == Append(c.ops, o)
           t == [c EXCEPT !.ops = z, !.busy = TRUE]
<1>2. Good(c) /\ DOMAIN c = Fields /\ ~c.busy
  BY DEF Inv, Good, Sound, Solid, CallSubscribe
<1>3. o \in Ops /\ o.op = "subscribe"
  BY CgrpSets DEF Ops, Lists
<1>4. LastCall(c.ops, FALSE)
  BY <1>2 DEF Good, Sound, Solid, QueuesOK, LastCall
<1>5. c' = t
  BY <1>1, <1>2 DEF CallOp, Fields
<1> HIDE DEF o, z
<1>6. /\ DOMAIN t = Fields /\ SameFlags(c, t) /\ SameWire(c, t) /\ SameParts(c, t) /\ SameJoin(c, t)
      /\ t.proto = c.proto /\ t.terminate = c.terminate /\ t.group = c.group
      /\ t.ops = z /\ t.busy /\ t.appq = c.appq
  BY <1>2 DEF Fields, SameFlags, SameWire, SameParts, SameJoin
<1> HIDE DEF t
<1>7. Good(t)
  BY <1>2, <1>3, <1>4, <1>6, CalledGood DEF z
<1>8. QED
  BY <1>5, <1>7

LEMMA CallCloseStep ==
  ASSUME Inv, CallClose
  PROVE  Good(c')
<1> DEFINE o == [op |-> "terminate", parts |-> None]
           z == Append(c.ops, o)
           t == [c EXCEPT !.ops = z, !.closed = TRUE]
<1>2. Good(c) /\ DOMAIN c = Fields /\ ~c.busy
  BY DEF Inv, Good, Sound, Solid, CallClose
<1>3. o \in Ops /\ o.op = "terminate"
  BY DEF Ops, Lists
<1>4. LastCall(c.ops, FALSE)
  BY <1>2 DEF Good, Sound, Solid, QueuesOK, LastCall
<1>5. c' = t
  BY <1>2 DEF CallClose, Fields
<1> HIDE DEF o, z
<1>6. /\ DOMAIN t = Fields /\ SameFlags(c, t) /\ SameWire(c, t) /\ SameParts(c, t) /\ SameJoin(c, t)
      /\ t.proto = c.proto /\ t.terminate = c.terminate /\ t.group = c.group
      /\ t.ops = z /\ t.appq = c.appq
  BY <1>2 DEF Fields, SameFlags, SameWire, SameParts, SameJoin
<1> HIDE DEF t
<1>7. Good(t)
  BY <1>2, <1>3, <1>4, <1>6, CalledGood DEF z
<1>8. QED
  BY <1>5, <1>7

LEMMA PollStep ==
  ASSUME Inv, Poll
  PROVE  Good(c')
<1>1. Good(c) /\ DOMAIN c = Fields /\ ~c.busy /\ c.appq \in Seq(AppOps)
  BY DEF Inv, Good, Sound, Solid, QueuesOK, Poll
<1>2. CASE c.appq = <<>>
  <2>1. c' = [c EXCEPT !.late = FALSE]
    BY <1>2 DEF Poll
  <2>2. QED
    BY <1>1, <2>1, FlagGood
<1>3. CASE c.appq # <<>>
  <2> DEFINE o == Head(c.appq)
             q1 == Tail(c.appq)
             z == Append(c.ops, o)
             u == [c EXCEPT !.ops = z, !.busy = TRUE]
             t == [u EXCEPT !.appq = q1, !.late = FALSE]
  <2>1. o \in AppOps
    BY <1>1, <1>3, HeadTailProperties
  <2>2. o = [op |-> o.op, parts |-> o.parts] /\ o \in Ops /\ o.op # "terminate"
    BY <2>1 DEF AppOps, Ops
  <2>3. c' = t
    <3>1. CallOp(o.op, o.parts) = u
      BY <1>1, <2>2 DEF CallOp, Fields
    <3>2. u.appq = c.appq
      BY <1>1 DEF Fields
    <3>3. c' = [u EXCEPT !.appq = Tail(@), !.late = FALSE]
      BY <1>3, <3>1 DEF Poll
    <3> HIDE DEF u
    <3>4. QED
      BY <3>2, <3>3
  <2>4. LastCall(c.ops, FALSE)
    BY <1>1 DEF Good, Sound, Solid, QueuesOK, LastCall
  <2> HIDE DEF o, q1, z
  <2>5. /\ DOMAIN t = Fields /\ SameFlags(c, t) /\ SameWire(c, t) /\ SameParts(c, t) /\ SameJoin(c, t)
        /\ t.proto = c.proto /\ t.terminate = c.terminate /\ t.group = c.group
        /\ t.ops = z /\ t.busy /\ t.appq = q1
    BY <1>1 DEF Fields, SameFlags, SameWire, SameParts, SameJoin
  <2> HIDE DEF t
  <2>6. Good(t)
    BY <1>1, <1>3, <2>2, <2>4, <2>5, CalledGood DEF z, o, q1
  <2>7. QED
    BY <2>3, <2>6
<1>4. QED
  BY <1>2, <1>3

-----------------------------------------------------------------------------
(* The coordinator. *)

\* What Forget and Age leave alone.
Renamed(s, t) ==
  /\ DOMAIN t = Fields /\ SameFlags(s, t) /\ SameQueues(s, t) /\ SameParts(s, t)
  /\ SameView(s, t) /\ JoinOK(t) /\ SubsOK(t) /\ ListsOK(t) /\ t.state = s.state
  /\ t.wait_resp = s.wait_resp /\ t.hb = s.hb
  /\ LikeReplies(s.resp, t.resp) /\ LikeRequests(s.net, t.net)

Names == {<<"member", "known", "gone">>, <<"gen", "current", "old">>}

LEMMA NewNameType ==
  ASSUME NEW field, NEW from, NEW to, <<field, from, to>> \in Names
  PROVE  /\ \A q \in Requests :
              /\ NewName(q, field, from, to) \in Requests
              /\ NewName(q, field, from, to).api = q.api
         /\ \A r \in Replies :
              /\ NewName(r, field, from, to) \in Replies
              /\ NewName(r, field, from, to).req = r.req
<1>1. CASE field = "member" /\ from = "known" /\ to = "gone"
  BY <1>1 DEF NewName, Requests, Replies, Members
<1>2. CASE field = "gen" /\ from = "current" /\ to = "old"
  BY <1>2 DEF NewName, Requests, Replies, Gens
<1>3. QED
  BY <1>1, <1>2 DEF Names

LEMMA NewRequests ==
  ASSUME NEW field, NEW from, NEW to, <<field, from, to>> \in Names, NEW q \in Seq(Requests)
  PROVE  LikeRequests(q, [i \in DOMAIN q |-> NewName(q[i], field, from, to)])
<1> DEFINE New(r) == NewName(r, field, from, to)
           n == Len(q)
           z == [i \in 1 .. n |-> New(q[i])]
<1>1. n \in Nat /\ DOMAIN q = 1 .. n /\ \A i \in 1 .. n : q[i] \in Requests
  OBVIOUS
<1>2. \A r \in Requests : New(r) \in Requests /\ New(r).api = r.api
  BY NewNameType
<1> HIDE DEF New, n
<1>3. z \in [1 .. n -> Requests] /\ \A i \in 1 .. n : z[i].api = q[i].api
  BY <1>1, <1>2
<1>4. z = [i \in DOMAIN q |-> New(q[i])]
  BY <1>1
<1> HIDE DEF z
<1>5. z \in Seq(Requests) /\ Len(z) = n
  BY <1>1, <1>3
<1>6. LikeRequests(q, z)
  BY <1>3, <1>5 DEF LikeRequests, n
<1>7. QED
  BY <1>4, <1>6 DEF New

LEMMA NewReplies ==
  ASSUME NEW field, NEW from, NEW to, <<field, from, to>> \in Names, NEW p \in Seq(Replies)
  PROVE  LikeReplies(p, [i \in DOMAIN p |-> NewReply(p[i], field, from, to)])
<1> DEFINE New(r) == NewName(r, field, from, to)
           Newer(r) == NewReply(r, field, from, to)
           n == Len(p)
           z == [i \in 1 .. n |-> Newer(p[i])]
<1>1. n \in Nat /\ DOMAIN p = 1 .. n /\ \A i \in 1 .. n : p[i] \in Replies
  OBVIOUS
<1>2. /\ \A q \in Requests : New(q) \in Requests /\ New(q).api = q.api
      /\ \A r \in Replies : New(r) \in Replies /\ New(r).req = r.req
  BY NewNameType
<1>3. ASSUME NEW r \in Replies PROVE Newer(r) \in Replies /\ Newer(r).req.api = r.req.api
  <2>1. Newer(r) = [New(r) EXCEPT !.req = New(New(r).req)]
    BY DEF NewReply
  <2>2. New(r) \in Replies /\ New(r).req = r.req /\ r.req \in Requests
    BY <1>2 DEF Replies
  <2>3. New(r.req) \in Requests /\ New(r.req).api = r.req.api
    BY <1>2, <2>2
  <2> HIDE DEF New, Newer
  <2>4. QED
    BY <2>1, <2>2, <2>3 DEF Replies
<1>4. z = [i \in DOMAIN p |-> Newer(p[i])]
  BY <1>1
<1>5. LikeReplies(p, z)
  <2> HIDE DEF Newer, n
  <2>1. z \in [1 .. n -> Replies] /\ \A i \in 1 .. n : z[i].req.api = p[i].req.api
    BY <1>1, <1>3
  <2> HIDE DEF z
  <2>2. z \in Seq(Replies) /\ Len(z) = n
    BY <1>1, <2>1
  <2>3. QED
    BY <2>1, <2>2 DEF LikeReplies, n
<1> HIDE DEF z
<1>6. QED
  BY <1>4, <1>5

\* The state that the coordinator's steps start from.
Bare(s) ==
  /\ DOMAIN s = Fields /\ JoinOK(s) /\ SubsOK(s) /\ ListsOK(s)
  /\ s.resp \in Seq(Replies) /\ s.net \in Seq(Requests)

LEMMA SameRenamed ==
  ASSUME NEW s, Bare(s)
  PROVE  Renamed(s, s)
BY DEF Bare, Renamed, SameFlags, SameQueues, SameParts, SameView, LikeReplies, LikeRequests

LEMMA RenameRenamed ==
  ASSUME NEW s, NEW field, NEW from, NEW to, <<field, from, to>> \in Names, Bare(s)
  PROVE  /\ Renamed(s, Rename(s, field, from, to))
         /\ Rename(s, field, from, to).terminated = s.terminated
<1> DEFINE New(r) == NewName(r, field, from, to)
           u == New(s)
           q == [i \in DOMAIN s.net |-> New(s.net[i])]
           p == [i \in DOMAIN s.resp |-> NewReply(s.resp[i], field, from, to)]
           t == [u EXCEPT !.net = q, !.resp = p]
<1>1. DOMAIN s = Fields /\ JoinOK(s) /\ SubsOK(s) /\ ListsOK(s)
      /\ s.resp \in Seq(Replies) /\ s.net \in Seq(Requests)
  BY DEF Bare
<1>2. LikeRequests(s.net, q)
  BY <1>1, NewRequests
<1>3. LikeReplies(s.resp, p)
  BY <1>1, NewReplies
<1>4. /\ DOMAIN u = Fields /\ SameFlags(s, u) /\ SameQueues(s, u) /\ SameParts(s, u)
      /\ SameView(s, u) /\ SameWire(s, u) /\ u.state = s.state /\ u.join_state = s.join_state
      /\ u.subscription = s.subscription /\ u.next_sub = s.next_sub /\ u.cached = s.cached
      /\ u.topics = s.topics /\ u.exists = s.exists /\ u.meta = s.meta
      /\ u.incr = s.incr /\ u.assignor = s.assignor /\ u.leader = s.leader
      /\ u.terminated = s.terminated /\ u.member \in Members /\ u.gen \in Gens
  <2>1. CASE field = "member" /\ from = "known" /\ to = "gone"
    BY <1>1, <2>1 DEF NewName, Fields, SameFlags, SameQueues, SameParts, SameView, SameWire, Members,
                      JoinOK
  <2>2. CASE field = "gen" /\ from = "current" /\ to = "old"
    BY <1>1, <2>2 DEF NewName, Fields, SameFlags, SameQueues, SameParts, SameView, SameWire, Gens,
                      JoinOK
  <2>3. QED
    BY <2>1, <2>2 DEF Names
<1>5. Rename(s, field, from, to) = t
  BY DEF Rename
<1> HIDE DEF u, p, q
<1>6. /\ DOMAIN t = Fields /\ SameFlags(u, t) /\ SameQueues(u, t) /\ SameParts(u, t)
      /\ SameView(u, t) /\ t.state = u.state /\ t.join_state = u.join_state
      /\ t.subscription = u.subscription /\ t.next_sub = u.next_sub /\ t.cached = u.cached
      /\ t.topics = u.topics /\ t.exists = u.exists /\ t.meta = u.meta
      /\ t.incr = u.incr /\ t.assignor = u.assignor /\ t.leader = u.leader
      /\ t.terminated = u.terminated /\ t.member = u.member /\ t.gen = u.gen
      /\ t.wait_resp = u.wait_resp /\ t.hb = u.hb /\ t.net = q /\ t.resp = p
  BY <1>4 DEF Fields, SameFlags, SameQueues, SameParts, SameView
<1> HIDE DEF t
<1>7. SameFlags(s, t) /\ SameQueues(s, t) /\ SameParts(s, t) /\ SameView(s, t)
  BY <1>4, <1>6 DEF SameFlags, SameQueues, SameParts, SameView
<1>8. JoinOK(t) /\ SubsOK(t) /\ ListsOK(t)
  BY <1>1, <1>4, <1>6, <1>7 DEF JoinOK, SubsOK, ListsOK, SameView, SameWire
<1>9. QED
  BY <1>2, <1>3, <1>4, <1>5, <1>6, <1>7, <1>8 DEF Renamed, SameWire

LEMMA NamesRenamed ==
  ASSUME NEW s, Bare(s)
  PROVE  /\ Renamed(s, Forget(s)) /\ Forget(s).terminated = s.terminated
         /\ Renamed(s, Age(s)) /\ Age(s).terminated = s.terminated
<1>1. <<"member", "known", "gone">> \in Names /\ <<"gen", "current", "old">> \in Names
  BY DEF Names
<1>2. QED
  BY <1>1, RenameRenamed DEF Forget, Age

LEMMA RenamedGood ==
  ASSUME NEW s, NEW t, Good(s), Renamed(s, t)
  PROVE  Good(t)
<1>1. Wire(s.resp, s.net, s.wait_resp, s.hb)
  BY DEF Good, Sound, Solid, WireOK
<1>2. Wire(t.resp, t.net, s.wait_resp, s.hb)
  BY <1>1, RenameWire DEF Renamed
<1>3. WireOK(t)
  BY <1>2 DEF WireOK, Renamed
<1>4. QED
  BY <1>3, WireFrame DEF Renamed

LEMMA AppendLike ==
  ASSUME NEW p \in Seq(Replies), NEW p1, LikeReplies(p, p1), NEW r \in Replies
  PROVE  LikeReplies(Append(p, r), Append(p1, r))
<1> DEFINE n == Len(p)
           y == Append(p, r)
           z == Append(p1, r)
<1>1. p1 \in Seq(Replies) /\ Len(p1) = n /\ \A i \in 1 .. n : p1[i].req.api = p[i].req.api
  BY DEF LikeReplies
<1>2. /\ Len(y) = n + 1 /\ y[n + 1] = r /\ \A i \in 1 .. n : y[i] = p[i]
  BY AppendProperties
<1>3. /\ z \in Seq(Replies) /\ Len(z) = n + 1 /\ z[n + 1] = r /\ \A i \in 1 .. n : z[i] = p1[i]
  BY <1>1, AppendProperties
<1>4. n \in Nat
  OBVIOUS
<1> HIDE DEF n, y, z
<1>5. \A i \in 1 .. (n + 1) : i \in 1 .. n \/ i = n + 1
  BY <1>4
<1>6. LikeReplies(y, z)
  BY <1>1, <1>2, <1>3, <1>5 DEF LikeReplies
<1>7. QED
  BY <1>6 DEF y, z

\* The first request is answered with r, by a coordinator that has renamed s to u.
LEMMA AnswerGood ==
  ASSUME NEW s, NEW s1, NEW u, NEW r \in Replies, Good(s), s.net # <<>>,
         r.req.api = Head(s.net).api, s1 = [s EXCEPT !.net = Tail(@)], Renamed(s1, u)
  PROVE  Good(Answer(u, r))
<1> DEFINE p == Append(u.resp, r)
           t == [u EXCEPT !.resp = p]
<1>1. DOMAIN s = Fields /\ Wire(s.resp, s.net, s.wait_resp, s.hb)
  BY DEF Good, Sound, Solid, WireOK
<1>2. /\ SameFlags(s, s1) /\ SameQueues(s, s1) /\ SameParts(s, s1) /\ SameView(s, s1)
      /\ s1.state = s.state /\ s1.wait_resp = s.wait_resp /\ s1.hb = s.hb
      /\ s1.net = Tail(s.net) /\ s1.resp = s.resp
  BY <1>1 DEF Fields, SameFlags, SameQueues, SameParts, SameView
<1>3. /\ DOMAIN u = Fields /\ SameFlags(s, u) /\ SameQueues(s, u) /\ SameParts(s, u)
      /\ SameView(s, u) /\ JoinOK(u) /\ SubsOK(u) /\ ListsOK(u) /\ u.state = s.state
      /\ u.wait_resp = s.wait_resp /\ u.hb = s.hb
      /\ LikeReplies(s.resp, u.resp) /\ LikeRequests(Tail(s.net), u.net)
  BY <1>2 DEF Renamed, SameFlags, SameQueues, SameParts, SameView
<1>4. CASE u.terminated
  <2>1. Wire(s.resp, Tail(s.net), s.wait_resp, s.hb)
    BY <1>1, DropWire
  <2>2. Wire(u.resp, u.net, s.wait_resp, s.hb)
    BY <1>3, <2>1, RenameWire
  <2>3. WireOK(u)
    BY <1>3, <2>2 DEF WireOK
  <2>4. Good(u)
    BY <1>3, <2>3, WireFrame
  <2>5. QED
    BY <1>4, <2>4 DEF Answer
<1>5. CASE ~u.terminated
  <2>1. Wire(Append(s.resp, r), Tail(s.net), s.wait_resp, s.hb)
    BY <1>1, AnswerWire
  <2>2. LikeReplies(Append(s.resp, r), p)
    BY <1>1, <1>3, AppendLike DEF Wire
  <2>3. Answer(u, r) = t
    BY <1>3, <1>5 DEF Answer, Fields
  <2> HIDE DEF p
  <2>4. Wire(p, u.net, s.wait_resp, s.hb)
    BY <1>3, <2>1, <2>2, RenameWire
  <2>5. /\ DOMAIN t = Fields /\ SameFlags(u, t) /\ SameQueues(u, t) /\ SameParts(u, t)
        /\ SameView(u, t) /\ SameJoin(u, t)
        /\ t.wait_resp = u.wait_resp /\ t.hb = u.hb /\ t.net = u.net /\ t.resp = p
    BY <1>3 DEF Fields, SameFlags, SameQueues, SameParts, SameView, SameJoin
  <2> HIDE DEF t
  <2>6. WireOK(t)
    BY <1>3, <2>4, <2>5 DEF WireOK
  <2>7. JoinOK(t) /\ SubsOK(t) /\ ListsOK(t)
    BY <1>3, <2>5 DEF JoinOK, SubsOK, ListsOK, SameJoin, SameView
  <2>8. SameFlags(s, t) /\ SameQueues(s, t) /\ SameParts(s, t) /\ SameView(s, t) /\ t.state = s.state
    BY <1>3, <2>5 DEF SameFlags, SameQueues, SameParts, SameView, SameJoin
  <2>9. Good(t)
    BY <2>5, <2>6, <2>7, <2>8, WireFrame
  <2>10. QED
    BY <2>3, <2>9
<1>6. QED
  BY <1>4, <1>5

LEMMA PoppedBare ==
  ASSUME NEW s, NEW s1, Good(s), s.net # <<>>, s1 = [s EXCEPT !.net = Tail(@)]
  PROVE  Bare(s) /\ Bare(s1) /\ Head(s.net) \in Requests
<1> DEFINE q == Tail(s.net)
<1>1. DOMAIN s = Fields /\ JoinOK(s) /\ SubsOK(s) /\ ListsOK(s)
      /\ s.resp \in Seq(Replies) /\ s.net \in Seq(Requests)
  BY DEF Good, Sound, Solid, WireOK, Wire
<1>2. q \in Seq(Requests) /\ Head(s.net) \in Requests
  BY <1>1, HeadTailProperties
<1>3. s1 = [s EXCEPT !.net = q]
  BY <1>1 DEF Fields
<1> HIDE DEF q
<1>4. Bare(s1)
  BY <1>1, <1>2, <1>3 DEF Bare, JoinOK, SubsOK, ListsOK, Fields
<1>5. QED
  BY <1>1, <1>2, <1>4 DEF Bare

\* What the coordinator knows of the assignment.
Coordinated(w) == DOMAIN w = Coords /\ w.assigned \subseteq Parts

LEMMA CoordinatorKnows ==
  ASSUME Inv
  PROVE  /\ Coordinated(k) /\ Coordinated(Drop)
         /\ \A req \in Requests : Coordinated(Complete(req))
<1>1. Coordinated(k)
  BY DEF Inv, Coordinated
<1>2. Coordinated(Drop)
  BY <1>1 DEF Coordinated, Drop, Coords
<1>3. ASSUME NEW req \in Requests PROVE Coordinated(Complete(req))
  <2> DEFINE mine == k.target \cap req.topics
             given == IF c.proto = "EAGER" THEN mine ELSE mine \ k.others
  <2>1. mine \subseteq Parts
    BY DEF Requests
  <2>2. Complete(req).assigned = given /\ DOMAIN Complete(req) = Coords
    BY <1>1 DEF Complete, Coordinated, Coords
  <2> HIDE DEF mine
  <2>3. given \subseteq Parts
    BY <2>1
  <2>4. QED
    BY <2>2, <2>3 DEF Coordinated
<1>4. QED
  BY <1>1, <1>2, <1>3

LEMMA CoordinatorStep ==
  ASSUME Inv, Coordinator
  PROVE  Good(c') /\ Coordinated(k')
<1> DEFINE req == Head(c.net)
           s == [c EXCEPT !.net = Tail(@)]
<1>1. Good(c) /\ c.net # <<>>
  BY DEF Inv, Coordinator
<1>2. Bare(s) /\ req \in Requests
  BY <1>1, PoppedBare
<1>3. /\ \/ req.api = "JoinGroup" /\ CoordinatorJoin(s, req)
         \/ req.api = "LeaveGroup" /\ CoordinatorLeave(s, req)
         \/ /\ req.api \in {"SyncGroup", "Heartbeat"}
            /\ c' = Answer(s, Reply(req, MemberError(req),
                                    IF req.api = "SyncGroup" THEN k.assigned ELSE {}, FALSE))
            /\ UNCHANGED k
  BY DEF Coordinator
<1>4. s = [c EXCEPT !.net = Tail(@)]
  OBVIOUS
<1>5. Coordinated(k) /\ Coordinated(Drop) /\ Coordinated(Complete(req)) /\ k.assigned \subseteq Parts
  BY <1>2, CoordinatorKnows DEF Coordinated
<1>6. /\ {} \in SUBSET Parts
      /\ {"ok", "MEMBER_ID_REQUIRED", "UNKNOWN_MEMBER_ID"} \subseteq Errors /\ MemberError(req) \in Errors
  BY DEF Errors, MemberError
<1>7. FALSE \in BOOLEAN
  BY Zenon
<1> HIDE DEF s
<1>8. ASSUME NEW u \in {s, Forget(s), Age(s)}, NEW r \in Replies, r.req.api = req.api
      PROVE  Good(Answer(u, r))
  <2>1. Renamed(s, u)
    BY <1>2, <1>8, SameRenamed, NamesRenamed
  <2>2. QED
    BY <1>1, <1>4, <1>8, <2>1, AnswerGood
<1> HIDE DEF req
<1>9. CASE req.api = "JoinGroup" /\ CoordinatorJoin(s, req)
  <2>1. CASE /\ c' = Answer(Forget(s), Reply(req, "MEMBER_ID_REQUIRED", {}, FALSE))
             /\ k' = IF k.member THEN Drop ELSE k
    <3> DEFINE r == Reply(req, "MEMBER_ID_REQUIRED", {}, FALSE)
    <3>1. r \in Replies /\ r.req.api = req.api
      BY <1>2, <1>6, <1>7, ReplyType
    <3> HIDE DEF r
    <3>2. Good(Answer(Forget(s), r))
      BY <1>8, <3>1
    <3>3. QED
      BY <1>5, <2>1, <3>2 DEF r
  <2>2. CASE /\ c' = Answer(s, Reply(req, "UNKNOWN_MEMBER_ID", {}, FALSE))
             /\ UNCHANGED k
    <3> DEFINE r == Reply(req, "UNKNOWN_MEMBER_ID", {}, FALSE)
    <3>1. r \in Replies /\ r.req.api = req.api
      BY <1>2, <1>6, <1>7, ReplyType
    <3> HIDE DEF r
    <3>2. Good(Answer(s, r))
      BY <1>8, <3>1
    <3>3. QED
      BY <1>5, <2>2, <3>2 DEF r
  <2>3. CASE /\ \E leader \in IF k.peers THEN BOOLEAN ELSE {TRUE} :
                  c' = Answer(Age(s), Reply(req, "ok", {}, leader))
             /\ k' = Complete(req)
    <3>1. PICK leader \in BOOLEAN : c' = Answer(Age(s), Reply(req, "ok", {}, leader))
      BY <2>3, Zenon
    <3> DEFINE r == Reply(req, "ok", {}, leader)
    <3>2. r \in Replies /\ r.req.api = req.api
      BY <1>2, <1>6, ReplyType
    <3> HIDE DEF r
    <3>3. Good(Answer(Age(s), r))
      BY <1>8, <3>2
    <3>4. QED
      BY <1>5, <2>3, <3>1, <3>3 DEF r
  <2>4. QED
    BY <1>9, <2>1, <2>2, <2>3 DEF CoordinatorJoin
<1>10. CASE req.api = "LeaveGroup" /\ CoordinatorLeave(s, req)
  <2>1. CASE c' = Answer(Forget(s), Reply(req, "ok", {}, FALSE)) /\ k' = Drop
    <3> DEFINE r == Reply(req, "ok", {}, FALSE)
    <3>1. r \in Replies /\ r.req.api = req.api
      BY <1>2, <1>6, <1>7, ReplyType
    <3> HIDE DEF r
    <3>2. Good(Answer(Forget(s), r))
      BY <1>8, <3>1
    <3>3. QED
      BY <1>5, <2>1, <3>2 DEF r
  <2>2. CASE c' = Answer(s, Reply(req, "UNKNOWN_MEMBER_ID", {}, FALSE)) /\ UNCHANGED k
    <3> DEFINE r == Reply(req, "UNKNOWN_MEMBER_ID", {}, FALSE)
    <3>1. r \in Replies /\ r.req.api = req.api
      BY <1>2, <1>6, <1>7, ReplyType
    <3> HIDE DEF r
    <3>2. Good(Answer(s, r))
      BY <1>8, <3>1
    <3>3. QED
      BY <1>5, <2>2, <3>2 DEF r
  <2>3. QED
    BY <1>10, <2>1, <2>2 DEF CoordinatorLeave
<1>11. CASE /\ c' = Answer(s, Reply(req, MemberError(req),
                                    IF req.api = "SyncGroup" THEN k.assigned ELSE {}, FALSE))
            /\ UNCHANGED k
  <2> DEFINE P == IF req.api = "SyncGroup" THEN k.assigned ELSE {}
             r == Reply(req, MemberError(req), P, FALSE)
  <2>1. P \in SUBSET Parts
    BY <1>5
  <2> HIDE DEF P
  <2>2. r \in Replies /\ r.req.api = req.api
    BY <1>2, <1>6, <1>7, <2>1, ReplyType
  <2> HIDE DEF r
  <2>3. Good(Answer(s, r))
    BY <1>8, <2>2
  <2>4. QED
    BY <1>5, <1>11, <2>3 DEF r, P
<1>12. QED
  BY <1>3, <1>9, <1>10, <1>11

LEMMA EvictStep ==
  ASSUME Inv, Evict
  PROVE  Good(c') /\ Coordinated(k')
<1>1. Good(c) /\ c' = Forget(c) /\ k' = Drop
  BY DEF Inv, Evict
<1>2. Bare(c)
  BY <1>1 DEF Good, Sound, Solid, WireOK, Wire, Bare
<1>3. Good(Forget(c))
  BY <1>1, <1>2, NamesRenamed, RenamedGood
<1>4. QED
  BY <1>1, <1>3, CoordinatorKnows

-----------------------------------------------------------------------------
(* The invariant. *)

LEMMA InitInv ==
  ASSUME Init
  PROVE  Inv
<1>1. PICK start \in Starts : c = Group(start)
  BY DEF Init
<1>2. start.proto \in {"EAGER", "COOPERATIVE"} /\ start.cached \subseteq Parts
  BY CgrpSets
<1>3. DOMAIN c = Fields /\ ~c.failed /\ ~c.refused /\ c.removed = {}
  BY <1>1 DEF Group, Fields
<1>4. JoinOK(c) /\ SubsOK(c) /\ ListsOK(c) /\ AssignmentOK(c) /\ TermOK(c)
  BY <1>1, <1>2 DEF Group, JoinOK, SubsOK, ListsOK, AssignmentOK, TermOK, JoinStates, Waits,
                    Members, Gens, Lists
<1>5. /\ c.resp = <<>> /\ c.net = <<>> /\ c.ops = <<>> /\ c.appq = <<>>
      /\ c.group = None /\ c.all = {}
  BY <1>1 DEF Group
<1>6. WireOK(c)
  <2>1. Outstanding(<<>>, <<>>) = 0
    BY DEF Outstanding
  <2>2. QED
    BY <1>5, <2>1 DEF WireOK, Wire
<1>7. QueuesOK(c)
  BY <1>5 DEF QueuesOK
<1>8. ViewOK(c)
  <2> DEFINE v == [i \in 0 .. 0 |-> {}]
             q == <<>>
  <2>1. Len(q) = 0 /\ ~Calling(q)
    BY DEF Calling
  <2>2. v \in [0 .. 0 -> SUBSET Parts] /\ v[0] = {}
    OBVIOUS
  <2> HIDE DEF v, q
  <2>3. Path(q, v, {}, {}) /\ v \in [0 .. Len(q) -> SUBSET Parts]
    BY <2>1, <2>2 DEF Path
  <2>4. Leads(q, {}, {}) /\ Base(q, {}, {}) /\ Elems(None) = {}
    BY <2>1, <2>3 DEF Leads, Base, Elems
  <2>5. View(q, {}, q, None)
    BY <2>4 DEF View
  <2>6. QED
    BY <1>5, <2>5 DEF ViewOK, q
<1>9. Good(c)
  BY <1>3, <1>4, <1>6, <1>7, <1>8 DEF Good, Sound, Solid
<1>10. QED
  BY <1>9 DEF Init, Inv, Coords

LEMMA NextInv ==
  ASSUME Inv, [Next]_vars
  PROVE  Inv'
<1>1. SUFFICES Good(c') /\ Coordinated(k')
  BY DEF Inv, Coordinated
<1>2. Coordinated(k)
  BY CoordinatorKnows
<1>3. CASE CgrpServe
  BY <1>2, <1>3, CgrpServeStep DEF CgrpServe
<1>4. CASE CoordinatorUp
  BY <1>2, <1>4, CoordinatorUpStep DEF CoordinatorUp
<1>5. CASE ServeOp
  BY <1>2, <1>5, ServeOpStep DEF ServeOp
<1>6. CASE ServeReply
  BY <1>2, <1>6, ServeReplyStep DEF ServeReply
<1>7. CASE AssignorMetadata
  BY <1>2, <1>7, AssignorMetadataStep DEF AssignorMetadata
<1>8. CASE MetadataReply
  BY <1>2, <1>8, MetadataReplyStep DEF MetadataReply
<1>9. ASSUME NEW p \in Parts, PartitionStopped(p) PROVE Good(c') /\ Coordinated(k')
  BY <1>2, <1>9, PartitionStoppedStep DEF PartitionStopped
<1>10. CASE OffsetsFetched
  BY <1>2, <1>10, OffsetsFetchedStep DEF OffsetsFetched
<1>11. CASE SessionTimeout \/ SessionStarved
  BY <1>2, <1>11, SessionExpiresStep DEF SessionTimeout, SessionStarved, SessionExpires
<1>12. CASE MaxPollExceeded
  BY <1>2, <1>12, MaxPollExceededStep DEF MaxPollExceeded
<1>13. CASE TopicsChange
  BY <1>2, <1>13, TopicsChangeStep DEF Coordinated
<1>14. CASE Disconnect
  BY <1>2, <1>14, DisconnectStep DEF Disconnect
<1>15. CASE CallSubscribe
  BY <1>2, <1>15, CallSubscribeStep DEF CallSubscribe
<1>16. CASE Poll
  BY <1>2, <1>16, PollStep DEF Poll
<1>17. CASE CallClose
  BY <1>2, <1>17, CallCloseStep DEF CallClose
<1>18. CASE Coordinator
  BY <1>18, CoordinatorStep
<1>19. CASE Evict
  BY <1>19, EvictStep
<1>20. CASE PeersChange
  <2>1. c' = c /\ DOMAIN k' = DOMAIN k /\ k'.assigned = k.assigned
    BY <1>2, <1>20 DEF PeersChange, Coordinated, Coords
  <2>2. QED
    BY <1>2, <2>1 DEF Inv, Coordinated
<1>21. CASE PeersRejoin
  <2>1. c' = c /\ DOMAIN k' = DOMAIN k /\ k'.assigned = k.assigned
    BY <1>2, <1>21 DEF PeersRejoin, Coordinated, Coords
  <2>2. QED
    BY <1>2, <2>1 DEF Inv, Coordinated
<1>22. CASE UNCHANGED vars
  BY <1>2, <1>22 DEF vars, Inv
<1>23. QED
  BY <1>3, <1>4, <1>5, <1>6, <1>7, <1>8, <1>9, <1>10, <1>11, <1>12, <1>13, <1>14, <1>15, <1>16,
     <1>17, <1>18, <1>19, <1>20, <1>21, <1>22 DEF Next, MainThread

\* The inductive invariant holds in every reachable state: what the group waits for is
\* what is outstanding with the coordinator, and the assignment, the calls under way
\* and the assignment of the group fit together (Inv).
THEOREM Inductive == Spec => []Inv
<1>1. Init => Inv
  BY InitInv
<1>2. Inv /\ [Next]_vars => Inv'
  BY NextInv
<1>3. QED
  BY <1>1, <1>2, PTL DEF Spec

\* The fields of the consumer group keep their types, a partition is queried only
\* while it is assigned and no fetcher is left behind, for any topics, any
\* subscriptions and any number of faults (TypeOK).
THEOREM TypeCorrect == Spec => []TypeOK
<1>1. Inv => TypeOK
  BY DEF Inv, Good, Sound, Solid, JoinOK, SubsOK, ListsOK, AssignmentOK, TypeOK, Waits, Members,
         Gens, Lists
<1>2. QED
  BY <1>1, Inductive, PTL

\* No assertion of the group fails but the three of Abort: at most one JoinGroup or
\* SyncGroup is outstanding and it is the one awaited, and every rebalance op fits
\* the assignment that the group has (AssertsHold).
THEOREM AssertsNeverFail == Spec => []AssertsHold
<1>1. Inv => AssertsHold
  BY DEF Inv, Good, Sound, Solid, AssertsHold
<1>2. QED
  BY <1>1, Inductive, PTL

\* The calls of the rebalance callback are never refused: those under way and those
\* to come lead from the assignment to the one that the group has (RebalanceCallsSucceed).
THEOREM CallsSucceed == Spec => []RebalanceCallsSucceed
<1>1. Inv => RebalanceCallsSucceed
  BY DEF Inv, Good, Sound, Solid, RebalanceCallsSucceed
<1>2. QED
  BY <1>1, Inductive, PTL
=============================================================================
