------------------------ MODULE ShareConsumer_proofs ------------------------
(***************************************************************************)
(* The safety properties of the share consumer, for any number of brokers, *)
(* partitions, records, calls and faults.                                  *)
(*                                                                         *)
(* A state is the record s that the handlers of the main thread transform  *)
(* (see State), the queue q of the main thread, the queue w of responses   *)
(* and the cluster v.  The invariant is a conjunction of predicates on     *)
(* these, and there is a lemma for what each handler does to each.         *)
(***************************************************************************)
EXTENDS ShareConsumer, FiniteSetTheorems, SequenceTheorems, TLAPS

-----------------------------------------------------------------------------
(* The share ops a broker has out. *)

IsSeq(q) == q \in Seq({q[i] : i \in DOMAIN q})
AtMostOne(S) == \A i, j \in S : i = j

\* Where they are, for the queues x and y of broker b, what it was given and what it has
\* sent, and the queue q of the main thread.
RepliesOf(q, b) == {i \in DOMAIN q : q[i].type = "REPLY" /\ q[i].broker = b}
OutOps(x, y, q, b) ==
  {x[i] : i \in Ops(x)} \cup {y[i] : i \in DOMAIN y} \cup {q[i].op : i \in RepliesOf(q, b)}
Exclusive(x, y, q, b) ==
  /\ AtMostOne(Ops(x)) /\ AtMostOne(DOMAIN y) /\ AtMostOne(RepliesOf(q, b))
  /\ Ops(x) # {} => DOMAIN y = {} /\ RepliesOf(q, b) = {}
  /\ DOMAIN y # {} => RepliesOf(q, b) = {}

OutOf(s, q, b) == OutOps(s.rkb[b].ops, s.rkb[b].sent, q, b)

OpFields == {"type", "fetch", "leave", "sync", "acks", "code", "wire", "epoch", "records", "err"}

\* A share op: what goes out is all of its acknowledgements or none, and only a fetch
\* brings records.
IsOp(o) ==
  /\ DOMAIN o = OpFields /\ o.type = "SHARE_FETCH"
  /\ o.acks \subseteq Records /\ o.wire \in {o.acks, {}}
  /\ DOMAIN o.code = Partitions /\ \A p \in Partitions : o.code[p] \in Codes
  /\ o.sync \in Nat /\ (o.records => o.fetch) /\ o.epoch \in -1 .. 1

-----------------------------------------------------------------------------
(* Structure: every broker has its op out exactly while its flag says so. *)

AppFields == {"at", "explicit", "requested", "map", "typed", "synced", "result", "built",
              "given", "commits"}
MainFields == {"more", "fetches", "leaves", "terminate", "sync", "counter"}
BrokerFields == {"enq", "async", "pend", "pendid", "term", "up", "epoch", "ops", "sent", "resp"}
CallStates == {"idle", "poll", "sync", "close", "closed"}

Shape(s) ==
  /\ DOMAIN s = {"app", "main", "rkb", "cb"}
  /\ DOMAIN s.app = AppFields /\ s.app.at \in CallStates
  /\ DOMAIN s.main = MainFields /\ DOMAIN s.main.sync = {"id", "cnt", "results"}
  /\ DOMAIN s.main.sync.results = Partitions /\ DOMAIN s.app.result = Partitions
  /\ s.main.counter \in Nat /\ s.main.sync.id \in Nat
  /\ s.cb \in [Records -> {"none", "ok", "err"}]
  /\ DOMAIN s.rkb = Brokers

QueueTypes == {"FETCH_FANOUT", "COMMIT_ASYNC_FANOUT", "COMMIT_SYNC_FANOUT", "TERMINATE", "REPLY"}

QueueOK(q) ==
  /\ IsSeq(q)
  /\ \A i \in DOMAIN q :
       /\ q[i].type \in QueueTypes
       /\ q[i].type = "REPLY" => q[i].broker \in Brokers
       /\ q[i].type # "REPLY" => q[i].acks \subseteq Records

\* Nothing was received for the share ops of this queue.
Unanswered(x) == \A i \in DOMAIN x : x[i].type = "SHARE_FETCH" => ~x[i].records

\* k is the record of broker b.
BrokerOK(k, q, b) ==
  /\ DOMAIN k = BrokerFields /\ IsSeq(k.ops) /\ IsSeq(k.sent)
  /\ \A i \in DOMAIN k.ops : k.ops[i].type \in {"SHARE_FETCH", "TERMINATE"}
  /\ k.epoch \in -1 .. 1 /\ k.pendid \in Nat
  /\ k.async \subseteq Records /\ k.pend \subseteq Records
  /\ k.resp # None => k.resp \subseteq Records
  /\ Unanswered(k.ops) /\ Unanswered(k.sent)
  /\ Exclusive(k.ops, k.sent, q, b)
  /\ k.enq <=> OutOps(k.ops, k.sent, q, b) # {}
  /\ \A o \in OutOps(k.ops, k.sent, q, b) : IsOp(o)

Struct(s, q) == Shape(s) /\ QueueOK(q) /\ \A b \in Brokers : BrokerOK(s.rkb[b], q, b)

-----------------------------------------------------------------------------
(* The request for records. *)

Fetching(s, q) == {b \in Brokers : \E o \in OutOf(s, q, b) : o.fetch}

FetchOK(s, q) ==
  \/ s.main.fetches = 0 /\ Fetching(s, q) = {}
  \/ s.main.fetches = 1 /\ s.main.more /\ \E b \in Brokers : Fetching(s, q) = {b}

IsRequest(e) == e.type = "FETCH_FANOUT" /\ e.more
Responding(s, w) == w # <<>> \/ \E b \in Brokers : s.rkb[b].resp # None

\* A reply with records under way means that they are too, unless the application has them
\* and asked again after it.
RequestOK(s, q, w) ==
  /\ \A i \in DOMAIN q :
       q[i].type = "REPLY" /\ q[i].op.records /\ s.app.requested =>
         Responding(s, w) \/ \E j \in DOMAIN q : i < j /\ IsRequest(q[j])
  /\ s.app.requested /\ ~s.main.terminate /\ s.app.at \notin {"close", "closed"} =>
       \/ s.main.more \/ Responding(s, w)
       \/ \E i \in DOMAIN q : IsRequest(q[i])

-----------------------------------------------------------------------------
(* Records on their way to the application: each is delivered once. *)

Known(v, r) == r[2] < v.next[r[1]]
SameSource(v, S) == \A r1, r2 \in S : r1[1] = r2[1] => v.by[r1] = v.by[r2]

ClusterOK(v) ==
  /\ DOMAIN v = {"leader", "supply", "gone", "sess", "next", "by", "lock"}
  /\ DOMAIN v.leader = Partitions /\ \A p \in Partitions : v.leader[p] \in Brokers
  /\ DOMAIN v.next = Partitions /\ \A p \in Partitions : v.next[p] \in Int
  /\ DOMAIN v.by = Records /\ DOMAIN v.lock = Records
  /\ \A r \in Records : v.lock[r] = "done" => Known(v, r)

DeliveryOK(s, w, v) ==
  /\ s.app.typed \subseteq s.app.map
  /\ s.app.map \subseteq s.app.given /\ s.app.built \subseteq s.app.given
  /\ s.app.given \subseteq Records /\ s.app.map \cap s.app.built = {}
  /\ s.app.at = "poll" => s.app.map = {}
  /\ s.app.at \notin {"close", "closed"} => s.app.given \subseteq s.app.map \cup s.app.built
  /\ \A r \in s.app.given : Known(v, r)
  /\ SameSource(v, s.app.map)
  /\ IsSeq(w)
  /\ \A i \in DOMAIN w :
       /\ w[i] \subseteq Records /\ w[i] \cap s.app.given = {}
       /\ \A r \in w[i] : Known(v, r)
       /\ SameSource(v, w[i])
       /\ \A j \in DOMAIN w : i # j => w[i] \cap w[j] = {}
       /\ \A b \in Brokers : s.rkb[b].resp # None => w[i] \cap s.rkb[b].resp = {}
  /\ \A b \in Brokers : s.rkb[b].resp # None =>
       /\ s.rkb[b].resp \cap s.app.given = {}
       /\ \A r \in s.rkb[b].resp : Known(v, r) /\ v.by[r] = b

-----------------------------------------------------------------------------
(* Acknowledgements on their way to the brokers: each is in one place. *)

InFanout(q, r) == \E i \in DOMAIN q : q[i].type # "REPLY" /\ r \in q[i].acks
AtOut(s, q, b, r) == \E o \in OutOf(s, q, b) : r \in o.acks
Held(s, q, b, r) == r \in s.rkb[b].async \/ r \in s.rkb[b].pend \/ AtOut(s, q, b, r)

\* `hand` are the acknowledgements of the op that the main thread has just taken.
AcksOK(s, q, v, hand) ==
  /\ \A r \in Records : s.cb[r] # "none" => r \in s.app.built
  /\ \A r \in Records :
       (r \in s.app.built /\ s.cb[r] = "none") <=>
         (r \in hand \/ InFanout(q, r) \/ \E b \in Brokers : Held(s, q, b, r))
  /\ \A b \in Brokers, r \in Records : Held(s, q, b, r) =>
       /\ v.by[r] = b /\ r \notin hand /\ ~InFanout(q, r)
       /\ ~(r \in s.rkb[b].async /\ r \in s.rkb[b].pend)
       /\ ~(r \in s.rkb[b].async /\ AtOut(s, q, b, r))
       /\ ~(r \in s.rkb[b].pend /\ AtOut(s, q, b, r))
  /\ \A r \in Records : InFanout(q, r) => r \notin hand
  /\ \A i, j \in DOMAIN q :
       q[i].type # "REPLY" /\ q[j].type # "REPLY" /\ i # j => q[i].acks \cap q[j].acks = {}

-----------------------------------------------------------------------------
(* What the application is told. *)

\* An op's codes: what they say succeeded is done at the broker, and a reply says of
\* each of its acknowledgements what became of it.
CodesTrue(v, o) ==
  \A r \in o.acks : o.code[r[1]] = "ok" => v.lock[r] = "done"
TruthOK(s, q, v) ==
  /\ \A r \in Records : s.cb[r] = "ok" => v.lock[r] = "done"
  /\ \A r \in s.app.synced : s.app.result[r[1]] = "ok" => v.lock[r] = "done"
  /\ \A p \in Partitions : s.app.result[p] # "in_progress"
  /\ \A b \in Brokers : \A o \in OutOf(s, q, b) : CodesTrue(v, o)
  /\ \A i \in DOMAIN q : q[i].type = "REPLY" =>
       \A r \in q[i].op.acks : q[i].op.code[r[1]] # "in_progress"

-----------------------------------------------------------------------------
(* The commit_sync() under way. *)

\* The op o carries acknowledgements of it.
Current(s, o) == o.sync # 0 /\ o.sync = s.main.sync.id
Owing(s, q) ==
  {b \in Brokers : s.rkb[b].pend # {} \/ \E o \in OutOf(s, q, b) : Current(s, o)}
\* With an acknowledgement of a partition it has all of that partition.
Whole(S, A) == A \subseteq S /\ \A r \in S, a \in A : r[1] = a[1] => r \in A

\* `late` is 1 and `back` are the acknowledgements of a broker whose result the main thread
\* has just got and not yet applied; otherwise they are 0 and empty.
SyncPart(s, q, v, late, back) ==
  /\ s.app.synced \subseteq Records /\ s.app.synced \subseteq s.app.built
  /\ s.main.sync.id \in {0, s.main.counter}
  /\ \A b \in Brokers : \A o \in OutOf(s, q, b) : o.sync <= s.main.counter
  /\ s.main.sync.id # 0 => s.app.at = "sync"
  /\ s.main.sync.cnt = Cardinality(Owing(s, q)) + late
  /\ s.main.sync.id = 0 => s.main.sync.results = [p \in Partitions |-> "absent"]
  /\ \A b \in Brokers :
       /\ s.rkb[b].pend # {} =>
            /\ s.main.sync.id # 0 /\ s.rkb[b].pendid = s.main.sync.id
            /\ Whole(s.app.synced, s.rkb[b].pend)
            /\ \A o \in OutOf(s, q, b) : ~Current(s, o)
       /\ \A o \in OutOf(s, q, b) : Current(s, o) => Whole(s.app.synced, o.acks)
  /\ \A p \in Partitions :
       /\ s.main.sync.results[p] = "in_progress" =>
            \/ p \in Parts(back)
            \/ \E b \in Brokers : \/ p \in Parts(s.rkb[b].pend)
                                  \/ \E o \in OutOf(s, q, b) : Current(s, o) /\ p \in Parts(o.acks)
       /\ s.main.sync.results[p] = "ok" =>
            \A r \in s.app.synced : r[1] = p => v.lock[r] = "done"
SyncOK(s, q, v) == SyncPart(s, q, v, 0, {})

\* The calls of the application that the main thread has not taken yet.
CallsOK(s, q, v) ==
  /\ \A i \in DOMAIN q : q[i].type = "COMMIT_SYNC_FANOUT" =>
       /\ s.app.at = "sync" /\ s.main.sync.id = 0 /\ q[i].acks = s.app.synced
       /\ SameSource(v, q[i].acks)
       /\ \A j \in DOMAIN q : q[j].type = "COMMIT_SYNC_FANOUT" => i = j
  /\ \A i \in DOMAIN q : q[i].type = "TERMINATE" =>
       /\ s.app.at = "close" /\ ~s.main.terminate
       /\ \A j \in DOMAIN q : i < j => q[j].type = "REPLY"
  /\ s.main.terminate =>
       /\ s.app.at \in {"close", "closed"}
       /\ \A i \in DOMAIN q : q[i].type = "REPLY"
  /\ s.app.at = "closed" => s.main.terminate

-----------------------------------------------------------------------------
(* Leaving the sessions. *)

LeaveOK(s, q) ==
  /\ ~s.main.terminate =>
       s.main.leaves = 0 /\ \A b \in Brokers : \A o \in OutOf(s, q, b) : ~o.leave
  /\ \A b \in Brokers : s.rkb[b].term => s.rkb[b].async = {} /\ s.rkb[b].pend = {}
  /\ s.main.terminate => \A b \in Brokers :
       s.rkb[b].async # {} => \E o \in OutOf(s, q, b) : ~o.leave
  /\ ~Overlap =>
       /\ s.main.terminate => s.main.leaves = Cardinality({b \in Brokers : s.rkb[b].enq})
       /\ s.app.at = "close" /\ ~s.main.terminate =>
            \A b \in Brokers : s.rkb[b].term => ~s.rkb[b].enq
       /\ s.app.at = "closed" => s.main.leaves = 0

Good(s, q, w, v) ==
  /\ Struct(s, q) /\ FetchOK(s, q) /\ RequestOK(s, q, w)
  /\ DeliveryOK(s, w, v) /\ AcksOK(s, q, v, {}) /\ TruthOK(s, q, v)
  /\ SyncOK(s, q, v) /\ CallsOK(s, q, v) /\ LeaveOK(s, q)

Inv ==
  /\ Good(State, rk_ops, rkcg_q, srv) /\ ClusterOK(srv)
  /\ \A p \in Partitions : leader[p] \in Brokers
  /\ faults \in 0 .. MaxFaults

-----------------------------------------------------------------------------
(* Records and sequences. *)

LEMMA RecordType ==
  ASSUME NEW r \in Records
  PROVE  r[1] \in Partitions /\ r[2] \in Nat
<1>1. PICK s \in Starts, p \in Partitions : r \in {<<p, n>> : n \in 1 .. s.supply[p]}
  BY DEF Records
<1>2. s.supply[p] \in Nat
  BY ShareSets
<1>3. QED
  BY <1>1, <1>2

LEMMA SeqFacts ==
  ASSUME NEW q, IsSeq(q)
  PROVE  Len(q) \in Nat /\ DOMAIN q = 1 .. Len(q) /\ (q = <<>> <=> DOMAIN q = {})
<1>1. Len(q) \in Nat /\ DOMAIN q = 1 .. Len(q)
  BY LenProperties DEF IsSeq
<1>2. q = <<>> <=> Len(q) = 0
  BY EmptySeq DEF IsSeq
<1>3. QED
  BY <1>1, <1>2

LEMMA EmptyIsSeq == IsSeq(<<>>) /\ DOMAIN <<>> = {}
<1>1. <<>> \in Seq({<<>>[i] : i \in DOMAIN <<>>})
  BY EmptySeq
<1>2. QED
  BY <1>1, SeqFacts DEF IsSeq

LEMMA AppendSeq ==
  ASSUME NEW q, IsSeq(q), NEW e
  PROVE  /\ IsSeq(Append(q, e)) /\ Len(Append(q, e)) = Len(q) + 1
         /\ DOMAIN Append(q, e) = 1 .. Len(q) + 1 /\ Append(q, e)[Len(q) + 1] = e
         /\ \A i \in DOMAIN q : Append(q, e)[i] = q[i]
<1> DEFINE S == {q[i] : i \in DOMAIN q} \cup {e}
           z == Append(q, e)
<1>1. q \in Seq(S) /\ e \in S
  <2>1. q \in Seq({q[i] : i \in DOMAIN q})
    BY DEF IsSeq
  <2>2. Seq({q[i] : i \in DOMAIN q}) \subseteq Seq(S)
    BY SeqMonotonic
  <2>3. QED
    BY <2>1, <2>2
<1>2. Len(q) \in Nat /\ DOMAIN q = 1 .. Len(q)
  BY SeqFacts
<1> HIDE DEF S
<1>3. /\ z \in Seq(S) /\ Len(z) = Len(q) + 1 /\ z[Len(q) + 1] = e
      /\ \A i \in 1 .. Len(q) : z[i] = q[i]
  BY <1>1, AppendProperties
<1> HIDE DEF z
<1>4. DOMAIN z = 1 .. Len(q) + 1
  BY <1>3, LenProperties
<1>5. z \in Seq({z[i] : i \in DOMAIN z})
  <2>1. z = [i \in 1 .. Len(z) |-> z[i]]
    BY <1>3
  <2>2. \A i \in 1 .. Len(z) : z[i] \in {z[j] : j \in DOMAIN z}
    BY <1>3, <1>4
  <2> DEFINE T == {z[j] : j \in DOMAIN z}
  <2> HIDE DEF T
  <2>3. Len(z) \in Nat /\ \A i \in 1 .. Len(z) : z[i] \in T
    BY <1>2, <1>3, <2>2 DEF T
  <2>4. z \in Seq(T)
    BY <2>1, <2>3
  <2>5. QED
    BY <2>4 DEF T
<1>6. QED
  BY <1>2, <1>3, <1>4, <1>5 DEF z, IsSeq

LEMMA TailSeq ==
  ASSUME NEW q, IsSeq(q), q # <<>>
  PROVE  /\ IsSeq(Tail(q)) /\ Len(Tail(q)) = Len(q) - 1 /\ DOMAIN Tail(q) = 1 .. Len(q) - 1
         /\ Head(q) = q[1] /\ 1 \in DOMAIN q
         /\ \A i \in DOMAIN Tail(q) : Tail(q)[i] = q[i + 1] /\ i + 1 \in DOMAIN q
         /\ \A i \in DOMAIN q : i # 1 => i - 1 \in DOMAIN Tail(q)
<1> DEFINE S == {q[i] : i \in DOMAIN q}
           z == Tail(q)
<1>1. q \in Seq(S) /\ Len(q) \in Nat /\ DOMAIN q = 1 .. Len(q) /\ Len(q) # 0
  BY SeqFacts DEF IsSeq
<1> HIDE DEF S
<1>2. /\ Head(q) = q[1] /\ z \in Seq(S) /\ Len(z) = Len(q) - 1
      /\ \A i \in 1 .. Len(z) : z[i] = q[i + 1]
  BY <1>1, HeadTailProperties
<1> HIDE DEF z
<1>3. DOMAIN z = 1 .. Len(q) - 1
  BY <1>2, LenProperties
<1>4. z \in Seq({z[i] : i \in DOMAIN z})
  <2> DEFINE T == {z[j] : j \in DOMAIN z}
  <2>1. \A i \in 1 .. Len(z) : z[i] \in T
    BY <1>2, <1>3
  <2> HIDE DEF T
  <2>2. Len(z) \in Nat /\ z = [i \in 1 .. Len(z) |-> z[i]]
    BY <1>1, <1>2
  <2>3. z \in Seq(T)
    BY <2>1, <2>2
  <2>4. QED
    BY <2>3 DEF T
<1>5. \A i \in DOMAIN z : z[i] = q[i + 1] /\ i + 1 \in DOMAIN q
  BY <1>1, <1>2, <1>3
<1>6. 1 \in DOMAIN q /\ \A i \in DOMAIN q : i # 1 => i - 1 \in DOMAIN z
  BY <1>1, <1>3
<1>7. QED
  BY <1>2, <1>3, <1>4, <1>5, <1>6 DEF z, IsSeq

-----------------------------------------------------------------------------
(* How the ops of a broker move. *)

LEMMA OutFacts ==
  ASSUME NEW x, NEW y, NEW q, NEW b
  PROVE  OutOps(x, y, q, b) = {} <=> Ops(x) = {} /\ DOMAIN y = {} /\ RepliesOf(q, b) = {}
BY DEF OutOps

\* The main thread's queue loses or gets an element that is no reply of b.
LEMMA QueueTailOther ==
  ASSUME NEW x, NEW y, NEW q, NEW b, IsSeq(q), q # <<>>,
         ~(q[1].type = "REPLY" /\ q[1].broker = b)
  PROVE  /\ OutOps(x, y, Tail(q), b) = OutOps(x, y, q, b)
         /\ Exclusive(x, y, q, b) => Exclusive(x, y, Tail(q), b)
<1> DEFINE z == Tail(q)
<1>1. /\ \A i \in DOMAIN z : z[i] = q[i + 1] /\ i + 1 \in DOMAIN q
      /\ \A i \in DOMAIN q : i # 1 => i - 1 \in DOMAIN z
      /\ DOMAIN z \subseteq Int /\ DOMAIN q \subseteq Int
  BY TailSeq, SeqFacts
<1> HIDE DEF z
<1>2. \A i \in RepliesOf(z, b) : i + 1 \in RepliesOf(q, b) /\ z[i] = q[i + 1]
  BY <1>1 DEF RepliesOf
<1>3. \A i \in RepliesOf(q, b) : i - 1 \in RepliesOf(z, b) /\ q[i] = z[i - 1]
  <2>1. ASSUME NEW i \in RepliesOf(q, b) PROVE i - 1 \in RepliesOf(z, b) /\ q[i] = z[i - 1]
    <3>1. i \in DOMAIN q /\ i # 1 /\ q[i].type = "REPLY" /\ q[i].broker = b /\ i \in Int
      BY <1>1 DEF RepliesOf
    <3>2. i - 1 \in DOMAIN z /\ (i - 1) + 1 = i
      BY <1>1, <3>1
    <3>3. z[i - 1] = q[i]
      BY <1>1, <3>2
    <3>4. QED
      BY <3>1, <3>2, <3>3 DEF RepliesOf
  <2>2. QED
    BY <2>1
<1>4. {z[i].op : i \in RepliesOf(z, b)} = {q[i].op : i \in RepliesOf(q, b)}
  BY <1>2, <1>3
<1>5. RepliesOf(z, b) = {} <=> RepliesOf(q, b) = {}
  BY <1>2, <1>3
<1>6. AtMostOne(RepliesOf(q, b)) => AtMostOne(RepliesOf(z, b))
  <2>1. RepliesOf(z, b) \subseteq Int
    BY <1>1 DEF RepliesOf
  <2>2. QED
    BY <1>2, <2>1 DEF AtMostOne
<1>7. QED
  BY <1>4, <1>5, <1>6 DEF OutOps, Exclusive, z

LEMMA QueueAppendOther ==
  ASSUME NEW x, NEW y, NEW q, NEW b, NEW e, IsSeq(q), ~(e.type = "REPLY" /\ e.broker = b)
  PROVE  /\ OutOps(x, y, Append(q, e), b) = OutOps(x, y, q, b)
         /\ Exclusive(x, y, q, b) => Exclusive(x, y, Append(q, e), b)
<1> DEFINE z == Append(q, e)
<1>1. /\ DOMAIN z = 1 .. Len(q) + 1 /\ z[Len(q) + 1] = e /\ DOMAIN q = 1 .. Len(q)
      /\ Len(q) \in Nat /\ \A i \in DOMAIN q : z[i] = q[i]
  BY AppendSeq, SeqFacts
<1> HIDE DEF z
<1>2. RepliesOf(z, b) = RepliesOf(q, b) /\ \A i \in RepliesOf(q, b) : z[i] = q[i]
  BY <1>1 DEF RepliesOf
<1>3. QED
  BY <1>2 DEF OutOps, Exclusive, z

\* A reply of b is taken from the queue, or put there.
LEMMA QueueTailReply ==
  ASSUME NEW x, NEW y, NEW q, NEW b, IsSeq(q), q # <<>>, Exclusive(x, y, q, b),
         q[1].type = "REPLY", q[1].broker = b
  PROVE  /\ OutOps(x, y, q, b) = {q[1].op} /\ OutOps(x, y, Tail(q), b) = {}
         /\ Exclusive(x, y, Tail(q), b)
<1> DEFINE z == Tail(q)
<1>1. /\ \A i \in DOMAIN z : z[i] = q[i + 1] /\ i + 1 \in DOMAIN q
      /\ DOMAIN z \subseteq Nat \ {0} /\ 1 \in DOMAIN q
  BY TailSeq, SeqFacts
<1> HIDE DEF z
<1>2. 1 \in RepliesOf(q, b)
  BY <1>1 DEF RepliesOf
<1>3. RepliesOf(q, b) = {1} /\ Ops(x) = {} /\ DOMAIN y = {}
  BY <1>2 DEF Exclusive, AtMostOne
<1>4. RepliesOf(z, b) = {}
  <2>1. SUFFICES ASSUME NEW i \in RepliesOf(z, b) PROVE FALSE
    OBVIOUS
  <2>2. i + 1 \in RepliesOf(q, b) /\ i \in Nat \ {0}
    BY <1>1 DEF RepliesOf
  <2>3. i + 1 = 1
    BY <1>3, <2>2
  <2>4. QED
    BY <2>2, <2>3
<1>5. QED
  BY <1>3, <1>4 DEF OutOps, Exclusive, AtMostOne, z

ReplyOf(e, b) == e.type = "REPLY" /\ e.broker = b

LEMMA QueueAppendReply ==
  ASSUME NEW x, NEW y, NEW q, NEW b, NEW e, IsSeq(q), ReplyOf(e, b), OutOps(x, y, q, b) = {}
  PROVE  /\ OutOps(x, y, Append(q, e), b) = {e.op} /\ Exclusive(x, y, Append(q, e), b)
<1> DEFINE z == Append(q, e)
<1>1. /\ DOMAIN z = 1 .. Len(q) + 1 /\ z[Len(q) + 1] = e /\ DOMAIN q = 1 .. Len(q)
      /\ Len(q) \in Nat /\ \A i \in DOMAIN q : z[i] = q[i]
  BY AppendSeq, SeqFacts
<1> HIDE DEF z
<1>2. Ops(x) = {} /\ DOMAIN y = {} /\ RepliesOf(q, b) = {}
  BY OutFacts
<1>3. RepliesOf(z, b) = {Len(q) + 1}
  BY <1>1, <1>2 DEF RepliesOf, ReplyOf
<1>4. QED
  BY <1>1, <1>2, <1>3 DEF OutOps, Exclusive, AtMostOne, z

\* An op is put in the queue of b, or taken from it.
LEMMA GiveOp ==
  ASSUME NEW x, NEW y, NEW q, NEW b, NEW e, IsSeq(x)
  PROVE  /\ e.type # "SHARE_FETCH" =>
              /\ OutOps(Append(x, e), y, q, b) = OutOps(x, y, q, b)
              /\ Exclusive(x, y, q, b) => Exclusive(Append(x, e), y, q, b)
         /\ e.type = "SHARE_FETCH" /\ OutOps(x, y, q, b) = {} =>
              OutOps(Append(x, e), y, q, b) = {e} /\ Exclusive(Append(x, e), y, q, b)
<1> DEFINE z == Append(x, e)
<1>1. /\ DOMAIN z = 1 .. Len(x) + 1 /\ z[Len(x) + 1] = e /\ DOMAIN x = 1 .. Len(x)
      /\ Len(x) \in Nat /\ \A i \in DOMAIN x : z[i] = x[i]
  BY AppendSeq, SeqFacts
<1> HIDE DEF z
<1>2. ASSUME e.type # "SHARE_FETCH"
      PROVE  /\ OutOps(z, y, q, b) = OutOps(x, y, q, b)
             /\ Exclusive(x, y, q, b) => Exclusive(z, y, q, b)
  <2>1. Ops(z) = Ops(x) /\ \A i \in Ops(x) : z[i] = x[i]
    BY <1>1, <1>2 DEF Ops
  <2>2. QED
    BY <2>1 DEF OutOps, Exclusive
<1>3. ASSUME e.type = "SHARE_FETCH", OutOps(x, y, q, b) = {}
      PROVE  OutOps(z, y, q, b) = {e} /\ Exclusive(z, y, q, b)
  <2>1. Ops(x) = {} /\ DOMAIN y = {} /\ RepliesOf(q, b) = {}
    BY <1>3, OutFacts
  <2>2. Ops(z) = {Len(x) + 1}
    BY <1>1, <1>3, <2>1 DEF Ops
  <2>3. QED
    BY <1>1, <2>1, <2>2 DEF OutOps, Exclusive, AtMostOne
<1>4. QED
  BY <1>2, <1>3 DEF z

LEMMA TakeOp ==
  ASSUME NEW x, NEW y, NEW q, NEW b, IsSeq(x), x # <<>>, Exclusive(x, y, q, b)
  PROVE  /\ Exclusive(Tail(x), y, q, b)
         /\ x[1].type # "SHARE_FETCH" => OutOps(Tail(x), y, q, b) = OutOps(x, y, q, b)
         /\ x[1].type = "SHARE_FETCH" =>
              /\ OutOps(x, y, q, b) = {x[1]} /\ OutOps(Tail(x), y, q, b) = {}
              /\ DOMAIN y = {} /\ RepliesOf(q, b) = {}
<1> DEFINE z == Tail(x)
<1>1. /\ \A i \in DOMAIN z : z[i] = x[i + 1] /\ i + 1 \in DOMAIN x
      /\ \A i \in DOMAIN x : i # 1 => i - 1 \in DOMAIN z
      /\ DOMAIN z \subseteq Nat \ {0} /\ DOMAIN x \subseteq Int /\ 1 \in DOMAIN x
  BY TailSeq, SeqFacts
<1> HIDE DEF z
<1>2. \A i \in Ops(z) : i + 1 \in Ops(x) /\ z[i] = x[i + 1] /\ i \in Nat \ {0}
  BY <1>1 DEF Ops
<1>3. ASSUME x[1].type # "SHARE_FETCH"
      PROVE  OutOps(z, y, q, b) = OutOps(x, y, q, b)
  <2>1. ASSUME NEW i \in Ops(x) PROVE i - 1 \in Ops(z) /\ x[i] = z[i - 1]
    <3>1. i \in DOMAIN x /\ i # 1 /\ x[i].type = "SHARE_FETCH" /\ i \in Int
      BY <1>1, <1>3 DEF Ops
    <3>2. i - 1 \in DOMAIN z /\ (i - 1) + 1 = i
      BY <1>1, <3>1
    <3>3. z[i - 1] = x[i]
      BY <1>1, <3>2
    <3>4. QED
      BY <3>1, <3>2, <3>3 DEF Ops
  <2>2. {z[i] : i \in Ops(z)} = {x[i] : i \in Ops(x)}
    BY <1>2, <2>1
  <2>3. QED
    BY <2>2 DEF OutOps
<1>4. AtMostOne(Ops(z)) /\ (Ops(x) = {} => Ops(z) = {})
  BY <1>2 DEF Exclusive, AtMostOne
<1>5. Exclusive(z, y, q, b)
  BY <1>2, <1>4 DEF Exclusive
<1>6. ASSUME x[1].type = "SHARE_FETCH"
      PROVE  /\ OutOps(x, y, q, b) = {x[1]} /\ OutOps(z, y, q, b) = {}
             /\ DOMAIN y = {} /\ RepliesOf(q, b) = {}
  <2>1. 1 \in Ops(x)
    BY <1>1, <1>6 DEF Ops
  <2>2. Ops(x) = {1} /\ DOMAIN y = {} /\ RepliesOf(q, b) = {}
    BY <2>1 DEF Exclusive, AtMostOne
  <2>3. Ops(z) = {}
    <3>1. SUFFICES ASSUME NEW i \in Ops(z) PROVE FALSE
      OBVIOUS
    <3>2. i + 1 = 1 /\ i \in Nat \ {0}
      BY <1>2, <2>2
    <3>3. QED
      BY <3>2
  <2>4. QED
    BY <2>2, <2>3 DEF OutOps
<1>7. QED
  BY <1>3, <1>5, <1>6 DEF z

\* A request is sent, or is no longer waited for.
LEMMA SendOp ==
  ASSUME NEW x, NEW y, NEW q, NEW b, NEW o, IsSeq(y), OutOps(x, y, q, b) = {}
  PROVE  OutOps(x, Append(y, o), q, b) = {o} /\ Exclusive(x, Append(y, o), q, b)
<1> DEFINE z == Append(y, o)
<1>1. Ops(x) = {} /\ DOMAIN y = {} /\ RepliesOf(q, b) = {}
  BY OutFacts
<1>2. DOMAIN z = 1 .. Len(y) + 1 /\ z[Len(y) + 1] = o /\ DOMAIN y = 1 .. Len(y) /\ Len(y) \in Nat
  BY AppendSeq, SeqFacts
<1>3. Len(y) = 0
  BY <1>1, <1>2
<1> HIDE DEF z
<1>4. DOMAIN z = {1} /\ z[1] = o
  BY <1>2, <1>3
<1>5. QED
  BY <1>1, <1>4 DEF OutOps, Exclusive, AtMostOne, z

LEMMA ReceiveOp ==
  ASSUME NEW x, NEW y, NEW q, NEW b, IsSeq(y), y # <<>>, Exclusive(x, y, q, b)
  PROVE  /\ Len(y) = 1 /\ DOMAIN y = {1} /\ Head(y) = y[1] /\ Tail(y) = <<>>
         /\ OutOps(x, y, q, b) = {y[1]}
         /\ OutOps(x, <<>>, q, b) = {} /\ Exclusive(x, <<>>, q, b)
<1>1. Len(y) \in Nat /\ DOMAIN y = 1 .. Len(y) /\ DOMAIN y # {}
  BY SeqFacts
<1>2. Len(y) = 1 /\ DOMAIN y = {1}
  <2>1. 1 \in DOMAIN y
    BY <1>1
  <2>2. Len(y) \in DOMAIN y
    BY <1>1
  <2>3. Len(y) = 1
    BY <2>1, <2>2 DEF Exclusive, AtMostOne
  <2>4. QED
    BY <1>1, <2>3
<1>3. Head(y) = y[1] /\ IsSeq(Tail(y)) /\ DOMAIN Tail(y) = 1 .. 0
  BY <1>2, TailSeq
<1>4. Tail(y) = <<>>
  BY <1>3, SeqFacts
<1>5. Ops(x) = {} /\ RepliesOf(q, b) = {}
  BY <1>2 DEF Exclusive
<1>6. QED
  BY <1>2, <1>3, <1>4, <1>5, EmptyIsSeq DEF OutOps, Exclusive, AtMostOne

-----------------------------------------------------------------------------
(* The main thread gives ops to brokers that have none out. *)

SameMain(s, t) ==
  /\ t.main.more = s.main.more /\ t.main.leaves = s.main.leaves
  /\ t.main.terminate = s.main.terminate /\ t.main.sync = s.main.sync
  /\ t.main.counter = s.main.counter

\* What EnqueueFetchOps does.
FetchOpsGiven(s, t, q, to, selected, leave) ==
  /\ Struct(t, q) /\ to \subseteq Brokers
  /\ t.app = s.app /\ t.cb = s.cb /\ SameMain(s, t)
  /\ t.main.fetches = IF selected \in to THEN s.main.fetches + 1 ELSE s.main.fetches
  /\ \A b \in Brokers \ to : t.rkb[b] = s.rkb[b]
  /\ \A b \in to :
       /\ OutOf(s, q, b) = {} /\ ~s.rkb[b].enq /\ t.rkb[b].enq
       /\ OutOf(t, q, b) # {}
       /\ \A o \in OutOf(t, q, b) :
            /\ (o.fetch <=> b = selected) /\ (o.leave <=> leave) /\ o.sync = 0
            /\ o.acks = s.rkb[b].async /\ \A p \in Partitions : o.code[p] = "in_progress"
       /\ t.rkb[b].async = {} /\ t.rkb[b].pend = s.rkb[b].pend
       /\ t.rkb[b].pendid = s.rkb[b].pendid /\ t.rkb[b].term = s.rkb[b].term
       /\ t.rkb[b].resp = s.rkb[b].resp

\* What EnqueueSyncAckOps does.
SyncOpsGiven(s, t, q, to) ==
  /\ Struct(t, q) /\ to \subseteq Brokers
  /\ t.app = s.app /\ t.cb = s.cb /\ t.main = s.main
  /\ \A b \in Brokers \ to : t.rkb[b] = s.rkb[b]
  /\ \A b \in to :
       /\ OutOf(s, q, b) = {} /\ ~s.rkb[b].enq /\ t.rkb[b].enq
       /\ OutOf(t, q, b) # {}
       /\ \A o \in OutOf(t, q, b) :
            /\ ~o.fetch /\ ~o.leave /\ o.sync = s.rkb[b].pendid
            /\ o.acks = s.rkb[b].pend /\ \A p \in Partitions : o.code[p] = "in_progress"
       /\ t.rkb[b].pend = {} /\ t.rkb[b].async = s.rkb[b].async
       /\ t.rkb[b].term = s.rkb[b].term /\ t.rkb[b].resp = s.rkb[b].resp

\* A broker k that has no op out is given o.
LEMMA BrokerGiven ==
  ASSUME NEW k, NEW q, NEW b, BrokerOK(k, q, b), ~k.enq, NEW o, IsOp(o), ~o.records,
         NEW k1, DOMAIN k1 = BrokerFields, k1.enq, k1.ops = Append(k.ops, o),
         k1.sent = k.sent, k1.epoch = k.epoch, k1.pendid \in Nat, k1.resp = k.resp,
         k1.async \subseteq Records, k1.pend \subseteq Records
  PROVE  /\ OutOps(k.ops, k.sent, q, b) = {} /\ OutOps(k1.ops, k1.sent, q, b) = {o}
         /\ BrokerOK(k1, q, b)
<1> DEFINE z == Append(k.ops, o)
<1>1. OutOps(k.ops, k.sent, q, b) = {} /\ IsSeq(k.ops) /\ o.type = "SHARE_FETCH"
  BY DEF BrokerOK, IsOp
<1>2. OutOps(z, k.sent, q, b) = {o} /\ Exclusive(z, k.sent, q, b)
  BY <1>1, GiveOp
<1>3. /\ IsSeq(z) /\ DOMAIN z = 1 .. Len(k.ops) + 1 /\ z[Len(k.ops) + 1] = o
      /\ DOMAIN k.ops = 1 .. Len(k.ops) /\ Len(k.ops) \in Nat
      /\ \A i \in DOMAIN k.ops : z[i] = k.ops[i]
  BY <1>1, AppendSeq, SeqFacts
<1>4. k1.ops = z
  OBVIOUS
<1> HIDE DEF z
<1>5. \A i \in DOMAIN z : z[i].type \in {"SHARE_FETCH", "TERMINATE"}
  BY <1>1, <1>3 DEF BrokerOK
<1>8. Unanswered(z)
  BY <1>1, <1>3 DEF BrokerOK, Unanswered
<1>6. BrokerOK(k1, q, b)
  BY <1>2, <1>3, <1>4, <1>5, <1>8 DEF BrokerOK
<1>7. QED
  BY <1>1, <1>2, <1>4, <1>6

LEMMA EnqueueFetchOpsDoes ==
  ASSUME NEW s, NEW q, NEW to \in SUBSET Brokers, NEW selected, NEW leave,
         Struct(s, q), \A b \in to : ~s.rkb[b].enq
  PROVE  FetchOpsGiven(s, EnqueueFetchOps(s, to, selected, leave), q, to, selected, leave)
<1> DEFINE op(b) == ShareOp(b = selected, leave, 0, s.rkb[b].async)
           R == [b \in Brokers |-> IF b \notin to THEN s.rkb[b]
                   ELSE [s.rkb[b] EXCEPT !.enq = TRUE, !.async = {}, !.ops = Append(@, op(b))]]
           n == IF selected \in to THEN s.main.fetches + 1 ELSE s.main.fetches
           t == [s EXCEPT !.rkb = R, !.main.fetches = n]
<1>1. EnqueueFetchOps(s, to, selected, leave) = t
  BY DEF EnqueueFetchOps
<1>2. \A b \in Brokers : BrokerOK(s.rkb[b], q, b)
  BY DEF Struct
<1>13. \A b \in Brokers : IsOp(op(b)) /\ ~op(b).records
  <2>1. TAKE b \in Brokers
  <2>2. s.rkb[b].async \in SUBSET Records /\ s.rkb[b].pend \in SUBSET Records
        /\ s.rkb[b].pendid \in Nat
    BY <1>2 DEF BrokerOK
  <2>3. QED
    BY <2>2 DEF ShareOp, IsOp, OpFields, Codes
<1> HIDE DEF op
<1>3. \A b \in to : /\ OutOps(s.rkb[b].ops, s.rkb[b].sent, q, b) = {}
                    /\ OutOps(Append(s.rkb[b].ops, op(b)), s.rkb[b].sent, q, b) = {op(b)}
                    /\ BrokerOK(R[b], q, b)
  <2>1. TAKE b \in to
  <2>2. BrokerOK(s.rkb[b], q, b) /\ ~s.rkb[b].enq /\ IsOp(op(b)) /\ ~op(b).records
    BY <1>2, <1>13
  <2> DEFINE k == s.rkb[b]
             o == op(b)
  <2>3. /\ DOMAIN R[b] = BrokerFields /\ R[b].enq /\ R[b].ops = Append(k.ops, o)
        /\ R[b].sent = k.sent /\ R[b].epoch = k.epoch /\ R[b].pendid \in Nat
        /\ R[b].resp = k.resp /\ R[b].async \subseteq Records /\ R[b].pend \subseteq Records
    BY <2>2 DEF BrokerOK, BrokerFields
  <2> HIDE DEF k, o, R
  <2>4. BrokerOK(k, q, b) /\ ~k.enq /\ IsOp(o) /\ ~o.records
    BY <2>2 DEF k, o
  <2>5. /\ OutOps(k.ops, k.sent, q, b) = {} /\ OutOps(R[b].ops, R[b].sent, q, b) = {o}
        /\ BrokerOK(R[b], q, b)
    BY <2>3, <2>4, BrokerGiven
  <2>6. QED
    BY <2>3, <2>5 DEF k, o
<1>4. \A b \in to : /\ R[b].ops = Append(s.rkb[b].ops, op(b)) /\ R[b].sent = s.rkb[b].sent
                    /\ R[b].enq /\ R[b].async = {} /\ R[b].pend = s.rkb[b].pend
                    /\ R[b].pendid = s.rkb[b].pendid /\ R[b].term = s.rkb[b].term
                    /\ R[b].resp = s.rkb[b].resp
  BY <1>2 DEF BrokerOK, BrokerFields
<1>5. \A b \in Brokers \ to : R[b] = s.rkb[b]
  OBVIOUS
<1>6. DOMAIN R = Brokers
  OBVIOUS
<1> HIDE DEF R, n, op
<1>7. /\ t.rkb = R /\ t.app = s.app /\ t.cb = s.cb /\ t.main.fetches = n
      /\ DOMAIN t = DOMAIN s /\ DOMAIN t.main = DOMAIN s.main /\ SameMain(s, t)
  BY DEF Struct, Shape, SameMain, MainFields
<1> HIDE DEF t
<1>8. Shape(t)
  BY <1>6, <1>7 DEF Struct, Shape, SameMain
<1>9. \A b \in Brokers : BrokerOK(t.rkb[b], q, b)
  BY <1>2, <1>3, <1>5, <1>7
<1>10. Struct(t, q)
  BY <1>8, <1>9 DEF Struct
<1>11. \A b \in to : OutOf(s, q, b) = {} /\ OutOf(t, q, b) = {op(b)}
  BY <1>3, <1>4, <1>7 DEF OutOf
<1>14. \A b \in to : \A o \in OutOf(t, q, b) :
         /\ (o.fetch <=> b = selected) /\ (o.leave <=> leave) /\ o.sync = 0
         /\ o.acks = s.rkb[b].async /\ \A p \in Partitions : o.code[p] = "in_progress"
  <2>1. TAKE b \in to
  <2>2. TAKE o \in OutOf(t, q, b)
  <2>3. o = op(b)
    BY <1>11
  <2>4. QED
    BY <2>3 DEF op, ShareOp
<1>15. t.main.fetches = IF selected \in to THEN s.main.fetches + 1 ELSE s.main.fetches
  BY <1>7 DEF n
<1>16. \A b \in to :
         /\ OutOf(s, q, b) = {} /\ ~s.rkb[b].enq /\ t.rkb[b].enq /\ OutOf(t, q, b) # {}
         /\ t.rkb[b].async = {} /\ t.rkb[b].pend = s.rkb[b].pend
         /\ t.rkb[b].pendid = s.rkb[b].pendid /\ t.rkb[b].term = s.rkb[b].term
         /\ t.rkb[b].resp = s.rkb[b].resp
  BY <1>4, <1>7, <1>11
<1>17. \A b \in Brokers \ to : t.rkb[b] = s.rkb[b]
  BY <1>5, <1>7
<1>18. FetchOpsGiven(s, t, q, to, selected, leave)
  BY <1>7, <1>10, <1>14, <1>15, <1>16, <1>17 DEF FetchOpsGiven
<1>19. QED
  BY <1>1, <1>18

LEMMA EnqueueSyncAckOpsDoes ==
  ASSUME NEW s, NEW q, NEW to \in SUBSET Brokers,
         Struct(s, q), \A b \in to : ~s.rkb[b].enq
  PROVE  SyncOpsGiven(s, EnqueueSyncAckOps(s, to), q, to)
<1> DEFINE op(b) == ShareOp(FALSE, FALSE, s.rkb[b].pendid, s.rkb[b].pend)
           R == [b \in Brokers |-> IF b \notin to THEN s.rkb[b]
                   ELSE [s.rkb[b] EXCEPT !.enq = TRUE, !.pend = {}, !.pendid = 0,
                                         !.ops = Append(@, op(b))]]
           t == [s EXCEPT !.rkb = R]
<1>1. EnqueueSyncAckOps(s, to) = t
  BY DEF EnqueueSyncAckOps
<1>2. \A b \in Brokers : BrokerOK(s.rkb[b], q, b)
  BY DEF Struct
<1>13. \A b \in Brokers : IsOp(op(b)) /\ ~op(b).records
  <2>1. TAKE b \in Brokers
  <2>2. s.rkb[b].async \in SUBSET Records /\ s.rkb[b].pend \in SUBSET Records
        /\ s.rkb[b].pendid \in Nat
    BY <1>2 DEF BrokerOK
  <2>3. QED
    BY <2>2 DEF ShareOp, IsOp, OpFields, Codes
<1> HIDE DEF op
<1>3. \A b \in to : /\ OutOps(s.rkb[b].ops, s.rkb[b].sent, q, b) = {}
                    /\ OutOps(Append(s.rkb[b].ops, op(b)), s.rkb[b].sent, q, b) = {op(b)}
                    /\ BrokerOK(R[b], q, b)
  <2>1. TAKE b \in to
  <2>2. BrokerOK(s.rkb[b], q, b) /\ ~s.rkb[b].enq /\ IsOp(op(b)) /\ ~op(b).records
    BY <1>2, <1>13
  <2> DEFINE k == s.rkb[b]
             o == op(b)
  <2>3. /\ DOMAIN R[b] = BrokerFields /\ R[b].enq /\ R[b].ops = Append(k.ops, o)
        /\ R[b].sent = k.sent /\ R[b].epoch = k.epoch /\ R[b].pendid \in Nat
        /\ R[b].resp = k.resp /\ R[b].async \subseteq Records /\ R[b].pend \subseteq Records
    BY <2>2 DEF BrokerOK, BrokerFields
  <2> HIDE DEF k, o, R
  <2>4. BrokerOK(k, q, b) /\ ~k.enq /\ IsOp(o) /\ ~o.records
    BY <2>2 DEF k, o
  <2>5. /\ OutOps(k.ops, k.sent, q, b) = {} /\ OutOps(R[b].ops, R[b].sent, q, b) = {o}
        /\ BrokerOK(R[b], q, b)
    BY <2>3, <2>4, BrokerGiven
  <2>6. QED
    BY <2>3, <2>5 DEF k, o
<1>4. \A b \in to : /\ R[b].ops = Append(s.rkb[b].ops, op(b)) /\ R[b].sent = s.rkb[b].sent
                    /\ R[b].enq /\ R[b].pend = {} /\ R[b].async = s.rkb[b].async
                    /\ R[b].term = s.rkb[b].term /\ R[b].resp = s.rkb[b].resp
  BY <1>2 DEF BrokerOK, BrokerFields
<1>5. \A b \in Brokers \ to : R[b] = s.rkb[b]
  OBVIOUS
<1>6. DOMAIN R = Brokers
  OBVIOUS
<1> HIDE DEF R, op
<1>7. t.rkb = R /\ t.app = s.app /\ t.cb = s.cb /\ t.main = s.main /\ DOMAIN t = DOMAIN s
  BY DEF Struct, Shape
<1> HIDE DEF t
<1>8. Shape(t)
  BY <1>6, <1>7 DEF Struct, Shape
<1>9. \A b \in Brokers : BrokerOK(t.rkb[b], q, b)
  BY <1>2, <1>3, <1>5, <1>7
<1>10. Struct(t, q)
  BY <1>8, <1>9 DEF Struct
<1>11. \A b \in to : OutOf(s, q, b) = {} /\ OutOf(t, q, b) = {op(b)}
  BY <1>3, <1>4, <1>7 DEF OutOf
<1>14. \A b \in to : \A o \in OutOf(t, q, b) :
         /\ ~o.fetch /\ ~o.leave /\ o.sync = s.rkb[b].pendid
         /\ o.acks = s.rkb[b].pend /\ \A p \in Partitions : o.code[p] = "in_progress"
  <2>1. TAKE b \in to
  <2>2. TAKE o \in OutOf(t, q, b)
  <2>3. o = op(b)
    BY <1>11
  <2>4. QED
    BY <2>3 DEF op, ShareOp
<1>15. QED
  BY <1>1, <1>4, <1>5, <1>7, <1>10, <1>11, <1>14 DEF SyncOpsGiven

\* What RequestOK, DeliveryOK and CallsOK depend on.
SameCalls(s, t) ==
  /\ t.app = s.app /\ t.main.more = s.main.more /\ t.main.terminate = s.main.terminate
  /\ t.main.sync.id = s.main.sync.id /\ \A b \in Brokers : t.rkb[b].resp = s.rkb[b].resp

LEMMA SameCallsOK ==
  ASSUME NEW s, NEW t, NEW q, NEW w, NEW v, SameCalls(s, t)
  PROVE  /\ RequestOK(s, q, w) => RequestOK(t, q, w)
         /\ DeliveryOK(s, w, v) => DeliveryOK(t, w, v)
         /\ CallsOK(s, q, v) => CallsOK(t, q, v)
<1>1. RequestOK(s, q, w) => RequestOK(t, q, w)
  BY DEF SameCalls, RequestOK, Responding
<1>2. DeliveryOK(s, w, v) => DeliveryOK(t, w, v)
  BY DEF SameCalls, DeliveryOK
<1>3. CallsOK(s, q, v) => CallsOK(t, q, v)
  BY DEF SameCalls, CallsOK
<1>4. QED
  BY <1>1, <1>2, <1>3

LEMMA FetchGivenAcks ==
  ASSUME NEW s, NEW t, NEW q, NEW v, NEW hand, NEW to, NEW selected, NEW leave,
         FetchOpsGiven(s, t, q, to, selected, leave), AcksOK(s, q, v, hand)
  PROVE  AcksOK(t, q, v, hand)
<1>1. ASSUME NEW b \in Brokers, b \notin to, NEW r
      PROVE  /\ Held(t, q, b, r) <=> Held(s, q, b, r)
             /\ t.rkb[b].async = s.rkb[b].async /\ t.rkb[b].pend = s.rkb[b].pend
             /\ AtOut(t, q, b, r) <=> AtOut(s, q, b, r)
  BY <1>1 DEF FetchOpsGiven, Held, AtOut, OutOf
<1>2. ASSUME NEW b \in to, NEW r
      PROVE  /\ t.rkb[b].async = {} /\ t.rkb[b].pend = s.rkb[b].pend
             /\ AtOut(t, q, b, r) <=> r \in s.rkb[b].async
             /\ ~AtOut(s, q, b, r)
             /\ Held(t, q, b, r) <=> Held(s, q, b, r)
  <2>1. /\ t.rkb[b].async = {} /\ t.rkb[b].pend = s.rkb[b].pend /\ OutOf(s, q, b) = {}
        /\ OutOf(t, q, b) # {} /\ \A o \in OutOf(t, q, b) : o.acks = s.rkb[b].async
    BY DEF FetchOpsGiven
  <2>2. /\ AtOut(t, q, b, r) <=> r \in s.rkb[b].async
        /\ ~AtOut(s, q, b, r)
    BY <2>1 DEF AtOut
  <2>3. QED
    BY <2>1, <2>2 DEF Held
<1>3. t.app = s.app /\ t.cb = s.cb /\ to \subseteq Brokers
  BY DEF FetchOpsGiven
<1>4. \A b \in Brokers, r \in Records : Held(t, q, b, r) <=> Held(s, q, b, r)
  BY <1>1, <1>2
<1>5. \A b \in Brokers, r \in Records : Held(t, q, b, r) =>
        /\ v.by[r] = b /\ r \notin hand /\ ~InFanout(q, r)
        /\ ~(r \in t.rkb[b].async /\ r \in t.rkb[b].pend)
        /\ ~(r \in t.rkb[b].async /\ AtOut(t, q, b, r))
        /\ ~(r \in t.rkb[b].pend /\ AtOut(t, q, b, r))
  BY <1>1, <1>2, <1>4 DEF AcksOK
<1>6. QED
  BY <1>3, <1>4, <1>5 DEF AcksOK

LEMMA SyncGivenAcks ==
  ASSUME NEW s, NEW t, NEW q, NEW v, NEW hand, NEW to,
         SyncOpsGiven(s, t, q, to), AcksOK(s, q, v, hand)
  PROVE  AcksOK(t, q, v, hand)
<1>1. ASSUME NEW b \in Brokers, b \notin to, NEW r
      PROVE  /\ Held(t, q, b, r) <=> Held(s, q, b, r)
             /\ t.rkb[b].async = s.rkb[b].async /\ t.rkb[b].pend = s.rkb[b].pend
             /\ AtOut(t, q, b, r) <=> AtOut(s, q, b, r)
  BY <1>1 DEF SyncOpsGiven, Held, AtOut, OutOf
<1>2. ASSUME NEW b \in to, NEW r
      PROVE  /\ t.rkb[b].pend = {} /\ t.rkb[b].async = s.rkb[b].async
             /\ AtOut(t, q, b, r) <=> r \in s.rkb[b].pend
             /\ ~AtOut(s, q, b, r)
             /\ Held(t, q, b, r) <=> Held(s, q, b, r)
  <2>1. /\ t.rkb[b].pend = {} /\ t.rkb[b].async = s.rkb[b].async /\ OutOf(s, q, b) = {}
        /\ OutOf(t, q, b) # {} /\ \A o \in OutOf(t, q, b) : o.acks = s.rkb[b].pend
    BY DEF SyncOpsGiven
  <2>2. /\ AtOut(t, q, b, r) <=> r \in s.rkb[b].pend
        /\ ~AtOut(s, q, b, r)
    BY <2>1 DEF AtOut
  <2>3. QED
    BY <2>1, <2>2 DEF Held
<1>3. t.app = s.app /\ t.cb = s.cb /\ to \subseteq Brokers
  BY DEF SyncOpsGiven
<1>4. \A b \in Brokers, r \in Records : Held(t, q, b, r) <=> Held(s, q, b, r)
  BY <1>1, <1>2
<1>5. \A b \in Brokers, r \in Records : Held(t, q, b, r) =>
        /\ v.by[r] = b /\ r \notin hand /\ ~InFanout(q, r)
        /\ ~(r \in t.rkb[b].async /\ r \in t.rkb[b].pend)
        /\ ~(r \in t.rkb[b].async /\ AtOut(t, q, b, r))
        /\ ~(r \in t.rkb[b].pend /\ AtOut(t, q, b, r))
  BY <1>1, <1>2, <1>4 DEF AcksOK
<1>6. QED
  BY <1>3, <1>4, <1>5 DEF AcksOK

LEMMA FetchGivenTruth ==
  ASSUME NEW s, NEW t, NEW q, NEW v, NEW to, NEW selected, NEW leave, Struct(t, q),
         FetchOpsGiven(s, t, q, to, selected, leave), TruthOK(s, q, v)
  PROVE  TruthOK(t, q, v)
<1>1. t.app = s.app /\ t.cb = s.cb
  BY DEF FetchOpsGiven
<1>2. ASSUME NEW b \in Brokers, NEW o \in OutOf(t, q, b) PROVE CodesTrue(v, o)
  <2>1. CASE b \in to
    <3>1. IsOp(o) /\ \A p \in Partitions : o.code[p] = "in_progress"
      BY <2>1 DEF FetchOpsGiven, Struct, BrokerOK, OutOf
    <3>2. \A r \in o.acks : r[1] \in Partitions
      BY <3>1, RecordType DEF IsOp
    <3>3. QED
      BY <3>1, <3>2 DEF CodesTrue
  <2>2. CASE b \notin to
    BY <2>2 DEF FetchOpsGiven, OutOf, TruthOK
  <2>3. QED
    BY <2>1, <2>2
<1>3. QED
  BY <1>1, <1>2 DEF TruthOK

LEMMA SyncGivenTruth ==
  ASSUME NEW s, NEW t, NEW q, NEW v, NEW to, Struct(t, q),
         SyncOpsGiven(s, t, q, to), TruthOK(s, q, v)
  PROVE  TruthOK(t, q, v)
<1>1. t.app = s.app /\ t.cb = s.cb
  BY DEF SyncOpsGiven
<1>2. ASSUME NEW b \in Brokers, NEW o \in OutOf(t, q, b) PROVE CodesTrue(v, o)
  <2>1. CASE b \in to
    <3>1. IsOp(o) /\ \A p \in Partitions : o.code[p] = "in_progress"
      BY <2>1 DEF SyncOpsGiven, Struct, BrokerOK, OutOf
    <3>2. \A r \in o.acks : r[1] \in Partitions
      BY <3>1, RecordType DEF IsOp
    <3>3. QED
      BY <3>1, <3>2 DEF CodesTrue
  <2>2. CASE b \notin to
    BY <2>2 DEF SyncOpsGiven, OutOf, TruthOK
  <2>3. QED
    BY <2>1, <2>2
<1>3. QED
  BY <1>1, <1>2 DEF TruthOK

LEMMA FetchGivenFetch ==
  ASSUME NEW s, NEW t, NEW q, NEW to, NEW selected, NEW leave,
         FetchOpsGiven(s, t, q, to, selected, leave), FetchOK(s, q),
         selected \in to => s.main.fetches = 0 /\ s.main.more
  PROVE  FetchOK(t, q)
<1>1. ASSUME NEW b \in Brokers, b # selected \/ b \notin to
      PROVE  b \in Fetching(t, q) <=> b \in Fetching(s, q)
  BY <1>1 DEF FetchOpsGiven, Fetching, OutOf
<1>2. selected \in to => selected \in Fetching(t, q)
  BY DEF FetchOpsGiven, Fetching
<1>3. t.main.more = s.main.more /\ to \subseteq Brokers
  BY DEF FetchOpsGiven, SameMain
<1>4. CASE selected \in to
  <2>1. Fetching(s, q) = {} /\ t.main.fetches = 1
    BY <1>4 DEF FetchOK, FetchOpsGiven
  <2>2. Fetching(t, q) = {selected}
    BY <1>1, <1>2, <1>4, <2>1 DEF Fetching
  <2>3. QED
    BY <1>3, <1>4, <2>1, <2>2 DEF FetchOK
<1>5. CASE selected \notin to
  <2>1. t.main.fetches = s.main.fetches
    BY <1>5 DEF FetchOpsGiven
  <2>2. Fetching(t, q) = Fetching(s, q)
    BY <1>1, <1>5 DEF Fetching
  <2>3. QED
    BY <1>3, <2>1, <2>2 DEF FetchOK
<1>6. QED
  BY <1>4, <1>5

LEMMA SyncGivenFetch ==
  ASSUME NEW s, NEW t, NEW q, NEW to, SyncOpsGiven(s, t, q, to), FetchOK(s, q)
  PROVE  FetchOK(t, q)
<1>1. Fetching(t, q) = Fetching(s, q) /\ t.main = s.main
  BY DEF SyncOpsGiven, Fetching, OutOf
<1>2. QED
  BY <1>1 DEF FetchOK

LEMMA FetchGivenSync ==
  ASSUME NEW s, NEW t, NEW q, NEW v, NEW late, NEW back, NEW to, NEW selected, NEW leave,
         Struct(s, q), FetchOpsGiven(s, t, q, to, selected, leave), SyncPart(s, q, v, late, back)
  PROVE  SyncPart(t, q, v, late, back)
<1>1. t.app = s.app /\ t.main.sync = s.main.sync /\ t.main.counter = s.main.counter
      /\ s.main.counter \in Nat /\ to \subseteq Brokers
  BY DEF FetchOpsGiven, SameMain, Struct, Shape
<1>2. \A o : Current(t, o) <=> Current(s, o)
  BY <1>1 DEF Current
<1>3. ASSUME NEW b \in Brokers
      PROVE  /\ t.rkb[b].pend = s.rkb[b].pend /\ t.rkb[b].pendid = s.rkb[b].pendid
             /\ \/ OutOf(t, q, b) = OutOf(s, q, b)
                \/ OutOf(s, q, b) = {} /\ \A o \in OutOf(t, q, b) : o.sync = 0
  BY DEF FetchOpsGiven, OutOf
<1>4. \A b \in Brokers : \A o \in OutOf(t, q, b) :
        Current(s, o) => OutOf(t, q, b) = OutOf(s, q, b)
  BY <1>3 DEF Current
<1>5. \A b \in Brokers : \A o \in OutOf(s, q, b) : o \in OutOf(t, q, b)
  BY <1>3
<1>6. Owing(t, q) = Owing(s, q)
  BY <1>2, <1>3, <1>4, <1>5 DEF Owing
<1>7. \A b \in Brokers : \A o \in OutOf(t, q, b) : o.sync <= t.main.counter
  BY <1>1, <1>3 DEF SyncPart
<1>8. \A b \in Brokers :
        /\ t.rkb[b].pend # {} =>
             /\ t.main.sync.id # 0 /\ t.rkb[b].pendid = t.main.sync.id
             /\ Whole(t.app.synced, t.rkb[b].pend)
             /\ \A o \in OutOf(t, q, b) : ~Current(t, o)
        /\ \A o \in OutOf(t, q, b) : Current(t, o) => Whole(t.app.synced, o.acks)
  BY <1>1, <1>2, <1>3, <1>4 DEF SyncPart
<1>9. \A p \in Partitions : t.main.sync.results[p] = "in_progress" =>
        \/ p \in Parts(back)
        \/ \E b \in Brokers : \/ p \in Parts(t.rkb[b].pend)
                              \/ \E o \in OutOf(t, q, b) : Current(t, o) /\ p \in Parts(o.acks)
  BY <1>1, <1>2, <1>3, <1>5 DEF SyncPart
<1>10. QED
  BY <1>1, <1>6, <1>7, <1>8, <1>9 DEF SyncPart

LEMMA SyncGivenSync ==
  ASSUME NEW s, NEW t, NEW q, NEW v, NEW late, NEW back, NEW to,
         Struct(s, q), SyncOpsGiven(s, t, q, to), SyncPart(s, q, v, late, back),
         \A b \in to : s.rkb[b].pend # {}
  PROVE  SyncPart(t, q, v, late, back)
<1>1. /\ t.app = s.app /\ t.main = s.main /\ s.main.counter \in Nat /\ to \subseteq Brokers
      /\ s.main.sync.id \in Nat /\ s.main.sync.id \in {0, s.main.counter}
  BY DEF SyncOpsGiven, Struct, Shape, SyncPart
<1>2. \A o : Current(t, o) <=> Current(s, o)
  BY <1>1 DEF Current
<1>3. ASSUME NEW b \in Brokers, b \notin to
      PROVE  t.rkb[b] = s.rkb[b] /\ OutOf(t, q, b) = OutOf(s, q, b)
  BY <1>3 DEF SyncOpsGiven, OutOf
<1>4. ASSUME NEW b \in to
      PROVE  /\ t.rkb[b].pend = {} /\ OutOf(t, q, b) # {} /\ OutOf(s, q, b) = {}
             /\ s.rkb[b].pend # {} /\ Whole(s.app.synced, s.rkb[b].pend)
             /\ \A o \in OutOf(t, q, b) : /\ Current(t, o) /\ o.acks = s.rkb[b].pend
                                         /\ o.sync <= s.main.counter
  <2>1. /\ t.rkb[b].pend = {} /\ OutOf(t, q, b) # {} /\ s.rkb[b].pend # {} /\ b \in Brokers
        /\ \A o \in OutOf(t, q, b) : o.sync = s.rkb[b].pendid /\ o.acks = s.rkb[b].pend
        /\ OutOf(s, q, b) = {}
    BY <1>1 DEF SyncOpsGiven
  <2>2. /\ s.main.sync.id # 0 /\ s.rkb[b].pendid = s.main.sync.id
        /\ Whole(s.app.synced, s.rkb[b].pend)
    BY <2>1 DEF SyncPart
  <2>3. \A o \in OutOf(t, q, b) : Current(t, o)
    BY <1>1, <2>1, <2>2 DEF Current
  <2>4. s.main.sync.id <= s.main.counter
    BY <1>1, <2>2
  <2>5. QED
    BY <2>1, <2>2, <2>3, <2>4
<1>5. Owing(t, q) = Owing(s, q)
  BY <1>1, <1>2, <1>3, <1>4 DEF Owing
<1>6. \A b \in Brokers : \A o \in OutOf(t, q, b) : o.sync <= t.main.counter
  BY <1>1, <1>3, <1>4 DEF SyncPart
<1>7. \A b \in Brokers :
        /\ t.rkb[b].pend # {} =>
             /\ t.main.sync.id # 0 /\ t.rkb[b].pendid = t.main.sync.id
             /\ Whole(t.app.synced, t.rkb[b].pend)
             /\ \A o \in OutOf(t, q, b) : ~Current(t, o)
        /\ \A o \in OutOf(t, q, b) : Current(t, o) => Whole(t.app.synced, o.acks)
  BY <1>1, <1>2, <1>3, <1>4 DEF SyncPart
<1>8. ASSUME NEW p \in Partitions, t.main.sync.results[p] = "in_progress", p \notin Parts(back)
      PROVE  \E b \in Brokers : \/ p \in Parts(t.rkb[b].pend)
                                \/ \E o \in OutOf(t, q, b) : Current(t, o) /\ p \in Parts(o.acks)
  <2>1. PICK b \in Brokers : \/ p \in Parts(s.rkb[b].pend)
                             \/ \E o \in OutOf(s, q, b) : Current(s, o) /\ p \in Parts(o.acks)
    BY <1>1, <1>8 DEF SyncPart
  <2>2. CASE b \in to
    BY <1>4, <2>1, <2>2
  <2>3. CASE b \notin to
    BY <1>2, <1>3, <2>1, <2>3
  <2>4. QED
    BY <2>2, <2>3
<1>9. QED
  BY <1>1, <1>5, <1>6, <1>7, <1>8 DEF SyncPart

-----------------------------------------------------------------------------
(* The result of commit_sync(). *)

\* The response to the application: what it changes.
Responded(s, t) ==
  /\ Shape(t) /\ t.rkb = s.rkb /\ t.cb = s.cb
  /\ t.main.more = s.main.more /\ t.main.fetches = s.main.fetches
  /\ t.main.leaves = s.main.leaves /\ t.main.terminate = s.main.terminate
  /\ t.main.counter = s.main.counter /\ t.main.sync = NoSync
  /\ t.app.at = "idle" /\ t.app.result = s.main.sync.results
  /\ \A x \in AppFields \ {"at", "result"} : t.app[x] = s.app[x]

LEMMA SendResponseDoes ==
  ASSUME NEW s, Shape(s)
  PROVE  Responded(s, SendResponse(s))
<1> DEFINE t == SendResponse(s)
<1>1. /\ DOMAIN t = DOMAIN s /\ t.rkb = s.rkb /\ t.cb = s.cb /\ DOMAIN t.app = DOMAIN s.app
      /\ DOMAIN t.main = DOMAIN s.main
  BY DEF SendResponse, Shape
<1>2. /\ t.main.more = s.main.more /\ t.main.fetches = s.main.fetches
      /\ t.main.leaves = s.main.leaves /\ t.main.terminate = s.main.terminate
      /\ t.main.counter = s.main.counter /\ t.main.sync = NoSync
  BY DEF SendResponse, Shape, MainFields
<1>3. /\ t.app.at = "idle" /\ t.app.result = s.main.sync.results
      /\ \A x \in AppFields \ {"at", "result"} : t.app[x] = s.app[x]
  BY DEF SendResponse, Shape, AppFields
<1> HIDE DEF t
<1>4. DOMAIN NoSync = {"id", "cnt", "results"} /\ DOMAIN NoSync.results = Partitions /\ NoSync.id = 0
  BY DEF NoSync
<1>5. Shape(t)
  BY <1>1, <1>2, <1>3, <1>4 DEF Shape, CallStates
<1>6. QED
  BY <1>1, <1>2, <1>3, <1>5 DEF Responded, t

\* It is sent only for a commit_sync() that no broker owes an answer.
LEMMA RespondedOK ==
  ASSUME NEW s, NEW t, NEW q, NEW w, NEW v, Responded(s, t), s.main.sync.id # 0,
         SyncPart(s, q, v, 0, {}), Owing(s, q) = {}, Struct(s, q),
         \A p \in Partitions : s.main.sync.results[p] # "in_progress"
  PROVE  /\ SyncOK(t, q, v) /\ Struct(t, q)
         /\ FetchOK(s, q) => FetchOK(t, q)
         /\ RequestOK(s, q, w) => RequestOK(t, q, w)
         /\ DeliveryOK(s, w, v) => DeliveryOK(t, w, v)
         /\ CallsOK(s, q, v) => CallsOK(t, q, v)
         /\ LeaveOK(s, q) => LeaveOK(t, q)
         /\ \A hand : AcksOK(s, q, v, hand) => AcksOK(t, q, v, hand)
         /\ TruthOK(s, q, v) => TruthOK(t, q, v)
<1>1. /\ t.rkb = s.rkb /\ t.cb = s.cb /\ t.main.sync = NoSync /\ t.main.counter = s.main.counter
      /\ t.main.more = s.main.more /\ t.main.fetches = s.main.fetches
      /\ t.main.leaves = s.main.leaves /\ t.main.terminate = s.main.terminate
      /\ t.app.at = "idle" /\ t.app.result = s.main.sync.results
      /\ t.app.synced = s.app.synced /\ t.app.built = s.app.built /\ t.app.map = s.app.map
      /\ t.app.typed = s.app.typed /\ t.app.given = s.app.given
      /\ t.app.requested = s.app.requested
  BY DEF Responded, AppFields
<1>2. \A b : OutOf(t, q, b) = OutOf(s, q, b)
  BY <1>1 DEF OutOf
<1>3. s.app.at = "sync"
  BY DEF SyncPart
<1>4. /\ NoSync.id = 0 /\ NoSync.cnt = 0 /\ NoSync.results = [p \in Partitions |-> "absent"]
  BY DEF NoSync
<1>5. \A o : ~Current(t, o)
  BY <1>1, <1>4 DEF Current
<1>6. \A b \in Brokers : s.rkb[b].pend = {}
  BY DEF Owing
<1>7. Owing(t, q) = {}
  BY <1>1, <1>5, <1>6 DEF Owing
<1>8. SyncOK(t, q, v)
  BY <1>1, <1>2, <1>4, <1>5, <1>6, <1>7, FS_EmptySet DEF SyncPart, SyncOK
<1>9. Struct(t, q)
  BY <1>1 DEF Struct, Responded
<1>10. FetchOK(s, q) => FetchOK(t, q)
  BY <1>1, <1>2 DEF FetchOK, Fetching
<1>11. RequestOK(s, q, w) => RequestOK(t, q, w)
  BY <1>1, <1>3 DEF RequestOK, Responding
<1>12. DeliveryOK(s, w, v) => DeliveryOK(t, w, v)
  BY <1>1, <1>3 DEF DeliveryOK
<1>13. CallsOK(s, q, v) => CallsOK(t, q, v)
  BY <1>1, <1>3 DEF CallsOK
<1>14. LeaveOK(s, q) => LeaveOK(t, q)
  BY <1>1, <1>2, <1>3 DEF LeaveOK
<1>15. \A hand : AcksOK(s, q, v, hand) => AcksOK(t, q, v, hand)
  BY <1>1, <1>2 DEF AcksOK, Held, AtOut
<1>16. TruthOK(s, q, v) => TruthOK(t, q, v)
  <2>1. \A r \in s.app.synced : s.main.sync.results[r[1]] = "ok" => v.lock[r] = "done"
    BY RecordType DEF SyncPart
  <2>2. QED
    BY <1>1, <1>2, <2>1 DEF TruthOK
<1>17. QED
  BY <1>8, <1>9, <1>10, <1>11, <1>12, <1>13, <1>14, <1>15, <1>16

\* Everything but SyncPart, with acknowledgements `hand` in the main thread's hand.
Others(s, q, w, v, hand) ==
  /\ Struct(s, q) /\ FetchOK(s, q) /\ RequestOK(s, q, w) /\ DeliveryOK(s, w, v)
  /\ AcksOK(s, q, v, hand) /\ TruthOK(s, q, v) /\ CallsOK(s, q, v) /\ LeaveOK(s, q)

\* Each of these acknowledgements has its outcome, and it is true.
Told(v, acks, code) ==
  /\ acks \subseteq Records
  /\ \A r \in acks : code[r[1]] \in {"ok", "err"} /\ (code[r[1]] = "ok" => v.lock[r] = "done")

LEMMA ApplyResultOK ==
  ASSUME NEW s, NEW q, NEW w, NEW v, NEW hand, NEW back, NEW code,
         Others(s, q, w, v, hand), SyncPart(s, q, v, 1, back), s.main.sync.id # 0,
         Whole(s.app.synced, back),
         \A r \in back : code[r[1]] \in {"ok", "err"} /\ (code[r[1]] = "ok" => v.lock[r] = "done")
  PROVE  /\ Others(ApplyResult(s, back, code), q, w, v, hand)
         /\ SyncOK(ApplyResult(s, back, code), q, v)
<1> DEFINE R == [p \in Partitions |->
                   IF p \in Parts(back) /\ s.main.sync.results[p] # "absent" THEN code[p]
                   ELSE s.main.sync.results[p]]
           u == [s EXCEPT !.main.sync.cnt = @ - 1, !.main.sync.results = R]
           t == ApplyResult(s, back, code)
<1>1. t = IF u.main.sync.cnt > 0 THEN u ELSE SendResponse(u)
  BY DEF ApplyResult
<1>2. Struct(s, q) /\ Shape(s)
  BY DEF Others, Struct
<1>3. DOMAIN R = Partitions
  OBVIOUS
<1>4. /\ \A p \in Partitions : R[p] = IF p \in Parts(back) /\ s.main.sync.results[p] # "absent"
                                      THEN code[p] ELSE s.main.sync.results[p]
  OBVIOUS
<1> HIDE DEF R
<1>5. /\ DOMAIN u = DOMAIN s /\ u.app = s.app /\ u.rkb = s.rkb /\ u.cb = s.cb
      /\ DOMAIN u.main = DOMAIN s.main /\ DOMAIN u.main.sync = DOMAIN s.main.sync
  BY <1>2 DEF Shape, MainFields
<1>6. /\ u.main.more = s.main.more /\ u.main.fetches = s.main.fetches
      /\ u.main.leaves = s.main.leaves /\ u.main.terminate = s.main.terminate
      /\ u.main.counter = s.main.counter
  BY <1>2 DEF Shape, MainFields
<1>7. u.main.sync.id = s.main.sync.id /\ u.main.sync.cnt = s.main.sync.cnt - 1
      /\ u.main.sync.results = R
  BY <1>2 DEF Shape, MainFields
<1> HIDE DEF u
<1>8. Struct(u, q)
  <2>1. Shape(u)
    BY <1>2, <1>3, <1>5, <1>6, <1>7 DEF Shape
  <2>2. QED
    BY <1>2, <1>5, <2>1 DEF Struct
<1>9. \A b : OutOf(u, q, b) = OutOf(s, q, b)
  BY <1>5 DEF OutOf
<1>10. \A o : Current(u, o) <=> Current(s, o)
  BY <1>7 DEF Current
<1>11. Owing(u, q) = Owing(s, q)
  BY <1>5, <1>9, <1>10 DEF Owing
<1>12. IsFiniteSet(Owing(s, q)) /\ Cardinality(Owing(s, q)) \in Nat
  <2>1. Owing(s, q) \subseteq Brokers
    BY DEF Owing
  <2>2. QED
    BY <2>1, ShareSets, FS_Subset, FS_CardinalityType
<1>13. s.main.sync.cnt = Cardinality(Owing(s, q)) + 1
  BY DEF SyncPart
<1>14. u.main.sync.cnt = Cardinality(Owing(u, q))
  BY <1>7, <1>11, <1>12, <1>13
<1>15. ASSUME NEW p \in Partitions
       PROVE  /\ R[p] = "in_progress" => p \notin Parts(back) /\ s.main.sync.results[p] = "in_progress"
              /\ R[p] = "ok" => \A r \in s.app.synced : r[1] = p => v.lock[r] = "done"
  <2>1. CASE p \in Parts(back)
    <3>1. PICK a \in back : a[1] = p
      BY <2>1 DEF Parts
    <3>2. code[p] \in {"ok", "err"}
      BY <3>1
    <3>3. \A r \in s.app.synced : r[1] = p => r \in back
      BY <3>1 DEF Whole
    <3>4. R[p] = "in_progress" => FALSE
      BY <1>4, <2>1, <3>2
    <3>5. R[p] = "ok" => code[p] = "ok"
      BY <1>4, <2>1
    <3>6. QED
      BY <3>3, <3>4, <3>5
  <2>2. CASE p \notin Parts(back)
    BY <1>4, <2>2 DEF SyncPart
  <2>3. QED
    BY <2>1, <2>2
<1>16. SyncPart(u, q, v, 0, {})
  <2>1. \A p \in Partitions :
          /\ u.main.sync.results[p] = "in_progress" =>
               \/ p \in Parts({})
               \/ \E b \in Brokers : \/ p \in Parts(u.rkb[b].pend)
                                     \/ \E o \in OutOf(u, q, b) : Current(u, o) /\ p \in Parts(o.acks)
          /\ u.main.sync.results[p] = "ok" =>
               \A r \in u.app.synced : r[1] = p => v.lock[r] = "done"
    BY <1>5, <1>7, <1>9, <1>10, <1>15 DEF SyncPart
  <2>2. u.main.sync.cnt = Cardinality(Owing(u, q)) + 0
    BY <1>11, <1>12, <1>14
  <2>3. QED
    BY <1>5, <1>6, <1>7, <1>9, <1>10, <2>1, <2>2 DEF SyncPart
<1>17. Others(u, q, w, v, hand)
  <2>1. SameCalls(s, u)
    BY <1>5, <1>6, <1>7 DEF SameCalls
  <2>2. FetchOK(u, q)
    BY <1>6, <1>9 DEF Others, FetchOK, Fetching
  <2>3. RequestOK(u, q, w) /\ DeliveryOK(u, w, v) /\ CallsOK(u, q, v)
    BY <2>1, SameCallsOK DEF Others
  <2>4. AcksOK(u, q, v, hand)
    BY <1>5, <1>9 DEF Others, AcksOK, Held, AtOut
  <2>5. TruthOK(u, q, v)
    BY <1>5, <1>9 DEF Others, TruthOK
  <2>6. LeaveOK(u, q)
    BY <1>5, <1>6, <1>9 DEF Others, LeaveOK
  <2>7. QED
    BY <1>8, <2>2, <2>3, <2>4, <2>5, <2>6 DEF Others
<1>18. CASE u.main.sync.cnt > 0
  <2>1. t = u
    BY <1>1, <1>18
  <2>2. QED
    BY <1>16, <1>17, <2>1 DEF SyncOK
<1>19. CASE ~(u.main.sync.cnt > 0)
  <2>1. Cardinality(Owing(u, q)) = 0
    BY <1>11, <1>12, <1>14, <1>19
  <2>2. Owing(u, q) = {}
    BY <1>11, <1>12, <2>1, FS_EmptySet
  <2>3. \A p \in Partitions : u.main.sync.results[p] # "in_progress"
    <3>1. \A b \in Brokers : u.rkb[b].pend = {} /\ \A o \in OutOf(u, q, b) : ~Current(u, o)
      BY <2>2 DEF Owing
    <3>2. \A p : p \notin Parts({})
      BY DEF Parts
    <3>3. QED
      BY <1>16, <3>1, <3>2 DEF SyncPart
  <2>4. t = SendResponse(u) /\ Responded(u, t)
    BY <1>1, <1>8, <1>19, SendResponseDoes DEF Struct
  <2>5. u.main.sync.id # 0
    BY <1>7
  <2> HIDE DEF t
  <2>6. QED
    BY <1>8, <1>16, <1>17, <2>2, <2>3, <2>4, <2>5, RespondedOK DEF Others, t
<1>20. QED
  BY <1>18, <1>19

-----------------------------------------------------------------------------
(* The main thread takes an op from its queue. *)

LEMMA TailIndex ==
  ASSUME NEW q, IsSeq(q), q # <<>>
  PROVE  /\ \A i \in DOMAIN Tail(q) : i \in Nat \ {0} /\ i + 1 \in DOMAIN q /\ Tail(q)[i] = q[i + 1]
         /\ \A i \in DOMAIN q : i \in Nat \ {0} /\
              (i = 1 \/ (i - 1 \in DOMAIN Tail(q) /\ Tail(q)[i - 1] = q[i]))
         /\ 1 \in DOMAIN q /\ IsSeq(Tail(q)) /\ Head(q) = q[1]
<1> DEFINE z == Tail(q)
<1>1. /\ IsSeq(z) /\ Head(q) = q[1] /\ 1 \in DOMAIN q
      /\ \A i \in DOMAIN z : z[i] = q[i + 1] /\ i + 1 \in DOMAIN q
      /\ \A i \in DOMAIN q : i # 1 => i - 1 \in DOMAIN z
      /\ DOMAIN z = 1 .. Len(q) - 1
  BY TailSeq
<1>2. Len(q) \in Nat /\ DOMAIN q = 1 .. Len(q)
  BY SeqFacts
<1> HIDE DEF z
<1>3. \A i \in DOMAIN z : i \in Nat \ {0}
  BY <1>1, <1>2
<1>4. ASSUME NEW i \in DOMAIN q, i # 1 PROVE i - 1 \in DOMAIN z /\ z[i - 1] = q[i]
  <2>1. i \in Nat /\ i - 1 \in DOMAIN z /\ (i - 1) + 1 = i
    BY <1>1, <1>2, <1>4
  <2>2. QED
    BY <1>1, <2>1
<1>5. \A i \in DOMAIN q : i \in Nat \ {0}
  BY <1>2
<1>6. QED
  BY <1>1, <1>3, <1>4, <1>5 DEF z

LEMMA TailQueue ==
  ASSUME NEW q, QueueOK(q), q # <<>>
  PROVE  QueueOK(Tail(q))
<1> DEFINE z == Tail(q)
<1>1. IsSeq(z) /\ \A i \in DOMAIN z : i + 1 \in DOMAIN q /\ z[i] = q[i + 1]
  BY TailIndex DEF QueueOK
<1> HIDE DEF z
<1>2. QueueOK(z)
  BY <1>1 DEF QueueOK
<1>3. QED
  BY <1>2 DEF z

LEMMA TailCalls ==
  ASSUME NEW s, NEW q, NEW v, IsSeq(q), q # <<>>, CallsOK(s, q, v)
  PROVE  /\ CallsOK(s, Tail(q), v)
         /\ q[1].type = "COMMIT_SYNC_FANOUT" =>
              \A i \in DOMAIN Tail(q) : Tail(q)[i].type # "COMMIT_SYNC_FANOUT"
         /\ q[1].type = "TERMINATE" => \A i \in DOMAIN Tail(q) : Tail(q)[i].type = "REPLY"
<1> DEFINE z == Tail(q)
<1>1. /\ \A i \in DOMAIN z : i \in Nat \ {0} /\ i + 1 \in DOMAIN q /\ z[i] = q[i + 1]
      /\ 1 \in DOMAIN q
  BY TailIndex
<1> HIDE DEF z
<1>2. ASSUME NEW i \in DOMAIN z, z[i].type = "COMMIT_SYNC_FANOUT"
      PROVE  /\ s.app.at = "sync" /\ s.main.sync.id = 0 /\ z[i].acks = s.app.synced
             /\ SameSource(v, z[i].acks)
             /\ \A j \in DOMAIN z : z[j].type = "COMMIT_SYNC_FANOUT" => i = j
             /\ q[1].type # "COMMIT_SYNC_FANOUT"
  <2>1. /\ s.app.at = "sync" /\ s.main.sync.id = 0 /\ q[i + 1].acks = s.app.synced
        /\ SameSource(v, q[i + 1].acks)
        /\ \A j \in DOMAIN q : q[j].type = "COMMIT_SYNC_FANOUT" => i + 1 = j
    BY <1>1, <1>2 DEF CallsOK
  <2>2. \A j \in DOMAIN z : z[j].type = "COMMIT_SYNC_FANOUT" => i + 1 = j + 1
    BY <1>1, <2>1
  <2>3. \A j \in DOMAIN z : z[j].type = "COMMIT_SYNC_FANOUT" => i = j
    BY <1>1, <2>2
  <2>4. i + 1 # 1
    BY <1>1
  <2>5. QED
    BY <1>1, <2>1, <2>3, <2>4
<1>3. ASSUME NEW i \in DOMAIN z, z[i].type = "TERMINATE"
      PROVE  /\ s.app.at = "close" /\ ~s.main.terminate
             /\ \A j \in DOMAIN z : i < j => z[j].type = "REPLY"
  <2>1. /\ s.app.at = "close" /\ ~s.main.terminate
        /\ \A j \in DOMAIN q : i + 1 < j => q[j].type = "REPLY"
    BY <1>1, <1>3 DEF CallsOK
  <2>2. \A j \in DOMAIN z : i < j => i + 1 < j + 1
    BY <1>1
  <2>3. QED
    BY <1>1, <2>1, <2>2
<1>4. ASSUME q[1].type = "TERMINATE", NEW i \in DOMAIN z PROVE z[i].type = "REPLY"
  <2>1. 1 < i + 1
    BY <1>1
  <2>2. QED
    BY <1>1, <1>4, <2>1 DEF CallsOK
<1>5. CallsOK(s, z, v)
  BY <1>1, <1>2, <1>3 DEF CallsOK
<1>6. QED
  BY <1>2, <1>4, <1>5 DEF z

\* The part of RequestOK about replies, and a request that is still in the queue.
LEMMA TailRequest ==
  ASSUME NEW s, NEW q, NEW w, IsSeq(q), q # <<>>, RequestOK(s, q, w)
  PROVE  LET z == Tail(q) IN
         /\ \A i \in DOMAIN z :
              z[i].type = "REPLY" /\ z[i].op.records /\ s.app.requested =>
                Responding(s, w) \/ \E j \in DOMAIN z : i < j /\ IsRequest(z[j])
         /\ (\E i \in DOMAIN q : IsRequest(q[i])) /\ ~IsRequest(q[1]) =>
              \E i \in DOMAIN z : IsRequest(z[i])
         /\ q[1].type = "REPLY" /\ q[1].op.records /\ s.app.requested =>
              Responding(s, w) \/ \E j \in DOMAIN z : IsRequest(z[j])
<1> DEFINE z == Tail(q)
<1>1. /\ \A i \in DOMAIN z : i \in Nat \ {0} /\ i + 1 \in DOMAIN q /\ z[i] = q[i + 1]
      /\ \A i \in DOMAIN q : i \in Nat \ {0} /\
              (i = 1 \/ (i - 1 \in DOMAIN z /\ z[i - 1] = q[i]))
      /\ 1 \in DOMAIN q
  BY TailIndex
<1> HIDE DEF z
<1>2. ASSUME NEW i \in DOMAIN q, q[i].type = "REPLY", q[i].op.records, s.app.requested,
             ~Responding(s, w)
      PROVE  \E j \in DOMAIN z : IsRequest(z[j]) /\ j > i - 1
  <2>1. PICK j \in DOMAIN q : i < j /\ IsRequest(q[j])
    BY <1>2 DEF RequestOK
  <2>2. i \in Nat \ {0} /\ j \in Nat \ {0} /\ j # 1
    BY <1>1, <2>1
  <2>3. j - 1 \in DOMAIN z /\ z[j - 1] = q[j] /\ j - 1 > i - 1
    BY <1>1, <2>1, <2>2
  <2>4. QED
    BY <2>1, <2>3
<1>3. ASSUME NEW i \in DOMAIN z, z[i].type = "REPLY", z[i].op.records, s.app.requested,
             ~Responding(s, w)
      PROVE  \E j \in DOMAIN z : i < j /\ IsRequest(z[j])
  <2>1. i \in Nat /\ i + 1 \in DOMAIN q /\ z[i] = q[i + 1]
    BY <1>1
  <2>2. PICK j \in DOMAIN z : IsRequest(z[j]) /\ j > (i + 1) - 1
    BY <1>2, <1>3, <2>1
  <2>3. j \in Nat
    BY <1>1
  <2>4. QED
    BY <2>1, <2>2, <2>3
<1>4. (\E i \in DOMAIN q : IsRequest(q[i])) /\ ~IsRequest(q[1]) =>
        \E i \in DOMAIN z : IsRequest(z[i])
  BY <1>1
<1>5. q[1].type = "REPLY" /\ q[1].op.records /\ s.app.requested =>
        Responding(s, w) \/ \E j \in DOMAIN z : IsRequest(z[j])
  BY <1>1, <1>2
<1>6. QED
  BY <1>3, <1>4, <1>5 DEF z

LEMMA TailFanout ==
  ASSUME NEW q, IsSeq(q), q # <<>>, NEW r
  PROVE  InFanout(q, r) <=> (q[1].type # "REPLY" /\ r \in q[1].acks) \/ InFanout(Tail(q), r)
<1> DEFINE z == Tail(q)
<1>1. /\ \A i \in DOMAIN z : i \in Nat \ {0} /\ i + 1 \in DOMAIN q /\ z[i] = q[i + 1]
      /\ \A i \in DOMAIN q : i \in Nat \ {0} /\
              (i = 1 \/ (i - 1 \in DOMAIN z /\ z[i - 1] = q[i]))
      /\ 1 \in DOMAIN q
  BY TailIndex
<1> HIDE DEF z
<1>2. InFanout(q, r) <=> (q[1].type # "REPLY" /\ r \in q[1].acks) \/ InFanout(z, r)
  BY <1>1 DEF InFanout
<1>3. QED
  BY <1>2 DEF z

LEMMA TailDisjoint ==
  ASSUME NEW q, IsSeq(q), q # <<>>,
         \A i, j \in DOMAIN q :
           q[i].type # "REPLY" /\ q[j].type # "REPLY" /\ i # j => q[i].acks \cap q[j].acks = {}
  PROVE  LET z == Tail(q) IN
         /\ \A i, j \in DOMAIN z :
              z[i].type # "REPLY" /\ z[j].type # "REPLY" /\ i # j => z[i].acks \cap z[j].acks = {}
         /\ q[1].type # "REPLY" => \A r \in q[1].acks : ~InFanout(z, r)
<1> DEFINE z == Tail(q)
<1>1. /\ \A i \in DOMAIN z : i \in Nat \ {0} /\ i + 1 \in DOMAIN q /\ z[i] = q[i + 1]
      /\ 1 \in DOMAIN q
  BY TailIndex
<1> HIDE DEF z
<1>2. ASSUME NEW i \in DOMAIN z, NEW j \in DOMAIN z, z[i].type # "REPLY", z[j].type # "REPLY",
             i # j
      PROVE  z[i].acks \cap z[j].acks = {}
  <2>1. i + 1 # j + 1
    BY <1>1, <1>2
  <2>2. QED
    BY <1>1, <1>2, <2>1
<1>3. ASSUME q[1].type # "REPLY", NEW r \in q[1].acks PROVE ~InFanout(z, r)
  <2>1. SUFFICES ASSUME NEW i \in DOMAIN z, z[i].type # "REPLY", r \in z[i].acks PROVE FALSE
    BY DEF InFanout
  <2>2. i + 1 # 1 /\ i + 1 \in DOMAIN q /\ z[i] = q[i + 1]
    BY <1>1
  <2>3. QED
    BY <1>1, <1>3, <2>1, <2>2
<1>4. QED
  BY <1>2, <1>3 DEF z

\* The queue q becomes z and no broker's ops change.
LEMMA SameOut ==
  ASSUME NEW s, NEW q, NEW z, NEW v, NEW late, NEW back, QueueOK(z), Struct(s, q),
         \A b \in Brokers :
           /\ OutOf(s, z, b) = OutOf(s, q, b)
           /\ Exclusive(s.rkb[b].ops, s.rkb[b].sent, z, b)
  PROVE  /\ Struct(s, z)
         /\ FetchOK(s, q) => FetchOK(s, z)
         /\ LeaveOK(s, q) => LeaveOK(s, z)
         /\ SyncPart(s, q, v, late, back) => SyncPart(s, z, v, late, back)
<1>1. Struct(s, z)
  BY DEF Struct, BrokerOK, OutOf
<1>2. FetchOK(s, q) => FetchOK(s, z)
  BY DEF FetchOK, Fetching
<1>3. LeaveOK(s, q) => LeaveOK(s, z)
  BY DEF LeaveOK
<1>4. SyncPart(s, q, v, late, back) => SyncPart(s, z, v, late, back)
  <2>1. Owing(s, z) = Owing(s, q)
    BY DEF Owing
  <2>2. QED
    BY <2>1 DEF SyncPart
<1>5. QED
  BY <1>1, <1>2, <1>3, <1>4

LEMMA PopCall ==
  ASSUME NEW s, NEW q, NEW w, NEW v, Good(s, q, w, v), q # <<>>, q[1].type # "REPLY"
  PROVE  LET z == Tail(q) IN
         /\ Struct(s, z) /\ FetchOK(s, z) /\ DeliveryOK(s, w, v) /\ AcksOK(s, z, v, q[1].acks)
         /\ TruthOK(s, z, v) /\ CallsOK(s, z, v) /\ LeaveOK(s, z) /\ SyncOK(s, z, v)
         /\ q[1].acks \subseteq Records /\ ~s.main.terminate
         /\ q[1].type \in QueueTypes
         /\ ~IsRequest(q[1]) => RequestOK(s, z, w)
         /\ \A i \in DOMAIN z :
              z[i].type = "REPLY" /\ z[i].op.records /\ s.app.requested =>
                Responding(s, w) \/ \E j \in DOMAIN z : i < j /\ IsRequest(z[j])
<1> DEFINE z == Tail(q)
<1>1. QueueOK(q) /\ IsSeq(q) /\ QueueOK(z)
  BY TailQueue DEF Good, Struct, QueueOK
<1>2. \A b \in Brokers : /\ OutOf(s, z, b) = OutOf(s, q, b)
                         /\ Exclusive(s.rkb[b].ops, s.rkb[b].sent, z, b)
  BY <1>1, QueueTailOther DEF OutOf, Good, Struct, BrokerOK
<1>3. /\ \A i \in DOMAIN z : i + 1 \in DOMAIN q /\ z[i] = q[i + 1]
      /\ 1 \in DOMAIN q
  BY <1>1, TailIndex
<1>4. /\ \A r : InFanout(q, r) <=> r \in q[1].acks \/ InFanout(z, r)
      /\ \A r \in q[1].acks : ~InFanout(z, r)
      /\ \A i, j \in DOMAIN z :
           z[i].type # "REPLY" /\ z[j].type # "REPLY" /\ i # j => z[i].acks \cap z[j].acks = {}
  BY <1>1, TailFanout, TailDisjoint DEF Good, AcksOK
<1>5. CallsOK(s, z, v)
  BY <1>1, TailCalls DEF Good
<1>6. /\ \A i \in DOMAIN z :
           z[i].type = "REPLY" /\ z[i].op.records /\ s.app.requested =>
             Responding(s, w) \/ \E j \in DOMAIN z : i < j /\ IsRequest(z[j])
      /\ (\E i \in DOMAIN q : IsRequest(q[i])) /\ ~IsRequest(q[1]) =>
            \E i \in DOMAIN z : IsRequest(z[i])
  BY <1>1, TailRequest DEF Good
<1> HIDE DEF z
<1>7. Struct(s, z) /\ FetchOK(s, z) /\ LeaveOK(s, z) /\ SyncOK(s, z, v)
  BY <1>1, <1>2, SameOut DEF Good, SyncOK
<1>8. AcksOK(s, z, v, q[1].acks)
  <2>1. \A b \in Brokers : \A r : /\ Held(s, z, b, r) <=> Held(s, q, b, r)
                                  /\ AtOut(s, z, b, r) <=> AtOut(s, q, b, r)
    BY <1>2 DEF Held, AtOut
  <2>2. AcksOK(s, q, v, {})
    BY DEF Good
  <2>3. \A r \in Records : (r \in s.app.built /\ s.cb[r] = "none") <=>
           (r \in q[1].acks \/ InFanout(z, r) \/ \E b \in Brokers : Held(s, z, b, r))
    BY <1>4, <2>1, <2>2 DEF AcksOK
  <2>4. \A b \in Brokers, r \in Records : Held(s, z, b, r) =>
          /\ v.by[r] = b /\ r \notin q[1].acks /\ ~InFanout(z, r)
          /\ ~(r \in s.rkb[b].async /\ r \in s.rkb[b].pend)
          /\ ~(r \in s.rkb[b].async /\ AtOut(s, z, b, r))
          /\ ~(r \in s.rkb[b].pend /\ AtOut(s, z, b, r))
    BY <1>4, <2>1, <2>2 DEF AcksOK
  <2>5. \A r \in Records : s.cb[r] # "none" => r \in s.app.built
    BY <2>2 DEF AcksOK
  <2>6. QED
    BY <1>4, <2>3, <2>4, <2>5 DEF AcksOK
<1>9. TruthOK(s, z, v)
  BY <1>2, <1>3 DEF Good, TruthOK
<1>10. ~IsRequest(q[1]) => RequestOK(s, z, w)
  BY <1>6 DEF Good, RequestOK
<1>11. q[1].acks \subseteq Records /\ ~s.main.terminate /\ q[1].type \in QueueTypes
  BY <1>1, <1>3 DEF QueueOK, Good, CallsOK
<1>12. DeliveryOK(s, w, v)
  BY DEF Good
<1>13. QED
  BY <1>5, <1>6, <1>7, <1>8, <1>9, <1>10, <1>11, <1>12 DEF z

-----------------------------------------------------------------------------
(* Outcomes are passed to the callback. *)

LEMMA CallbacksOK ==
  ASSUME NEW s, NEW q, NEW w, NEW v, NEW late, NEW back, NEW hand \in SUBSET Records,
         NEW acks \in SUBSET hand, NEW code,
         Others(s, q, w, v, hand), SyncPart(s, q, v, late, back),
         Told(v, acks, code)
  PROVE  LET t == DispatchAckCallbacks(s, acks, code) IN
         /\ Others(t, q, w, v, hand \ acks) /\ SyncPart(t, q, v, late, back)
         /\ t.app = s.app /\ t.main = s.main /\ t.rkb = s.rkb /\ DOMAIN t = DOMAIN s
<1> DEFINE C == [r \in Records |-> IF r \notin acks THEN s.cb[r]
                                   ELSE IF s.cb[r] = "none" THEN code[r[1]] ELSE "twice"]
           t == [s EXCEPT !.cb = C]
<1>1. DispatchAckCallbacks(s, acks, code) = t
  BY DEF DispatchAckCallbacks
<1>2. \A r \in acks : r \in Records /\ s.cb[r] = "none" /\ r \in s.app.built
  BY DEF Others, AcksOK
<1>3. /\ DOMAIN C = Records
      /\ \A r \in Records : C[r] = IF r \in acks THEN code[r[1]] ELSE s.cb[r]
  BY <1>2
<1>12. C \in [Records -> {"none", "ok", "err"}]
  <2>1. s.cb \in [Records -> {"none", "ok", "err"}]
    BY DEF Others, Struct, Shape
  <2>2. \A r \in acks : code[r[1]] \in {"none", "ok", "err"}
    BY DEF Told
  <2>3. QED
    BY <1>2, <2>1, <2>2
<1> HIDE DEF C
<1>4. t.cb = C /\ t.app = s.app /\ t.main = s.main /\ t.rkb = s.rkb /\ DOMAIN t = DOMAIN s
  BY DEF Others, Struct, Shape
<1> HIDE DEF t
<1>5. \A b : OutOf(t, q, b) = OutOf(s, q, b)
  BY <1>4 DEF OutOf
<1>6. Struct(t, q)
  <2>1. Shape(t)
    BY <1>4, <1>12 DEF Others, Struct, Shape
  <2>2. QED
    BY <1>4, <2>1 DEF Others, Struct
<1>7. RequestOK(t, q, w) /\ DeliveryOK(t, w, v) /\ CallsOK(t, q, v)
  <2>1. SameCalls(s, t)
    BY <1>4 DEF SameCalls
  <2>2. QED
    BY <2>1, SameCallsOK DEF Others
<1>8. FetchOK(t, q) /\ LeaveOK(t, q)
  BY <1>4, <1>5 DEF Others, FetchOK, Fetching, LeaveOK
<1>9. SyncPart(t, q, v, late, back)
  <2>1. \A o : Current(t, o) <=> Current(s, o)
    BY <1>4 DEF Current
  <2>2. Owing(t, q) = Owing(s, q)
    BY <1>4, <1>5, <2>1 DEF Owing
  <2>3. QED
    BY <1>4, <1>5, <2>1, <2>2 DEF SyncPart
<1>10. TruthOK(t, q, v)
  BY <1>3, <1>4, <1>5 DEF Others, TruthOK, Told
<1>11. AcksOK(t, q, v, hand \ acks)
  <2>1. \A b, r : /\ Held(t, q, b, r) <=> Held(s, q, b, r)
                  /\ AtOut(t, q, b, r) <=> AtOut(s, q, b, r)
    BY <1>4, <1>5 DEF Held, AtOut
  <2>2. AcksOK(s, q, v, hand)
    BY DEF Others
  <2>3. \A r \in Records : t.cb[r] # "none" => r \in t.app.built
    BY <1>2, <1>3, <1>4, <2>2 DEF AcksOK
  <2>4. \A r \in Records : (r \in t.app.built /\ t.cb[r] = "none") <=>
           (r \in hand \ acks \/ InFanout(q, r) \/ \E b \in Brokers : Held(t, q, b, r))
    <3>1. TAKE r \in Records
    <3>2. CASE r \in acks
      <4>1. ~InFanout(q, r) /\ ~(\E b \in Brokers : Held(s, q, b, r))
        BY <2>2, <3>2 DEF AcksOK
      <4>2. t.cb[r] # "none"
        BY <1>3, <1>4, <3>2 DEF Told
      <4>3. QED
        BY <2>1, <3>2, <4>1, <4>2
    <3>3. CASE r \notin acks
      BY <1>3, <1>4, <2>1, <2>2, <3>3 DEF AcksOK
    <3>4. QED
      BY <3>2, <3>3
  <2>5. \A b \in Brokers, r \in Records : Held(t, q, b, r) =>
          /\ v.by[r] = b /\ r \notin hand \ acks /\ ~InFanout(q, r)
          /\ ~(r \in t.rkb[b].async /\ r \in t.rkb[b].pend)
          /\ ~(r \in t.rkb[b].async /\ AtOut(t, q, b, r))
          /\ ~(r \in t.rkb[b].pend /\ AtOut(t, q, b, r))
    BY <1>4, <2>1, <2>2 DEF AcksOK
  <2>6. /\ \A r \in Records : InFanout(q, r) => r \notin hand \ acks
        /\ \A i, j \in DOMAIN q :
             q[i].type # "REPLY" /\ q[j].type # "REPLY" /\ i # j => q[i].acks \cap q[j].acks = {}
    BY <2>2 DEF AcksOK
  <2>7. QED
    BY <2>3, <2>4, <2>5, <2>6 DEF AcksOK
<1>14. Others(t, q, w, v, hand \ acks)
  BY <1>6, <1>7, <1>8, <1>10, <1>11 DEF Others
<1>13. QED
  BY <1>1, <1>4, <1>9, <1>14

-----------------------------------------------------------------------------
(* Acknowledgements are handed to the brokers' caches. *)

\* The main thread changes what is cached for a broker.
LEMMA BrokerSame ==
  ASSUME NEW k, NEW q, NEW b, BrokerOK(k, q, b), NEW k1, DOMAIN k1 = BrokerFields,
         k1.enq = k.enq, k1.ops = k.ops, k1.sent = k.sent, k1.epoch = k.epoch,
         k1.resp = k.resp, k1.pendid \in Nat, k1.async \subseteq Records, k1.pend \subseteq Records
  PROVE  BrokerOK(k1, q, b)
BY DEF BrokerOK

LEMMA LeaderIs ==
  ASSUME NEW s, \A p \in Partitions : leader[p] \in Brokers, NEW r \in Records, Resolves(s, r)
  PROVE  srv.by[r] \in Brokers /\ ~s.rkb[srv.by[r]].term
BY RecordType DEF Resolves

LEMMA SegregateAcksOK ==
  ASSUME NEW s, NEW q, NEW w, NEW acks \in SUBSET Records, Others(s, q, w, srv, acks),
         SyncOK(s, q, srv), ~s.main.terminate, \A p \in Partitions : leader[p] \in Brokers
  PROVE  LET t == SegregateAcks(s, acks) IN
         /\ Others(t, q, w, srv, {}) /\ SyncOK(t, q, srv)
         /\ t.app = s.app /\ t.main = s.main
         /\ \A b \in Brokers : /\ OutOf(t, q, b) = OutOf(s, q, b) /\ t.rkb[b].enq = s.rkb[b].enq
                               /\ t.rkb[b].term = s.rkb[b].term
<1> DEFINE good == {r \in acks : Resolves(s, r)}
           u == DispatchAckCallbacks(s, acks \ good, AllErr)
           mine(b) == {r \in good : srv.by[r] = b}
           R == [b \in Brokers |-> [s.rkb[b] EXCEPT !.async = @ \cup mine(b)]]
           t == [u EXCEPT !.rkb = R]
<1>1. SegregateAcks(s, acks) = t
  BY DEF SegregateAcks
<1>2. \A r \in good : r \in acks /\ srv.by[r] \in Brokers /\ ~s.rkb[srv.by[r]].term
  BY LeaderIs
<1>3. \A r \in acks \ good : AllErr[r[1]] = "err"
  BY RecordType DEF AllErr
<1>4. /\ Others(u, q, w, srv, acks \ (acks \ good)) /\ SyncOK(u, q, srv)
      /\ u.app = s.app /\ u.main = s.main /\ u.rkb = s.rkb /\ DOMAIN u = DOMAIN s
  <2>1. \A r \in acks \ good : AllErr[r[1]] \in {"ok", "err"} /\ AllErr[r[1]] # "ok"
    BY <1>3
  <2> DEFINE bad == acks \ good
  <2>2. bad \in SUBSET acks
    OBVIOUS
  <2>3. Told(srv, bad, AllErr)
    BY <2>1 DEF Told
  <2>4. SyncPart(s, q, srv, 0, {})
    BY DEF SyncOK
  <2> DEFINE x == DispatchAckCallbacks(s, bad, AllErr)
  <2>5. u = x
    OBVIOUS
  <2> HIDE DEF bad
  <2>6. /\ Others(x, q, w, srv, acks \ bad) /\ SyncPart(x, q, srv, 0, {})
        /\ x.app = s.app /\ x.main = s.main /\ x.rkb = s.rkb /\ DOMAIN x = DOMAIN s
    BY <2>2, <2>3, <2>4, CallbacksOK
  <2> HIDE DEF x, u
  <2>7. QED
    BY <2>5, <2>6 DEF SyncOK, bad
<1>5. acks \ (acks \ good) = good
  OBVIOUS
<1>6. \A b \in Brokers : \A r : r \in mine(b) <=> r \in good /\ srv.by[r] = b
  OBVIOUS
<1>7. good \subseteq acks
  OBVIOUS
<1> HIDE DEF good, mine, u
<1>8. Struct(u, q) /\ Shape(u) /\ Others(u, q, w, srv, good)
  BY <1>4, <1>5 DEF Others, Struct
<1>9. /\ DOMAIN R = Brokers
      /\ \A b \in Brokers :
           /\ DOMAIN R[b] = BrokerFields /\ R[b].async = u.rkb[b].async \cup mine(b)
           /\ R[b].enq = u.rkb[b].enq /\ R[b].ops = u.rkb[b].ops /\ R[b].sent = u.rkb[b].sent
           /\ R[b].epoch = u.rkb[b].epoch /\ R[b].resp = u.rkb[b].resp
           /\ R[b].pend = u.rkb[b].pend /\ R[b].pendid = u.rkb[b].pendid
           /\ R[b].term = u.rkb[b].term
  BY <1>4, <1>8 DEF Struct, BrokerOK, BrokerFields
<1> HIDE DEF R
<1>10. t.rkb = R /\ t.app = u.app /\ t.main = u.main /\ t.cb = u.cb /\ DOMAIN t = DOMAIN u
  BY <1>8 DEF Shape
<1> HIDE DEF t
<1>11. \A b \in Brokers : OutOf(t, q, b) = OutOf(u, q, b)
  BY <1>9, <1>10 DEF OutOf
<1>12. Struct(t, q)
  <2>1. Shape(t)
    BY <1>8, <1>9, <1>10 DEF Shape
  <2>2. ASSUME NEW b \in Brokers PROVE BrokerOK(t.rkb[b], q, b)
    <3>1. BrokerOK(u.rkb[b], q, b)
      BY <1>8 DEF Struct
    <3>2. mine(b) \subseteq Records
      BY <1>6, <1>7
    <3>3. R[b].async \subseteq Records /\ R[b].pend \subseteq Records /\ R[b].pendid \in Nat
      BY <1>9, <3>1, <3>2 DEF BrokerOK
    <3>4. BrokerOK(R[b], q, b)
      BY <1>9, <3>1, <3>3, BrokerSame
    <3>5. QED
      BY <1>10, <3>4
  <2>3. QED
    BY <1>8, <2>1, <2>2 DEF Struct
<1>13. RequestOK(t, q, w) /\ DeliveryOK(t, w, srv) /\ CallsOK(t, q, srv)
  <2>1. SameCalls(u, t)
    BY <1>9, <1>10 DEF SameCalls
  <2>2. QED
    BY <1>8, <2>1, SameCallsOK DEF Others
<1>14. FetchOK(t, q)
  BY <1>8, <1>10, <1>11 DEF Others, FetchOK, Fetching
<1>15. TruthOK(t, q, srv)
  BY <1>8, <1>10, <1>11 DEF Others, TruthOK
<1>16. SyncOK(t, q, srv)
  <2>1. \A o : Current(t, o) <=> Current(u, o)
    BY <1>10 DEF Current
  <2>2. Owing(t, q) = Owing(u, q)
    BY <1>9, <1>10, <1>11, <2>1 DEF Owing
  <2>3. QED
    BY <1>4, <1>9, <1>10, <1>11, <2>1, <2>2 DEF SyncPart, SyncOK
<1>17. LeaveOK(t, q)
  <2>1. LeaveOK(u, q) /\ ~t.main.terminate /\ t.main = u.main /\ t.app = u.app
    BY <1>4, <1>8, <1>10 DEF Others
  <2>2. ASSUME NEW b \in Brokers, t.rkb[b].term
        PROVE  t.rkb[b].async = {} /\ t.rkb[b].pend = {}
    <3>1. u.rkb[b].term /\ u.rkb[b].async = {} /\ u.rkb[b].pend = {}
      BY <1>9, <1>10, <2>1, <2>2 DEF LeaveOK
    <3>2. mine(b) = {}
      BY <1>2, <1>4, <1>6, <3>1
    <3>3. QED
      BY <1>9, <1>10, <3>1, <3>2
  <2>3. \A b \in Brokers : t.rkb[b].enq = u.rkb[b].enq /\ t.rkb[b].term = u.rkb[b].term
    BY <1>9, <1>10
  <2>4. QED
    BY <1>11, <2>1, <2>2, <2>3 DEF LeaveOK
<1>18. AcksOK(t, q, srv, {})
  <2>1. AcksOK(u, q, srv, good) /\ t.app = u.app /\ t.cb = u.cb
    BY <1>8, <1>10 DEF Others
  <2>2. \A b \in Brokers, r \in Records :
          /\ AtOut(t, q, b, r) <=> AtOut(u, q, b, r)
          /\ r \in t.rkb[b].async <=> r \in u.rkb[b].async \/ (r \in good /\ srv.by[r] = b)
          /\ r \in t.rkb[b].pend <=> r \in u.rkb[b].pend
    BY <1>6, <1>9, <1>10, <1>11 DEF AtOut
  <2>3. \A b \in Brokers, r \in Records :
          Held(t, q, b, r) <=> Held(u, q, b, r) \/ (r \in good /\ srv.by[r] = b)
    BY <2>2 DEF Held
  <2>4. \A r \in Records : (r \in t.app.built /\ t.cb[r] = "none") <=>
           (r \in {} \/ InFanout(q, r) \/ \E b \in Brokers : Held(t, q, b, r))
    <3>1. TAKE r \in Records
    <3>2. r \in good => srv.by[r] \in Brokers
      BY <1>2
    <3>3. (\E b \in Brokers : Held(t, q, b, r)) <=>
            r \in good \/ \E b \in Brokers : Held(u, q, b, r)
      BY <2>3, <3>2
    <3>4. QED
      BY <2>1, <3>3 DEF AcksOK
  <2>5. ASSUME NEW b \in Brokers, NEW r \in Records, Held(t, q, b, r)
        PROVE  /\ srv.by[r] = b /\ ~InFanout(q, r)
               /\ ~(r \in t.rkb[b].async /\ r \in t.rkb[b].pend)
               /\ ~(r \in t.rkb[b].async /\ AtOut(t, q, b, r))
               /\ ~(r \in t.rkb[b].pend /\ AtOut(t, q, b, r))
    <3>1. CASE r \in good
      <4>1. ~Held(u, q, b, r) /\ ~InFanout(q, r)
        BY <2>1, <3>1 DEF AcksOK
      <4>2. r \notin u.rkb[b].async /\ r \notin u.rkb[b].pend /\ ~AtOut(u, q, b, r)
        BY <4>1 DEF Held
      <4>3. QED
        BY <2>2, <2>3, <2>5, <3>1, <4>1, <4>2
    <3>2. CASE r \notin good
      BY <2>1, <2>2, <2>3, <2>5, <3>2 DEF AcksOK
    <3>3. QED
      BY <3>1, <3>2
  <2>6. /\ \A r \in Records : t.cb[r] # "none" => r \in t.app.built
        /\ \A i, j \in DOMAIN q :
             q[i].type # "REPLY" /\ q[j].type # "REPLY" /\ i # j => q[i].acks \cap q[j].acks = {}
    BY <2>1 DEF AcksOK
  <2>7. QED
    BY <2>4, <2>5, <2>6 DEF AcksOK
<1>19. Others(t, q, w, srv, {})
  BY <1>12, <1>13, <1>14, <1>15, <1>17, <1>18 DEF Others
<1>20. \A b \in Brokers : /\ OutOf(t, q, b) = OutOf(s, q, b) /\ t.rkb[b].enq = s.rkb[b].enq
                          /\ t.rkb[b].term = s.rkb[b].term
  <2>1. \A b \in Brokers : OutOf(u, q, b) = OutOf(s, q, b)
    BY <1>4 DEF OutOf
  <2>2. QED
    BY <1>4, <1>9, <1>10, <1>11, <2>1
<1>21. QED
  BY <1>1, <1>4, <1>10, <1>16, <1>19, <1>20

\* Ops are given to brokers that have none out, while the consumer is not closed.
LEMMA GiveFetchOps ==
  ASSUME NEW s, NEW q, NEW w, NEW v, NEW hand, NEW late, NEW back, NEW to \in SUBSET Brokers,
         NEW selected,
         Others(s, q, w, v, hand), SyncPart(s, q, v, late, back), ~s.main.terminate,
         \A b \in to : ~s.rkb[b].enq /\ ~s.rkb[b].term,
         selected \in to => s.main.fetches = 0 /\ s.main.more
  PROVE  LET t == EnqueueFetchOps(s, to, selected, FALSE) IN
         /\ Others(t, q, w, v, hand) /\ SyncPart(t, q, v, late, back)
         /\ FetchOpsGiven(s, t, q, to, selected, FALSE)
<1> DEFINE t == EnqueueFetchOps(s, to, selected, FALSE)
<1>1. FetchOpsGiven(s, t, q, to, selected, FALSE) /\ Struct(s, q) /\ Struct(t, q)
  <2>1. Struct(s, q) /\ \A b \in to : ~s.rkb[b].enq
    BY DEF Others
  <2>2. FetchOpsGiven(s, t, q, to, selected, FALSE)
    BY <2>1, EnqueueFetchOpsDoes, Zenon
  <2> HIDE DEF t
  <2>3. QED
    BY <2>1, <2>2 DEF FetchOpsGiven
<1> HIDE DEF t
<1>2. SameCalls(s, t)
  BY <1>1 DEF SameCalls, FetchOpsGiven, SameMain
<1>3. RequestOK(t, q, w) /\ DeliveryOK(t, w, v) /\ CallsOK(t, q, v)
  BY <1>2, SameCallsOK DEF Others
<1>4. AcksOK(t, q, v, hand)
  BY <1>1, FetchGivenAcks DEF Others
<1>5. TruthOK(t, q, v)
  BY <1>1, FetchGivenTruth DEF Others
<1>6. FetchOK(t, q)
  BY <1>1, FetchGivenFetch DEF Others
<1>7. SyncPart(t, q, v, late, back)
  BY <1>1, FetchGivenSync DEF Others
<1>8. LeaveOK(t, q)
  <2>1. t.main.leaves = s.main.leaves /\ t.main.terminate = s.main.terminate /\ t.app = s.app
    BY <1>1 DEF FetchOpsGiven, SameMain
  <2>2. \A b \in Brokers : \A o \in OutOf(t, q, b) : ~o.leave
    BY <1>1 DEF FetchOpsGiven, OutOf, Others, LeaveOK
  <2>3. \A b \in Brokers : t.rkb[b].term =>
          /\ t.rkb[b].async = {} /\ t.rkb[b].pend = {}
          /\ s.rkb[b].term /\ t.rkb[b].enq = s.rkb[b].enq
    BY <1>1 DEF FetchOpsGiven, Others, LeaveOK
  <2>4. QED
    BY <2>1, <2>2, <2>3 DEF LeaveOK, Others
<1>9. QED
  BY <1>1, <1>3, <1>4, <1>5, <1>6, <1>7, <1>8 DEF Others, t

LEMMA GiveSyncOps ==
  ASSUME NEW s, NEW q, NEW w, NEW v, NEW hand, NEW late, NEW back, NEW to \in SUBSET Brokers,
         Others(s, q, w, v, hand), SyncPart(s, q, v, late, back), ~s.main.terminate,
         \A b \in to : ~s.rkb[b].enq /\ ~s.rkb[b].term /\ s.rkb[b].pend # {}
  PROVE  LET t == EnqueueSyncAckOps(s, to) IN
         /\ Others(t, q, w, v, hand) /\ SyncPart(t, q, v, late, back)
         /\ SyncOpsGiven(s, t, q, to)
<1> DEFINE t == EnqueueSyncAckOps(s, to)
<1>1. SyncOpsGiven(s, t, q, to) /\ Struct(s, q) /\ Struct(t, q)
  <2>1. Struct(s, q) /\ \A b \in to : ~s.rkb[b].enq
    BY DEF Others
  <2>2. SyncOpsGiven(s, t, q, to)
    BY <2>1, EnqueueSyncAckOpsDoes, Zenon
  <2> HIDE DEF t
  <2>3. QED
    BY <2>1, <2>2 DEF SyncOpsGiven
<1> HIDE DEF t
<1>2. SameCalls(s, t)
  BY <1>1 DEF SameCalls, SyncOpsGiven
<1>3. RequestOK(t, q, w) /\ DeliveryOK(t, w, v) /\ CallsOK(t, q, v)
  BY <1>2, SameCallsOK DEF Others
<1>4. AcksOK(t, q, v, hand)
  BY <1>1, SyncGivenAcks DEF Others
<1>5. TruthOK(t, q, v)
  BY <1>1, SyncGivenTruth DEF Others
<1>6. FetchOK(t, q)
  BY <1>1, SyncGivenFetch DEF Others
<1>7. SyncPart(t, q, v, late, back)
  BY <1>1, SyncGivenSync DEF Others
<1>8. LeaveOK(t, q)
  <2>1. t.main = s.main /\ t.app = s.app
    BY <1>1 DEF SyncOpsGiven
  <2>2. \A b \in Brokers : \A o \in OutOf(t, q, b) : ~o.leave
    BY <1>1 DEF SyncOpsGiven, OutOf, Others, LeaveOK
  <2>3. \A b \in Brokers : t.rkb[b].term =>
          /\ t.rkb[b].async = {} /\ t.rkb[b].pend = {}
          /\ s.rkb[b].term /\ t.rkb[b].enq = s.rkb[b].enq
    BY <1>1 DEF SyncOpsGiven, Others, LeaveOK
  <2>4. QED
    BY <2>1, <2>2, <2>3 DEF LeaveOK, Others
<1>9. QED
  BY <1>1, <1>3, <1>4, <1>5, <1>6, <1>7, <1>8 DEF Others, t

-----------------------------------------------------------------------------
(* A handler's result becomes the state. *)

LEMMA GoodIs ==
  ASSUME NEW s, NEW q, NEW w, NEW v
  PROVE  Good(s, q, w, v) <=> Others(s, q, w, v, {}) /\ SyncOK(s, q, v)
BY DEF Good, Others

LEMMA GoodFields ==
  ASSUME NEW t, NEW u, NEW q, NEW w, NEW v, Good(t, q, w, v),
         DOMAIN u = {"app", "main", "rkb", "cb"},
         u.app = t.app, u.main = t.main, u.rkb = t.rkb, u.cb = t.cb
  PROVE  Good(u, q, w, v)
<1>1. \A b : OutOf(u, q, b) = OutOf(t, q, b)
  BY DEF OutOf
<1>2. \A o : Current(u, o) <=> Current(t, o)
  BY DEF Current
<1>3. Struct(u, q)
  BY DEF Good, Struct, Shape
<1>4. FetchOK(u, q)
  BY <1>1 DEF Good, FetchOK, Fetching
<1>5. RequestOK(u, q, w) /\ DeliveryOK(u, w, v) /\ CallsOK(u, q, v)
  BY SameCallsOK DEF Good, SameCalls
<1>6. AcksOK(u, q, v, {})
  BY <1>1 DEF Good, AcksOK, Held, AtOut
<1>7. TruthOK(u, q, v)
  BY <1>1 DEF Good, TruthOK
<1>8. LeaveOK(u, q)
  BY <1>1 DEF Good, LeaveOK
<1>9. SyncOK(u, q, v)
  <2>1. Owing(u, q) = Owing(t, q)
    BY <1>1, <1>2 DEF Owing
  <2>2. QED
    BY <1>1, <1>2, <2>1 DEF Good, SyncOK, SyncPart
<1>10. QED
  BY <1>3, <1>4, <1>5, <1>6, <1>7, <1>8, <1>9 DEF Good

\* A step of the main thread that leaves the cluster alone.
LEMMA MainStep ==
  ASSUME Inv, NEW t, Good(t, rk_ops', rkcg_q', srv), Becomes(t), UNCHANGED <<leader, srv, faults>>
  PROVE  Inv'
<1> DEFINE u == [app |-> app', main |-> main', rkb |-> rkb', cb |-> cb']
<1>1. u.app = t.app /\ u.main = t.main /\ u.rkb = t.rkb /\ u.cb = t.cb
  BY DEF Becomes
<1>2. DOMAIN u = {"app", "main", "rkb", "cb"}
  OBVIOUS
<1>3. State' = u
  BY DEF State
<1> HIDE DEF u
<1>4. Good(u, rk_ops', rkcg_q', srv)
  BY <1>1, <1>2, GoodFields
<1>5. Good(u, rk_ops', rkcg_q', srv')
  BY <1>4
<1>6. QED
  BY <1>3, <1>5 DEF Inv

-----------------------------------------------------------------------------
(* The main thread: fetches and asynchronous commits. *)

LEMMA SegregateAndDispatchOK ==
  ASSUME NEW s, NEW q, NEW w, NEW acks \in SUBSET Records, NEW selected,
         Others(s, q, w, srv, acks), SyncOK(s, q, srv), ~s.main.terminate,
         \A p \in Partitions : leader[p] \in Brokers,
         selected \in Brokers => s.main.fetches = 0 /\ s.main.more
  PROVE  Good(SegregateAndDispatch(s, acks, selected), q, w, srv)
<1> DEFINE t == SegregateAcks(s, acks)
           to == {b \in Brokers : /\ ~t.rkb[b].term /\ ~t.rkb[b].enq
                                  /\ t.rkb[b].async # {} \/ b = selected}
           u == EnqueueFetchOps(t, to, selected, FALSE)
<1>1. /\ Others(t, q, w, srv, {}) /\ SyncPart(t, q, srv, 0, {}) /\ t.main = s.main
  BY SegregateAcksOK DEF SyncOK
<1>2. SegregateAndDispatch(s, acks, selected) = u
  BY DEF SegregateAndDispatch
<1> HIDE DEF t
<1>3. /\ to \in SUBSET Brokers /\ \A b \in to : ~t.rkb[b].enq /\ ~t.rkb[b].term
      /\ selected \in to => t.main.fetches = 0 /\ t.main.more
  BY <1>1
<1>4. ~t.main.terminate
  BY <1>1
<1> HIDE DEF to
<1>5. Others(u, q, w, srv, {}) /\ SyncPart(u, q, srv, 0, {})
  BY <1>1, <1>3, <1>4, GiveFetchOps
<1> HIDE DEF u
<1>6. QED
  BY <1>2, <1>5, GoodIs DEF SyncOK

\* The application's request is noted.
LEMMA NotedOK ==
  ASSUME NEW s, NEW q, NEW w, NEW v, NEW hand,
         Struct(s, q), FetchOK(s, q), DeliveryOK(s, w, v), AcksOK(s, q, v, hand), TruthOK(s, q, v),
         CallsOK(s, q, v), LeaveOK(s, q), SyncOK(s, q, v),
         \A i \in DOMAIN q :
           q[i].type = "REPLY" /\ q[i].op.records /\ s.app.requested =>
             Responding(s, w) \/ \E j \in DOMAIN q : i < j /\ IsRequest(q[j])
  PROVE  LET t == [s EXCEPT !.main.more = TRUE] IN
         /\ Others(t, q, w, v, hand) /\ SyncOK(t, q, v) /\ t.main.more
         /\ t.main.fetches = s.main.fetches /\ t.main.terminate = s.main.terminate
<1> DEFINE t == [s EXCEPT !.main.more = TRUE]
<1>1. /\ DOMAIN t = DOMAIN s /\ t.app = s.app /\ t.rkb = s.rkb /\ t.cb = s.cb
      /\ DOMAIN t.main = DOMAIN s.main
  BY DEF Struct, Shape
<1>2. /\ t.main.more /\ t.main.fetches = s.main.fetches /\ t.main.leaves = s.main.leaves
      /\ t.main.terminate = s.main.terminate /\ t.main.sync = s.main.sync
      /\ t.main.counter = s.main.counter
  BY DEF Struct, Shape, MainFields
<1> HIDE DEF t
<1>3. \A b : OutOf(t, q, b) = OutOf(s, q, b)
  BY <1>1 DEF OutOf
<1>4. \A o : Current(t, o) <=> Current(s, o)
  BY <1>2 DEF Current
<1>5. Struct(t, q)
  BY <1>1, <1>2 DEF Struct, Shape
<1>6. FetchOK(t, q)
  BY <1>1, <1>2, <1>3 DEF FetchOK, Fetching
<1>7. RequestOK(t, q, w)
  BY <1>1, <1>2 DEF RequestOK, Responding
<1>8. DeliveryOK(t, w, v) /\ CallsOK(t, q, v)
  BY <1>1, <1>2 DEF DeliveryOK, CallsOK
<1>9. AcksOK(t, q, v, hand)
  BY <1>1, <1>3 DEF AcksOK, Held, AtOut
<1>10. TruthOK(t, q, v)
  BY <1>1, <1>3 DEF TruthOK
<1>11. LeaveOK(t, q)
  BY <1>1, <1>2, <1>3 DEF LeaveOK
<1>12. SyncOK(t, q, v)
  <2>1. Owing(t, q) = Owing(s, q)
    BY <1>1, <1>3, <1>4 DEF Owing
  <2>2. QED
    BY <1>1, <1>2, <1>3, <1>4, <2>1 DEF SyncOK, SyncPart
<1>13. QED
  BY <1>2, <1>5, <1>6, <1>7, <1>8, <1>9, <1>10, <1>11, <1>12 DEF Others, t

LEMMA FetchFanoutStep ==
  ASSUME Inv, rk_ops # <<>>, FetchFanoutOp(Head(rk_ops)), rk_ops' = Tail(rk_ops),
         UNCHANGED <<rkcg_q, leader, srv, faults>>
  PROVE  Inv'
<1> DEFINE op == rk_ops[1]
           z == Tail(rk_ops)
           s == State
           select == op.more /\ (~main.more \/ main.fetches = 0)
           t == IF op.more THEN [s EXCEPT !.main.more = TRUE] ELSE s
<1>1. Good(s, rk_ops, rkcg_q, srv) /\ (\A p \in Partitions : leader[p] \in Brokers)
  BY DEF Inv
<1>2. Head(rk_ops) = op /\ op.type = "FETCH_FANOUT"
  BY <1>1, TailSeq DEF Good, Struct, QueueOK, FetchFanoutOp
<1>3. PICK n \in IF select THEN SelectBroker(s) ELSE {None} : Becomes(FetchFanout(s, op, n))
  BY <1>2 DEF FetchFanoutOp
<1>4. s.main = main /\ s.app = app /\ s.rkb = rkb
  BY DEF State
<1>5. n \in Brokers => /\ n \in Brokers /\ op.more /\ (~main.more \/ main.fetches = 0)
  BY ShareSets DEF SelectBroker, Selectable
<1> HIDE DEF s, select
<1>6. /\ Struct(s, z) /\ FetchOK(s, z) /\ DeliveryOK(s, rkcg_q, srv) /\ AcksOK(s, z, srv, op.acks)
      /\ TruthOK(s, z, srv) /\ CallsOK(s, z, srv) /\ LeaveOK(s, z) /\ SyncOK(s, z, srv)
      /\ op.acks \subseteq Records /\ ~s.main.terminate
      /\ ~IsRequest(op) => RequestOK(s, z, rkcg_q)
      /\ \A i \in DOMAIN z :
           z[i].type = "REPLY" /\ z[i].op.records /\ s.app.requested =>
             Responding(s, rkcg_q) \/ \E j \in DOMAIN z : i < j /\ IsRequest(z[j])
  <2>1. op.type # "REPLY"
    BY <1>2
  <2>2. QED
    BY <1>1, <2>1, PopCall
<1> HIDE DEF z
<1>7. /\ Others(t, z, rkcg_q, srv, op.acks) /\ SyncOK(t, z, srv) /\ ~t.main.terminate
      /\ t.main.fetches = s.main.fetches /\ (op.more => t.main.more)
  <2>1. CASE op.more
    <3> DEFINE t1 == [s EXCEPT !.main.more = TRUE]
    <3>1. /\ Others(t1, z, rkcg_q, srv, op.acks) /\ SyncOK(t1, z, srv) /\ t1.main.more
          /\ t1.main.fetches = s.main.fetches /\ t1.main.terminate = s.main.terminate
      BY <1>6, NotedOK
    <3>2. t = t1
      BY <2>1
    <3> HIDE DEF t1, t
    <3>3. QED
      BY <1>6, <3>1, <3>2
  <2>2. CASE ~op.more
    <3>1. t = s
      BY <2>2
    <3>2. RequestOK(s, z, rkcg_q)
      BY <1>6, <2>2 DEF IsRequest
    <3> HIDE DEF t
    <3>3. QED
      BY <1>6, <2>2, <3>1, <3>2 DEF Others
  <2>3. QED
    BY <2>1, <2>2
<1>8. n \in Brokers => t.main.fetches = 0 /\ t.main.more
  <2>1. s.main.more \/ s.main.fetches = 0
    BY <1>6 DEF FetchOK
  <2>2. n \in Brokers => s.main.fetches = 0
    BY <1>4, <1>5, <2>1
  <2> HIDE DEF t
  <2>3. QED
    BY <1>5, <1>7, <2>2
<1>9. FetchFanout(s, op, n) = IF n = None /\ op.acks = {} THEN t ELSE SegregateAndDispatch(t, op.acks, n)
  BY DEF FetchFanout
<1> HIDE DEF t
<1>10. Good(FetchFanout(s, op, n), z, rkcg_q, srv)
  <2>1. CASE n = None /\ op.acks = {}
    BY <1>7, <1>9, <2>1, GoodIs
  <2>2. CASE ~(n = None /\ op.acks = {})
    <3>1. op.acks \in SUBSET Records
      BY <1>6
    <3>2. Good(SegregateAndDispatch(t, op.acks, n), z, rkcg_q, srv)
      BY <1>1, <1>7, <1>8, <3>1, SegregateAndDispatchOK
    <3>3. QED
      BY <1>9, <2>2, <3>2
  <2>3. QED
    BY <2>1, <2>2
<1>11. rk_ops' = z /\ rkcg_q' = rkcg_q
  BY DEF z
<1> DEFINE f == FetchFanout(s, op, n)
<1>12. Good(f, rk_ops', rkcg_q', srv) /\ Becomes(f)
  BY <1>3, <1>10, <1>11
<1> HIDE DEF f
<1>13. QED
  BY <1>12, MainStep

LEMMA CommitAsyncFanoutStep ==
  ASSUME Inv, rk_ops # <<>>, CommitAsyncFanoutOp(Head(rk_ops)), rk_ops' = Tail(rk_ops),
         UNCHANGED <<rkcg_q, leader, srv, faults>>
  PROVE  Inv'
<1> DEFINE op == rk_ops[1]
           z == Tail(rk_ops)
           s == State
           f == SegregateAndDispatch(s, op.acks, None)
<1>1. Good(s, rk_ops, rkcg_q, srv) /\ (\A p \in Partitions : leader[p] \in Brokers)
  BY DEF Inv
<1>2. Head(rk_ops) = op /\ op.type = "COMMIT_ASYNC_FANOUT"
  BY <1>1, TailSeq DEF Good, Struct, QueueOK, CommitAsyncFanoutOp
<1>3. Becomes(f)
  BY <1>2 DEF CommitAsyncFanoutOp
<1> HIDE DEF s
<1>4. /\ Others(s, z, rkcg_q, srv, op.acks) /\ SyncOK(s, z, srv)
      /\ op.acks \in SUBSET Records /\ ~s.main.terminate
  <2>1. op.type # "REPLY" /\ ~IsRequest(op)
    BY <1>2 DEF IsRequest
  <2>2. QED
    BY <1>1, <2>1, PopCall DEF Others
<1> HIDE DEF z
<1>5. Good(f, z, rkcg_q, srv)
  BY <1>1, <1>4, ShareSets, SegregateAndDispatchOK
<1> HIDE DEF f
<1>6. Good(f, rk_ops', rkcg_q', srv)
  BY <1>5 DEF z
<1>7. QED
  BY <1>3, <1>6, MainStep

-----------------------------------------------------------------------------
(* The main thread: commit_sync() starts. *)

\* No broker owes an answer, and every partition has its result.
LEMMA NothingOwed ==
  ASSUME NEW s, NEW q, NEW v, SyncPart(s, q, v, 0, {}), s.main.sync.cnt = 0
  PROVE  Owing(s, q) = {} /\ \A p \in Partitions : s.main.sync.results[p] # "in_progress"
<1>1. IsFiniteSet(Owing(s, q))
  <2>1. Owing(s, q) \subseteq Brokers
    BY DEF Owing
  <2>2. QED
    BY <2>1, ShareSets, FS_Subset
<1>2. Cardinality(Owing(s, q)) \in Nat
  BY <1>1, FS_CardinalityType
<1>3. Cardinality(Owing(s, q)) = 0
  BY <1>2 DEF SyncPart
<1>4. Owing(s, q) = {}
  BY <1>1, <1>3, FS_EmptySet
<1>5. ASSUME NEW p \in Partitions, s.main.sync.results[p] = "in_progress" PROVE FALSE
  <2>1. PICK b \in Brokers : \/ p \in Parts(s.rkb[b].pend)
                             \/ \E o \in OutOf(s, q, b) : Current(s, o) /\ p \in Parts(o.acks)
    BY <1>5 DEF SyncPart, Parts
  <2>2. b \in Owing(s, q)
    BY <2>1 DEF Owing, Parts
  <2>3. QED
    BY <1>4, <2>2
<1>6. QED
  BY <1>4, <1>5

\* y is x once the acknowledgements `good`, which can be sent, wait for their brokers.
SyncStarted(x, y, acks, good, pending) ==
  /\ Shape(y) /\ y.app = x.app /\ y.cb = x.cb
  /\ y.main.more = x.main.more /\ y.main.fetches = x.main.fetches
  /\ y.main.leaves = x.main.leaves /\ y.main.terminate = x.main.terminate
  /\ y.main.counter = x.main.counter + 1 /\ y.main.sync.id = x.main.counter + 1
  /\ y.main.sync.cnt = Cardinality(pending)
  /\ pending = {b \in Brokers : y.rkb[b].pend # {}}
  /\ \A p \in Partitions : y.main.sync.results[p] =
       IF p \in Parts(acks \ good) THEN "err"
       ELSE IF p \in Parts(acks) THEN "in_progress" ELSE "absent"
  /\ \A b \in Brokers :
       /\ DOMAIN y.rkb[b] = BrokerFields
       /\ y.rkb[b].enq = x.rkb[b].enq /\ y.rkb[b].async = x.rkb[b].async
       /\ y.rkb[b].term = x.rkb[b].term /\ y.rkb[b].epoch = x.rkb[b].epoch
       /\ y.rkb[b].ops = x.rkb[b].ops /\ y.rkb[b].sent = x.rkb[b].sent
       /\ y.rkb[b].resp = x.rkb[b].resp
       /\ \A r : r \in y.rkb[b].pend <=> r \in x.rkb[b].pend \/ (r \in good /\ srv.by[r] = b)
       /\ y.rkb[b].pendid = x.rkb[b].pendid \/ y.rkb[b].pendid = y.main.sync.id
       /\ \A r \in good : srv.by[r] = b => y.rkb[b].pendid = y.main.sync.id

LEMMA SyncStartedOK ==
  ASSUME NEW x, NEW y, NEW q, NEW w, NEW acks \in SUBSET Records, NEW good, NEW pending,
         SyncStarted(x, y, acks, good, pending), good = {r \in acks : Resolves(x, r)},
         \A p \in Partitions : leader[p] \in Brokers,
         Others(x, q, w, srv, good), SyncOK(x, q, srv), ~x.main.terminate,
         x.main.sync.id = 0, x.app.at = "sync", x.app.synced = acks, SameSource(srv, acks),
         \A i \in DOMAIN q : q[i].type # "COMMIT_SYNC_FANOUT"
  PROVE  Others(y, q, w, srv, {}) /\ SyncPart(y, q, srv, 0, {})
<1>1. /\ Struct(x, q) /\ FetchOK(x, q) /\ RequestOK(x, q, w) /\ DeliveryOK(x, w, srv)
      /\ AcksOK(x, q, srv, good) /\ TruthOK(x, q, srv) /\ CallsOK(x, q, srv) /\ LeaveOK(x, q)
  BY DEF Others
<1>2. \A b \in Brokers : OutOf(y, q, b) = OutOf(x, q, b)
  BY DEF SyncStarted, OutOf
<1>3. /\ y.app = x.app /\ y.cb = x.cb /\ y.main.terminate = x.main.terminate
      /\ y.main.leaves = x.main.leaves
      /\ \A b \in Brokers : y.rkb[b].enq = x.rkb[b].enq /\ y.rkb[b].term = x.rkb[b].term
  BY DEF SyncStarted
<1>4. \A r \in good : r \in acks /\ srv.by[r] \in Brokers /\ ~x.rkb[srv.by[r]].term
  BY LeaderIs
<1>5. good \subseteq acks
  OBVIOUS
<1>6. \A b \in Brokers : x.rkb[b].pend = {}
  BY DEF SyncOK, SyncPart
<1>7. \A b \in Brokers : \A r : r \in y.rkb[b].pend <=> r \in good /\ srv.by[r] = b
  BY <1>6 DEF SyncStarted
<1>8. x.main.counter \in Nat /\ y.main.sync.id = x.main.counter + 1 /\ y.main.sync.id # 0
  BY <1>1 DEF SyncStarted, Struct, Shape
<1>9. Struct(y, q)
  <2>1. ASSUME NEW b \in Brokers PROVE BrokerOK(y.rkb[b], q, b)
    <3>1. BrokerOK(x.rkb[b], q, b)
      BY <1>1 DEF Struct
    <3>2. y.rkb[b].async \subseteq Records /\ y.rkb[b].pend \subseteq Records /\ y.rkb[b].pendid \in Nat
      BY <1>5, <1>7, <1>8, <3>1 DEF BrokerOK, SyncStarted
    <3>3. QED
      BY <3>1, <3>2, BrokerSame DEF SyncStarted
  <2>2. QED
    BY <1>1, <2>1 DEF Struct, SyncStarted
<1>10. FetchOK(y, q)
  BY <1>1, <1>2 DEF SyncStarted, FetchOK, Fetching
<1>11. RequestOK(y, q, w) /\ DeliveryOK(y, w, srv)
  BY <1>1 DEF SyncStarted, RequestOK, Responding, DeliveryOK
<1>12. CallsOK(y, q, srv)
  BY <1>1, <1>3 DEF CallsOK
<1>13. TruthOK(y, q, srv)
  BY <1>1, <1>2, <1>3 DEF TruthOK
<1>14. LeaveOK(y, q)
  <2>1. ASSUME NEW b \in Brokers, y.rkb[b].term
        PROVE  y.rkb[b].async = {} /\ y.rkb[b].pend = {}
    <3>1. x.rkb[b].term /\ x.rkb[b].async = {} /\ y.rkb[b].async = x.rkb[b].async
      BY <1>1, <2>1 DEF LeaveOK, SyncStarted
    <3>2. QED
      BY <1>4, <1>7, <3>1
  <2>2. QED
    BY <1>1, <1>2, <1>3, <2>1 DEF LeaveOK
<1>15. AcksOK(y, q, srv, {})
  <2>2. \A b \in Brokers, r \in Records :
          /\ AtOut(y, q, b, r) <=> AtOut(x, q, b, r)
          /\ r \in y.rkb[b].async <=> r \in x.rkb[b].async
    BY <1>2 DEF AtOut, SyncStarted
  <2>3. \A b \in Brokers, r \in Records :
          Held(y, q, b, r) <=> Held(x, q, b, r) \/ (r \in good /\ srv.by[r] = b)
    BY <1>6, <1>7, <2>2 DEF Held
  <2>4. \A r \in Records : (r \in y.app.built /\ y.cb[r] = "none") <=>
           (r \in {} \/ InFanout(q, r) \/ \E b \in Brokers : Held(y, q, b, r))
    <3>1. TAKE r \in Records
    <3>2. r \in good => srv.by[r] \in Brokers
      BY <1>4
    <3>3. (\E b \in Brokers : Held(y, q, b, r)) <=>
            r \in good \/ \E b \in Brokers : Held(x, q, b, r)
      BY <2>3, <3>2
    <3>4. QED
      BY <1>1, <1>3, <3>3 DEF AcksOK
  <2>5. ASSUME NEW b \in Brokers, NEW r \in Records, Held(y, q, b, r)
        PROVE  /\ srv.by[r] = b /\ ~InFanout(q, r)
               /\ ~(r \in y.rkb[b].async /\ r \in y.rkb[b].pend)
               /\ ~(r \in y.rkb[b].async /\ AtOut(y, q, b, r))
               /\ ~(r \in y.rkb[b].pend /\ AtOut(y, q, b, r))
    <3>1. CASE r \in good
      <4>1. ~Held(x, q, b, r) /\ ~InFanout(q, r)
        BY <1>1, <3>1 DEF AcksOK
      <4>2. r \notin x.rkb[b].async /\ ~AtOut(x, q, b, r)
        BY <4>1 DEF Held
      <4>3. QED
        BY <1>7, <2>2, <2>3, <2>5, <3>1, <4>1, <4>2
    <3>2. CASE r \notin good
      <4>1. Held(x, q, b, r) /\ r \notin y.rkb[b].pend
        BY <1>7, <2>3, <2>5, <3>2
      <4>2. QED
        BY <1>1, <2>2, <4>1 DEF AcksOK
    <3>3. QED
      BY <3>1, <3>2
  <2>6. /\ \A r \in Records : y.cb[r] # "none" => r \in y.app.built
        /\ \A i, j \in DOMAIN q :
             q[i].type # "REPLY" /\ q[j].type # "REPLY" /\ i # j => q[i].acks \cap q[j].acks = {}
    BY <1>1, <1>3 DEF AcksOK
  <2>7. QED
    BY <2>4, <2>5, <2>6 DEF AcksOK
<1>16. \A b \in Brokers : \A o \in OutOf(y, q, b) : o.sync <= y.main.counter /\ ~Current(y, o)
  <2>1. TAKE b \in Brokers
  <2>2. TAKE o \in OutOf(y, q, b)
  <2>3. o \in OutOf(x, q, b) /\ o.sync <= x.main.counter
    BY <1>2 DEF SyncOK, SyncPart
  <2>4. o.sync \in Nat
    BY <1>1, <2>3 DEF Struct, BrokerOK, OutOf, IsOp
  <2>5. y.main.counter = x.main.counter + 1
    BY DEF SyncStarted
  <2>6. QED
    BY <1>8, <2>3, <2>4, <2>5 DEF Current
<1>17. \A b \in Brokers : Whole(y.app.synced, y.rkb[b].pend)
  <2>1. TAKE b \in Brokers
  <2>2. y.app.synced = acks /\ y.rkb[b].pend \subseteq acks
    BY <1>3, <1>5, <1>7
  <2>3. ASSUME NEW r \in acks, NEW a \in y.rkb[b].pend, r[1] = a[1] PROVE r \in y.rkb[b].pend
    <3>1. a \in acks /\ Resolves(x, a) /\ srv.by[a] = b
      BY <1>7
    <3>2. srv.by[r] = b
      BY <2>3, <3>1 DEF SameSource
    <3>3. Resolves(x, r)
      BY <2>3, <3>1, <3>2 DEF Resolves
    <3>4. QED
      BY <1>7, <3>2, <3>3
  <2>4. QED
    BY <2>2, <2>3 DEF Whole
<1>18. Owing(y, q) = pending
  BY <1>16 DEF Owing, SyncStarted
<1>19. \A b \in Brokers : y.rkb[b].pend # {} => y.rkb[b].pendid = y.main.sync.id
  BY <1>7 DEF SyncStarted
<1>20. ASSUME NEW p \in Partitions
       PROVE  /\ y.main.sync.results[p] = "in_progress" => \E b \in Brokers : p \in Parts(y.rkb[b].pend)
              /\ y.main.sync.results[p] # "ok"
  <2>1. y.main.sync.results[p] =
          IF p \in Parts(acks \ good) THEN "err"
          ELSE IF p \in Parts(acks) THEN "in_progress" ELSE "absent"
    BY DEF SyncStarted
  <2>2. ASSUME p \in Parts(acks), p \notin Parts(acks \ good)
        PROVE  \E b \in Brokers : p \in Parts(y.rkb[b].pend)
    <3>1. PICK r \in acks : p = r[1] /\ r \in good
      BY <2>2 DEF Parts
    <3>2. srv.by[r] \in Brokers /\ r \in y.rkb[srv.by[r]].pend
      BY <1>4, <1>7, <3>1
    <3>3. QED
      BY <3>1, <3>2 DEF Parts
  <2>3. QED
    BY <2>1, <2>2
<1>21. SyncPart(y, q, srv, 0, {})
  <2>1. /\ y.app.synced \subseteq Records /\ y.app.synced \subseteq y.app.built
        /\ y.main.sync.id \in {0, y.main.counter} /\ y.app.at = "sync"
    BY <1>3, <1>8 DEF SyncOK, SyncPart, SyncStarted
  <2>2. IsFiniteSet(pending) /\ Cardinality(pending) \in Nat
    <3>1. pending \subseteq Brokers
      BY <1>18 DEF Owing
    <3>2. QED
      BY <3>1, ShareSets, FS_Subset, FS_CardinalityType
  <2>3. y.main.sync.cnt = Cardinality(Owing(y, q)) + 0
    BY <1>18, <2>2 DEF SyncStarted
  <2>4. QED
    BY <1>8, <1>16, <1>17, <1>19, <1>20, <2>1, <2>3 DEF SyncPart
<1>22. QED
  BY <1>9, <1>10, <1>11, <1>12, <1>13, <1>14, <1>15, <1>21 DEF Others

\* What SegregateSyncAcks does: the outcome of what cannot be sent, of the partitions P, is known
\* (C are the outcomes passed to the callbacks then), and the rest is left to the brokers.
SyncSegregated(t, e, C, P, good) ==
  /\ DOMAIN e = DOMAIN t /\ DOMAIN e.main = MainFields
  /\ DOMAIN e.main.sync = {"id", "cnt", "results"} /\ DOMAIN e.main.sync.results = Partitions
  /\ e.app = t.app /\ e.cb = C
  /\ e.main.more = t.main.more /\ e.main.fetches = t.main.fetches
  /\ e.main.leaves = t.main.leaves /\ e.main.terminate = t.main.terminate
  /\ e.main.counter = t.main.counter
  /\ e.main.sync.id = t.main.sync.id /\ e.main.sync.cnt = t.main.sync.cnt
  /\ \A p \in Partitions : e.main.sync.results[p] =
       IF p \in P THEN "err" ELSE t.main.sync.results[p]
  /\ DOMAIN e.rkb = Brokers
  /\ \A b \in Brokers :
       /\ DOMAIN e.rkb[b] = BrokerFields
       /\ e.rkb[b].enq = t.rkb[b].enq /\ e.rkb[b].async = t.rkb[b].async
       /\ e.rkb[b].term = t.rkb[b].term /\ e.rkb[b].epoch = t.rkb[b].epoch
       /\ e.rkb[b].ops = t.rkb[b].ops /\ e.rkb[b].sent = t.rkb[b].sent
       /\ e.rkb[b].resp = t.rkb[b].resp
       /\ \A r : r \in e.rkb[b].pend <=> r \in t.rkb[b].pend \/ (r \in good /\ srv.by[r] = b)
       /\ e.rkb[b].pendid \in {t.rkb[b].pendid, t.main.sync.id}
       /\ \A r \in good : srv.by[r] = b => e.rkb[b].pendid = t.main.sync.id

LEMMA SegregateSyncAcksDoes ==
  ASSUME NEW t, DOMAIN t = {"app", "main", "rkb", "cb"}, DOMAIN t.main = MainFields,
         DOMAIN t.main.sync = {"id", "cnt", "results"}, DOMAIN t.rkb = Brokers,
         \A b \in Brokers : DOMAIN t.rkb[b] = BrokerFields,
         NEW acks, NEW good, \A r : r \in good <=> r \in acks /\ Resolves(t, r)
  PROVE  SyncSegregated(t, SegregateSyncAcks(t, acks), DispatchAckCallbacks(t, acks \ good, AllErr).cb,
                        Parts(acks \ good), good)
<1> DEFINE d == DispatchAckCallbacks(t, acks \ good, AllErr)
           R == [p \in Partitions |-> IF p \in Parts(acks \ good) THEN "err" ELSE t.main.sync.results[p]]
           mine(b) == {r \in good : srv.by[r] = b}
           K == [b \in Brokers |-> IF mine(b) = {} THEN t.rkb[b]
                   ELSE [t.rkb[b] EXCEPT !.pend = @ \cup mine(b), !.pendid = t.main.sync.id]]
           e == [d EXCEPT !.main.sync.results = R, !.rkb = K]
<1>1. SegregateSyncAcks(t, acks) = e
  <2>1. good = {r \in acks : Resolves(t, r)}
    OBVIOUS
  <2>2. QED
    BY <2>1, Zenon DEF SegregateSyncAcks
<1>2. d.app = t.app /\ d.main = t.main /\ DOMAIN d = DOMAIN t
  BY DEF DispatchAckCallbacks
<1>3. DOMAIN R = Partitions /\ \A p \in Partitions : R[p] =
              IF p \in Parts(acks \ good) THEN "err" ELSE t.main.sync.results[p]
  OBVIOUS
<1>4. \A b : \A r : r \in mine(b) <=> r \in good /\ srv.by[r] = b
  OBVIOUS
<1> HIDE DEF mine
<1>5. DOMAIN K = Brokers
  OBVIOUS
<1>6. ASSUME NEW b \in Brokers
      PROVE  /\ DOMAIN K[b] = BrokerFields
             /\ K[b].enq = t.rkb[b].enq /\ K[b].async = t.rkb[b].async
             /\ K[b].term = t.rkb[b].term /\ K[b].epoch = t.rkb[b].epoch
             /\ K[b].ops = t.rkb[b].ops /\ K[b].sent = t.rkb[b].sent
             /\ K[b].resp = t.rkb[b].resp
             /\ K[b].pend = t.rkb[b].pend \cup mine(b)
             /\ K[b].pendid = IF mine(b) = {} THEN t.rkb[b].pendid ELSE t.main.sync.id
  <2>1. CASE mine(b) = {}
    <3>1. K[b] = t.rkb[b]
      BY <2>1
    <3> HIDE DEF K
    <3>2. QED
      BY <2>1, <3>1
  <2>2. CASE mine(b) # {}
    <3>1. K[b] = [t.rkb[b] EXCEPT !.pend = @ \cup mine(b), !.pendid = t.main.sync.id]
      BY <2>2
    <3> HIDE DEF K
    <3>2. QED
      BY <2>2, <3>1 DEF BrokerFields
  <2>3. QED
    BY <2>1, <2>2
<1> HIDE DEF d, R, K
<1>7. /\ DOMAIN e = DOMAIN t /\ DOMAIN e.main = MainFields /\ e.app = t.app /\ e.cb = d.cb /\ e.rkb = K
      /\ DOMAIN e.main.sync = {"id", "cnt", "results"}
  BY <1>2 DEF MainFields
<1>8. /\ e.main.more = t.main.more /\ e.main.fetches = t.main.fetches
      /\ e.main.leaves = t.main.leaves /\ e.main.terminate = t.main.terminate
      /\ e.main.counter = t.main.counter
      /\ e.main.sync.id = t.main.sync.id /\ e.main.sync.cnt = t.main.sync.cnt
      /\ e.main.sync.results = R
  BY <1>2 DEF MainFields
<1> HIDE DEF e
<1>9. ASSUME NEW b \in Brokers
      PROVE  /\ DOMAIN e.rkb[b] = BrokerFields
             /\ e.rkb[b].enq = t.rkb[b].enq /\ e.rkb[b].async = t.rkb[b].async
             /\ e.rkb[b].term = t.rkb[b].term /\ e.rkb[b].epoch = t.rkb[b].epoch
             /\ e.rkb[b].ops = t.rkb[b].ops /\ e.rkb[b].sent = t.rkb[b].sent
             /\ e.rkb[b].resp = t.rkb[b].resp
             /\ \A r : r \in e.rkb[b].pend <=> r \in t.rkb[b].pend \/ (r \in good /\ srv.by[r] = b)
             /\ e.rkb[b].pendid \in {t.rkb[b].pendid, t.main.sync.id}
             /\ \A r \in good : srv.by[r] = b => e.rkb[b].pendid = t.main.sync.id
  BY <1>4, <1>6, <1>7
<1>10. QED
  <2> DEFINE P == Parts(acks \ good)
             C == d.cb
  <2>1. \A p \in Partitions : R[p] = IF p \in P THEN "err" ELSE t.main.sync.results[p]
    BY <1>3
  <2> HIDE DEF P
  <2>2. e.cb = C
    BY <1>7
  <2> HIDE DEF C
  <2>3. SyncSegregated(t, e, C, P, good)
    BY <1>3, <1>5, <1>7, <1>8, <1>9, <2>1, <2>2 DEF SyncSegregated
  <2>4. QED
    BY <1>1, <2>3, Zenon DEF P, C, d

\* n more brokers are waited for.
Counted(e, n) == [e EXCEPT !.main.sync.cnt = @ + n]

LEMMA CountedDoes ==
  ASSUME NEW e, DOMAIN e = {"app", "main", "rkb", "cb"}, DOMAIN e.main = MainFields,
         DOMAIN e.main.sync = {"id", "cnt", "results"}, NEW n
  PROVE  LET y == Counted(e, n) IN
         /\ y.app = e.app /\ y.cb = e.cb /\ y.rkb = e.rkb /\ DOMAIN y = DOMAIN e
         /\ DOMAIN y.main = DOMAIN e.main /\ DOMAIN y.main.sync = DOMAIN e.main.sync
         /\ y.main.more = e.main.more /\ y.main.fetches = e.main.fetches
         /\ y.main.leaves = e.main.leaves /\ y.main.terminate = e.main.terminate
         /\ y.main.counter = e.main.counter
         /\ y.main.sync.id = e.main.sync.id /\ y.main.sync.cnt = e.main.sync.cnt + n
         /\ y.main.sync.results = e.main.sync.results
BY DEF MainFields, Counted

Sendable(s, acks) == {r \in acks : Resolves(s, r)}
Pending(s) == {b \in Brokers : s.rkb[b].pend # {}}

\* The request of a commit_sync() that starts.
StartedSync(s, acks) ==
  [s EXCEPT !.main.counter = s.main.counter + 1,
            !.main.sync = [id |-> s.main.counter + 1, cnt |-> 0, results |->
               [p \in Partitions |-> IF p \in Parts(acks) THEN "in_progress" ELSE "absent"]]]

LEMMA CommitSyncStarts ==
  ASSUME NEW s, NEW acks, NEW q, Struct(s, q)
  PROVE  LET good == Sendable(s, acks)
             x == DispatchAckCallbacks(s, acks \ good, AllErr)
             e == SegregateSyncAcks(StartedSync(s, acks), acks)
             pending == Pending(e)
             y == Counted(e, Cardinality(pending))
         IN  Shape(x) /\ x.app = s.app /\ x.main = s.main /\ x.rkb = s.rkb =>
               SyncStarted(x, y, acks, good, pending) /\ y.rkb = e.rkb
<1> DEFINE good == Sendable(s, acks)
           x == DispatchAckCallbacks(s, acks \ good, AllErr)
           e == SegregateSyncAcks(StartedSync(s, acks), acks)
           pending == Pending(e)
           y == Counted(e, Cardinality(pending))
           N == [id |-> s.main.counter + 1, cnt |-> 0, results |->
                   [p \in Partitions |-> IF p \in Parts(acks) THEN "in_progress" ELSE "absent"]]
           t == StartedSync(s, acks)
           P == Parts(acks \ good)
<1> SUFFICES ASSUME Shape(x), x.app = s.app, x.main = s.main, x.rkb = s.rkb
             PROVE  SyncStarted(x, y, acks, good, pending) /\ y.rkb = e.rkb
  OBVIOUS
<1> HIDE DEF good, x, e, pending, y
<1>1. Shape(s) /\ s.main.counter \in Nat /\ \A b \in Brokers : DOMAIN s.rkb[b] = BrokerFields
  BY DEF Struct, Shape, BrokerOK
<1>2. /\ N.id = s.main.counter + 1 /\ N.cnt = 0 /\ DOMAIN N = {"id", "cnt", "results"}
      /\ DOMAIN N.results = Partitions
      /\ \A p \in Partitions : N.results[p] = IF p \in Parts(acks) THEN "in_progress" ELSE "absent"
  OBVIOUS
<1>3. t = [s EXCEPT !.main.counter = s.main.counter + 1, !.main.sync = N]
  BY DEF StartedSync
<1> HIDE DEF N, t, P
<1>4. /\ t.app = s.app /\ t.cb = s.cb /\ t.rkb = s.rkb /\ DOMAIN t = DOMAIN s
      /\ DOMAIN t.main = DOMAIN s.main
  BY <1>1, <1>3 DEF Shape
<1>5. /\ t.main.more = s.main.more /\ t.main.fetches = s.main.fetches
      /\ t.main.leaves = s.main.leaves /\ t.main.terminate = s.main.terminate
      /\ t.main.counter = s.main.counter + 1 /\ t.main.sync = N
  BY <1>1, <1>3 DEF Shape, MainFields
<1>6. \A r : r \in good <=> r \in acks /\ Resolves(t, r)
  BY <1>4 DEF Resolves, good, Sendable
<1>7. DispatchAckCallbacks(t, acks \ good, AllErr).cb = x.cb
  <2> DEFINE d == DispatchAckCallbacks(t, acks \ good, AllErr)
  <2>1. d.cb = [r \in Records |-> IF r \notin acks \ good THEN t.cb[r]
                                ELSE IF t.cb[r] = "none" THEN AllErr[r[1]] ELSE "twice"]
    BY <1>1, <1>4 DEF DispatchAckCallbacks, Shape
  <2>2. x.cb = [r \in Records |-> IF r \notin acks \ good THEN s.cb[r]
                                ELSE IF s.cb[r] = "none" THEN AllErr[r[1]] ELSE "twice"]
    BY <1>1 DEF DispatchAckCallbacks, Shape, x
  <2> HIDE DEF d
  <2>3. d.cb = x.cb
    BY <1>4, <2>1, <2>2
  <2>4. QED
    BY <2>3 DEF d
<1>8. /\ DOMAIN t = {"app", "main", "rkb", "cb"} /\ DOMAIN t.main = MainFields
      /\ DOMAIN t.main.sync = {"id", "cnt", "results"} /\ DOMAIN t.rkb = Brokers
      /\ \A b \in Brokers : DOMAIN t.rkb[b] = BrokerFields
  BY <1>1, <1>2, <1>4, <1>5 DEF Shape
<1>9. e = SegregateSyncAcks(t, acks)
  BY DEF t, e
<1>10. SyncSegregated(t, e, x.cb, P, good)
  <2>1. SyncSegregated(t, SegregateSyncAcks(t, acks), DispatchAckCallbacks(t, acks \ good, AllErr).cb,
                       Parts(acks \ good), good)
    BY <1>6, <1>8, SegregateSyncAcksDoes
  <2>2. QED
    BY <1>7, <1>9, <2>1, Zenon DEF P
<1>11. /\ y.app = e.app /\ y.cb = e.cb /\ y.rkb = e.rkb /\ DOMAIN y = DOMAIN e
       /\ DOMAIN y.main = DOMAIN e.main /\ DOMAIN y.main.sync = DOMAIN e.main.sync
       /\ y.main.more = e.main.more /\ y.main.fetches = e.main.fetches
       /\ y.main.leaves = e.main.leaves /\ y.main.terminate = e.main.terminate
       /\ y.main.counter = e.main.counter
       /\ y.main.sync.id = e.main.sync.id /\ y.main.sync.cnt = e.main.sync.cnt + Cardinality(pending)
       /\ y.main.sync.results = e.main.sync.results
  <2>1. DOMAIN e = {"app", "main", "rkb", "cb"}
    BY <1>8, <1>10 DEF SyncSegregated
  <2>2. DOMAIN e.main = MainFields /\ DOMAIN e.main.sync = {"id", "cnt", "results"}
    BY <1>10 DEF SyncSegregated
  <2>3. QED
    BY <2>1, <2>2, CountedDoes DEF y
<1>12. IsFiniteSet(pending) /\ Cardinality(pending) \in Nat
  <2>1. pending \subseteq Brokers
    BY DEF pending, Pending
  <2>2. QED
    BY <2>1, ShareSets, FS_Subset, FS_CardinalityType
<1>13. y.main.sync.cnt = Cardinality(pending)
  BY <1>2, <1>5, <1>10, <1>11, <1>12 DEF SyncSegregated
<1>14. pending = {b \in Brokers : y.rkb[b].pend # {}}
  BY <1>11 DEF pending, Pending
<1>15. Shape(y)
  BY <1>1, <1>2, <1>4, <1>5, <1>10, <1>11 DEF Shape, SyncSegregated
<1>16. \A p \in Partitions : y.main.sync.results[p] =
         IF p \in Parts(acks \ good) THEN "err"
         ELSE IF p \in Parts(acks) THEN "in_progress" ELSE "absent"
  <2>1. TAKE p \in Partitions
  <2>2. y.main.sync.results[p] = IF p \in P THEN "err" ELSE N.results[p]
    BY <1>5, <1>10, <1>11 DEF SyncSegregated
  <2>3. QED
    BY <1>2, <2>2 DEF P
<1>17. /\ y.app = x.app /\ y.cb = x.cb
       /\ y.main.more = x.main.more /\ y.main.fetches = x.main.fetches
       /\ y.main.leaves = x.main.leaves /\ y.main.terminate = x.main.terminate
       /\ y.main.counter = x.main.counter + 1 /\ y.main.sync.id = x.main.counter + 1
       /\ y.main.sync.id = t.main.sync.id
  BY <1>2, <1>4, <1>5, <1>10, <1>11 DEF SyncSegregated
<1>18. ASSUME NEW b \in Brokers
       PROVE  /\ DOMAIN y.rkb[b] = BrokerFields
              /\ y.rkb[b].enq = x.rkb[b].enq /\ y.rkb[b].async = x.rkb[b].async
              /\ y.rkb[b].term = x.rkb[b].term /\ y.rkb[b].epoch = x.rkb[b].epoch
              /\ y.rkb[b].ops = x.rkb[b].ops /\ y.rkb[b].sent = x.rkb[b].sent
              /\ y.rkb[b].resp = x.rkb[b].resp
              /\ \A r : r \in y.rkb[b].pend <=> r \in x.rkb[b].pend \/ (r \in good /\ srv.by[r] = b)
              /\ y.rkb[b].pendid = x.rkb[b].pendid \/ y.rkb[b].pendid = y.main.sync.id
              /\ \A r \in good : srv.by[r] = b => y.rkb[b].pendid = y.main.sync.id
  <2>1. y.rkb[b] = e.rkb[b] /\ x.rkb[b] = t.rkb[b]
    BY <1>4, <1>11
  <2>2. QED
    BY <1>10, <1>17, <2>1 DEF SyncSegregated
<1>19. SyncStarted(x, y, acks, good, pending)
  BY <1>13, <1>14, <1>15, <1>16, <1>17, <1>18 DEF SyncStarted
<1>20. QED
  BY <1>11, <1>19

LEMMA CommitSyncFanoutOK ==
  ASSUME NEW s, NEW q, NEW w, NEW acks \in SUBSET Records,
         \A p \in Partitions : leader[p] \in Brokers,
         Others(s, q, w, srv, acks), SyncOK(s, q, srv), ~s.main.terminate,
         s.main.sync.id = 0, s.app.at = "sync", s.app.synced = acks, SameSource(srv, acks),
         \A i \in DOMAIN q : q[i].type # "COMMIT_SYNC_FANOUT"
  PROVE  Good(CommitSyncFanout(s, acks), q, w, srv)
<1> DEFINE good == Sendable(s, acks)
           bad == acks \ good
           x == DispatchAckCallbacks(s, bad, AllErr)
           e == SegregateSyncAcks(StartedSync(s, acks), acks)
           pending == Pending(e)
           free == {b \in pending : ~e.rkb[b].enq /\ ~e.rkb[b].term}
           y == Counted(e, Cardinality(pending))
           u == EnqueueSyncAckOps(y, free)
<1>1. CommitSyncFanout(s, acks) = IF u.main.sync.cnt = 0 THEN SendResponse(u) ELSE u
  <2>1. u = DispatchPendingSyncAcks(e)
    BY Zenon DEF DispatchPendingSyncAcks, Counted, Pending
  <2> HIDE DEF u, e
  <2>2. CommitSyncFanout(s, acks) =
          LET a == DispatchPendingSyncAcks(e) IN IF a.main.sync.cnt = 0 THEN SendResponse(a) ELSE a
    BY Zenon DEF CommitSyncFanout, StartedSync, e
  <2>3. QED
    BY <2>1, <2>2
<1>2. Struct(s, q)
  BY DEF Others
<1>3. /\ Others(x, q, w, srv, good) /\ SyncOK(x, q, srv)
      /\ x.app = s.app /\ x.main = s.main /\ x.rkb = s.rkb
  <2>1. bad \in SUBSET acks /\ acks \ bad = good
    BY DEF Sendable
  <2>2. Told(srv, bad, AllErr)
    BY RecordType DEF AllErr, Told
  <2>3. SyncPart(s, q, srv, 0, {})
    BY DEF SyncOK
  <2> HIDE DEF bad, good
  <2>4. /\ Others(x, q, w, srv, acks \ bad) /\ SyncPart(x, q, srv, 0, {})
        /\ x.app = s.app /\ x.main = s.main /\ x.rkb = s.rkb
    BY <2>1, <2>2, <2>3, CallbacksOK
  <2> HIDE DEF x
  <2>5. QED
    BY <2>1, <2>4 DEF SyncOK
<1>4. Shape(x)
  <2> HIDE DEF x
  <2>1. QED
    BY <1>3 DEF Others, Struct
<1>5. good = {r \in acks : Resolves(x, r)}
  <2> HIDE DEF x
  <2>1. \A r : Resolves(x, r) <=> Resolves(s, r)
    BY <1>3 DEF Resolves
  <2>2. QED
    BY <2>1 DEF Sendable
<1>6. SyncStarted(x, y, acks, good, pending) /\ y.rkb = e.rkb
  <2>1. Shape(x) /\ x.app = s.app /\ x.main = s.main /\ x.rkb = s.rkb =>
          SyncStarted(x, y, acks, good, pending) /\ y.rkb = e.rkb
    BY <1>2, CommitSyncStarts
  <2> HIDE DEF x, y, good, pending, e
  <2>2. QED
    BY <1>3, <1>4, <2>1
<1> HIDE DEF x, good, bad, e
<1>7. /\ free \in SUBSET Brokers
      /\ \A b \in free : ~e.rkb[b].enq /\ ~e.rkb[b].term /\ e.rkb[b].pend # {}
  BY DEF Pending
<1> HIDE DEF pending, free
<1> HIDE DEF y
<1>10. Others(y, q, w, srv, {}) /\ SyncPart(y, q, srv, 0, {})
  BY <1>3, <1>6, <1>5, SyncStartedOK
<1>11. ~y.main.terminate /\ y.main.sync.id # 0
  BY <1>2, <1>3, <1>6 DEF SyncStarted, Struct, Shape
<1>12. Others(u, q, w, srv, {}) /\ SyncPart(u, q, srv, 0, {}) /\ SyncOpsGiven(y, u, q, free)
  <2>1. \A b \in free : ~y.rkb[b].enq /\ ~y.rkb[b].term /\ y.rkb[b].pend # {}
    BY <1>7, <1>6
  <2>2. QED
    BY <1>7, <1>10, <1>11, <2>1, GiveSyncOps
<1> HIDE DEF u
<1>13. CASE u.main.sync.cnt = 0
  <2>1. Owing(u, q) = {} /\ \A p \in Partitions : u.main.sync.results[p] # "in_progress"
    BY <1>12, <1>13, NothingOwed
  <2>2. Struct(u, q) /\ Responded(u, SendResponse(u))
    BY <1>12, SendResponseDoes DEF Others, Struct
  <2>3. u.main.sync.id # 0
    BY <1>11, <1>12 DEF SyncOpsGiven
  <2> DEFINE a == SendResponse(u)
  <2>4. CommitSyncFanout(s, acks) = a
    BY <1>1, <1>13
  <2>5. Responded(u, a)
    BY <2>2
  <2> HIDE DEF a
  <2>6. /\ SyncOK(a, q, srv) /\ Struct(a, q)
        /\ FetchOK(u, q) => FetchOK(a, q)
        /\ RequestOK(u, q, w) => RequestOK(a, q, w)
        /\ DeliveryOK(u, w, srv) => DeliveryOK(a, w, srv)
        /\ CallsOK(u, q, srv) => CallsOK(a, q, srv)
        /\ LeaveOK(u, q) => LeaveOK(a, q)
        /\ \A hand : AcksOK(u, q, srv, hand) => AcksOK(a, q, srv, hand)
        /\ TruthOK(u, q, srv) => TruthOK(a, q, srv)
    BY <1>12, <2>1, <2>2, <2>3, <2>5, RespondedOK
  <2>7. QED
    BY <1>12, <2>4, <2>6 DEF Others, Good
<1>14. CASE u.main.sync.cnt # 0
  BY <1>1, <1>12, <1>14, GoodIs DEF SyncOK
<1>15. QED
  BY <1>13, <1>14

LEMMA CommitSyncFanoutStep ==
  ASSUME Inv, rk_ops # <<>>, CommitSyncFanoutOp(Head(rk_ops)), rk_ops' = Tail(rk_ops),
         UNCHANGED <<rkcg_q, leader, srv, faults>>
  PROVE  Inv'
<1> DEFINE op == rk_ops[1]
           z == Tail(rk_ops)
           s == State
           f == CommitSyncFanout(s, op.acks)
<1>1. Good(s, rk_ops, rkcg_q, srv) /\ (\A p \in Partitions : leader[p] \in Brokers)
  BY DEF Inv
<1>2. Head(rk_ops) = op /\ op.type = "COMMIT_SYNC_FANOUT" /\ 1 \in DOMAIN rk_ops /\ IsSeq(rk_ops)
  BY <1>1, TailSeq DEF Good, Struct, QueueOK, CommitSyncFanoutOp
<1>3. Becomes(f)
  BY <1>2 DEF CommitSyncFanoutOp
<1> HIDE DEF s
<1>4. /\ Others(s, z, rkcg_q, srv, op.acks) /\ SyncOK(s, z, srv)
      /\ op.acks \in SUBSET Records /\ ~s.main.terminate
  <2>1. op.type # "REPLY" /\ ~IsRequest(op)
    BY <1>2 DEF IsRequest
  <2>2. QED
    BY <1>1, <2>1, PopCall DEF Others
<1>5. \A i \in DOMAIN z : z[i].type # "COMMIT_SYNC_FANOUT"
  BY <1>1, <1>2, TailCalls DEF Good
<1>6. s.app.at = "sync" /\ s.main.sync.id = 0 /\ op.acks = s.app.synced /\ SameSource(srv, op.acks)
  BY <1>1, <1>2 DEF Good, CallsOK
<1> HIDE DEF z
<1>7. Good(f, z, rkcg_q, srv)
  BY <1>1, <1>4, <1>5, <1>6, CommitSyncFanoutOK
<1> HIDE DEF f
<1>8. Good(f, rk_ops', rkcg_q', srv)
  BY <1>7 DEF z
<1>9. QED
  BY <1>3, <1>8, MainStep

\* commit_sync() times out.
LEMMA CommitSyncTimeoutStep ==
  ASSUME Inv, CommitSyncTimeout
  PROVE  Inv'
<1> DEFINE s == State
           K == [b \in Brokers |->
                   [rkb[b] EXCEPT !.async = @ \cup rkb[b].pend, !.pend = {},
                                  !.pendid = IF rkb[b].pend = {} THEN @ ELSE 0]]
           R == [p \in Partitions |->
                   IF s.main.sync.results[p] = "in_progress" THEN "err" ELSE s.main.sync.results[p]]
           x == [s EXCEPT !.rkb = K, !.main.sync.results = R]
           t == SendResponse(x)
           q == rk_ops
           w == rkcg_q
           v == srv
<1>1. Good(s, q, w, v) /\ (\A p \in Partitions : leader[p] \in Brokers)
  BY DEF Inv
<1>2. /\ Struct(s, q) /\ Shape(s) /\ FetchOK(s, q) /\ RequestOK(s, q, w) /\ DeliveryOK(s, w, v)
      /\ AcksOK(s, q, v, {}) /\ TruthOK(s, q, v) /\ CallsOK(s, q, v) /\ LeaveOK(s, q)
      /\ SyncPart(s, q, v, 0, {}) /\ \A b \in Brokers : BrokerOK(s.rkb[b], q, b)
  BY <1>1 DEF Good, Struct, SyncOK
<1>3. Becomes(t) /\ s.main.sync.id # 0 /\ s.rkb = rkb
  BY DEF CommitSyncTimeout, State
<1> HIDE DEF s
<1>4. DOMAIN R = Partitions /\ \A p \in Partitions : R[p] =
        IF s.main.sync.results[p] = "in_progress" THEN "err" ELSE s.main.sync.results[p]
  OBVIOUS
<1>5. /\ DOMAIN K = Brokers
      /\ \A b \in Brokers :
           /\ DOMAIN K[b] = BrokerFields /\ K[b].async = s.rkb[b].async \cup s.rkb[b].pend
           /\ K[b].pend = {} /\ K[b].pendid = (IF s.rkb[b].pend = {} THEN s.rkb[b].pendid ELSE 0)
           /\ K[b].enq = s.rkb[b].enq /\ K[b].ops = s.rkb[b].ops /\ K[b].sent = s.rkb[b].sent
           /\ K[b].epoch = s.rkb[b].epoch /\ K[b].resp = s.rkb[b].resp /\ K[b].term = s.rkb[b].term
  <2>1. DOMAIN K = Brokers
    OBVIOUS
  <2>2. ASSUME NEW b \in Brokers
        PROVE
           /\ DOMAIN K[b] = BrokerFields /\ K[b].async = s.rkb[b].async \cup s.rkb[b].pend
           /\ K[b].pend = {} /\ K[b].pendid = (IF s.rkb[b].pend = {} THEN s.rkb[b].pendid ELSE 0)
           /\ K[b].enq = s.rkb[b].enq /\ K[b].ops = s.rkb[b].ops /\ K[b].sent = s.rkb[b].sent
           /\ K[b].epoch = s.rkb[b].epoch /\ K[b].resp = s.rkb[b].resp /\ K[b].term = s.rkb[b].term
    <3>1. K[b] = [s.rkb[b] EXCEPT !.async = @ \cup s.rkb[b].pend, !.pend = {},
                                  !.pendid = IF s.rkb[b].pend = {} THEN @ ELSE 0]
      BY <1>3
    <3>2. DOMAIN s.rkb[b] = BrokerFields
      BY <1>2 DEF BrokerOK
    <3> HIDE DEF K
    <3>3. QED
      BY <3>1, <3>2 DEF BrokerFields
  <2>3. QED
    BY <2>1, <2>2
<1> HIDE DEF K, R
<1>6. /\ x.app = s.app /\ x.cb = s.cb /\ x.rkb = K /\ DOMAIN x = DOMAIN s
      /\ DOMAIN x.main = DOMAIN s.main /\ DOMAIN x.main.sync = DOMAIN s.main.sync
  BY <1>2 DEF Shape, MainFields
<1>7. /\ x.main.more = s.main.more /\ x.main.fetches = s.main.fetches
      /\ x.main.leaves = s.main.leaves /\ x.main.terminate = s.main.terminate
      /\ x.main.counter = s.main.counter /\ x.main.sync.id = s.main.sync.id
      /\ x.main.sync.results = R
  BY <1>2 DEF Shape, MainFields
<1> HIDE DEF x
<1>8. Shape(x)
  BY <1>2, <1>4, <1>5, <1>6, <1>7 DEF Shape
<1>9. Responded(x, t)
  BY <1>8, SendResponseDoes
<1> HIDE DEF t
<1>10. /\ Shape(t) /\ t.rkb = K /\ t.cb = s.cb /\ t.main.sync = NoSync /\ t.main.counter = s.main.counter
       /\ t.main.more = s.main.more /\ t.main.fetches = s.main.fetches
       /\ t.main.leaves = s.main.leaves /\ t.main.terminate = s.main.terminate
       /\ t.app.at = "idle" /\ t.app.result = R
       /\ t.app.synced = s.app.synced /\ t.app.built = s.app.built /\ t.app.map = s.app.map
       /\ t.app.typed = s.app.typed /\ t.app.given = s.app.given
       /\ t.app.requested = s.app.requested
  BY <1>6, <1>7, <1>9 DEF Responded, AppFields
<1>11. \A b \in Brokers : OutOf(t, q, b) = OutOf(s, q, b)
  BY <1>5, <1>10 DEF OutOf
<1>12. s.app.at = "sync" /\ ~s.main.terminate
  BY <1>2, <1>3 DEF SyncPart, CallsOK
<1>13. NoSync.id = 0 /\ NoSync.cnt = 0 /\ NoSync.results = [p \in Partitions |-> "absent"]
  BY DEF NoSync
<1>14. \A o : ~Current(t, o)
  BY <1>10, <1>13 DEF Current
<1>15. \A b \in Brokers : t.rkb[b].pend = {}
  BY <1>5, <1>10
<1>16. Owing(t, q) = {}
  BY <1>14, <1>15 DEF Owing
<1>17. SyncOK(t, q, v)
  <2>1. \A b \in Brokers : \A o \in OutOf(t, q, b) : o.sync <= t.main.counter
    BY <1>2, <1>10, <1>11 DEF SyncPart
  <2>2. t.app.synced \subseteq Records /\ t.app.synced \subseteq t.app.built
    BY <1>2, <1>10 DEF SyncPart
  <2>3. QED
    BY <1>10, <1>13, <1>14, <1>15, <1>16, <2>1, <2>2, FS_EmptySet DEF SyncPart, SyncOK
<1>18. Struct(t, q)
  <2>1. ASSUME NEW b \in Brokers PROVE BrokerOK(t.rkb[b], q, b)
    <3>1. BrokerOK(s.rkb[b], q, b)
      BY <1>2
    <3>2. K[b].async \subseteq Records /\ K[b].pend \subseteq Records /\ K[b].pendid \in Nat
      BY <1>5, <3>1 DEF BrokerOK
    <3>3. BrokerOK(K[b], q, b)
      BY <1>5, <3>1, <3>2, BrokerSame
    <3>4. QED
      BY <1>10, <3>3
  <2>2. QED
    BY <1>2, <1>10, <2>1 DEF Struct
<1>19. FetchOK(t, q)
  BY <1>2, <1>10, <1>11 DEF FetchOK, Fetching
<1>20. RequestOK(t, q, w)
  BY <1>2, <1>5, <1>10, <1>12 DEF RequestOK, Responding
<1>21. DeliveryOK(t, w, v)
  BY <1>2, <1>5, <1>10, <1>12 DEF DeliveryOK
<1>22. CallsOK(t, q, v)
  BY <1>2, <1>3, <1>10, <1>12 DEF CallsOK
<1>23. LeaveOK(t, q)
  <2>1. \A b \in Brokers : t.rkb[b].term => t.rkb[b].async = {} /\ t.rkb[b].pend = {}
    BY <1>2, <1>5, <1>10 DEF LeaveOK
  <2>2. QED
    BY <1>2, <1>10, <1>11, <1>12, <2>1 DEF LeaveOK
<1>24. AcksOK(t, q, v, {})
  <2>1. \A b \in Brokers, r \in Records :
          /\ AtOut(t, q, b, r) <=> AtOut(s, q, b, r)
          /\ r \in t.rkb[b].async <=> r \in s.rkb[b].async \/ r \in s.rkb[b].pend
          /\ r \notin t.rkb[b].pend
    BY <1>5, <1>10, <1>11 DEF AtOut
  <2>2. \A b \in Brokers, r \in Records : Held(t, q, b, r) <=> Held(s, q, b, r)
    BY <2>1 DEF Held
  <2>3. ASSUME NEW b \in Brokers, NEW r \in Records, Held(t, q, b, r)
        PROVE  /\ v.by[r] = b /\ r \notin {} /\ ~InFanout(q, r)
               /\ ~(r \in t.rkb[b].async /\ r \in t.rkb[b].pend)
               /\ ~(r \in t.rkb[b].async /\ AtOut(t, q, b, r))
               /\ ~(r \in t.rkb[b].pend /\ AtOut(t, q, b, r))
    BY <1>2, <2>1, <2>2, <2>3 DEF AcksOK
  <2>4. QED
    BY <1>2, <1>10, <2>2, <2>3 DEF AcksOK
<1>25. TruthOK(t, q, v)
  <2>1. \A r \in s.app.synced : R[r[1]] = "ok" => v.lock[r] = "done"
    BY <1>2, <1>4, RecordType DEF SyncPart
  <2>2. \A p \in Partitions : R[p] # "in_progress"
    BY <1>4
  <2>3. QED
    BY <1>2, <1>10, <1>11, <2>1, <2>2 DEF TruthOK
<1>26. Good(t, q, w, v)
  BY <1>17, <1>18, <1>19, <1>20, <1>21, <1>22, <1>23, <1>24, <1>25 DEF Good
<1>27. rk_ops' = rk_ops /\ rkcg_q' = rkcg_q /\ UNCHANGED <<leader, srv, faults>>
  BY DEF CommitSyncTimeout
<1>28. QED
  BY <1>3, <1>26, <1>27, MainStep

-----------------------------------------------------------------------------
(* The main thread: a reply. *)

\* The reply to the op o of broker b, taken from the queue.
LEMMA PopReplyOut ==
  ASSUME NEW s, NEW q, Struct(s, q), q # <<>>, q[1].type = "REPLY"
  PROVE  LET z == Tail(q)
             b == q[1].broker
         IN  /\ b \in Brokers /\ QueueOK(z) /\ OutOf(s, q, b) = {q[1].op} /\ OutOf(s, z, b) = {}
             /\ IsOp(q[1].op) /\ s.rkb[b].enq
             /\ Exclusive(s.rkb[b].ops, s.rkb[b].sent, z, b)
             /\ \A d \in Brokers \ {b} :
                  /\ OutOf(s, z, d) = OutOf(s, q, d)
                  /\ Exclusive(s.rkb[d].ops, s.rkb[d].sent, z, d)
<1> DEFINE z == Tail(q)
           b == q[1].broker
<1>1. QueueOK(q) /\ IsSeq(q) /\ \A d \in Brokers : BrokerOK(s.rkb[d], q, d)
  BY DEF Struct, QueueOK
<1>2. QueueOK(z)
  BY <1>1, TailQueue
<1>3. 1 \in DOMAIN q
  BY <1>1, TailSeq
<1>4. b \in Brokers
  BY <1>1, <1>3 DEF QueueOK
<1>5. /\ OutOf(s, q, b) = {q[1].op} /\ OutOf(s, z, b) = {}
      /\ Exclusive(s.rkb[b].ops, s.rkb[b].sent, z, b)
  <2>1. Exclusive(s.rkb[b].ops, s.rkb[b].sent, q, b)
    BY <1>1, <1>4 DEF BrokerOK
  <2>2. QED
    BY <1>1, <2>1, QueueTailReply DEF OutOf
<1>6. IsOp(q[1].op) /\ s.rkb[b].enq
  BY <1>1, <1>4, <1>5 DEF BrokerOK, OutOf
<1>7. ASSUME NEW d \in Brokers \ {b}
      PROVE  OutOf(s, z, d) = OutOf(s, q, d) /\ Exclusive(s.rkb[d].ops, s.rkb[d].sent, z, d)
  <2>1. Exclusive(s.rkb[d].ops, s.rkb[d].sent, q, d)
    BY <1>1 DEF BrokerOK
  <2>2. ~(q[1].type = "REPLY" /\ q[1].broker = d)
    OBVIOUS
  <2>3. QED
    BY <1>1, <2>1, <2>2, QueueTailOther DEF OutOf
<1>8. QED
  BY <1>2, <1>4, <1>5, <1>6, <1>7

\* c is s with what the reply to o of broker b changes in flags and counters.
ReplyCounted(s, c, b, o) ==
  /\ Shape(c) /\ c.app = s.app /\ c.cb = s.cb
  /\ c.main.more = StillWanted(s.main.more, o)
  /\ c.main.fetches = (IF o.fetch THEN s.main.fetches - 1 ELSE s.main.fetches)
  /\ c.main.leaves = (IF o.leave THEN s.main.leaves - 1 ELSE s.main.leaves)
  /\ c.main.terminate = s.main.terminate /\ c.main.sync = s.main.sync
  /\ c.main.counter = s.main.counter
  /\ \A d \in Brokers :
       /\ DOMAIN c.rkb[d] = BrokerFields /\ (c.rkb[d].enq <=> d # b /\ s.rkb[d].enq)
       /\ c.rkb[d].async = s.rkb[d].async /\ c.rkb[d].pend = s.rkb[d].pend
       /\ c.rkb[d].pendid = s.rkb[d].pendid /\ c.rkb[d].term = s.rkb[d].term
       /\ c.rkb[d].epoch = s.rkb[d].epoch /\ c.rkb[d].ops = s.rkb[d].ops
       /\ c.rkb[d].sent = s.rkb[d].sent /\ c.rkb[d].resp = s.rkb[d].resp

CountReply(s, b, o) ==
  [s EXCEPT !.rkb[b].enq = FALSE,
            !.main.fetches = IF o.fetch THEN @ - 1 ELSE @,
            !.main.leaves = IF o.leave THEN @ - 1 ELSE @,
            !.main.more = StillWanted(@, o)]

LEMMA CountReplyDoes ==
  ASSUME NEW s, NEW q, Struct(s, q), NEW b \in Brokers, NEW o
  PROVE  ReplyCounted(s, CountReply(s, b, o), b, o)
<1> DEFINE c == CountReply(s, b, o)
           k == [s.rkb[b] EXCEPT !.enq = FALSE]
<1>1. Shape(s) /\ \A d \in Brokers : DOMAIN s.rkb[d] = BrokerFields
  BY DEF Struct, BrokerOK
<1>2. /\ c.app = s.app /\ c.cb = s.cb /\ DOMAIN c = DOMAIN s /\ c.rkb = [s.rkb EXCEPT ![b] = k]
      /\ DOMAIN c.main = DOMAIN s.main
  BY <1>1 DEF Shape, CountReply
<1>3. /\ c.main.more = StillWanted(s.main.more, o)
      /\ c.main.fetches = (IF o.fetch THEN s.main.fetches - 1 ELSE s.main.fetches)
      /\ c.main.leaves = (IF o.leave THEN s.main.leaves - 1 ELSE s.main.leaves)
      /\ c.main.terminate = s.main.terminate /\ c.main.sync = s.main.sync
      /\ c.main.counter = s.main.counter
  BY <1>1 DEF Shape, MainFields, CountReply
<1>4. /\ DOMAIN k = BrokerFields /\ ~k.enq
      /\ k.async = s.rkb[b].async /\ k.pend = s.rkb[b].pend
      /\ k.pendid = s.rkb[b].pendid /\ k.term = s.rkb[b].term
      /\ k.epoch = s.rkb[b].epoch /\ k.ops = s.rkb[b].ops
      /\ k.sent = s.rkb[b].sent /\ k.resp = s.rkb[b].resp
  BY <1>1 DEF BrokerFields
<1> HIDE DEF c, k
<1>5. DOMAIN c.rkb = Brokers /\ c.rkb[b] = k /\ \A d \in Brokers : d # b => c.rkb[d] = s.rkb[d]
  BY <1>1, <1>2 DEF Shape
<1>6. Shape(c)
  BY <1>1, <1>2, <1>3, <1>5 DEF Shape
<1>7. ASSUME NEW d \in Brokers
      PROVE  /\ DOMAIN c.rkb[d] = BrokerFields /\ (c.rkb[d].enq <=> d # b /\ s.rkb[d].enq)
             /\ c.rkb[d].async = s.rkb[d].async /\ c.rkb[d].pend = s.rkb[d].pend
             /\ c.rkb[d].pendid = s.rkb[d].pendid /\ c.rkb[d].term = s.rkb[d].term
             /\ c.rkb[d].epoch = s.rkb[d].epoch /\ c.rkb[d].ops = s.rkb[d].ops
             /\ c.rkb[d].sent = s.rkb[d].sent /\ c.rkb[d].resp = s.rkb[d].resp
  <2>1. CASE d = b
    BY <1>4, <1>5, <2>1
  <2>2. CASE d # b
    BY <1>1, <1>5, <2>2
  <2>3. QED
    BY <2>1, <2>2
<1>8. QED
  BY <1>2, <1>3, <1>6, <1>7 DEF ReplyCounted, c

\* What holds once the reply is taken and counted, with its acknowledgements in hand.  LeaveOK
\* need not: see LeaveReplied.
LEMMA PopReplyOK ==
  ASSUME NEW s, NEW q, NEW w, NEW v, Good(s, q, w, v), q # <<>>, q[1].type = "REPLY", NEW c,
         ReplyCounted(s, c, q[1].broker, q[1].op)
  PROVE  LET z == Tail(q)
             o == q[1].op
         IN  /\ Struct(c, z) /\ FetchOK(c, z) /\ RequestOK(c, z, w) /\ DeliveryOK(c, w, v)
             /\ AcksOK(c, z, v, o.acks) /\ TruthOK(c, z, v) /\ CallsOK(c, z, v)
             /\ \A r \in o.acks : o.code[r[1]] \in {"ok", "err"} /\ (o.code[r[1]] = "ok" => v.lock[r] = "done")
             /\ o.fetch => c.main.fetches = 0
<1> DEFINE z == Tail(q)
           b == q[1].broker
           o == q[1].op
<1>1. /\ Struct(s, q) /\ FetchOK(s, q) /\ RequestOK(s, q, w) /\ DeliveryOK(s, w, v)
      /\ AcksOK(s, q, v, {}) /\ TruthOK(s, q, v) /\ CallsOK(s, q, v) /\ IsSeq(q)
  BY DEF Good, Struct, QueueOK
<1>2. /\ b \in Brokers /\ QueueOK(z) /\ OutOf(s, q, b) = {o} /\ OutOf(s, z, b) = {}
      /\ IsOp(o) /\ Exclusive(s.rkb[b].ops, s.rkb[b].sent, z, b)
      /\ \A d \in Brokers \ {b} :
           /\ OutOf(s, z, d) = OutOf(s, q, d)
           /\ Exclusive(s.rkb[d].ops, s.rkb[d].sent, z, d)
  BY <1>1, PopReplyOut
<1>3. 1 \in DOMAIN q
  BY <1>1, TailSeq
<1>4. ReplyCounted(s, c, b, o) /\ q[1].type = "REPLY"
  OBVIOUS
<1>5. /\ \A i \in DOMAIN z :
           z[i].type = "REPLY" /\ z[i].op.records /\ s.app.requested =>
             Responding(s, w) \/ \E j \in DOMAIN z : i < j /\ IsRequest(z[j])
      /\ (\E i \in DOMAIN q : IsRequest(q[i])) => \E i \in DOMAIN z : IsRequest(z[i])
      /\ o.records /\ s.app.requested =>
           Responding(s, w) \/ \E j \in DOMAIN z : IsRequest(z[j])
  <2>1. ~IsRequest(q[1])
    BY DEF IsRequest
  <2>2. QED
    BY <1>1, <2>1, TailRequest
<1>6. CallsOK(s, z, v)
  BY <1>1, TailCalls
<1>7. \A r : InFanout(q, r) <=> InFanout(z, r)
  BY <1>1, TailFanout
<1>8. \A i, j \in DOMAIN z :
        z[i].type # "REPLY" /\ z[j].type # "REPLY" /\ i # j => z[i].acks \cap z[j].acks = {}
  BY <1>1, TailDisjoint DEF AcksOK
<1>9. \A r \in o.acks : o.code[r[1]] \in {"ok", "err"} /\ (o.code[r[1]] = "ok" => v.lock[r] = "done")
  <2>1. CodesTrue(v, o) /\ \A r \in o.acks : o.code[r[1]] # "in_progress"
    BY <1>1, <1>2, <1>3 DEF TruthOK
  <2>2. o.acks \subseteq Records /\ \A p \in Partitions : o.code[p] \in Codes
    BY <1>2 DEF IsOp
  <2>3. QED
    BY <2>1, <2>2, RecordType DEF CodesTrue, Codes
<1>10. \A i \in DOMAIN z : z[i].type = "REPLY" =>
         \A r \in z[i].op.acks : z[i].op.code[r[1]] # "in_progress"
  BY <1>1, TailIndex DEF TruthOK
<1> HIDE DEF z, b, o
<1>11. OutOf(c, z, b) = {} /\ \A d \in Brokers : d # b => OutOf(c, z, d) = OutOf(s, q, d)
  <2>1. \A d \in Brokers : OutOf(c, z, d) = OutOf(s, z, d)
    BY <1>4 DEF OutOf, ReplyCounted
  <2>2. QED
    BY <1>2, <2>1
<1>12. Struct(c, z)
  <2>1. ASSUME NEW d \in Brokers PROVE BrokerOK(c.rkb[d], z, d)
    <3>1. BrokerOK(s.rkb[d], q, d)
      BY <1>1 DEF Struct
    <3>2. /\ DOMAIN c.rkb[d] = BrokerFields /\ (c.rkb[d].enq <=> d # b /\ s.rkb[d].enq)
          /\ c.rkb[d].async = s.rkb[d].async /\ c.rkb[d].pend = s.rkb[d].pend
          /\ c.rkb[d].pendid = s.rkb[d].pendid /\ c.rkb[d].term = s.rkb[d].term
          /\ c.rkb[d].epoch = s.rkb[d].epoch /\ c.rkb[d].ops = s.rkb[d].ops
          /\ c.rkb[d].sent = s.rkb[d].sent /\ c.rkb[d].resp = s.rkb[d].resp
      BY <1>4 DEF ReplyCounted
    <3>3. Exclusive(s.rkb[d].ops, s.rkb[d].sent, z, d)
      BY <1>2
    <3>4. d # b => OutOps(s.rkb[d].ops, s.rkb[d].sent, z, d) = OutOps(s.rkb[d].ops, s.rkb[d].sent, q, d)
      BY <1>2 DEF OutOf
    <3>5. d = b => OutOps(s.rkb[d].ops, s.rkb[d].sent, z, d) = {}
      BY <1>2 DEF OutOf
    <3>6. QED
      BY <3>1, <3>2, <3>3, <3>4, <3>5 DEF BrokerOK
  <2>2. QED
    BY <1>2, <1>4, <2>1 DEF Struct, ReplyCounted
<1>13. FetchOK(c, z) /\ (o.fetch => c.main.fetches = 0)
  <2>1. \A d \in Brokers : d \in Fetching(c, z) <=> d # b /\ d \in Fetching(s, q)
    BY <1>11 DEF Fetching
  <2>2. b \in Fetching(s, q) <=> o.fetch
    BY <1>2 DEF Fetching
  <2>3. Fetching(c, z) \subseteq Brokers /\ Fetching(s, q) \subseteq Brokers
    BY DEF Fetching
  <2>4. CASE o.fetch
    <3>1. s.main.fetches = 1 /\ Fetching(s, q) = {b}
      BY <1>1, <2>2, <2>4 DEF FetchOK
    <3>2. Fetching(c, z) = {}
      BY <2>1, <2>3, <3>1
    <3>3. c.main.fetches = 0
      BY <1>4, <2>4, <3>1 DEF ReplyCounted
    <3>4. QED
      BY <3>2, <3>3 DEF FetchOK
  <2>5. CASE ~o.fetch
    <3>1. Fetching(c, z) = Fetching(s, q)
      BY <2>1, <2>2, <2>3, <2>5
    <3>2. ~o.records
      BY <1>2, <2>5 DEF IsOp
    <3>3. c.main.fetches = s.main.fetches /\ (c.main.more <=> s.main.more)
      BY <1>4, <2>5, <3>2 DEF ReplyCounted, StillWanted
    <3>4. QED
      BY <1>1, <2>5, <3>1, <3>3 DEF FetchOK
  <2>6. QED
    BY <2>4, <2>5
<1>14. RequestOK(c, z, w)
  <2>1. c.app = s.app /\ c.main.terminate = s.main.terminate /\ (c.main.more <=> s.main.more /\ ~o.records)
    BY <1>4 DEF ReplyCounted, StillWanted
  <2>2. \A d \in Brokers : c.rkb[d].resp = s.rkb[d].resp
    BY <1>4 DEF ReplyCounted
  <2>3. Responding(c, w) <=> Responding(s, w)
    BY <2>2 DEF Responding
  <2>4. QED
    BY <1>1, <1>5, <2>1, <2>3 DEF RequestOK
<1>15. DeliveryOK(c, w, v)
  BY <1>1, <1>4 DEF DeliveryOK, ReplyCounted
<1>16. CallsOK(c, z, v)
  BY <1>6, <1>4 DEF CallsOK, ReplyCounted
<1>17. TruthOK(c, z, v)
  <2>1. ASSUME NEW d \in Brokers, NEW a \in OutOf(c, z, d) PROVE CodesTrue(v, a)
    BY <1>1, <1>11, <2>1 DEF TruthOK
  <2>2. c.app = s.app /\ c.cb = s.cb
    BY <1>4 DEF ReplyCounted
  <2>3. QED
    BY <1>1, <1>10, <2>1, <2>2 DEF TruthOK
<1>18. AcksOK(c, z, v, o.acks)
  <2>1. \A d \in Brokers, r \in Records :
          /\ AtOut(c, z, d, r) <=> d # b /\ AtOut(s, q, d, r)
          /\ r \in c.rkb[d].async <=> r \in s.rkb[d].async
          /\ r \in c.rkb[d].pend <=> r \in s.rkb[d].pend
    BY <1>4, <1>11 DEF AtOut, ReplyCounted
  <2>2. \A r \in Records : AtOut(s, q, b, r) <=> r \in o.acks
    BY <1>2 DEF AtOut
  <2>3. c.app = s.app /\ c.cb = s.cb
    BY <1>4 DEF ReplyCounted
  <2>4. \A r \in Records : r \in o.acks =>
          /\ Held(s, q, b, r) /\ v.by[r] = b
          /\ r \notin s.rkb[b].async /\ r \notin s.rkb[b].pend /\ ~InFanout(q, r)
    BY <1>1, <1>2, <2>2 DEF AcksOK, Held
  <2>5. \A d \in Brokers, r \in Records :
          Held(c, z, d, r) <=> Held(s, q, d, r) /\ r \notin o.acks
    <3>1. TAKE d \in Brokers, r \in Records
    <3>2. CASE d = b
      BY <2>1, <2>2, <2>4, <3>2 DEF Held
    <3>3. CASE d # b
      <4>1. Held(c, z, d, r) <=> Held(s, q, d, r)
        BY <2>1, <3>3 DEF Held
      <4>2. Held(s, q, d, r) => v.by[r] = d
        BY <1>1 DEF AcksOK
      <4>3. QED
        BY <2>4, <3>3, <4>1, <4>2
    <3>4. QED
      BY <3>2, <3>3
  <2>6. ASSUME NEW r \in Records
        PROVE  (r \in c.app.built /\ c.cb[r] = "none") <=>
                 (r \in o.acks \/ InFanout(z, r) \/ \E d \in Brokers : Held(c, z, d, r))
    <3>1. (r \in s.app.built /\ s.cb[r] = "none") <=>
            (InFanout(q, r) \/ \E d \in Brokers : Held(s, q, d, r))
      BY <1>1 DEF AcksOK
    <3>2. r \in o.acks => \E d \in Brokers : Held(s, q, d, r)
      BY <1>2, <2>4
    <3>3. QED
      BY <1>7, <2>3, <2>5, <3>1, <3>2
  <2>7. ASSUME NEW d \in Brokers, NEW r \in Records, Held(c, z, d, r)
        PROVE  /\ v.by[r] = d /\ r \notin o.acks /\ ~InFanout(z, r)
               /\ ~(r \in c.rkb[d].async /\ r \in c.rkb[d].pend)
               /\ ~(r \in c.rkb[d].async /\ AtOut(c, z, d, r))
               /\ ~(r \in c.rkb[d].pend /\ AtOut(c, z, d, r))
    <3>1. Held(s, q, d, r) /\ r \notin o.acks
      BY <2>5, <2>7
    <3>2. QED
      BY <1>1, <1>7, <2>1, <3>1 DEF AcksOK
  <2>8. \A r \in Records : InFanout(z, r) => r \notin o.acks
    BY <1>7, <2>4
  <2>9. \A r \in Records : c.cb[r] # "none" => r \in c.app.built
    BY <1>1, <2>3 DEF AcksOK
  <2>10. QED
    BY <1>8, <2>6, <2>7, <2>8, <2>9 DEF AcksOK
<1>19. QED
  BY <1>9, <1>12, <1>13, <1>14, <1>15, <1>16, <1>17, <1>18 DEF z, o

LEMMA PopReplySync ==
  ASSUME NEW s, NEW q, NEW w, NEW v, Good(s, q, w, v), q # <<>>, q[1].type = "REPLY", NEW c,
         ReplyCounted(s, c, q[1].broker, q[1].op)
  PROVE  LET z == Tail(q)
             o == q[1].op
         IN  /\ Current(s, o) => /\ SyncPart(c, z, v, 1, o.acks) /\ Whole(c.app.synced, o.acks)
                                 /\ c.main.sync.id # 0 /\ ~s.main.terminate /\ ~o.leave
             /\ ~Current(s, o) => SyncPart(c, z, v, 0, {})
<1> DEFINE z == Tail(q)
           b == q[1].broker
           o == q[1].op
<1>1. /\ Struct(s, q) /\ CallsOK(s, q, v) /\ LeaveOK(s, q) /\ SyncPart(s, q, v, 0, {})
  BY DEF Good, SyncOK
<1>2. /\ b \in Brokers /\ OutOf(s, q, b) = {o} /\ OutOf(s, z, b) = {}
      /\ \A d \in Brokers \ {b} : OutOf(s, z, d) = OutOf(s, q, d)
  BY <1>1, PopReplyOut
<1>3. ReplyCounted(s, c, b, o)
  OBVIOUS
<1> HIDE DEF z, b, o
<1>4. OutOf(c, z, b) = {} /\ \A d \in Brokers : d # b => OutOf(c, z, d) = OutOf(s, q, d)
  <2>1. \A d \in Brokers : OutOf(c, z, d) = OutOf(s, z, d)
    BY <1>3 DEF OutOf, ReplyCounted
  <2>2. QED
    BY <1>2, <2>1
<1>5. /\ c.app = s.app /\ c.main.sync = s.main.sync /\ c.main.counter = s.main.counter
      /\ \A d \in Brokers : c.rkb[d].pend = s.rkb[d].pend /\ c.rkb[d].pendid = s.rkb[d].pendid
  BY <1>3 DEF ReplyCounted
<1>6. \A a : Current(c, a) <=> Current(s, a)
  BY <1>5 DEF Current
<1>7. \A d \in Brokers : \A a \in OutOf(c, z, d) : d # b /\ a \in OutOf(s, q, d)
  BY <1>4
<1>8. /\ c.app.synced \subseteq Records /\ c.app.synced \subseteq c.app.built
      /\ c.main.sync.id \in {0, c.main.counter}
      /\ (c.main.sync.id # 0 => c.app.at = "sync")
      /\ (c.main.sync.id = 0 => c.main.sync.results = [p \in Partitions |-> "absent"])
      /\ \A p \in Partitions : c.main.sync.results[p] = "ok" =>
            \A r \in c.app.synced : r[1] = p => v.lock[r] = "done"
  BY <1>1, <1>5 DEF SyncPart
<1>9. \A d \in Brokers : \A a \in OutOf(c, z, d) :
        a.sync <= c.main.counter /\ (Current(c, a) => Whole(c.app.synced, a.acks))
  BY <1>1, <1>5, <1>6, <1>7 DEF SyncPart
<1>10. \A d \in Brokers : c.rkb[d].pend # {} =>
         /\ c.main.sync.id # 0 /\ c.rkb[d].pendid = c.main.sync.id
         /\ Whole(c.app.synced, c.rkb[d].pend)
         /\ \A a \in OutOf(c, z, d) : ~Current(c, a)
  BY <1>1, <1>5, <1>6, <1>7 DEF SyncPart
<1>11. ASSUME NEW p \in Partitions, c.main.sync.results[p] = "in_progress"
       PROVE  \/ Current(s, o) /\ p \in Parts(o.acks)
              \/ \E d \in Brokers : \/ p \in Parts(c.rkb[d].pend)
                                    \/ \E a \in OutOf(c, z, d) : Current(c, a) /\ p \in Parts(a.acks)
  <2>1. PICK d \in Brokers : \/ p \in Parts(s.rkb[d].pend)
                             \/ \E a \in OutOf(s, q, d) : Current(s, a) /\ p \in Parts(a.acks)
    BY <1>1, <1>5, <1>11 DEF SyncPart, Parts
  <2>2. CASE p \in Parts(s.rkb[d].pend)
    BY <1>5, <2>2
  <2>3. ASSUME NEW a \in OutOf(s, q, d), Current(s, a), p \in Parts(a.acks)
        PROVE  \/ Current(s, o) /\ p \in Parts(o.acks)
               \/ \E a1 \in OutOf(c, z, d) : Current(c, a1) /\ p \in Parts(a1.acks)
    <3>1. CASE d = b
      BY <1>2, <2>3, <3>1
    <3>2. CASE d # b
      BY <1>4, <1>6, <2>3, <3>2
    <3>3. QED
      BY <3>1, <3>2
  <2>4. QED
    BY <2>1, <2>2, <2>3
<1>12. IsFiniteSet(Owing(s, q)) /\ Cardinality(Owing(s, q)) \in Nat
  <2>1. Owing(s, q) \subseteq Brokers
    BY DEF Owing
  <2>2. QED
    BY <2>1, ShareSets, FS_Subset, FS_CardinalityType
<1>13. s.main.sync.cnt = Cardinality(Owing(s, q))
  BY <1>1, <1>12 DEF SyncPart
<1>14. \A d \in Brokers : d # b => (d \in Owing(c, z) <=> d \in Owing(s, q))
  BY <1>4, <1>5, <1>6 DEF Owing
<1>15. Owing(c, z) \subseteq Brokers /\ Owing(s, q) \subseteq Brokers
  BY DEF Owing
<1>16. ASSUME Current(s, o)
       PROVE  /\ SyncPart(c, z, v, 1, o.acks) /\ Whole(c.app.synced, o.acks)
              /\ c.main.sync.id # 0 /\ ~s.main.terminate /\ ~o.leave
  <2>1. s.rkb[b].pend = {} /\ Whole(s.app.synced, o.acks)
    BY <1>1, <1>2, <1>16 DEF SyncPart
  <2>2. s.main.sync.id # 0 /\ s.app.at = "sync"
    BY <1>1, <1>16 DEF Current, SyncPart
  <2>3. ~s.main.terminate
    BY <1>1, <2>2 DEF CallsOK
  <2>4. ~o.leave
    BY <1>1, <1>2, <2>3 DEF LeaveOK
  <2>5. b \in Owing(s, q) /\ b \notin Owing(c, z)
    BY <1>2, <1>4, <1>5, <1>16, <2>1 DEF Owing
  <2>6. Owing(c, z) = Owing(s, q) \ {b}
    BY <1>14, <1>15, <2>5
  <2>7. Cardinality(Owing(c, z)) = Cardinality(Owing(s, q)) - 1
    BY <1>12, <2>5, <2>6, FS_RemoveElement
  <2>8. c.main.sync.cnt = Cardinality(Owing(c, z)) + 1
    BY <1>5, <1>12, <1>13, <2>7
  <2>9. SyncPart(c, z, v, 1, o.acks)
    BY <1>8, <1>9, <1>10, <1>11, <2>8 DEF SyncPart
  <2>10. QED
    BY <1>5, <2>1, <2>2, <2>3, <2>4, <2>9
<1>17. ASSUME ~Current(s, o) PROVE SyncPart(c, z, v, 0, {})
  <2>1. b \in Owing(s, q) <=> b \in Owing(c, z)
    BY <1>2, <1>4, <1>5, <1>17 DEF Owing
  <2>2. Owing(c, z) = Owing(s, q)
    BY <1>14, <1>15, <2>1
  <2>3. c.main.sync.cnt = Cardinality(Owing(c, z)) + 0
    BY <1>5, <1>12, <1>13, <2>2
  <2>4. QED
    BY <1>8, <1>9, <1>10, <1>11, <1>17, <2>3 DEF SyncPart
<1>18. QED
  BY <1>16, <1>17 DEF z, o

\* The sessions, once a reply is taken and counted: unless it sends its broker another op.
LEMMA LeaveReplied ==
  ASSUME NEW s, NEW q, NEW w, NEW v, Good(s, q, w, v), q # <<>>, q[1].type = "REPLY", NEW c,
         ReplyCounted(s, c, q[1].broker, q[1].op),
         q[1].op.leave \/ ~s.main.terminate
  PROVE  LeaveOK(c, Tail(q))
<1> DEFINE z == Tail(q)
           b == q[1].broker
           o == q[1].op
           E(x) == {d \in Brokers : x.rkb[d].enq}
<1>1. Struct(s, q) /\ LeaveOK(s, q) /\ CallsOK(s, q, v)
  BY DEF Good
<1>2. /\ b \in Brokers /\ OutOf(s, q, b) = {o} /\ OutOf(s, z, b) = {} /\ s.rkb[b].enq
      /\ \A d \in Brokers \ {b} : OutOf(s, z, d) = OutOf(s, q, d)
  BY <1>1, PopReplyOut
<1>3. ReplyCounted(s, c, b, o) /\ (o.leave \/ ~s.main.terminate)
  OBVIOUS
<1> HIDE DEF z, b, o
<1>4. OutOf(c, z, b) = {} /\ \A d \in Brokers : d # b => OutOf(c, z, d) = OutOf(s, q, d)
  <2>1. \A d \in Brokers : OutOf(c, z, d) = OutOf(s, z, d)
    BY <1>3 DEF OutOf, ReplyCounted
  <2>2. QED
    BY <1>2, <2>1
<1>5. /\ c.app = s.app /\ c.main.terminate = s.main.terminate
      /\ c.main.leaves = (IF o.leave THEN s.main.leaves - 1 ELSE s.main.leaves)
      /\ \A d \in Brokers :
           /\ c.rkb[d].pend = s.rkb[d].pend /\ c.rkb[d].async = s.rkb[d].async
           /\ c.rkb[d].term = s.rkb[d].term /\ (c.rkb[d].enq <=> d # b /\ s.rkb[d].enq)
  BY <1>3 DEF ReplyCounted
<1>6. \A d \in Brokers : c.rkb[d].term => c.rkb[d].async = {} /\ c.rkb[d].pend = {}
  BY <1>1, <1>5 DEF LeaveOK
<1>7. CASE ~s.main.terminate
  <2>1. ~o.leave
    BY <1>1, <1>2, <1>7 DEF LeaveOK
  <2>2. \A d \in Brokers : \A a \in OutOf(c, z, d) : ~a.leave
    BY <1>1, <1>4, <1>7 DEF LeaveOK
  <2>3. c.app.at = "closed" => FALSE
    BY <1>1, <1>5, <1>7 DEF CallsOK
  <2>4. LeaveOK(c, z)
    BY <1>1, <1>5, <1>6, <1>7, <2>1, <2>2, <2>3 DEF LeaveOK
  <2>5. QED
    BY <2>4 DEF z
<1>8. CASE s.main.terminate
  <2>1. o.leave
    BY <1>3, <1>8
  <2>2. s.rkb[b].async = {}
    BY <1>1, <1>2, <1>8, <2>1 DEF LeaveOK
  <2>3. \A d \in Brokers : c.rkb[d].async # {} => \E a \in OutOf(c, z, d) : ~a.leave
    BY <1>1, <1>4, <1>5, <1>8, <2>2 DEF LeaveOK
  <2>4. ASSUME ~Overlap
        PROVE  /\ c.main.leaves = Cardinality(E(c))
               /\ c.app.at = "closed" => c.main.leaves = 0
    <3>1. IsFiniteSet(E(s)) /\ Cardinality(E(s)) \in Nat
      BY ShareSets, FS_Subset, FS_CardinalityType
    <3>2. s.main.leaves = Cardinality(E(s)) /\ b \in E(s)
      BY <1>1, <1>2, <1>8, <2>4 DEF LeaveOK
    <3>3. E(c) = E(s) \ {b}
      BY <1>5
    <3>4. Cardinality(E(c)) = Cardinality(E(s)) - 1
      BY <3>1, <3>2, <3>3, FS_RemoveElement
    <3>5. E(s) # {}
      BY <3>2
    <3>6. Cardinality(E(s)) # 0
      BY <3>1, <3>5, FS_EmptySet
    <3>7. c.app.at = "closed" => FALSE
      BY <1>1, <1>5, <2>4, <3>2, <3>6 DEF LeaveOK
    <3>8. QED
      BY <1>5, <2>1, <3>2, <3>4, <3>7
  <2>5. LeaveOK(c, z)
    BY <1>5, <1>6, <1>8, <2>3, <2>4 DEF LeaveOK
  <2>6. QED
    BY <2>5 DEF z
<1>9. QED
  BY <1>7, <1>8

LEMMA ApplyResultKeeps ==
  ASSUME NEW s, Shape(s), NEW acks, NEW code
  PROVE  LET t == ApplyResult(s, acks, code) IN
         /\ t.rkb = s.rkb /\ t.cb = s.cb /\ t.main.more = s.main.more
         /\ t.main.fetches = s.main.fetches /\ t.main.terminate = s.main.terminate
         /\ t.main.leaves = s.main.leaves /\ t.main.counter = s.main.counter
<1> DEFINE R == [p \in Partitions |->
                   IF p \in Parts(acks) /\ s.main.sync.results[p] # "absent" THEN code[p]
                   ELSE s.main.sync.results[p]]
           u == [s EXCEPT !.main.sync.cnt = @ - 1, !.main.sync.results = R]
           t == ApplyResult(s, acks, code)
<1>1. t = IF u.main.sync.cnt > 0 THEN u ELSE SendResponse(u)
  BY DEF ApplyResult
<1> HIDE DEF t
<1>2. DOMAIN R = Partitions
  OBVIOUS
<1> HIDE DEF R
<1>3. /\ DOMAIN u = DOMAIN s /\ u.app = s.app /\ u.rkb = s.rkb /\ u.cb = s.cb
      /\ DOMAIN u.main = DOMAIN s.main /\ DOMAIN u.main.sync = DOMAIN s.main.sync
  BY DEF Shape, MainFields
<1>4. /\ u.main.more = s.main.more /\ u.main.fetches = s.main.fetches
      /\ u.main.leaves = s.main.leaves /\ u.main.terminate = s.main.terminate
      /\ u.main.counter = s.main.counter /\ u.main.sync.id = s.main.sync.id
      /\ u.main.sync.results = R
  BY DEF Shape, MainFields
<1> HIDE DEF u
<1>5. Shape(u)
  BY <1>2, <1>3, <1>4 DEF Shape
<1>6. Responded(u, SendResponse(u))
  BY <1>5, SendResponseDoes
<1>7. CASE u.main.sync.cnt > 0
  BY <1>1, <1>3, <1>4, <1>7 DEF t
<1>8. CASE ~(u.main.sync.cnt > 0)
  <2>1. t = SendResponse(u)
    BY <1>1, <1>8
  <2>2. QED
    BY <1>3, <1>4, <1>6, <2>1 DEF Responded, t
<1>9. QED
  BY <1>7, <1>8

\* The outcome of all that the main thread has in hand.
LEMMA CallbacksAll ==
  ASSUME NEW s, NEW q, NEW w, NEW v, NEW late, NEW back, NEW acks, NEW code,
         Others(s, q, w, v, acks), SyncPart(s, q, v, late, back), Told(v, acks, code)
  PROVE  LET t == DispatchAckCallbacks(s, acks, code) IN
         /\ Others(t, q, w, v, {}) /\ SyncPart(t, q, v, late, back)
         /\ t.app = s.app /\ t.main = s.main /\ t.rkb = s.rkb
<1> DEFINE t == DispatchAckCallbacks(s, acks, code)
<1>1. acks \in SUBSET Records /\ acks \in SUBSET acks /\ acks \ acks = {}
  BY DEF Told
<1>2. /\ Others(t, q, w, v, acks \ acks) /\ SyncPart(t, q, v, late, back)
      /\ t.app = s.app /\ t.main = s.main /\ t.rkb = s.rkb
  BY <1>1, CallbacksOK
<1> HIDE DEF t
<1>3. QED
  BY <1>1, <1>2 DEF t

\* The main thread has taken the reply, which it does not answer with a leave.
LEMMA ReplyReceivedOK ==
  ASSUME NEW s, NEW q, NEW w, NEW v, Good(s, q, w, v), q # <<>>, q[1].type = "REPLY",
         q[1].op.leave \/ ~s.main.terminate
  PROVE  LET r == ReplyReceived(s, q[1].broker, q[1].op) IN
         /\ Good(r, Tail(q), w, v) /\ ~r.rkb[q[1].broker].enq
         /\ r.main.terminate = s.main.terminate
         /\ q[1].op.fetch => r.main.fetches = 0
<1> DEFINE z == Tail(q)
           b == q[1].broker
           o == q[1].op
           code == [p \in Partitions |->
                      IF o.err /\ o.code[p] = "in_progress" THEN "err" ELSE o.code[p]]
           c == CountReply(s, b, o)
           t == DispatchAckCallbacks(c, o.acks, code)
           r == ReplyReceived(s, b, o)
<1>1. Struct(s, q)
  BY DEF Good
<1>2. b \in Brokers /\ IsOp(o)
  BY <1>1, PopReplyOut
<1>3. ReplyCounted(s, c, b, o)
  BY <1>1, <1>2, CountReplyDoes
<1>4. r = IF ~o.leave /\ ~s.main.terminate /\ OfCurrentSync(s, o) THEN ApplyResult(t, o.acks, code) ELSE t
  BY DEF ReplyReceived, CountReply
<1> HIDE DEF c, r
<1>5. /\ Struct(c, z) /\ FetchOK(c, z) /\ RequestOK(c, z, w) /\ DeliveryOK(c, w, v)
      /\ AcksOK(c, z, v, o.acks) /\ TruthOK(c, z, v) /\ CallsOK(c, z, v)
      /\ \A a \in o.acks : o.code[a[1]] \in {"ok", "err"} /\ (o.code[a[1]] = "ok" => v.lock[a] = "done")
      /\ o.fetch => c.main.fetches = 0
  BY <1>3, PopReplyOK
<1>6. LeaveOK(c, z)
  BY <1>3, LeaveReplied
<1>7. /\ Current(s, o) => /\ SyncPart(c, z, v, 1, o.acks) /\ Whole(c.app.synced, o.acks)
                          /\ c.main.sync.id # 0 /\ ~s.main.terminate /\ ~o.leave
      /\ ~Current(s, o) => SyncPart(c, z, v, 0, {})
  BY <1>3, PopReplySync
<1>8. Others(c, z, w, v, o.acks)
  BY <1>5, <1>6 DEF Others
<1>9. \A a \in o.acks : code[a[1]] \in {"ok", "err"} /\ (code[a[1]] = "ok" => v.lock[a] = "done")
  <2>1. TAKE a \in o.acks
  <2>2. a[1] \in Partitions
    BY <1>2, RecordType DEF IsOp
  <2>3. code[a[1]] = o.code[a[1]]
    BY <1>5, <2>2
  <2>4. QED
    BY <1>5, <2>3
<1>15. Told(v, o.acks, code)
  BY <1>2, <1>9 DEF Told, IsOp
<1> HIDE DEF code, z, o, b
<1>10. o.acks \subseteq Records
  BY <1>2 DEF IsOp
<1>11. ~c.rkb[b].enq /\ c.main.terminate = s.main.terminate
  BY <1>2, <1>3 DEF ReplyCounted
<1>12. CASE Current(s, o)
  <2>1. /\ Others(t, z, w, v, {}) /\ SyncPart(t, z, v, 1, o.acks)
        /\ t.app = c.app /\ t.main = c.main /\ t.rkb = c.rkb
    <3>1. SyncPart(c, z, v, 1, o.acks)
      BY <1>7, <1>12
    <3>2. Others(t, z, w, v, {})
      BY <1>8, <1>15, <3>1, CallbacksAll
    <3>3. SyncPart(t, z, v, 1, o.acks)
      BY <1>8, <1>15, <3>1, CallbacksAll
    <3>4. t.app = c.app /\ t.main = c.main /\ t.rkb = c.rkb
      BY <1>8 DEF DispatchAckCallbacks, Others, Struct, Shape
    <3>5. QED
      BY <3>2, <3>3, <3>4
  <2>2. r = ApplyResult(t, o.acks, code)
    BY <1>4, <1>7, <1>12 DEF OfCurrentSync, Current
  <2> HIDE DEF t
  <2>3. Others(t, z, w, v, {}) /\ Shape(t)
    BY <2>1 DEF Others, Struct
  <2>4. Whole(t.app.synced, o.acks) /\ t.main.sync.id # 0
    BY <1>7, <1>12, <2>1
  <2>5. Others(r, z, w, v, {}) /\ SyncOK(r, z, v)
    BY <1>9, <2>1, <2>2, <2>3, <2>4, ApplyResultOK
  <2>6. r.rkb = t.rkb /\ r.main.fetches = t.main.fetches /\ r.main.terminate = t.main.terminate
    BY <2>2, <2>3, ApplyResultKeeps
  <2>7. QED
    BY <1>5, <1>11, <2>1, <2>5, <2>6, GoodIs DEF z, o, b, r
<1>13. CASE ~Current(s, o)
  <2>1. /\ Others(t, z, w, v, {}) /\ SyncPart(t, z, v, 0, {})
        /\ t.app = c.app /\ t.main = c.main /\ t.rkb = c.rkb
    <3>1. SyncPart(c, z, v, 0, {})
      BY <1>7, <1>13
    <3>2. Others(t, z, w, v, {})
      BY <1>8, <1>15, <3>1, CallbacksAll
    <3>3. SyncPart(t, z, v, 0, {})
      BY <1>8, <1>15, <3>1, CallbacksAll
    <3>4. t.app = c.app /\ t.main = c.main /\ t.rkb = c.rkb
      BY <1>8 DEF DispatchAckCallbacks, Others, Struct, Shape
    <3>5. QED
      BY <3>2, <3>3, <3>4
  <2>2. r = t
    BY <1>4, <1>13 DEF OfCurrentSync, Current
  <2> HIDE DEF t
  <2>3. Good(r, z, w, v)
    BY <2>1, <2>2, GoodIs DEF SyncOK
  <2>4. QED
    BY <1>5, <1>11, <2>1, <2>2, <2>3 DEF z, o, b, r
<1>14. QED
  BY <1>12, <1>13

\* One broker is given an op.
LEMMA GiveFetchOp ==
  ASSUME NEW s, NEW q, NEW w, NEW v, NEW b \in Brokers, NEW selected, Good(s, q, w, v),
         ~s.main.terminate, ~s.rkb[b].enq, ~s.rkb[b].term,
         selected = b => s.main.fetches = 0 /\ s.main.more
  PROVE  LET t == EnqueueFetchOps(s, {b}, selected, FALSE) IN
         Good(t, q, w, v) /\ ~t.main.terminate
<1> DEFINE to == {b}
           t == EnqueueFetchOps(s, to, selected, FALSE)
<1>1. /\ to \in SUBSET Brokers /\ \A d \in to : ~s.rkb[d].enq /\ ~s.rkb[d].term
      /\ selected \in to => s.main.fetches = 0 /\ s.main.more
  OBVIOUS
<1>2. Others(s, q, w, v, {}) /\ SyncPart(s, q, v, 0, {})
  BY GoodIs DEF SyncOK
<1>3. t = EnqueueFetchOps(s, {b}, selected, FALSE)
  BY Zenon
<1> HIDE DEF to
<1>4. Others(t, q, w, v, {}) /\ SyncPart(t, q, v, 0, {}) /\ FetchOpsGiven(s, t, q, to, selected, FALSE)
  BY <1>1, <1>2, GiveFetchOps
<1> HIDE DEF t
<1>5. Good(t, q, w, v) /\ ~t.main.terminate
  BY <1>4, GoodIs DEF SyncOK, FetchOpsGiven, SameMain
<1>6. QED
  BY <1>3, <1>5, Zenon

LEMMA GiveSyncOp ==
  ASSUME NEW s, NEW q, NEW w, NEW v, NEW b \in Brokers, Good(s, q, w, v),
         ~s.main.terminate, ~s.rkb[b].enq, ~s.rkb[b].term, s.rkb[b].pend # {}
  PROVE  LET t == EnqueueSyncAckOps(s, {b}) IN Good(t, q, w, v) /\ t.main = s.main
<1> DEFINE to == {b}
           t == EnqueueSyncAckOps(s, to)
<1>1. to \in SUBSET Brokers /\ \A d \in to : ~s.rkb[d].enq /\ ~s.rkb[d].term /\ s.rkb[d].pend # {}
  OBVIOUS
<1>2. Others(s, q, w, v, {}) /\ SyncPart(s, q, v, 0, {})
  BY GoodIs DEF SyncOK
<1>3. t = EnqueueSyncAckOps(s, {b})
  BY Zenon
<1> HIDE DEF to
<1>4. Others(t, q, w, v, {}) /\ SyncPart(t, q, v, 0, {}) /\ SyncOpsGiven(s, t, q, to)
  BY <1>1, <1>2, GiveSyncOps
<1> HIDE DEF t
<1>5. Good(t, q, w, v) /\ t.main = s.main
  BY <1>4, GoodIs DEF SyncOK, SyncOpsGiven
<1>6. QED
  BY <1>3, <1>5, Zenon

\* The broker whose reply came is free again.
LEMMA ReplyContinuesOK ==
  ASSUME NEW s, NEW q, NEW w, NEW v, Good(s, q, w, v), NEW b \in Brokers,
         ~s.main.terminate, ~s.rkb[b].enq,
         NEW n, n \in Brokers \cup {None},
         n # None => n \in Selectable(DispatchPending(s, b)) /\ s.main.fetches = 0 /\ s.main.more
  PROVE  Good(ReplyContinues(s, b, n), q, w, v)
<1> DEFINE sync == DispatchPending(s, b)
           fetch == IF n # None THEN EnqueueFetchOps(sync, {n}, n, FALSE) ELSE sync
           t == IF fetch.rkb[b].async # {} /\ ~fetch.rkb[b].enq /\ ~fetch.rkb[b].term
                THEN EnqueueFetchOps(fetch, {b}, None, FALSE) ELSE fetch
<1>1. ReplyContinues(s, b, n) = t
  BY Zenon DEF ReplyContinues
<1>2. Good(sync, q, w, v) /\ sync.main = s.main
  <2>1. CASE ~s.rkb[b].term /\ s.rkb[b].pend # {}
    <3>1. sync = EnqueueSyncAckOps(s, {b})
      BY <2>1, Zenon DEF DispatchPending
    <3> HIDE DEF sync
    <3>2. QED
      BY <2>1, <3>1, GiveSyncOp
  <2>2. CASE ~(~s.rkb[b].term /\ s.rkb[b].pend # {})
    <3>1. sync = s
      BY <2>2, Zenon DEF DispatchPending
    <3> HIDE DEF sync
    <3>2. QED
      BY <3>1
  <2>3. QED
    BY <2>1, <2>2
<1>3. n # None => n \in Selectable(sync)
  OBVIOUS
<1> HIDE DEF sync
<1>4. Good(fetch, q, w, v) /\ ~fetch.main.terminate
  <2>1. CASE n # None
    <3>1. n \in Brokers /\ ~sync.rkb[n].enq /\ ~sync.rkb[n].term
      BY <1>3, <2>1 DEF Selectable
    <3>2. fetch = EnqueueFetchOps(sync, {n}, n, FALSE)
      BY <2>1
    <3>3. ~sync.main.terminate /\ sync.main.fetches = 0 /\ sync.main.more
      BY <1>2, <2>1
    <3> HIDE DEF fetch
    <3>4. QED
      BY <1>2, <3>1, <3>2, <3>3, GiveFetchOp
  <2>2. CASE n = None
    <3>1. fetch = sync
      BY <2>2
    <3> HIDE DEF fetch
    <3>2. QED
      BY <1>2, <3>1
  <2>3. QED
    BY <2>1, <2>2
<1> HIDE DEF fetch
<1>5. Good(t, q, w, v)
  <2>1. CASE fetch.rkb[b].async # {} /\ ~fetch.rkb[b].enq /\ ~fetch.rkb[b].term
    <3>1. t = EnqueueFetchOps(fetch, {b}, None, FALSE)
      BY <2>1
    <3>2. None # b
      BY ShareSets
    <3> HIDE DEF t
    <3>3. QED
      BY <1>4, <2>1, <3>1, <3>2, GiveFetchOp
  <2>2. CASE ~(fetch.rkb[b].async # {} /\ ~fetch.rkb[b].enq /\ ~fetch.rkb[b].term)
    <3>1. t = fetch
      BY <2>2
    <3> HIDE DEF t
    <3>2. QED
      BY <1>4, <3>1
  <2>3. QED
    BY <2>1, <2>2
<1> HIDE DEF t
<1>6. QED
  BY <1>1, <1>5

SameFields(u, y) ==
  /\ DOMAIN u = {"app", "main", "rkb", "cb"}
  /\ u.app = y.app /\ u.main = y.main /\ u.rkb = y.rkb /\ u.cb = y.cb

\* Callbacks and ops for the brokers may change places.
LEMMA CallbacksFirst ==
  ASSUME NEW c, Shape(c), NEW acks, NEW code, NEW to
  PROVE  LET x == DispatchAckCallbacks(c, acks, code)
             u == EnqueueFetchOps(x, to, None, TRUE)
             y == DispatchAckCallbacks(EnqueueFetchOps(c, to, None, TRUE), acks, code)
         IN  SameFields(u, y)
<1> DEFINE F == [r \in Records |-> IF r \notin acks THEN c.cb[r]
                                   ELSE IF c.cb[r] = "none" THEN code[r[1]] ELSE "twice"]
           K == [b \in Brokers |-> IF b \notin to THEN c.rkb[b]
                   ELSE [c.rkb[b] EXCEPT !.enq = TRUE, !.async = {},
                           !.ops = Append(@, ShareOp(b = None, TRUE, 0, c.rkb[b].async))]]
           x == DispatchAckCallbacks(c, acks, code)
           e == EnqueueFetchOps(c, to, None, TRUE)
           u == EnqueueFetchOps(x, to, None, TRUE)
           y == DispatchAckCallbacks(e, acks, code)
           M == [c.main EXCEPT !.fetches = IF None \in to THEN @ + 1 ELSE @]
<1>1. DOMAIN c = {"app", "main", "rkb", "cb"}
  BY DEF Shape
<1>2. x = [c EXCEPT !.cb = F]
  BY DEF DispatchAckCallbacks
<1>3. e = [c EXCEPT !.rkb = K, !.main.fetches = IF None \in to THEN @ + 1 ELSE @]
  BY Zenon DEF EnqueueFetchOps
<1>4. DOMAIN e = DOMAIN c /\ e.app = c.app /\ e.rkb = K /\ e.main = M /\ e.cb = c.cb
  <2> HIDE DEF K, e
  <2>1. QED
    BY <1>1, <1>3
<1>5. DOMAIN x = DOMAIN c /\ x.app = c.app /\ x.rkb = c.rkb /\ x.main = c.main /\ x.cb = F
  <2> HIDE DEF F, x
  <2>1. QED
    BY <1>1, <1>2
<1>6. u = [x EXCEPT !.rkb = K, !.main.fetches = IF None \in to THEN @ + 1 ELSE @]
  <2>1. u = [x EXCEPT
     !.rkb = [b \in Brokers |-> IF b \notin to THEN x.rkb[b]
        ELSE [x.rkb[b] EXCEPT !.enq = TRUE, !.async = {},
                !.ops = Append(@, ShareOp(b = None, TRUE, 0, x.rkb[b].async))]],
     !.main.fetches = IF None \in to THEN @ + 1 ELSE @]
    BY Zenon DEF EnqueueFetchOps
  <2> HIDE DEF x, u
  <2>2. QED
    BY <1>5, <2>1, Zenon
<1>7. DOMAIN u = DOMAIN x /\ u.app = x.app /\ u.rkb = K /\ u.main = M /\ u.cb = x.cb
  <2> HIDE DEF K, x, u
  <2>1. QED
    BY <1>1, <1>5, <1>6
<1>8. y = [e EXCEPT !.cb = [r \in Records |-> IF r \notin acks THEN e.cb[r]
                              ELSE IF e.cb[r] = "none" THEN code[r[1]] ELSE "twice"]]
  <2> HIDE DEF e
  <2>1. QED
    BY DEF DispatchAckCallbacks
<1>9. y = [e EXCEPT !.cb = F]
  <2> HIDE DEF e, y
  <2>1. QED
    BY <1>4, <1>8
<1>10. y.app = e.app /\ y.rkb = e.rkb /\ y.main = e.main /\ y.cb = F
  <2> HIDE DEF F, e, y
  <2>1. QED
    BY <1>1, <1>4, <1>9
<1> HIDE DEF F, K, x, e, u, y, M
<1>11. QED
  BY <1>1, <1>4, <1>5, <1>7, <1>10 DEF SameFields, x, e, u, y

\* The consumer is being closed: the broker's session is left once its op is back.
LEMMA LeaveGiven ==
  ASSUME NEW s, NEW q, NEW w, NEW v, Good(s, q, w, v), q # <<>>, q[1].type = "REPLY", NEW c,
         ReplyCounted(s, c, q[1].broker, q[1].op),
         ~q[1].op.leave, s.main.terminate, NEW e,
         FetchOpsGiven(c, e, Tail(q), {q[1].broker}, None, TRUE)
  PROVE  LeaveOK(e, Tail(q))
<1> DEFINE z == Tail(q)
           b == q[1].broker
           o == q[1].op
<1>1. LeaveOK(s, q) /\ Struct(s, q)
  BY DEF Good
<1>2. /\ b \in Brokers /\ s.rkb[b].enq
      /\ \A d \in Brokers \ {b} : OutOf(s, z, d) = OutOf(s, q, d)
  BY <1>1, PopReplyOut
<1>3. /\ e.main.leaves = s.main.leaves /\ e.main.terminate /\ e.app = s.app
  BY DEF FetchOpsGiven, SameMain, ReplyCounted
<1>4. e.rkb[b].enq /\ e.rkb[b].async = {} /\ e.rkb[b].pend = s.rkb[b].pend
      /\ e.rkb[b].term = s.rkb[b].term
  BY <1>2 DEF FetchOpsGiven, ReplyCounted
<1>5. \A d \in Brokers \ {b} :
        /\ (e.rkb[d].enq <=> s.rkb[d].enq) /\ e.rkb[d].async = s.rkb[d].async
        /\ e.rkb[d].pend = s.rkb[d].pend /\ e.rkb[d].term = s.rkb[d].term
        /\ OutOf(e, z, d) = OutOf(s, q, d)
  <2>1. TAKE d \in Brokers \ {b}
  <2>2. e.rkb[d] = c.rkb[d]
    BY DEF FetchOpsGiven
  <2>3. OutOf(e, z, d) = OutOf(s, z, d)
    BY <2>2 DEF ReplyCounted, OutOf
  <2>4. QED
    BY <1>2, <2>2, <2>3 DEF ReplyCounted
<1>6. {d \in Brokers : e.rkb[d].enq} = {d \in Brokers : s.rkb[d].enq}
  BY <1>2, <1>4, <1>5
<1> HIDE DEF z, b, o
<1>7. \A d \in Brokers : e.rkb[d].term => e.rkb[d].async = {} /\ e.rkb[d].pend = {}
  BY <1>1, <1>4, <1>5 DEF LeaveOK
<1>8. \A d \in Brokers : e.rkb[d].async # {} => \E a \in OutOf(e, z, d) : ~a.leave
  BY <1>1, <1>4, <1>5 DEF LeaveOK
<1>9. LeaveOK(e, z)
  BY <1>1, <1>3, <1>6, <1>7, <1>8 DEF LeaveOK
<1>10. QED
  BY <1>9 DEF z

LEMMA ReplyLeaves ==
  ASSUME NEW s, NEW q, NEW w, NEW v, Good(s, q, w, v), q # <<>>, q[1].type = "REPLY",
         ~q[1].op.leave, s.main.terminate
  PROVE  Good(EnqueueFetchOps(ReplyReceived(s, q[1].broker, q[1].op), {q[1].broker}, None, TRUE),
              Tail(q), w, v)
<1> DEFINE z == Tail(q)
           b == q[1].broker
           o == q[1].op
           to == {b}
           code == [p \in Partitions |->
                      IF o.err /\ o.code[p] = "in_progress" THEN "err" ELSE o.code[p]]
           c == CountReply(s, b, o)
           x == DispatchAckCallbacks(c, o.acks, code)
           e == EnqueueFetchOps(c, to, None, TRUE)
           y == DispatchAckCallbacks(e, o.acks, code)
           u == EnqueueFetchOps(x, to, None, TRUE)
<1>1. Struct(s, q)
  BY DEF Good
<1>2. b \in Brokers /\ IsOp(o)
  BY <1>1, PopReplyOut
<1>3. ReplyCounted(s, c, b, o)
  BY <1>1, <1>2, CountReplyDoes
<1>4. x = ReplyReceived(s, b, o)
  <2>1. ReplyReceived(s, b, o) =
          IF ~o.leave /\ ~s.main.terminate /\ OfCurrentSync(s, o) THEN ApplyResult(x, o.acks, code) ELSE x
    BY DEF ReplyReceived, CountReply
  <2> HIDE DEF x, o
  <2>2. QED
    BY <2>1
<1>5. /\ Struct(c, z) /\ FetchOK(c, z) /\ RequestOK(c, z, w) /\ DeliveryOK(c, w, v)
      /\ AcksOK(c, z, v, o.acks) /\ TruthOK(c, z, v) /\ CallsOK(c, z, v)
      /\ \A a \in o.acks : o.code[a[1]] \in {"ok", "err"} /\ (o.code[a[1]] = "ok" => v.lock[a] = "done")
  <2> HIDE DEF c
  <2>1. QED
    BY <1>3, PopReplyOK
<1>6. SyncPart(c, z, v, 0, {})
  <2> HIDE DEF c
  <2>1. QED
    BY <1>3, PopReplySync
<1>7. Told(v, o.acks, code)
  <2>1. ASSUME NEW a \in o.acks
        PROVE  code[a[1]] = o.code[a[1]]
    <3>1. a[1] \in Partitions
      BY <1>2, RecordType DEF IsOp
    <3>2. QED
      BY <1>5, <3>1
  <2> HIDE DEF code
  <2>2. QED
    BY <1>2, <1>5, <2>1 DEF Told, IsOp
<1>8. FetchOpsGiven(c, e, z, to, None, TRUE)
  <2>1. Struct(c, z) /\ to \in SUBSET Brokers /\ \A d \in to : ~c.rkb[d].enq
    BY <1>2, <1>3, <1>5 DEF ReplyCounted
  <2> HIDE DEF c, z, to
  <2>2. QED
    BY <2>1, EnqueueFetchOpsDoes, Zenon
<1>9. LeaveOK(e, z)
  <2>1. FetchOpsGiven(c, e, Tail(q), {q[1].broker}, None, TRUE)
    BY <1>8, Zenon
  <2>2. ReplyCounted(s, c, q[1].broker, q[1].op)
    BY <1>3, Zenon
  <2> HIDE DEF c, e
  <2>3. QED
    BY <2>1, <2>2, LeaveGiven
<1>10. None \notin to
  BY <1>2, ShareSets
<1> HIDE DEF c, e, z, o, b, to, code
<1>11. SameCalls(c, e) /\ Struct(e, z)
  BY <1>8 DEF SameCalls, FetchOpsGiven, SameMain
<1>12. RequestOK(e, z, w) /\ DeliveryOK(e, w, v) /\ CallsOK(e, z, v)
  BY <1>5, <1>11, SameCallsOK
<1>13. AcksOK(e, z, v, o.acks)
  BY <1>5, <1>8, FetchGivenAcks, Zenon
<1>14. TruthOK(e, z, v)
  BY <1>5, <1>8, <1>11, FetchGivenTruth, Zenon
<1>15. FetchOK(e, z)
  BY <1>5, <1>8, <1>10, FetchGivenFetch, Zenon
<1>16. SyncPart(e, z, v, 0, {})
  BY <1>5, <1>6, <1>8, FetchGivenSync, Zenon
<1>17. Others(e, z, w, v, o.acks)
  BY <1>9, <1>11, <1>12, <1>13, <1>14, <1>15 DEF Others
<1>18. Others(y, z, w, v, {})
  BY <1>7, <1>16, <1>17, CallbacksAll
<1>19. SyncPart(y, z, v, 0, {})
  BY <1>7, <1>16, <1>17, CallbacksAll
<1>20. Good(y, z, w, v)
  <2> HIDE DEF y
  <2>1. QED
    BY <1>18, <1>19, GoodIs DEF SyncOK
<1>21. SameFields(u, y)
  <2>1. Shape(c)
    BY <1>5 DEF Struct
  <2>2. QED
    BY <2>1, CallbacksFirst DEF e
<1>22. Good(u, z, w, v)
  <2> HIDE DEF u, y
  <2>1. QED
    BY <1>20, <1>21, GoodFields DEF SameFields
<1>23. QED
  BY <1>4, <1>22, Zenon DEF to, b, o, z

LEMMA ShareFetchReplyStep ==
  ASSUME Inv, rk_ops # <<>>, ShareFetchReplyOp(Head(rk_ops)), rk_ops' = Tail(rk_ops),
         UNCHANGED <<rkcg_q, leader, srv, faults>>
  PROVE  Inv'
<1> DEFINE b == rk_ops[1].broker
           o == rk_ops[1].op
           r == ReplyReceived(State, b, o)
           again == o.fetch /\ ~o.records /\ r.main.more
<1>1. Good(State, rk_ops, rkcg_q, srv) /\ Struct(State, rk_ops) /\ \A p \in Partitions : leader[p] \in Brokers
  BY DEF Inv, Good
<1>2. Head(rk_ops) = rk_ops[1]
  BY <1>1, TailSeq DEF Struct, QueueOK
<1>3. ShareFetchReplyOp(rk_ops[1])
  BY <1>2
<1>4. rk_ops[1].type = "REPLY"
  BY <1>3, Zenon DEF ShareFetchReplyOp
<1>5. \/ o.leave /\ Becomes(r)
      \/ ~o.leave /\ main.terminate /\ Becomes(EnqueueFetchOps(r, {b}, None, TRUE))
      \/ /\ ~o.leave /\ ~main.terminate
         /\ \E n \in IF again THEN SelectBroker(DispatchPending(r, b)) ELSE {None} :
              Becomes(ReplyContinues(r, b, n))
  BY <1>3, Zenon DEF ShareFetchReplyOp
<1>6. State.main.terminate = main.terminate
  BY DEF State
<1>7. b \in Brokers
  BY <1>1, <1>4, PopReplyOut
<1>8. CASE o.leave /\ Becomes(r)
  <2>1. Good(r, Tail(rk_ops), rkcg_q, srv)
    BY <1>1, <1>4, <1>8, ReplyReceivedOK
  <2> HIDE DEF r
  <2>2. QED
    BY <1>8, <2>1, MainStep
<1>9. CASE ~o.leave /\ main.terminate /\ Becomes(EnqueueFetchOps(r, {b}, None, TRUE))
  <2> DEFINE u == EnqueueFetchOps(r, {b}, None, TRUE)
  <2>1. Good(u, Tail(rk_ops), rkcg_q, srv)
    BY <1>1, <1>4, <1>6, <1>9, ReplyLeaves
  <2>2. Becomes(u)
    BY <1>9, Zenon
  <2> HIDE DEF u
  <2>3. QED
    BY <2>1, <2>2, MainStep
<1>10. ASSUME ~o.leave /\ ~main.terminate,
              NEW n \in IF again THEN SelectBroker(DispatchPending(r, b)) ELSE {None},
              Becomes(ReplyContinues(r, b, n))
       PROVE  Inv'
  <2> DEFINE z == Tail(rk_ops)
             u == ReplyContinues(r, b, n)
  <2>1. /\ Good(r, z, rkcg_q, srv) /\ ~r.rkb[b].enq /\ ~r.main.terminate
        /\ o.fetch => r.main.fetches = 0
    BY <1>1, <1>4, <1>6, <1>10, ReplyReceivedOK
  <2> HIDE DEF r, b, o, z
  <2>2. n # None => n \in Selectable(DispatchPending(r, b)) /\ r.main.fetches = 0 /\ r.main.more
    BY <1>10, <2>1 DEF SelectBroker
  <2>3. n \in Brokers \cup {None}
    BY <1>1, <2>2 DEF Selectable
  <2>4. Good(u, z, rkcg_q, srv)
    BY <1>7, <2>1, <2>2, <2>3, ReplyContinuesOK
  <2>5. Becomes(u)
    BY <1>10, Zenon
  <2> HIDE DEF u
  <2>6. QED
    BY <2>4, <2>5, MainStep DEF z
<1>11. QED
  BY <1>5, <1>8, <1>9, <1>10

-----------------------------------------------------------------------------
(* The main thread: the consumer is closed. *)

\* What rd_kafka_cgrp_terminate0() sets, n being the sessions to leave.
Terminating(a, c, n) ==
  /\ Shape(c) /\ c.app = a.app /\ c.cb = a.cb /\ c.rkb = a.rkb
  /\ c.main.more = a.main.more /\ c.main.fetches = a.main.fetches
  /\ c.main.leaves = n /\ c.main.terminate
  /\ c.main.sync = a.main.sync /\ c.main.counter = a.main.counter

LEMMA TerminatingDoes ==
  ASSUME NEW s, Shape(s), NEW acks, NEW n, Shape(SegregateAcks(s, acks))
  PROVE  LET t == SegregateAcks([s EXCEPT !.main.terminate = TRUE], acks) IN
         /\ Terminating(SegregateAcks(s, acks), [t EXCEPT !.main.leaves = n], n)
         /\ t.rkb = SegregateAcks(s, acks).rkb
<1> DEFINE g == {r \in acks : Resolves(s, r)}
           K == [b \in Brokers |-> [s.rkb[b] EXCEPT !.async = @ \cup {r \in g : srv.by[r] = b}]]
           C == [r \in Records |-> IF r \notin acks \ g THEN s.cb[r]
                                   ELSE IF s.cb[r] = "none" THEN AllErr[r[1]] ELSE "twice"]
           y == [s EXCEPT !.main.terminate = TRUE]
           t == SegregateAcks(y, acks)
           a == SegregateAcks(s, acks)
           c == [t EXCEPT !.main.leaves = n]
<1>1. DOMAIN s = {"app", "main", "rkb", "cb"} /\ DOMAIN s.main = MainFields
  BY DEF Shape
<1>2. /\ DOMAIN y = DOMAIN s /\ y.app = s.app /\ y.rkb = s.rkb /\ y.cb = s.cb
      /\ y.main = [s.main EXCEPT !.terminate = TRUE]
  BY <1>1
<1>3. \A x : DOMAIN x = {"app", "main", "rkb", "cb"} /\ x.rkb = s.rkb /\ x.cb = s.cb =>
        LET d == SegregateAcks(x, acks) IN
        DOMAIN d = DOMAIN x /\ d.app = x.app /\ d.main = x.main /\ d.rkb = K /\ d.cb = C
  <2>1. TAKE x
  <2>2. HAVE DOMAIN x = {"app", "main", "rkb", "cb"} /\ x.rkb = s.rkb /\ x.cb = s.cb
  <2> DEFINE d == SegregateAcks(x, acks)
             D == [r \in Records |-> IF r \notin acks \ {e \in acks : Resolves(x, e)} THEN x.cb[r]
                                     ELSE IF x.cb[r] = "none" THEN AllErr[r[1]] ELSE "twice"]
             L == [b \in Brokers |-> [x.rkb[b] EXCEPT
                     !.async = @ \cup {r \in {e \in acks : Resolves(x, e)} : srv.by[r] = b}]]
  <2>3. d = [[x EXCEPT !.cb = D] EXCEPT !.rkb = L]
    BY Zenon DEF SegregateAcks, DispatchAckCallbacks
  <2>4. \A r : Resolves(x, r) <=> Resolves(s, r)
    BY <2>2 DEF Resolves
  <2>5. {e \in acks : Resolves(x, e)} = g
    BY <2>4
  <2>6. D = C /\ L = K
    BY <2>2, <2>5
  <2> HIDE DEF d, D, L, C, K
  <2>7. QED
    BY <2>2, <2>3, <2>6 DEF d
<1> HIDE DEF K, C
<1>4. /\ DOMAIN a = DOMAIN s /\ a.app = s.app /\ a.main = s.main /\ a.rkb = K /\ a.cb = C
  BY <1>1, <1>3
<1> HIDE DEF y
<1>5. /\ DOMAIN t = DOMAIN s /\ t.app = s.app /\ t.main = y.main /\ t.rkb = K /\ t.cb = C
  BY <1>1, <1>2, <1>3
<1> HIDE DEF a, t
<1>6. /\ DOMAIN c = DOMAIN s /\ c.app = s.app /\ c.rkb = K /\ c.cb = C
      /\ c.main = [s.main EXCEPT !.terminate = TRUE, !.leaves = n]
  BY <1>1, <1>2, <1>5
<1> HIDE DEF c
<1>7. /\ DOMAIN c.main = MainFields
      /\ c.main.more = s.main.more /\ c.main.fetches = s.main.fetches
      /\ c.main.leaves = n /\ c.main.terminate
      /\ c.main.sync = s.main.sync /\ c.main.counter = s.main.counter
  BY <1>1, <1>6 DEF MainFields
<1>8. Shape(a)
  BY DEF a
<1>9. Shape(c)
  BY <1>1, <1>4, <1>6, <1>7, <1>8 DEF Shape
<1>10. Terminating(a, c, n) /\ t.rkb = a.rkb
  BY <1>4, <1>5, <1>6, <1>7, <1>9 DEF Terminating
<1>11. QED
  BY <1>10, Zenon DEF a, t, c, y

\* Everything but LeaveOK, once the sessions to leave are counted.
LEMMA TerminatingOK ==
  ASSUME NEW a, NEW z, NEW w, NEW v, Good(a, z, w, v), a.app.at = "close",
         \A i \in DOMAIN z : z[i].type = "REPLY", NEW c, NEW n, Terminating(a, c, n)
  PROVE  /\ Struct(c, z) /\ FetchOK(c, z) /\ RequestOK(c, z, w) /\ DeliveryOK(c, w, v)
         /\ AcksOK(c, z, v, {}) /\ TruthOK(c, z, v) /\ SyncPart(c, z, v, 0, {}) /\ CallsOK(c, z, v)
<1>1. /\ c.app = a.app /\ c.cb = a.cb /\ c.rkb = a.rkb
      /\ c.main.more = a.main.more /\ c.main.fetches = a.main.fetches /\ c.main.terminate
      /\ c.main.sync = a.main.sync /\ c.main.counter = a.main.counter /\ Shape(c)
  BY DEF Terminating
<1>2. \A b : OutOf(c, z, b) = OutOf(a, z, b)
  BY <1>1 DEF OutOf
<1>3. Struct(c, z)
  BY <1>1 DEF Good, Struct
<1>4. FetchOK(c, z)
  BY <1>1, <1>2 DEF Good, FetchOK, Fetching
<1>5. RequestOK(c, z, w)
  <2>1. Responding(c, w) <=> Responding(a, w)
    BY <1>1 DEF Responding
  <2>2. QED
    BY <1>1, <2>1 DEF Good, RequestOK
<1>6. DeliveryOK(c, w, v)
  BY <1>1 DEF Good, DeliveryOK
<1>7. AcksOK(c, z, v, {})
  BY <1>1, <1>2 DEF Good, AcksOK, Held, AtOut
<1>8. TruthOK(c, z, v)
  BY <1>1, <1>2 DEF Good, TruthOK
<1>9. SyncPart(c, z, v, 0, {})
  <2>1. \A o : Current(c, o) <=> Current(a, o)
    BY <1>1 DEF Current
  <2>2. Owing(c, z) = Owing(a, z)
    BY <1>1, <1>2, <2>1 DEF Owing
  <2>3. SyncPart(a, z, v, 0, {})
    BY DEF Good, SyncOK
  <2>4. QED
    BY <1>1, <1>2, <2>1, <2>2, <2>3 DEF SyncPart
<1>10. CallsOK(c, z, v)
  BY <1>1 DEF CallsOK
<1>11. QED
  BY <1>3, <1>4, <1>5, <1>6, <1>7, <1>8, <1>9, <1>10

LEMMA TerminatingLeaves ==
  ASSUME NEW a, NEW z, NEW w, NEW v, Good(a, z, w, v), a.app.at = "close", ~a.main.terminate,
         NEW c, NEW live, live = {b \in Brokers : ~a.rkb[b].term},
         Terminating(a, c, Cardinality(live)),
         NEW to, to = {b \in live : ~a.rkb[b].enq}, NEW e, FetchOpsGiven(c, e, z, to, None, TRUE)
  PROVE  LeaveOK(e, z)
<1>1. /\ e.app = a.app /\ e.main.terminate /\ e.main.leaves = Cardinality(live)
  BY DEF FetchOpsGiven, SameMain, Terminating
<1>2. \A b \in Brokers \ to : e.rkb[b] = a.rkb[b] /\ OutOf(e, z, b) = OutOf(a, z, b)
  BY DEF FetchOpsGiven, Terminating, OutOf
<1>3. \A b \in to : e.rkb[b].async = {} /\ e.rkb[b].enq /\ ~e.rkb[b].term
  BY DEF FetchOpsGiven, Terminating
<1>4. LeaveOK(a, z) /\ Struct(a, z)
  BY DEF Good
<1>5. \A b \in Brokers : e.rkb[b].term => e.rkb[b].async = {} /\ e.rkb[b].pend = {}
  BY <1>2, <1>3, <1>4 DEF LeaveOK
<1>6. ASSUME NEW b \in Brokers, e.rkb[b].async # {}
      PROVE  \E o \in OutOf(e, z, b) : ~o.leave
  <2>1. b \notin to
    BY <1>3, <1>6
  <2>2. a.rkb[b].async # {} /\ OutOf(e, z, b) = OutOf(a, z, b)
    BY <1>2, <1>6, <2>1
  <2>3. ~a.rkb[b].term
    BY <1>4, <2>2 DEF LeaveOK
  <2>4. a.rkb[b].enq
    BY <2>1, <2>3
  <2>5. OutOf(a, z, b) # {}
    BY <1>4, <2>4 DEF Struct, BrokerOK, OutOf
  <2>6. QED
    BY <1>4, <2>2, <2>5 DEF LeaveOK
<1>7. ~Overlap => {b \in Brokers : e.rkb[b].enq} = live
  <2>1. HAVE ~Overlap
  <2>2. \A b \in Brokers : a.rkb[b].term => ~a.rkb[b].enq
    BY <1>4, <2>1 DEF LeaveOK
  <2>3. ASSUME NEW b \in Brokers
        PROVE  e.rkb[b].enq <=> b \in live
    <3>1. CASE b \in to
      BY <1>3, <3>1
    <3>2. CASE b \notin to
      BY <1>2, <2>2, <3>2
    <3>3. QED
      BY <3>1, <3>2
  <2>4. live \subseteq Brokers
    OBVIOUS
  <2>5. QED
    BY <2>3, <2>4
<1>8. QED
  BY <1>1, <1>5, <1>6, <1>7 DEF LeaveOK

LEMMA TerminateStep ==
  ASSUME Inv, rk_ops # <<>>, TerminateOp(Head(rk_ops)), rk_ops' = Tail(rk_ops),
         UNCHANGED <<rkcg_q, leader, srv, faults>>
  PROVE  Inv'
<1> DEFINE op == rk_ops[1]
           acks == op.acks
           z == Tail(rk_ops)
           s == State
           a == SegregateAcks(s, acks)
           t == SegregateAcks([s EXCEPT !.main.terminate = TRUE], acks)
           live == {b \in Brokers : ~a.rkb[b].term}
           to == {b \in live : ~a.rkb[b].enq}
           c == [t EXCEPT !.main.leaves = Cardinality(live)]
           e == EnqueueFetchOps(c, to, None, TRUE)
<1>1. Good(s, rk_ops, rkcg_q, srv) /\ (\A p \in Partitions : leader[p] \in Brokers)
  BY DEF Inv
<1>2. Head(rk_ops) = op
  BY <1>1, TailSeq DEF Good, Struct, QueueOK
<1>3. TerminateOp(op)
  BY <1>2
<1>4. op.type = "TERMINATE"
  BY <1>3, Zenon DEF TerminateOp
<1>5. Becomes(EnqueueFetchOps([t EXCEPT !.main.leaves = Cardinality({b \in Brokers : ~t.rkb[b].term})],
                              {b \in {b \in Brokers : ~t.rkb[b].term} : ~t.rkb[b].enq}, None, TRUE))
  BY <1>3, Zenon DEF TerminateOp
<1> HIDE DEF s
<1>6. /\ Others(s, z, rkcg_q, srv, acks) /\ SyncOK(s, z, srv)
      /\ acks \in SUBSET Records /\ ~s.main.terminate
  <2>1. op.type # "REPLY" /\ ~IsRequest(op)
    BY <1>4 DEF IsRequest
  <2>2. QED
    BY <1>1, <2>1, PopCall DEF Others
<1>7. s.app.at = "close" /\ \A i \in DOMAIN z : z[i].type = "REPLY"
  <2>1. CallsOK(s, rk_ops, srv) /\ IsSeq(rk_ops) /\ 1 \in DOMAIN rk_ops
    BY <1>1, TailSeq DEF Good, Struct, QueueOK
  <2>2. s.app.at = "close"
    BY <1>4, <2>1 DEF CallsOK
  <2>3. QED
    BY <1>4, <2>1, <2>2, TailCalls
<1> HIDE DEF z, acks, op
<1>8. /\ Others(a, z, rkcg_q, srv, {}) /\ SyncOK(a, z, srv)
      /\ a.app = s.app /\ a.main = s.main
  BY <1>1, <1>6, SegregateAcksOK
<1>9. Good(a, z, rkcg_q, srv) /\ Shape(a) /\ a.app.at = "close" /\ ~a.main.terminate
  <2> HIDE DEF a
  <2>1. QED
    BY <1>6, <1>7, <1>8, GoodIs DEF Others, Struct
<1>10. Terminating(a, c, Cardinality(live)) /\ t.rkb = a.rkb
  <2>1. Shape(s)
    BY <1>6 DEF Others, Struct
  <2> HIDE DEF live
  <2>2. QED
    BY <1>9, <2>1, TerminatingDoes
<1>11. Becomes(e)
  <2> HIDE DEF t
  <2>1. {b \in Brokers : ~t.rkb[b].term} = live
    BY <1>10
  <2>2. {b \in {b \in Brokers : ~t.rkb[b].term} : ~t.rkb[b].enq} = to
    BY <1>10
  <2> HIDE DEF live, to
  <2>3. QED
    BY <1>5, <2>1, <2>2, Zenon
<1> HIDE DEF a, c, t
<1>12. /\ Struct(c, z) /\ FetchOK(c, z) /\ RequestOK(c, z, rkcg_q) /\ DeliveryOK(c, rkcg_q, srv)
       /\ AcksOK(c, z, srv, {}) /\ TruthOK(c, z, srv) /\ SyncPart(c, z, srv, 0, {})
       /\ CallsOK(c, z, srv)
  <2> HIDE DEF live
  <2>1. QED
    BY <1>7, <1>9, <1>10, TerminatingOK
<1>13. to \in SUBSET Brokers /\ (\A b \in to : ~c.rkb[b].enq) /\ None \notin to
  BY <1>10, ShareSets DEF Terminating
<1>14. FetchOpsGiven(c, e, z, to, None, TRUE)
  <2> HIDE DEF to
  <2>1. QED
    BY <1>12, <1>13, EnqueueFetchOpsDoes, Zenon
<1> HIDE DEF e
<1>15. LeaveOK(e, z)
  <2>1. live = {b \in Brokers : ~a.rkb[b].term} /\ to = {b \in live : ~a.rkb[b].enq}
    OBVIOUS
  <2> HIDE DEF live, to
  <2>2. QED
    BY <1>9, <1>10, <1>14, <2>1, TerminatingLeaves
<1> HIDE DEF to, live
<1>16. SameCalls(c, e) /\ Struct(e, z)
  BY <1>14 DEF SameCalls, FetchOpsGiven, SameMain
<1>17. RequestOK(e, z, rkcg_q) /\ DeliveryOK(e, rkcg_q, srv) /\ CallsOK(e, z, srv)
  BY <1>12, <1>16, SameCallsOK
<1>18. AcksOK(e, z, srv, {})
  BY <1>12, <1>14, FetchGivenAcks, Zenon
<1>19. TruthOK(e, z, srv)
  BY <1>12, <1>14, <1>16, FetchGivenTruth, Zenon
<1>20. FetchOK(e, z)
  BY <1>12, <1>13, <1>14, FetchGivenFetch, Zenon
<1>21. SyncPart(e, z, srv, 0, {})
  BY <1>12, <1>14, FetchGivenSync, Zenon
<1>22. Good(e, z, rkcg_q, srv)
  BY <1>15, <1>16, <1>17, <1>18, <1>19, <1>20, <1>21 DEF Good, SyncOK
<1>23. Good(e, rk_ops', rkcg_q', srv)
  BY <1>22 DEF z
<1>24. QED
  BY <1>11, <1>23, MainStep

LEMMA MainServeStep ==
  ASSUME Inv, MainServe
  PROVE  Inv'
<1>1. rk_ops # <<>> /\ rk_ops' = Tail(rk_ops) /\ UNCHANGED <<rkcg_q, leader, srv, faults>>
  BY Zenon DEF MainServe
<1>2. \/ FetchFanoutOp(Head(rk_ops)) \/ CommitAsyncFanoutOp(Head(rk_ops))
      \/ CommitSyncFanoutOp(Head(rk_ops)) \/ ShareFetchReplyOp(Head(rk_ops))
      \/ TerminateOp(Head(rk_ops))
  BY Zenon DEF MainServe
<1>3. CASE FetchFanoutOp(Head(rk_ops))
  BY <1>1, <1>3, FetchFanoutStep
<1>4. CASE CommitAsyncFanoutOp(Head(rk_ops))
  BY <1>1, <1>4, CommitAsyncFanoutStep
<1>5. CASE CommitSyncFanoutOp(Head(rk_ops))
  BY <1>1, <1>5, CommitSyncFanoutStep
<1>6. CASE ShareFetchReplyOp(Head(rk_ops))
  BY <1>1, <1>6, ShareFetchReplyStep
<1>7. CASE TerminateOp(Head(rk_ops))
  BY <1>1, <1>7, TerminateStep
<1>8. QED
  BY <1>2, <1>3, <1>4, <1>5, <1>6, <1>7

LEMMA RetriggerStep ==
  ASSUME Inv, Retrigger
  PROVE  Inv'
<1>1. PICK b \in Selectable(State) : Becomes(EnqueueFetchOps(State, {b}, b, FALSE))
  BY Zenon DEF Retrigger
<1>2. /\ ~main.terminate /\ main.more /\ main.fetches = 0
      /\ UNCHANGED <<rk_ops, rkcg_q, leader, srv, faults>>
  BY Zenon DEF Retrigger
<1> DEFINE s == State
           t == EnqueueFetchOps(s, {b}, b, FALSE)
<1>3. b \in Brokers /\ ~s.rkb[b].enq /\ ~s.rkb[b].term
  BY <1>1 DEF Selectable, Inv
<1>4. Good(s, rk_ops, rkcg_q, srv) /\ ~s.main.terminate /\ s.main.more /\ s.main.fetches = 0
  BY <1>2 DEF Inv, State
<1>5. Becomes(t)
  BY <1>1
<1> HIDE DEF s
<1>6. Good(t, rk_ops, rkcg_q, srv)
  BY <1>3, <1>4, GiveFetchOp
<1> HIDE DEF t
<1>7. QED
  BY <1>2, <1>5, <1>6, MainStep

LEMMA TryTerminateStep ==
  ASSUME Inv, TryTerminate
  PROVE  Inv'
<1> DEFINE s == State
           t == [State EXCEPT !.app = app']
<1>1. Good(s, rk_ops, rkcg_q, srv)
  BY DEF Inv
<1>2. /\ s.main.terminate /\ s.app.at = "close" /\ s.main.leaves = 0
      /\ UNCHANGED <<rk_ops, rkcg_q, leader, srv, faults>>
  BY DEF TryTerminate, State
<1>3. /\ DOMAIN t = {"app", "main", "rkb", "cb"} /\ t.main = s.main /\ t.rkb = s.rkb /\ t.cb = s.cb
      /\ t.app = [s.app EXCEPT !.at = "closed"]
  BY DEF TryTerminate, State
<1>4. Becomes(t)
  BY DEF TryTerminate, State, Becomes
<1> HIDE DEF s, t
<1>5. DOMAIN s.app = AppFields
  BY <1>1 DEF Good, Struct, Shape
<1>6. /\ DOMAIN t.app = AppFields /\ t.app.at = "closed" /\ t.app.requested = s.app.requested
      /\ t.app.map = s.app.map /\ t.app.typed = s.app.typed /\ t.app.synced = s.app.synced
      /\ t.app.result = s.app.result /\ t.app.built = s.app.built /\ t.app.given = s.app.given
  BY <1>3, <1>5 DEF AppFields
<1>7. \A b : OutOf(t, rk_ops, b) = OutOf(s, rk_ops, b)
  BY <1>3 DEF OutOf
<1>8. Struct(t, rk_ops)
  <2>1. Shape(t)
    BY <1>1, <1>3, <1>6 DEF Good, Struct, Shape, CallStates
  <2>2. QED
    BY <1>1, <1>3, <2>1 DEF Good, Struct
<1>9. FetchOK(t, rk_ops)
  BY <1>1, <1>3, <1>7 DEF Good, FetchOK, Fetching
<1>10. RequestOK(t, rk_ops, rkcg_q)
  <2>1. Responding(t, rkcg_q) <=> Responding(s, rkcg_q)
    BY <1>3 DEF Responding
  <2>2. QED
    BY <1>1, <1>6, <2>1 DEF Good, RequestOK
<1>11. DeliveryOK(t, rkcg_q, srv)
  BY <1>1, <1>3, <1>6 DEF Good, DeliveryOK
<1>12. AcksOK(t, rk_ops, srv, {})
  BY <1>1, <1>3, <1>6, <1>7 DEF Good, AcksOK, Held, AtOut
<1>13. TruthOK(t, rk_ops, srv)
  BY <1>1, <1>3, <1>6, <1>7 DEF Good, TruthOK
<1>14. SyncOK(t, rk_ops, srv)
  <2>1. \A o : Current(t, o) <=> Current(s, o)
    BY <1>3 DEF Current
  <2>2. Owing(t, rk_ops) = Owing(s, rk_ops)
    BY <1>3, <1>7, <2>1 DEF Owing
  <2>3. SyncPart(s, rk_ops, srv, 0, {})
    BY <1>1 DEF Good, SyncOK
  <2>4. s.main.sync.id = 0
    BY <1>2, <2>3 DEF SyncPart
  <2>5. QED
    BY <1>3, <1>6, <1>7, <2>1, <2>2, <2>3, <2>4 DEF SyncPart, SyncOK
<1>15. CallsOK(t, rk_ops, srv)
  BY <1>1, <1>2, <1>3, <1>6 DEF Good, CallsOK
<1>16. LeaveOK(t, rk_ops)
  BY <1>1, <1>2, <1>3, <1>6, <1>7 DEF Good, LeaveOK
<1>17. Good(t, rk_ops, rkcg_q, srv)
  BY <1>8, <1>9, <1>10, <1>11, <1>12, <1>13, <1>14, <1>15, <1>16 DEF Good
<1>18. QED
  BY <1>2, <1>4, <1>17, MainStep

LEMMA MetadataUpdateStep ==
  ASSUME Inv, MetadataUpdate
  PROVE  Inv'
<1>1. State' = State /\ UNCHANGED <<rk_ops, rkcg_q, srv, faults>> /\ leader' = srv.leader
  BY DEF MetadataUpdate, State
<1>2. Good(State, rk_ops, rkcg_q, srv)' <=> Good(State, rk_ops, rkcg_q, srv)
  BY <1>1
<1>3. ClusterOK(srv)' <=> ClusterOK(srv)
  BY <1>1
<1>4. QED
  BY <1>1, <1>2, <1>3 DEF Inv, ClusterOK

-----------------------------------------------------------------------------
(* The main thread: a broker is decommissioned. *)

\* What happens to the record of the broker.
Decommissioned(s, d, b) ==
  /\ Shape(d) /\ d.app = s.app /\ d.main = s.main /\ d.cb = s.cb
  /\ \A c \in Brokers \ {b} : d.rkb[c] = s.rkb[c]
  /\ DOMAIN d.rkb[b] = BrokerFields /\ d.rkb[b].enq = s.rkb[b].enq
  /\ d.rkb[b].pendid = s.rkb[b].pendid /\ d.rkb[b].epoch = s.rkb[b].epoch
  /\ d.rkb[b].sent = s.rkb[b].sent /\ d.rkb[b].resp = s.rkb[b].resp
  /\ d.rkb[b].term /\ d.rkb[b].async = {} /\ d.rkb[b].pend = {}
  /\ d.rkb[b].ops = Append(s.rkb[b].ops, [type |-> "TERMINATE"])

\* The acknowledgements that the broker's caches held are in the main thread's hand.
LEMMA DecommissionedOK ==
  ASSUME NEW s, NEW q, NEW w, NEW v, Good(s, q, w, v), NEW b \in Brokers, NEW d,
         Decommissioned(s, d, b),
         Overlap \/ ~s.rkb[b].enq \/ s.app.at # "close" \/ s.main.terminate
  PROVE  /\ Others(d, q, w, v, s.rkb[b].async \cup s.rkb[b].pend)
         /\ s.rkb[b].pend = {} => SyncPart(d, q, v, 0, {})
         /\ s.rkb[b].pend # {} => /\ SyncPart(d, q, v, 1, s.rkb[b].pend) /\ d.main.sync.id # 0
                                  /\ Whole(d.app.synced, s.rkb[b].pend)
<1> DEFINE hand == s.rkb[b].async \cup s.rkb[b].pend
<1>1. /\ d.app = s.app /\ d.main = s.main /\ d.cb = s.cb /\ Shape(d)
      /\ \A c \in Brokers \ {b} : d.rkb[c] = s.rkb[c]
      /\ d.rkb[b].enq = s.rkb[b].enq /\ d.rkb[b].resp = s.rkb[b].resp
      /\ d.rkb[b].term /\ d.rkb[b].async = {} /\ d.rkb[b].pend = {}
  BY DEF Decommissioned
<1>2. BrokerOK(s.rkb[b], q, b)
  BY DEF Good, Struct
<1>3. BrokerOK(d.rkb[b], q, b) /\ OutOf(d, q, b) = OutOf(s, q, b)
  <2> DEFINE x == s.rkb[b].ops
             f == [type |-> "TERMINATE"]
  <2>1. IsSeq(x) /\ Exclusive(x, s.rkb[b].sent, q, b) /\ f.type # "SHARE_FETCH"
        /\ f.type = "TERMINATE"
    BY <1>2 DEF BrokerOK
  <2> HIDE DEF f
  <2>2. /\ OutOps(Append(x, f), s.rkb[b].sent, q, b) = OutOps(x, s.rkb[b].sent, q, b)
        /\ Exclusive(Append(x, f), s.rkb[b].sent, q, b)
    BY <2>1, GiveOp
  <2>3. /\ IsSeq(Append(x, f)) /\ DOMAIN Append(x, f) = 1 .. Len(x) + 1
        /\ Append(x, f)[Len(x) + 1] = f /\ \A i \in DOMAIN x : Append(x, f)[i] = x[i]
        /\ DOMAIN x = 1 .. Len(x) /\ Len(x) \in Nat
    BY <2>1, AppendSeq, SeqFacts
  <2>4. \A i \in DOMAIN Append(x, f) : Append(x, f)[i].type \in {"SHARE_FETCH", "TERMINATE"}
    BY <1>2, <2>1, <2>3 DEF BrokerOK
  <2>5. d.rkb[b].ops = Append(x, f)
    BY DEF Decommissioned, f
  <2>7. Unanswered(Append(x, f))
    BY <1>2, <2>1, <2>3 DEF BrokerOK, Unanswered
  <2>6. QED
    BY <1>2, <2>2, <2>3, <2>4, <2>5, <2>7 DEF BrokerOK, Decommissioned, OutOf
<1>4. \A c \in Brokers : OutOf(d, q, c) = OutOf(s, q, c) /\ d.rkb[c].enq = s.rkb[c].enq
                         /\ d.rkb[c].resp = s.rkb[c].resp
  BY <1>1, <1>3 DEF OutOf
<1>5. Struct(d, q)
  BY <1>1, <1>3 DEF Good, Struct
<1>6. FetchOK(d, q)
  BY <1>1, <1>4 DEF Good, FetchOK, Fetching
<1>7. RequestOK(d, q, w) /\ DeliveryOK(d, w, v) /\ CallsOK(d, q, v)
  <2>1. SameCalls(s, d)
    BY <1>1, <1>4 DEF SameCalls
  <2>2. QED
    BY <2>1, SameCallsOK DEF Good
<1>8. TruthOK(d, q, v)
  BY <1>1, <1>4 DEF Good, TruthOK
<1>9. LeaveOK(d, q)
  <2>1. LeaveOK(s, q)
    BY DEF Good
  <2>2. \A c \in Brokers : d.rkb[c].term => d.rkb[c].async = {} /\ d.rkb[c].pend = {}
    BY <1>1, <2>1 DEF LeaveOK
  <2>3. d.main.terminate => \A c \in Brokers :
          d.rkb[c].async # {} => \E o \in OutOf(d, q, c) : ~o.leave
    BY <1>1, <1>4, <2>1 DEF LeaveOK
  <2>4. {c \in Brokers : d.rkb[c].enq} = {c \in Brokers : s.rkb[c].enq}
    BY <1>4
  <2>5. ~Overlap /\ d.app.at = "close" /\ ~d.main.terminate =>
          \A c \in Brokers : d.rkb[c].term => ~d.rkb[c].enq
    BY <1>1, <1>4, <2>1 DEF LeaveOK
  <2>6. QED
    BY <1>1, <1>4, <2>1, <2>2, <2>3, <2>4, <2>5 DEF LeaveOK
<1>10. AcksOK(d, q, v, hand)
  <2>1. AcksOK(s, q, v, {})
    BY DEF Good
  <2>2. \A c \in Brokers, r \in Records : AtOut(d, q, c, r) <=> AtOut(s, q, c, r)
    BY <1>4 DEF AtOut
  <2>3. \A c \in Brokers, r \in Records :
          /\ c # b => (Held(d, q, c, r) <=> Held(s, q, c, r))
          /\ Held(d, q, b, r) <=> AtOut(s, q, b, r)
          /\ Held(s, q, b, r) <=> Held(d, q, b, r) \/ r \in hand
    BY <1>1, <2>2 DEF Held
  <2>4. \A r \in Records : r \in hand => Held(s, q, b, r) /\ ~AtOut(s, q, b, r)
    BY <2>1 DEF AcksOK, Held
  <2> HIDE DEF hand
  <2>5. \A r \in Records : (r \in d.app.built /\ d.cb[r] = "none") <=>
           (r \in hand \/ InFanout(q, r) \/ \E c \in Brokers : Held(d, q, c, r))
    <3>1. TAKE r \in Records
    <3>2. (r \in s.app.built /\ s.cb[r] = "none") <=>
             (InFanout(q, r) \/ \E c \in Brokers : Held(s, q, c, r))
      BY <2>1 DEF AcksOK
    <3>3. (\E c \in Brokers : Held(s, q, c, r)) <=>
             (r \in hand \/ \E c \in Brokers : Held(d, q, c, r))
      BY <2>3, <2>4
    <3>4. QED
      BY <1>1, <3>2, <3>3
  <2>6. \A c \in Brokers, r \in Records : Held(d, q, c, r) =>
          /\ v.by[r] = c /\ r \notin hand /\ ~InFanout(q, r)
          /\ ~(r \in d.rkb[c].async /\ r \in d.rkb[c].pend)
          /\ ~(r \in d.rkb[c].async /\ AtOut(d, q, c, r))
          /\ ~(r \in d.rkb[c].pend /\ AtOut(d, q, c, r))
    <3>1. TAKE c \in Brokers, r \in Records
    <3>2. HAVE Held(d, q, c, r)
    <3>3. Held(s, q, c, r) /\ v.by[r] = c /\ ~InFanout(q, r)
      BY <2>1, <2>3, <3>2 DEF AcksOK
    <3>4. r \notin hand
      <4>1. CASE c = b
        BY <2>3, <2>4, <3>2, <4>1
      <4>2. CASE c # b
        <5>1. r \in hand => v.by[r] = b
          BY <2>1, <2>4 DEF AcksOK
        <5>2. QED
          BY <3>3, <4>2, <5>1
      <4>3. QED
        BY <4>1, <4>2
    <3>5. /\ ~(r \in d.rkb[c].async /\ r \in d.rkb[c].pend)
          /\ ~(r \in d.rkb[c].async /\ AtOut(d, q, c, r))
          /\ ~(r \in d.rkb[c].pend /\ AtOut(d, q, c, r))
      BY <1>1, <2>1, <2>2, <3>3 DEF AcksOK
    <3>6. QED
      BY <3>3, <3>4, <3>5
  <2>7. \A r \in Records : InFanout(q, r) => r \notin hand
    BY <2>1, <2>4 DEF AcksOK
  <2>8. QED
    BY <1>1, <2>1, <2>5, <2>6, <2>7 DEF AcksOK
<1>11. Others(d, q, w, v, hand)
  BY <1>5, <1>6, <1>7, <1>8, <1>9, <1>10 DEF Others
<1>12. SyncPart(s, q, v, 0, {})
  BY DEF Good, SyncOK
<1>13. \A o : Current(d, o) <=> Current(s, o)
  BY <1>1 DEF Current
<1>14. CASE s.rkb[b].pend = {}
  <2>1. \A c \in Brokers : d.rkb[c].pend = s.rkb[c].pend
    BY <1>1, <1>14
  <2>2. Owing(d, q) = Owing(s, q)
    BY <1>4, <1>13, <2>1 DEF Owing
  <2>3. \A c \in Brokers : d.rkb[c].pendid = s.rkb[c].pendid
    BY <1>1 DEF Decommissioned
  <2>4. SyncPart(d, q, v, 0, {})
    BY <1>1, <1>4, <1>12, <1>13, <2>1, <2>2, <2>3 DEF SyncPart
  <2>5. QED
    BY <1>11, <1>14, <2>4
<1>15. CASE s.rkb[b].pend # {}
  <2> DEFINE back == s.rkb[b].pend
  <2>1. Owing(d, q) = Owing(s, q) \ {b} /\ b \in Owing(s, q)
    <3>1. \A o \in OutOf(s, q, b) : ~Current(s, o)
      BY <1>12, <1>15 DEF SyncPart
    <3>2. ASSUME NEW c \in Brokers
          PROVE  c \in Owing(d, q) <=> c # b /\ c \in Owing(s, q)
      <4>1. CASE c = b
        BY <1>1, <1>4, <1>13, <3>1, <4>1 DEF Owing
      <4>2. CASE c # b
        BY <1>1, <1>4, <1>13, <4>2 DEF Owing
      <4>3. QED
        BY <4>1, <4>2
    <3>3. Owing(d, q) \subseteq Brokers /\ Owing(s, q) \subseteq Brokers /\ b \in Owing(s, q)
      BY <1>15 DEF Owing
    <3>4. QED
      BY <3>2, <3>3
  <2>2. Cardinality(Owing(s, q)) = Cardinality(Owing(d, q)) + 1 /\ Cardinality(Owing(d, q)) \in Nat
    <3>1. IsFiniteSet(Owing(s, q))
      <4>1. Owing(s, q) \subseteq Brokers
        BY DEF Owing
      <4>2. QED
        BY <4>1, ShareSets, FS_Subset
    <3>2. IsFiniteSet(Owing(d, q)) /\ Cardinality(Owing(d, q)) = Cardinality(Owing(s, q)) - 1
      BY <2>1, <3>1, FS_RemoveElement
    <3>3. QED
      BY <3>1, <3>2, FS_CardinalityType
  <2>3. d.main.sync.cnt = Cardinality(Owing(d, q)) + 1
    BY <1>1, <1>12, <2>2 DEF SyncPart
  <2>4. \A c \in Brokers :
          /\ d.rkb[c].pend # {} => d.rkb[c] = s.rkb[c]
          /\ c # b => d.rkb[c].pend = s.rkb[c].pend
    BY <1>1
  <2>5. \A p \in Partitions : d.main.sync.results[p] = "in_progress" =>
            \/ p \in Parts(back)
            \/ \E c \in Brokers : \/ p \in Parts(d.rkb[c].pend)
                                  \/ \E o \in OutOf(d, q, c) : Current(d, o) /\ p \in Parts(o.acks)
    <3>1. TAKE p \in Partitions
    <3>2. HAVE d.main.sync.results[p] = "in_progress"
    <3>3. p \notin Parts({})
      BY DEF Parts
    <3>4. PICK c \in Brokers : \/ p \in Parts(s.rkb[c].pend)
                               \/ \E o \in OutOf(s, q, c) : Current(s, o) /\ p \in Parts(o.acks)
      BY <1>1, <1>12, <3>2, <3>3 DEF SyncPart
    <3>5. QED
      BY <1>4, <1>13, <2>4, <3>4
  <2>6. /\ d.main.sync.id # 0 /\ Whole(d.app.synced, back)
    BY <1>1, <1>12, <1>15 DEF SyncPart
  <2>7. SyncPart(d, q, v, 1, back)
    BY <1>1, <1>4, <1>12, <1>13, <2>3, <2>4, <2>5 DEF SyncPart
  <2>8. QED
    BY <1>11, <1>15, <2>6, <2>7
<1>16. QED
  BY <1>14, <1>15

\* Callbacks and results neither read nor change the brokers.
Agree(x, y) ==
  /\ DOMAIN x = {"app", "main", "rkb", "cb"} /\ DOMAIN y = DOMAIN x
  /\ x.app = y.app /\ x.main = y.main /\ x.cb = y.cb

LEMMA CallbacksAgree ==
  ASSUME NEW x, NEW y, Agree(x, y), NEW acks, NEW code
  PROVE  /\ Agree(DispatchAckCallbacks(x, acks, code), DispatchAckCallbacks(y, acks, code))
         /\ DispatchAckCallbacks(x, acks, code).rkb = x.rkb
         /\ DispatchAckCallbacks(y, acks, code).rkb = y.rkb
<1> DEFINE F == [r \in Records |-> IF r \notin acks THEN x.cb[r]
                                   ELSE IF x.cb[r] = "none" THEN code[r[1]] ELSE "twice"]
           G == [r \in Records |-> IF r \notin acks THEN y.cb[r]
                                   ELSE IF y.cb[r] = "none" THEN code[r[1]] ELSE "twice"]
           a == DispatchAckCallbacks(x, acks, code)
           b == DispatchAckCallbacks(y, acks, code)
<1>1. a = [x EXCEPT !.cb = F] /\ b = [y EXCEPT !.cb = G]
  BY DEF DispatchAckCallbacks
<1>2. F = G
  BY DEF Agree
<1> HIDE DEF F, G, a, b
<1>3. QED
  BY <1>1, <1>2 DEF Agree, a, b

LEMMA SendResponseAgree ==
  ASSUME NEW x, NEW y, Agree(x, y)
  PROVE  /\ Agree(SendResponse(x), SendResponse(y))
         /\ SendResponse(x).rkb = x.rkb /\ SendResponse(y).rkb = y.rkb
<1> DEFINE A == [x.app EXCEPT !.at = "idle", !.result = x.main.sync.results]
           M == [x.main EXCEPT !.sync = NoSync]
           a == SendResponse(x)
           b == SendResponse(y)
<1>1. DOMAIN a = DOMAIN x /\ a.app = A /\ a.main = M /\ a.cb = x.cb /\ a.rkb = x.rkb
  BY DEF Agree, SendResponse
<1>2. DOMAIN b = DOMAIN x /\ b.app = A /\ b.main = M /\ b.cb = x.cb /\ b.rkb = y.rkb
  BY DEF Agree, SendResponse
<1> HIDE DEF a, b, A, M
<1>3. QED
  BY <1>1, <1>2 DEF Agree, a, b

LEMMA ApplyResultAgree ==
  ASSUME NEW x, NEW y, Agree(x, y), NEW acks, NEW code
  PROVE  /\ Agree(ApplyResult(x, acks, code), ApplyResult(y, acks, code))
         /\ ApplyResult(x, acks, code).rkb = x.rkb /\ ApplyResult(y, acks, code).rkb = y.rkb
<1> DEFINE R(s) == [p \in Partitions |->
                     IF p \in Parts(acks) /\ s.main.sync.results[p] # "absent" THEN code[p]
                     ELSE s.main.sync.results[p]]
           u(s) == [s EXCEPT !.main.sync.cnt = @ - 1, !.main.sync.results = R(s)]
           a == u(x)
           b == u(y)
<1>1. /\ ApplyResult(x, acks, code) = IF a.main.sync.cnt > 0 THEN a ELSE SendResponse(a)
      /\ ApplyResult(y, acks, code) = IF b.main.sync.cnt > 0 THEN b ELSE SendResponse(b)
  BY DEF ApplyResult
<1>2. R(x) = R(y)
  BY DEF Agree
<1> DEFINE Q == R(x)
           M == [x.main EXCEPT !.sync.cnt = @ - 1, !.sync.results = Q]
<1>3. b = [y EXCEPT !.main.sync.cnt = @ - 1, !.main.sync.results = Q]
  BY <1>2, Zenon
<1>4. a = [x EXCEPT !.main.sync.cnt = @ - 1, !.main.sync.results = Q]
  BY Zenon
<1> HIDE DEF Q, a, b
<1>5. DOMAIN a = DOMAIN x /\ a.app = x.app /\ a.cb = x.cb /\ a.rkb = x.rkb /\ a.main = M
  BY <1>4 DEF Agree
<1>6. DOMAIN b = DOMAIN y /\ b.app = y.app /\ b.cb = y.cb /\ b.rkb = y.rkb /\ b.main = M
  BY <1>3 DEF Agree
<1> HIDE DEF M
<1>7. Agree(a, b) /\ a.main.sync.cnt = b.main.sync.cnt
  BY <1>5, <1>6 DEF Agree
<1>8. CASE a.main.sync.cnt > 0
  BY <1>1, <1>5, <1>6, <1>7, <1>8
<1>9. CASE ~(a.main.sync.cnt > 0)
  <2>1. ApplyResult(x, acks, code) = SendResponse(a) /\ ApplyResult(y, acks, code) = SendResponse(b)
    BY <1>1, <1>7, <1>9
  <2>2. QED
    BY <1>5, <1>6, <1>7, <2>1, SendResponseAgree
<1>10. QED
  BY <1>8, <1>9

Gone(s, b) ==
  [s EXCEPT !.rkb[b].term = TRUE, !.rkb[b].async = {}, !.rkb[b].pend = {},
            !.rkb[b].ops = Append(@, [type |-> "TERMINATE"])]

LEMMA GoneDoes ==
  ASSUME NEW s, Shape(s), NEW b \in Brokers, DOMAIN s.rkb[b] = BrokerFields
  PROVE  Decommissioned(s, Gone(s, b), b)
<1> DEFINE k == [s.rkb[b] EXCEPT !.term = TRUE, !.async = {}, !.pend = {},
                                 !.ops = Append(@, [type |-> "TERMINATE"])]
           d == Gone(s, b)
<1>1. DOMAIN s = {"app", "main", "rkb", "cb"} /\ DOMAIN s.rkb = Brokers
  BY DEF Shape
<1>2. /\ DOMAIN d = DOMAIN s /\ d.app = s.app /\ d.main = s.main /\ d.cb = s.cb
      /\ d.rkb = [s.rkb EXCEPT ![b] = k]
  BY <1>1 DEF Gone
<1>3. /\ DOMAIN k = BrokerFields /\ k.enq = s.rkb[b].enq /\ k.pendid = s.rkb[b].pendid
      /\ k.epoch = s.rkb[b].epoch /\ k.sent = s.rkb[b].sent /\ k.resp = s.rkb[b].resp
      /\ k.term /\ k.async = {} /\ k.pend = {}
      /\ k.ops = Append(s.rkb[b].ops, [type |-> "TERMINATE"])
  BY DEF BrokerFields
<1> HIDE DEF d, k
<1>4. DOMAIN d.rkb = Brokers /\ d.rkb[b] = k /\ \A c \in Brokers \ {b} : d.rkb[c] = s.rkb[c]
  BY <1>1, <1>2
<1>5. Shape(d)
  BY <1>1, <1>2, <1>4 DEF Shape
<1>6. QED
  BY <1>2, <1>3, <1>4, <1>5 DEF Decommissioned, d

LEMMA GoneAfter ==
  ASSUME NEW s, NEW t, NEW y, NEW b, Agree(t, y), Shape(s), t.rkb = s.rkb, y.rkb = Gone(s, b).rkb
  PROVE  SameFields(Gone(t, b), y)
<1> DEFINE K == [s.rkb EXCEPT ![b].term = TRUE, ![b].async = {}, ![b].pend = {},
                              ![b].ops = Append(@, [type |-> "TERMINATE"])]
           u == Gone(t, b)
           d == Gone(s, b)
<1>1. d.rkb = K
  BY DEF Gone, Shape
<1>2. DOMAIN u = DOMAIN t /\ u.app = t.app /\ u.main = t.main /\ u.cb = t.cb /\ u.rkb = K
  BY DEF Gone, Agree
<1> HIDE DEF K, u, d
<1>3. y.rkb = K
  BY <1>1 DEF d
<1>4. QED
  BY <1>2, <1>3 DEF Agree, SameFields, u

LEMMA DecommissionStep ==
  ASSUME Inv, NEW b \in Brokers, Decommission(b)
  PROVE  Inv'
<1> DEFINE s == State
           async == rkb[b].async
           pend == rkb[b].pend
           s1 == DispatchAckCallbacks(s, async, AllErr)
           s2 == ApplyResult(s1, pend, AllErr)
           s3 == DispatchAckCallbacks(s2, pend, AllErr)
           t == IF pend = {} THEN s1 ELSE s3
           d == Gone(s, b)
           d1 == DispatchAckCallbacks(d, async, AllErr)
           d2 == ApplyResult(d1, pend, AllErr)
           d3 == DispatchAckCallbacks(d2, pend, AllErr)
           q == rk_ops
           w == rkcg_q
<1>1. /\ Overlap \/ ~rkb[b].enq \/ app.at # "close" \/ main.terminate
      /\ UNCHANGED <<rk_ops, rkcg_q, leader, srv, faults>>
  BY Zenon DEF Decommission
<1>2. Becomes(Gone(t, b))
  BY Zenon DEF Decommission, Gone
<1>3. /\ Good(s, q, w, srv) /\ s.rkb[b].async = async /\ s.rkb[b].pend = pend
      /\ Overlap \/ ~s.rkb[b].enq \/ s.app.at # "close" \/ s.main.terminate
  BY <1>1 DEF Inv, State
<1> HIDE DEF s, async, pend, q, w
<1>4. Shape(s) /\ DOMAIN s.rkb[b] = BrokerFields /\ async \subseteq Records /\ pend \subseteq Records
  BY <1>3 DEF Good, Struct, BrokerOK
<1>5. Decommissioned(s, d, b)
  BY <1>4, GoneDoes
<1> HIDE DEF d
<1>6. /\ Others(d, q, w, srv, async \cup pend)
      /\ pend = {} => SyncPart(d, q, srv, 0, {})
      /\ pend # {} => /\ SyncPart(d, q, srv, 1, pend) /\ d.main.sync.id # 0
                      /\ Whole(d.app.synced, pend)
  BY <1>3, <1>5, DecommissionedOK
<1>7. (async \cup pend) \ async = pend
  <2>1. \A r \in Records : ~(r \in async /\ r \in pend)
    BY <1>3 DEF Good, AcksOK, Held
  <2>2. QED
    BY <1>4, <2>1
<1>8. Told(srv, async, AllErr) /\ Told(srv, pend, AllErr)
  <2>1. \A r \in async \cup pend : AllErr[r[1]] = "err"
    BY <1>4, RecordType DEF AllErr
  <2>2. QED
    BY <1>4, <2>1 DEF Told
<1>9. Agree(s, d)
  BY <1>4, <1>5 DEF Agree, Decommissioned, Shape
<1>10. Agree(s1, d1) /\ s1.rkb = s.rkb /\ d1.rkb = d.rkb
  BY <1>9, CallbacksAgree
<1> DEFINE hand == async \cup pend
<1>11. hand \in SUBSET Records /\ async \in SUBSET hand /\ Others(d, q, w, srv, hand)
       /\ hand \ async = pend
  BY <1>4, <1>6, <1>7
<1> HIDE DEF hand
<1>12. CASE pend = {}
  <2>1. SyncPart(d, q, srv, 0, {})
    BY <1>6, <1>12
  <2>2. Others(d1, q, w, srv, hand \ async) /\ SyncPart(d1, q, srv, 0, {})
    BY <1>8, <1>11, <2>1, CallbacksOK
  <2>3. t = s1
    BY <1>12
  <2> HIDE DEF d1, s1, t
  <2>4. Good(d1, q, w, srv)
    BY <1>11, <1>12, <2>2, GoodIs DEF SyncOK
  <2>5. SameFields(Gone(t, b), d1)
    BY <1>4, <1>10, <2>3, GoneAfter DEF d
  <2>6. Good(Gone(t, b), q, w, srv)
    BY <2>4, <2>5, GoodFields DEF SameFields
  <2>7. Good(Gone(t, b), rk_ops', rkcg_q', srv)
    BY <1>1, <2>6 DEF q, w
  <2>8. QED
    BY <1>1, <1>2, <2>7, MainStep
<1>13. CASE pend # {}
  <2>1. SyncPart(d, q, srv, 1, pend) /\ d.main.sync.id # 0 /\ Whole(d.app.synced, pend)
    BY <1>6, <1>13
  <2>2. Others(d1, q, w, srv, hand \ async) /\ SyncPart(d1, q, srv, 1, pend)
    BY <1>8, <1>11, <2>1, CallbacksOK
  <2>3. d1.app = d.app /\ d1.main = d.main
    BY <1>9 DEF DispatchAckCallbacks, Agree
  <2>4. t = s3
    BY <1>13
  <2> HIDE DEF d1, s1, t
  <2>5. Others(d1, q, w, srv, pend) /\ d1.main.sync.id # 0 /\ Whole(d1.app.synced, pend)
    BY <1>11, <2>1, <2>2, <2>3
  <2>6. \A r \in pend : AllErr[r[1]] \in {"ok", "err"} /\ (AllErr[r[1]] = "ok" => srv.lock[r] = "done")
    BY <1>8 DEF Told
  <2>7. Others(d2, q, w, srv, pend) /\ SyncOK(d2, q, srv)
    BY <2>2, <2>5, <2>6, ApplyResultOK
  <2>8. Agree(s2, d2) /\ s2.rkb = s1.rkb /\ d2.rkb = d1.rkb
    BY <1>10, ApplyResultAgree
  <2> HIDE DEF d2, s2
  <2>9. Agree(s3, d3) /\ s3.rkb = s2.rkb /\ d3.rkb = d2.rkb
    BY <2>8, CallbacksAgree
  <2>10. SyncPart(d2, q, srv, 0, {})
    BY <2>7 DEF SyncOK
  <2>11. Others(d3, q, w, srv, {})
    BY <1>8, <2>7, <2>10, CallbacksAll
  <2>12. SyncPart(d3, q, srv, 0, {})
    BY <1>8, <2>7, <2>10, CallbacksAll
  <2> HIDE DEF d3, s3
  <2>13. Good(d3, q, w, srv)
    BY <2>11, <2>12, GoodIs DEF SyncOK
  <2>14. SameFields(Gone(t, b), d3)
    BY <1>4, <1>10, <2>4, <2>8, <2>9, GoneAfter DEF d
  <2>15. Good(Gone(t, b), q, w, srv)
    BY <2>13, <2>14, GoodFields DEF SameFields
  <2>16. Good(Gone(t, b), rk_ops', rkcg_q', srv)
    BY <1>1, <2>15 DEF q, w
  <2>17. QED
    BY <1>1, <1>2, <2>16, MainStep
<1>14. QED
  BY <1>12, <1>13

-----------------------------------------------------------------------------
(* The brokers: what the cluster did stays done. *)

Grows(v, v1) ==
  \A r \in Records : /\ Known(v, r) => Known(v1, r) /\ v1.by[r] = v.by[r]
                     /\ v.lock[r] = "done" => v1.lock[r] = "done"

LEMMA GrowsOK ==
  ASSUME NEW s, NEW q, NEW w, NEW v, NEW v1, Good(s, q, w, v), Grows(v, v1)
  PROVE  Good(s, q, w, v1)
<1>1. /\ Struct(s, q) /\ FetchOK(s, q) /\ RequestOK(s, q, w) /\ DeliveryOK(s, w, v)
      /\ AcksOK(s, q, v, {}) /\ TruthOK(s, q, v) /\ SyncPart(s, q, v, 0, {}) /\ CallsOK(s, q, v)
      /\ LeaveOK(s, q)
  BY DEF Good, SyncOK
<1>2. ASSUME NEW S, S \subseteq Records, \A r \in S : Known(v, r), SameSource(v, S)
      PROVE  SameSource(v1, S)
  BY <1>2 DEF SameSource, Grows
<1>3. \A r \in s.app.given : r \in Records /\ Known(v, r) /\ Known(v1, r)
  BY <1>1 DEF DeliveryOK, Grows
<1>4. s.app.map \subseteq s.app.given /\ s.app.built \subseteq s.app.given
  BY <1>1 DEF DeliveryOK
<1>5. DeliveryOK(s, w, v1)
  <2>1. SameSource(v1, s.app.map)
    <3>1. s.app.map \subseteq Records /\ (\A r \in s.app.map : Known(v, r)) /\ SameSource(v, s.app.map)
      BY <1>1, <1>3, <1>4 DEF DeliveryOK
    <3>2. QED
      BY <1>2, <3>1
  <2>2. ASSUME NEW i \in DOMAIN w
        PROVE  (\A r \in w[i] : Known(v1, r)) /\ SameSource(v1, w[i])
    <3>1. w[i] \subseteq Records /\ (\A r \in w[i] : Known(v, r)) /\ SameSource(v, w[i])
      BY <1>1 DEF DeliveryOK
    <3>2. SameSource(v1, w[i])
      BY <1>2, <3>1
    <3>3. QED
      BY <3>1, <3>2 DEF Grows
  <2>3. ASSUME NEW b \in Brokers, s.rkb[b].resp # None
        PROVE  \A r \in s.rkb[b].resp : Known(v1, r) /\ v1.by[r] = b
    <3>1. s.rkb[b].resp \subseteq Records
      BY <1>1, <2>3 DEF Struct, BrokerOK
    <3>2. \A r \in s.rkb[b].resp : Known(v, r) /\ v.by[r] = b
      BY <1>1, <2>3 DEF DeliveryOK
    <3>3. QED
      BY <3>1, <3>2 DEF Grows
  <2>4. QED
    BY <1>1, <1>3, <2>1, <2>2, <2>3 DEF DeliveryOK
<1>6. AcksOK(s, q, v1, {})
  <2>1. ASSUME NEW b \in Brokers, NEW r \in Records, Held(s, q, b, r)
        PROVE  v1.by[r] = b
    <3>1. v.by[r] = b /\ r \in s.app.built
      BY <1>1, <2>1 DEF AcksOK
    <3>2. QED
      BY <1>3, <1>4, <3>1 DEF Grows
  <2>2. QED
    BY <1>1, <2>1 DEF AcksOK
<1>7. TruthOK(s, q, v1)
  <2>1. s.app.synced \subseteq Records
    BY <1>1 DEF SyncPart
  <2>2. \A b \in Brokers : \A o \in OutOf(s, q, b) : CodesTrue(v1, o)
    <3>1. TAKE b \in Brokers
    <3>2. TAKE o \in OutOf(s, q, b)
    <3>3. o.acks \subseteq Records /\ CodesTrue(v, o)
      BY <1>1 DEF Struct, BrokerOK, OutOf, IsOp, TruthOK
    <3>4. QED
      BY <3>3 DEF CodesTrue, Grows
  <2>3. QED
    BY <1>1, <2>1, <2>2 DEF TruthOK, Grows
<1>8. SyncPart(s, q, v1, 0, {})
  <2>1. \A p \in Partitions : s.main.sync.results[p] = "ok" =>
          \A r \in s.app.synced : r[1] = p => v1.lock[r] = "done"
    BY <1>1 DEF SyncPart, Grows
  <2>2. QED
    BY <1>1, <2>1 DEF SyncPart
<1>9. CallsOK(s, q, v1)
  <2>1. ASSUME NEW i \in DOMAIN q, q[i].type = "COMMIT_SYNC_FANOUT"
        PROVE  SameSource(v1, q[i].acks)
    <3>1. q[i].acks \subseteq s.app.built /\ SameSource(v, q[i].acks)
      BY <1>1, <2>1 DEF CallsOK, SyncPart
    <3>2. q[i].acks \subseteq Records /\ \A r \in q[i].acks : Known(v, r)
      BY <1>3, <1>4, <3>1
    <3>3. QED
      BY <1>2, <3>1, <3>2
  <2>2. QED
    BY <1>1, <2>1 DEF CallsOK
<1>10. QED
  BY <1>1, <1>5, <1>6, <1>7, <1>8, <1>9 DEF Good, SyncOK

-----------------------------------------------------------------------------
(* The brokers: an op on its way. *)

SameOp(o, o1) ==
  (o1.fetch <=> o.fetch) /\ (o1.leave <=> o.leave) /\ o1.sync = o.sync /\ o1.acks = o.acks
Kept(O, P) ==
  (\A o1 \in P : \E o \in O : SameOp(o, o1)) /\ (\A o \in O : \E o1 \in P : SameOp(o, o1))

\* The queue q has become z.
MoreReplies(q, z) ==
  /\ \A i \in DOMAIN q : i \in DOMAIN z /\ z[i] = q[i]
  /\ \A i \in DOMAIN z : i \in DOMAIN q \/ (z[i].type = "REPLY" /\ \A j \in DOMAIN q : ~(i < j))

\* Records that the application is to have.
Fresh(s, w, v, b, S) ==
  /\ S \cap s.app.given = {} /\ \A i \in DOMAIN w : w[i] \cap S = {}
  /\ \A r \in S : Known(v, r) /\ v.by[r] = b

\* The op of broker b, if it has one, goes on.
OpMoves(s, t, q, z, w, v, b) ==
  /\ Struct(t, z) /\ t.app = s.app /\ t.main = s.main /\ t.cb = s.cb
  /\ \A d \in Brokers \ {b} : t.rkb[d] = s.rkb[d] /\ OutOf(t, z, d) = OutOf(s, q, d)
  /\ (t.rkb[b].enq <=> s.rkb[b].enq) /\ t.rkb[b].async = s.rkb[b].async
  /\ t.rkb[b].pend = s.rkb[b].pend /\ t.rkb[b].pendid = s.rkb[b].pendid
  /\ (t.rkb[b].term <=> s.rkb[b].term)
  /\ Kept(OutOf(s, q, b), OutOf(t, z, b))
  /\ \A o \in OutOf(t, z, b) : CodesTrue(v, o)
  /\ MoreReplies(q, z)
  /\ \A i \in DOMAIN z : i \in DOMAIN q \/
       /\ \A r \in z[i].op.acks : z[i].op.code[r[1]] # "in_progress"
       /\ z[i].op.records => t.rkb[b].resp # None
  /\ t.rkb[b].resp # s.rkb[b].resp =>
       s.rkb[b].resp = None /\ Fresh(s, w, v, b, t.rkb[b].resp)

LEMMA OpMovesOK ==
  ASSUME NEW s, NEW t, NEW q, NEW z, NEW w, NEW v, NEW b \in Brokers, Good(s, q, w, v),
         OpMoves(s, t, q, z, w, v, b)
  PROVE  Good(t, z, w, v)
<1>1. /\ Struct(t, z) /\ t.app = s.app /\ t.main = s.main /\ t.cb = s.cb
      /\ \A d \in Brokers \ {b} : t.rkb[d] = s.rkb[d] /\ OutOf(t, z, d) = OutOf(s, q, d)
      /\ Kept(OutOf(s, q, b), OutOf(t, z, b)) /\ MoreReplies(q, z)
  BY DEF OpMoves
<1>2. \A d \in Brokers :
        /\ (t.rkb[d].enq <=> s.rkb[d].enq) /\ t.rkb[d].async = s.rkb[d].async
        /\ t.rkb[d].pend = s.rkb[d].pend /\ t.rkb[d].pendid = s.rkb[d].pendid
        /\ (t.rkb[d].term <=> s.rkb[d].term)
  BY <1>1 DEF OpMoves
<1>3. \A d \in Brokers : Kept(OutOf(s, q, d), OutOf(t, z, d))
  <2>1. \A O : Kept(O, O)
    BY DEF Kept, SameOp
  <2>2. QED
    BY <1>1, <2>1
<1>4. /\ Struct(s, q) /\ FetchOK(s, q) /\ RequestOK(s, q, w) /\ DeliveryOK(s, w, v)
      /\ AcksOK(s, q, v, {}) /\ TruthOK(s, q, v) /\ SyncPart(s, q, v, 0, {}) /\ CallsOK(s, q, v)
      /\ LeaveOK(s, q)
  BY DEF Good, SyncOK
<1>5. FetchOK(t, z)
  <2>1. \A d \in Brokers : (\E o \in OutOf(t, z, d) : o.fetch) <=> (\E o \in OutOf(s, q, d) : o.fetch)
    BY <1>3 DEF Kept, SameOp
  <2>2. Fetching(t, z) = Fetching(s, q)
    BY <2>1 DEF Fetching
  <2>3. QED
    BY <1>1, <1>4, <2>2 DEF FetchOK
<1>6. Responding(s, w) => Responding(t, w)
  <2>1. \A d \in Brokers : s.rkb[d].resp # None => t.rkb[d].resp # None
    BY <1>1 DEF OpMoves
  <2>2. QED
    BY <2>1 DEF Responding
<1>7. RequestOK(t, z, w)
  <2>1. ASSUME NEW i \in DOMAIN z, z[i].type = "REPLY", z[i].op.records, t.app.requested
        PROVE  Responding(t, w) \/ \E j \in DOMAIN z : i < j /\ IsRequest(z[j])
    <3>1. CASE i \in DOMAIN q
      <4>1. z[i] = q[i]
        BY <1>1, <3>1 DEF MoreReplies
      <4>2. Responding(s, w) \/ \E j \in DOMAIN q : i < j /\ IsRequest(q[j])
        BY <1>1, <1>4, <2>1, <3>1, <4>1 DEF RequestOK
      <4>3. QED
        BY <1>1, <1>6, <4>2 DEF MoreReplies
    <3>2. CASE i \notin DOMAIN q
      BY <2>1, <3>2 DEF OpMoves, Responding
    <3>3. QED
      BY <3>1, <3>2
  <2>2. (\E i \in DOMAIN q : IsRequest(q[i])) => \E i \in DOMAIN z : IsRequest(z[i])
    BY <1>1 DEF MoreReplies
  <2>3. QED
    BY <1>1, <1>4, <1>6, <2>1, <2>2 DEF RequestOK
<1>8. DeliveryOK(t, w, v)
  <2>1. ASSUME NEW d \in Brokers, t.rkb[d].resp # None
        PROVE  /\ t.rkb[d].resp \cap t.app.given = {}
               /\ \A r \in t.rkb[d].resp : Known(v, r) /\ v.by[r] = d
               /\ \A i \in DOMAIN w : w[i] \cap t.rkb[d].resp = {}
    <3>1. CASE t.rkb[d].resp = s.rkb[d].resp
      BY <1>1, <1>4, <2>1, <3>1 DEF DeliveryOK
    <3>2. CASE t.rkb[d].resp # s.rkb[d].resp
      <4>1. d = b
        BY <1>1, <3>2
      <4>2. QED
        BY <1>1, <3>2, <4>1 DEF OpMoves, Fresh
    <3>3. QED
      BY <3>1, <3>2
  <2>2. QED
    BY <1>1, <1>4, <2>1 DEF DeliveryOK
<1>9. AcksOK(t, z, v, {})
  <2>1. \A d \in Brokers : \A r : AtOut(t, z, d, r) <=> AtOut(s, q, d, r)
    BY <1>3 DEF Kept, SameOp, AtOut
  <2>2. \A d \in Brokers : \A r : Held(t, z, d, r) <=> Held(s, q, d, r)
    BY <1>2, <2>1 DEF Held
  <2>3. \A r : InFanout(z, r) <=> InFanout(q, r)
    BY <1>1 DEF MoreReplies, InFanout
  <2>4. \A i, j \in DOMAIN z :
          z[i].type # "REPLY" /\ z[j].type # "REPLY" /\ i # j => z[i].acks \cap z[j].acks = {}
    <3>1. TAKE i, j \in DOMAIN z
    <3>2. HAVE z[i].type # "REPLY" /\ z[j].type # "REPLY" /\ i # j
    <3>3. i \in DOMAIN q /\ j \in DOMAIN q /\ z[i] = q[i] /\ z[j] = q[j]
      BY <1>1, <3>2 DEF MoreReplies
    <3>4. QED
      BY <1>4, <3>2, <3>3 DEF AcksOK
  <2>5. \A d \in Brokers, r \in Records : Held(t, z, d, r) =>
          /\ v.by[r] = d /\ r \notin {} /\ ~InFanout(z, r)
          /\ ~(r \in t.rkb[d].async /\ r \in t.rkb[d].pend)
          /\ ~(r \in t.rkb[d].async /\ AtOut(t, z, d, r))
          /\ ~(r \in t.rkb[d].pend /\ AtOut(t, z, d, r))
    BY <1>2, <1>4, <2>1, <2>2, <2>3 DEF AcksOK
  <2>6. \A r \in Records : (r \in t.app.built /\ t.cb[r] = "none") <=>
           (r \in {} \/ InFanout(z, r) \/ \E d \in Brokers : Held(t, z, d, r))
    BY <1>1, <1>4, <2>2, <2>3 DEF AcksOK
  <2>7. QED
    BY <1>1, <1>4, <2>4, <2>5, <2>6 DEF AcksOK
<1>10. TruthOK(t, z, v)
  <2>1. \A d \in Brokers : \A o \in OutOf(t, z, d) : CodesTrue(v, o)
    BY <1>1, <1>4 DEF TruthOK, OpMoves
  <2>2. \A i \in DOMAIN z : z[i].type = "REPLY" =>
          \A r \in z[i].op.acks : z[i].op.code[r[1]] # "in_progress"
    <3>1. TAKE i \in DOMAIN z
    <3>2. CASE i \in DOMAIN q
      <4>1. z[i] = q[i]
        BY <1>1, <3>2 DEF MoreReplies
      <4>2. QED
        BY <1>4, <3>2, <4>1 DEF TruthOK
    <3>3. CASE i \notin DOMAIN q
      BY <3>3 DEF OpMoves
    <3>4. QED
      BY <3>2, <3>3
  <2>3. QED
    BY <1>1, <1>4, <2>1, <2>2 DEF TruthOK
<1>11. SyncPart(t, z, v, 0, {})
  <2>1. \A o : Current(t, o) <=> Current(s, o)
    BY <1>1 DEF Current
  <2>2. \A d \in Brokers :
          /\ (\E o \in OutOf(t, z, d) : Current(t, o)) <=> (\E o \in OutOf(s, q, d) : Current(s, o))
          /\ \A p : (\E o \in OutOf(s, q, d) : Current(s, o) /\ p \in Parts(o.acks)) =>
                    (\E o \in OutOf(t, z, d) : Current(t, o) /\ p \in Parts(o.acks))
    <3>1. \A o, o1 : SameOp(o, o1) => (Current(t, o1) <=> Current(s, o)) /\ o1.acks = o.acks
      BY <1>1 DEF SameOp, Current
    <3>2. QED
      BY <1>3, <3>1 DEF Kept
  <2>3. Owing(t, z) = Owing(s, q)
    BY <1>2, <2>2 DEF Owing
  <2>4. \A d \in Brokers : \A o \in OutOf(t, z, d) :
          /\ o.sync <= t.main.counter
          /\ Current(t, o) => Whole(t.app.synced, o.acks)
    <3>1. TAKE d \in Brokers
    <3>2. TAKE o1 \in OutOf(t, z, d)
    <3>3. PICK o \in OutOf(s, q, d) : SameOp(o, o1)
      BY <1>3 DEF Kept
    <3>4. o1.sync = o.sync /\ o1.acks = o.acks /\ (Current(t, o1) <=> Current(s, o))
      BY <1>1, <3>3 DEF SameOp, Current
    <3>5. o.sync <= s.main.counter /\ (Current(s, o) => Whole(s.app.synced, o.acks))
      BY <1>4 DEF SyncPart
    <3>6. QED
      BY <1>1, <3>4, <3>5
  <2>5. \A d \in Brokers : t.rkb[d].pend # {} =>
            /\ t.main.sync.id # 0 /\ t.rkb[d].pendid = t.main.sync.id
            /\ Whole(t.app.synced, t.rkb[d].pend)
            /\ \A o \in OutOf(t, z, d) : ~Current(t, o)
    BY <1>1, <1>2, <1>4, <2>2 DEF SyncPart
  <2>6. \A p \in Partitions :
         /\ t.main.sync.results[p] = "in_progress" =>
              \/ p \in Parts({})
              \/ \E d \in Brokers : \/ p \in Parts(t.rkb[d].pend)
                                    \/ \E o \in OutOf(t, z, d) : Current(t, o) /\ p \in Parts(o.acks)
         /\ t.main.sync.results[p] = "ok" =>
              \A r \in t.app.synced : r[1] = p => v.lock[r] = "done"
    <3>1. TAKE p \in Partitions
    <3>2. /\ t.main.sync.results[p] = s.main.sync.results[p] /\ t.app.synced = s.app.synced
      BY <1>1
    <3>3. s.main.sync.results[p] = "ok" => \A r \in s.app.synced : r[1] = p => v.lock[r] = "done"
      BY <1>4 DEF SyncPart
    <3>4. ASSUME s.main.sync.results[p] = "in_progress"
          PROVE  \E d \in Brokers : \/ p \in Parts(t.rkb[d].pend)
                                    \/ \E o \in OutOf(t, z, d) : Current(t, o) /\ p \in Parts(o.acks)
      <4>1. p \notin Parts({})
        BY DEF Parts
      <4>2. PICK d \in Brokers : \/ p \in Parts(s.rkb[d].pend)
                                 \/ \E o \in OutOf(s, q, d) : Current(s, o) /\ p \in Parts(o.acks)
        BY <1>4, <3>4, <4>1 DEF SyncPart
      <4>3. t.rkb[d].pend = s.rkb[d].pend
        BY <1>2
      <4>4. QED
        BY <2>2, <4>2, <4>3
    <3>5. QED
      BY <3>2, <3>3, <3>4
  <2>7. QED
    BY <1>1, <1>4, <2>3, <2>4, <2>5, <2>6 DEF SyncPart
<1>12. CallsOK(t, z, v)
  <2>1. \A i \in DOMAIN z : z[i].type # "REPLY" => i \in DOMAIN q /\ z[i] = q[i]
    BY <1>1 DEF MoreReplies
  <2>2. \A i \in DOMAIN z, j \in DOMAIN z : i < j /\ i \in DOMAIN q /\ z[j].type # "REPLY" =>
          j \in DOMAIN q
    BY <2>1
  <2>3. QED
    BY <1>1, <1>4, <2>1, <2>2 DEF CallsOK
<1>13. LeaveOK(t, z)
  <2>1. \A d \in Brokers :
          /\ (\A o \in OutOf(s, q, d) : ~o.leave) => (\A o \in OutOf(t, z, d) : ~o.leave)
          /\ (\E o \in OutOf(s, q, d) : ~o.leave) => (\E o \in OutOf(t, z, d) : ~o.leave)
    BY <1>3 DEF Kept, SameOp
  <2>2. {d \in Brokers : t.rkb[d].enq} = {d \in Brokers : s.rkb[d].enq}
    BY <1>2
  <2>3. QED
    BY <1>1, <1>2, <1>4, <2>1, <2>2 DEF LeaveOK
<1>14. QED
  BY <1>1, <1>5, <1>7, <1>8, <1>9, <1>10, <1>11, <1>12, <1>13 DEF Good, SyncOK

-----------------------------------------------------------------------------
(* The brokers: what a broker thread does to its own record. *)

BrokerKeeps(k, k1) ==
  /\ DOMAIN k1 = BrokerFields /\ k1.enq = k.enq /\ k1.async = k.async /\ k1.pend = k.pend
  /\ k1.pendid = k.pendid /\ k1.term = k.term /\ k1.epoch \in -1 .. 1
  /\ k1.resp # None => k1.resp \subseteq Records

\* An op of another kind may have been taken.
OtherTaken(x, x1) == x1 = x \/ (x # <<>> /\ x[1].type # "SHARE_FETCH" /\ x1 = Tail(x))

LEMMA TakenOps ==
  ASSUME NEW k, NEW q, NEW b, BrokerOK(k, q, b), k.ops # <<>>
  PROVE  LET x == Tail(k.ops) IN
         /\ IsSeq(x) /\ Unanswered(x) /\ \A i \in DOMAIN x : x[i].type \in {"SHARE_FETCH", "TERMINATE"}
         /\ Head(k.ops) = k.ops[1] /\ 1 \in DOMAIN k.ops
<1>1. IsSeq(k.ops)
  BY DEF BrokerOK
<1>2. /\ IsSeq(Tail(k.ops)) /\ Head(k.ops) = k.ops[1] /\ 1 \in DOMAIN k.ops
      /\ \A i \in DOMAIN Tail(k.ops) : Tail(k.ops)[i] = k.ops[i + 1] /\ i + 1 \in DOMAIN k.ops
  BY <1>1, TailSeq
<1> DEFINE x == Tail(k.ops)
<1> HIDE DEF x
<1>3. \A i \in DOMAIN x : x[i].type \in {"SHARE_FETCH", "TERMINATE"}
  BY <1>2 DEF x, BrokerOK
<1>4. Unanswered(x)
  BY <1>2 DEF x, BrokerOK, Unanswered
<1>5. QED
  BY <1>2, <1>3, <1>4 DEF x

Sole(S, x) == S = {x}

\* The op at the head of its queue is a share op and is taken.
OpTaken(k, k1) ==
  /\ k.ops # <<>> /\ k.ops[1].type = "SHARE_FETCH" /\ k1.ops = Tail(k.ops) /\ k1.sent = k.sent
\* What it has sent is no longer waited for.
SentTaken(k, k1) == k.sent # <<>> /\ k1.sent = <<>> /\ OtherTaken(k.ops, k1.ops)

LEMMA HeadOp ==
  ASSUME NEW k, NEW q, NEW b, BrokerOK(k, q, b), k.ops # <<>>, k.ops[1].type = "SHARE_FETCH"
  PROVE  OutOps(k.ops, k.sent, q, b) = {k.ops[1]} /\ IsOp(k.ops[1]) /\ ~k.ops[1].records
<1> DEFINE x == k.ops
           y == k.sent
<1>1. IsSeq(x) /\ Exclusive(x, y, q, b) /\ x # <<>> /\ x[1].type = "SHARE_FETCH" /\ Unanswered(x)
  BY DEF BrokerOK
<1>2. 1 \in DOMAIN x
  BY <1>1, TailSeq
<1>3. OutOps(x, y, q, b) = {x[1]}
  <2> HIDE DEF x, y
  <2>1. QED
    BY <1>1, TakeOp
<1>4. IsOp(x[1])
  BY <1>3 DEF BrokerOK
<1>5. QED
  BY <1>1, <1>2, <1>3, <1>4 DEF Unanswered

\* The op it was given is answered at once with e.
LEMMA AnswersOp ==
  ASSUME NEW k, NEW q, NEW b, NEW k1, NEW e, BrokerOK(k, q, b), IsSeq(q), BrokerKeeps(k, k1),
         OpTaken(k, k1), ReplyOf(e, b), IsOp(e.op)
  PROVE  /\ OutOps(k.ops, k.sent, q, b) = {k.ops[1]}
         /\ Sole(OutOps(k1.ops, k1.sent, Append(q, e), b), e.op) /\ BrokerOK(k1, Append(q, e), b)
<1> DEFINE x == Tail(k.ops)
           z == Append(q, e)
           x0 == k.ops
           y0 == k.sent
<1>0. OutOps(x0, y0, q, b) = {x0[1]}
  BY HeadOp DEF OpTaken
<1>1. /\ IsSeq(x0) /\ Exclusive(x0, y0, q, b) /\ x0 # <<>> /\ x0[1].type = "SHARE_FETCH"
      /\ x = Tail(x0)
  BY DEF BrokerOK, OpTaken
<1>2. OutOps(x0, y0, q, b) = {x0[1]} /\ OutOps(x, y0, q, b) = {}
  <2> HIDE DEF x0, y0, x
  <2>1. OutOps(x0, y0, q, b) = {x0[1]}
    BY <1>0
  <2>2. OutOps(Tail(x0), y0, q, b) = {}
    BY <1>1, TakeOp
  <2>3. QED
    BY <1>1, <2>1, <2>2
<1>3. OutOps(x, y0, z, b) = {e.op} /\ Exclusive(x, y0, z, b)
  <2> HIDE DEF x0, y0, x
  <2>1. QED
    BY <1>2, QueueAppendReply
<1>4. /\ IsSeq(x) /\ Unanswered(x) /\ \A i \in DOMAIN x : x[i].type \in {"SHARE_FETCH", "TERMINATE"}
  BY <1>1, TakenOps DEF OpTaken
<1>5. k.enq
  BY <1>2 DEF BrokerOK
<1> HIDE DEF x, z
<1>6. k1.ops = x /\ k1.sent = k.sent
  BY DEF x, OpTaken
<1>7. BrokerOK(k1, z, b)
  BY <1>3, <1>4, <1>5, <1>6 DEF BrokerOK, BrokerKeeps
<1>8. QED
  BY <1>2, <1>3, <1>6, <1>7 DEF z, Sole

\* What it has sent is answered with e.
LEMMA AnswersSent ==
  ASSUME NEW k, NEW q, NEW b, NEW k1, NEW e, BrokerOK(k, q, b), IsSeq(q), BrokerKeeps(k, k1),
         SentTaken(k, k1), ReplyOf(e, b), IsOp(e.op)
  PROVE  /\ OutOps(k.ops, k.sent, q, b) = {k.sent[1]}
         /\ Sole(OutOps(k1.ops, k1.sent, Append(q, e), b), e.op) /\ BrokerOK(k1, Append(q, e), b)
<1> DEFINE z == Append(q, e)
<1>1. /\ IsSeq(k.ops) /\ IsSeq(k.sent) /\ Exclusive(k.ops, k.sent, q, b)
      /\ k.sent # <<>> /\ k1.sent = <<>> /\ OtherTaken(k.ops, k1.ops)
  BY DEF BrokerOK, SentTaken
<1>2. OutOps(k.ops, k.sent, q, b) = {k.sent[1]} /\ OutOps(k.ops, <<>>, q, b) = {}
      /\ Exclusive(k.ops, <<>>, q, b)
  BY <1>1, ReceiveOp
<1>3. /\ OutOps(k1.ops, <<>>, q, b) = {} /\ IsSeq(k1.ops) /\ Unanswered(k1.ops)
      /\ \A i \in DOMAIN k1.ops : k1.ops[i].type \in {"SHARE_FETCH", "TERMINATE"}
  <2>1. CASE k1.ops = k.ops
    BY <1>1, <1>2, <2>1 DEF BrokerOK
  <2>2. CASE k.ops # <<>> /\ k.ops[1].type # "SHARE_FETCH" /\ k1.ops = Tail(k.ops)
    <3>1. OutOps(Tail(k.ops), <<>>, q, b) = OutOps(k.ops, <<>>, q, b)
      BY <1>1, <1>2, <2>2, TakeOp
    <3>2. /\ IsSeq(Tail(k.ops)) /\ Unanswered(Tail(k.ops))
          /\ \A i \in DOMAIN Tail(k.ops) : Tail(k.ops)[i].type \in {"SHARE_FETCH", "TERMINATE"}
      BY <2>2, TakenOps
    <3>3. QED
      BY <1>2, <2>2, <3>1, <3>2
  <2>3. QED
    BY <1>1, <2>1, <2>2 DEF OtherTaken
<1>4. OutOps(k1.ops, <<>>, z, b) = {e.op} /\ Exclusive(k1.ops, <<>>, z, b)
  <2> DEFINE x == k1.ops
             y == <<>>
  <2>1. OutOps(x, y, q, b) = {}
    BY <1>3
  <2> HIDE DEF x, y
  <2>2. OutOps(x, y, z, b) = {e.op} /\ Exclusive(x, y, z, b)
    BY <2>1, QueueAppendReply
  <2>3. QED
    BY <2>2 DEF x, y
<1>5. k.enq
  BY <1>2 DEF BrokerOK
<1>6. IsSeq(<<>>) /\ Unanswered(<<>>)
  BY EmptyIsSeq DEF Unanswered
<1> HIDE DEF z
<1>7. BrokerOK(k1, z, b)
  BY <1>1, <1>3, <1>4, <1>5, <1>6 DEF BrokerOK, BrokerKeeps
<1>8. QED
  BY <1>1, <1>2, <1>4, <1>7 DEF z, Sole

\* The op it was given is sent as o.
LEMMA SendsOp ==
  ASSUME NEW k, NEW q, NEW b, NEW k1, NEW o, BrokerOK(k, q, b), IsSeq(q), BrokerKeeps(k, k1),
         k.ops # <<>>, k.ops[1].type = "SHARE_FETCH", k1.ops = Tail(k.ops),
         k1.sent = Append(k.sent, o), IsOp(o), ~o.records
  PROVE  /\ OutOps(k.ops, k.sent, q, b) = {k.ops[1]}
         /\ Sole(OutOps(k1.ops, k1.sent, q, b), o) /\ BrokerOK(k1, q, b)
<1> DEFINE x == Tail(k.ops)
           y == Append(k.sent, o)
<1>1. IsSeq(k.ops) /\ IsSeq(k.sent) /\ Exclusive(k.ops, k.sent, q, b)
  BY DEF BrokerOK
<1>2. /\ OutOps(k.ops, k.sent, q, b) = {k.ops[1]} /\ OutOps(x, k.sent, q, b) = {}
      /\ DOMAIN k.sent = {}
  <2> DEFINE x0 == k.ops
             y0 == k.sent
  <2>1. IsSeq(x0) /\ Exclusive(x0, y0, q, b) /\ x0 # <<>> /\ x0[1].type = "SHARE_FETCH" /\ x = Tail(x0)
    BY <1>1
  <2> HIDE DEF x0, y0, x
  <2>2. /\ OutOps(x0, y0, q, b) = {x0[1]} /\ OutOps(Tail(x0), y0, q, b) = {}
        /\ DOMAIN y0 = {}
    BY <2>1, TakeOp
  <2>3. QED
    BY <2>1, <2>2 DEF x0, y0
<1>3. OutOps(x, y, q, b) = {o} /\ Exclusive(x, y, q, b)
  BY <1>1, <1>2, SendOp
<1>4. /\ IsSeq(x) /\ Unanswered(x) /\ \A i \in DOMAIN x : x[i].type \in {"SHARE_FETCH", "TERMINATE"}
  BY TakenOps
<1>5. k.enq
  BY <1>2 DEF BrokerOK
<1>6. IsSeq(y) /\ Unanswered(y)
  <2>1. /\ IsSeq(y) /\ DOMAIN y = 1 .. Len(k.sent) + 1 /\ y[Len(k.sent) + 1] = o
        /\ DOMAIN k.sent = 1 .. Len(k.sent) /\ Len(k.sent) \in Nat
    BY <1>1, AppendSeq, SeqFacts
  <2> HIDE DEF y
  <2>2. \A i \in DOMAIN y : y[i] = o
    BY <1>2, <2>1
  <2>3. QED
    BY <2>1, <2>2 DEF Unanswered
<1> HIDE DEF x, y
<1>7. k1.ops = x /\ k1.sent = y
  BY DEF x, y
<1>8. BrokerOK(k1, q, b)
  BY <1>3, <1>4, <1>5, <1>6, <1>7 DEF BrokerOK, BrokerKeeps
<1>9. QED
  BY <1>2, <1>3, <1>7, <1>8 DEF Sole

\* Its share ops stay where they are.
LEMMA KeepsOps ==
  ASSUME NEW k, NEW q, NEW b, NEW k1, BrokerOK(k, q, b), BrokerKeeps(k, k1),
         k1.sent = k.sent, OtherTaken(k.ops, k1.ops)
  PROVE  /\ OutOps(k1.ops, k1.sent, q, b) = OutOps(k.ops, k.sent, q, b) /\ BrokerOK(k1, q, b)
<1>1. IsSeq(k.ops) /\ IsSeq(k.sent) /\ Exclusive(k.ops, k.sent, q, b)
  BY DEF BrokerOK
<1>2. CASE k1.ops = k.ops
  BY <1>2 DEF BrokerOK, BrokerKeeps
<1>3. CASE k.ops # <<>> /\ k.ops[1].type # "SHARE_FETCH" /\ k1.ops = Tail(k.ops)
  <2> DEFINE x == Tail(k.ops)
  <2>1. OutOps(x, k.sent, q, b) = OutOps(k.ops, k.sent, q, b) /\ Exclusive(x, k.sent, q, b)
    BY <1>1, <1>3, TakeOp
  <2>2. /\ IsSeq(x) /\ Unanswered(x) /\ \A i \in DOMAIN x : x[i].type \in {"SHARE_FETCH", "TERMINATE"}
    BY <1>3, TakenOps
  <2>3. k1.ops = x
    BY <1>3
  <2> HIDE DEF x
  <2>4. QED
    BY <2>1, <2>2, <2>3 DEF BrokerOK, BrokerKeeps
<1>4. QED
  BY <1>2, <1>3 DEF OtherTaken

\* Only the record of broker b changes.
Replaced(s, t, b) ==
  /\ Shape(t) /\ t.app = s.app /\ t.main = s.main /\ t.cb = s.cb
  /\ \A d \in Brokers \ {b} : t.rkb[d] = s.rkb[d]

\* What it got for the application.
RespOK(s, t, w, v, b) ==
  t.rkb[b].resp # s.rkb[b].resp => s.rkb[b].resp = None /\ Fresh(s, w, v, b, t.rkb[b].resp)

Final(v, o) == CodesTrue(v, o) /\ \A r \in o.acks : o.code[r[1]] # "in_progress"

LEMMA ReplyMoves ==
  ASSUME NEW s, NEW t, NEW q, NEW w, NEW v, NEW b \in Brokers, NEW e, NEW o,
         Good(s, q, w, v), Replaced(s, t, b), ReplyOf(e, b),
         BrokerKeeps(s.rkb[b], t.rkb[b]), BrokerOK(t.rkb[b], Append(q, e), b),
         OutOf(s, q, b) = {o}, OutOf(t, Append(q, e), b) = {e.op}, SameOp(o, e.op), Final(v, e.op),
         e.op.records => t.rkb[b].resp # None, RespOK(s, t, w, v, b)
  PROVE  Good(t, Append(q, e), w, v)
<1> DEFINE z == Append(q, e)
<1>1. Struct(s, q) /\ QueueOK(q) /\ IsSeq(q)
  BY DEF Good, Struct, QueueOK
<1>2. /\ IsSeq(z) /\ DOMAIN z = 1 .. Len(q) + 1 /\ z[Len(q) + 1] = e /\ DOMAIN q = 1 .. Len(q)
      /\ Len(q) \in Nat /\ \A i \in DOMAIN q : z[i] = q[i]
  BY <1>1, AppendSeq, SeqFacts
<1>3. \A d \in Brokers \ {b} : OutOf(t, z, d) = OutOf(s, q, d) /\ BrokerOK(t.rkb[d], z, d)
  <2>1. TAKE d \in Brokers \ {b}
  <2>2. ~(e.type = "REPLY" /\ e.broker = d)
    BY DEF ReplyOf
  <2> DEFINE x == s.rkb[d].ops
             y == s.rkb[d].sent
  <2>3. BrokerOK(s.rkb[d], q, d) /\ Exclusive(x, y, q, d) /\ t.rkb[d] = s.rkb[d]
    BY <1>1 DEF Struct, BrokerOK, Replaced
  <2> HIDE DEF x, y
  <2>4. OutOps(x, y, z, d) = OutOps(x, y, q, d) /\ Exclusive(x, y, z, d)
    BY <1>1, <2>2, <2>3, QueueAppendOther
  <2> HIDE DEF z
  <2>5. QED
    BY <2>3, <2>4 DEF BrokerOK, OutOf, x, y
<1> HIDE DEF z
<1>4. QueueOK(z)
  BY <1>1, <1>2 DEF QueueOK, ReplyOf, QueueTypes
<1>5. Struct(t, z)
  BY <1>3, <1>4 DEF Struct, Replaced, z
<1>6. MoreReplies(q, z)
  BY <1>2 DEF MoreReplies, ReplyOf
<1>7. Kept(OutOf(s, q, b), OutOf(t, z, b))
  BY DEF Kept, z
<1>8. \A a \in OutOf(t, z, b) : CodesTrue(v, a)
  BY DEF Final, z
<1>9. \A i \in DOMAIN z : i \in DOMAIN q \/
        /\ \A r \in z[i].op.acks : z[i].op.code[r[1]] # "in_progress"
        /\ z[i].op.records => t.rkb[b].resp # None
  BY <1>2 DEF Final
<1>10. OpMoves(s, t, q, z, w, v, b)
  BY <1>3, <1>5, <1>6, <1>7, <1>8, <1>9 DEF OpMoves, Replaced, BrokerKeeps, RespOK
<1>11. QED
  BY <1>10, OpMovesOK DEF z

LEMMA QuietMoves ==
  ASSUME NEW s, NEW t, NEW q, NEW w, NEW v, NEW b \in Brokers,
         Good(s, q, w, v), Replaced(s, t, b),
         BrokerKeeps(s.rkb[b], t.rkb[b]), BrokerOK(t.rkb[b], q, b),
         Kept(OutOf(s, q, b), OutOf(t, q, b)), \A o \in OutOf(t, q, b) : CodesTrue(v, o),
         RespOK(s, t, w, v, b)
  PROVE  Good(t, q, w, v)
<1>1. Struct(s, q) /\ IsSeq(q)
  BY DEF Good, Struct, QueueOK
<1>2. \A d \in Brokers \ {b} : OutOf(t, q, d) = OutOf(s, q, d)
  BY DEF OutOf, Replaced
<1>3. Struct(t, q)
  BY <1>1 DEF Struct, Replaced
<1>4. MoreReplies(q, q)
  BY DEF MoreReplies
<1>5. OpMoves(s, t, q, q, w, v, b)
  BY <1>2, <1>3, <1>4 DEF OpMoves, Replaced, BrokerKeeps, RespOK
<1>6. QED
  BY <1>5, OpMovesOK

-----------------------------------------------------------------------------
(* The brokers: the ops they make. *)

\* The reply to op o that was not answered.
LEMMA OpReplyIs ==
  ASSUME NEW b, NEW o, IsOp(o), NEW v, CodesTrue(v, o), ~o.records
  PROVE  LET e == OpReply(b, o, TRUE) IN
         ReplyOf(e, b) /\ IsOp(e.op) /\ SameOp(o, e.op) /\ Final(v, e.op) /\ ~e.op.records
<1> DEFINE C == [p \in Partitions |-> IF o.code[p] = "in_progress" THEN "err" ELSE o.code[p]]
           e == OpReply(b, o, TRUE)
           a == [o EXCEPT !.err = TRUE, !.wire = {}, !.epoch = 0, !.code = C]
<1>1. e.type = "REPLY" /\ e.broker = b /\ e.op = a
  BY DEF OpReply
<1>2. DOMAIN C = Partitions /\ \A p \in Partitions : C[p] \in {"ok", "err"} /\ (C[p] = "ok" => o.code[p] = "ok")
  BY DEF IsOp, Codes
<1> HIDE DEF C, e
<1>3. /\ DOMAIN a = OpFields /\ a.type = o.type /\ a.fetch = o.fetch /\ a.leave = o.leave
      /\ a.sync = o.sync /\ a.acks = o.acks /\ a.code = C /\ a.wire = {} /\ a.epoch = 0
      /\ a.records = o.records
  BY DEF IsOp, OpFields
<1> HIDE DEF a
<1>4. IsOp(a)
  BY <1>2, <1>3 DEF IsOp, Codes
<1>5. \A r \in a.acks : r[1] \in Partitions
  BY <1>3, RecordType DEF IsOp
<1>6. Final(v, a)
  BY <1>2, <1>3, <1>5 DEF Final, CodesTrue
<1>7. SameOp(o, a)
  BY <1>3 DEF SameOp
<1>8. QED
  BY <1>1, <1>3, <1>4, <1>6, <1>7 DEF ReplyOf, e


IsBroker(s, b, k) == k = s.rkb[b]

\* The reply to the op it was given, which it does not send.
LEMMA OpFailed ==
  ASSUME NEW s, NEW t, NEW q, NEW w, NEW v, NEW b \in Brokers, NEW k, NEW k1,
         Good(s, q, w, v), Replaced(s, t, b), IsBroker(s, b, k), IsBroker(t, b, k1),
         BrokerKeeps(k, k1), OpTaken(k, k1), RespOK(s, t, w, v, b)
  PROVE  Good(t, Append(q, OpReply(b, k.ops[1], TRUE)), w, v)
<1> DEFINE o == k.ops[1]
           e == OpReply(b, o, TRUE)
<1>1. BrokerOK(k, q, b) /\ IsSeq(q) /\ TruthOK(s, q, v)
  BY DEF Good, Struct, QueueOK, IsBroker
<1>2. OutOps(k.ops, k.sent, q, b) = {o} /\ IsOp(o) /\ ~o.records
  <2>1. k.ops # <<>> /\ k.ops[1].type = "SHARE_FETCH"
    BY DEF OpTaken
  <2>2. QED
    BY <1>1, <2>1, HeadOp
<1>5. OutOf(s, q, b) = {o}
  BY <1>2 DEF OutOf, IsBroker
<1>6. CodesTrue(v, o)
  BY <1>1, <1>5 DEF TruthOK
<1> HIDE DEF o
<1>7. ReplyOf(e, b) /\ IsOp(e.op) /\ SameOp(o, e.op) /\ Final(v, e.op) /\ ~e.op.records
  BY <1>2, <1>6, OpReplyIs
<1> HIDE DEF e
<1>8. OutOps(k1.ops, k1.sent, Append(q, e), b) = {e.op} /\ BrokerOK(k1, Append(q, e), b)
  <2>1. Sole(OutOps(k1.ops, k1.sent, Append(q, e), b), e.op)
    BY <1>1, <1>7, AnswersOp
  <2>2. BrokerOK(k1, Append(q, e), b)
    BY <1>1, <1>7, AnswersOp
  <2>3. QED
    BY <2>1, <2>2 DEF Sole
<1>9. OutOf(t, Append(q, e), b) = {e.op}
  BY <1>8 DEF OutOf, IsBroker
<1>11. Good(t, Append(q, e), w, v)
  <2>1. BrokerKeeps(s.rkb[b], t.rkb[b]) /\ BrokerOK(t.rkb[b], Append(q, e), b)
    BY <1>8 DEF IsBroker
  <2>2. QED
    BY <1>5, <1>7, <1>9, <2>1, ReplyMoves
<1>12. QED
  BY <1>11 DEF e, o

\* What is out at the cluster is no longer waited for, or is answered with an error.
LEMMA SentFailed ==
  ASSUME NEW s, NEW t, NEW q, NEW w, NEW v, NEW b \in Brokers, NEW k, NEW k1,
         Good(s, q, w, v), Replaced(s, t, b), IsBroker(s, b, k), IsBroker(t, b, k1),
         BrokerKeeps(k, k1), SentTaken(k, k1), RespOK(s, t, w, v, b)
  PROVE  Good(t, Append(q, OpReply(b, k.sent[1], TRUE)), w, v)
<1> DEFINE o == k.sent[1]
           e == OpReply(b, o, TRUE)
<1>1. BrokerOK(k, q, b) /\ IsSeq(q) /\ TruthOK(s, q, v)
  BY DEF Good, Struct, QueueOK, IsBroker
<1>2. OutOps(k.ops, k.sent, q, b) = {o} /\ 1 \in DOMAIN k.sent
  <2>1. IsSeq(k.sent) /\ Exclusive(k.ops, k.sent, q, b) /\ k.sent # <<>>
    BY <1>1 DEF BrokerOK, SentTaken
  <2>2. QED
    BY <2>1, ReceiveOp
<1>3. IsOp(o)
  BY <1>1, <1>2 DEF BrokerOK
<1>4. ~o.records
  BY <1>1, <1>2, <1>3 DEF BrokerOK, Unanswered, IsOp
<1>5. OutOf(s, q, b) = {o}
  BY <1>2 DEF OutOf, IsBroker
<1>6. CodesTrue(v, o)
  BY <1>1, <1>5 DEF TruthOK
<1> HIDE DEF o
<1>7. ReplyOf(e, b) /\ IsOp(e.op) /\ SameOp(o, e.op) /\ Final(v, e.op) /\ ~e.op.records
  BY <1>3, <1>4, <1>6, OpReplyIs
<1> HIDE DEF e
<1>8. OutOps(k1.ops, k1.sent, Append(q, e), b) = {e.op} /\ BrokerOK(k1, Append(q, e), b)
  <2>1. Sole(OutOps(k1.ops, k1.sent, Append(q, e), b), e.op)
    BY <1>1, <1>7, AnswersSent
  <2>2. BrokerOK(k1, Append(q, e), b)
    BY <1>1, <1>7, AnswersSent
  <2>3. QED
    BY <2>1, <2>2 DEF Sole
<1>9. OutOf(t, Append(q, e), b) = {e.op}
  BY <1>8 DEF OutOf, IsBroker
<1>11. Good(t, Append(q, e), w, v)
  <2>1. BrokerKeeps(s.rkb[b], t.rkb[b]) /\ BrokerOK(t.rkb[b], Append(q, e), b)
    BY <1>8 DEF IsBroker
  <2>2. QED
    BY <1>5, <1>7, <1>9, <2>1, ReplyMoves
<1>12. QED
  BY <1>11 DEF e, o

\* It has no share op that moves.
LEMMA OpsStay ==
  ASSUME NEW s, NEW t, NEW q, NEW w, NEW v, NEW b \in Brokers, NEW k, NEW k1,
         Good(s, q, w, v), Replaced(s, t, b), IsBroker(s, b, k), IsBroker(t, b, k1),
         BrokerKeeps(k, k1), k1.sent = k.sent, OtherTaken(k.ops, k1.ops), RespOK(s, t, w, v, b)
  PROVE  Good(t, q, w, v)
<1>1. BrokerOK(k, q, b) /\ TruthOK(s, q, v)
  BY DEF Good, Struct, QueueOK, IsBroker
<1>2. OutOps(k1.ops, k1.sent, q, b) = OutOps(k.ops, k.sent, q, b) /\ BrokerOK(k1, q, b)
  BY <1>1, KeepsOps
<1>3. OutOf(t, q, b) = OutOf(s, q, b)
  BY <1>2 DEF OutOf, IsBroker
<1>4. Kept(OutOf(s, q, b), OutOf(t, q, b))
  BY <1>3 DEF Kept, SameOp
<1>5. \A o \in OutOf(t, q, b) : CodesTrue(v, o)
  BY <1>1, <1>3 DEF TruthOK
<1>7. BrokerKeeps(s.rkb[b], t.rkb[b]) /\ BrokerOK(t.rkb[b], q, b)
  BY <1>2 DEF IsBroker
<1>8. QED
  BY <1>4, <1>5, <1>7, QuietMoves

\* A failed request becomes the replies of its ops: there is at most one.
LEMMA FailAllIs ==
  ASSUME NEW q, NEW k, NEW b, BrokerOK(k, q, b), IsSeq(q)
  PROVE  q \o FailAll(b, k.sent) =
           IF k.sent = <<>> THEN q ELSE Append(q, OpReply(b, k.sent[1], TRUE))
<1> DEFINE z == FailAll(b, k.sent)
           e == OpReply(b, k.sent[1], TRUE)
<1>1. IsSeq(k.sent) /\ Exclusive(k.ops, k.sent, q, b)
  BY DEF BrokerOK
<1>2. CASE k.sent = <<>>
  <2>1. DOMAIN k.sent = {}
    BY <1>2, EmptyIsSeq
  <2>2. z = <<>>
    BY <2>1 DEF FailAll
  <2>3. q \in Seq({q[i] : i \in DOMAIN q})
    BY DEF IsSeq
  <2> HIDE DEF z
  <2>4. q \o z = q
    BY <2>2, <2>3, ConcatEmptySeq
  <2>5. QED
    BY <1>2, <2>4 DEF z
<1>3. CASE k.sent # <<>>
  <2>1. DOMAIN k.sent = {1}
    BY <1>1, <1>3, ReceiveOp
  <2>2. z = [i \in {1} |-> OpReply(b, k.sent[i], TRUE)]
    BY <2>1 DEF FailAll
  <2>3. z = <<e>>
    <3> HIDE DEF z
    <3>1. {1} = 1 .. 1
      OBVIOUS
    <3>2. DOMAIN z = 1 .. 1 /\ z[1] = e
      BY <2>2, <3>1
    <3>3. z = [i \in 1 .. 1 |-> e]
      BY <2>2, <3>1, <3>2
    <3> HIDE DEF e
    <3>4. QED
      BY <3>3
  <2> DEFINE S == {q[i] : i \in DOMAIN q} \cup {e}
  <2>4. q \in Seq(S) /\ e \in S
    <3>1. q \in Seq({q[i] : i \in DOMAIN q})
      BY DEF IsSeq
    <3>2. Seq({q[i] : i \in DOMAIN q}) \subseteq Seq(S)
      BY SeqMonotonic
    <3>3. QED
      BY <3>1, <3>2
  <2> HIDE DEF z, e, S
  <2>5. q \o <<e>> = Append(q, e)
    BY <2>4, AppendIsConcat
  <2>6. QED
    BY <1>3, <2>3, <2>5 DEF z, e
<1>4. QED
  BY <1>2, <1>3

-----------------------------------------------------------------------------
(* The brokers: the record of one changes. *)

OnlyBroker(b) ==
  /\ UNCHANGED <<app, main, cb>> /\ DOMAIN rkb' = Brokers
  /\ \A d \in Brokers \ {b} : rkb'[d] = rkb[d]
IsNextState(t) == t = State'

LEMMA BrokerOnly ==
  ASSUME Inv, NEW b \in Brokers, OnlyBroker(b)
  PROVE  \E t : IsNextState(t) /\ Replaced(State, t, b) /\ t.rkb = rkb'
<1> DEFINE t == [app |-> app', main |-> main', rkb |-> rkb', cb |-> cb']
<1>1. t.app = app' /\ t.main = main' /\ t.rkb = rkb' /\ t.cb = cb' /\ DOMAIN t = {"app", "main", "rkb", "cb"}
  OBVIOUS
<1>2. IsNextState(t)
  BY DEF IsNextState, State
<1>3. State.app = app /\ State.main = main /\ State.rkb = rkb /\ State.cb = cb
  BY DEF State
<1>4. Shape(State)
  BY DEF Inv, Good, Struct
<1> HIDE DEF t
<1>5. Shape(t)
  BY <1>1, <1>3, <1>4 DEF Shape, OnlyBroker
<1>6. Replaced(State, t, b)
  BY <1>1, <1>3, <1>5 DEF Replaced, OnlyBroker
<1>7. QED
  BY <1>1, <1>2, <1>6

LEMMA InvNext ==
  ASSUME NEW t, IsNextState(t), Good(t, rk_ops', rkcg_q', srv'), ClusterOK(srv'),
         \A p \in Partitions : leader'[p] \in Brokers, faults' \in 0 .. MaxFaults
  PROVE  Inv'
BY DEF Inv, IsNextState


\* What is sent for op o, in epoch n.
LEMMA RequestIs ==
  ASSUME NEW k, NEW o, NEW v, NEW n \in -1 .. 1, IsOp(o), CodesTrue(v, o), ~o.records,
         Request(k, o) # None
  PROVE  LET a == [Request(k, o) EXCEPT !.epoch = n] IN
         IsOp(a) /\ SameOp(o, a) /\ CodesTrue(v, a) /\ ~a.records
<1> DEFINE C == [p \in Partitions |-> IF p \in Parts(o.acks) THEN "err" ELSE o.code[p]]
           c == [o EXCEPT !.wire = {}, !.code = C]
           d == Request(k, o)
           a == [d EXCEPT !.epoch = n]
<1>1. d = o \/ d = c
  BY DEF Request
<1>2. DOMAIN C = Partitions /\ \A p \in Partitions : C[p] \in Codes /\ (C[p] = "ok" => o.code[p] = "ok")
  BY DEF IsOp, Codes
<1> HIDE DEF C, d
<1>3. /\ DOMAIN c = OpFields /\ c.type = o.type /\ c.fetch = o.fetch /\ c.leave = o.leave
      /\ c.sync = o.sync /\ c.acks = o.acks /\ c.code = C /\ c.wire = {} /\ c.epoch = o.epoch
      /\ c.records = o.records
  BY DEF IsOp, OpFields
<1> HIDE DEF c
<1>4. \A r \in o.acks : r[1] \in Partitions
  BY RecordType DEF IsOp
<1>5. IsOp(d) /\ SameOp(o, d) /\ CodesTrue(v, d) /\ ~d.records
  <2>1. CASE d = o
    BY <2>1 DEF SameOp
  <2>2. CASE d = c
    <3>1. IsOp(c)
      BY <1>2, <1>3 DEF IsOp
    <3>2. SameOp(o, c) /\ ~c.records
      BY <1>3 DEF SameOp
    <3>3. CodesTrue(v, c)
      BY <1>2, <1>3, <1>4 DEF CodesTrue
    <3>4. QED
      BY <2>2, <3>1, <3>2, <3>3
  <2>3. QED
    BY <1>1, <2>1, <2>2
<1>6. /\ DOMAIN a = OpFields /\ a.type = d.type /\ a.fetch = d.fetch /\ a.leave = d.leave
      /\ a.sync = d.sync /\ a.acks = d.acks /\ a.code = d.code /\ a.wire = d.wire /\ a.epoch = n
      /\ a.records = d.records
  BY <1>5 DEF IsOp, OpFields
<1> HIDE DEF a
<1>7. IsOp(a) /\ SameOp(o, a) /\ CodesTrue(v, a) /\ ~a.records
  BY <1>5, <1>6 DEF IsOp, SameOp, CodesTrue
<1>8. QED
  BY <1>7 DEF a, d

\* The op it was given is sent.
Sends(k, k1, c, n) ==
  /\ k.ops # <<>> /\ k.ops[1].type = "SHARE_FETCH" /\ Request(c, k.ops[1]) # None
  /\ k1.ops = Tail(k.ops) /\ n \in -1 .. 1
  /\ k1.sent = Append(k.sent, [Request(c, k.ops[1]) EXCEPT !.epoch = n])

LEMMA OpSent ==
  ASSUME NEW s, NEW t, NEW q, NEW w, NEW v, NEW b \in Brokers, NEW k, NEW k1, NEW c, NEW n,
         Good(s, q, w, v), Replaced(s, t, b), IsBroker(s, b, k), IsBroker(t, b, k1),
         BrokerKeeps(k, k1), Sends(k, k1, c, n), RespOK(s, t, w, v, b)
  PROVE  Good(t, q, w, v)
<1> DEFINE o == k.ops[1]
           a == [Request(c, o) EXCEPT !.epoch = n]
<1>1. BrokerOK(k, q, b) /\ IsSeq(q) /\ TruthOK(s, q, v)
  BY DEF Good, Struct, QueueOK, IsBroker
<1>2. OutOps(k.ops, k.sent, q, b) = {o} /\ IsOp(o) /\ ~o.records
  <2>1. k.ops # <<>> /\ k.ops[1].type = "SHARE_FETCH"
    BY DEF Sends
  <2>2. QED
    BY <1>1, <2>1, HeadOp
<1>3. OutOf(s, q, b) = {o}
  BY <1>2 DEF OutOf, IsBroker
<1>4. CodesTrue(v, o)
  BY <1>1, <1>3 DEF TruthOK
<1>5. IsOp(a) /\ SameOp(o, a) /\ CodesTrue(v, a) /\ ~a.records
  <2>1. n \in -1 .. 1 /\ Request(c, o) # None
    BY DEF Sends
  <2> HIDE DEF o
  <2>2. QED
    BY <1>2, <1>4, <2>1, RequestIs
<1> HIDE DEF a
<1>6. /\ k.ops # <<>> /\ k.ops[1].type = "SHARE_FETCH" /\ k1.ops = Tail(k.ops)
      /\ k1.sent = Append(k.sent, a)
  BY DEF Sends, a
<1>7. BrokerOK(k1, q, b)
  BY <1>1, <1>5, <1>6, SendsOp
<1>8. Sole(OutOps(k1.ops, k1.sent, q, b), a)
  BY <1>1, <1>5, <1>6, SendsOp
<1>9. OutOf(t, q, b) = {a}
  BY <1>8 DEF OutOf, IsBroker, Sole
<1>10. Kept(OutOf(s, q, b), OutOf(t, q, b))
  BY <1>3, <1>5, <1>9 DEF Kept
<1>11. \A x \in OutOf(t, q, b) : CodesTrue(v, x)
  BY <1>5, <1>9
<1>12. BrokerKeeps(s.rkb[b], t.rkb[b]) /\ BrokerOK(t.rkb[b], q, b)
  BY <1>7 DEF IsBroker
<1>13. QED
  BY <1>10, <1>11, <1>12, QuietMoves


-----------------------------------------------------------------------------
(* The brokers: the steps of a broker thread that concern no other. *)

LEMMA BrokerServeStep ==
  ASSUME Inv, NEW b \in Brokers, BrokerServe(b)
  PROVE  Inv'
<1> DEFINE s == State
           k == rkb[b]
           c == [rkb[b] EXCEPT !.ops = Tail(@)]
           op == Head(rkb[b].ops)
           left == IF op.type = "SHARE_FETCH" /\ op.leave THEN [c EXCEPT !.epoch = -1] ELSE c
           gone == [c EXCEPT !.epoch = -1, !.up = FALSE, !.sent = <<>>]
           req == Request(c, op)
           sending == [left EXCEPT !.sent = Append(@, [req EXCEPT !.epoch = left.epoch])]
           A == op.type = "TERMINATE" /\ rkb' = [rkb EXCEPT ![b] = gone]
                /\ rk_ops' = rk_ops \o FailAll(b, c.sent)
           B == op.type = "SHARE_FETCH" /\ rkb' = [rkb EXCEPT ![b] = c]
                /\ rk_ops' = Append(rk_ops, OpReply(b, op, TRUE))
           C == op.type = "SHARE_FETCH" /\ rkb' = [rkb EXCEPT ![b] = left]
                /\ rk_ops' = Append(rk_ops, OpReply(b, op, TRUE))
           D == op.type = "SHARE_FETCH" /\ req # None /\ rkb' = [rkb EXCEPT ![b] = sending]
                /\ rk_ops' = rk_ops
<1>1. A \/ B \/ C \/ D
  BY Zenon DEF BrokerServe
<1>2. k.ops # <<>> /\ UNCHANGED <<app, main, rkcg_q, leader, srv, cb, faults>>
  BY Zenon DEF BrokerServe
<1>3. /\ Good(s, rk_ops, rkcg_q, srv) /\ ClusterOK(srv) /\ (\A p \in Partitions : leader[p] \in Brokers)
      /\ faults \in 0 .. MaxFaults
  BY DEF Inv
<1>4. IsBroker(s, b, k) /\ BrokerOK(k, rk_ops, b) /\ DOMAIN rkb = Brokers /\ IsSeq(rk_ops)
  BY <1>3 DEF IsBroker, State, Good, Struct, Shape, QueueOK
<1>5. DOMAIN k = BrokerFields /\ k.epoch \in -1 .. 1 /\ (k.resp # None => k.resp \subseteq Records)
  BY <1>4 DEF BrokerOK
<1>6. op = k.ops[1] /\ IsSeq(k.ops)
  <2>1. IsSeq(k.ops)
    BY <1>4 DEF BrokerOK
  <2> HIDE DEF k
  <2>2. Head(k.ops) = k.ops[1]
    BY <1>2, <2>1, TailSeq
  <2>3. QED
    BY <2>1, <2>2 DEF k
<1> DEFINE Same(x) == /\ DOMAIN x = BrokerFields /\ x.enq = k.enq /\ x.async = k.async
                      /\ x.pend = k.pend /\ x.pendid = k.pendid /\ x.term = k.term
                      /\ x.epoch \in -1 .. 1 /\ x.resp = k.resp /\ x.ops = Tail(k.ops)
<1>7. Same(c) /\ c.sent = k.sent
  BY <1>5 DEF BrokerFields
<1>8. Same(left) /\ left.sent = k.sent
  <2> HIDE DEF c, k, op
  <2>1. QED
    BY <1>7 DEF BrokerFields
<1>9. Same(gone) /\ gone.sent = <<>>
  <2> HIDE DEF c, k, op
  <2>1. QED
    BY <1>7 DEF BrokerFields
<1>10. Same(sending) /\ sending.sent = Append(k.sent, [req EXCEPT !.epoch = left.epoch])
  <2> HIDE DEF c, k, op, left, req
  <2>1. QED
    BY <1>8 DEF BrokerFields
<1>11. ASSUME NEW x, rkb' = [rkb EXCEPT ![b] = x]
       PROVE  OnlyBroker(b) /\ rkb'[b] = x
  BY <1>2, <1>4, <1>11 DEF OnlyBroker
<1>12. ASSUME NEW x, Same(x) PROVE BrokerKeeps(k, x)
  BY <1>5, <1>12 DEF BrokerKeeps
<1>13. ASSUME NEW t, NEW x, Same(x), IsBroker(t, b, x) PROVE RespOK(s, t, rkcg_q, srv, b)
  BY <1>13, <1>4 DEF RespOK, IsBroker
<1>14. ASSUME NEW t, IsNextState(t), Good(t, rk_ops', rkcg_q, srv) PROVE Inv'
  <2>1. /\ Good(t, rk_ops', rkcg_q', srv') /\ ClusterOK(srv')
        /\ (\A p \in Partitions : leader'[p] \in Brokers) /\ faults' \in 0 .. MaxFaults
    BY <1>2, <1>3, <1>14
  <2>2. QED
    BY <1>14, <2>1, InvNext
<1>15. ASSUME NEW x, rkb' = [rkb EXCEPT ![b] = x]
       PROVE  \E t : IsNextState(t) /\ Replaced(s, t, b) /\ IsBroker(t, b, x)
  <2>1. OnlyBroker(b) /\ rkb'[b] = x
    BY <1>11, <1>15
  <2>2. PICK t : IsNextState(t) /\ Replaced(State, t, b) /\ t.rkb = rkb'
    BY <2>1, BrokerOnly
  <2>3. QED
    BY <2>1, <2>2 DEF IsBroker
<1>16. OtherTaken(k.ops, Tail(k.ops)) \/ op.type = "SHARE_FETCH"
  BY <1>2, <1>6 DEF OtherTaken
<1> HIDE DEF s, k, c, op, left, gone, req, sending, Same
<1>17. CASE A
  <2>1. PICK t : IsNextState(t) /\ Replaced(s, t, b) /\ IsBroker(t, b, gone)
    BY <1>15, <1>17
  <2>2. BrokerKeeps(k, gone) /\ RespOK(s, t, rkcg_q, srv, b)
    BY <1>9, <1>12, <1>13, <2>1
  <2>3. OtherTaken(k.ops, gone.ops)
    BY <1>9, <1>16, <1>17 DEF Same
  <2>4. rk_ops' = IF k.sent = <<>> THEN rk_ops ELSE Append(rk_ops, OpReply(b, k.sent[1], TRUE))
    BY <1>4, <1>7, <1>17, FailAllIs
  <2>5. CASE k.sent = <<>>
    <3>1. gone.sent = k.sent
      BY <1>9, <2>5
    <3>2. Good(t, rk_ops, rkcg_q, srv)
      BY <1>3, <1>4, <2>1, <2>2, <2>3, <3>1, OpsStay
    <3>3. rk_ops' = rk_ops
      BY <2>4, <2>5
    <3>4. QED
      BY <1>14, <2>1, <3>2, <3>3
  <2>6. CASE k.sent # <<>>
    <3>1. SentTaken(k, gone)
      BY <1>9, <2>3, <2>6 DEF SentTaken
    <3>2. Good(t, Append(rk_ops, OpReply(b, k.sent[1], TRUE)), rkcg_q, srv)
      BY <1>3, <1>4, <2>1, <2>2, <3>1, SentFailed
    <3>3. rk_ops' = Append(rk_ops, OpReply(b, k.sent[1], TRUE))
      BY <2>4, <2>6
    <3>4. QED
      BY <1>14, <2>1, <3>2, <3>3
  <2>7. QED
    BY <2>5, <2>6
<1>18. ASSUME NEW x, op.type = "SHARE_FETCH", Same(x), x.sent = k.sent, rkb' = [rkb EXCEPT ![b] = x],
              rk_ops' = Append(rk_ops, OpReply(b, op, TRUE))
       PROVE  Inv'
  <2>1. PICK t : IsNextState(t) /\ Replaced(s, t, b) /\ IsBroker(t, b, x)
    BY <1>15, <1>18
  <2>2. BrokerKeeps(k, x) /\ RespOK(s, t, rkcg_q, srv, b)
    BY <1>12, <1>13, <1>18, <2>1
  <2>3. OpTaken(k, x)
    BY <1>2, <1>6, <1>18 DEF OpTaken, Same
  <2>4. Good(t, Append(rk_ops, OpReply(b, k.ops[1], TRUE)), rkcg_q, srv)
    BY <1>3, <1>4, <2>1, <2>2, <2>3, OpFailed
  <2>5. QED
    BY <1>6, <1>14, <1>18, <2>1, <2>4
<1>19. CASE B
  BY <1>7, <1>18, <1>19
<1>20. CASE C
  BY <1>8, <1>18, <1>20
<1>21. CASE D
  <2>1. PICK t : IsNextState(t) /\ Replaced(s, t, b) /\ IsBroker(t, b, sending)
    BY <1>15, <1>21
  <2>2. BrokerKeeps(k, sending) /\ RespOK(s, t, rkcg_q, srv, b)
    BY <1>10, <1>12, <1>13, <2>1
  <2>3. Sends(k, sending, c, left.epoch)
    BY <1>2, <1>6, <1>8, <1>10, <1>21 DEF Sends, Same, req
  <2> DEFINE n == left.epoch
  <2> HIDE DEF n
  <2>4. Sends(k, sending, c, n)
    BY <2>3 DEF n
  <2>5. Good(t, rk_ops, rkcg_q, srv)
    BY <1>3, <1>4, <2>1, <2>2, <2>4, OpSent
  <2>6. QED
    BY <1>14, <1>21, <2>1, <2>5
<1>22. QED
  BY <1>1, <1>17, <1>19, <1>20, <1>21


LEMMA NextBroker ==
  ASSUME Inv, NEW b \in Brokers, OnlyBroker(b)
  PROVE  \E t : /\ IsNextState(t) /\ Replaced(State, t, b) /\ t.rkb[b] = rkb'[b]
                /\ IsBroker(t, b, rkb'[b]) /\ IsBroker(State, b, rkb[b])
<1>1. PICK t : IsNextState(t) /\ Replaced(State, t, b) /\ t.rkb = rkb'
  BY BrokerOnly
<1>2. QED
  BY <1>1 DEF IsBroker, State

LEMMA ConnectStep ==
  ASSUME Inv, NEW b \in Brokers, Connect(b)
  PROVE  Inv'
<1> DEFINE s == State
           k == rkb[b]
           k1 == rkb'[b]
<1>1. /\ Good(s, rk_ops, rkcg_q, srv) /\ ClusterOK(srv) /\ (\A p \in Partitions : leader[p] \in Brokers)
      /\ faults \in 0 .. MaxFaults
  BY DEF Inv
<1>2. BrokerOK(k, rk_ops, b) /\ DOMAIN rkb = Brokers
  BY <1>1 DEF State, Good, Struct, Shape
<1>3. DOMAIN k = BrokerFields /\ k.epoch \in -1 .. 1 /\ (k.resp # None => k.resp \subseteq Records)
  BY <1>2 DEF BrokerOK
<1>4. OnlyBroker(b) /\ k1 = [k EXCEPT !.up = TRUE]
  BY <1>2 DEF Connect, OnlyBroker
<1>5. UNCHANGED <<rk_ops, rkcg_q, leader, srv, faults>>
  BY DEF Connect
<1>6. PICK t : /\ IsNextState(t) /\ Replaced(s, t, b) /\ t.rkb[b] = k1
               /\ IsBroker(t, b, k1) /\ IsBroker(s, b, k)
  BY <1>4, NextBroker
<1> HIDE DEF s, k, k1
<1>7. BrokerKeeps(k, k1) /\ k1.sent = k.sent /\ k1.ops = k.ops /\ k1.resp = k.resp
  BY <1>3, <1>4 DEF BrokerKeeps, BrokerFields
<1>8. OtherTaken(k.ops, k1.ops) /\ RespOK(s, t, rkcg_q, srv, b)
  BY <1>6, <1>7 DEF OtherTaken, RespOK, IsBroker
<1>9. Good(t, rk_ops, rkcg_q, srv)
  BY <1>1, <1>6, <1>7, <1>8, OpsStay
<1>10. QED
  BY <1>1, <1>5, <1>6, <1>9, InvNext

LEMMA NextEpochType ==
  ASSUME NEW n \in -1 .. 1, NEW req, NEW reset
  PROVE  NextEpoch(n, req, reset) \in -1 .. 1
BY DEF NextEpoch

LEMMA RefusedStep ==
  ASSUME Inv, NEW b \in Brokers, Receive(b), Refused(b)
  PROVE  Inv'
<1> DEFINE s == State
           k == rkb[b]
           k1 == rkb'[b]
           n == NextEpoch(k.epoch, Head(k.sent), ~Session(b, Head(k.sent)))
<1>1. /\ Good(s, rk_ops, rkcg_q, srv) /\ ClusterOK(srv) /\ (\A p \in Partitions : leader[p] \in Brokers)
      /\ faults \in 0 .. MaxFaults
  BY DEF Inv
<1>2. BrokerOK(k, rk_ops, b) /\ DOMAIN rkb = Brokers
  BY <1>1 DEF State, Good, Struct, Shape
<1>3. /\ DOMAIN k = BrokerFields /\ k.epoch \in -1 .. 1 /\ (k.resp # None => k.resp \subseteq Records)
      /\ IsSeq(k.sent) /\ Exclusive(k.ops, k.sent, rk_ops, b)
  BY <1>2 DEF BrokerOK
<1>4. k.sent # <<>> /\ UNCHANGED <<app, main, rkcg_q, leader, cb, srv>>
  BY DEF Receive, Refused
<1>5. rkb' = [rkb EXCEPT ![b].sent = Tail(k.sent), ![b].epoch = n]
  BY DEF Refused
<1>6. rk_ops' = Append(rk_ops, OpReply(b, Head(k.sent), TRUE))
  BY DEF Refused
<1>7. faults' \in 0 .. MaxFaults
  BY <1>1, ShareBounds DEF Refused, Fault
<1>8. n \in -1 .. 1
  BY <1>3, NextEpochType
<1>9. Head(k.sent) = k.sent[1] /\ Tail(k.sent) = <<>>
  <2> HIDE DEF k, n
  <2>1. QED
    BY <1>3, <1>4, ReceiveOp
<1> HIDE DEF n
<1>10. OnlyBroker(b)
  BY <1>2, <1>4, <1>5 DEF OnlyBroker
<1>11. /\ DOMAIN k1 = BrokerFields /\ k1.enq = k.enq /\ k1.async = k.async /\ k1.pend = k.pend
       /\ k1.pendid = k.pendid /\ k1.term = k.term /\ k1.epoch = n /\ k1.resp = k.resp
       /\ k1.ops = k.ops /\ k1.sent = Tail(k.sent)
  BY <1>2, <1>3, <1>5 DEF BrokerFields
<1>12. PICK t : /\ IsNextState(t) /\ Replaced(s, t, b) /\ t.rkb[b] = k1
                /\ IsBroker(t, b, k1) /\ IsBroker(s, b, k)
  BY <1>10, NextBroker
<1> HIDE DEF s, k, k1
<1>13. BrokerKeeps(k, k1) /\ SentTaken(k, k1)
  BY <1>3, <1>4, <1>8, <1>9, <1>11 DEF BrokerKeeps, SentTaken, OtherTaken
<1>14. RespOK(s, t, rkcg_q, srv, b)
  BY <1>11, <1>12 DEF RespOK, IsBroker
<1>15. Good(t, Append(rk_ops, OpReply(b, k.sent[1], TRUE)), rkcg_q, srv)
  BY <1>1, <1>12, <1>13, <1>14, SentFailed
<1>16. Good(t, rk_ops', rkcg_q, srv)
  BY <1>6, <1>9, <1>15
<1>17. QED
  BY <1>1, <1>4, <1>7, <1>12, <1>16, InvNext

LEMMA RespEnqueueStep ==
  ASSUME Inv, NEW b \in Brokers, RespEnqueue(b)
  PROVE  Inv'
<1> DEFINE s == State
           k == rkb[b]
           k1 == rkb'[b]
           ids == k.resp
           w == rkcg_q
           w1 == Append(w, ids)
<1>1. /\ Good(s, rk_ops, w, srv) /\ ClusterOK(srv) /\ (\A p \in Partitions : leader[p] \in Brokers)
      /\ faults \in 0 .. MaxFaults
  BY DEF Inv
<1>2. BrokerOK(k, rk_ops, b) /\ DOMAIN rkb = Brokers
  BY <1>1 DEF State, Good, Struct, Shape
<1>3. DOMAIN k = BrokerFields /\ k.epoch \in -1 .. 1 /\ (ids # None => ids \subseteq Records)
  BY <1>2 DEF BrokerOK
<1>4. OnlyBroker(b) /\ k1 = [k EXCEPT !.resp = None]
  BY <1>2 DEF RespEnqueue, OnlyBroker
<1>5. UNCHANGED <<rk_ops, leader, srv, faults>> /\ ids # None /\ rkcg_q' = w1
  BY DEF RespEnqueue
<1>6. PICK t : /\ IsNextState(t) /\ Replaced(s, t, b) /\ t.rkb[b] = k1
               /\ IsBroker(t, b, k1) /\ IsBroker(s, b, k)
  BY <1>4, NextBroker
<1> DEFINE q == rk_ops
           v == srv
<1>7. /\ t.app = s.app /\ t.main = s.main /\ t.cb = s.cb /\ Shape(t)
      /\ \A d \in Brokers \ {b} : t.rkb[d] = s.rkb[d]
  BY <1>6 DEF Replaced
<1> HIDE DEF s, k, k1, q, v
<1>8. /\ k = s.rkb[b] /\ k1 = t.rkb[b]
  BY <1>6 DEF IsBroker
<1>9. BrokerKeeps(k, k1) /\ k1.sent = k.sent /\ k1.ops = k.ops /\ k1.resp = None
  BY <1>3, <1>4 DEF BrokerKeeps, BrokerFields
<1>10. \A d \in Brokers :
         /\ t.rkb[d].ops = s.rkb[d].ops /\ t.rkb[d].sent = s.rkb[d].sent
         /\ t.rkb[d].enq = s.rkb[d].enq /\ t.rkb[d].async = s.rkb[d].async
         /\ t.rkb[d].pend = s.rkb[d].pend /\ t.rkb[d].pendid = s.rkb[d].pendid
         /\ t.rkb[d].term = s.rkb[d].term
         /\ t.rkb[d].resp # None => t.rkb[d].resp = s.rkb[d].resp /\ d # b
  BY <1>7, <1>8, <1>9 DEF BrokerKeeps
<1>11. \A d \in Brokers : OutOf(t, q, d) = OutOf(s, q, d)
  BY <1>10 DEF OutOf
<1>12. BrokerOK(k1, q, b)
  BY <1>2, <1>9 DEF BrokerOK, BrokerKeeps, q
<1>13. Good(s, q, w, v)
  BY <1>1 DEF q, v
<1>14. Struct(t, q)
  BY <1>7, <1>8, <1>12, <1>13 DEF Good, Struct
<1>15. FetchOK(t, q)
  BY <1>7, <1>11, <1>13 DEF Good, FetchOK, Fetching
<1>16. /\ IsSeq(w) /\ IsSeq(w1) /\ DOMAIN w1 = 1 .. Len(w) + 1 /\ w1[Len(w) + 1] = ids
       /\ DOMAIN w = 1 .. Len(w) /\ Len(w) \in Nat /\ \A i \in DOMAIN w : w1[i] = w[i]
  <2>1. IsSeq(w)
    BY <1>13 DEF Good, DeliveryOK
  <2>2. QED
    BY <2>1, AppendSeq, SeqFacts
<1> HIDE DEF w, w1
<1>17. Responding(t, w1)
  <2>1. w1 # <<>>
    BY <1>16, SeqFacts
  <2>2. QED
    BY <2>1 DEF Responding
<1>18. RequestOK(t, q, w1)
  BY <1>17 DEF RequestOK
<1>19. DeliveryOK(s, w, v) /\ ids \subseteq Records
  BY <1>3, <1>5, <1>13 DEF Good
<1>20. /\ ids \cap s.app.given = {} /\ (\A r \in ids : Known(v, r) /\ v.by[r] = b)
       /\ \A i \in DOMAIN w : w[i] \cap ids = {}
  BY <1>5, <1>8, <1>19 DEF DeliveryOK, k
<1>21. \A d \in Brokers \ {b} : s.rkb[d].resp # None => s.rkb[d].resp \cap ids = {}
  BY <1>19, <1>20 DEF DeliveryOK
<1>22. DeliveryOK(t, w1, v)
  <2>1. SameSource(v, ids)
    BY <1>20 DEF SameSource
  <2>2. ASSUME NEW i \in DOMAIN w1
        PROVE  /\ w1[i] \subseteq Records /\ w1[i] \cap t.app.given = {}
               /\ \A r \in w1[i] : Known(v, r)
               /\ SameSource(v, w1[i])
               /\ \A d \in Brokers : t.rkb[d].resp # None => w1[i] \cap t.rkb[d].resp = {}
    <3>1. CASE i \in DOMAIN w
      BY <1>7, <1>10, <1>16, <1>19, <3>1 DEF DeliveryOK
    <3>2. CASE i \notin DOMAIN w
      <4>1. w1[i] = ids
        BY <1>16, <3>2
      <4>2. QED
        BY <1>7, <1>10, <1>19, <1>20, <1>21, <2>1, <4>1
    <3>3. QED
      BY <3>1, <3>2
  <2>3. ASSUME NEW i \in DOMAIN w1, NEW j \in DOMAIN w1, i # j
        PROVE  w1[i] \cap w1[j] = {}
    <3>1. CASE i \in DOMAIN w /\ j \in DOMAIN w
      BY <1>16, <1>19, <2>3, <3>1 DEF DeliveryOK
    <3>2. CASE i \in DOMAIN w /\ j \notin DOMAIN w
      BY <1>16, <1>20, <3>2
    <3>3. CASE i \notin DOMAIN w
      <4>1. i = Len(w) + 1 /\ j \in DOMAIN w
        BY <1>16, <2>3, <3>3
      <4>2. QED
        BY <1>16, <1>20, <4>1
    <3>4. QED
      BY <3>1, <3>2, <3>3
  <2>4. \A d \in Brokers : t.rkb[d].resp # None =>
          /\ t.rkb[d].resp \cap t.app.given = {}
          /\ \A r \in t.rkb[d].resp : Known(v, r) /\ v.by[r] = d
    BY <1>7, <1>10, <1>19 DEF DeliveryOK
  <2>5. /\ t.app.typed \subseteq t.app.map
        /\ t.app.map \subseteq t.app.given /\ t.app.built \subseteq t.app.given
        /\ t.app.given \subseteq Records /\ t.app.map \cap t.app.built = {}
        /\ t.app.at = "poll" => t.app.map = {}
        /\ t.app.at \notin {"close", "closed"} => t.app.given \subseteq t.app.map \cup t.app.built
        /\ \A r \in t.app.given : Known(v, r)
        /\ SameSource(v, t.app.map)
    BY <1>7, <1>19 DEF DeliveryOK
  <2>6. QED
    BY <1>16, <2>2, <2>3, <2>4, <2>5 DEF DeliveryOK
<1>23. AcksOK(t, q, v, {})
  <2>1. \A d \in Brokers, r \in Records :
          (AtOut(t, q, d, r) <=> AtOut(s, q, d, r)) /\ (Held(t, q, d, r) <=> Held(s, q, d, r))
    BY <1>10, <1>11 DEF AtOut, Held
  <2>2. AcksOK(s, q, v, {})
    BY <1>13 DEF Good
  <2>3. QED
    BY <1>7, <1>10, <2>1, <2>2 DEF AcksOK
<1>24. TruthOK(t, q, v)
  BY <1>7, <1>11, <1>13 DEF Good, TruthOK
<1>25. SyncOK(t, q, v)
  <2>1. \A o : Current(t, o) <=> Current(s, o)
    BY <1>7 DEF Current
  <2>2. Owing(t, q) = Owing(s, q)
    BY <1>10, <1>11, <2>1 DEF Owing
  <2>3. SyncPart(s, q, v, 0, {})
    BY <1>13 DEF Good, SyncOK
  <2>4. QED
    BY <1>7, <1>10, <1>11, <2>1, <2>2, <2>3 DEF SyncPart, SyncOK
<1>26. CallsOK(t, q, v)
  BY <1>7, <1>13 DEF Good, CallsOK
<1>27. LeaveOK(t, q)
  <2>1. {d \in Brokers : t.rkb[d].enq} = {d \in Brokers : s.rkb[d].enq}
    BY <1>10
  <2>2. QED
    BY <1>7, <1>10, <1>11, <1>13, <2>1 DEF Good, LeaveOK
<1>28. Good(t, q, w1, v)
  BY <1>14, <1>15, <1>18, <1>22, <1>23, <1>24, <1>25, <1>26, <1>27 DEF Good
<1>29. QED
  <2>1. Good(t, rk_ops', rkcg_q', srv')
    BY <1>5, <1>28 DEF q, v
  <2>2. QED
    BY <1>1, <1>5, <1>6, <2>1, InvNext


-----------------------------------------------------------------------------
(* The brokers: the cluster. *)

LEMMA ClusterFaultStep ==
  ASSUME Inv, ClusterFault
  PROVE  Inv'
<1>1. /\ Good(State, rk_ops, rkcg_q, srv) /\ ClusterOK(srv)
      /\ (\A p \in Partitions : leader[p] \in Brokers) /\ faults \in 0 .. MaxFaults
  BY DEF Inv
<1>2. UNCHANGED <<app, main, rkb, rk_ops, rkcg_q, leader, cb>>
  BY DEF ClusterFault
<1>3. faults' \in 0 .. MaxFaults
  <2>1. faults < MaxFaults /\ faults' = faults + 1
    BY Zenon DEF ClusterFault, Fault
  <2>2. QED
    BY <1>1, <2>1, ShareBounds
<1>4. /\ DOMAIN srv' = {"leader", "supply", "gone", "sess", "next", "by", "lock"}
      /\ srv'.next = srv.next /\ srv'.by = srv.by /\ srv'.lock = srv.lock
      /\ DOMAIN srv'.leader = Partitions /\ \A p \in Partitions : srv'.leader[p] \in Brokers
  <2>1. ASSUME NEW p \in Partitions, NEW b \in Brokers, srv' = [srv EXCEPT !.leader[p] = b]
        PROVE  <1>4!:
    BY <1>1, <2>1 DEF ClusterOK
  <2>2. ASSUME NEW b \in Brokers, NEW c \in Brokers,
               srv' = [srv EXCEPT !.gone = @ \cup {b}, !.sess[b] = FALSE,
                         !.leader = [p \in Partitions |-> IF @[p] = b THEN c ELSE @[p]]]
        PROVE  <1>4!:
    BY <1>1, <2>2 DEF ClusterOK
  <2>3. QED
    BY <2>1, <2>2 DEF ClusterFault
<1> DEFINE v == srv
           v1 == srv'
<1>5. Grows(v, v1)
  BY <1>4 DEF Grows, Known
<1>6. ClusterOK(v1)
  BY <1>1, <1>4 DEF ClusterOK, Known
<1>7. IsNextState(State)
  BY <1>2 DEF IsNextState, State
<1> HIDE DEF v, v1
<1>8. Good(State, rk_ops, rkcg_q, v1)
  BY <1>1, <1>5, GrowsOK DEF v
<1>9. Good(State, rk_ops', rkcg_q', v1)
  BY <1>2, <1>8
<1>10. \A p \in Partitions : leader'[p] \in Brokers
  BY <1>1, <1>2
<1> DEFINE t == State
<1> HIDE DEF t
<1>11. IsNextState(t) /\ Good(t, rk_ops', rkcg_q', v1)
  BY <1>7, <1>9 DEF t
<1>12. QED
  BY <1>3, <1>6, <1>10, <1>11, InvNext DEF v1

\* The acknowledgements of a request are of records the cluster has handed out.
LEMMA WireKnown ==
  ASSUME Inv, NEW b \in Brokers, rkb[b].sent # <<>>
  PROVE  LET o == rkb[b].sent[1] IN
         /\ Head(rkb[b].sent) = o /\ Tail(rkb[b].sent) = <<>> /\ IsOp(o) /\ ~o.records
         /\ CodesTrue(srv, o)
         /\ \A r \in o.acks : r \in Records /\ Known(srv, r)
<1> DEFINE k == rkb[b]
           o == k.sent[1]
           s == State
<1>1. BrokerOK(k, rk_ops, b) /\ s.rkb[b] = k
  BY DEF Inv, Good, Struct, State
<1>2. /\ IsSeq(k.sent) /\ Exclusive(k.ops, k.sent, rk_ops, b) /\ k.sent # <<>> /\ Unanswered(k.sent)
  BY <1>1 DEF BrokerOK
<1>3. /\ Head(k.sent) = o /\ Tail(k.sent) = <<>> /\ DOMAIN k.sent = {1}
      /\ OutOps(k.ops, k.sent, rk_ops, b) = {o}
  <2> HIDE DEF k
  <2>1. QED
    BY <1>2, ReceiveOp
<1>4. IsOp(o)
  BY <1>1, <1>3 DEF BrokerOK
<1>5. ~o.records
  BY <1>2, <1>3, <1>4 DEF Unanswered, IsOp
<1> HIDE DEF k, s
<1>6. OutOf(s, rk_ops, b) = {o}
  BY <1>1, <1>3 DEF OutOf
<1>7. Good(s, rk_ops, rkcg_q, srv)
  BY DEF Inv, s
<1>8. CodesTrue(srv, o)
  BY <1>6, <1>7 DEF Good, TruthOK
<1>9. ASSUME NEW r \in o.acks PROVE r \in Records /\ Known(srv, r)
  <2>1. r \in Records
    BY <1>4 DEF IsOp
  <2>2. Held(s, rk_ops, b, r)
    BY <1>6 DEF Held, AtOut
  <2>3. r \in s.app.built
    BY <1>7, <2>1, <2>2 DEF Good, AcksOK
  <2>4. QED
    BY <1>7, <2>1, <2>3 DEF Good, DeliveryOK
<1>10. QED
  BY <1>3, <1>4, <1>5, <1>8, <1>9 DEF k

\* The request is answered with e.
LEMMA SentAnswered ==
  ASSUME NEW s, NEW t, NEW q, NEW w, NEW v, NEW b \in Brokers, NEW k, NEW k1, NEW e,
         Good(s, q, w, v), Replaced(s, t, b), IsBroker(s, b, k), IsBroker(t, b, k1),
         BrokerKeeps(k, k1), SentTaken(k, k1), RespOK(s, t, w, v, b),
         ReplyOf(e, b), IsOp(e.op), SameOp(k.sent[1], e.op), Final(v, e.op),
         e.op.records => k1.resp # None
  PROVE  Good(t, Append(q, e), w, v)
<1> DEFINE o == k.sent[1]
<1>1. BrokerOK(k, q, b) /\ IsSeq(q)
  BY DEF Good, Struct, QueueOK, IsBroker
<1>2. OutOps(k.ops, k.sent, q, b) = {o}
  <2>1. IsSeq(k.sent) /\ Exclusive(k.ops, k.sent, q, b) /\ k.sent # <<>>
    BY <1>1 DEF BrokerOK, SentTaken
  <2>2. QED
    BY <2>1, ReceiveOp
<1>3. OutOf(s, q, b) = {o}
  BY <1>2 DEF OutOf, IsBroker
<1>4. SameOp(o, e.op)
  OBVIOUS
<1> HIDE DEF o
<1>5. Sole(OutOps(k1.ops, k1.sent, Append(q, e), b), e.op)
  BY <1>1, AnswersSent
<1>6. BrokerOK(k1, Append(q, e), b)
  BY <1>1, AnswersSent
<1>7. OutOf(t, Append(q, e), b) = {e.op}
  BY <1>5 DEF OutOf, IsBroker, Sole
<1>8. BrokerKeeps(s.rkb[b], t.rkb[b]) /\ BrokerOK(t.rkb[b], Append(q, e), b)
  BY <1>6 DEF IsBroker
<1>9. e.op.records => t.rkb[b].resp # None
  BY DEF IsBroker
<1>10. QED
  BY <1>3, <1>4, <1>7, <1>8, <1>9, ReplyMoves

LEMMA DisconnectStep ==
  ASSUME Inv, NEW b \in Brokers, Disconnect(b)
  PROVE  Inv'
<1> DEFINE s == State
           k == rkb[b]
           k1 == rkb'[b]
           o == Head(k.sent)
           n == IF k.sent = <<>> THEN k.epoch ELSE NextEpoch(k.epoch, o, TRUE)
           v == srv
           v1 == srv'
<1>1. /\ Good(s, rk_ops, rkcg_q, srv) /\ ClusterOK(srv) /\ (\A p \in Partitions : leader[p] \in Brokers)
      /\ faults \in 0 .. MaxFaults
  BY DEF Inv
<1>2. BrokerOK(k, rk_ops, b) /\ DOMAIN rkb = Brokers /\ IsSeq(rk_ops)
  BY <1>1 DEF State, Good, Struct, Shape, QueueOK
<1>3. DOMAIN k = BrokerFields /\ k.epoch \in -1 .. 1 /\ (k.resp # None => k.resp \subseteq Records)
  BY <1>2 DEF BrokerOK
<1>4. UNCHANGED <<app, main, rkcg_q, leader, cb>> /\ rk_ops' = rk_ops \o FailAll(b, k.sent)
  BY DEF Disconnect
<1>5. rkb' = [rkb EXCEPT ![b].up = FALSE, ![b].sent = <<>>, ![b].epoch = n]
  BY DEF Disconnect
<1>6. faults' \in 0 .. MaxFaults
  BY <1>1, ShareBounds DEF Disconnect, Fault
<1>7. n \in -1 .. 1
  BY <1>3, NextEpochType
<1>8. PICK done \in BOOLEAN, release \in BOOLEAN :
        LET lock == IF done /\ k.sent # <<>> /\ Session(b, o) THEN Acknowledged(b, o) ELSE srv.lock
        IN srv' = [srv EXCEPT !.sess[b] = FALSE, !.lock = [r \in Records |->
                     IF release /\ srv.by[r] = b /\ lock[r] = "acquired" THEN "gone" ELSE lock[r]]]
  BY DEF Disconnect
<1> DEFINE lock == IF done /\ k.sent # <<>> /\ Session(b, o) THEN Acknowledged(b, o) ELSE srv.lock
           lock1 == [r \in Records |->
                       IF release /\ srv.by[r] = b /\ lock[r] = "acquired" THEN "gone" ELSE lock[r]]
<1>9. srv' = [srv EXCEPT !.sess[b] = FALSE, !.lock = lock1]
  BY <1>8
<1>10. \A r \in Records : /\ srv.lock[r] = "done" => lock[r] = "done"
                          /\ lock[r] = "done" => Known(srv, r)
  <2>1. \A r \in Records : srv.lock[r] = "done" => Known(srv, r)
    BY <1>1 DEF ClusterOK
  <2>2. CASE lock = srv.lock
    BY <2>1, <2>2
  <2>3. CASE lock = Acknowledged(b, o) /\ k.sent # <<>>
    <3>1. IsOp(o) /\ \A r \in o.acks : Known(srv, r)
      BY <2>3, WireKnown
    <3>2. \A r \in o.wire : Known(srv, r)
      BY <3>1 DEF IsOp
    <3>3. QED
      BY <2>1, <2>3, <3>2 DEF Acknowledged
  <2>4. QED
    BY <2>2, <2>3
<1> HIDE DEF lock
<1>11. DOMAIN lock1 = Records /\ \A r \in Records : lock1[r] = "done" <=> lock[r] = "done"
  OBVIOUS
<1> HIDE DEF lock1, n, k, k1, o
<1>12. /\ DOMAIN v1 = {"leader", "supply", "gone", "sess", "next", "by", "lock"}
       /\ v1.next = v.next /\ v1.by = v.by /\ v1.leader = v.leader /\ v1.lock = lock1
  BY <1>1, <1>9 DEF ClusterOK
<1> HIDE DEF v1
<1>13. ClusterOK(v1)
  BY <1>1, <1>10, <1>11, <1>12 DEF ClusterOK, Known
<1>14. Grows(v, v1)
  BY <1>10, <1>11, <1>12 DEF Grows, Known
<1>15. Good(s, rk_ops, rkcg_q, v1)
  <2> HIDE DEF v
  <2>1. Good(s, rk_ops, rkcg_q, v)
    BY <1>1 DEF v
  <2>2. QED
    BY <1>14, <2>1, GrowsOK
<1>16. OnlyBroker(b)
  BY <1>2, <1>4, <1>5 DEF OnlyBroker
<1>17. /\ DOMAIN k1 = BrokerFields /\ k1.enq = k.enq /\ k1.async = k.async /\ k1.pend = k.pend
       /\ k1.pendid = k.pendid /\ k1.term = k.term /\ k1.epoch = n /\ k1.resp = k.resp
       /\ k1.ops = k.ops /\ k1.sent = <<>>
  BY <1>2, <1>3, <1>5 DEF BrokerFields, k, k1
<1>18. PICK t : /\ IsNextState(t) /\ Replaced(s, t, b) /\ t.rkb[b] = k1
                /\ IsBroker(t, b, k1) /\ IsBroker(s, b, k)
  BY <1>16, NextBroker DEF k, k1
<1> HIDE DEF s
<1>19. BrokerKeeps(k, k1) /\ OtherTaken(k.ops, k1.ops)
  BY <1>3, <1>7, <1>17 DEF BrokerKeeps, OtherTaken
<1>20. RespOK(s, t, rkcg_q, v1, b)
  BY <1>17, <1>18 DEF RespOK, IsBroker
<1>21. rk_ops' = IF k.sent = <<>> THEN rk_ops ELSE Append(rk_ops, OpReply(b, k.sent[1], TRUE))
  BY <1>2, <1>4, FailAllIs
<1>22. Good(t, rk_ops', rkcg_q, v1)
  <2>1. CASE k.sent = <<>>
    <3>1. k1.sent = k.sent
      BY <1>17, <2>1
    <3>2. Good(t, rk_ops, rkcg_q, v1)
      BY <1>15, <1>18, <1>19, <1>20, <3>1, OpsStay
    <3>3. QED
      BY <1>21, <2>1, <3>2
  <2>2. CASE k.sent # <<>>
    <3>1. SentTaken(k, k1)
      BY <1>17, <1>19, <2>2 DEF SentTaken
    <3>2. Good(t, Append(rk_ops, OpReply(b, k.sent[1], TRUE)), rkcg_q, v1)
      BY <1>15, <1>18, <1>19, <1>20, <3>1, SentFailed
    <3>3. QED
      BY <1>21, <2>2, <3>2
  <2>3. QED
    BY <2>1, <2>2
<1>23. Good(t, rk_ops', rkcg_q', v1) /\ \A p \in Partitions : leader'[p] \in Brokers
  BY <1>1, <1>4, <1>22
<1>24. QED
  BY <1>6, <1>13, <1>18, <1>23, InvNext DEF v1


\* The reply to request o when the cluster has carried it out and has become v1.
Answered(b, o, records) ==
  OpReply(b, [o EXCEPT !.code = AckCodes(b, o), !.records = records], FALSE)

LEMMA AnsweredIs ==
  ASSUME NEW b, NEW o, NEW v1, NEW records \in BOOLEAN, IsOp(o), CodesTrue(v1, o),
         records => o.fetch,
         \A r \in Records : r \in o.wire /\ r[1] \in Accepted(b, o) => v1.lock[r] = "done"
  PROVE  LET e == Answered(b, o, records) IN
         /\ ReplyOf(e, b) /\ IsOp(e.op) /\ SameOp(o, e.op) /\ Final(v1, e.op)
         /\ e.op.records = records
<1> DEFINE A == AckCodes(b, o)
           c == [o EXCEPT !.code = A, !.records = records]
           C == [p \in Partitions |-> IF FALSE /\ c.code[p] = "in_progress" THEN "err" ELSE c.code[p]]
           d == [c EXCEPT !.err = FALSE, !.wire = {}, !.epoch = 0, !.code = C]
           e == Answered(b, o, records)
<1>1. e.type = "REPLY" /\ e.broker = b /\ e.op = d
  BY Zenon DEF Answered, OpReply
<1>2. /\ DOMAIN A = Partitions
      /\ \A p \in Partitions :
           /\ A[p] \in Codes /\ (p \in Parts(o.acks) => A[p] # "in_progress")
           /\ A[p] = "ok" => \/ o.code[p] = "ok"
                             \/ p \in Accepted(b, o)
  BY DEF AckCodes, IsOp, Codes
<1> HIDE DEF A, e
<1>3. /\ DOMAIN c = OpFields /\ c.type = o.type /\ c.fetch = o.fetch /\ c.leave = o.leave
      /\ c.sync = o.sync /\ c.acks = o.acks /\ c.code = A /\ c.records = records
  BY DEF IsOp, OpFields
<1> HIDE DEF c
<1>4. C = A
  <2>1. A = [p \in Partitions |-> A[p]]
    BY DEF A, AckCodes
  <2>2. C = [p \in Partitions |-> A[p]]
    BY <1>3
  <2>3. QED
    BY <2>1, <2>2
<1> HIDE DEF C
<1>5. /\ DOMAIN d = OpFields /\ d.type = o.type /\ d.fetch = o.fetch /\ d.leave = o.leave
      /\ d.sync = o.sync /\ d.acks = o.acks /\ d.code = A /\ d.wire = {} /\ d.epoch = 0
      /\ d.records = records
  BY <1>3, <1>4 DEF OpFields
<1> HIDE DEF d
<1>6. IsOp(d)
  BY <1>2, <1>5 DEF IsOp
<1>7. \A r \in o.acks : r \in Records /\ r[1] \in Partitions /\ r[1] \in Parts(o.acks)
  BY RecordType DEF IsOp, Parts
<1>8. ASSUME NEW r \in o.acks, A[r[1]] = "ok" PROVE v1.lock[r] = "done"
  <2>1. CASE o.code[r[1]] = "ok"
    BY <2>1 DEF CodesTrue
  <2>2. CASE r[1] \in Accepted(b, o)
    <3>1. o.wire # {}
      BY <2>2 DEF Accepted, Parts
    <3>2. o.wire = o.acks
      BY <3>1 DEF IsOp
    <3>3. QED
      BY <1>7, <2>2, <3>2
  <2>3. QED
    BY <1>2, <1>7, <1>8, <2>1, <2>2
<1>9. Final(v1, d)
  BY <1>2, <1>5, <1>7, <1>8 DEF Final, CodesTrue
<1>10. SameOp(o, d)
  BY <1>5 DEF SameOp
<1>11. QED
  BY <1>1, <1>5, <1>6, <1>9, <1>10 DEF ReplyOf, e

\* What an answered request made of the cluster: v1.
Carried(b, o, f, v1) ==
  /\ DOMAIN v1 = {"leader", "supply", "gone", "sess", "next", "by", "lock"}
  /\ v1.leader = srv.leader /\ v1.next = f
  /\ v1.lock = [r \in Records |-> IF r \in Acquired(f) THEN "acquired" ELSE Acknowledged(b, o)[r]]
  /\ v1.by = [r \in Records |-> IF r \in Acquired(f) THEN b ELSE srv.by[r]]

LEMMA CarriedOK ==
  ASSUME ClusterOK(srv), NEW b \in Brokers, NEW o, NEW f \in Reach(b, o), NEW v1,
         Carried(b, o, f, v1), \A r \in o.wire : r \in Records /\ Known(srv, r)
  PROVE  /\ ClusterOK(v1) /\ Grows(srv, v1)
         /\ \A r \in Records : r \in o.wire /\ r[1] \in Accepted(b, o) => v1.lock[r] = "done"
         /\ \A r \in Acquired(f) : r \in Records /\ ~Known(srv, r) /\ Known(v1, r) /\ v1.by[r] = b
         /\ Acquired(f) # {} => o.fetch
<1>1. \A p \in Partitions : srv.next[p] \in Int /\ f[p] \in Int /\ f[p] >= srv.next[p]
      /\ (f[p] # srv.next[p] => o.fetch)
  <2>1. TAKE p \in Partitions
  <2>2. srv.next[p] \in Int
    BY DEF ClusterOK
  <2>3. f[p] = srv.next[p] \/ (o.fetch /\ f[p] \in srv.next[p] .. srv.supply[p] + 1)
    BY DEF Reach
  <2>4. QED
    BY <2>2, <2>3
<1>2. DOMAIN f = Partitions
  BY DEF Reach
<1>3. \A r \in Records : r[1] \in Partitions /\ r[2] \in Int
  BY RecordType
<1>4. \A r \in Acquired(f) : /\ r \in Records /\ ~(r[2] < srv.next[r[1]]) /\ r[2] < f[r[1]]
                             /\ r[1] \in Partitions
  BY <1>1, <1>3 DEF Acquired
<1>5. \A r \in Acquired(f) : r \in Records /\ ~Known(srv, r) /\ Known(v1, r) /\ v1.by[r] = b
  BY <1>4 DEF Known, Carried
<1>6. \A r \in Records : Known(srv, r) => Known(v1, r) /\ r \notin Acquired(f)
  <2>1. ASSUME NEW r \in Records, r[2] < srv.next[r[1]] PROVE r[2] < f[r[1]]
    BY <1>1, <1>3, <2>1
  <2>2. v1.next = f
    BY DEF Carried
  <2>3. QED
    BY <1>5, <2>1, <2>2 DEF Known
<1>7. \A r \in Records : v1.lock[r] = "done" <=>
         (r \notin Acquired(f) /\ ((r \in o.wire /\ r[1] \in Accepted(b, o)) \/ srv.lock[r] = "done"))
  BY DEF Carried, Acknowledged
<1>8. \A r \in Records : srv.lock[r] = "done" => Known(srv, r)
  BY DEF ClusterOK
<1>9. Grows(srv, v1)
  <2>1. \A r \in Records : r \notin Acquired(f) => v1.by[r] = srv.by[r]
    BY DEF Carried
  <2>2. QED
    BY <1>6, <1>7, <1>8, <2>1 DEF Grows
<1>10. ClusterOK(v1)
  <2>1. \A r \in Records : v1.lock[r] = "done" => Known(v1, r)
    BY <1>6, <1>7, <1>8
  <2>2. DOMAIN v1.by = Records /\ DOMAIN v1.lock = Records
    BY DEF Carried
  <2>3. QED
    BY <1>1, <1>2, <2>1, <2>2 DEF ClusterOK, Carried
<1>11. \A r \in Records : r \in o.wire /\ r[1] \in Accepted(b, o) => v1.lock[r] = "done"
  BY <1>6, <1>7
<1>12. Acquired(f) # {} => o.fetch
  <2>1. SUFFICES ASSUME NEW r \in Acquired(f) PROVE o.fetch
    OBVIOUS
  <2>2. f[r[1]] # srv.next[r[1]] /\ r[1] \in Partitions
    BY <1>1, <1>3, <1>4
  <2>3. QED
    BY <1>1, <2>2
<1>13. QED
  BY <1>5, <1>9, <1>10, <1>11, <1>12

LEMMA SucceededStep ==
  ASSUME Inv, NEW b \in Brokers, Receive(b), Succeeded(b)
  PROVE  Inv'
<1> DEFINE s == State
           k == rkb[b]
           k1 == rkb'[b]
           o == Head(k.sent)
           w == rkcg_q
           v == srv
           v1 == srv'
           n == NextEpoch(k.epoch, o, FALSE)
<1>1. /\ Good(s, rk_ops, w, v) /\ ClusterOK(v) /\ (\A p \in Partitions : leader[p] \in Brokers)
      /\ faults \in 0 .. MaxFaults
  BY DEF Inv
<1>2. BrokerOK(k, rk_ops, b) /\ DOMAIN rkb = Brokers
  BY <1>1 DEF State, Good, Struct, Shape
<1>3. /\ DOMAIN k = BrokerFields /\ k.epoch \in -1 .. 1
  BY <1>2 DEF BrokerOK
<1>4. k.sent # <<>> /\ k.resp = None /\ UNCHANGED <<app, main, rkcg_q, leader, cb>>
  BY DEF Receive
<1>5. PICK f \in Reach(b, o), records \in BOOLEAN :
        /\ \/ records = (Acquired(f) # {}) /\ UNCHANGED faults
           \/ Acquired(f) = {} /\ o.fetch /\ records /\ Fault("gap")
        /\ srv' = [srv EXCEPT
             !.sess[b] = o.epoch # -1, !.next = f,
             !.lock = [r \in Records |-> IF r \in Acquired(f) THEN "acquired"
                                         ELSE Acknowledged(b, o)[r]],
             !.by = [r \in Records |-> IF r \in Acquired(f) THEN b ELSE @[r]]]
        /\ rkb' = [rkb EXCEPT ![b].sent = Tail(@), ![b].epoch = NextEpoch(@, o, FALSE),
                              ![b].resp = IF records THEN Acquired(f) ELSE None]
        /\ rk_ops' = Append(rk_ops,
             OpReply(b, [o EXCEPT !.code = AckCodes(b, o), !.records = records], FALSE))
  BY Zenon DEF Succeeded
<1> DEFINE e == Answered(b, o, records)
           resp == IF records THEN Acquired(f) ELSE None
<1>6. rk_ops' = Append(rk_ops, e)
  BY <1>5, Zenon DEF Answered
<1>7. faults' \in 0 .. MaxFaults
  BY <1>1, <1>5, ShareBounds DEF Fault
<1>8. rkb' = [rkb EXCEPT ![b].sent = Tail(k.sent), ![b].epoch = n, ![b].resp = resp]
  BY <1>5
<1>9. o = k.sent[1] /\ Tail(k.sent) = <<>> /\ IsOp(o) /\ CodesTrue(v, o)
      /\ \A r \in o.acks : r \in Records /\ Known(v, r)
  BY <1>4, WireKnown
<1>10. \A r \in o.wire : r \in Records /\ Known(v, r)
  BY <1>9 DEF IsOp
<1>11. Carried(b, o, f, v1)
  <2> HIDE DEF o, k
  <2>1. DOMAIN srv = {"leader", "supply", "gone", "sess", "next", "by", "lock"}
    BY <1>1 DEF ClusterOK
  <2>2. QED
    BY <1>5, <2>1 DEF Carried
<1>12. n \in -1 .. 1
  BY <1>3, NextEpochType
<1>13. OnlyBroker(b)
  BY <1>2, <1>4, <1>8 DEF OnlyBroker
<1> HIDE DEF n, resp
<1>14. /\ DOMAIN k1 = BrokerFields /\ k1.enq = k.enq /\ k1.async = k.async /\ k1.pend = k.pend
       /\ k1.pendid = k.pendid /\ k1.term = k.term /\ k1.epoch = n /\ k1.resp = resp
       /\ k1.ops = k.ops /\ k1.sent = Tail(k.sent)
  BY <1>2, <1>3, <1>8 DEF BrokerFields
<1>15. PICK t : /\ IsNextState(t) /\ Replaced(s, t, b) /\ t.rkb[b] = k1
                /\ IsBroker(t, b, k1) /\ IsBroker(s, b, k)
  BY <1>13, NextBroker
<1> HIDE DEF s, k, k1, o, w, v1, e
<1>16. /\ ClusterOK(v1) /\ Grows(srv, v1)
       /\ \A r \in Records : r \in o.wire /\ r[1] \in Accepted(b, o) => v1.lock[r] = "done"
       /\ \A r \in Acquired(f) : r \in Records /\ ~Known(srv, r) /\ Known(v1, r) /\ v1.by[r] = b
       /\ Acquired(f) # {} => o.fetch
  BY <1>1, <1>5, <1>10, <1>11, CarriedOK
<1> HIDE DEF v
<1>17. Good(s, rk_ops, w, v1)
  <2>1. Grows(v, v1)
    BY <1>16 DEF v
  <2>2. QED
    BY <1>1, <2>1, GrowsOK
<1>18. CodesTrue(v1, o)
  <2>1. Grows(v, v1)
    BY <1>16 DEF v
  <2>2. QED
    BY <1>9, <2>1 DEF CodesTrue, Grows
<1>19. records => o.fetch
  BY <1>5, <1>16
<1>20. /\ ReplyOf(e, b) /\ IsOp(e.op) /\ SameOp(o, e.op) /\ Final(v1, e.op)
       /\ e.op.records = records
  BY <1>9, <1>16, <1>18, <1>19, AnsweredIs DEF e
<1>21. Acquired(f) \subseteq Records /\ Acquired(f) # None
  BY <1>16, NoneIsNoResponse
<1>22. e.op.records => k1.resp # None
  BY <1>14, <1>20, <1>21 DEF resp
<1>23. BrokerKeeps(k, k1) /\ SentTaken(k, k1)
  BY <1>3, <1>4, <1>9, <1>12, <1>14, <1>21 DEF BrokerKeeps, SentTaken, OtherTaken, resp
<1>24. Fresh(s, w, v1, b, Acquired(f))
  <2>1. DeliveryOK(s, w, v)
    BY <1>1 DEF Good
  <2>2. \A r \in Acquired(f) : ~Known(v, r)
    BY <1>16 DEF v
  <2>3. Acquired(f) \cap s.app.given = {}
    BY <2>1, <2>2 DEF DeliveryOK
  <2>4. \A i \in DOMAIN w : w[i] \cap Acquired(f) = {}
    BY <2>1, <2>2 DEF DeliveryOK
  <2>5. QED
    BY <1>16, <2>3, <2>4 DEF Fresh
<1>25. RespOK(s, t, w, v1, b)
  BY <1>4, <1>14, <1>15, <1>24 DEF RespOK, IsBroker, resp
<1>26. SameOp(k.sent[1], e.op)
  BY <1>9, <1>20
<1>27. Good(t, Append(rk_ops, e), w, v1)
  BY <1>15, <1>17, <1>20, <1>22, <1>23, <1>25, <1>26, SentAnswered
<1>28. Good(t, rk_ops', rkcg_q', v1) /\ \A p \in Partitions : leader'[p] \in Brokers
  BY <1>1, <1>4, <1>6, <1>27 DEF w
<1>29. QED
  BY <1>7, <1>15, <1>16, <1>28, InvNext DEF v1

LEMMA ReceiveStep ==
  ASSUME Inv, NEW b \in Brokers, Receive(b)
  PROVE  Inv'
BY SucceededStep, RefusedStep DEF Receive


-----------------------------------------------------------------------------
(* The application gets records and acknowledges them. *)

\* Only the map and the state of the call change, and the queue of responses.
AppMoves(s, t) ==
  /\ Shape(t) /\ t.main = s.main /\ t.rkb = s.rkb /\ t.cb = s.cb
  /\ t.app.built = s.app.built /\ t.app.synced = s.app.synced /\ t.app.result = s.app.result
  /\ t.app.at = s.app.at \/ (s.app.at = "poll" /\ t.app.at = "idle")

LEMMA AppMovesOK ==
  ASSUME NEW s, NEW t, NEW q, NEW w, NEW w1, NEW v, Good(s, q, w, v), AppMoves(s, t),
         DeliveryOK(t, w1, v), RequestOK(t, q, w1)
  PROVE  Good(t, q, w1, v)
<1>1. /\ Shape(t) /\ t.main = s.main /\ t.rkb = s.rkb /\ t.cb = s.cb
      /\ t.app.built = s.app.built /\ t.app.synced = s.app.synced /\ t.app.result = s.app.result
      /\ t.app.at = s.app.at \/ (s.app.at = "poll" /\ t.app.at = "idle")
  BY DEF AppMoves
<1>2. \A b : OutOf(t, q, b) = OutOf(s, q, b)
  BY <1>1 DEF OutOf
<1>3. \A o : Current(t, o) <=> Current(s, o)
  BY <1>1 DEF Current
<1>4. Struct(t, q)
  BY <1>1 DEF Good, Struct
<1>5. FetchOK(t, q)
  BY <1>1, <1>2 DEF Good, FetchOK, Fetching
<1>6. AcksOK(t, q, v, {})
  BY <1>1, <1>2 DEF Good, AcksOK, Held, AtOut
<1>7. TruthOK(t, q, v)
  BY <1>1, <1>2 DEF Good, TruthOK
<1>8. SyncOK(t, q, v)
  <2>1. Owing(t, q) = Owing(s, q)
    BY <1>1, <1>2, <1>3 DEF Owing
  <2>2. SyncPart(s, q, v, 0, {})
    BY DEF Good, SyncOK
  <2>3. s.main.sync.id # 0 => t.app.at = "sync"
    BY <1>1, <2>2 DEF SyncPart
  <2>4. QED
    BY <1>1, <1>2, <1>3, <2>1, <2>2, <2>3 DEF SyncPart, SyncOK
<1>9. CallsOK(t, q, v)
  BY <1>1 DEF Good, CallsOK
<1>10. LeaveOK(t, q)
  BY <1>1, <1>2 DEF Good, LeaveOK
<1>11. QED
  BY <1>4, <1>5, <1>6, <1>7, <1>8, <1>9, <1>10 DEF Good

LEMMA AcknowledgeStep ==
  ASSUME Inv, NEW r \in Records, Acknowledge(r)
  PROVE  Inv'
<1> DEFINE s == State
           t == [State EXCEPT !.app = app']
<1>1. Good(s, rk_ops, rkcg_q, srv)
  BY DEF Inv
<1>2. r \in s.app.map /\ UNCHANGED <<rk_ops, rkcg_q, leader, srv, faults>>
  BY DEF Acknowledge, State
<1>3. /\ DOMAIN t = {"app", "main", "rkb", "cb"} /\ t.main = s.main /\ t.rkb = s.rkb /\ t.cb = s.cb
      /\ t.app = [s.app EXCEPT !.typed = @ \cup {r}]
  BY DEF Acknowledge, State
<1>4. Becomes(t)
  BY DEF Acknowledge, State, Becomes
<1> HIDE DEF s, t
<1>5. DOMAIN s.app = AppFields
  BY <1>1 DEF Good, Struct, Shape
<1>6. /\ DOMAIN t.app = AppFields /\ t.app.at = s.app.at /\ t.app.requested = s.app.requested
      /\ t.app.map = s.app.map /\ t.app.typed = s.app.typed \cup {r} /\ t.app.synced = s.app.synced
      /\ t.app.result = s.app.result /\ t.app.built = s.app.built /\ t.app.given = s.app.given
  BY <1>3, <1>5 DEF AppFields
<1>7. AppMoves(s, t)
  <2>1. Shape(t)
    BY <1>1, <1>3, <1>6 DEF Good, Struct, Shape
  <2>2. QED
    BY <1>3, <1>6, <2>1 DEF AppMoves
<1>8. RequestOK(t, rk_ops, rkcg_q)
  <2>1. Responding(t, rkcg_q) <=> Responding(s, rkcg_q)
    BY <1>3 DEF Responding
  <2>2. QED
    BY <1>1, <1>3, <1>6, <2>1 DEF Good, RequestOK
<1>9. DeliveryOK(t, rkcg_q, srv)
  BY <1>1, <1>2, <1>3, <1>6 DEF Good, DeliveryOK
<1>10. Good(t, rk_ops, rkcg_q, srv)
  BY <1>1, <1>7, <1>8, <1>9, AppMovesOK
<1>11. QED
  BY <1>2, <1>4, <1>10, MainStep

LEMMA PollReturnStep ==
  ASSUME Inv, PollReturn
  PROVE  Inv'
<1> DEFINE s == State
           t == [State EXCEPT !.app = app']
           w == rkcg_q
           w1 == Tail(w)
           ids == Head(w)
           kept == {r \in app.map : r[1] \notin Parts(ids)}
<1>1. Good(s, rk_ops, w, srv)
  BY DEF Inv
<1>2. s.app.at = "poll" /\ UNCHANGED <<rk_ops, leader, srv, faults>>
  BY DEF PollReturn, State
<1>3. /\ DOMAIN t = {"app", "main", "rkb", "cb"} /\ t.main = s.main /\ t.rkb = s.rkb /\ t.cb = s.cb
      /\ s.app = app /\ t.app = app'
  BY DEF State
<1>4. Becomes(t)
  BY DEF PollReturn, State, Becomes
<1>5. \/ /\ rkcg_q' = w /\ t.app = [s.app EXCEPT !.at = "idle"]
      \/ /\ w # <<>> /\ rkcg_q' = w1
         /\ t.app = [s.app EXCEPT !.at = "idle", !.requested = FALSE, !.given = @ \cup ids,
                                  !.map = kept \cup ids, !.typed = @ \cap kept]
  BY <1>3 DEF PollReturn
<1>6. DOMAIN s.app = AppFields
  BY <1>1 DEF Good, Struct, Shape
<1>7. s.app.map = {} /\ s.app.typed = {} /\ kept = {}
  BY <1>1, <1>2, <1>3 DEF Good, DeliveryOK
<1> HIDE DEF s, t, w, kept, ids
<1>8. ASSUME rkcg_q' = w, t.app = [s.app EXCEPT !.at = "idle"]
      PROVE  Inv'
  <2>1. /\ DOMAIN t.app = AppFields /\ t.app.at = "idle" /\ t.app.requested = s.app.requested
        /\ t.app.map = s.app.map /\ t.app.typed = s.app.typed /\ t.app.synced = s.app.synced
        /\ t.app.result = s.app.result /\ t.app.built = s.app.built /\ t.app.given = s.app.given
    BY <1>6, <1>8 DEF AppFields
  <2>2. AppMoves(s, t)
    <3>1. Shape(t)
      BY <1>1, <1>3, <2>1 DEF Good, Struct, Shape, CallStates
    <3>2. QED
      BY <1>2, <1>3, <2>1, <3>1 DEF AppMoves
  <2>3. RequestOK(t, rk_ops, w)
    <3>1. Responding(t, w) <=> Responding(s, w)
      BY <1>3 DEF Responding
    <3>2. QED
      BY <1>1, <1>2, <1>3, <2>1, <3>1 DEF Good, RequestOK
  <2>4. DeliveryOK(t, w, srv)
    BY <1>1, <1>2, <1>3, <2>1 DEF Good, DeliveryOK
  <2>5. Good(t, rk_ops, w, srv)
    BY <1>1, <2>2, <2>3, <2>4, AppMovesOK
  <2>6. QED
    BY <1>2, <1>4, <1>8, <2>5, MainStep
<1>9. ASSUME w # <<>>, rkcg_q' = w1,
             t.app = [s.app EXCEPT !.at = "idle", !.requested = FALSE, !.given = @ \cup ids,
                                   !.map = kept \cup ids, !.typed = @ \cap kept]
      PROVE  Inv'
  <2>1. /\ DOMAIN t.app = AppFields /\ t.app.at = "idle" /\ t.app.requested = FALSE
        /\ t.app.map = ids /\ t.app.typed = {} /\ t.app.synced = s.app.synced
        /\ t.app.result = s.app.result /\ t.app.built = s.app.built
        /\ t.app.given = s.app.given \cup ids
    BY <1>6, <1>7, <1>9 DEF AppFields
  <2>2. AppMoves(s, t)
    <3>1. Shape(t)
      BY <1>1, <1>3, <2>1 DEF Good, Struct, Shape, CallStates
    <3>2. QED
      BY <1>2, <1>3, <2>1, <3>1 DEF AppMoves
  <2>3. RequestOK(t, rk_ops, w1)
    BY <2>1 DEF RequestOK
  <2>4. DeliveryOK(s, w, srv) /\ IsSeq(w)
    BY <1>1 DEF Good, DeliveryOK
  <2>5. /\ IsSeq(w1) /\ ids = w[1] /\ 1 \in DOMAIN w
        /\ \A i \in DOMAIN w1 : w1[i] = w[i + 1] /\ i + 1 \in DOMAIN w /\ i \in Nat /\ i # 0
    <3>1. DOMAIN w1 = 1 .. Len(w) - 1 /\ Len(w) \in Nat
      BY <1>9, <2>4, TailSeq, SeqFacts
    <3>2. QED
      BY <1>9, <2>4, <3>1, TailSeq DEF ids
  <2> HIDE DEF w1
  <2>6. /\ ids \subseteq Records /\ ids \cap s.app.given = {} /\ SameSource(srv, ids)
        /\ (\A r \in ids : Known(srv, r))
        /\ (\A j \in DOMAIN w : j # 1 => w[j] \cap ids = {})
        /\ \A b \in Brokers : s.rkb[b].resp # None => ids \cap s.rkb[b].resp = {}
    BY <2>4, <2>5 DEF DeliveryOK
  <2>7. DeliveryOK(t, w1, srv)
    <3>1. ASSUME NEW i \in DOMAIN w1
          PROVE  /\ w1[i] \subseteq Records /\ w1[i] \cap t.app.given = {}
                 /\ \A r \in w1[i] : Known(srv, r)
                 /\ SameSource(srv, w1[i])
                 /\ \A b \in Brokers : t.rkb[b].resp # None => w1[i] \cap t.rkb[b].resp = {}
      <4>1. w1[i] = w[i + 1] /\ i + 1 \in DOMAIN w /\ i + 1 # 1
        BY <2>5
      <4>2. w[i + 1] \cap ids = {}
        BY <2>6, <4>1
      <4>3. QED
        BY <1>3, <2>1, <2>4, <4>1, <4>2 DEF DeliveryOK
    <3>2. ASSUME NEW i \in DOMAIN w1, NEW j \in DOMAIN w1, i # j
          PROVE  w1[i] \cap w1[j] = {}
      <4>1. /\ w1[i] = w[i + 1] /\ i + 1 \in DOMAIN w /\ w1[j] = w[j + 1] /\ j + 1 \in DOMAIN w
            /\ i + 1 # j + 1
        BY <2>5, <3>2
      <4>2. QED
        BY <2>4, <4>1 DEF DeliveryOK
    <3>3. \A b \in Brokers : t.rkb[b].resp # None =>
            /\ t.rkb[b].resp \cap t.app.given = {}
            /\ \A r \in t.rkb[b].resp : Known(srv, r) /\ srv.by[r] = b
      BY <1>3, <2>1, <2>4, <2>6 DEF DeliveryOK
    <3>4. /\ t.app.typed \subseteq t.app.map
          /\ t.app.map \subseteq t.app.given /\ t.app.built \subseteq t.app.given
          /\ t.app.given \subseteq Records /\ t.app.map \cap t.app.built = {}
          /\ t.app.at = "poll" => t.app.map = {}
          /\ t.app.at \notin {"close", "closed"} => t.app.given \subseteq t.app.map \cup t.app.built
          /\ \A r \in t.app.given : Known(srv, r)
          /\ SameSource(srv, t.app.map)
      BY <1>2, <1>7, <2>1, <2>4, <2>6 DEF DeliveryOK
    <3>5. QED
      BY <2>5, <3>1, <3>2, <3>3, <3>4 DEF DeliveryOK
  <2>8. Good(t, rk_ops, w1, srv)
    BY <1>1, <2>2, <2>3, <2>7, AppMovesOK
  <2>9. QED
    BY <1>2, <1>4, <1>9, <2>8, MainStep
<1>10. QED
  BY <1>5, <1>8, <1>9


-----------------------------------------------------------------------------
(* The application calls: what it has acknowledged goes to the main thread. *)

\* The queue q has become z: it may have got one op, which takes acks along.
Queued(q, z, type, acks) ==
  /\ QueueOK(z) /\ type # "REPLY"
  /\ \A i \in DOMAIN q : i \in DOMAIN z /\ z[i] = q[i]
  /\ \A i \in DOMAIN z : i \in DOMAIN q \/
       /\ z[i].type = type /\ z[i].acks = acks
       /\ \A j \in DOMAIN z : ~(i < j) /\ (j \notin DOMAIN q => i = j)
  /\ acks # {} => \E i \in DOMAIN z : i \notin DOMAIN q
  /\ \A x, y, b : /\ OutOps(x, y, z, b) = OutOps(x, y, q, b)
                  /\ Exclusive(x, y, q, b) => Exclusive(x, y, z, b)

LEMMA QueuedAppend ==
  ASSUME NEW q, NEW e, QueueOK(q), e.type \in QueueTypes \ {"REPLY"}, e.acks \subseteq Records
  PROVE  Queued(q, Append(q, e), e.type, e.acks)
<1> DEFINE z == Append(q, e)
<1>1. /\ IsSeq(z) /\ DOMAIN z = 1 .. Len(q) + 1 /\ z[Len(q) + 1] = e /\ DOMAIN q = 1 .. Len(q)
      /\ Len(q) \in Nat /\ \A i \in DOMAIN q : z[i] = q[i]
  BY AppendSeq, SeqFacts DEF QueueOK
<1>2. ASSUME NEW x, NEW y, NEW b
      PROVE  /\ OutOps(x, y, z, b) = OutOps(x, y, q, b)
             /\ Exclusive(x, y, q, b) => Exclusive(x, y, z, b)
  <2>1. IsSeq(q) /\ ~(e.type = "REPLY" /\ e.broker = b)
    BY DEF QueueOK
  <2>2. QED
    BY <2>1, QueueAppendOther
<1> HIDE DEF z
<1>3. \A i \in DOMAIN z : i \in DOMAIN q \/ i = Len(q) + 1
  BY <1>1
<1>4. QueueOK(z)
  BY <1>1, <1>3 DEF QueueOK
<1>5. \A i \in DOMAIN z : i \in DOMAIN q \/
        /\ z[i].type = e.type /\ z[i].acks = e.acks
        /\ \A j \in DOMAIN z : ~(i < j) /\ (j \notin DOMAIN q => i = j)
  BY <1>1, <1>3
<1>6. Len(q) + 1 \in DOMAIN z /\ Len(q) + 1 \notin DOMAIN q
  BY <1>1
<1>7. QED
  BY <1>1, <1>2, <1>4, <1>5, <1>6 DEF Queued, z

LEMMA QueuedNothing ==
  ASSUME NEW q, NEW type, QueueOK(q), type # "REPLY"
  PROVE  Queued(q, q, type, {})
BY DEF Queued

\* The call: acks leave the map.
Called(s, t, type, acks) ==
  /\ Shape(t) /\ t.main = s.main /\ t.rkb = s.rkb /\ t.cb = s.cb
  /\ s.app.at = "idle" /\ t.app.at \in {"idle", "poll", "sync", "close"}
  /\ acks \subseteq s.app.map /\ t.app.map \subseteq s.app.map \ acks
  /\ t.app.at # "close" => t.app.map = s.app.map \ acks
  /\ t.app.at = "poll" => t.app.map = {}
  /\ t.app.typed = {} /\ t.app.built = s.app.built \cup acks /\ t.app.given = s.app.given
  /\ t.app.synced \subseteq acks /\ \A p \in Partitions : t.app.result[p] = "absent"
  /\ type = "COMMIT_SYNC_FANOUT" => t.app.at = "sync" /\ t.app.synced = acks
  /\ type = "TERMINATE" => t.app.at = "close"
  /\ t.app.at = "close" => Overlap \/ \A b \in Brokers : s.rkb[b].term => ~s.rkb[b].enq

\* The application asks for records only with an op that says so.
Asked(s, t, q, z) ==
  t.app.requested => s.app.requested \/ \E i \in DOMAIN z : i \notin DOMAIN q /\ IsRequest(z[i])

LEMMA CalledOK ==
  ASSUME NEW s, NEW t, NEW q, NEW z, NEW w, NEW v, NEW type, NEW acks, Good(s, q, w, v),
         Queued(q, z, type, acks), Called(s, t, type, acks), Asked(s, t, q, z)
  PROVE  Good(t, z, w, v)
<1>1. /\ Struct(s, q) /\ FetchOK(s, q) /\ RequestOK(s, q, w) /\ DeliveryOK(s, w, v)
      /\ AcksOK(s, q, v, {}) /\ TruthOK(s, q, v) /\ SyncPart(s, q, v, 0, {}) /\ CallsOK(s, q, v)
      /\ LeaveOK(s, q)
  BY DEF Good, SyncOK
<1>2. /\ Shape(t) /\ t.main = s.main /\ t.rkb = s.rkb /\ t.cb = s.cb /\ s.app.at = "idle"
      /\ acks \subseteq s.app.map /\ t.app.built = s.app.built \cup acks /\ t.app.given = s.app.given
  BY DEF Called
<1>3. /\ QueueOK(z) /\ type # "REPLY" /\ \A i \in DOMAIN q : i \in DOMAIN z /\ z[i] = q[i]
  BY DEF Queued
<1>4. \A i \in DOMAIN z : i \in DOMAIN q \/
        /\ z[i].type = type /\ z[i].acks = acks
        /\ \A j \in DOMAIN z : ~(i < j) /\ (j \notin DOMAIN q => i = j)
  BY DEF Queued
<1>5. \A b : OutOf(t, z, b) = OutOf(s, q, b)
  BY <1>2 DEF OutOf, Queued
<1>6. acks \subseteq Records /\ acks \cap s.app.built = {}
  BY <1>1, <1>2 DEF DeliveryOK
<1>7. ~s.main.terminate /\ s.main.sync.id = 0
  BY <1>1, <1>2 DEF CallsOK, SyncPart
<1>8. \A i \in DOMAIN q : q[i].type \notin {"COMMIT_SYNC_FANOUT", "TERMINATE"}
  BY <1>1, <1>2 DEF CallsOK
<1>9. Struct(t, z)
  <2>1. ASSUME NEW b \in Brokers PROVE BrokerOK(t.rkb[b], z, b)
    <3> DEFINE k == s.rkb[b]
    <3>1. BrokerOK(k, q, b) /\ t.rkb[b] = k
      BY <1>1, <1>2 DEF Struct
    <3> HIDE DEF k
    <3>2. OutOps(k.ops, k.sent, z, b) = OutOps(k.ops, k.sent, q, b)
      BY DEF Queued
    <3>3. Exclusive(k.ops, k.sent, q, b) => Exclusive(k.ops, k.sent, z, b)
      BY DEF Queued
    <3>4. QED
      BY <3>1, <3>2, <3>3 DEF BrokerOK
  <2>2. QED
    BY <1>2, <1>3, <2>1 DEF Struct
<1>10. FetchOK(t, z)
  BY <1>1, <1>2, <1>5 DEF FetchOK, Fetching
<1>11. RequestOK(t, z, w)
  <2>1. Responding(t, w) <=> Responding(s, w)
    BY <1>2 DEF Responding
  <2>2. \A i \in DOMAIN q : i \in Int
    BY <1>1, SeqFacts DEF Struct, QueueOK
  <2>3. \A i \in DOMAIN z : i \in Int
    BY <1>3, SeqFacts DEF QueueOK
  <2>4. \A i \in DOMAIN z, j \in DOMAIN q : i \notin DOMAIN q => j < i
    <3>1. ASSUME NEW i \in DOMAIN z, NEW j \in DOMAIN q, i \notin DOMAIN q PROVE j < i
      <4>1. ~(i < j) /\ i # j /\ i \in Int /\ j \in Int
        BY <1>3, <1>4, <2>2, <2>3, <3>1
      <4>2. QED
        BY <4>1
    <3>2. QED
      BY <3>1
  <2>5. ASSUME NEW i \in DOMAIN z, z[i].type = "REPLY", z[i].op.records, t.app.requested
        PROVE  Responding(t, w) \/ \E j \in DOMAIN z : i < j /\ IsRequest(z[j])
    <3>1. i \in DOMAIN q /\ z[i] = q[i]
      BY <1>3, <1>4, <2>5
    <3>2. CASE s.app.requested
      <4>1. Responding(s, w) \/ \E j \in DOMAIN q : i < j /\ IsRequest(q[j])
        BY <1>1, <2>5, <3>1, <3>2 DEF RequestOK
      <4>2. QED
        BY <1>3, <2>1, <4>1
    <3>3. CASE \E j \in DOMAIN z : j \notin DOMAIN q /\ IsRequest(z[j])
      BY <2>4, <3>1, <3>3
    <3>4. QED
      BY <2>5, <3>2, <3>3 DEF Asked
  <2>6. ASSUME t.app.requested, ~t.main.terminate, t.app.at \notin {"close", "closed"}
        PROVE  \/ t.main.more \/ Responding(t, w)
               \/ \E i \in DOMAIN z : IsRequest(z[i])
    <3>1. CASE s.app.requested
      <4>1. s.main.more \/ Responding(s, w) \/ \E i \in DOMAIN q : IsRequest(q[i])
        BY <1>1, <1>2, <1>7, <3>1 DEF RequestOK
      <4>2. QED
        BY <1>2, <1>3, <2>1, <4>1
    <3>2. QED
      BY <2>6, <3>1 DEF Asked
  <2>7. QED
    BY <2>5, <2>6 DEF RequestOK
<1>12. DeliveryOK(t, w, v)
  <2>1. SameSource(v, t.app.map)
    BY <1>1 DEF DeliveryOK, SameSource, Called
  <2>2. /\ t.app.typed \subseteq t.app.map
        /\ t.app.map \subseteq t.app.given /\ t.app.built \subseteq t.app.given
        /\ t.app.given \subseteq Records /\ t.app.map \cap t.app.built = {}
        /\ t.app.at = "poll" => t.app.map = {}
        /\ t.app.at \notin {"close", "closed"} => t.app.given \subseteq t.app.map \cup t.app.built
        /\ \A r \in t.app.given : Known(v, r)
    BY <1>1, <1>2 DEF DeliveryOK, Called
  <2>3. QED
    BY <1>1, <1>2, <2>1, <2>2 DEF DeliveryOK
<1>13. AcksOK(t, z, v, {})
  <2>1. \A r \in Records : InFanout(z, r) <=> InFanout(q, r) \/ r \in acks
    <3>1. ASSUME NEW r \in Records, InFanout(z, r) PROVE InFanout(q, r) \/ r \in acks
      BY <1>3, <1>4, <3>1 DEF InFanout
    <3>2. ASSUME NEW r \in Records, InFanout(q, r) PROVE InFanout(z, r)
      BY <1>3, <3>2 DEF InFanout
    <3>3. ASSUME NEW r \in acks PROVE InFanout(z, r)
      BY <1>3, <1>4, <3>3 DEF InFanout, Queued
    <3>4. QED
      BY <3>1, <3>2, <3>3
  <2>2. \A b \in Brokers, r \in Records :
          (AtOut(t, z, b, r) <=> AtOut(s, q, b, r)) /\ (Held(t, z, b, r) <=> Held(s, q, b, r))
    BY <1>2, <1>5 DEF AtOut, Held
  <2>3. \A r \in Records : InFanout(q, r) \/ (\E b \in Brokers : Held(s, q, b, r)) => r \in s.app.built
    BY <1>1 DEF AcksOK
  <2>4. \A r \in acks : s.cb[r] = "none"
    BY <1>1, <1>6 DEF AcksOK
  <2>5. \A r \in Records : t.cb[r] # "none" => r \in t.app.built
    BY <1>1, <1>2 DEF AcksOK
  <2>6. \A r \in Records :
          (r \in t.app.built /\ t.cb[r] = "none") <=>
            (r \in {} \/ InFanout(z, r) \/ \E b \in Brokers : Held(t, z, b, r))
    <3>1. \A r \in Records :
            (r \in s.app.built /\ s.cb[r] = "none") <=>
              (InFanout(q, r) \/ \E b \in Brokers : Held(s, q, b, r))
      BY <1>1 DEF AcksOK
    <3>2. QED
      BY <1>2, <2>1, <2>2, <2>4, <3>1
  <2>7. \A b \in Brokers, r \in Records : Held(t, z, b, r) =>
          /\ v.by[r] = b /\ r \notin {} /\ ~InFanout(z, r)
          /\ ~(r \in t.rkb[b].async /\ r \in t.rkb[b].pend)
          /\ ~(r \in t.rkb[b].async /\ AtOut(t, z, b, r))
          /\ ~(r \in t.rkb[b].pend /\ AtOut(t, z, b, r))
    <3>1. TAKE b \in Brokers, r \in Records
    <3>2. HAVE Held(t, z, b, r)
    <3>3. Held(s, q, b, r) /\ r \in s.app.built
      BY <2>2, <2>3, <3>2
    <3>4. /\ v.by[r] = b /\ ~InFanout(q, r)
          /\ ~(r \in s.rkb[b].async /\ r \in s.rkb[b].pend)
          /\ ~(r \in s.rkb[b].async /\ AtOut(s, q, b, r))
          /\ ~(r \in s.rkb[b].pend /\ AtOut(s, q, b, r))
      BY <1>1, <3>3 DEF AcksOK
    <3>5. QED
      BY <1>2, <1>6, <2>1, <2>2, <3>3, <3>4
  <2>8. ASSUME NEW i \in DOMAIN z, NEW j \in DOMAIN z, z[i].type # "REPLY", z[j].type # "REPLY", i # j
        PROVE  z[i].acks \cap z[j].acks = {}
    <3>1. ASSUME NEW k \in DOMAIN q, q[k].type # "REPLY" PROVE q[k].acks \cap acks = {}
      <4>1. \A r \in q[k].acks : r \in Records /\ InFanout(q, r)
        BY <1>1, <3>1 DEF InFanout, Struct, QueueOK
      <4>2. QED
        BY <1>6, <2>3, <4>1
    <3>2. CASE i \in DOMAIN q /\ j \in DOMAIN q
      BY <1>1, <1>3, <2>8, <3>2 DEF AcksOK
    <3>3. CASE i \in DOMAIN q /\ j \notin DOMAIN q
      BY <1>3, <1>4, <2>8, <3>1, <3>3
    <3>4. CASE i \notin DOMAIN q /\ j \in DOMAIN q
      <4>1. z[i].acks = acks /\ z[j] = q[j]
        BY <1>3, <1>4, <3>4
      <4>2. q[j].acks \cap acks = {}
        BY <2>8, <3>1, <3>4, <4>1
      <4>3. QED
        BY <4>1, <4>2
    <3>5. CASE i \notin DOMAIN q /\ j \notin DOMAIN q
      BY <1>4, <2>8, <3>5
    <3>6. QED
      BY <3>2, <3>3, <3>4, <3>5
  <2>9. QED
    BY <2>5, <2>6, <2>7, <2>8 DEF AcksOK
<1>14. TruthOK(t, z, v)
  <2>1. Shape(t) /\ \A r \in t.app.synced : r[1] \in Partitions
    BY <1>2, <1>6, RecordType DEF Called
  <2>2. \A i \in DOMAIN z : z[i].type = "REPLY" => i \in DOMAIN q /\ z[i] = q[i]
    BY <1>3, <1>4
  <2>3. QED
    BY <1>1, <1>2, <1>5, <2>1, <2>2 DEF TruthOK, Called
<1>15. SyncPart(t, z, v, 0, {})
  <2>1. \A o : ~Current(t, o) /\ ~Current(s, o)
    BY <1>2, <1>7 DEF Current
  <2>2. Owing(t, z) = Owing(s, q)
    BY <1>2, <1>5, <2>1 DEF Owing
  <2>3. t.app.synced \subseteq Records /\ t.app.synced \subseteq t.app.built
    BY <1>2, <1>6 DEF Called
  <2>4. t.main.sync.results = [p \in Partitions |-> "absent"] /\ \A b \in Brokers : t.rkb[b].pend = {}
    BY <1>1, <1>2, <1>7 DEF SyncPart
  <2>5. /\ t.main.sync.id \in {0, t.main.counter} /\ t.main.sync.cnt = Cardinality(Owing(t, z)) + 0
        /\ \A b \in Brokers : \A o \in OutOf(t, z, b) : o.sync <= t.main.counter
    BY <1>1, <1>2, <1>5, <2>2 DEF SyncPart
  <2>6. QED
    BY <1>2, <1>7, <2>1, <2>3, <2>4, <2>5 DEF SyncPart
<1>16. CallsOK(t, z, v)
  <2>1. ASSUME NEW i \in DOMAIN z, z[i].type = "COMMIT_SYNC_FANOUT"
        PROVE  /\ t.app.at = "sync" /\ t.main.sync.id = 0 /\ z[i].acks = t.app.synced
               /\ SameSource(v, z[i].acks)
               /\ \A j \in DOMAIN z : z[j].type = "COMMIT_SYNC_FANOUT" => i = j
    <3>1. i \notin DOMAIN q /\ type = "COMMIT_SYNC_FANOUT" /\ z[i].acks = acks
      BY <1>3, <1>4, <1>8, <2>1
    <3>2. SameSource(v, acks)
      BY <1>1, <1>2 DEF DeliveryOK, SameSource
    <3>3. \A j \in DOMAIN z : z[j].type = "COMMIT_SYNC_FANOUT" => i = j
      BY <1>3, <1>4, <1>8, <3>1
    <3>4. QED
      BY <1>2, <1>7, <3>1, <3>2, <3>3 DEF Called
  <2>2. ASSUME NEW i \in DOMAIN z, z[i].type = "TERMINATE"
        PROVE  /\ t.app.at = "close" /\ ~t.main.terminate
               /\ \A j \in DOMAIN z : i < j => z[j].type = "REPLY"
    <3>1. i \notin DOMAIN q /\ type = "TERMINATE"
      BY <1>3, <1>4, <1>8, <2>2
    <3>2. QED
      BY <1>2, <1>4, <1>7, <3>1 DEF Called
  <2>3. t.app.at # "closed"
    BY DEF Called
  <2>4. QED
    BY <1>2, <1>7, <2>1, <2>2, <2>3 DEF CallsOK
<1>17. LeaveOK(t, z)
  <2>1. t.app.at # "closed"
    BY DEF Called
  <2>2. ~Overlap /\ t.app.at = "close" => \A b \in Brokers : t.rkb[b].term => ~t.rkb[b].enq
    BY <1>2 DEF Called
  <2>3. QED
    BY <1>1, <1>2, <1>5, <1>7, <2>1, <2>2 DEF LeaveOK
<1>18. QED
  BY <1>9, <1>10, <1>11, <1>12, <1>13, <1>14, <1>15, <1>16, <1>17 DEF Good, SyncOK


LEMMA BuildDoes ==
  ASSUME NEW at, NEW acks, DOMAIN app = AppFields
  PROVE  LET a == Build(at, acks) IN
         /\ DOMAIN a = AppFields /\ a.at = at /\ a.requested = app.requested /\ a.map = app.map \ acks
         /\ a.typed = {} /\ a.synced = {} /\ a.result = [p \in Partitions |-> "absent"]
         /\ a.built = app.built \cup acks /\ a.given = app.given
BY DEF Build, AppFields

\* What the application's state becomes, whatever the call.
LEMMA CallEffect ==
  ASSUME Inv, app.at = "idle", NEW type, NEW at \in {"idle", "poll", "sync", "close"},
         NEW acks, acks \subseteq app.map, UNCHANGED <<main, rkb, cb>>,
         DOMAIN app' = AppFields, app'.at = at, app'.typed = {},
         app'.result = [p \in Partitions |-> "absent"], app'.built = app.built \cup acks,
         app'.given = app.given,
         IF type = "COMMIT_SYNC_FANOUT" THEN at = "sync" /\ app'.synced = acks ELSE app'.synced = {},
         IF type = "TERMINATE" THEN at = "close" /\ app'.map = {} ELSE app'.map = app.map \ acks,
         at = "poll" => app'.map = {}, at = "close" => type = "TERMINATE",
         at = "close" => Overlap \/ \A b \in Brokers : rkb[b].term => ~rkb[b].enq
  PROVE  \E t : Becomes(t) /\ t.app = app' /\ Called(State, t, type, acks)
<1> DEFINE s == State
           t == [State EXCEPT !.app = app']
<1>1. /\ DOMAIN t = {"app", "main", "rkb", "cb"} /\ t.main = s.main /\ t.rkb = s.rkb /\ t.cb = s.cb
      /\ t.app = app' /\ s.app = app /\ s.rkb = rkb
  BY DEF State
<1>2. Becomes(t)
  BY DEF State, Becomes
<1>3. Shape(s)
  BY DEF Inv, Good, Struct
<1> HIDE DEF s, t
<1>4. Shape(t)
  BY <1>1, <1>3 DEF Shape, CallStates
<1>5. Called(s, t, type, acks)
  BY <1>1, <1>4 DEF Called
<1>6. QED
  BY <1>1, <1>2, <1>5 DEF s

\* The rest of the call.
LEMMA CallStep ==
  ASSUME Inv, NEW t, NEW type, NEW acks, Becomes(t), Called(State, t, type, acks),
         Queued(rk_ops, rk_ops', type, acks), Asked(State, t, rk_ops, rk_ops'),
         UNCHANGED <<rkcg_q, leader, srv, faults>>
  PROVE  Inv'
<1> DEFINE s == State
           z == rk_ops'
           q == rk_ops
           w == rkcg_q
           v == srv
<1>1. Good(s, q, w, v)
  BY DEF Inv
<1>2. Queued(q, z, type, acks) /\ Called(s, t, type, acks) /\ Asked(s, t, q, z)
  OBVIOUS
<1> HIDE DEF s, z, q, w, v
<1>3. Good(t, z, w, v)
  BY <1>1, <1>2, CalledOK
<1>4. Good(t, rk_ops', rkcg_q', srv)
  BY <1>3 DEF z, w, v
<1>5. QED
  BY <1>4, MainStep

\* The parts of the invariant that the calls read.
LEMMA CallFacts ==
  ASSUME Inv
  PROVE  /\ DOMAIN app = AppFields /\ QueueOK(rk_ops) /\ app.typed \subseteq app.map
         /\ app.map \subseteq Records /\ AckDetails \subseteq app.map /\ State.app = app
<1>1. Shape(State) /\ QueueOK(rk_ops) /\ DeliveryOK(State, rkcg_q, srv) /\ State.app = app
  BY DEF Inv, Good, Struct, State
<1>2. app.typed \subseteq app.map /\ app.map \subseteq Records
  BY <1>1 DEF DeliveryOK
<1>3. QED
  BY <1>1, <1>2 DEF Shape, AckDetails

LEMMA PollStep ==
  ASSUME Inv, Poll
  PROVE  Inv'
<1> DEFINE more == rkcg_q = <<>> /\ ~app.requested
           acks == AckDetails
           e == [type |-> "FETCH_FANOUT", more |-> more, acks |-> acks]
           B == Build("poll", acks)
<1>1. /\ app.at = "idle" /\ AllAcknowledged /\ app' = [B EXCEPT !.requested = @ \/ more]
      /\ rk_ops' = (IF ~more /\ acks = {} THEN rk_ops ELSE Append(rk_ops, e))
      /\ UNCHANGED <<main, rkb, rkcg_q, leader, srv, cb, faults>>
  BY Zenon DEF Poll
<1>2. /\ DOMAIN app = AppFields /\ QueueOK(rk_ops) /\ app.typed \subseteq app.map
      /\ app.map \subseteq Records /\ acks \subseteq app.map /\ State.app = app
  BY CallFacts
<1>3. app.map \ acks = {}
  BY <1>1, <1>2 DEF AllAcknowledged, AckDetails
<1>4. /\ DOMAIN B = AppFields /\ B.at = "poll" /\ B.requested = app.requested /\ B.map = app.map \ acks
      /\ B.typed = {} /\ B.synced = {} /\ B.result = [p \in Partitions |-> "absent"]
      /\ B.built = app.built \cup acks /\ B.given = app.given
  BY <1>2, BuildDoes
<1>5. e.type = "FETCH_FANOUT" /\ e.acks = acks
  OBVIOUS
<1>12. more => IsRequest(e)
  BY DEF IsRequest
<1> HIDE DEF B, acks, e, more
<1>6. /\ DOMAIN app' = AppFields /\ app'.at = "poll" /\ app'.requested = (app.requested \/ more)
      /\ app'.map = app.map \ acks
      /\ app'.typed = {} /\ app'.synced = {} /\ app'.result = [p \in Partitions |-> "absent"]
      /\ app'.built = app.built \cup acks /\ app'.given = app.given
  BY <1>1, <1>4 DEF AppFields
<1> DEFINE type == "FETCH_FANOUT"
           at == "poll"
<1>7. PICK t : Becomes(t) /\ t.app = app' /\ Called(State, t, type, acks)
  <2>1. /\ at \in {"idle", "poll", "sync", "close"} /\ app'.at = at
        /\ (IF type = "COMMIT_SYNC_FANOUT" THEN at = "sync" /\ app'.synced = acks ELSE app'.synced = {})
        /\ (IF type = "TERMINATE" THEN at = "close" /\ app'.map = {} ELSE app'.map = app.map \ acks)
        /\ (at = "poll" => app'.map = {}) /\ (at = "close" => type = "TERMINATE")
        /\ (at = "close" => Overlap \/ \A b \in Brokers : rkb[b].term => ~rkb[b].enq)
    BY <1>3, <1>6
  <2> HIDE DEF type, at
  <2>2. QED
    BY <1>1, <1>2, <1>6, <2>1, CallEffect
<1>8. Queued(rk_ops, Append(rk_ops, e), type, acks)
  <2>1. e.type \in QueueTypes \ {"REPLY"} /\ e.acks \subseteq Records
    BY <1>2, <1>5 DEF QueueTypes
  <2>2. Queued(rk_ops, Append(rk_ops, e), e.type, e.acks)
    BY <1>2, <2>1, QueuedAppend
  <2>3. QED
    BY <1>5, <2>2
<1>9. Queued(rk_ops, rk_ops', type, acks)
  <2>1. CASE ~more /\ acks = {}
    <3>1. type # "REPLY"
      OBVIOUS
    <3> HIDE DEF type
    <3>2. Queued(rk_ops, rk_ops, type, {})
      BY <1>2, <3>1, QueuedNothing
    <3>3. QED
      BY <1>1, <2>1, <3>2
  <2>2. CASE ~(~more /\ acks = {})
    BY <1>1, <1>8, <2>2
  <2>3. QED
    BY <2>1, <2>2
<1>10. Asked(State, t, rk_ops, rk_ops')
  <2>1. CASE ~more
    BY <1>2, <1>6, <1>7, <2>1 DEF Asked
  <2>2. CASE more
    <3>1. rk_ops' = Append(rk_ops, e) /\ IsSeq(rk_ops)
      BY <1>1, <1>2, <2>2 DEF QueueOK
    <3> DEFINE z == Append(rk_ops, e)
               n == Len(rk_ops) + 1
    <3>2. DOMAIN z = 1 .. n /\ z[n] = e /\ DOMAIN rk_ops = 1 .. Len(rk_ops) /\ Len(rk_ops) \in Nat
      BY <3>1, AppendSeq, SeqFacts
    <3> HIDE DEF z
    <3>3. n \in DOMAIN z /\ n \notin DOMAIN rk_ops /\ IsRequest(z[n])
      BY <1>12, <2>2, <3>2
    <3>4. QED
      BY <3>1, <3>3 DEF Asked, z
  <2>3. QED
    BY <2>1, <2>2
<1> HIDE DEF type
<1>11. QED
  BY <1>1, <1>7, <1>9, <1>10, CallStep

LEMMA CommitAsyncStep ==
  ASSUME Inv, CommitAsync
  PROVE  Inv'
<1> DEFINE acks == AckDetails
           e == [type |-> "COMMIT_ASYNC_FANOUT", acks |-> acks]
           B == Build("idle", acks)
<1>1. /\ app.at = "idle" /\ app' = [B EXCEPT !.commits = @ + 1] /\ rk_ops' = Append(rk_ops, e)
      /\ UNCHANGED <<main, rkb, rkcg_q, leader, srv, cb, faults>>
  BY Zenon DEF CommitAsync
<1>2. /\ DOMAIN app = AppFields /\ QueueOK(rk_ops) /\ app.typed \subseteq app.map
      /\ app.map \subseteq Records /\ acks \subseteq app.map /\ State.app = app
  BY CallFacts
<1>3. /\ DOMAIN B = AppFields /\ B.at = "idle" /\ B.requested = app.requested /\ B.map = app.map \ acks
      /\ B.typed = {} /\ B.synced = {} /\ B.result = [p \in Partitions |-> "absent"]
      /\ B.built = app.built \cup acks /\ B.given = app.given
  BY <1>2, BuildDoes
<1>4. e.type = "COMMIT_ASYNC_FANOUT" /\ e.acks = acks
  OBVIOUS
<1> HIDE DEF B, acks, e
<1>5. /\ DOMAIN app' = AppFields /\ app'.at = "idle" /\ app'.requested = app.requested
      /\ app'.map = app.map \ acks
      /\ app'.typed = {} /\ app'.synced = {} /\ app'.result = [p \in Partitions |-> "absent"]
      /\ app'.built = app.built \cup acks /\ app'.given = app.given
  BY <1>1, <1>3 DEF AppFields
<1> DEFINE type == "COMMIT_ASYNC_FANOUT"
           at == "idle"
<1>6. PICK t : Becomes(t) /\ t.app = app' /\ Called(State, t, type, acks)
  <2>1. /\ at \in {"idle", "poll", "sync", "close"} /\ app'.at = at
        /\ (IF type = "COMMIT_SYNC_FANOUT" THEN at = "sync" /\ app'.synced = acks ELSE app'.synced = {})
        /\ (IF type = "TERMINATE" THEN at = "close" /\ app'.map = {} ELSE app'.map = app.map \ acks)
        /\ (at = "poll" => app'.map = {}) /\ (at = "close" => type = "TERMINATE")
        /\ (at = "close" => Overlap \/ \A b \in Brokers : rkb[b].term => ~rkb[b].enq)
    BY <1>5
  <2> HIDE DEF type, at
  <2>2. QED
    BY <1>1, <1>2, <1>5, <2>1, CallEffect
<1>7. Queued(rk_ops, rk_ops', type, acks)
  <2>1. e.type \in QueueTypes \ {"REPLY"} /\ e.acks \subseteq Records
    BY <1>2, <1>4 DEF QueueTypes
  <2>2. Queued(rk_ops, Append(rk_ops, e), e.type, e.acks)
    BY <1>2, <2>1, QueuedAppend
  <2>3. QED
    BY <1>1, <1>4, <2>2
<1>8. Asked(State, t, rk_ops, rk_ops')
  BY <1>2, <1>5, <1>6 DEF Asked
<1> HIDE DEF type
<1>9. QED
  BY <1>1, <1>6, <1>7, <1>8, CallStep

LEMMA CommitSyncStep ==
  ASSUME Inv, CommitSync
  PROVE  Inv'
<1> DEFINE acks == AckDetails
           e == [type |-> "COMMIT_SYNC_FANOUT", acks |-> acks]
           B == Build("sync", acks)
<1>1. /\ app.at = "idle" /\ app' = [B EXCEPT !.commits = @ + 1, !.synced = acks]
      /\ rk_ops' = Append(rk_ops, e)
      /\ UNCHANGED <<main, rkb, rkcg_q, leader, srv, cb, faults>>
  BY Zenon DEF CommitSync
<1>2. /\ DOMAIN app = AppFields /\ QueueOK(rk_ops) /\ app.typed \subseteq app.map
      /\ app.map \subseteq Records /\ acks \subseteq app.map /\ State.app = app
  BY CallFacts
<1>3. /\ DOMAIN B = AppFields /\ B.at = "sync" /\ B.requested = app.requested /\ B.map = app.map \ acks
      /\ B.typed = {} /\ B.synced = {} /\ B.result = [p \in Partitions |-> "absent"]
      /\ B.built = app.built \cup acks /\ B.given = app.given
  BY <1>2, BuildDoes
<1>4. e.type = "COMMIT_SYNC_FANOUT" /\ e.acks = acks
  OBVIOUS
<1> HIDE DEF B, acks, e
<1>5. /\ DOMAIN app' = AppFields /\ app'.at = "sync" /\ app'.requested = app.requested
      /\ app'.map = app.map \ acks
      /\ app'.typed = {} /\ app'.synced = acks /\ app'.result = [p \in Partitions |-> "absent"]
      /\ app'.built = app.built \cup acks /\ app'.given = app.given
  BY <1>1, <1>3 DEF AppFields
<1> DEFINE type == "COMMIT_SYNC_FANOUT"
           at == "sync"
<1>6. PICK t : Becomes(t) /\ t.app = app' /\ Called(State, t, type, acks)
  <2>1. /\ at \in {"idle", "poll", "sync", "close"} /\ app'.at = at
        /\ (IF type = "COMMIT_SYNC_FANOUT" THEN at = "sync" /\ app'.synced = acks ELSE app'.synced = {})
        /\ (IF type = "TERMINATE" THEN at = "close" /\ app'.map = {} ELSE app'.map = app.map \ acks)
        /\ (at = "poll" => app'.map = {}) /\ (at = "close" => type = "TERMINATE")
        /\ (at = "close" => Overlap \/ \A b \in Brokers : rkb[b].term => ~rkb[b].enq)
    BY <1>5
  <2> HIDE DEF type, at
  <2>2. QED
    BY <1>1, <1>2, <1>5, <2>1, CallEffect
<1>7. Queued(rk_ops, rk_ops', type, acks)
  <2>1. e.type \in QueueTypes \ {"REPLY"} /\ e.acks \subseteq Records
    BY <1>2, <1>4 DEF QueueTypes
  <2>2. Queued(rk_ops, Append(rk_ops, e), e.type, e.acks)
    BY <1>2, <2>1, QueuedAppend
  <2>3. QED
    BY <1>1, <1>4, <2>2
<1>8. Asked(State, t, rk_ops, rk_ops')
  BY <1>2, <1>5, <1>6 DEF Asked
<1> HIDE DEF type
<1>9. QED
  BY <1>1, <1>6, <1>7, <1>8, CallStep

LEMMA CloseStep ==
  ASSUME Inv, Close
  PROVE  Inv'
<1> DEFINE acks == app.typed
           e == [type |-> "TERMINATE", acks |-> acks]
           B == Build("close", acks)
<1>1. /\ app.at = "idle" /\ app' = [B EXCEPT !.map = {}] /\ rk_ops' = Append(rk_ops, e)
      /\ UNCHANGED <<main, rkb, rkcg_q, leader, srv, cb, faults>>
      /\ Overlap \/ \A b \in Brokers : rkb[b].term => ~rkb[b].enq
  BY Zenon DEF Close
<1>2. /\ DOMAIN app = AppFields /\ QueueOK(rk_ops)
      /\ app.map \subseteq Records /\ acks \subseteq app.map /\ State.app = app
  BY CallFacts
<1>3. /\ DOMAIN B = AppFields /\ B.at = "close" /\ B.requested = app.requested /\ B.map = app.map \ acks
      /\ B.typed = {} /\ B.synced = {} /\ B.result = [p \in Partitions |-> "absent"]
      /\ B.built = app.built \cup acks /\ B.given = app.given
  BY <1>2, BuildDoes
<1>4. e.type = "TERMINATE" /\ e.acks = acks
  OBVIOUS
<1> HIDE DEF B, acks, e
<1>5. /\ DOMAIN app' = AppFields /\ app'.at = "close" /\ app'.requested = app.requested
      /\ app'.map = {}
      /\ app'.typed = {} /\ app'.synced = {} /\ app'.result = [p \in Partitions |-> "absent"]
      /\ app'.built = app.built \cup acks /\ app'.given = app.given
  BY <1>1, <1>3 DEF AppFields
<1> DEFINE type == "TERMINATE"
           at == "close"
<1>6. PICK t : Becomes(t) /\ t.app = app' /\ Called(State, t, type, acks)
  <2>1. /\ at \in {"idle", "poll", "sync", "close"} /\ app'.at = at
        /\ (IF type = "COMMIT_SYNC_FANOUT" THEN at = "sync" /\ app'.synced = acks ELSE app'.synced = {})
        /\ (IF type = "TERMINATE" THEN at = "close" /\ app'.map = {} ELSE app'.map = app.map \ acks)
        /\ (at = "poll" => app'.map = {}) /\ (at = "close" => type = "TERMINATE")
        /\ (at = "close" => Overlap \/ \A b \in Brokers : rkb[b].term => ~rkb[b].enq)
    BY <1>1, <1>5
  <2> HIDE DEF type, at
  <2>2. QED
    BY <1>1, <1>2, <1>5, <2>1, CallEffect
<1>7. Queued(rk_ops, rk_ops', type, acks)
  <2>1. e.type \in QueueTypes \ {"REPLY"} /\ e.acks \subseteq Records
    BY <1>2, <1>4 DEF QueueTypes
  <2>2. Queued(rk_ops, Append(rk_ops, e), e.type, e.acks)
    BY <1>2, <2>1, QueuedAppend
  <2>3. QED
    BY <1>1, <1>4, <2>2
<1>8. Asked(State, t, rk_ops, rk_ops')
  BY <1>2, <1>5, <1>6 DEF Asked
<1> HIDE DEF type
<1>9. QED
  BY <1>1, <1>6, <1>7, <1>8, CallStep


-----------------------------------------------------------------------------
(* The invariant. *)

LEMMA InitInv == Init => Inv
<1> SUFFICES ASSUME Init PROVE Inv
  OBVIOUS
<1>1. PICK e \in Modes : app = App(e)
  BY DEF Init
<1>2. PICK st \in Starts : /\ leader = st.leader
        /\ srv = [leader |-> st.leader, supply |-> st.supply, gone |-> {},
                  sess |-> [b \in Brokers |-> FALSE], next |-> [p \in Partitions |-> 1],
                  by |-> [r \in Records |-> None], lock |-> [r \in Records |-> "none"]]
  BY DEF Init
<1>3. /\ main = Main /\ rkb = [b \in Brokers |-> Broker] /\ rk_ops = <<>> /\ rkcg_q = <<>>
      /\ cb = [r \in Records |-> "none"] /\ faults = 0
  BY DEF Init
<1>4. /\ DOMAIN leader = Partitions /\ \A p \in Partitions : leader[p] \in Brokers
  BY <1>2, ShareSets
<1>5. /\ DOMAIN srv = {"leader", "supply", "gone", "sess", "next", "by", "lock"}
      /\ srv.leader = leader /\ DOMAIN srv.next = Partitions /\ DOMAIN srv.by = Records
      /\ DOMAIN srv.lock = Records
      /\ (\A p \in Partitions : srv.next[p] = 1) /\ \A r \in Records : srv.lock[r] = "none"
  BY <1>2
<1>6. ClusterOK(srv)
  BY <1>4, <1>5 DEF ClusterOK
<1> DEFINE s == State
           q == rk_ops
           w == rkcg_q
           v == srv
<1>7. /\ DOMAIN s = {"app", "main", "rkb", "cb"} /\ s.app = app /\ s.main = main /\ s.rkb = rkb /\ s.cb = cb
  BY DEF State
<1>8. /\ DOMAIN app = AppFields /\ app.at = "idle" /\ app.requested = FALSE /\ app.map = {}
      /\ app.typed = {} /\ app.synced = {} /\ app.result = [p \in Partitions |-> "absent"]
      /\ app.built = {} /\ app.given = {}
  BY <1>1 DEF App, AppFields
<1>9. /\ DOMAIN main = MainFields /\ main.fetches = 0 /\ main.leaves = 0 /\ main.terminate = FALSE
      /\ main.sync = NoSync /\ main.counter = 0
  BY <1>3 DEF Main, MainFields
<1>10. /\ DOMAIN NoSync = {"id", "cnt", "results"} /\ NoSync.id = 0 /\ NoSync.cnt = 0
       /\ NoSync.results = [p \in Partitions |-> "absent"]
  BY DEF NoSync
<1>11. /\ DOMAIN Broker = BrokerFields /\ Broker.enq = FALSE /\ Broker.async = {} /\ Broker.pend = {}
       /\ Broker.pendid = 0 /\ Broker.term = FALSE /\ Broker.epoch = 0 /\ Broker.ops = <<>>
       /\ Broker.sent = <<>> /\ Broker.resp = None
  BY DEF Broker, BrokerFields
<1>12. IsSeq(<<>>) /\ DOMAIN <<>> = {}
  BY EmptyIsSeq
<1>13. IsSeq(q) /\ IsSeq(w) /\ DOMAIN q = {} /\ DOMAIN w = {}
  BY <1>3, <1>12
<1>14. DOMAIN rkb = Brokers /\ \A b \in Brokers : rkb[b] = Broker
  BY <1>3
<1>15. cb \in [Records -> {"none", "ok", "err"}] /\ \A r \in Records : cb[r] = "none"
  BY <1>3
<1> HIDE DEF s, q, w, v
<1>16. \A b : Ops(Broker.ops) = {} /\ DOMAIN Broker.sent = {} /\ RepliesOf(q, b) = {}
  BY <1>11, <1>12, <1>13 DEF Ops, RepliesOf
<1>17. \A b : OutOps(Broker.ops, Broker.sent, q, b) = {} /\ Exclusive(Broker.ops, Broker.sent, q, b)
  BY <1>16 DEF OutOps, Exclusive, AtMostOne
<1>18. \A b \in Brokers : OutOf(s, q, b) = {} /\ s.rkb[b] = Broker
  BY <1>7, <1>14, <1>17 DEF OutOf
<1>19. Shape(s)
  BY <1>7, <1>8, <1>9, <1>10, <1>14, <1>15 DEF Shape, CallStates
<1>20. Struct(s, q)
  <2>1. QueueOK(q)
    BY <1>13 DEF QueueOK
  <2>2. \A b : BrokerOK(Broker, q, b)
    BY <1>11, <1>12, <1>17 DEF BrokerOK, Unanswered
  <2>3. QED
    BY <1>18, <1>19, <2>1, <2>2 DEF Struct
<1>21. FetchOK(s, q)
  BY <1>7, <1>9, <1>18 DEF FetchOK, Fetching
<1>22. RequestOK(s, q, w)
  BY <1>7, <1>8 DEF RequestOK
<1>23. DeliveryOK(s, w, v)
  BY <1>7, <1>8, <1>11, <1>13, <1>18 DEF DeliveryOK, SameSource
<1>24. AcksOK(s, q, v, {})
  BY <1>7, <1>8, <1>11, <1>13, <1>15, <1>18 DEF AcksOK, Held, AtOut, InFanout
<1>25. TruthOK(s, q, v)
  BY <1>7, <1>8, <1>13, <1>15, <1>18 DEF TruthOK
<1>26. SyncOK(s, q, v)
  <2>1. Owing(s, q) = {}
    BY <1>11, <1>18 DEF Owing
  <2>2. Cardinality(Owing(s, q)) = 0
    BY <2>1, FS_EmptySet
  <2>3. QED
    BY <1>7, <1>8, <1>9, <1>10, <1>11, <1>18, <2>2 DEF SyncOK, SyncPart
<1>27. CallsOK(s, q, v)
  BY <1>7, <1>8, <1>9, <1>13 DEF CallsOK
<1>28. LeaveOK(s, q)
  BY <1>7, <1>8, <1>9, <1>11, <1>18 DEF LeaveOK
<1>29. Good(s, q, w, v)
  BY <1>20, <1>21, <1>22, <1>23, <1>24, <1>25, <1>26, <1>27, <1>28 DEF Good
<1>30. faults \in 0 .. MaxFaults
  BY <1>3, ShareBounds
<1>31. QED
  BY <1>4, <1>6, <1>29, <1>30 DEF Inv, s, q, w, v

LEMMA NextInv == Inv /\ [Next]_vars => Inv'
<1> SUFFICES ASSUME Inv, [Next]_vars PROVE Inv'
  OBVIOUS
<1>1. CASE Application
  <2>1. CASE Poll
    BY <2>1, PollStep
  <2>2. CASE PollReturn
    BY <2>2, PollReturnStep
  <2>3. CASE CommitAsync
    BY <2>3, CommitAsyncStep
  <2>4. CASE CommitSync
    BY <2>4, CommitSyncStep
  <2>5. CASE Close
    BY <2>5, CloseStep
  <2>6. CASE \E r \in Records : Acknowledge(r)
    BY <2>6, AcknowledgeStep
  <2>7. QED
    BY <1>1, <2>1, <2>2, <2>3, <2>4, <2>5, <2>6 DEF Application
<1>2. CASE MainThread
  <2>1. CASE MainServe
    BY <2>1, MainServeStep
  <2>2. CASE Retrigger
    BY <2>2, RetriggerStep
  <2>3. CASE CommitSyncTimeout
    BY <2>3, CommitSyncTimeoutStep
  <2>4. CASE TryTerminate
    BY <2>4, TryTerminateStep
  <2>5. CASE MetadataUpdate
    BY <2>5, MetadataUpdateStep
  <2>6. CASE \E b \in Brokers : Decommission(b)
    BY <2>6, DecommissionStep
  <2>7. QED
    BY <1>2, <2>1, <2>2, <2>3, <2>4, <2>5, <2>6 DEF MainThread
<1>3. CASE ClusterFault
  BY <1>3, ClusterFaultStep
<1>4. CASE \E b \in Brokers : BrokerThread(b)
  <2>1. PICK b \in Brokers : BrokerThread(b)
    BY <1>4
  <2>2. CASE BrokerServe(b)
    BY <2>2, BrokerServeStep
  <2>3. CASE Receive(b)
    BY <2>3, ReceiveStep
  <2>4. CASE RespEnqueue(b)
    BY <2>4, RespEnqueueStep
  <2>5. CASE Disconnect(b)
    BY <2>5, DisconnectStep
  <2>6. CASE Connect(b)
    BY <2>6, ConnectStep
  <2>7. QED
    BY <2>1, <2>2, <2>3, <2>4, <2>5, <2>6 DEF BrokerThread
<1>5. CASE UNCHANGED vars
  <2>1. UNCHANGED <<app, main, rkb, rk_ops, rkcg_q, leader, srv, cb, faults>>
    BY <1>5 DEF vars
  <2>2. State' = State
    BY <2>1 DEF State
  <2>3. QED
    BY <2>1, <2>2 DEF Inv
<1>6. QED
  BY <1>1, <1>2, <1>3, <1>4, <1>5 DEF Next

LEMMA Invariant == Spec => []Inv
BY InitInv, NextInv, PTL DEF Spec


-----------------------------------------------------------------------------
(* What the invariant says of the properties. *)

\* The tagged ops of a broker are its ops, and there is one or none.
LEMMA OutIs ==
  ASSUME Inv, NEW b \in Brokers
  PROVE  /\ \A o : o \in OutOf(State, rk_ops, b) <=> \E x \in Out(b) : x[2] = o
         /\ rkb[b].enq <=> Out(b) # {}
         /\ Out(b) = {} \/ \E x : Out(b) = {x}
<1> DEFINE k == rkb[b]
           X == {<<"ops", k.ops[i], i>> : i \in Ops(k.ops)}
           Y == {<<"sent", k.sent[i], i>> : i \in Ops(k.sent)}
           Z == {<<"reply", rk_ops[i].op, i>> : i \in RepliesOf(rk_ops, b)}
<1>1. BrokerOK(k, rk_ops, b) /\ State.rkb[b] = k
  BY DEF Inv, Good, Struct, State
<1>2. Out(b) = X \cup Y \cup Z
  BY DEF Out, Replies, RepliesOf
<1>3. Ops(k.sent) = DOMAIN k.sent
  <2>1. \A i \in DOMAIN k.sent : k.sent[i] \in OutOps(k.ops, k.sent, rk_ops, b)
    BY DEF OutOps
  <2>2. \A i \in DOMAIN k.sent : k.sent[i].type = "SHARE_FETCH"
    BY <1>1, <2>1 DEF BrokerOK, IsOp
  <2>3. QED
    BY <2>2 DEF Ops
<1> HIDE DEF k
<1>4. OutOf(State, rk_ops, b) = OutOps(k.ops, k.sent, rk_ops, b)
  BY <1>1 DEF OutOf
<1>5. \A o : o \in OutOps(k.ops, k.sent, rk_ops, b) <=> \E x \in X \cup Y \cup Z : x[2] = o
  <2>1. \A o : o \in {k.ops[i] : i \in Ops(k.ops)} <=> \E x \in X : x[2] = o
    <3>1. (\A i \in Ops(k.ops) : <<"ops", k.ops[i], i>> \in X /\ <<"ops", k.ops[i], i>>[2] = k.ops[i])
          /\ \A x \in X : \E i \in Ops(k.ops) : x = <<"ops", k.ops[i], i>>
      OBVIOUS
    <3> HIDE DEF X
    <3>2. \A x \in X : \E i \in Ops(k.ops) : x[2] = k.ops[i]
      BY <3>1
    <3>3. QED
      BY <3>1, <3>2
  <2>2. \A o : o \in {k.sent[i] : i \in DOMAIN k.sent} <=> \E x \in Y : x[2] = o
    <3>1. (\A i \in Ops(k.sent) : <<"sent", k.sent[i], i>> \in Y /\ <<"sent", k.sent[i], i>>[2] = k.sent[i])
          /\ \A x \in Y : \E i \in Ops(k.sent) : x = <<"sent", k.sent[i], i>>
      OBVIOUS
    <3> HIDE DEF Y
    <3>2. \A x \in Y : \E i \in Ops(k.sent) : x[2] = k.sent[i]
      BY <3>1
    <3>3. QED
      BY <1>3, <3>1, <3>2
  <2>3. \A o : o \in {rk_ops[i].op : i \in RepliesOf(rk_ops, b)} <=> \E x \in Z : x[2] = o
    <3> DEFINE R == RepliesOf(rk_ops, b)
    <3> HIDE DEF R
    <3>1. (\A i \in R : <<"reply", rk_ops[i].op, i>> \in Z /\ <<"reply", rk_ops[i].op, i>>[2] = rk_ops[i].op)
          /\ \A x \in Z : \E i \in R : x = <<"reply", rk_ops[i].op, i>>
      BY DEF R
    <3> HIDE DEF Z
    <3>2. \A x \in Z : \E i \in R : x[2] = rk_ops[i].op
      BY <3>1
    <3>3. QED
      BY <3>1, <3>2 DEF R
  <2> HIDE DEF X, Y, Z
  <2>4. QED
    BY <2>1, <2>2, <2>3 DEF OutOps
<1>6. k.enq <=> X \cup Y \cup Z # {}
  <2>1. k.enq <=> OutOps(k.ops, k.sent, rk_ops, b) # {}
    BY <1>1 DEF BrokerOK
  <2> HIDE DEF X, Y, Z
  <2>2. QED
    BY <1>5, <2>1
<1>7. Exclusive(k.ops, k.sent, rk_ops, b)
  BY <1>1 DEF BrokerOK
<1>8. X \cup Y \cup Z = {} \/ \E x : X \cup Y \cup Z = {x}
  <2>1. CASE Ops(k.ops) # {}
    <3>1. PICK i \in Ops(k.ops) : \A j \in Ops(k.ops) : i = j
      BY <1>7, <2>1 DEF Exclusive, AtMostOne
    <3>2. Y = {} /\ Z = {}
      BY <1>3, <1>7, <2>1 DEF Exclusive
    <3>3. X = {<<"ops", k.ops[i], i>>}
      BY <3>1
    <3>4. QED
      BY <3>2, <3>3
  <2>2. CASE Ops(k.ops) = {} /\ DOMAIN k.sent # {}
    <3>1. PICK i \in DOMAIN k.sent : \A j \in DOMAIN k.sent : i = j
      BY <1>7, <2>2 DEF Exclusive, AtMostOne
    <3>2. X = {} /\ Z = {}
      BY <1>7, <2>2 DEF Exclusive
    <3>3. Y = {<<"sent", k.sent[i], i>>}
      BY <1>3, <3>1
    <3>4. QED
      BY <3>2, <3>3
  <2>3. CASE Ops(k.ops) = {} /\ DOMAIN k.sent = {} /\ RepliesOf(rk_ops, b) # {}
    <3>1. PICK i \in RepliesOf(rk_ops, b) : \A j \in RepliesOf(rk_ops, b) : i = j
      BY <1>7, <2>3 DEF Exclusive, AtMostOne
    <3>2. X = {} /\ Y = {}
      BY <1>3, <2>3
    <3>3. Z = {<<"reply", rk_ops[i].op, i>>}
      BY <3>1
    <3>4. QED
      BY <3>2, <3>3
  <2>4. CASE Ops(k.ops) = {} /\ DOMAIN k.sent = {} /\ RepliesOf(rk_ops, b) = {}
    <3>1. X = {} /\ Y = {} /\ Z = {}
      BY <1>3, <2>4
    <3>2. QED
      BY <3>1
  <2>5. QED
    BY <2>1, <2>2, <2>3, <2>4
<1> HIDE DEF X, Y, Z
<1>9. QED
  BY <1>2, <1>4, <1>5, <1>6, <1>8 DEF k

LEMMA InvOneOp == Inv => OneOpPerBroker
<1> SUFFICES ASSUME Inv PROVE OneOpPerBroker
  OBVIOUS
<1>1. ASSUME NEW b \in Brokers
      PROVE  Cardinality(Out(b)) = IF rkb[b].enq THEN 1 ELSE 0
  <2>1. (rkb[b].enq <=> Out(b) # {}) /\ (Out(b) = {} \/ \E x : Out(b) = {x})
    BY OutIs
  <2>2. CASE Out(b) = {}
    BY <2>1, <2>2, FS_EmptySet
  <2>3. CASE Out(b) # {}
    <3>1. PICK x : Out(b) = {x}
      BY <2>1, <2>3
    <3>2. Cardinality({x}) = 1
      BY FS_Singleton
    <3>3. QED
      BY <2>1, <2>3, <3>1, <3>2
  <2>4. QED
    BY <2>2, <2>3
<1>2. {b \in Brokers : \E o \in Out(b) : o[2].fetch} = Fetching(State, rk_ops)
  <2>1. ASSUME NEW b \in Brokers
        PROVE  (\E o \in Out(b) : o[2].fetch) <=> (\E o \in OutOf(State, rk_ops, b) : o.fetch)
    BY OutIs
  <2>2. QED
    BY <2>1 DEF Fetching
<1>3. main.fetches = Cardinality(Fetching(State, rk_ops))
  <2>1. FetchOK(State, rk_ops) /\ State.main = main
    BY DEF Inv, Good, State
  <2>2. CASE main.fetches = 0 /\ Fetching(State, rk_ops) = {}
    BY <2>2, FS_EmptySet
  <2>3. CASE main.fetches = 1 /\ \E b \in Brokers : Fetching(State, rk_ops) = {b}
    <3>1. PICK b \in Brokers : Fetching(State, rk_ops) = {b}
      BY <2>3
    <3>2. Cardinality({b}) = 1
      BY FS_Singleton
    <3>3. QED
      BY <2>3, <3>1, <3>2
  <2>4. QED
    BY <2>1, <2>2, <2>3 DEF FetchOK
<1>4. QED
  BY <1>1, <1>2, <1>3 DEF OneOpPerBroker

LEMMA InvTold == Inv => ToldTheTruth
<1> SUFFICES ASSUME Inv PROVE ToldTheTruth
  OBVIOUS
<1>2. TruthOK(State, rk_ops, srv) /\ State.cb = cb /\ State.app = app
  <2>1. TruthOK(State, rk_ops, srv)
    BY DEF Inv, Good
  <2>2. QED
    BY <2>1 DEF State
<1>3. QED
  BY <1>2 DEF TruthOK, ToldTheTruth

LEMMA InvRequest == Inv => RequestAlive
<1> SUFFICES ASSUME Inv PROVE RequestAlive
  OBVIOUS
<1>2. /\ RequestOK(State, rk_ops, rkcg_q)
      /\ State.app = app /\ State.main = main /\ State.rkb = rkb
  <2>1. RequestOK(State, rk_ops, rkcg_q)
    BY DEF Inv, Good
  <2>2. QED
    BY <2>1 DEF State
<1>3. QED
  BY <1>2 DEF RequestOK, RequestAlive, Responding, IsRequest

LEMMA InvAsserts ==
  ASSUME Inv, ~Overlap
  PROVE  AssertsHold
<1> DEFINE s == State
<1>1. /\ s.app = app /\ s.main = main /\ s.rkb = rkb /\ s.cb = cb
  BY DEF State
<1>2. /\ Struct(s, rk_ops) /\ FetchOK(s, rk_ops) /\ DeliveryOK(s, rkcg_q, srv)
      /\ SyncPart(s, rk_ops, srv, 0, {}) /\ CallsOK(s, rk_ops, srv) /\ LeaveOK(s, rk_ops)
      /\ faults \in 0 .. MaxFaults
  BY DEF Inv, Good, SyncOK
<1> HIDE DEF s
<1>3. IsFiniteSet(Brokers) /\ Cardinality(Brokers) \in Nat
  BY ShareSets, FS_CardinalityType
<1>4. ASSUME NEW S \in SUBSET Brokers
      PROVE  IsFiniteSet(S) /\ Cardinality(S) \in 0 .. Cardinality(Brokers)
  <2>1. IsFiniteSet(S) /\ Cardinality(S) <= Cardinality(Brokers)
    BY <1>3, FS_Subset
  <2>2. Cardinality(S) \in Nat
    BY <2>1, FS_CardinalityType
  <2>3. QED
    BY <1>3, <2>1, <2>2
<1> DEFINE E == {b \in Brokers : s.rkb[b].enq}
<1>5. TypeOK
  <2>1. app.at \in {"idle", "poll", "sync", "close", "closed"}
    BY <1>1, <1>2 DEF Struct, Shape, CallStates
  <2>2. app.typed \subseteq app.map /\ app.map \subseteq Records
    BY <1>1, <1>2 DEF DeliveryOK
  <2>3. main.fetches \in 0 .. 1
    BY <1>1, <1>2 DEF FetchOK
  <2>4. main.leaves \in 0 .. Cardinality(Brokers)
    <3>1. E \in SUBSET Brokers
      OBVIOUS
    <3>2. Cardinality(E) \in 0 .. Cardinality(Brokers)
      BY <1>4, <3>1
    <3>3. QED
      BY <1>1, <1>2, <1>3, <3>2 DEF LeaveOK
  <2>5. main.sync.cnt \in 0 .. Cardinality(Brokers)
    <3>1. Owing(s, rk_ops) \in SUBSET Brokers
      BY DEF Owing
    <3>2. Cardinality(Owing(s, rk_ops)) \in 0 .. Cardinality(Brokers)
      BY <1>4, <3>1
    <3>3. main.sync.cnt = Cardinality(Owing(s, rk_ops)) + 0
      BY <1>1, <1>2 DEF SyncPart
    <3>4. QED
      BY <1>3, <3>2, <3>3
  <2>6. \A b \in Brokers :
          /\ rkb[b].epoch \in -1 .. 1
          /\ rkb[b].async \subseteq Records /\ rkb[b].pend \subseteq Records
    BY <1>1, <1>2 DEF Struct, BrokerOK
  <2>7. cb \in [Records -> {"none", "ok", "err"}]
    BY <1>1, <1>2 DEF Struct, Shape
  <2>8. QED
    BY <1>2, <2>1, <2>2, <2>3, <2>4, <2>5, <2>6, <2>7 DEF TypeOK
<1>6. main.terminate => \A b \in Brokers : rkb[b].pend = {}
  BY <1>1, <1>2 DEF CallsOK, SyncPart
<1>7. ASSUME app.at = "closed"
      PROVE  /\ main.fetches = 0 /\ main.leaves = 0
             /\ \A b \in Brokers : ~rkb[b].enq /\ rkb[b].async = {}
  <2>1. main.terminate /\ main.leaves = 0 /\ main.leaves = Cardinality(E)
    BY <1>1, <1>2, <1>7 DEF CallsOK, LeaveOK
  <2>2. E = {}
    <3>1. IsFiniteSet(E) /\ Cardinality(E) = 0
      <4>1. E \in SUBSET Brokers
        OBVIOUS
      <4>2. QED
        BY <1>4, <2>1, <4>1
    <3>2. QED
      BY <3>1, FS_EmptySet
  <2>3. \A b \in Brokers : ~s.rkb[b].enq /\ OutOf(s, rk_ops, b) = {}
    BY <1>2, <2>2 DEF Struct, BrokerOK, OutOf
  <2>4. Fetching(s, rk_ops) = {}
    BY <2>3 DEF Fetching
  <2>5. main.fetches = 0
    BY <1>1, <1>2, <2>4 DEF FetchOK
  <2>6. \A b \in Brokers : s.rkb[b].async = {}
    BY <1>1, <1>2, <2>1, <2>3 DEF LeaveOK
  <2>7. QED
    BY <1>1, <2>1, <2>3, <2>5, <2>6
<1>8. QED
  BY <1>5, <1>6, <1>7 DEF AssertsHold


LEMMA InvAcks == Inv => AckConservation
<1> SUFFICES ASSUME Inv PROVE AckConservation
  OBVIOUS
<1> DEFINE s == State
           q == rk_ops
<1>1. s.app = app /\ s.rkb = rkb /\ s.cb = cb
  BY DEF State
<1>2. Struct(s, q) /\ AcksOK(s, q, srv, {}) /\ DeliveryOK(s, rkcg_q, srv)
  BY DEF Inv, Good
<1>3. ASSUME NEW b \in Brokers
      PROVE  /\ \A o : o \in OutOf(s, q, b) <=> \E x \in Out(b) : x[2] = o
             /\ Out(b) = {} \/ \E x : Out(b) = {x}
  BY OutIs
<1> HIDE DEF s, q
<1>4. ASSUME NEW r \in Records
      PROVE  Cardinality(Places(r)) = IF r \in app.built /\ cb[r] = "none" THEN 1 ELSE 0
  <2> DEFINE I == {j \in DOMAIN q : q[j].type # "REPLY" /\ r \in q[j].acks}
             SA == {c \in Brokers : r \in rkb[c].async}
             SP == {c \in Brokers : r \in rkb[c].pend}
             O(b) == {x \in Out(b) : r \in x[2].acks}
             F == {<<"ops", i>> : i \in I}
             A == {<<"async", b>> : b \in SA}
             P == {<<"pend", b>> : b \in SP}
             U == UNION {{<<b, o>> : o \in O(b)} : b \in Brokers}
  <2>1. Places(r) = F \cup A \cup P \cup U
    BY DEF Places, q
  <2>2. InFanout(q, r) <=> I # {}
    BY DEF InFanout
  <2>3. \A i, j \in I : i = j
    BY <1>2 DEF AcksOK
  <2>4. \A b \in Brokers : AtOut(s, q, b, r) <=> O(b) # {}
    <3>1. TAKE b \in Brokers
    <3>2. \A o : o \in OutOf(s, q, b) <=> \E x \in Out(b) : x[2] = o
      BY <1>3
    <3>3. QED
      BY <3>2 DEF AtOut
  <2>5. \A b \in Brokers : O(b) = {} \/ \E x : O(b) = {x}
    <3>1. TAKE b \in Brokers
    <3>2. Out(b) = {} \/ \E x : Out(b) = {x}
      BY <1>3
    <3>3. QED
      BY <3>2
  <2>6. \A b \in Brokers : Held(s, q, b, r) <=> b \in SA \/ b \in SP \/ O(b) # {}
    BY <1>1, <2>4 DEF Held
  <2>7. \A b \in Brokers : Held(s, q, b, r) =>
          /\ srv.by[r] = b /\ I = {} /\ ~(b \in SA /\ b \in SP) /\ ~(b \in SA /\ O(b) # {})
          /\ ~(b \in SP /\ O(b) # {})
    BY <1>1, <1>2, <2>2, <2>4 DEF AcksOK
  <2>8. (r \in app.built /\ cb[r] = "none") <=> (I # {} \/ \E b \in Brokers : Held(s, q, b, r))
    BY <1>1, <1>2, <2>2 DEF AcksOK
  <2>9. SA \subseteq Brokers /\ SP \subseteq Brokers
    OBVIOUS
  <2> HIDE DEF I, SA, SP, O
  <2>10. (\A b \in Brokers : O(b) = {}) => U = {}
    OBVIOUS
  <2>11. (I = {} => F = {}) /\ (SA = {} => A = {}) /\ (SP = {} => P = {})
    OBVIOUS
  <2>12. CASE I # {}
    <3>1. PICK i \in I : \A j \in I : i = j
      BY <2>3, <2>12
    <3>2. F = {<<"ops", i>>}
      BY <3>1
    <3>3. \A b \in Brokers : ~Held(s, q, b, r)
      BY <2>7, <2>12
    <3>4. SA = {} /\ SP = {} /\ \A b \in Brokers : O(b) = {}
      BY <2>6, <2>9, <3>3
    <3>5. A = {} /\ P = {} /\ U = {}
      BY <2>10, <2>11, <3>4
    <3> HIDE DEF F, A, P, U
    <3>6. Places(r) = {<<"ops", i>>}
      BY <2>1, <3>2, <3>5
    <3>7. Cardinality({<<"ops", i>>}) = 1
      BY FS_Singleton
    <3>8. QED
      BY <2>8, <2>12, <3>6, <3>7
  <2>13. CASE I = {} /\ \E b \in Brokers : Held(s, q, b, r)
    <3>1. PICK b \in Brokers : Held(s, q, b, r)
      BY <2>13
    <3>2. \A c \in Brokers : c # b => ~Held(s, q, c, r)
      BY <2>7, <3>1
    <3>3. \A c \in Brokers : c # b => c \notin SA /\ c \notin SP /\ O(c) = {}
      BY <2>6, <3>2
    <3>4. F = {}
      BY <2>11, <2>13
    <3>5. \E x : Places(r) = {x}
      <4>1. CASE b \in SA
        <5>1. b \notin SP /\ O(b) = {} /\ SA = {b}
          BY <2>7, <2>9, <3>1, <3>3, <4>1
        <5>2. SP = {} /\ \A c \in Brokers : O(c) = {}
          BY <2>9, <3>3, <5>1
        <5>3. A = {<<"async", b>>} /\ P = {} /\ U = {}
          BY <2>10, <2>11, <5>1, <5>2
        <5> HIDE DEF F, A, P, U
        <5>4. Places(r) = {<<"async", b>>}
          BY <2>1, <3>4, <5>3
        <5>5. QED
          BY <5>4
      <4>2. CASE b \in SP
        <5>1. b \notin SA /\ O(b) = {} /\ SP = {b}
          BY <2>7, <2>9, <3>1, <3>3, <4>2
        <5>2. SA = {} /\ \A c \in Brokers : O(c) = {}
          BY <2>9, <3>3, <5>1
        <5>3. P = {<<"pend", b>>} /\ A = {} /\ U = {}
          BY <2>10, <2>11, <5>1, <5>2
        <5> HIDE DEF F, A, P, U
        <5>4. Places(r) = {<<"pend", b>>}
          BY <2>1, <3>4, <5>3
        <5>5. QED
          BY <5>4
      <4>3. CASE O(b) # {}
        <5>1. b \notin SA /\ b \notin SP
          BY <2>7, <3>1, <4>3
        <5>2. SA = {} /\ SP = {} /\ \A c \in Brokers : c # b => O(c) = {}
          BY <2>9, <3>3, <5>1
        <5>3. PICK x : O(b) = {x}
          BY <2>5, <4>3
        <5>4. U = {<<b, x>>}
          BY <5>2, <5>3
        <5>5. A = {} /\ P = {}
          BY <2>11, <5>2
        <5> HIDE DEF F, A, P, U
        <5>6. Places(r) = {<<b, x>>}
          BY <2>1, <3>4, <5>4, <5>5
        <5>7. QED
          BY <5>6
      <4>4. QED
        BY <2>6, <3>1, <4>1, <4>2, <4>3
    <3>6. PICK x : Places(r) = {x}
      BY <3>5
    <3>7. Cardinality({x}) = 1
      BY FS_Singleton
    <3>8. QED
      BY <2>8, <2>13, <3>6, <3>7
  <2>14. CASE I = {} /\ ~(\E b \in Brokers : Held(s, q, b, r))
    <3>1. SA = {} /\ SP = {} /\ \A b \in Brokers : O(b) = {}
      BY <2>6, <2>9, <2>14
    <3>2. F = {} /\ A = {} /\ P = {} /\ U = {}
      BY <2>10, <2>11, <2>14, <3>1
    <3> HIDE DEF F, A, P, U
    <3>3. Places(r) = {}
      BY <2>1, <3>2
    <3>4. QED
      BY <2>8, <2>14, <3>3, FS_EmptySet
  <2>15. QED
    BY <2>12, <2>13, <2>14
<1>5. \A r \in Records : cb[r] # "twice"
  BY <1>1, <1>2 DEF Struct, Shape
<1>6. \A r \in Records : r \in app.given /\ app.at \notin {"close", "closed"} => r \in app.map \cup app.built
  BY <1>1, <1>2 DEF DeliveryOK
<1>7. QED
  BY <1>4, <1>5, <1>6 DEF AckConservation

-----------------------------------------------------------------------------
(* The theorems. *)

\* A broker has a share op out, in its queue, on the wire or as a reply, exactly while
\* rkb_share_fetch_enqueued is set, never two, and the counter of outstanding fetches
\* counts those that fetch: whatever breaks, moves or leaves.
THEOREM OneOpAlways == Spec => []OneOpPerBroker
BY Invariant, InvOneOp, PTL

\* No acknowledgement that the application has given is lost, sent twice or reported
\* twice on its way through the fan-out ops, the caches of the brokers and the share ops.
THEOREM AcksConserved == Spec => []AckConservation
BY Invariant, InvAcks, PTL

\* What the acknowledgement callback and commit_sync() report as acknowledged is
\* acknowledged at the broker, and commit_sync() reports every partition.
THEOREM ReportsAreTrue == Spec => []ToldTheTruth
BY Invariant, InvTold, PTL

\* While poll() believes that records were asked for, the request or its answer exists:
\* the consumer never stops fetching for good.
THEOREM RequestStaysAlive == Spec => []RequestAlive
BY Invariant, InvRequest, PTL

\* The assertions of rd_kafka_cgrp_terminate0() and rd_kafka_cgrp_terminated() hold, and
\* the counters stay in their ranges, as long as close() never meets a decommissioned
\* broker that still has a share op out (Overlap).
THEOREM ClosesClean == ~Overlap => (Spec => []AssertsHold)
<1>1. ASSUME ~Overlap PROVE Inv => AssertsHold
  BY <1>1, InvAsserts
<1>2. ASSUME ~Overlap PROVE Spec => []AssertsHold
  <2>1. Inv => AssertsHold
    BY <1>1, <1>2
  <2>2. QED
    BY <2>1, Invariant, PTL
<1>3. QED
  BY <1>2
=============================================================================
