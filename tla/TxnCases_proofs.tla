-------------------------- MODULE TxnCases_proofs --------------------------
(***************************************************************************)
(* The invariant of TxnManager, and what each case of a handler does to    *)
(* it.  The client is a record that the handlers pass on, so the parts of  *)
(* the invariant are predicates on such a record and on the set of         *)
(* requests on the wire; Same says which fields a step may have changed.   *)
(* A lemma ...Sound takes the effect of one case as hypotheses and shows   *)
(* every part of the invariant.                                            *)
(***************************************************************************)
EXTENDS TxnManager, SequenceTheorems, TLAPS
-----------------------------------------------------------------------------
(* Types. *)

Kinds == {"init_pid", "add_parts", "add_offsets", "end_commit", "end_abort"}
Replies == {"none", "ok", "fenced", "transport", "coord", "load", "bump", "perm"}
Requests == [kind : Kinds, parts : SUBSET (Partitions \cup {OFF}), reply : Replies]
OpNames == {"init", "init_ack", "begin", "offsets", "begin_commit", "commit", "commit_ack",
            "begin_abort", "abort", "abort_ack"}
Timers == {"coord", "pid", "register"}

Fields ==
  {"txn_state", "idemp_state", "fatal", "txn_err", "bump", "req_cnt", "may_enq", "dr_fails",
   "pending", "waitresp", "rktps", "api", "ops", "wire", "offc", "coord", "up", "wait_coord",
   "timers", "queued", "flight", "may_send", "has_pid", "timedout", "purge", "txn", "produced",
   "asserts"}

\* The fields that the invariant does not depend on; it takes what is on the wire as a set.
Misc == {"wire", "coord", "up", "wait_coord", "timers", "may_send", "has_pid", "purge"}

ApiOK(p) ==
  /\ DOMAIN p = {"name", "calling", "has_result", "error"}
  /\ p.name \in Apis \cup {"none"} /\ p.error \in Errors
  /\ p.calling \in BOOLEAN /\ p.has_result \in BOOLEAN

ClientOK(s) ==
  /\ DOMAIN s = Fields
  /\ s.txn_state \in TxnStates /\ s.idemp_state \in IdempStates
  /\ s.fatal \in BOOLEAN /\ s.txn_err \in BOOLEAN /\ s.bump \in BOOLEAN
  /\ s.may_enq \in BOOLEAN /\ s.dr_fails \in BOOLEAN /\ s.asserts \in BOOLEAN
  /\ s.req_cnt \in Int /\ s.txn \in 0 .. MaxTxns
  /\ s.pending \subseteq Partitions /\ s.waitresp \subseteq Partitions
  /\ s.rktps \subseteq Partitions
  /\ ApiOK(s.api) /\ s.ops \in Seq(OpNames)
  /\ s.offc \in {"none", "request", "sent"}
  /\ s.timers \subseteq Timers
  /\ s.queued \subseteq Messages /\ s.flight \subseteq Messages /\ s.produced \subseteq Messages
  /\ s.timedout \subseteq Partitions

Apps == [at : {"idle", "enter", "wait", "flush", "return", "produce"}, api : Apis \cup {"none"},
         stage : 0 .. 4, error : Errors, arg : Partitions \cup {"none"}]

Coords == [parts : SUBSET (Partitions \cup {OFF}), open : BOOLEAN,
           last : {"none", "end_commit", "end_abort"}, fenced : BOOLEAN,
           written : SUBSET Messages, committed : SUBSET Messages, aborted : SUBSET Messages]

Tolds == [1 .. MaxTxns -> {"none", "commit", "abort"}]

-----------------------------------------------------------------------------
(* The wire: at most one request of each kind; the one that ends the       *)
(* transaction, or gets a producer id, is the last.                        *)

OnWire(w) == {w[i] : i \in DOMAIN w}
Last == {"init_pid", "end_commit", "end_abort"}

Ordered(w) ==
  /\ w \in Seq(Requests)
  /\ \A i, j \in DOMAIN w : w[i].kind = w[j].kind => i = j
  /\ \A i \in DOMAIN w : w[i].kind \in Last => i = Len(w)
  /\ \A i, j \in DOMAIN w : i < j /\ w[j].reply # "none" => w[i].reply # "none"

Has(W, k) == \E r \in W : r.kind = k
Only(W, K) == \A r \in W : r.kind \in K

-----------------------------------------------------------------------------
(* The parts of the invariant.  s is the client, W what is on the wire, a  *)
(* the application's thread, k the coordinator, d what has been told.      *)

InCall(a) == a.at \in {"enter", "wait", "flush", "return"}
PhaseOf(a) == Phases[a.api][a.stage]
At(a, api, stage, at) == a.api = api /\ a.stage = stage /\ a.at = at

Stages(api) == IF api = "init" THEN 2 ELSE IF api \in {"commit", "abort"} THEN 4 ELSE 1

AppOK(a) ==
  /\ InCall(a) => a.api \in Apis /\ a.stage \in 1 .. 4 /\ a.stage <= Stages(a.api)
  /\ ~InCall(a) => a.api = "none" /\ a.stage = 0
  /\ a.at = "flush" => a.stage = 2 /\ a.api \in {"commit", "abort"}
  /\ a.at = "wait" => ~(a.stage = 2 /\ a.api \in {"commit", "abort"})
  /\ a.at = "produce" => a.arg \in Partitions

Acquiring == {"REQ_PID", "WAIT_TRANSPORT", "WAIT_PID"}
Outside == {"INIT", "WAIT_PID", "READY_NOT_ACKED", "READY"}
Sending == {"IN_TRANSACTION", "BEGIN_COMMIT"}
Aborting == {"BEGIN_ABORT", "ABORTING_TRANSACTION"}

\* The producer id is being acquired to end an aborted transaction.
Reacquiring(s) == s.txn_state \in Aborting /\ s.idemp_state \in Acquiring

\* The two state machines agree.
StatesOK(s) ==
  /\ s.fatal <=> s.txn_state = "FATAL_ERROR"
  /\ s.may_enq => s.txn_state = "IN_TRANSACTION"
  /\ ~s.fatal =>
       /\ s.txn_state = "INIT" => s.idemp_state = "INIT"
       /\ s.txn_state = "WAIT_PID" => s.idemp_state \in Acquiring
       /\ s.txn_state \in {"READY_NOT_ACKED", "READY", "IN_TRANSACTION", "BEGIN_COMMIT",
                           "COMMITTING_TRANSACTION", "COMMIT_NOT_ACKED", "ABORT_NOT_ACKED"}
            => s.idemp_state = "ASSIGNED"
       /\ s.txn_state = "ABORTABLE_ERROR" => s.idemp_state \in {"ASSIGNED", "WAIT_TXN_ABORT"}
       /\ s.txn_state \in Aborting =>
            s.idemp_state \in {"ASSIGNED", "WAIT_TXN_ABORT"} \cup Acquiring
       /\ s.idemp_state = "WAIT_TXN_ABORT" => s.bump
       /\ s.bump => s.txn_state \in Aborting \cup {"ABORTABLE_ERROR", "ABORT_NOT_ACKED"}
       /\ s.txn_err => s.txn_state \notin {"IN_TRANSACTION", "BEGIN_COMMIT",
                                "COMMITTING_TRANSACTION", "COMMIT_NOT_ACKED"}
  /\ s.txn_state \notin Outside \cup {"FATAL_ERROR"} => s.txn > 0

QueueOK(s, a) ==
  /\ \A m \in s.queued \cup s.flight : m[1] = s.txn /\ m[2] \in Partitions
  /\ ~s.fatal /\ (s.queued \cup s.flight # {} \/ s.timedout # {}) =>
       /\ s.txn_state \in {"IN_TRANSACTION", "BEGIN_COMMIT", "ABORTABLE_ERROR", "BEGIN_ABORT"}
       /\ ~Reacquiring(s)
  /\ s.txn_state \in Sending /\ s.timedout # {} => s.dr_fails
  /\ a.api \in {"commit", "abort"} /\ a.stage >= 3 => s.queued \cup s.flight = {}
  /\ a.api = "abort" /\ (a.stage >= 3 \/ a.at = "flush") => s.queued = {} /\ s.timedout = {}
  /\ a.at = "produce" =>
       /\ s.txn > 0
       /\ s.txn_state \in {"IN_TRANSACTION", "ABORTABLE_ERROR", "FATAL_ERROR"}

\* The requests that may be on the wire in a state.
Allowed(s) ==
  CASE s.txn_state \in {"INIT", "READY_NOT_ACKED", "READY", "COMMIT_NOT_ACKED",
                        "ABORT_NOT_ACKED"} -> {}
    [] s.txn_state = "WAIT_PID" \/ Reacquiring(s) -> {"init_pid"}
    [] s.txn_state \in {"IN_TRANSACTION", "ABORTABLE_ERROR"} -> {"add_parts", "add_offsets"}
    [] s.txn_state = "BEGIN_COMMIT" -> {"add_parts"}
    [] s.txn_state = "BEGIN_ABORT" /\ ~Reacquiring(s) -> {"add_parts"}
    [] s.txn_state = "COMMITTING_TRANSACTION" -> {"end_commit"}
    [] s.txn_state = "ABORTING_TRANSACTION" /\ ~Reacquiring(s) -> {"add_parts", "end_abort"}
    [] s.txn_state = "FATAL_ERROR" -> Kinds

WireOK(s, W) ==
  /\ W \subseteq Requests
  /\ \A q, r \in W : q.kind = r.kind => q = r
  /\ \A q, r \in W : q.kind \notin Last /\ r.kind \in Last /\ r.reply # "none" => q.reply # "none"
  /\ \A r \in W :
       /\ r.kind = "add_parts" => r.parts \subseteq Partitions /\ r.parts # {}
       /\ r.kind = "add_offsets" => r.parts = {OFF}
  /\ Only(W, Allowed(s))
  /\ s.txn_state = "WAIT_PID" \/ Reacquiring(s) => W = {} \/ s.idemp_state = "WAIT_PID"
  /\ s.txn_state = "COMMITTING_TRANSACTION" => Has(W, "end_commit")
  /\ s.txn_state = "ABORTING_TRANSACTION" /\ ~Reacquiring(s) => Has(W, "end_abort")

ListsOK(s, W) ==
  /\ s.pending \cap s.waitresp = {} /\ s.pending \cap s.rktps = {} /\ s.waitresp \cap s.rktps = {}
  /\ s.txn_state \in Outside => s.pending = {} /\ s.waitresp = {} /\ s.rktps = {} /\ s.req_cnt = 0
  /\ s.txn_state \in Sending =>
       /\ \A r \in W : r.kind = "add_parts" => r.parts = s.waitresp
       /\ s.waitresp # {} => Has(W, "add_parts")
       /\ \A p \in s.pending \cup s.waitresp : <<s.txn, p>> \in s.queued \/ s.dr_fails

One(b) == IF b THEN 1 ELSE 0
CountOK(s, W, k) ==
  s.txn_state # "READY" =>
    s.req_cnt >= One(Has(W, "add_parts")) + One(Has(W, "add_offsets"))
                 + One(~s.fatal /\ s.rktps # {})
                 + One(~s.fatal /\ (s.offc # "none" \/ <<s.txn, OFF>> \in k.written))

\* The current call and its result.
SlotOK(s, a) ==
  /\ InCall(a) => s.api.name = a.api /\ s.api.calling
  /\ ~InCall(a) => ~s.api.calling /\ s.api.name \in {"none", "init", "commit", "abort"}
  /\ s.api.name = "none" => s.api.error = "none"
  /\ s.api.error # "none" => s.api.has_result

\* Without a fatal error, an op, its execution and its result follow each other.
Pending(s, W, a) ==
  \/ At(a, "init", 1, "wait") /\ s.txn_state = "WAIT_PID"
  \/ At(a, "offsets", 1, "wait") /\ (s.offc # "none" \/ Has(W, "add_offsets"))
  \/ At(a, "commit", 3, "wait") /\ s.txn_state = "COMMITTING_TRANSACTION"
  \/ At(a, "abort", 3, "wait") /\ (s.txn_state = "ABORTING_TRANSACTION" \/ Reacquiring(s))

\* The producer id is there before the main thread has got to the op that asks for it.
InitOps(s, a) ==
  \/ At(a, "init", 1, "wait") /\ s.ops = <<"init">> /\ s.api.has_result
       /\ s.api.error = "none" /\ s.txn_state = "READY_NOT_ACKED"
  \/ At(a, "init", 2, "enter") /\ s.ops = <<"init">> /\ ~s.api.has_result
       /\ s.txn_state = "READY_NOT_ACKED"
  \/ At(a, "init", 2, "wait") /\ s.ops = <<"init", "init_ack">> /\ ~s.api.has_result
       /\ s.txn_state = "READY_NOT_ACKED"

OpsOK(s, W, a) ==
  /\ a.at # "wait" => s.ops = <<>> \/ InitOps(s, a)
  /\ a.at # "wait" /\ s.api.has_result =>
       /\ s.api.name = "init" /\ s.api.error = "none" /\ s.txn_state = "READY_NOT_ACKED"
       /\ a.at = "idle" \/ (a.api = "init" /\ a.stage = 1)
  /\ a.at = "wait" =>
       \/ s.ops = <<PhaseOf(a)>> /\ ~s.api.has_result
       \/ s.ops = <<>> /\ s.api.has_result
       \/ s.ops = <<>> /\ ~s.api.has_result /\ Pending(s, W, a)
       \/ InitOps(s, a)

CallOK(s, W, a) ==
  /\ s.offc # "none" \/ Has(W, "add_offsets") =>
       /\ At(a, "offsets", 1, "wait") /\ s.ops = <<>> /\ ~s.api.has_result
       /\ s.txn_state \in {"IN_TRANSACTION", "ABORTABLE_ERROR"}
       /\ ~(s.offc # "none" /\ Has(W, "add_offsets"))
  /\ s.txn_state \in {"WAIT_PID", "READY_NOT_ACKED"} =>
       /\ s.api.name = "init"
       /\ a.at = "return" => a.error = "retriable" /\ a.stage = 1
       /\ s.api.has_result => s.api.error = "none" /\ (a.at = "wait" => a.stage = 1)
       /\ s.api.has_result => s.txn_state = "READY_NOT_ACKED"
       /\ s.txn_state = "READY_NOT_ACKED" /\ a.stage # 2 => s.api.has_result
       /\ s.txn_state = "WAIT_PID" => a.stage <= 1
  /\ s.txn_state = "COMMITTING_TRANSACTION" =>
       At(a, "commit", 3, "wait") /\ s.ops = <<>> /\ ~s.api.has_result
  /\ s.txn_state = "ABORTING_TRANSACTION" \/ Reacquiring(s) =>
       At(a, "abort", 3, "wait") /\ s.ops = <<>> /\ ~s.api.has_result

EndOK(s, a) ==
  /\ s.txn_state = "COMMIT_NOT_ACKED" =>
       \/ At(a, "commit", 3, "wait") /\ s.ops = <<>> /\ s.api.has_result /\ s.api.error = "none"
       \/ At(a, "commit", 4, "enter")
       \/ At(a, "commit", 4, "wait") /\ ~s.api.has_result
  /\ s.txn_state = "ABORT_NOT_ACKED" =>
       \/ At(a, "abort", 3, "wait") /\ s.ops = <<>> /\ s.api.has_result /\ s.api.error = "none"
       \/ At(a, "abort", 4, "enter")
       \/ At(a, "abort", 4, "wait") /\ ~s.api.has_result
  /\ At(a, "commit", 3, "wait") /\ s.api.has_result /\ s.api.error = "none" =>
       s.txn_state = "COMMIT_NOT_ACKED"
  /\ At(a, "abort", 3, "wait") /\ s.api.has_result /\ s.api.error = "none" =>
       s.txn_state = "ABORT_NOT_ACKED"
  /\ a.stage = 4 =>
       \/ s.txn_state = "READY" /\ (a.at = "return" \/ (a.at = "wait" /\ s.ops = <<>>))
       \/ s.txn_state = "COMMIT_NOT_ACKED" /\ a.api = "commit" /\ a.at \in {"enter", "wait"}
       \/ s.txn_state = "ABORT_NOT_ACKED" /\ a.api = "abort" /\ a.at \in {"enter", "wait"}
  /\ At(a, "begin", 1, "enter") \/ (At(a, "begin", 1, "wait") /\ s.ops # <<>>) => s.txn < MaxTxns

Gathering(s, a) ==
  \/ s.txn_state \in Sending
  \/ s.txn_state \in {"ABORTABLE_ERROR", "BEGIN_ABORT"}
     /\ (s.queued # {} \/ a.at = "produce")

\* The coordinator and the logs.
LogOK(s, k) ==
  /\ k.open <=> k.parts # {}
  /\ k.committed \cap k.aborted = {}
  /\ k.committed \cup k.aborted \subseteq k.written
  /\ \A m \in k.written \cup s.produced : m[1] <= s.txn
  /\ \A m \in k.written : m \in k.committed \cup k.aborted \/ (m[1] = s.txn /\ m[2] \in k.parts)
  /\ s.txn_state \in Outside \cup {"COMMIT_NOT_ACKED", "ABORT_NOT_ACKED"} =>
       k.written \subseteq k.committed \cup k.aborted
  /\ s.txn_state # "READY" /\ ~s.fatal =>
       \A m \in s.flight \cup k.written : m[1] = s.txn => m[2] \in s.rktps \cup {OFF}

\* What a reply says of the coordinator.
RepliesOK(s, W, k) ==
  \A r \in W :
    /\ r.kind \in Last /\ r.reply = "ok" => k.parts = {}
    /\ r.kind \in {"init_pid", "add_parts", "add_offsets"} /\ r.reply = "fenced" => k.fenced
    /\ (r.kind = "add_offsets" \/ (r.kind = "add_parts" /\ s.txn_state \in Sending))
         /\ r.reply = "ok" => k.fenced \/ r.parts \subseteq k.parts
    /\ r.kind = "end_commit" /\ r.reply = "ok" => Of(s.txn, s.produced) \subseteq k.committed

\* What the client sends to is registered.
PartsOK(s, W, a, k) ==
  /\ s.offc # "none" => k.fenced \/ OFF \in k.parts
  /\ \A m \in s.flight : k.fenced \/ m[2] \in k.parts
  /\ Gathering(s, a) => k.fenced \/ s.rktps \subseteq k.parts
  /\ s.fatal => \A q, r \in W : q.kind \in Last /\ r.kind \in Last => q = r
  /\ s.fatal /\ (\E r \in W : r.kind \in Last) =>
       /\ s.queued = {} /\ s.flight = {} /\ s.offc = "none" /\ a.at # "produce"
       /\ ~Has(W, "add_offsets")
  /\ s.fatal /\ Has(W, "end_commit") =>
       Of(s.txn, s.produced) \subseteq k.written /\ (k.fenced \/ Of(s.txn, k.aborted) = {})

\* Where the messages of the transaction are.
OutcomeOK(s, W, a, k) ==
  /\ s.txn_state \in Sending =>
       \A m \in Of(s.txn, s.produced) : m \in s.queued \cup s.flight \cup k.written \/ s.dr_fails
  /\ s.txn_state = "COMMITTING_TRANSACTION" => Of(s.txn, s.produced) \subseteq k.written
  /\ s.txn_state = "COMMIT_NOT_ACKED" => Of(s.txn, s.produced) \subseteq k.committed
  /\ s.txn_state \in Sending \/ a.at = "produce" \/ s.offc # "none" \/ Has(W, "add_offsets") =>
       Of(s.txn, k.committed) = {}
  /\ s.txn_state \in Sending \cup {"COMMITTING_TRANSACTION"} => k.fenced \/ Of(s.txn, k.aborted) = {}
  /\ \A t \in 1 .. MaxTxns :
       Of(t, k.committed) # {} => Of(t, s.produced) \subseteq k.committed

ToldOK(s, a, k, d) ==
  /\ \A t \in 1 .. MaxTxns :
       /\ d[t] = "commit" => Of(t, s.produced) \subseteq k.committed
       /\ d[t] # "none" => t < s.txn \/ (t = s.txn /\ s.txn_state \in {"READY", "FATAL_ERROR"})
  /\ a.stage = 4 /\ a.api = "commit"
       /\ (s.txn_state = "READY" \/ (s.txn_state = "FATAL_ERROR" /\ a.at = "return"))
       /\ (a.at = "return" => a.error = "none") /\ (a.at = "wait" => s.api.error = "none") =>
       Of(s.txn, s.produced) \subseteq k.committed
  /\ a.at = "return" /\ a.error = "none" /\ a.api \in {"commit", "abort"} =>
       a.stage = 4 /\ s.txn_state \in {"READY", "FATAL_ERROR"}

\* The call has got its outcome and is about to return it.
Returns(a) == a.stage = 4 /\ a.at = "return" /\ a.error = "none"

\* There are no offsets whose reply sets a result.
Spent(s, W) == s.offc = "none" /\ ~Has(W, "add_offsets")

\* After a fatal error nothing is done for a transaction whose outcome was known, and
\* a result without an error, which only the offsets can set, does not complete a call.
SettledOK(s, W, a, d) ==
  s.fatal =>
    /\ Returns(a) \/ (\E t \in 1 .. MaxTxns : t = s.txn /\ d[t] # "none") =>
         W = {} /\ s.offc = "none" /\ a.at # "produce"
    /\ ~Spent(s, W) => s.txn > 0
    /\ s.offc = "none" \/ ~Has(W, "add_offsets")
    /\ a.api \in {"commit", "abort"} /\ a.stage >= 2 /\ s.api.has_result /\ s.api.error = "none" =>
         Spent(s, W)
    /\ a.api \in {"commit", "abort"} /\ a.stage = 4 /\ a.at # "return" =>
         Spent(s, W) /\ (s.api.has_result => s.api.error # "none")

\* The transaction is committed and the client does not know: the reply of EndTxn is
\* on its way, or was lost and the retry has failed.
CommitLost(s, k) ==
  /\ s.txn_state \in {"COMMITTING_TRANSACTION", "ABORTABLE_ERROR", "BEGIN_ABORT",
                      "ABORTING_TRANSACTION"}
  /\ Of(s.txn, k.committed) # {}

\* No coordinator answers UNKNOWN_PRODUCER_ID or INVALID_PRODUCER_ID_MAPPING.
NoBump == "bump" \notin Faults

\* A transaction that has been aborted is not committed: an abort that follows a
\* lost commit has an EndTxn to send, and that is refused.
AbortOK(s, W, a, k, d) ==
  /\ \A t \in 1 .. MaxTxns : d[t] = "abort" => Of(t, k.committed) = {}
  /\ s.txn_state = "ABORT_NOT_ACKED" => Of(s.txn, k.committed) = {}
  /\ a.stage = 4 /\ a.api = "abort"
       /\ (s.txn_state = "READY" \/ (s.txn_state = "FATAL_ERROR" /\ a.at = "return"))
       /\ (a.at = "return" => a.error = "none") /\ (a.at = "wait" => s.api.error = "none") =>
       Of(s.txn, k.committed) = {}
  /\ \A r \in W : r.reply # "bump"
  /\ s.txn_state = "COMMITTING_TRANSACTION" => s.req_cnt > 0
  /\ CommitLost(s, k) =>
       /\ k.parts = {} /\ k.last = "end_commit" /\ s.req_cnt > 0 /\ ~s.bump /\ ~Reacquiring(s)
       /\ s.queued = {} /\ s.flight = {} /\ s.timedout = {}
       /\ s.txn_state # "COMMITTING_TRANSACTION" =>
            \A r \in W : r.kind = "end_abort" /\ r.reply # "ok"

Sound(s, W, a, k, d) ==
  /\ ClientOK(s) /\ s.asserts /\ a \in Apps /\ k \in Coords /\ d \in Tolds
  /\ AppOK(a) /\ StatesOK(s) /\ QueueOK(s, a) /\ WireOK(s, W) /\ ListsOK(s, W) /\ CountOK(s, W, k)
  /\ SlotOK(s, a) /\ (~s.fatal => OpsOK(s, W, a) /\ CallOK(s, W, a) /\ EndOK(s, a))
  /\ LogOK(s, k) /\ RepliesOK(s, W, k) /\ PartsOK(s, W, a, k)
  /\ OutcomeOK(s, W, a, k) /\ ToldOK(s, a, k, d) /\ SettledOK(s, W, a, d)
  /\ (NoBump => AbortOK(s, W, a, k, d))

Good(s, a, k, d) == Ordered(s.wire) /\ Sound(s, OnWire(s.wire), a, k, d)

Inv == Good(c, app, co, told)

\* The instances in which no result is left for a later call to find: a commit or an
\* abort whose EndTxn is out does not time out, and no other call times out before
\* the main thread has got to its op.  The assertions fail with either of the two.
NoLateResult == ~Stalls /\ TimeoutPhases \cap {"commit", "abort"} = {}

-----------------------------------------------------------------------------
(* What a handler leaves alone. *)

Same(s, t, C) ==
  /\ DOMAIN t = Fields /\ t.timers \subseteq Timers
  /\ \A f \in Fields \ (C \cup Misc) : t[f] = s[f]

LEMMA AppendOne ==
  ASSUME NEW x, NEW y
  PROVE  Append(<<x>>, y) = <<x, y>>
<1> DEFINE S == {x, y}
<1>1. <<x>> \in Seq(S) /\ y \in S /\ <<x, y>> \in Seq(S)
  OBVIOUS
<1> HIDE DEF S
<1>2. Append(<<x>>, y) \in Seq(S) /\ Len(Append(<<x>>, y)) = 2
      /\ Append(<<x>>, y)[1] = x /\ Append(<<x>>, y)[2] = y
  BY <1>1, AppendProperties
<1>3. Len(<<x, y>>) = 2 /\ <<x, y>>[1] = x /\ <<x, y>>[2] = y
  OBVIOUS
<1>4. \A i \in 1 .. 2 : Append(<<x>>, y)[i] = <<x, y>>[i]
  BY <1>2, <1>3
<1> QED
  BY <1>1, <1>2, <1>3, <1>4, SeqEqual

LEMMA TailTwo ==
  ASSUME NEW x, NEW y
  PROVE  Tail(<<x, y>>) = <<y>> /\ Head(<<x, y>>) = x /\ Tail(<<x>>) = <<>> /\ Head(<<x>>) = x
         /\ <<x>> # <<>> /\ <<x, y>> # <<>> /\ <<x, y>> # <<x>>
OBVIOUS

LEMMA PhaseTable ==
  /\ Phases["init"] = <<"init", "init_ack">>
  /\ Phases["begin"] = <<"begin">>
  /\ Phases["offsets"] = <<"offsets">>
  /\ Phases["commit"] = <<"begin_commit", "flush", "commit", "commit_ack">>
  /\ Phases["abort"] = <<"begin_abort", "flush", "abort", "abort_ack">>
BY DEF Phases

LEMMA PhaseLen ==
  ASSUME NEW api \in Apis
  PROVE  Len(Phases[api]) = Stages(api)
<1>1. CASE api = "init"
  BY <1>1, PhaseTable DEF Stages
<1>2. CASE api = "begin"
  BY <1>2, PhaseTable DEF Stages
<1>3. CASE api = "offsets"
  BY <1>3, PhaseTable DEF Stages
<1>4. CASE api = "commit"
  BY <1>4, PhaseTable DEF Stages
<1>5. CASE api = "abort"
  BY <1>5, PhaseTable DEF Stages
<1> QED
  BY <1>1, <1>2, <1>3, <1>4, <1>5 DEF Apis

LEMMA PhaseIs ==
  ASSUME NEW a, InCall(a), AppOK(a)
  PROVE  /\ PhaseOf(a) = "init" <=> a.api = "init" /\ a.stage = 1
         /\ PhaseOf(a) = "init_ack" <=> a.api = "init" /\ a.stage = 2
         /\ PhaseOf(a) = "begin" <=> a.api = "begin" /\ a.stage = 1
         /\ PhaseOf(a) = "offsets" <=> a.api = "offsets" /\ a.stage = 1
         /\ PhaseOf(a) = "begin_commit" <=> a.api = "commit" /\ a.stage = 1
         /\ PhaseOf(a) = "flush" <=> a.api \in {"commit", "abort"} /\ a.stage = 2
         /\ PhaseOf(a) = "commit" <=> a.api = "commit" /\ a.stage = 3
         /\ PhaseOf(a) = "commit_ack" <=> a.api = "commit" /\ a.stage = 4
         /\ PhaseOf(a) = "begin_abort" <=> a.api = "abort" /\ a.stage = 1
         /\ PhaseOf(a) = "abort" <=> a.api = "abort" /\ a.stage = 3
         /\ PhaseOf(a) = "abort_ack" <=> a.api = "abort" /\ a.stage = 4
         /\ PhaseOf(a) \in OpNames \cup {"flush"}
<1>1. a.api \in Apis /\ a.stage \in 1 .. 4 /\ a.stage <= Stages(a.api)
  BY DEF AppOK
<1>2. CASE a.api = "init"
  <2>1. a.stage \in 1 .. 2
    BY <1>1, <1>2 DEF Stages
  <2> QED
    BY <1>2, <2>1, PhaseTable DEF PhaseOf, OpNames
<1>3. CASE a.api \in {"begin", "offsets"}
  <2>1. a.stage = 1
    BY <1>1, <1>3 DEF Stages
  <2> QED
    BY <1>3, <2>1, PhaseTable DEF PhaseOf, OpNames
<1>4. CASE a.api = "commit"
  <2>1. a.stage \in 1 .. 4
    BY <1>1, <1>4 DEF Stages
  <2> QED
    BY <1>4, <2>1, PhaseTable DEF PhaseOf, OpNames
<1>5. CASE a.api = "abort"
  <2>1. a.stage \in 1 .. 4
    BY <1>1, <1>5 DEF Stages
  <2> QED
    BY <1>5, <2>1, PhaseTable DEF PhaseOf, OpNames
<1> QED
  BY <1>1, <1>2, <1>3, <1>4, <1>5 DEF Apis

LEMMA PhaseDoneIs ==
  ASSUME NEW a, a \in Apps, AppOK(a), InCall(a), NEW error \in Errors
  PROVE  /\ PhaseDone(a, error) \in Apps /\ AppOK(PhaseDone(a, error))
         /\ InCall(PhaseDone(a, error)) /\ PhaseDone(a, error).api = a.api
         /\ a.api \in Apis /\ a.stage \in 1 .. 4 /\ Stages(a.api) \in 1 .. 4
         /\ a.stage <= Stages(a.api)
         /\ \/ /\ error = "none" /\ a.stage < Stages(a.api)
               /\ PhaseDone(a, error).at = "enter" /\ PhaseDone(a, error).stage = a.stage + 1
            \/ /\ error # "none" \/ a.stage = Stages(a.api)
               /\ PhaseDone(a, error).at = "return" /\ PhaseDone(a, error).stage = a.stage
               /\ PhaseDone(a, error).error = error
<1>1. /\ a.api \in Apis /\ a.stage \in 1 .. 4 /\ a.stage <= Stages(a.api)
      /\ Len(Phases[a.api]) = Stages(a.api) /\ Stages(a.api) \in 1 .. 4
  BY PhaseLen DEF AppOK, Stages
<1>2. CASE error = "none" /\ a.stage < Stages(a.api)
  <2>1. PhaseDone(a, error) = [a EXCEPT !.at = "enter", !.stage = @ + 1]
    BY <1>1, <1>2 DEF PhaseDone
  <2>2. a.stage + 1 \in 0 .. 4 /\ a.stage + 1 <= Stages(a.api)
    BY <1>1, <1>2
  <2>3. PhaseDone(a, error) = [at |-> "enter", api |-> a.api, stage |-> a.stage + 1,
                               error |-> a.error, arg |-> a.arg]
    BY <2>1 DEF Apps
  <2>4. PhaseDone(a, error) \in Apps
    BY <2>2, <2>3 DEF Apps
  <2>5. PhaseDone(a, error).at = "enter" /\ PhaseDone(a, error).stage = a.stage + 1
        /\ PhaseDone(a, error).api = a.api
    BY <2>3
  <2>6. AppOK(PhaseDone(a, error)) /\ InCall(PhaseDone(a, error))
    BY <1>1, <2>2, <2>5 DEF AppOK, InCall
  <2> QED
    BY <1>1, <1>2, <2>4, <2>5, <2>6
<1>3. CASE ~(error = "none" /\ a.stage < Stages(a.api))
  <2>1. PhaseDone(a, error) = [a EXCEPT !.at = "return", !.error = error]
    BY <1>1, <1>3 DEF PhaseDone
  <2>2. PhaseDone(a, error) = [at |-> "return", api |-> a.api, stage |-> a.stage,
                               error |-> error, arg |-> a.arg]
    BY <2>1 DEF Apps
  <2>3. PhaseDone(a, error) \in Apps
    BY <2>2 DEF Apps
  <2>4. PhaseDone(a, error).at = "return" /\ PhaseDone(a, error).stage = a.stage
        /\ PhaseDone(a, error).api = a.api /\ PhaseDone(a, error).error = error
    BY <2>2
  <2>5. AppOK(PhaseDone(a, error)) /\ InCall(PhaseDone(a, error))
    BY <1>1, <2>4 DEF AppOK, InCall
  <2>6. error # "none" \/ a.stage = Stages(a.api)
    BY <1>1, <1>3
  <2> QED
    BY <1>1, <2>3, <2>4, <2>5, <2>6
<1> QED
  BY <1>2, <1>3

\* The slot of the current call once its result is taken, and once the call n begins.
Emptied(p) == [p EXCEPT !.has_result = FALSE, !.error = "none"]
Called(p, n) == [p EXCEPT !.name = n, !.calling = TRUE]
Calls(s, t, n) ==
  /\ n \in Apis /\ s.api.name \in {"none", n} /\ (n = "begin" => s.txn < MaxTxns)
  /\ Same(s, t, {"api", "asserts"}) /\ t.api = Called(s.api, n)
  /\ t.asserts = (s.asserts /\ (s.api.name = n \/ s.api.error = "none"))

Begun(a, n) == [a EXCEPT !.at = "enter", !.api = n, !.stage = 1]

LEMMA TakeSound ==
  ASSUME NEW s, NEW W, NEW a, NEW k, NEW d, Sound(s, W, a, k, d), NEW t,
         Same(s, t, {"api"}),
         s.api.has_result, a.at \in {"enter", "wait"},
         ~(a.stage = 2 /\ a.api \in {"commit", "abort"}),
         t.api = Emptied(s.api),
         NEW b, b = PhaseDone(a, s.api.error)
  PROVE  Sound(t, W, b, k, d)
<1> USE DEF Emptied
<1>1. /\ ClientOK(s) /\ s.asserts /\ a \in Apps /\ k \in Coords /\ d \in Tolds /\ AppOK(a)
      /\ StatesOK(s) /\ QueueOK(s, a) /\ WireOK(s, W) /\ ListsOK(s, W) /\ CountOK(s, W, k)
      /\ SlotOK(s, a) /\ LogOK(s, k) /\ RepliesOK(s, W, k) /\ PartsOK(s, W, a, k)
      /\ OutcomeOK(s, W, a, k) /\ ToldOK(s, a, k, d)
      /\ SettledOK(s, W, a, d)
      /\ (NoBump => AbortOK(s, W, a, k, d))
      /\ ~s.fatal => OpsOK(s, W, a) /\ CallOK(s, W, a) /\ EndOK(s, a)
  BY DEF Sound
<1>2. /\ t.txn_state = s.txn_state /\ t.idemp_state = s.idemp_state /\ t.fatal = s.fatal
      /\ t.txn_err = s.txn_err /\ t.bump = s.bump /\ t.req_cnt = s.req_cnt
      /\ t.may_enq = s.may_enq /\ t.dr_fails = s.dr_fails /\ t.pending = s.pending
      /\ t.waitresp = s.waitresp /\ t.rktps = s.rktps /\ t.ops = s.ops /\ t.offc = s.offc
      /\ t.queued = s.queued /\ t.flight = s.flight /\ t.txn = s.txn /\ t.produced = s.produced
      /\ t.asserts = s.asserts /\ t.timedout = s.timedout /\ DOMAIN t = Fields /\ t.timers \subseteq Timers
  BY DEF Same, Fields, Misc
<1>3. /\ ApiOK(t.api) /\ t.api.name = s.api.name /\ t.api.calling = s.api.calling
      /\ ~t.api.has_result /\ t.api.error = "none"
  BY <1>1 DEF ClientOK, ApiOK, Apis, Errors
<1>4. /\ b \in Apps /\ b.api = a.api /\ InCall(b) /\ AppOK(b) /\ InCall(a)
      /\ a.api \in Apis /\ a.stage \in 1 .. 4 /\ Stages(a.api) \in 1 .. 4
      /\ a.stage <= Stages(a.api) /\ s.api.error \in Errors
      /\ \/ /\ s.api.error = "none" /\ a.stage < Stages(a.api)
            /\ b.at = "enter" /\ b.stage = a.stage + 1
         \/ /\ s.api.error # "none" \/ a.stage = Stages(a.api)
            /\ b.at = "return" /\ b.stage = a.stage /\ b.error = s.api.error
  BY <1>1, PhaseDoneIs DEF InCall, ClientOK, ApiOK
<1>5. ClientOK(t)
  BY <1>1, <1>2, <1>3, <1>4 DEF ClientOK
<1>6. t.asserts
  BY <1>1, <1>2
<1>7. b \in Apps
  BY <1>1, <1>2, <1>3, <1>4 DEF Apps
<1>8. AppOK(b)
  BY <1>1, <1>2, <1>3, <1>4 DEF AppOK, InCall, Apps
<1>9. StatesOK(t)
  BY <1>1, <1>2 DEF StatesOK
<1>10. QueueOK(t, b)
  BY <1>1, <1>2, <1>3, <1>4 DEF QueueOK, Reacquiring, Apps, Acquiring, Aborting, Stages
<1>11. WireOK(t, W)
  BY <1>1, <1>2 DEF WireOK, Reacquiring, Allowed
<1>12. ListsOK(t, W)
  BY <1>1, <1>2 DEF ListsOK
<1>13. CountOK(t, W, k)
  BY <1>1, <1>2 DEF CountOK
<1>14. SlotOK(t, b)
  BY <1>1, <1>2, <1>3, <1>4 DEF SlotOK, InCall, ApiOK, ClientOK, Apps, Stages
<1>15. ~t.fatal => OpsOK(t, W, b)
  BY <1>1, <1>2, <1>3, <1>4 DEF OpsOK, Pending, InitOps, Reacquiring, At, Acquiring, Aborting,
  Has, InCall, Stages
<1>16. ~t.fatal => CallOK(t, W, b)
  BY <1>1, <1>2, <1>3, <1>4 DEF CallOK, Reacquiring, At, Acquiring, Aborting, Has, Apps,
  Stages, SlotOK, OpsOK, InCall, InitOps
<1>17. ~t.fatal => EndOK(t, b)
  BY <1>1, <1>2, <1>3, <1>4 DEF EndOK, At, Stages, OpsOK, InitOps
<1>18. LogOK(t, k)
  BY <1>1, <1>2 DEF LogOK
<1>19. RepliesOK(t, W, k)
  BY <1>1, <1>2 DEF RepliesOK
<1>20. PartsOK(t, W, b, k)
  BY <1>1, <1>2, <1>3, <1>4 DEF PartsOK, Gathering, Sending
<1>21. OutcomeOK(t, W, b, k)
  BY <1>1, <1>2, <1>3, <1>4 DEF OutcomeOK, Of, Has, Sending
<1>22. ToldOK(t, b, k, d)
  BY <1>1, <1>2, <1>3, <1>4 DEF ToldOK, Of, Apps, Stages, EndOK, OpsOK, SlotOK, At, InitOps,
  SettledOK, StatesOK
<1>23. NoBump => AbortOK(t, W, b, k, d)
  BY <1>1, <1>2, <1>3, <1>4, <1>17 DEF AbortOK, CommitLost, Reacquiring, EndOK, StatesOK, At, Stages,
  SlotOK, SettledOK
<1>24. SettledOK(t, W, b, d)
  BY <1>1, <1>2, <1>3, <1>4, <1>7 DEF SettledOK, SlotOK, Stages, Apps,
  Returns, Spent, Has
<1> QED
  BY <1>24, <1>23, <1>1, <1>2, <1>5, <1>6, <1>7, <1>8, <1>9, <1>10, <1>11, <1>12, <1>13, <1>14, <1>15, <1>16,
  <1>17, <1>18, <1>19, <1>20, <1>21, <1>22, <1>3, <1>4 DEF Sound

LEMMA CallSound ==
  ASSUME NEW s, NEW W, NEW a, NEW k, NEW d, Sound(s, W, a, k, d), NEW t,
         a.at = "idle", NEW n, Calls(s, t, n),
         NEW b, b = Begun(a, n)
  PROVE  Sound(t, W, b, k, d)
<1> USE DEF Called, Calls, Begun
<1>1. /\ ClientOK(s) /\ s.asserts /\ a \in Apps /\ k \in Coords /\ d \in Tolds /\ AppOK(a)
      /\ StatesOK(s) /\ QueueOK(s, a) /\ WireOK(s, W) /\ ListsOK(s, W) /\ CountOK(s, W, k)
      /\ SlotOK(s, a) /\ LogOK(s, k) /\ RepliesOK(s, W, k) /\ PartsOK(s, W, a, k)
      /\ OutcomeOK(s, W, a, k) /\ ToldOK(s, a, k, d)
      /\ SettledOK(s, W, a, d)
      /\ (NoBump => AbortOK(s, W, a, k, d))
      /\ ~s.fatal => OpsOK(s, W, a) /\ CallOK(s, W, a) /\ EndOK(s, a)
  BY DEF Sound
<1>2. /\ t.txn_state = s.txn_state /\ t.idemp_state = s.idemp_state /\ t.fatal = s.fatal
      /\ t.txn_err = s.txn_err /\ t.bump = s.bump /\ t.req_cnt = s.req_cnt
      /\ t.may_enq = s.may_enq /\ t.dr_fails = s.dr_fails /\ t.pending = s.pending
      /\ t.waitresp = s.waitresp /\ t.rktps = s.rktps /\ t.ops = s.ops /\ t.offc = s.offc
      /\ t.queued = s.queued /\ t.flight = s.flight /\ t.txn = s.txn /\ t.produced = s.produced
      /\ t.timedout = s.timedout /\ DOMAIN t = Fields /\ t.timers \subseteq Timers
  BY DEF Same, Fields, Misc
<1>3. /\ ApiOK(t.api) /\ t.api.name = n /\ t.api.calling
      /\ t.api.has_result = s.api.has_result /\ t.api.error = s.api.error
  BY <1>1 DEF ClientOK, ApiOK
<1>4. b = [at |-> "enter", api |-> n, stage |-> 1, error |-> a.error, arg |-> a.arg]
  BY <1>1 DEF Apps
<1>5. b \in Apps
  BY <1>1, <1>4 DEF Apps
<1>6. /\ b.at = "enter" /\ b.api = n /\ b.stage = 1 /\ InCall(b) /\ ~InCall(a)
  BY <1>4 DEF InCall
<1>7. t.asserts /\ t.asserts \in BOOLEAN
  BY <1>1 DEF SlotOK
<1>8. ClientOK(t)
  BY <1>1, <1>2, <1>3, <1>4, <1>5, <1>6, <1>7 DEF ClientOK
<1>9. t.asserts
  BY <1>1, <1>2, <1>3, <1>4, <1>5, <1>6, <1>7
<1>10. b \in Apps
  BY <1>1, <1>2, <1>3, <1>4, <1>5, <1>6, <1>7 DEF Apps
<1>11. AppOK(b)
  BY <1>1, <1>2, <1>3, <1>4, <1>5, <1>6, <1>7 DEF AppOK, InCall, Apps, Stages, Apis
<1>12. StatesOK(t)
  BY <1>1, <1>2 DEF StatesOK
<1>13. QueueOK(t, b)
  BY <1>1, <1>2, <1>3, <1>4, <1>5, <1>6, <1>7 DEF QueueOK, Reacquiring, Apps, Acquiring,
  Aborting
<1>14. WireOK(t, W)
  BY <1>1, <1>2 DEF WireOK, Reacquiring, Allowed
<1>15. ListsOK(t, W)
  BY <1>1, <1>2 DEF ListsOK
<1>16. CountOK(t, W, k)
  BY <1>1, <1>2 DEF CountOK
<1>17. SlotOK(t, b)
  BY <1>1, <1>2, <1>3, <1>4, <1>5, <1>6, <1>7 DEF SlotOK, InCall, ApiOK, ClientOK, Apps
<1>18. ~t.fatal => OpsOK(t, W, b)
  BY <1>1, <1>2, <1>3, <1>4, <1>5, <1>6, <1>7 DEF OpsOK, Pending, InitOps, Reacquiring, At,
  Acquiring, Aborting, Has, InCall, SlotOK, ClientOK, ApiOK
<1>19. ~t.fatal => CallOK(t, W, b)
  BY <1>1, <1>2, <1>3, <1>4, <1>5, <1>6, <1>7 DEF CallOK, Reacquiring, At, Acquiring, Aborting,
  Has, Apps, SlotOK, InCall, AppOK
<1>20. ~t.fatal => EndOK(t, b)
  BY <1>1, <1>2, <1>3, <1>4, <1>5, <1>6, <1>7 DEF EndOK, At, SlotOK, OpsOK, InitOps, InCall
<1>21. LogOK(t, k)
  BY <1>1, <1>2 DEF LogOK
<1>22. RepliesOK(t, W, k)
  BY <1>1, <1>2 DEF RepliesOK
<1>23. PartsOK(t, W, b, k)
  BY <1>1, <1>2, <1>3, <1>4, <1>5, <1>6, <1>7 DEF PartsOK, Gathering, Sending
<1>24. OutcomeOK(t, W, b, k)
  BY <1>1, <1>2, <1>3, <1>4, <1>5, <1>6, <1>7 DEF OutcomeOK, Of, Has, Sending
<1>25. ToldOK(t, b, k, d)
  BY <1>1, <1>2, <1>3, <1>4, <1>5, <1>6, <1>7 DEF ToldOK, Of, Apps
<1>26. NoBump => AbortOK(t, W, b, k, d)
  BY <1>1, <1>2, <1>3, <1>4, <1>5, <1>6, <1>10 DEF AbortOK, CommitLost, Of, Reacquiring, Acquiring, Aborting
<1>27. SettledOK(t, W, b, d)
  BY <1>1, <1>2, <1>3, <1>4, <1>5, <1>6, <1>10 DEF SettledOK,
  Returns, Spent, Has
<1> QED
  BY <1>27, <1>26, <1>1, <1>2, <1>8, <1>9, <1>10, <1>11, <1>12, <1>13, <1>14, <1>15, <1>16, <1>17, <1>18,
  <1>19, <1>20, <1>21, <1>22, <1>23, <1>24, <1>25, <1>3, <1>4, <1>5, <1>6, <1>7 DEF Sound

LEMMA FlushSound ==
  ASSUME NEW s, NEW W, NEW a, NEW k, NEW d, Sound(s, W, a, k, d), NEW t,
         Same(s, t, {"queued", "dr_fails"}),
         a.at = "enter", a.api \in {"commit", "abort"}, a.stage = 2,
         NEW b, b = [a EXCEPT !.at = "flush"],
         t.dr_fails \in BOOLEAN, a.api = "commit" => t.queued = s.queued /\ (t.dr_fails <=> s.dr_fails),
         a.api = "abort" => s.timedout = {},
         a.api = "abort" => t.queued = {} /\ (t.dr_fails <=> s.dr_fails \/ s.queued # {})
  PROVE  Sound(t, W, b, k, d)
<1>1. /\ ClientOK(s) /\ s.asserts /\ a \in Apps /\ k \in Coords /\ d \in Tolds /\ AppOK(a)
      /\ StatesOK(s) /\ QueueOK(s, a) /\ WireOK(s, W) /\ ListsOK(s, W) /\ CountOK(s, W, k)
      /\ SlotOK(s, a) /\ LogOK(s, k) /\ RepliesOK(s, W, k) /\ PartsOK(s, W, a, k)
      /\ OutcomeOK(s, W, a, k) /\ ToldOK(s, a, k, d)
      /\ SettledOK(s, W, a, d)
      /\ (NoBump => AbortOK(s, W, a, k, d))
      /\ ~s.fatal => OpsOK(s, W, a) /\ CallOK(s, W, a) /\ EndOK(s, a)
  BY DEF Sound
<1>2. /\ t.txn_state = s.txn_state /\ t.idemp_state = s.idemp_state /\ t.fatal = s.fatal
      /\ t.txn_err = s.txn_err /\ t.bump = s.bump /\ t.req_cnt = s.req_cnt
      /\ t.may_enq = s.may_enq /\ t.pending = s.pending /\ t.waitresp = s.waitresp
      /\ t.rktps = s.rktps /\ t.api = s.api /\ t.ops = s.ops /\ t.offc = s.offc
      /\ t.flight = s.flight /\ t.txn = s.txn /\ t.produced = s.produced
      /\ t.asserts = s.asserts /\ t.timedout = s.timedout /\ DOMAIN t = Fields /\ t.timers \subseteq Timers
  BY DEF Same, Fields, Misc
<1>3. /\ b \in Apps /\ b.at = "flush" /\ b.api = a.api /\ b.stage = 2 /\ InCall(b) /\ InCall(a)
  BY <1>1 DEF Apps, InCall
<1>4. ClientOK(t)
  BY <1>1, <1>2, <1>3 DEF ClientOK
<1>5. t.asserts
  BY <1>1, <1>2
<1>6. b \in Apps
  BY <1>1, <1>2, <1>3 DEF Apps
<1>7. AppOK(b)
  BY <1>1, <1>2, <1>3 DEF AppOK, InCall, Apps
<1>8. StatesOK(t)
  BY <1>1, <1>2 DEF StatesOK
<1>9. QueueOK(t, b)
  BY <1>1, <1>2, <1>3 DEF QueueOK, Reacquiring, Apps, Acquiring, Aborting
<1>10. WireOK(t, W)
  BY <1>1, <1>2 DEF WireOK, Reacquiring, Allowed
<1>11. ListsOK(t, W)
  BY <1>1, <1>2, <1>3 DEF ListsOK, Has, Outside, Sending
<1>12. CountOK(t, W, k)
  BY <1>1, <1>2 DEF CountOK
<1>13. SlotOK(t, b)
  BY <1>1, <1>2, <1>3 DEF SlotOK, InCall, ApiOK, ClientOK, Apps
<1>14. ~t.fatal => OpsOK(t, W, b)
  BY <1>1, <1>2, <1>3 DEF OpsOK, Pending, InitOps, Reacquiring, At, Acquiring, Aborting, Has,
  InCall
<1>15. ~t.fatal => CallOK(t, W, b)
  BY <1>1, <1>2, <1>3 DEF CallOK, Reacquiring, At, Acquiring, Aborting, Has, Apps
<1>16. ~t.fatal => EndOK(t, b)
  BY <1>1, <1>2, <1>3 DEF EndOK, At
<1>17. LogOK(t, k)
  BY <1>1, <1>2 DEF LogOK
<1>18. RepliesOK(t, W, k)
  BY <1>1, <1>2 DEF RepliesOK
<1>19. PartsOK(t, W, b, k)
  BY <1>1, <1>2, <1>3 DEF PartsOK, Gathering, Sending
<1>20. OutcomeOK(t, W, b, k)
  BY <1>1, <1>2, <1>3 DEF OutcomeOK, Of, Has, Sending
<1>21. ToldOK(t, b, k, d)
  BY <1>1, <1>2, <1>3 DEF ToldOK, Of, Apps
<1>22. NoBump => AbortOK(t, W, b, k, d)
  BY <1>1, <1>2, <1>3, <1>6 DEF AbortOK, CommitLost, Of, Reacquiring, Acquiring, Aborting
<1>23. SettledOK(t, W, b, d)
  BY <1>1, <1>2, <1>3, <1>6 DEF SettledOK,
  Returns, Spent, Has
<1> QED
  BY <1>23, <1>22, <1>1, <1>2, <1>4, <1>5, <1>6, <1>7, <1>8, <1>9, <1>10, <1>11, <1>12, <1>13, <1>14, <1>15,
  <1>16, <1>17, <1>18, <1>19, <1>20, <1>21, <1>3 DEF Sound

LEMMA EnterOpSound ==
  ASSUME NEW s, NEW W, NEW a, NEW k, NEW d, Sound(s, W, a, k, d), NEW t,
         Same(s, t, {"ops"}),
         a.at = "enter", ~(a.api \in {"commit", "abort"} /\ a.stage = 2), ~s.api.has_result,
         NEW b, b = [a EXCEPT !.at = "wait"],
         t.ops = Append(s.ops, PhaseOf(a))
  PROVE  Sound(t, W, b, k, d)
<1>1. /\ ClientOK(s) /\ s.asserts /\ a \in Apps /\ k \in Coords /\ d \in Tolds /\ AppOK(a)
      /\ StatesOK(s) /\ QueueOK(s, a) /\ WireOK(s, W) /\ ListsOK(s, W) /\ CountOK(s, W, k)
      /\ SlotOK(s, a) /\ LogOK(s, k) /\ RepliesOK(s, W, k) /\ PartsOK(s, W, a, k)
      /\ OutcomeOK(s, W, a, k) /\ ToldOK(s, a, k, d)
      /\ SettledOK(s, W, a, d)
      /\ (NoBump => AbortOK(s, W, a, k, d))
      /\ ~s.fatal => OpsOK(s, W, a) /\ CallOK(s, W, a) /\ EndOK(s, a)
  BY DEF Sound
<1>2. /\ t.txn_state = s.txn_state /\ t.idemp_state = s.idemp_state /\ t.fatal = s.fatal
      /\ t.txn_err = s.txn_err /\ t.bump = s.bump /\ t.req_cnt = s.req_cnt
      /\ t.may_enq = s.may_enq /\ t.dr_fails = s.dr_fails /\ t.pending = s.pending
      /\ t.waitresp = s.waitresp /\ t.rktps = s.rktps /\ t.api = s.api /\ t.offc = s.offc
      /\ t.queued = s.queued /\ t.flight = s.flight /\ t.txn = s.txn /\ t.produced = s.produced
      /\ t.asserts = s.asserts /\ t.timedout = s.timedout /\ DOMAIN t = Fields /\ t.timers \subseteq Timers
  BY DEF Same, Fields, Misc
<1>3. /\ b \in Apps /\ b.at = "wait" /\ b.api = a.api /\ b.stage = a.stage /\ InCall(b) /\ InCall(a) /\ PhaseOf(b) = PhaseOf(a)
  BY <1>1 DEF Apps, InCall, PhaseOf
<1>4. PhaseOf(a) \in OpNames /\ (a.api = "init" /\ a.stage = 2 => PhaseOf(a) = "init_ack")
  BY <1>1, <1>3, PhaseIs
<1>5. t.ops \in Seq(OpNames) /\ t.ops # <<>>
  BY <1>1, <1>4, AppendProperties DEF ClientOK
<1>6. s.ops = <<>> => t.ops = <<PhaseOf(a)>>
  OBVIOUS
<1>7. s.ops = <<"init">> /\ a.api = "init" /\ a.stage = 2 => t.ops = <<"init", "init_ack">>
  BY <1>4, AppendOne
<1>8. ClientOK(t)
  BY <1>1, <1>2, <1>3, <1>4, <1>5, <1>6, <1>7 DEF ClientOK
<1>9. t.asserts
  BY <1>1, <1>2
<1>10. b \in Apps
  BY <1>1, <1>2, <1>3, <1>4, <1>5, <1>6, <1>7 DEF Apps
<1>11. AppOK(b)
  BY <1>1, <1>2, <1>3, <1>4, <1>5, <1>6, <1>7 DEF AppOK, InCall, Apps
<1>12. StatesOK(t)
  BY <1>1, <1>2 DEF StatesOK
<1>13. QueueOK(t, b)
  BY <1>1, <1>2, <1>3, <1>4, <1>5, <1>6, <1>7 DEF QueueOK, Reacquiring, Apps, Acquiring,
  Aborting
<1>14. WireOK(t, W)
  BY <1>1, <1>2 DEF WireOK, Reacquiring, Allowed
<1>15. ListsOK(t, W)
  BY <1>1, <1>2 DEF ListsOK
<1>16. CountOK(t, W, k)
  BY <1>1, <1>2 DEF CountOK
<1>17. SlotOK(t, b)
  BY <1>1, <1>2, <1>3, <1>4, <1>5, <1>6, <1>7 DEF SlotOK, InCall, ApiOK, ClientOK, Apps
<1>18. ~t.fatal => OpsOK(t, W, b)
  BY <1>1, <1>2, <1>3, <1>4, <1>5, <1>6, <1>7 DEF OpsOK, Pending, InitOps, Reacquiring, At,
  Acquiring, Aborting, Has, InCall
<1>19. ~t.fatal => CallOK(t, W, b)
  BY <1>1, <1>2, <1>3, <1>4, <1>5, <1>6, <1>7 DEF CallOK, Reacquiring, At, Acquiring, Aborting,
  Has, Apps
<1>20. ~t.fatal => EndOK(t, b)
  BY <1>1, <1>2, <1>3, <1>4, <1>5, <1>6, <1>7 DEF EndOK, At
<1>21. LogOK(t, k)
  BY <1>1, <1>2 DEF LogOK
<1>22. RepliesOK(t, W, k)
  BY <1>1, <1>2 DEF RepliesOK
<1>23. PartsOK(t, W, b, k)
  BY <1>1, <1>2, <1>3, <1>4, <1>5, <1>6, <1>7 DEF PartsOK, Gathering, Sending
<1>24. OutcomeOK(t, W, b, k)
  BY <1>1, <1>2, <1>3, <1>4, <1>5, <1>6, <1>7 DEF OutcomeOK, Of, Has, Sending
<1>25. ToldOK(t, b, k, d)
  BY <1>1, <1>2, <1>3, <1>4, <1>5, <1>6, <1>7 DEF ToldOK, Of, Apps
<1>26. NoBump => AbortOK(t, W, b, k, d)
  BY <1>1, <1>2, <1>3, <1>4, <1>5, <1>6, <1>7, <1>10 DEF AbortOK, CommitLost, Of, Reacquiring, Acquiring, Aborting
<1>27. SettledOK(t, W, b, d)
  BY <1>1, <1>2, <1>3, <1>4, <1>5, <1>6, <1>7, <1>10 DEF SettledOK,
  Returns, Spent, Has
<1> QED
  BY <1>27, <1>26, <1>1, <1>2, <1>8, <1>9, <1>10, <1>11, <1>12, <1>13, <1>14, <1>15, <1>16, <1>17, <1>18,
  <1>19, <1>20, <1>21, <1>22, <1>23, <1>24, <1>25, <1>3, <1>4, <1>5, <1>6, <1>7 DEF Sound

LEMMA FlushedSound ==
  ASSUME NEW s, NEW W, NEW a, NEW k, NEW d, Sound(s, W, a, k, d), NEW t,
         Same(s, t, {}),
         a.at = "flush", s.queued \cup s.flight = {},
         NEW b, b = PhaseDone(a, "none")
  PROVE  Sound(t, W, b, k, d)
<1>1. /\ ClientOK(s) /\ s.asserts /\ a \in Apps /\ k \in Coords /\ d \in Tolds /\ AppOK(a)
      /\ StatesOK(s) /\ QueueOK(s, a) /\ WireOK(s, W) /\ ListsOK(s, W) /\ CountOK(s, W, k)
      /\ SlotOK(s, a) /\ LogOK(s, k) /\ RepliesOK(s, W, k) /\ PartsOK(s, W, a, k)
      /\ OutcomeOK(s, W, a, k) /\ ToldOK(s, a, k, d)
      /\ SettledOK(s, W, a, d)
      /\ (NoBump => AbortOK(s, W, a, k, d))
      /\ ~s.fatal => OpsOK(s, W, a) /\ CallOK(s, W, a) /\ EndOK(s, a)
  BY DEF Sound
<1>2. /\ t.txn_state = s.txn_state /\ t.idemp_state = s.idemp_state /\ t.fatal = s.fatal
      /\ t.txn_err = s.txn_err /\ t.bump = s.bump /\ t.req_cnt = s.req_cnt
      /\ t.may_enq = s.may_enq /\ t.dr_fails = s.dr_fails /\ t.pending = s.pending
      /\ t.waitresp = s.waitresp /\ t.rktps = s.rktps /\ t.api = s.api /\ t.ops = s.ops
      /\ t.offc = s.offc /\ t.queued = s.queued /\ t.flight = s.flight /\ t.txn = s.txn
      /\ t.produced = s.produced /\ t.asserts = s.asserts /\ t.timedout = s.timedout /\ DOMAIN t = Fields
      /\ t.timers \subseteq Timers
  BY DEF Same, Fields, Misc
<1>3. /\ "none" \in Errors /\ a.api \in {"commit", "abort"} /\ a.stage = 2 /\ InCall(a) /\ Stages(a.api) = 4
  BY <1>1 DEF Errors, AppOK, InCall, Stages
<1>4. /\ b \in Apps /\ b.at = "enter" /\ b.api = a.api /\ b.stage = 3 /\ InCall(b) /\ InCall(a) /\ AppOK(b)
      /\ a.api \in {"commit", "abort"} /\ a.stage = 2
  BY <1>1, <1>3, PhaseDoneIs
<1>5. ClientOK(t)
  BY <1>1, <1>2, <1>3, <1>4 DEF ClientOK
<1>6. t.asserts
  BY <1>1, <1>2
<1>7. b \in Apps
  BY <1>1, <1>2, <1>3, <1>4 DEF Apps
<1>8. AppOK(b)
  BY <1>1, <1>2, <1>3, <1>4 DEF AppOK, InCall, Apps
<1>9. StatesOK(t)
  BY <1>1, <1>2 DEF StatesOK
<1>10. QueueOK(t, b)
  BY <1>1, <1>2, <1>3, <1>4 DEF QueueOK, Reacquiring, Apps, Acquiring, Aborting
<1>11. WireOK(t, W)
  BY <1>1, <1>2 DEF WireOK, Reacquiring, Allowed
<1>12. ListsOK(t, W)
  BY <1>1, <1>2 DEF ListsOK
<1>13. CountOK(t, W, k)
  BY <1>1, <1>2 DEF CountOK
<1>14. SlotOK(t, b)
  BY <1>1, <1>2, <1>3, <1>4 DEF SlotOK, InCall, ApiOK, ClientOK, Apps
<1>15. ~t.fatal => OpsOK(t, W, b)
  BY <1>1, <1>2, <1>3, <1>4 DEF OpsOK, Pending, InitOps, Reacquiring, At, Acquiring, Aborting,
  Has, InCall
<1>16. ~t.fatal => CallOK(t, W, b)
  BY <1>1, <1>2, <1>3, <1>4 DEF CallOK, Reacquiring, At, Acquiring, Aborting, Has, Apps,
  SlotOK, InCall
<1>17. ~t.fatal => EndOK(t, b)
  BY <1>1, <1>2, <1>3, <1>4 DEF EndOK, At
<1>18. LogOK(t, k)
  BY <1>1, <1>2 DEF LogOK
<1>19. RepliesOK(t, W, k)
  BY <1>1, <1>2 DEF RepliesOK
<1>20. PartsOK(t, W, b, k)
  BY <1>1, <1>2, <1>3, <1>4 DEF PartsOK, Gathering, Sending
<1>21. OutcomeOK(t, W, b, k)
  BY <1>1, <1>2, <1>3, <1>4 DEF OutcomeOK, Of, Has, Sending
<1>22. ToldOK(t, b, k, d)
  BY <1>1, <1>2, <1>3, <1>4 DEF ToldOK, Of, Apps
<1>23. NoBump => AbortOK(t, W, b, k, d)
  BY <1>1, <1>2, <1>3, <1>4, <1>7 DEF AbortOK, CommitLost, Of, Reacquiring, Acquiring, Aborting
<1>24. SettledOK(t, W, b, d)
  BY <1>1, <1>2, <1>3, <1>4, <1>7 DEF SettledOK,
  Returns, Spent, Has
<1> QED
  BY <1>24, <1>23, <1>1, <1>2, <1>5, <1>6, <1>7, <1>8, <1>9, <1>10, <1>11, <1>12, <1>13, <1>14, <1>15, <1>16,
  <1>17, <1>18, <1>19, <1>20, <1>21, <1>22, <1>3, <1>4 DEF Sound

LEMMA TimedOutSound ==
  ASSUME NEW s, NEW W, NEW a, NEW k, NEW d, Sound(s, W, a, k, d), NEW t,
         Same(s, t, {}),
         a.at \in {"wait", "flush"},
         a.at = "wait" => ~s.api.has_result /\ s.ops = <<>>,
         a.stage \in 1 .. 2, a.api \in {"init", "commit", "abort"},
         a.api = "init" => a.stage = 1,
         NEW b, b = PhaseDone(a, "retriable")
  PROVE  Sound(t, W, b, k, d)
<1>1. /\ ClientOK(s) /\ s.asserts /\ a \in Apps /\ k \in Coords /\ d \in Tolds /\ AppOK(a)
      /\ StatesOK(s) /\ QueueOK(s, a) /\ WireOK(s, W) /\ ListsOK(s, W) /\ CountOK(s, W, k)
      /\ SlotOK(s, a) /\ LogOK(s, k) /\ RepliesOK(s, W, k) /\ PartsOK(s, W, a, k)
      /\ OutcomeOK(s, W, a, k) /\ ToldOK(s, a, k, d)
      /\ SettledOK(s, W, a, d)
      /\ (NoBump => AbortOK(s, W, a, k, d))
      /\ ~s.fatal => OpsOK(s, W, a) /\ CallOK(s, W, a) /\ EndOK(s, a)
  BY DEF Sound
<1>2. /\ t.txn_state = s.txn_state /\ t.idemp_state = s.idemp_state /\ t.fatal = s.fatal
      /\ t.txn_err = s.txn_err /\ t.bump = s.bump /\ t.req_cnt = s.req_cnt
      /\ t.may_enq = s.may_enq /\ t.dr_fails = s.dr_fails /\ t.pending = s.pending
      /\ t.waitresp = s.waitresp /\ t.rktps = s.rktps /\ t.api = s.api /\ t.ops = s.ops
      /\ t.offc = s.offc /\ t.queued = s.queued /\ t.flight = s.flight /\ t.txn = s.txn
      /\ t.produced = s.produced /\ t.asserts = s.asserts /\ t.timedout = s.timedout /\ DOMAIN t = Fields
      /\ t.timers \subseteq Timers
  BY DEF Same, Fields, Misc
<1>3. "retriable" \in Errors /\ InCall(a) /\ "retriable" # "none"
  BY <1>1 DEF Errors, InCall
<1>4. /\ b \in Apps /\ b.at = "return" /\ b.api = a.api /\ b.stage = a.stage /\ InCall(b) /\ InCall(a) /\ AppOK(b)
      /\ b.error = "retriable" /\ a.stage \in 1 .. 4
  BY <1>1, <1>3, PhaseDoneIs
<1>5. ClientOK(t)
  BY <1>1, <1>2, <1>3, <1>4 DEF ClientOK
<1>6. t.asserts
  BY <1>1, <1>2
<1>7. b \in Apps
  BY <1>1, <1>2, <1>3, <1>4 DEF Apps
<1>8. AppOK(b)
  BY <1>1, <1>2, <1>3, <1>4 DEF AppOK, InCall, Apps
<1>9. StatesOK(t)
  BY <1>1, <1>2 DEF StatesOK
<1>10. QueueOK(t, b)
  BY <1>1, <1>2, <1>3, <1>4 DEF QueueOK, Reacquiring, Apps, Acquiring, Aborting
<1>11. WireOK(t, W)
  BY <1>1, <1>2 DEF WireOK, Reacquiring, Allowed
<1>12. ListsOK(t, W)
  BY <1>1, <1>2 DEF ListsOK
<1>13. CountOK(t, W, k)
  BY <1>1, <1>2 DEF CountOK
<1>14. SlotOK(t, b)
  BY <1>1, <1>2, <1>3, <1>4 DEF SlotOK, InCall, ApiOK, ClientOK, Apps
<1>15. ~t.fatal => OpsOK(t, W, b)
  BY <1>1, <1>2, <1>3, <1>4 DEF OpsOK, Pending, InitOps, Reacquiring, At, Acquiring, Aborting,
  Has, InCall
<1>16. ~t.fatal => CallOK(t, W, b)
  BY <1>1, <1>2, <1>3, <1>4 DEF CallOK, Reacquiring, At, Acquiring, Aborting, Has, Apps,
  SlotOK, InCall
<1>17. ~t.fatal => EndOK(t, b)
  BY <1>1, <1>2, <1>3, <1>4 DEF EndOK, At
<1>18. LogOK(t, k)
  BY <1>1, <1>2 DEF LogOK
<1>19. RepliesOK(t, W, k)
  BY <1>1, <1>2 DEF RepliesOK
<1>20. PartsOK(t, W, b, k)
  BY <1>1, <1>2, <1>3, <1>4 DEF PartsOK, Gathering, Sending
<1>21. OutcomeOK(t, W, b, k)
  BY <1>1, <1>2, <1>3, <1>4 DEF OutcomeOK, Of, Has, Sending
<1>22. ToldOK(t, b, k, d)
  BY <1>1, <1>2, <1>3, <1>4 DEF ToldOK, Of, Apps
<1>23. NoBump => AbortOK(t, W, b, k, d)
  BY <1>1, <1>2, <1>3, <1>4, <1>7 DEF AbortOK, CommitLost, Of, Reacquiring, Acquiring, Aborting
<1>24. SettledOK(t, W, b, d)
  BY <1>1, <1>2, <1>3, <1>4, <1>7 DEF SettledOK,
  Returns, Spent, Has
<1> QED
  BY <1>24, <1>23, <1>1, <1>2, <1>5, <1>6, <1>7, <1>8, <1>9, <1>10, <1>11, <1>12, <1>13, <1>14, <1>15, <1>16,
  <1>17, <1>18, <1>19, <1>20, <1>21, <1>22, <1>3, <1>4 DEF Sound

LEMMA ProduceCheckSound ==
  ASSUME NEW s, NEW W, NEW a, NEW k, NEW d, Sound(s, W, a, k, d), NEW t,
         Same(s, t, {}),
         a.at = "idle", ~s.fatal, s.may_enq, NEW p \in Partitions,
         NEW b, b = [a EXCEPT !.at = "produce", !.arg = p]
  PROVE  Sound(t, W, b, k, d)
<1>1. /\ ClientOK(s) /\ s.asserts /\ a \in Apps /\ k \in Coords /\ d \in Tolds /\ AppOK(a)
      /\ StatesOK(s) /\ QueueOK(s, a) /\ WireOK(s, W) /\ ListsOK(s, W) /\ CountOK(s, W, k)
      /\ SlotOK(s, a) /\ LogOK(s, k) /\ RepliesOK(s, W, k) /\ PartsOK(s, W, a, k)
      /\ OutcomeOK(s, W, a, k) /\ ToldOK(s, a, k, d)
      /\ SettledOK(s, W, a, d)
      /\ (NoBump => AbortOK(s, W, a, k, d))
      /\ ~s.fatal => OpsOK(s, W, a) /\ CallOK(s, W, a) /\ EndOK(s, a)
  BY DEF Sound
<1>2. /\ t.txn_state = s.txn_state /\ t.idemp_state = s.idemp_state /\ t.fatal = s.fatal
      /\ t.txn_err = s.txn_err /\ t.bump = s.bump /\ t.req_cnt = s.req_cnt
      /\ t.may_enq = s.may_enq /\ t.dr_fails = s.dr_fails /\ t.pending = s.pending
      /\ t.waitresp = s.waitresp /\ t.rktps = s.rktps /\ t.api = s.api /\ t.ops = s.ops
      /\ t.offc = s.offc /\ t.queued = s.queued /\ t.flight = s.flight /\ t.txn = s.txn
      /\ t.produced = s.produced /\ t.asserts = s.asserts /\ t.timedout = s.timedout /\ DOMAIN t = Fields
      /\ t.timers \subseteq Timers
  BY DEF Same, Fields, Misc
<1>3. /\ b \in Apps /\ b.at = "produce" /\ b.api = a.api /\ b.stage = a.stage /\ b.arg = p /\ ~InCall(b) /\ ~InCall(a)
  BY <1>1 DEF Apps, InCall
<1>4. s.txn_state = "IN_TRANSACTION" /\ s.txn > 0
  BY <1>1 DEF StatesOK, Outside
<1>5. ClientOK(t)
  BY <1>1, <1>2, <1>3, <1>4 DEF ClientOK
<1>6. t.asserts
  BY <1>1, <1>2
<1>7. b \in Apps
  BY <1>1, <1>2, <1>3, <1>4 DEF Apps
<1>8. AppOK(b)
  BY <1>1, <1>2, <1>3, <1>4 DEF AppOK, InCall, Apps
<1>9. StatesOK(t)
  BY <1>1, <1>2 DEF StatesOK
<1>10. QueueOK(t, b)
  BY <1>1, <1>2, <1>3, <1>4 DEF QueueOK, Reacquiring, Apps, Acquiring, Aborting
<1>11. WireOK(t, W)
  BY <1>1, <1>2 DEF WireOK, Reacquiring, Allowed
<1>12. ListsOK(t, W)
  BY <1>1, <1>2 DEF ListsOK
<1>13. CountOK(t, W, k)
  BY <1>1, <1>2 DEF CountOK
<1>14. SlotOK(t, b)
  BY <1>1, <1>2, <1>3, <1>4 DEF SlotOK, InCall, ApiOK, ClientOK, Apps
<1>15. ~t.fatal => OpsOK(t, W, b)
  BY <1>1, <1>2, <1>3, <1>4 DEF OpsOK, Pending, InitOps, Reacquiring, At, Acquiring, Aborting,
  Has, InCall
<1>16. ~t.fatal => CallOK(t, W, b)
  BY <1>1, <1>2, <1>3, <1>4 DEF CallOK, Reacquiring, At, Acquiring, Aborting, Has, Apps
<1>17. ~t.fatal => EndOK(t, b)
  BY <1>1, <1>2, <1>3, <1>4 DEF EndOK, At
<1>18. LogOK(t, k)
  BY <1>1, <1>2 DEF LogOK
<1>19. RepliesOK(t, W, k)
  BY <1>1, <1>2 DEF RepliesOK
<1>20. PartsOK(t, W, b, k)
  BY <1>1, <1>2, <1>3, <1>4 DEF PartsOK, Gathering, Sending
<1>21. OutcomeOK(t, W, b, k)
  BY <1>1, <1>2, <1>3, <1>4 DEF OutcomeOK, Of, Has, Sending
<1>22. ToldOK(t, b, k, d)
  BY <1>1, <1>2, <1>3, <1>4 DEF ToldOK, Of, Apps
<1>23. NoBump => AbortOK(t, W, b, k, d)
  BY <1>1, <1>2, <1>3, <1>4, <1>7 DEF AbortOK, CommitLost, Of, Reacquiring, Acquiring, Aborting
<1>24. SettledOK(t, W, b, d)
  BY <1>1, <1>2, <1>3, <1>4, <1>7 DEF SettledOK
<1> QED
  BY <1>24, <1>23, <1>1, <1>2, <1>5, <1>6, <1>7, <1>8, <1>9, <1>10, <1>11, <1>12, <1>13, <1>14, <1>15, <1>16,
  <1>17, <1>18, <1>19, <1>20, <1>21, <1>22, <1>3, <1>4 DEF Sound

LEMMA ReturnSound ==
  ASSUME NEW s, NEW W, NEW a, NEW k, NEW d, Sound(s, W, a, k, d), NEW t,
         Same(s, t, {"api"}),
         a.at = "return", NEW b, b = [a EXCEPT !.at = "idle", !.api = "none", !.stage = 0, !.error = "none"],
         t.api = IF Retains(PhaseOf(a) \in Resumable, a.error) THEN [s.api EXCEPT !.calling = FALSE]
                 ELSE [s.api EXCEPT !.calling = FALSE, !.name = "none", !.error = "none"],
         NEW e, e = IF a.error = "none" /\ a.api \in {"commit", "abort"} /\ s.txn > 0
                    THEN [d EXCEPT ![s.txn] = a.api] ELSE d
  PROVE  Sound(t, W, b, k, e)
<1>1. /\ ClientOK(s) /\ s.asserts /\ a \in Apps /\ k \in Coords /\ d \in Tolds /\ AppOK(a)
      /\ StatesOK(s) /\ QueueOK(s, a) /\ WireOK(s, W) /\ ListsOK(s, W) /\ CountOK(s, W, k)
      /\ SlotOK(s, a) /\ LogOK(s, k) /\ RepliesOK(s, W, k) /\ PartsOK(s, W, a, k)
      /\ OutcomeOK(s, W, a, k) /\ ToldOK(s, a, k, d)
      /\ SettledOK(s, W, a, d)
      /\ (NoBump => AbortOK(s, W, a, k, d))
      /\ ~s.fatal => OpsOK(s, W, a) /\ CallOK(s, W, a) /\ EndOK(s, a)
  BY DEF Sound
<1>2. /\ t.txn_state = s.txn_state /\ t.idemp_state = s.idemp_state /\ t.fatal = s.fatal
      /\ t.txn_err = s.txn_err /\ t.bump = s.bump /\ t.req_cnt = s.req_cnt
      /\ t.may_enq = s.may_enq /\ t.dr_fails = s.dr_fails /\ t.pending = s.pending
      /\ t.waitresp = s.waitresp /\ t.rktps = s.rktps /\ t.ops = s.ops /\ t.offc = s.offc
      /\ t.queued = s.queued /\ t.flight = s.flight /\ t.txn = s.txn /\ t.produced = s.produced
      /\ t.asserts = s.asserts /\ t.timedout = s.timedout /\ DOMAIN t = Fields /\ t.timers \subseteq Timers
  BY DEF Same, Fields, Misc
<1>3. b = [at |-> "idle", api |-> "none", stage |-> 0, error |-> "none", arg |-> a.arg]
  BY <1>1 DEF Apps
<1>4. /\ b \in Apps /\ b.at = "idle" /\ b.api = "none" /\ b.stage = 0 /\ b.error = "none"
      /\ InCall(a) /\ ~InCall(b)
  BY <1>1, <1>3 DEF Apps, InCall, Errors
<1>5. Retains(PhaseOf(a) \in Resumable, a.error) <=>
        /\ a.error \in {"none", "retriable"}
        /\ \/ a.api = "init" /\ a.stage = 1
           \/ a.api \in {"commit", "abort"} /\ a.stage \in {2, 3}
  BY <1>1, <1>4, PhaseIs DEF Retains, Resumable, AppOK
<1>6. /\ ApiOK(t.api) /\ ~t.api.calling /\ t.api.has_result = s.api.has_result
      /\ \/ /\ Retains(PhaseOf(a) \in Resumable, a.error)
            /\ t.api.name = s.api.name /\ t.api.error = s.api.error
         \/ /\ ~Retains(PhaseOf(a) \in Resumable, a.error)
            /\ t.api.name = "none" /\ t.api.error = "none"
  BY <1>1 DEF ClientOK, ApiOK, Errors
<1>7. ClientOK(t)
  BY <1>1, <1>2, <1>3, <1>4, <1>5, <1>6 DEF ClientOK
<1>8. t.asserts
  BY <1>1, <1>2
<1>9. b \in Apps
  BY <1>1, <1>2, <1>3, <1>4, <1>5, <1>6 DEF Apps
<1>10. e \in Tolds
  BY <1>1, <1>2, <1>3, <1>4, <1>5, <1>6 DEF Tolds, ClientOK, ToldOK
<1>11. AppOK(b)
  BY <1>1, <1>2, <1>3, <1>4, <1>5, <1>6 DEF AppOK, InCall, Apps
<1>12. StatesOK(t)
  BY <1>1, <1>2 DEF StatesOK
<1>13. QueueOK(t, b)
  BY <1>1, <1>2, <1>3, <1>4, <1>5, <1>6 DEF QueueOK, Reacquiring, Apps, Acquiring, Aborting
<1>14. WireOK(t, W)
  BY <1>1, <1>2 DEF WireOK, Reacquiring, Allowed
<1>15. ListsOK(t, W)
  BY <1>1, <1>2 DEF ListsOK
<1>16. CountOK(t, W, k)
  BY <1>1, <1>2 DEF CountOK
<1>17. SlotOK(t, b)
  BY <1>1, <1>2, <1>3, <1>4, <1>5, <1>6 DEF SlotOK, InCall, ApiOK, ClientOK, Apps, AppOK,
  Stages
<1>18. ~t.fatal => OpsOK(t, W, b)
  BY <1>1, <1>2, <1>3, <1>4, <1>5, <1>6 DEF OpsOK, Pending, InitOps, Reacquiring, At,
  Acquiring, Aborting, Has, InCall, SlotOK, CallOK
<1>19. ~t.fatal => CallOK(t, W, b)
  BY <1>1, <1>2, <1>3, <1>4, <1>5, <1>6 DEF CallOK, Reacquiring, At, Acquiring, Aborting, Has,
  Apps, SlotOK
<1>20. ~t.fatal => EndOK(t, b)
  BY <1>1, <1>2, <1>3, <1>4, <1>5, <1>6 DEF EndOK, At
<1>21. LogOK(t, k)
  BY <1>1, <1>2 DEF LogOK
<1>22. RepliesOK(t, W, k)
  BY <1>1, <1>2 DEF RepliesOK
<1>23. PartsOK(t, W, b, k)
  BY <1>1, <1>2, <1>3, <1>4, <1>5, <1>6 DEF PartsOK, Gathering, Sending
<1>24. OutcomeOK(t, W, b, k)
  BY <1>1, <1>2, <1>3, <1>4, <1>5, <1>6 DEF OutcomeOK, Of, Has, Sending
<1>25. ToldOK(t, b, k, e)
  <2>1. CASE ~(a.error = "none" /\ a.api \in {"commit", "abort"} /\ s.txn > 0)
    BY <2>1, <1>1, <1>2, <1>4 DEF ToldOK
  <2>2. CASE a.error = "none" /\ a.api \in {"commit", "abort"} /\ s.txn > 0
    <3>1. s.txn_state \in {"READY", "FATAL_ERROR"} /\ s.txn \in 1 .. MaxTxns /\ a.stage = 4
          /\ (a.api = "commit" => Of(s.txn, s.produced) \subseteq k.committed)
      BY <2>2, <1>1 DEF ToldOK, ClientOK
    <3>2. \A u \in 1 .. MaxTxns : e[u] = IF u = s.txn THEN a.api ELSE d[u]
      BY <2>2, <3>1, <1>1 DEF Tolds
    <3> QED
      BY <2>2, <3>1, <3>2, <1>1, <1>2, <1>4 DEF ToldOK
  <2> QED
    BY <2>1, <2>2
<1>26. NoBump => AbortOK(t, W, b, k, e)
  <2>1. \A u \in 1 .. MaxTxns : e[u] = "abort" => d[u] = "abort" \/ (u = s.txn /\ a.error = "none" /\ a.api = "abort")
    BY <1>1 DEF Tolds
  <2>2. a.error = "none" /\ a.api = "abort" => a.stage = 4 /\ s.txn_state \in {"READY", "FATAL_ERROR"}
    BY <1>1 DEF ToldOK
  <2> QED
    BY <2>1, <2>2, <1>1, <1>2, <1>4 DEF AbortOK, CommitLost, Reacquiring
<1>27. SettledOK(t, W, b, e)
  <2>1. \A u \in 1 .. MaxTxns : e[u] # "none" => d[u] # "none" \/ (u = s.txn /\ a.error = "none" /\ a.api \in {"commit", "abort"})
    BY <1>1 DEF Tolds
  <2>2. a.error = "none" /\ a.api \in {"commit", "abort"} => a.stage = 4
    BY <1>1 DEF ToldOK
  <2> QED
    BY <2>1, <2>2, <1>1, <1>2, <1>4 DEF SettledOK,
  Returns, Spent, Has
<1> QED
  BY <1>27, <1>26, <1>1, <1>2, <1>7, <1>8, <1>9, <1>10, <1>11, <1>12, <1>13, <1>14, <1>15, <1>16, <1>17,
  <1>18, <1>19, <1>20, <1>21, <1>22, <1>23, <1>24, <1>25, <1>3, <1>4, <1>5, <1>6 DEF Sound

LEMMA EnqueueSound ==
  ASSUME NEW s, NEW W, NEW a, NEW k, NEW d, Sound(s, W, a, k, d), NEW t,
         Same(s, t, {"queued", "produced", "pending"}),
         a.at = "produce", NEW p, p = a.arg, NEW b, b = [a EXCEPT !.at = "idle", !.arg = "none"],
         t.queued = s.queued \cup {<<s.txn, p>>}, t.produced = s.produced \cup {<<s.txn, p>>},
         t.pending = IF p \in s.pending \cup s.waitresp \cup s.rktps THEN s.pending
                     ELSE s.pending \cup {p}
  PROVE  Sound(t, W, b, k, d)
<1>1. /\ ClientOK(s) /\ s.asserts /\ a \in Apps /\ k \in Coords /\ d \in Tolds /\ AppOK(a)
      /\ StatesOK(s) /\ QueueOK(s, a) /\ WireOK(s, W) /\ ListsOK(s, W) /\ CountOK(s, W, k)
      /\ SlotOK(s, a) /\ LogOK(s, k) /\ RepliesOK(s, W, k) /\ PartsOK(s, W, a, k)
      /\ OutcomeOK(s, W, a, k) /\ ToldOK(s, a, k, d)
      /\ SettledOK(s, W, a, d)
      /\ (NoBump => AbortOK(s, W, a, k, d))
      /\ ~s.fatal => OpsOK(s, W, a) /\ CallOK(s, W, a) /\ EndOK(s, a)
  BY DEF Sound
<1>2. /\ t.txn_state = s.txn_state /\ t.idemp_state = s.idemp_state /\ t.fatal = s.fatal
      /\ t.txn_err = s.txn_err /\ t.bump = s.bump /\ t.req_cnt = s.req_cnt
      /\ t.may_enq = s.may_enq /\ t.dr_fails = s.dr_fails /\ t.waitresp = s.waitresp
      /\ t.rktps = s.rktps /\ t.api = s.api /\ t.ops = s.ops /\ t.offc = s.offc
      /\ t.flight = s.flight /\ t.txn = s.txn /\ t.asserts = s.asserts /\ t.timedout = s.timedout /\ DOMAIN t = Fields
      /\ t.timers \subseteq Timers
  BY DEF Same, Fields, Misc
<1>3. /\ b \in Apps /\ b.at = "idle" /\ b.api = a.api /\ b.stage = a.stage /\ b.api = "none" /\ b.stage = 0
      /\ ~InCall(a) /\ ~InCall(b) /\ p \in Partitions
  BY <1>1 DEF Apps, AppOK, InCall
<1>4. s.txn > 0 /\ s.txn \in 1 .. MaxTxns /\ s.txn_state \in {"IN_TRANSACTION", "ABORTABLE_ERROR", "FATAL_ERROR"}
  BY <1>1 DEF QueueOK, ClientOK
<1>5. /\ <<s.txn, p>> \in Messages /\ <<s.txn, p>>[1] = s.txn /\ <<s.txn, p>>[2] = p
  BY <1>4, <1>3 DEF Messages
<1>6. ClientOK(t)
  BY <1>1, <1>2, <1>3, <1>4, <1>5 DEF ClientOK
<1>7. t.asserts
  BY <1>1, <1>2
<1>8. b \in Apps
  BY <1>1, <1>2, <1>3, <1>4, <1>5 DEF Apps
<1>9. AppOK(b)
  BY <1>1, <1>2, <1>3, <1>4, <1>5 DEF AppOK, InCall, Apps
<1>10. StatesOK(t)
  BY <1>1, <1>2 DEF StatesOK
<1>11. QueueOK(t, b)
  BY <1>1, <1>2, <1>3, <1>4, <1>5 DEF QueueOK, Reacquiring, Apps, Acquiring, Aborting, StatesOK
<1>12. WireOK(t, W)
  BY <1>1, <1>2 DEF WireOK, Reacquiring, Allowed
<1>13. ListsOK(t, W)
  BY <1>1, <1>2, <1>3, <1>4, <1>5 DEF ListsOK, Has, Outside, Sending
<1>14. CountOK(t, W, k)
  BY <1>1, <1>2 DEF CountOK
<1>15. SlotOK(t, b)
  BY <1>1, <1>2, <1>3, <1>4, <1>5 DEF SlotOK, InCall, ApiOK, ClientOK, Apps
<1>16. ~t.fatal => OpsOK(t, W, b)
  BY <1>1, <1>2, <1>3, <1>4, <1>5 DEF OpsOK, Pending, InitOps, Reacquiring, At, Acquiring,
  Aborting, Has, InCall
<1>17. ~t.fatal => CallOK(t, W, b)
  BY <1>1, <1>2, <1>3, <1>4, <1>5 DEF CallOK, Reacquiring, At, Acquiring, Aborting, Has, Apps
<1>18. ~t.fatal => EndOK(t, b)
  BY <1>1, <1>2, <1>3, <1>4, <1>5 DEF EndOK, At
<1>19. LogOK(t, k)
  BY <1>1, <1>2, <1>3, <1>4, <1>5 DEF LogOK, Outside, ClientOK
<1>20. RepliesOK(t, W, k)
  <2>1. s.txn_state # "FATAL_ERROR" => \A r \in W : r.kind # "end_commit"
    BY <1>1, <1>4 DEF WireOK, Only, Allowed, Reacquiring, Aborting
  <2>2. s.txn_state = "FATAL_ERROR" => \A r \in W : r.kind # "end_commit"
    BY <1>1 DEF PartsOK, StatesOK, Last
  <2> QED
    BY <2>1, <2>2, <1>1, <1>2 DEF RepliesOK
<1>21. PartsOK(t, W, b, k)
  BY <1>1, <1>2, <1>3, <1>4, <1>5 DEF PartsOK, Gathering, Sending, StatesOK, Has,
  Last
<1>22. OutcomeOK(t, W, b, k)
  BY <1>1, <1>2, <1>3, <1>4, <1>5 DEF OutcomeOK, Of, Has, Sending, ClientOK
<1>23. ToldOK(t, b, k, d)
  BY <1>1, <1>2, <1>3, <1>4, <1>5 DEF ToldOK, Of, Apps, SettledOK, StatesOK
<1>24. NoBump => AbortOK(t, W, b, k, d)
  <2>1. ~CommitLost(s, k)
    BY <1>1 DEF OutcomeOK, CommitLost
  <2> QED
    BY <2>1, <1>1, <1>2, <1>3 DEF AbortOK, CommitLost
<1>25. SettledOK(t, W, b, d)
  BY <1>1, <1>2, <1>3, <1>4, <1>5, <1>8 DEF SettledOK,
  Returns, Spent, Has
<1> QED
  BY <1>25, <1>24, <1>1, <1>2, <1>6, <1>7, <1>8, <1>9, <1>10, <1>11, <1>12, <1>13, <1>14, <1>15, <1>16,
  <1>17, <1>18, <1>19, <1>20, <1>21, <1>22, <1>23, <1>3, <1>4, <1>5 DEF Sound

LEMMA SendSound ==
  ASSUME NEW s, NEW W, NEW a, NEW k, NEW d, Sound(s, W, a, k, d), NEW t,
         Same(s, t, {"queued", "flight"}),
         ~s.fatal, NEW m \in s.queued, m[2] \in s.rktps,
         t.queued = s.queued \ {m}, t.flight = s.flight \cup {m}
  PROVE  Sound(t, W, a, k, d)
<1>1. /\ ClientOK(s) /\ s.asserts /\ a \in Apps /\ k \in Coords /\ d \in Tolds /\ AppOK(a)
      /\ StatesOK(s) /\ QueueOK(s, a) /\ WireOK(s, W) /\ ListsOK(s, W) /\ CountOK(s, W, k)
      /\ SlotOK(s, a) /\ LogOK(s, k) /\ RepliesOK(s, W, k) /\ PartsOK(s, W, a, k)
      /\ OutcomeOK(s, W, a, k) /\ ToldOK(s, a, k, d)
      /\ SettledOK(s, W, a, d)
      /\ (NoBump => AbortOK(s, W, a, k, d))
      /\ ~s.fatal => OpsOK(s, W, a) /\ CallOK(s, W, a) /\ EndOK(s, a)
  BY DEF Sound
<1>2. /\ t.txn_state = s.txn_state /\ t.idemp_state = s.idemp_state /\ t.fatal = s.fatal
      /\ t.txn_err = s.txn_err /\ t.bump = s.bump /\ t.req_cnt = s.req_cnt
      /\ t.may_enq = s.may_enq /\ t.dr_fails = s.dr_fails /\ t.pending = s.pending
      /\ t.waitresp = s.waitresp /\ t.rktps = s.rktps /\ t.api = s.api /\ t.ops = s.ops
      /\ t.offc = s.offc /\ t.txn = s.txn /\ t.produced = s.produced /\ t.asserts = s.asserts
      /\ t.timedout = s.timedout /\ DOMAIN t = Fields /\ t.timers \subseteq Timers
  BY DEF Same, Fields, Misc
<1>3. m \in Messages /\ m = <<m[1], m[2]>> /\ m[1] = s.txn /\ m[2] \in Partitions
      /\ s.txn_state \in {"IN_TRANSACTION", "BEGIN_COMMIT", "ABORTABLE_ERROR", "BEGIN_ABORT"}
      /\ ~Reacquiring(s) /\ t.queued \subseteq s.queued
  BY <1>1 DEF QueueOK, ClientOK, Messages
<1>4. ClientOK(t)
  BY <1>1, <1>2, <1>3 DEF ClientOK
<1>5. t.asserts
  BY <1>1, <1>2
<1>6. StatesOK(t)
  BY <1>1, <1>2 DEF StatesOK
<1>7. QueueOK(t, a)
  BY <1>1, <1>2, <1>3 DEF QueueOK, Reacquiring, Apps, Acquiring, Aborting
<1>8. WireOK(t, W)
  BY <1>1, <1>2 DEF WireOK, Reacquiring, Allowed
<1>9. ListsOK(t, W)
  <2>1. \A p \in s.pending \cup s.waitresp : <<s.txn, p>> # m
    BY <1>1, <1>3 DEF ListsOK
  <2> QED
    BY <2>1, <1>1, <1>2 DEF ListsOK, Sending, Outside, Has
<1>10. CountOK(t, W, k)
  BY <1>1, <1>2 DEF CountOK
<1>11. SlotOK(t, a)
  BY <1>1, <1>2 DEF SlotOK
<1>12. ~t.fatal => OpsOK(t, W, a)
  BY <1>1, <1>2 DEF OpsOK, Reacquiring, Pending, InitOps
<1>13. ~t.fatal => CallOK(t, W, a)
  BY <1>1, <1>2 DEF CallOK, Reacquiring
<1>14. ~t.fatal => EndOK(t, a)
  BY <1>1, <1>2 DEF EndOK
<1>15. LogOK(t, k)
  BY <1>1, <1>2, <1>3 DEF LogOK, Outside
<1>16. RepliesOK(t, W, k)
  BY <1>1, <1>2 DEF RepliesOK
<1>17. PartsOK(t, W, a, k)
  BY <1>1, <1>2, <1>3 DEF PartsOK, Gathering, Sending
<1>18. OutcomeOK(t, W, a, k)
  BY <1>1, <1>2, <1>3 DEF OutcomeOK, Of, Has, Sending
<1>19. ToldOK(t, a, k, d)
  BY <1>1, <1>2 DEF ToldOK
<1>20. NoBump => AbortOK(t, W, a, k, d)
  BY <1>1, <1>2, <1>3 DEF AbortOK, CommitLost, Of, Reacquiring, Acquiring, Aborting
<1>21. SettledOK(t, W, a, d)
  BY <1>1, <1>2, <1>3 DEF SettledOK
<1> QED
  BY <1>21, <1>20, <1>1, <1>2, <1>4, <1>5, <1>6, <1>7, <1>8, <1>9, <1>10, <1>11, <1>12, <1>13, <1>14, <1>15,
  <1>16, <1>17, <1>18, <1>19, <1>3 DEF Sound

LEMMA DeliveredSound ==
  ASSUME NEW s, NEW W, NEW a, NEW k, NEW d, Sound(s, W, a, k, d), NEW t,
         Same(s, t, {"flight"}),
         NEW m \in s.flight, ~k.fenced,
         t.flight = s.flight \ {m},
         NEW l, l = [k EXCEPT !.written = @ \cup {m}]
  PROVE  Sound(t, W, a, l, d)
<1>1. /\ ClientOK(s) /\ s.asserts /\ a \in Apps /\ k \in Coords /\ d \in Tolds /\ AppOK(a)
      /\ StatesOK(s) /\ QueueOK(s, a) /\ WireOK(s, W) /\ ListsOK(s, W) /\ CountOK(s, W, k)
      /\ SlotOK(s, a) /\ LogOK(s, k) /\ RepliesOK(s, W, k) /\ PartsOK(s, W, a, k)
      /\ OutcomeOK(s, W, a, k) /\ ToldOK(s, a, k, d)
      /\ SettledOK(s, W, a, d)
      /\ (NoBump => AbortOK(s, W, a, k, d))
      /\ ~s.fatal => OpsOK(s, W, a) /\ CallOK(s, W, a) /\ EndOK(s, a)
  BY DEF Sound
<1>2. /\ t.txn_state = s.txn_state /\ t.idemp_state = s.idemp_state /\ t.fatal = s.fatal
      /\ t.txn_err = s.txn_err /\ t.bump = s.bump /\ t.req_cnt = s.req_cnt
      /\ t.may_enq = s.may_enq /\ t.dr_fails = s.dr_fails /\ t.pending = s.pending
      /\ t.waitresp = s.waitresp /\ t.rktps = s.rktps /\ t.api = s.api /\ t.ops = s.ops
      /\ t.offc = s.offc /\ t.queued = s.queued /\ t.txn = s.txn /\ t.produced = s.produced
      /\ t.asserts = s.asserts /\ t.timedout = s.timedout /\ DOMAIN t = Fields /\ t.timers \subseteq Timers
  BY DEF Same, Fields, Misc
<1>3. m \in Messages /\ m[1] = s.txn /\ m[2] \in Partitions /\ OFF \notin Partitions /\ m # <<s.txn, OFF>>
      /\ s.txn_state \in {"IN_TRANSACTION", "BEGIN_COMMIT", "ABORTABLE_ERROR", "BEGIN_ABORT", "FATAL_ERROR"}
      /\ ~Reacquiring(s) /\ t.flight \subseteq s.flight /\ m[2] \in k.parts
  BY <1>1, TxnPartitions DEF QueueOK, ClientOK, PartsOK, StatesOK, Reacquiring, Aborting
<1>4. /\ l \in Coords /\ l.written = k.written \cup {m} /\ l.parts = k.parts /\ l.open = k.open /\ l.last = k.last
      /\ l.fenced = k.fenced /\ l.committed = k.committed /\ l.aborted = k.aborted
  BY <1>1, <1>3 DEF Coords
<1>5. ClientOK(t)
  BY <1>1, <1>2, <1>3, <1>4 DEF ClientOK
<1>6. t.asserts
  BY <1>1, <1>2
<1>7. l \in Coords
  BY <1>1, <1>2, <1>3, <1>4 DEF Coords
<1>8. StatesOK(t)
  BY <1>1, <1>2 DEF StatesOK
<1>9. QueueOK(t, a)
  BY <1>1, <1>2, <1>3, <1>4 DEF QueueOK, Reacquiring, Apps, Acquiring, Aborting
<1>10. WireOK(t, W)
  BY <1>1, <1>2 DEF WireOK, Reacquiring, Allowed
<1>11. ListsOK(t, W)
  BY <1>1, <1>2 DEF ListsOK
<1>12. CountOK(t, W, l)
  BY <1>1, <1>2, <1>3, <1>4 DEF CountOK, One, Has
<1>13. SlotOK(t, a)
  BY <1>1, <1>2 DEF SlotOK
<1>14. ~t.fatal => OpsOK(t, W, a)
  BY <1>1, <1>2 DEF OpsOK, Reacquiring, Pending, InitOps
<1>15. ~t.fatal => CallOK(t, W, a)
  BY <1>1, <1>2 DEF CallOK, Reacquiring
<1>16. ~t.fatal => EndOK(t, a)
  BY <1>1, <1>2 DEF EndOK
<1>17. LogOK(t, l)
  BY <1>1, <1>2, <1>3, <1>4 DEF LogOK, Outside, ClientOK
<1>18. RepliesOK(t, W, l)
  BY <1>1, <1>2, <1>3, <1>4 DEF RepliesOK, Sending, Last, Of
<1>19. PartsOK(t, W, a, l)
  BY <1>1, <1>2, <1>3, <1>4 DEF PartsOK, Gathering, Sending
<1>20. OutcomeOK(t, W, a, l)
  BY <1>1, <1>2, <1>3, <1>4 DEF OutcomeOK, Of, Has, Sending
<1>21. ToldOK(t, a, l, d)
  BY <1>1, <1>2, <1>3, <1>4 DEF ToldOK, Of, Apps
<1>22. NoBump => AbortOK(t, W, a, l, d)
  BY <1>1, <1>2, <1>3, <1>4, <1>7 DEF AbortOK, CommitLost, Of, Reacquiring, Acquiring, Aborting
<1>23. SettledOK(t, W, a, d)
  BY <1>1, <1>2, <1>3, <1>4, <1>7 DEF SettledOK,
  Returns, Spent, Has
<1> QED
  BY <1>23, <1>22, <1>1, <1>2, <1>5, <1>6, <1>7, <1>8, <1>9, <1>10, <1>11, <1>12, <1>13, <1>14, <1>15, <1>16,
  <1>17, <1>18, <1>19, <1>20, <1>21, <1>3, <1>4 DEF Sound

\* Messages fail.
LEMMA FailSound ==
  ASSUME NEW s, NEW W, NEW a, NEW k, NEW d, Sound(s, W, a, k, d), NEW t,
         Same(s, t, {"queued", "flight", "dr_fails", "timedout"}),
         t.queued \subseteq s.queued, t.flight \subseteq s.flight, t.dr_fails \in BOOLEAN,
         s.dr_fails => t.dr_fails, t.timedout \subseteq Partitions,
         t.timedout \subseteq s.timedout \/ (t.dr_fails /\ s.queued # {}),
         t.queued # s.queued \/ t.flight # s.flight => t.dr_fails
  PROVE  Sound(t, W, a, k, d)
<1>1. /\ ClientOK(s) /\ s.asserts /\ a \in Apps /\ k \in Coords /\ d \in Tolds /\ AppOK(a)
      /\ StatesOK(s) /\ QueueOK(s, a) /\ WireOK(s, W) /\ ListsOK(s, W) /\ CountOK(s, W, k)
      /\ SlotOK(s, a) /\ LogOK(s, k) /\ RepliesOK(s, W, k) /\ PartsOK(s, W, a, k)
      /\ OutcomeOK(s, W, a, k) /\ ToldOK(s, a, k, d)
      /\ SettledOK(s, W, a, d)
      /\ (NoBump => AbortOK(s, W, a, k, d))
      /\ ~s.fatal => OpsOK(s, W, a) /\ CallOK(s, W, a) /\ EndOK(s, a)
  BY DEF Sound
<1>2. /\ t.txn_state = s.txn_state /\ t.idemp_state = s.idemp_state /\ t.fatal = s.fatal
      /\ t.txn_err = s.txn_err /\ t.bump = s.bump /\ t.req_cnt = s.req_cnt
      /\ t.may_enq = s.may_enq /\ t.pending = s.pending /\ t.waitresp = s.waitresp
      /\ t.rktps = s.rktps /\ t.api = s.api /\ t.ops = s.ops /\ t.offc = s.offc
      /\ t.txn = s.txn /\ t.produced = s.produced /\ t.asserts = s.asserts /\ DOMAIN t = Fields
      /\ t.timers \subseteq Timers
  BY DEF Same, Fields, Misc
<1>3. ClientOK(t)
  BY <1>1, <1>2 DEF ClientOK
<1>4. t.asserts
  BY <1>1, <1>2
<1>5. StatesOK(t)
  BY <1>1, <1>2 DEF StatesOK
<1>6. QueueOK(t, a)
  BY <1>1, <1>2 DEF QueueOK, Reacquiring, Apps, Acquiring, Aborting
<1>7. WireOK(t, W)
  BY <1>1, <1>2 DEF WireOK, Reacquiring, Allowed
<1>8. ListsOK(t, W)
  BY <1>1, <1>2 DEF ListsOK, Has, Outside, Sending
<1>9. CountOK(t, W, k)
  BY <1>1, <1>2 DEF CountOK
<1>10. SlotOK(t, a)
  BY <1>1, <1>2 DEF SlotOK
<1>11. ~t.fatal => OpsOK(t, W, a)
  BY <1>1, <1>2 DEF OpsOK, Reacquiring, Pending, InitOps
<1>12. ~t.fatal => CallOK(t, W, a)
  BY <1>1, <1>2 DEF CallOK, Reacquiring
<1>13. ~t.fatal => EndOK(t, a)
  BY <1>1, <1>2 DEF EndOK
<1>14. LogOK(t, k)
  BY <1>1, <1>2 DEF LogOK, Outside
<1>15. RepliesOK(t, W, k)
  BY <1>1, <1>2 DEF RepliesOK
<1>16. PartsOK(t, W, a, k)
  BY <1>1, <1>2 DEF PartsOK, Gathering, Sending
<1>17. OutcomeOK(t, W, a, k)
  BY <1>1, <1>2 DEF OutcomeOK, Of, Has, Sending
<1>18. ToldOK(t, a, k, d)
  BY <1>1, <1>2 DEF ToldOK
<1>19. NoBump => AbortOK(t, W, a, k, d)
  BY <1>1, <1>2 DEF AbortOK, CommitLost, Of, Reacquiring, Acquiring, Aborting
<1>20. SettledOK(t, W, a, d)
  BY <1>1, <1>2 DEF SettledOK,
  Returns, Spent, Has
<1> QED
  BY <1>20, <1>19, <1>1, <1>2, <1>3, <1>4, <1>5, <1>6, <1>7, <1>8, <1>9, <1>10, <1>11, <1>12, <1>13, <1>14,
  <1>15, <1>16, <1>17, <1>18 DEF Sound

LEMMA AbortableSound ==
  ASSUME NEW s, NEW W, NEW a, NEW k, NEW d, Sound(s, W, a, k, d), NEW t,
         Same(s, t, {"txn_state", "txn_err", "bump", "may_enq", "idemp_state"}),
         ~s.fatal, s.txn_state \in {"IN_TRANSACTION", "BEGIN_COMMIT", "ABORTABLE_ERROR", "BEGIN_ABORT", "ABORTING_TRANSACTION"},
         t.txn_err = TRUE, t.bump \in BOOLEAN, NoBump /\ CommitLost(s, k) => ~t.bump,
         t.may_enq \in BOOLEAN, s.txn_state = "IN_TRANSACTION" \/ ~s.may_enq => ~t.may_enq,
         t.txn_state = IF s.txn_state \in Sending THEN "ABORTABLE_ERROR" ELSE s.txn_state,
         s.idemp_state = "WAIT_TXN_ABORT" => t.bump,
         t.idemp_state = s.idemp_state \/ (t.idemp_state = "WAIT_TXN_ABORT" /\ t.bump /\ ~Reacquiring(s))
  PROVE  Sound(t, W, a, k, d)
<1>1. /\ ClientOK(s) /\ s.asserts /\ a \in Apps /\ k \in Coords /\ d \in Tolds /\ AppOK(a)
      /\ StatesOK(s) /\ QueueOK(s, a) /\ WireOK(s, W) /\ ListsOK(s, W) /\ CountOK(s, W, k)
      /\ SlotOK(s, a) /\ LogOK(s, k) /\ RepliesOK(s, W, k) /\ PartsOK(s, W, a, k)
      /\ OutcomeOK(s, W, a, k) /\ ToldOK(s, a, k, d)
      /\ SettledOK(s, W, a, d)
      /\ (NoBump => AbortOK(s, W, a, k, d))
      /\ ~s.fatal => OpsOK(s, W, a) /\ CallOK(s, W, a) /\ EndOK(s, a)
  BY DEF Sound
<1>2. /\ t.fatal = s.fatal /\ t.req_cnt = s.req_cnt /\ t.dr_fails = s.dr_fails
      /\ t.pending = s.pending /\ t.waitresp = s.waitresp /\ t.rktps = s.rktps /\ t.api = s.api
      /\ t.ops = s.ops /\ t.offc = s.offc /\ t.queued = s.queued /\ t.flight = s.flight
      /\ t.txn = s.txn /\ t.produced = s.produced /\ t.asserts = s.asserts /\ t.timedout = s.timedout /\ DOMAIN t = Fields
      /\ t.timers \subseteq Timers
  BY DEF Same, Fields, Misc
<1>3. t.txn_state \in {"ABORTABLE_ERROR", "BEGIN_ABORT", "ABORTING_TRANSACTION"}
      /\ (t.txn_state # s.txn_state => s.txn_state \in Sending /\ t.txn_state = "ABORTABLE_ERROR")
      /\ (Reacquiring(t) <=> Reacquiring(s)) /\ t.txn_state \in TxnStates /\ t.idemp_state \in IdempStates
  BY <1>1, <1>2 DEF Sending, Reacquiring, Acquiring, Aborting, TxnStates, IdempStates, ClientOK
<1>4. ClientOK(t)
  BY <1>1, <1>2, <1>3 DEF ClientOK
<1>5. t.asserts
  BY <1>1, <1>2
<1>6. StatesOK(t)
  BY <1>1, <1>2, <1>3 DEF StatesOK, Acquiring, Outside, Sending, Aborting
<1>7. QueueOK(t, a)
  BY <1>1, <1>2, <1>3 DEF QueueOK, Reacquiring, Apps, Acquiring, Aborting
<1>8. WireOK(t, W)
  <2>1. Only(W, Allowed(t))
    BY <1>1, <1>3 DEF WireOK, Only, Allowed, Sending, Aborting, Reacquiring
  <2> QED
    BY <1>1, <1>3, <2>1 DEF WireOK, Sending, Aborting
<1>9. ListsOK(t, W)
  BY <1>1, <1>2, <1>3 DEF ListsOK, Has, Outside, Sending
<1>10. CountOK(t, W, k)
  BY <1>1, <1>2, <1>3 DEF CountOK, One, Has
<1>11. SlotOK(t, a)
  BY <1>1, <1>2 DEF SlotOK
<1>12. ~t.fatal => OpsOK(t, W, a)
  BY <1>1, <1>2, <1>3 DEF OpsOK, Pending, InitOps, Sending, Aborting
<1>13. ~t.fatal => CallOK(t, W, a)
  BY <1>1, <1>2, <1>3 DEF CallOK, Reacquiring, At, Acquiring, Aborting, Has, Apps
<1>14. ~t.fatal => EndOK(t, a)
  BY <1>1, <1>2, <1>3 DEF EndOK, At
<1>15. LogOK(t, k)
  BY <1>1, <1>2, <1>3 DEF LogOK, Outside
<1>16. RepliesOK(t, W, k)
  BY <1>1, <1>2, <1>3 DEF RepliesOK, Sending, Last, Of
<1>17. PartsOK(t, W, a, k)
  BY <1>1, <1>2, <1>3 DEF PartsOK, Gathering, Sending
<1>18. OutcomeOK(t, W, a, k)
  BY <1>1, <1>2, <1>3 DEF OutcomeOK, Of, Has, Sending
<1>19. ToldOK(t, a, k, d)
  BY <1>1, <1>2, <1>3 DEF ToldOK, Of, Apps, StatesOK
<1>20. NoBump => AbortOK(t, W, a, k, d)
  <2>1. s.txn_state \in Sending => Of(s.txn, k.committed) = {}
    BY <1>1 DEF OutcomeOK
  <2> QED
    BY <2>1, <1>1, <1>2, <1>3 DEF AbortOK, CommitLost
<1>21. SettledOK(t, W, a, d)
  BY <1>1, <1>2, <1>3 DEF SettledOK
<1> QED
  BY <1>21, <1>20, <1>1, <1>2, <1>4, <1>5, <1>6, <1>7, <1>8, <1>9, <1>10, <1>11, <1>12, <1>13, <1>14, <1>15,
  <1>16, <1>17, <1>18, <1>19, <1>3 DEF Sound

LEMMA GoFatalSound ==
  ASSUME NEW s, NEW W, NEW a, NEW k, NEW d, Sound(s, W, a, k, d), NEW t,
         Same(s, t, {"txn_state", "idemp_state", "fatal", "txn_err", "bump", "may_enq", "req_cnt", "dr_fails", "pending", "waitresp", "api", "offc", "flight"}),
         NEW V, V \subseteq W,
         t.fatal = TRUE, t.txn_state = "FATAL_ERROR", t.txn_err \in BOOLEAN, t.bump \in BOOLEAN, t.dr_fails \in BOOLEAN,
         t.may_enq \in BOOLEAN, s.txn_state = "IN_TRANSACTION" \/ ~s.may_enq => ~t.may_enq,
         t.idemp_state \in IdempStates,
         t.pending \cup t.waitresp \subseteq s.pending \cup s.waitresp, t.pending \cap t.waitresp = {},
         t.offc = s.offc \/ t.offc = "none",
         t.flight \subseteq s.flight,
         t.req_cnt \in Int, CountOK(t, V, k),
         t.api = IF s.api.name = "none" THEN s.api
                 ELSE [s.api EXCEPT !.has_result = TRUE, !.error = IF @ # "none" THEN @ ELSE "fatal"]
  PROVE  Sound(t, V, a, k, d)
<1>1. /\ ClientOK(s) /\ s.asserts /\ a \in Apps /\ k \in Coords /\ d \in Tolds /\ AppOK(a)
      /\ StatesOK(s) /\ QueueOK(s, a) /\ WireOK(s, W) /\ ListsOK(s, W) /\ CountOK(s, W, k)
      /\ SlotOK(s, a) /\ LogOK(s, k) /\ RepliesOK(s, W, k) /\ PartsOK(s, W, a, k)
      /\ OutcomeOK(s, W, a, k) /\ ToldOK(s, a, k, d)
      /\ SettledOK(s, W, a, d)
      /\ (NoBump => AbortOK(s, W, a, k, d))
      /\ ~s.fatal => OpsOK(s, W, a) /\ CallOK(s, W, a) /\ EndOK(s, a)
  BY DEF Sound
<1>2. /\ t.rktps = s.rktps /\ t.ops = s.ops /\ t.queued = s.queued /\ t.txn = s.txn
      /\ t.produced = s.produced /\ t.asserts = s.asserts /\ t.timedout = s.timedout /\ DOMAIN t = Fields
      /\ t.timers \subseteq Timers
  BY DEF Same, Fields, Misc
<1>3. /\ ApiOK(t.api) /\ t.api.name = s.api.name /\ t.api.calling = s.api.calling
      /\ (t.api.name # "none" => t.api.has_result /\ t.api.error # "none")
      /\ (t.api.name = "none" => t.api = s.api)
  BY <1>1 DEF ClientOK, ApiOK, Errors
<1>4. /\ \A r \in V : r.kind \in Kinds
      /\ s.fatal <=> s.txn_state = "FATAL_ERROR"
      /\ s.txn_state \in TxnStates
  BY <1>1 DEF WireOK, Requests, StatesOK, ClientOK
<1>5. /\ t.pending \subseteq s.pending \cup s.waitresp /\ t.waitresp \subseteq s.pending \cup s.waitresp
      /\ t.offc \in {"none", "request", "sent"} /\ "FATAL_ERROR" \in TxnStates
  BY <1>1 DEF ClientOK, TxnStates
<1>6. ClientOK(t)
  BY <1>1, <1>2, <1>3, <1>4, <1>5 DEF ClientOK
<1>7. t.asserts
  BY <1>1, <1>2
<1>8. StatesOK(t)
  BY <1>1, <1>2, <1>3, <1>4, <1>5 DEF StatesOK, Acquiring, Outside, Sending, Aborting
<1>9. QueueOK(t, a)
  BY <1>1, <1>2, <1>3, <1>4, <1>5 DEF QueueOK, Reacquiring, Apps, Acquiring, Aborting,
  Sending
<1>10. WireOK(t, V)
  BY <1>1, <1>2, <1>3, <1>4, <1>5 DEF WireOK, Only, Has, Allowed, Reacquiring, Acquiring,
  Aborting, Last
<1>11. ListsOK(t, V)
  BY <1>1, <1>2, <1>3, <1>4, <1>5 DEF ListsOK, Has, Outside, Sending
<1>12. CountOK(t, V, k)
  OBVIOUS
<1>13. SlotOK(t, a)
  BY <1>1, <1>2, <1>3, <1>4, <1>5 DEF SlotOK, InCall, ApiOK, ClientOK, Apps, EndOK, Apis, AppOK
<1>14. ~t.fatal => OpsOK(t, V, a)
  BY <1>1, <1>2, <1>3, <1>4, <1>5 DEF OpsOK, Pending, InitOps, Reacquiring, At, Acquiring,
  Aborting, Has, InCall
<1>15. ~t.fatal => CallOK(t, V, a)
  BY <1>1, <1>2, <1>3, <1>4, <1>5 DEF CallOK, Reacquiring, At, Acquiring, Aborting, Has, Apps
<1>16. ~t.fatal => EndOK(t, a)
  BY <1>1, <1>2, <1>3, <1>4, <1>5 DEF EndOK, At
<1>17. LogOK(t, k)
  BY <1>1, <1>2, <1>3, <1>4, <1>5 DEF LogOK, Outside
<1>18. RepliesOK(t, V, k)
  BY <1>1, <1>2, <1>3, <1>4, <1>5 DEF RepliesOK, Sending, Last, Of
<1>19. PartsOK(t, V, a, k)
  <2>1. ~s.fatal /\ (\E r \in W : r.kind \in Last) =>
          s.txn_state \in {"WAIT_PID", "COMMITTING_TRANSACTION", "ABORTING_TRANSACTION"} \/ Reacquiring(s)
    BY <1>1, <1>4 DEF WireOK, Only, Allowed, Last, TxnStates, Reacquiring, Aborting
  <2>2. ~s.fatal /\ (\E r \in W : r.kind \in Last) =>
          /\ s.queued = {} /\ s.flight = {} /\ s.offc = "none" /\ a.at # "produce"
          /\ ~Has(W, "add_offsets")
    BY <2>1, <1>1, <1>4 DEF QueueOK, CallOK, Reacquiring, Aborting, At
  <2>3. ~s.fatal /\ Has(W, "end_commit") => s.txn_state = "COMMITTING_TRANSACTION"
    BY <1>1, <1>4 DEF WireOK, Only, Allowed, Has, TxnStates, Reacquiring, Aborting
  <2>4. ~s.fatal /\ Has(W, "end_commit") =>
          Of(s.txn, s.produced) \subseteq k.written /\ (k.fenced \/ Of(s.txn, k.aborted) = {})
    BY <2>3, <1>1 DEF OutcomeOK
  <2>5. /\ (\E r \in V : r.kind \in Last) => \E r \in W : r.kind \in Last
        /\ Has(V, "end_commit") => Has(W, "end_commit")
        /\ Has(V, "add_offsets") => Has(W, "add_offsets")
    BY DEF Has
  <2>6. ~Gathering(t, a)
    BY DEF Gathering, Sending
  <2>7. ~s.fatal => \A q, r \in W : q.kind \in Last /\ r.kind \in Last => q.kind = r.kind
    BY <1>1, <1>4 DEF WireOK, Only, Allowed, Last, TxnStates, Reacquiring, Aborting
  <2>8. \A q, r \in W : q.kind \in Last /\ r.kind \in Last => q = r
    BY <2>7, <1>1 DEF WireOK, PartsOK
  <2> QED
    BY <2>2, <2>4, <2>5, <2>6, <2>8, <1>1, <1>2, <1>5 DEF PartsOK
<1>20. OutcomeOK(t, V, a, k)
  BY <1>1, <1>2, <1>3, <1>4, <1>5 DEF OutcomeOK, Of, Has, Sending
<1>21. ToldOK(t, a, k, d)
  BY <1>1, <1>2, <1>3, <1>4, <1>5 DEF ToldOK, Of, Apps, EndOK, Apis, SlotOK, AppOK, InCall,
  OutcomeOK
<1>22. NoBump => AbortOK(t, V, a, k, d)
  BY <1>1, <1>2, <1>3, <1>4, <1>5 DEF AbortOK, CommitLost, EndOK, Apis, SlotOK, AppOK, InCall
<1>23. SettledOK(t, V, a, d)
  <2>1. ~s.fatal /\ (a.stage = 4 \/ \E u \in 1 .. MaxTxns : u = s.txn /\ d[u] # "none") =>
          s.txn_state \in {"READY", "COMMIT_NOT_ACKED", "ABORT_NOT_ACKED"}
    BY <1>1, <1>4 DEF EndOK, ToldOK, ClientOK
  <2>2. s.txn_state \in {"READY", "COMMIT_NOT_ACKED", "ABORT_NOT_ACKED"} => W = {}
    BY <1>1 DEF WireOK, Only, Allowed, Reacquiring, Aborting
  <2>3. ~s.fatal /\ s.txn_state \in {"READY", "COMMIT_NOT_ACKED", "ABORT_NOT_ACKED"} =>
          s.offc = "none" /\ a.at # "produce"
    BY <1>1 DEF CallOK, QueueOK
  <2>4. Has(V, "add_offsets") => Has(W, "add_offsets")
    BY DEF Has
  <2>5. Spent(s, W) => Spent(t, V)
    BY <2>4 DEF Spent
  <2>6. a.api \in {"commit", "abort"} => t.api.has_result /\ t.api.error # "none"
    BY <1>1, <1>3 DEF SlotOK, AppOK
  <2>7. ~s.fatal => (s.offc = "none" \/ ~Has(W, "add_offsets")) /\ (~Spent(s, W) => s.txn > 0)
    BY <1>1 DEF CallOK, Spent, StatesOK, Outside
  <2>8. W = {} /\ s.offc = "none" => Spent(s, W)
    BY DEF Spent, Has
  <2>9. /\ t.offc = "none" \/ ~Has(V, "add_offsets")
        /\ ~Spent(t, V) => t.txn > 0
    BY <2>4, <2>5, <2>7, <1>1, <1>2 DEF SettledOK
  <2>10. Returns(a) => a.stage = 4
    BY DEF Returns
  <2>11. a.stage = 4 /\ a.api \in {"commit", "abort"} /\ a.at # "return" => Spent(s, W)
    BY <2>1, <2>2, <2>3, <2>8, <1>1 DEF SettledOK
  <2> QED
    BY <2>1, <2>2, <2>3, <2>5, <2>6, <2>9, <2>10, <2>11, <1>1, <1>2, <1>5 DEF SettledOK
<1> QED
  BY <1>23, <1>22, <1>1, <1>2, <1>6, <1>7, <1>8, <1>9, <1>10, <1>11, <1>12, <1>13, <1>14, <1>15, <1>16,
  <1>17, <1>18, <1>19, <1>20, <1>21, <1>3, <1>4, <1>5 DEF Sound

LEMMA FatalSound ==
  ASSUME NEW s, NEW W, NEW a, NEW k, NEW d, Sound(s, W, a, k, d), NEW t,
         Same(s, t, {"idemp_state", "txn_err", "bump", "req_cnt", "dr_fails", "pending", "waitresp", "api", "ops", "offc", "flight", "queued"}),
         s.fatal, NEW V, V \subseteq W,
         t.txn_err \in BOOLEAN, t.bump \in BOOLEAN, t.dr_fails \in BOOLEAN,
         t.idemp_state \in IdempStates, t.ops \in Seq(OpNames),
         t.pending \cup t.waitresp \subseteq s.pending \cup s.waitresp, t.pending \cap t.waitresp = {},
         t.offc \in {"none", "request", "sent"}, s.offc = "none" => t.offc = "none" \/ ((k.fenced \/ OFF \in k.parts) /\ Has(W, "add_offsets") /\ ~Has(V, "add_offsets")),
         t.flight \subseteq s.flight, t.queued \subseteq s.queued,
         t.req_cnt \in Int, CountOK(t, V, k),
         t.api = s.api \/ (s.api.name # "none" /\ ApiOK(t.api) /\ t.api.name = s.api.name /\ (t.api.calling <=> s.api.calling)
           /\ t.api.has_result /\ t.api.error # "none")
  PROVE  Sound(t, V, a, k, d)
<1>1. /\ ClientOK(s) /\ s.asserts /\ a \in Apps /\ k \in Coords /\ d \in Tolds /\ AppOK(a)
      /\ StatesOK(s) /\ QueueOK(s, a) /\ WireOK(s, W) /\ ListsOK(s, W) /\ CountOK(s, W, k)
      /\ SlotOK(s, a) /\ LogOK(s, k) /\ RepliesOK(s, W, k) /\ PartsOK(s, W, a, k)
      /\ OutcomeOK(s, W, a, k) /\ ToldOK(s, a, k, d)
      /\ SettledOK(s, W, a, d)
      /\ (NoBump => AbortOK(s, W, a, k, d))
      /\ ~s.fatal => OpsOK(s, W, a) /\ CallOK(s, W, a) /\ EndOK(s, a)
  BY DEF Sound
<1>2. /\ t.txn_state = s.txn_state /\ t.fatal = s.fatal /\ t.may_enq = s.may_enq
      /\ t.rktps = s.rktps /\ t.txn = s.txn /\ t.produced = s.produced /\ t.asserts = s.asserts /\ t.timedout = s.timedout
      /\ DOMAIN t = Fields /\ t.timers \subseteq Timers
  BY DEF Same, Fields, Misc
<1>3. ApiOK(t.api) /\ s.txn_state = "FATAL_ERROR" /\ ~Reacquiring(t) /\ ~Reacquiring(s)
  BY <1>1, <1>2 DEF ClientOK, StatesOK, Reacquiring, Aborting
<1>4. t.pending \subseteq s.pending \cup s.waitresp /\ t.waitresp \subseteq s.pending \cup s.waitresp
  OBVIOUS
<1>5. ClientOK(t)
  BY <1>1, <1>2, <1>3, <1>4 DEF ClientOK
<1>6. t.asserts
  BY <1>1, <1>2
<1>7. StatesOK(t)
  BY <1>1, <1>2, <1>3, <1>4 DEF StatesOK, Acquiring, Outside, Sending, Aborting
<1>8. QueueOK(t, a)
  BY <1>1, <1>2, <1>3, <1>4 DEF QueueOK, Reacquiring, Apps, Acquiring, Aborting, Sending
<1>9. WireOK(t, V)
  BY <1>1, <1>2, <1>3, <1>4 DEF WireOK, Only, Has, Allowed, Reacquiring, Acquiring, Aborting,
  Last
<1>10. ListsOK(t, V)
  BY <1>1, <1>2, <1>3, <1>4 DEF ListsOK, Has, Outside, Sending
<1>11. CountOK(t, V, k)
  OBVIOUS
<1>12. SlotOK(t, a)
  BY <1>1, <1>2, <1>3, <1>4 DEF SlotOK, InCall, ApiOK, ClientOK, Apps
<1>13. ~t.fatal => OpsOK(t, V, a)
  BY <1>1, <1>2, <1>3, <1>4 DEF OpsOK, Pending, InitOps, Reacquiring, At, Acquiring, Aborting,
  Has, InCall
<1>14. ~t.fatal => CallOK(t, V, a)
  BY <1>1, <1>2, <1>3, <1>4 DEF CallOK, Reacquiring, At, Acquiring, Aborting, Has, Apps
<1>15. ~t.fatal => EndOK(t, a)
  BY <1>1, <1>2, <1>3, <1>4 DEF EndOK, At
<1>16. LogOK(t, k)
  BY <1>1, <1>2, <1>3, <1>4 DEF LogOK, Outside
<1>17. RepliesOK(t, V, k)
  BY <1>1, <1>2, <1>3, <1>4 DEF RepliesOK, Sending, Last, Of
<1>18. PartsOK(t, V, a, k)
  <2>1. /\ (\E r \in V : r.kind \in Last) => \E r \in W : r.kind \in Last
        /\ Has(V, "end_commit") => Has(W, "end_commit")
        /\ Has(V, "add_offsets") => Has(W, "add_offsets")
    BY DEF Has
  <2>2. ~Gathering(t, a)
    BY <1>2, <1>3 DEF Gathering, Sending
  <2> QED
    BY <2>1, <2>2, <1>1, <1>2 DEF PartsOK
<1>19. OutcomeOK(t, V, a, k)
  BY <1>1, <1>2, <1>3, <1>4 DEF OutcomeOK, Of, Has, Sending
<1>20. ToldOK(t, a, k, d)
  BY <1>1, <1>2, <1>3, <1>4 DEF ToldOK, Of, Apps
<1>21. NoBump => AbortOK(t, V, a, k, d)
  BY <1>1, <1>2, <1>3, <1>4 DEF AbortOK, CommitLost, Of, Reacquiring, Acquiring, Aborting
<1>22. SettledOK(t, V, a, d)
  <2>1. W = {} => V = {} /\ ~Has(W, "add_offsets")
    BY DEF Has
  <2>2. Has(V, "add_offsets") => Has(W, "add_offsets")
    BY DEF Has
  <2>3. Spent(s, W) => Spent(t, V)
    BY <2>2 DEF Spent
  <2>4. t.api.has_result /\ t.api.error = "none" => s.api.has_result /\ s.api.error = "none"
    OBVIOUS
  <2>5. (t.api.has_result /\ t.api.error # "none") \/ t.api = s.api
    OBVIOUS
  <2>6. t.offc = "none" \/ ~Has(V, "add_offsets")
    BY <2>2, <1>1 DEF SettledOK
  <2> QED
    BY <2>1, <2>2, <2>3, <2>4, <2>5, <2>6, <1>1, <1>2 DEF SettledOK
<1> QED
  BY <1>22, <1>21, <1>1, <1>2, <1>5, <1>6, <1>7, <1>8, <1>9, <1>10, <1>11, <1>12, <1>13, <1>14, <1>15, <1>16,
  <1>17, <1>18, <1>19, <1>20, <1>3, <1>4 DEF Sound

\* V has the requests of W, but for replies that tell nothing of the coordinator.
Rewrites(W, V, k) ==
  /\ V \subseteq Requests
  /\ \A q \in V : \E r \in W :
       /\ q.kind = r.kind /\ q.parts = r.parts
       /\ \/ q = r
          \/ q.reply \notin {"ok", "fenced"} /\ (NoBump => q.reply # "bump")
          \/ q.reply = "fenced" /\ (k.fenced \/ q.kind \in {"end_commit", "end_abort"})
  /\ \A r \in W : \E q \in V : q.kind = r.kind
  /\ \A q, r \in V : q.kind = r.kind => q = r
  /\ \A q, r \in V : q.kind \notin Last /\ r.kind \in Last /\ r.reply # "none" => q.reply # "none"

LEMMA RewriteSound ==
  ASSUME NEW s, NEW W, NEW a, NEW k, NEW d, Sound(s, W, a, k, d), NEW t,
         Same(s, t, {"req_cnt"}),
         NEW V, Rewrites(W, V, k), t.req_cnt \in Int, t.req_cnt >= s.req_cnt,
         s.txn_state \in Outside => t.req_cnt = s.req_cnt
  PROVE  Sound(t, V, a, k, d)
<1>1. /\ ClientOK(s) /\ s.asserts /\ a \in Apps /\ k \in Coords /\ d \in Tolds /\ AppOK(a)
      /\ StatesOK(s) /\ QueueOK(s, a) /\ WireOK(s, W) /\ ListsOK(s, W) /\ CountOK(s, W, k)
      /\ SlotOK(s, a) /\ LogOK(s, k) /\ RepliesOK(s, W, k) /\ PartsOK(s, W, a, k)
      /\ OutcomeOK(s, W, a, k) /\ ToldOK(s, a, k, d)
      /\ SettledOK(s, W, a, d)
      /\ (NoBump => AbortOK(s, W, a, k, d))
      /\ ~s.fatal => OpsOK(s, W, a) /\ CallOK(s, W, a) /\ EndOK(s, a)
  BY DEF Sound
<1>2. /\ t.txn_state = s.txn_state /\ t.idemp_state = s.idemp_state /\ t.fatal = s.fatal
      /\ t.txn_err = s.txn_err /\ t.bump = s.bump /\ t.may_enq = s.may_enq
      /\ t.dr_fails = s.dr_fails /\ t.pending = s.pending /\ t.waitresp = s.waitresp
      /\ t.rktps = s.rktps /\ t.api = s.api /\ t.ops = s.ops /\ t.offc = s.offc
      /\ t.queued = s.queued /\ t.flight = s.flight /\ t.txn = s.txn /\ t.produced = s.produced
      /\ t.asserts = s.asserts /\ t.timedout = s.timedout /\ DOMAIN t = Fields /\ t.timers \subseteq Timers
  BY DEF Same, Fields, Misc
<1>3. \A x : Has(V, x) <=> Has(W, x)
  BY DEF Rewrites, Has
<1>4. \A K : Only(W, K) => Only(V, K)
  BY DEF Rewrites, Only
<1>5. W = {} => V = {}
  BY DEF Rewrites
<1>6. ClientOK(t)
  BY <1>1, <1>2, <1>3, <1>4, <1>5 DEF ClientOK
<1>7. t.asserts
  BY <1>1, <1>2
<1>8. StatesOK(t)
  BY <1>1, <1>2 DEF StatesOK
<1>9. QueueOK(t, a)
  BY <1>1, <1>2 DEF QueueOK, Reacquiring
<1>10. WireOK(t, V)
  <2>1. Allowed(t) = Allowed(s) /\ (Reacquiring(t) <=> Reacquiring(s))
    BY <1>2 DEF Allowed, Reacquiring
  <2>2. \A q \in V :
          /\ q.kind = "add_parts" => q.parts \subseteq Partitions /\ q.parts # {}
          /\ q.kind = "add_offsets" => q.parts = {OFF}
    BY <1>1 DEF WireOK, Rewrites
  <2> QED
    BY <2>1, <2>2, <1>1, <1>2, <1>3, <1>4, <1>5 DEF WireOK, Rewrites
<1>11. ListsOK(t, V)
  BY <1>1, <1>2, <1>3 DEF ListsOK, Rewrites
<1>12. CountOK(t, V, k)
  BY <1>1, <1>2, <1>3 DEF CountOK, One, ClientOK
<1>13. SlotOK(t, a)
  BY <1>1, <1>2 DEF SlotOK
<1>14. ~t.fatal => OpsOK(t, V, a)
  BY <1>1, <1>2, <1>3 DEF OpsOK, Pending, InitOps, Reacquiring
<1>15. ~t.fatal => CallOK(t, V, a)
  BY <1>1, <1>2, <1>3 DEF CallOK, Reacquiring
<1>16. ~t.fatal => EndOK(t, a)
  BY <1>1, <1>2 DEF EndOK
<1>17. LogOK(t, k)
  BY <1>1, <1>2 DEF LogOK
<1>18. RepliesOK(t, V, k)
  BY <1>1, <1>2 DEF RepliesOK, Rewrites, Last
<1>19. PartsOK(t, V, a, k)
  <2>1. (\E q \in V : q.kind \in Last) => \E r \in W : r.kind \in Last
    BY DEF Rewrites
  <2>2. (\A q, r \in W : q.kind \in Last /\ r.kind \in Last => q = r) =>
          \A q, r \in V : q.kind \in Last /\ r.kind \in Last => q = r
    BY DEF Rewrites
  <2> QED
    BY <2>1, <2>2, <1>1, <1>2, <1>3 DEF PartsOK, Gathering
<1>20. OutcomeOK(t, V, a, k)
  BY <1>1, <1>2, <1>3 DEF OutcomeOK
<1>21. ToldOK(t, a, k, d)
  BY <1>1, <1>2 DEF ToldOK
<1>22. NoBump => AbortOK(t, V, a, k, d)
  <2>1. NoBump /\ (\A r \in W : r.reply # "bump") => \A q \in V : q.reply # "bump"
    BY DEF Rewrites
  <2>2. (\A r \in W : r.kind = "end_abort" /\ r.reply # "ok") => \A q \in V : q.kind = "end_abort" /\ q.reply # "ok"
    BY DEF Rewrites
  <2>3. t.req_cnt >= s.req_cnt /\ t.req_cnt \in Int /\ s.req_cnt \in Int
    BY <1>1 DEF ClientOK
  <2> QED
    BY <2>1, <2>2, <2>3, <1>1, <1>2 DEF AbortOK, CommitLost, Reacquiring
<1>23. SettledOK(t, V, a, d)
  BY <1>1, <1>2, <1>3, <1>4, <1>5 DEF SettledOK,
  Returns, Spent, Has
<1> QED
  BY <1>23, <1>22, <1>1, <1>2, <1>6, <1>7, <1>8, <1>9, <1>10, <1>11, <1>12, <1>13, <1>14, <1>15, <1>16,
  <1>17, <1>18, <1>19, <1>20, <1>21, <1>3, <1>4, <1>5 DEF Sound

LEMMA RegisteredSound ==
  ASSUME NEW s, NEW W, NEW a, NEW k, NEW d, Sound(s, W, a, k, d), NEW t,
         Same(s, t, {}),
         NEW r \in W, r.reply = "none", NEW q \in Requests,
         q.kind = r.kind, q.parts = r.parts, q.reply = "ok",
         NEW V, V = (W \ {r}) \cup {q}, ~k.fenced,
         r.kind \in {"add_parts", "add_offsets"},
         NEW l, l = [k EXCEPT !.open = TRUE, !.parts = @ \cup r.parts]
  PROVE  Sound(t, V, a, l, d)
<1>1. /\ ClientOK(s) /\ s.asserts /\ a \in Apps /\ k \in Coords /\ d \in Tolds /\ AppOK(a)
      /\ StatesOK(s) /\ QueueOK(s, a) /\ WireOK(s, W) /\ ListsOK(s, W) /\ CountOK(s, W, k)
      /\ SlotOK(s, a) /\ LogOK(s, k) /\ RepliesOK(s, W, k) /\ PartsOK(s, W, a, k)
      /\ OutcomeOK(s, W, a, k) /\ ToldOK(s, a, k, d)
      /\ SettledOK(s, W, a, d)
      /\ (NoBump => AbortOK(s, W, a, k, d))
      /\ ~s.fatal => OpsOK(s, W, a) /\ CallOK(s, W, a) /\ EndOK(s, a)
  BY DEF Sound
<1>2. /\ t.txn_state = s.txn_state /\ t.idemp_state = s.idemp_state /\ t.fatal = s.fatal
      /\ t.txn_err = s.txn_err /\ t.bump = s.bump /\ t.req_cnt = s.req_cnt
      /\ t.may_enq = s.may_enq /\ t.dr_fails = s.dr_fails /\ t.pending = s.pending
      /\ t.waitresp = s.waitresp /\ t.rktps = s.rktps /\ t.api = s.api /\ t.ops = s.ops
      /\ t.offc = s.offc /\ t.queued = s.queued /\ t.flight = s.flight /\ t.txn = s.txn
      /\ t.produced = s.produced /\ t.asserts = s.asserts /\ t.timedout = s.timedout /\ DOMAIN t = Fields
      /\ t.timers \subseteq Timers
  BY DEF Same, Fields, Misc
<1>3. q \in Requests /\ q.kind = r.kind /\ q.parts = r.parts /\ q.reply = "ok" /\ r \in Requests
  BY <1>1 DEF WireOK
<1>4. \A x : Has(V, x) <=> Has(W, x)
  BY <1>3 DEF Has
<1>5. \A K : Only(W, K) => Only(V, K)
  BY <1>3 DEF Only
<1>6. \A p \in V : p = q \/ (p \in W /\ p # r /\ p.kind # q.kind)
  BY <1>1, <1>3 DEF WireOK
<1>7. /\ l \in Coords /\ l.written = k.written /\ l.parts = k.parts \cup r.parts /\ l.open /\ r.parts # {}
      /\ l.fenced = k.fenced /\ l.committed = k.committed /\ l.aborted = k.aborted
  BY <1>1, <1>3 DEF Coords, Requests, WireOK
<1>8. \A p \in V : p.kind \in Last => p.reply = "none"
  BY <1>1, <1>3, <1>6 DEF WireOK, Last, RepliesOK
<1>9. ClientOK(t)
  BY <1>1, <1>2, <1>3, <1>4, <1>5, <1>6, <1>7, <1>8 DEF ClientOK
<1>10. t.asserts
  BY <1>1, <1>2
<1>11. l \in Coords
  BY <1>1, <1>2, <1>3, <1>4, <1>5, <1>6, <1>7, <1>8 DEF Coords
<1>12. StatesOK(t)
  BY <1>1, <1>2 DEF StatesOK
<1>13. QueueOK(t, a)
  BY <1>1, <1>2 DEF QueueOK, Reacquiring
<1>14. WireOK(t, V)
  <2>1. Allowed(t) = Allowed(s) /\ (Reacquiring(t) <=> Reacquiring(s))
    BY <1>2 DEF Allowed, Reacquiring
  <2>2. \A p, u \in V : p.kind = u.kind => p = u
    BY <1>1, <1>3, <1>6 DEF WireOK
  <2>3. \A p, u \in V : p.kind \notin Last /\ u.kind \in Last /\ u.reply # "none" => p.reply # "none"
    BY <1>1, <1>3, <1>6 DEF WireOK, Last
  <2>4. \A p \in V :
          /\ p.kind = "add_parts" => p.parts \subseteq Partitions /\ p.parts # {}
          /\ p.kind = "add_offsets" => p.parts = {OFF}
    BY <1>1, <1>3, <1>6 DEF WireOK
  <2>5. V \subseteq Requests
    BY <1>1, <1>3 DEF WireOK
  <2> QED
    BY <2>1, <2>2, <2>3, <2>4, <2>5, <1>1, <1>2, <1>4, <1>5 DEF WireOK
<1>15. ListsOK(t, V)
  <2>1. s.txn_state \in Sending => \A p \in V : p.kind = "add_parts" => p.parts = s.waitresp
    BY <1>1, <1>3, <1>6 DEF ListsOK
  <2> QED
    BY <2>1, <1>1, <1>2, <1>4 DEF ListsOK
<1>16. CountOK(t, V, l)
  BY <1>1, <1>2, <1>4, <1>7 DEF CountOK, One, ClientOK
<1>17. SlotOK(t, a)
  BY <1>1, <1>2 DEF SlotOK
<1>18. ~t.fatal => OpsOK(t, V, a)
  BY <1>1, <1>2, <1>4 DEF OpsOK, Pending, InitOps, Reacquiring
<1>19. ~t.fatal => CallOK(t, V, a)
  BY <1>1, <1>2, <1>4 DEF CallOK, Reacquiring
<1>20. ~t.fatal => EndOK(t, a)
  BY <1>1, <1>2 DEF EndOK
<1>21. LogOK(t, l)
  BY <1>1, <1>2, <1>7 DEF LogOK
<1>22. RepliesOK(t, V, l)
  BY <1>1, <1>2, <1>7, <1>8, <1>3, <1>6 DEF RepliesOK, Last
<1>23. PartsOK(t, V, a, l)
  <2>1. \A p \in V : p.kind \in Last => p \in W
    BY <1>3, <1>6 DEF Last
  <2> QED
    BY <2>1, <1>1, <1>2, <1>4, <1>7 DEF PartsOK, Gathering
<1>24. OutcomeOK(t, V, a, l)
  BY <1>1, <1>2, <1>4, <1>7 DEF OutcomeOK
<1>25. ToldOK(t, a, l, d)
  BY <1>1, <1>2, <1>7 DEF ToldOK
<1>26. NoBump => AbortOK(t, V, a, l, d)
  <2>1. NoBump => ~CommitLost(s, k)
    BY <1>1 DEF AbortOK, CommitLost, WireOK, Only, Allowed
  <2>2. s.txn_state = t.txn_state /\ W # {} /\ l.committed = k.committed
    BY <1>2, <1>7
  <2> QED
    BY <2>1, <2>2, <1>1, <1>2, <1>3, <1>6, <1>7 DEF AbortOK, CommitLost
<1>27. SettledOK(t, V, a, d)
  BY <1>1, <1>2, <1>3, <1>4, <1>5, <1>6, <1>7, <1>8, <1>11 DEF SettledOK,
  Returns, Spent, Has
<1> QED
  BY <1>27, <1>26, <1>1, <1>2, <1>9, <1>10, <1>11, <1>12, <1>13, <1>14, <1>15, <1>16, <1>17, <1>18, <1>19,
  <1>20, <1>21, <1>22, <1>23, <1>24, <1>25, <1>3, <1>4, <1>5, <1>6, <1>7, <1>8 DEF Sound

LEMMA EndedSound ==
  ASSUME NEW s, NEW W, NEW a, NEW k, NEW d, Sound(s, W, a, k, d), NEW t,
         Same(s, t, {}),
         NEW r \in W, r.reply = "none", NEW q \in Requests,
         q.kind = r.kind, q.parts = r.parts, q.reply = "ok",
         NEW V, V = (W \ {r}) \cup {q}, ~k.fenced,
         r.kind \in Last,
         \A p \in W : p.kind \notin Last => p.reply # "none",
         k.open \/ r.kind = "init_pid" \/ k.last = r.kind,
         NEW l, l = Ended(k, IF r.kind = "init_pid" THEN "none" ELSE r.kind) \/ (l = k /\ ~k.open)
  PROVE  Sound(t, V, a, l, d)
<1>1. /\ ClientOK(s) /\ s.asserts /\ a \in Apps /\ k \in Coords /\ d \in Tolds /\ AppOK(a)
      /\ StatesOK(s) /\ QueueOK(s, a) /\ WireOK(s, W) /\ ListsOK(s, W) /\ CountOK(s, W, k)
      /\ SlotOK(s, a) /\ LogOK(s, k) /\ RepliesOK(s, W, k) /\ PartsOK(s, W, a, k)
      /\ OutcomeOK(s, W, a, k) /\ ToldOK(s, a, k, d)
      /\ SettledOK(s, W, a, d)
      /\ (NoBump => AbortOK(s, W, a, k, d))
      /\ ~s.fatal => OpsOK(s, W, a) /\ CallOK(s, W, a) /\ EndOK(s, a)
  BY DEF Sound
<1>2. /\ t.txn_state = s.txn_state /\ t.idemp_state = s.idemp_state /\ t.fatal = s.fatal
      /\ t.txn_err = s.txn_err /\ t.bump = s.bump /\ t.req_cnt = s.req_cnt
      /\ t.may_enq = s.may_enq /\ t.dr_fails = s.dr_fails /\ t.pending = s.pending
      /\ t.waitresp = s.waitresp /\ t.rktps = s.rktps /\ t.api = s.api /\ t.ops = s.ops
      /\ t.offc = s.offc /\ t.queued = s.queued /\ t.flight = s.flight /\ t.txn = s.txn
      /\ t.produced = s.produced /\ t.asserts = s.asserts /\ t.timedout = s.timedout /\ DOMAIN t = Fields
      /\ t.timers \subseteq Timers
  BY DEF Same, Fields, Misc
<1>3. q \in Requests /\ q.kind = r.kind /\ q.parts = r.parts /\ q.reply = "ok" /\ r \in Requests
  BY <1>1 DEF WireOK
<1>4. \A x : Has(V, x) <=> Has(W, x)
  BY <1>3 DEF Has
<1>5. \A K : Only(W, K) => Only(V, K)
  BY <1>3 DEF Only
<1>6. \A p \in V : p = q \/ (p \in W /\ p # r /\ p.kind # q.kind)
  BY <1>1, <1>3 DEF WireOK
<1>7. \A m \in k.written \ (k.committed \cup k.aborted) : m[1] = s.txn /\ m[2] \in k.parts
  BY <1>1 DEF LogOK
<1>8. /\ r.kind # "init_pid" => l.last = r.kind
      /\ l \in Coords /\ l.written = k.written /\ l.parts = {} /\ ~l.open /\ l.fenced = k.fenced
      /\ l.written = l.committed \cup l.aborted
      /\ \/ r.kind = "end_commit" /\ l.committed = k.written \ k.aborted /\ l.aborted = k.aborted
         \/ r.kind # "end_commit" /\ l.committed = k.committed /\ l.aborted = k.written \ k.committed
  <2>0. k.committed \cap k.aborted = {} /\ k.committed \cup k.aborted \subseteq k.written
    BY <1>1 DEF LogOK
  <2>1. CASE l = k /\ ~k.open
    BY <2>0, <2>1, <1>1, <1>7 DEF LogOK
  <2>2. CASE l = Ended(k, IF r.kind = "init_pid" THEN "none" ELSE r.kind)
    <3> DEFINE ms == {m \in k.written \ (k.committed \cup k.aborted) : m[2] \in k.parts}
    <3>1. ms = k.written \ (k.committed \cup k.aborted)
      BY <1>7
    <3>2. /\ l = [k EXCEPT !.open = FALSE, !.parts = {}, !.last = IF r.kind = "init_pid" THEN "none" ELSE r.kind,
                    !.committed = IF r.kind = "end_commit" THEN @ \cup ms ELSE @,
                    !.aborted = IF r.kind = "end_commit" THEN @ ELSE @ \cup ms]
      BY <2>2 DEF Ended
    <3> HIDE DEF ms
    <3>3. /\ DOMAIN l = DOMAIN k /\ l.open = FALSE /\ l.parts = {} /\ l.written = k.written /\ l.fenced = k.fenced
          /\ l.last = (IF r.kind = "init_pid" THEN "none" ELSE r.kind)
          /\ l.committed = (IF r.kind = "end_commit" THEN k.committed \cup ms ELSE k.committed)
          /\ l.aborted = (IF r.kind = "end_commit" THEN k.aborted ELSE k.aborted \cup ms)
      BY <3>2, <1>1 DEF Coords
    <3>4. l \in Coords
      BY <3>1, <3>2, <1>1 DEF Coords, Last
    <3> QED
      BY <2>0, <3>1, <3>3, <3>4
  <2> QED
    BY <2>1, <2>2
<1>9. /\ \/ s.txn_state \in {"WAIT_PID", "COMMITTING_TRANSACTION", "ABORTING_TRANSACTION", "FATAL_ERROR"}
         \/ Reacquiring(s)
      /\ s.fatal <=> s.txn_state = "FATAL_ERROR"
      /\ s.txn_state = "COMMITTING_TRANSACTION" => r.kind = "end_commit"
      /\ r.kind = "end_commit" => s.txn_state = "COMMITTING_TRANSACTION" \/ s.fatal
      /\ s.txn_state \notin Sending
  BY <1>1 DEF WireOK, Only, Allowed, Last, StatesOK, ClientOK, TxnStates, Reacquiring, Aborting, Acquiring, Sending
<1>10. /\ s.offc = "none" /\ s.queued \cup s.flight = {} /\ a.at # "produce" /\ ~Has(V, "add_offsets")
      /\ ~Gathering(t, a)
  <2>1. ~s.fatal => s.offc = "none" /\ s.queued \cup s.flight = {} /\ a.at # "produce" /\ ~Has(W, "add_offsets")
    BY <1>1, <1>9 DEF CallOK, QueueOK, Reacquiring, Aborting
  <2>2. s.fatal => s.offc = "none" /\ s.queued \cup s.flight = {} /\ a.at # "produce" /\ ~Has(W, "add_offsets")
    BY <1>1 DEF PartsOK
  <2> QED
    BY <2>1, <2>2, <1>2, <1>4, <1>9 DEF Gathering, Sending
<1>30. /\ \A p \in V : p # q => p.kind \in {"add_parts", "add_offsets"}
       /\ r.kind = "end_commit" => Of(s.txn, s.produced) \subseteq k.written /\ Of(s.txn, k.aborted) = {}
  <2>1. ~s.fatal => \A p \in V : p # q => p.kind \in {"add_parts", "add_offsets"}
    BY <1>1, <1>3, <1>6, <1>9 DEF WireOK, Only, Allowed, Last, Reacquiring, Aborting
  <2>2. s.fatal => \A p \in V : p # q => p.kind \in {"add_parts", "add_offsets"}
    BY <1>1, <1>3, <1>6 DEF PartsOK, WireOK, Requests, Kinds, Last
  <2>3. Has(W, "end_commit") <=> r.kind = "end_commit"
    BY <2>1, <2>2, <1>3, <1>6, <1>4 DEF Has
  <2>4. r.kind = "end_commit" => Of(s.txn, s.produced) \subseteq k.written /\ (k.fenced \/ Of(s.txn, k.aborted) = {})
    BY <2>3, <1>1, <1>9 DEF OutcomeOK, PartsOK
  <2> QED
    BY <2>1, <2>2, <2>4
<1>11. ClientOK(t)
  BY <1>1, <1>2, <1>3, <1>4, <1>5, <1>6, <1>7, <1>8, <1>9, <1>10 DEF ClientOK
<1>12. t.asserts
  BY <1>1, <1>2
<1>13. l \in Coords
  BY <1>1, <1>2, <1>3, <1>4, <1>5, <1>6, <1>7, <1>8, <1>9, <1>10 DEF Coords
<1>14. StatesOK(t)
  BY <1>1, <1>2 DEF StatesOK
<1>15. QueueOK(t, a)
  BY <1>1, <1>2 DEF QueueOK, Reacquiring
<1>16. WireOK(t, V)
  <2>1. Allowed(t) = Allowed(s) /\ (Reacquiring(t) <=> Reacquiring(s))
    BY <1>2 DEF Allowed, Reacquiring
  <2>2. \A p, u \in V : p.kind = u.kind => p = u
    BY <1>1, <1>3, <1>6 DEF WireOK
  <2>3. \A p, u \in V : p.kind \notin Last /\ u.kind \in Last /\ u.reply # "none" => p.reply # "none"
    BY <1>1, <1>3, <1>6 DEF WireOK, Last
  <2>4. \A p \in V :
          /\ p.kind = "add_parts" => p.parts \subseteq Partitions /\ p.parts # {}
          /\ p.kind = "add_offsets" => p.parts = {OFF}
    BY <1>1, <1>3, <1>6 DEF WireOK
  <2>5. V \subseteq Requests
    BY <1>1, <1>3 DEF WireOK
  <2> QED
    BY <2>1, <2>2, <2>3, <2>4, <2>5, <1>1, <1>2, <1>4, <1>5 DEF WireOK
<1>17. ListsOK(t, V)
  <2>1. s.txn_state \in Sending => \A p \in V : p.kind = "add_parts" => p.parts = s.waitresp
    BY <1>1, <1>3, <1>6 DEF ListsOK
  <2> QED
    BY <2>1, <1>1, <1>2, <1>4 DEF ListsOK
<1>18. CountOK(t, V, l)
  BY <1>1, <1>2, <1>4, <1>8 DEF CountOK, One, ClientOK
<1>19. SlotOK(t, a)
  BY <1>1, <1>2 DEF SlotOK
<1>20. ~t.fatal => OpsOK(t, V, a)
  BY <1>1, <1>2, <1>4 DEF OpsOK, Pending, InitOps, Reacquiring
<1>21. ~t.fatal => CallOK(t, V, a)
  BY <1>1, <1>2, <1>4 DEF CallOK, Reacquiring
<1>22. ~t.fatal => EndOK(t, a)
  BY <1>1, <1>2 DEF EndOK
<1>23. LogOK(t, l)
  BY <1>1, <1>2, <1>8, <1>10 DEF LogOK
<1>24. RepliesOK(t, V, l)
  <2>1. r.kind = "end_commit" => Of(s.txn, s.produced) \subseteq l.committed
    BY <1>1, <1>8, <1>30 DEF Of
  <2>2. \A p \in V : p # q => p.kind \in {"add_parts", "add_offsets"}
    BY <1>30
  <2>3. \A p \in V : p # q => p.kind # "add_offsets"
    BY <1>10 DEF Has
  <2> QED
    BY <2>1, <2>2, <2>3, <1>1, <1>2, <1>8, <1>3, <1>6, <1>9 DEF RepliesOK, Last
<1>25. PartsOK(t, V, a, l)
  <2>1. \A p \in V : p.kind \in Last => p = q
    BY <1>30 DEF Last
  <2>2. Has(V, "end_commit") => r.kind = "end_commit"
    BY <2>1, <1>3 DEF Has, Last
  <2> QED
    BY <2>1, <2>2, <1>1, <1>2, <1>8, <1>10, <1>30 DEF PartsOK
<1>26. OutcomeOK(t, V, a, l)
  <2>1. (Of(s.txn, s.produced) \subseteq k.written /\ Of(s.txn, k.aborted) = {}) \/ r.kind # "end_commit"
    BY <1>30
  <2>2. \A u \in 1 .. MaxTxns : Of(u, l.committed) # {} => Of(u, s.produced) \subseteq l.committed
    BY <1>1, <1>7, <1>8, <2>1 DEF OutcomeOK, Of, LogOK, Coords
  <2>3. s.txn_state # "COMMIT_NOT_ACKED"
    BY <1>1, <1>9 DEF Reacquiring, Aborting
  <2>4. l.written = k.written /\ (s.txn_state = "COMMITTING_TRANSACTION" => l.aborted = k.aborted)
    BY <1>8, <1>9
  <2> QED
    BY <2>2, <2>3, <2>4, <1>1, <1>2, <1>9, <1>10, <1>8 DEF OutcomeOK, Sending
<1>27. ToldOK(t, a, l, d)
  <2>1. k.committed \subseteq l.committed
    BY <1>8, <1>1 DEF LogOK
  <2> QED
    BY <2>1, <1>1, <1>2, <1>8 DEF ToldOK
<1>28. NoBump => AbortOK(t, V, a, l, d)
  <2> SUFFICES ASSUME NoBump PROVE AbortOK(t, V, a, l, d)
    OBVIOUS
  <2>1. AbortOK(s, W, a, k, d)
    BY <1>1
  <2>2. /\ ~s.fatal /\ r.kind = "end_commit" => s.txn_state = "COMMITTING_TRANSACTION"
        /\ ~s.fatal /\ r.kind = "end_abort" => s.txn_state = "ABORTING_TRANSACTION"
        /\ ~s.fatal /\ r.kind = "init_pid" => s.txn_state = "WAIT_PID" \/ Reacquiring(s)
        /\ s.txn_state \notin {"READY", "ABORT_NOT_ACKED"}
        /\ s.fatal <=> s.txn_state = "FATAL_ERROR"
        /\ s.fatal => ~Returns(a) /\ \A u \in 1 .. MaxTxns : d[u] # "none" => u # s.txn
    <3>1. r.kind \in Allowed(s) /\ s.txn_state \in TxnStates
      BY <1>1 DEF WireOK, Only, ClientOK
    <3>2. s.fatal => ~Returns(a) /\ \A u \in 1 .. MaxTxns : d[u] # "none" => u # s.txn
      BY <1>1 DEF SettledOK
    <3> QED
      BY <3>1, <3>2, <1>9 DEF Allowed, Last, TxnStates, Reacquiring, Aborting
  <2>3. \A u : u # s.txn \/ r.kind # "end_commit" => Of(u, l.committed) = Of(u, k.committed)
    BY <1>1, <1>7, <1>8 DEF Of, LogOK
  <2>4. CommitLost(s, k) => r.kind = "end_commit"
    <3>1. CommitLost(s, k) => k.parts = {} /\ k.last = "end_commit" /\ ~Reacquiring(s) /\ s.txn_state # "WAIT_PID"
                              /\ ~s.fatal
      BY <2>1, <2>2 DEF AbortOK, CommitLost
    <3>2. k.parts = {} => ~k.open
      BY <1>1 DEF LogOK
    <3> QED
      BY <3>1, <3>2, <2>2 DEF Last
  <2>5. CommitLost(t, l) => r.kind = "end_commit" /\ ~s.fatal
    BY <2>2, <2>3, <2>4, <1>2 DEF CommitLost
  <2>6. \A u \in 1 .. MaxTxns : d[u] = "abort" => Of(u, l.committed) = {}
    <3>1. \A u \in 1 .. MaxTxns : d[u] = "abort" => u # s.txn
      BY <2>2, <1>1 DEF ToldOK, ClientOK
    <3> QED
      BY <3>1, <2>1, <2>3 DEF AbortOK
  <2>7. s.txn_state = "COMMITTING_TRANSACTION" => /\ s.queued = {} /\ s.flight = {} /\ s.timedout = {} /\ ~s.bump /\ ~Reacquiring(s)
                                                  /\ s.req_cnt > 0
    BY <2>1, <1>1 DEF QueueOK, StatesOK, Reacquiring, Aborting, AbortOK
  <2>8. \A p \in V : p.reply # "bump"
    BY <2>1, <1>3, <1>6 DEF AbortOK
  <2>9. CommitLost(t, l) =>
          /\ l.parts = {} /\ l.last = "end_commit" /\ t.req_cnt > 0 /\ ~t.bump /\ ~Reacquiring(t)
          /\ t.queued = {} /\ t.flight = {} /\ t.timedout = {} /\ t.txn_state = "COMMITTING_TRANSACTION"
    BY <2>2, <2>5, <2>7, <1>2, <1>8 DEF Reacquiring
  <2> QED
    BY <2>2, <2>6, <2>7, <2>8, <2>9, <1>2 DEF AbortOK, Returns
<1>29. SettledOK(t, V, a, d)
  BY <1>1, <1>2, <1>3, <1>4, <1>5, <1>6, <1>7, <1>8, <1>9, <1>10, <1>13 DEF SettledOK,
  Returns, Spent, Has
<1> QED
  BY <1>29, <1>28, <1>1, <1>2, <1>11, <1>12, <1>13, <1>14, <1>15, <1>16, <1>17, <1>18, <1>19, <1>20, <1>21,
  <1>22, <1>23, <1>24, <1>25, <1>26, <1>27, <1>3, <1>4, <1>5, <1>6, <1>7, <1>8, <1>9, <1>10, <1>30 DEF
  Sound

\* The slot p with the result e.
Answered(p, e) ==
  IF p.name = "none" THEN p
  ELSE [p EXCEPT !.has_result = TRUE, !.error = IF @ # "none" THEN @ ELSE e]

LEMMA AnsweredIs ==
  ASSUME NEW p, ApiOK(p), NEW e \in Errors, p.name # "none"
  PROVE  /\ ApiOK(Answered(p, e)) /\ Answered(p, e).name = p.name
         /\ Answered(p, e).calling = p.calling /\ Answered(p, e).has_result
         /\ Answered(p, e).error # "none" \/ e = "none"
         /\ p.error = "none" => Answered(p, e).error = e
<1>1. Answered(p, e) = [p EXCEPT !.has_result = TRUE, !.error = IF p.error # "none" THEN p.error ELSE e]
  BY DEF Answered
<1> QED
  BY <1>1 DEF ApiOK

LEMMA AcquireSound ==
  ASSUME NEW s, NEW W, NEW a, NEW k, NEW d, Sound(s, W, a, k, d), NEW t,
         Same(s, t, {"idemp_state"}),
         ~s.fatal, s.idemp_state \in Acquiring, t.idemp_state \in Acquiring,
         NEW V, V = {} \/ (t.idemp_state = "WAIT_PID" /\ V = {Request("init_pid", {})})
  PROVE  Sound(t, V, a, k, d)
<1>1. /\ ClientOK(s) /\ s.asserts /\ a \in Apps /\ k \in Coords /\ d \in Tolds /\ AppOK(a)
      /\ StatesOK(s) /\ QueueOK(s, a) /\ WireOK(s, W) /\ ListsOK(s, W) /\ CountOK(s, W, k)
      /\ SlotOK(s, a) /\ LogOK(s, k) /\ RepliesOK(s, W, k) /\ PartsOK(s, W, a, k)
      /\ OutcomeOK(s, W, a, k) /\ ToldOK(s, a, k, d)
      /\ SettledOK(s, W, a, d)
      /\ (NoBump => AbortOK(s, W, a, k, d))
      /\ ~s.fatal => OpsOK(s, W, a) /\ CallOK(s, W, a) /\ EndOK(s, a)
  BY DEF Sound
<1>2. /\ t.txn_state = s.txn_state /\ t.fatal = s.fatal /\ t.txn_err = s.txn_err
      /\ t.bump = s.bump /\ t.req_cnt = s.req_cnt /\ t.may_enq = s.may_enq
      /\ t.dr_fails = s.dr_fails /\ t.pending = s.pending /\ t.waitresp = s.waitresp
      /\ t.rktps = s.rktps /\ t.api = s.api /\ t.ops = s.ops /\ t.offc = s.offc
      /\ t.queued = s.queued /\ t.flight = s.flight /\ t.txn = s.txn /\ t.produced = s.produced
      /\ t.asserts = s.asserts /\ t.timedout = s.timedout /\ DOMAIN t = Fields /\ t.timers \subseteq Timers
  BY DEF Same, Fields, Misc
<1>3. s.txn_state = "WAIT_PID" \/ Reacquiring(s)
  BY <1>1 DEF StatesOK, ClientOK, TxnStates, Reacquiring, Aborting, Acquiring
<1>4. /\ Reacquiring(t) <=> Reacquiring(s)
      /\ s.txn_state \notin Sending /\ s.txn_state # "FATAL_ERROR"
  BY <1>2, <1>3 DEF Reacquiring, Sending, Aborting
<1>5. /\ V \subseteq Requests /\ \A r \in V : r.kind = "init_pid" /\ r.reply = "none"
      /\ \A q, r \in V : q = r
  BY DEF Request, Requests, Kinds, Replies
<1>6. ~Has(W, "add_offsets") /\ ~Has(V, "add_offsets") /\ ~Has(V, "add_parts")
  BY <1>1, <1>3, <1>5 DEF WireOK, Only, Has, Allowed, Reacquiring, Aborting
<1>7. t.idemp_state \in IdempStates
  BY DEF Acquiring, IdempStates
<1>8. ClientOK(t)
  BY <1>1, <1>2, <1>3, <1>4, <1>5, <1>6, <1>7 DEF ClientOK
<1>9. t.asserts
  BY <1>1, <1>2
<1>10. StatesOK(t)
  BY <1>1, <1>2, <1>3, <1>4, <1>5, <1>6, <1>7 DEF StatesOK, Acquiring, Outside, Sending,
  Aborting
<1>11. QueueOK(t, a)
  BY <1>1, <1>2, <1>4 DEF QueueOK
<1>12. WireOK(t, V)
  <2>1. Only(V, Allowed(t))
    BY <1>5, <1>3, <1>4, <1>2 DEF Only, Allowed, Reacquiring, Aborting
  <2> QED
    BY <2>1, <1>1, <1>2, <1>5, <1>3, <1>4 DEF WireOK, Last, Reacquiring, Aborting
<1>13. ListsOK(t, V)
  BY <1>1, <1>2, <1>4 DEF ListsOK
<1>14. CountOK(t, V, k)
  BY <1>1, <1>2, <1>6 DEF CountOK, One, ClientOK
<1>15. SlotOK(t, a)
  BY <1>1, <1>2 DEF SlotOK
<1>16. ~t.fatal => OpsOK(t, V, a)
  BY <1>1, <1>2, <1>4, <1>6 DEF OpsOK, Pending, InitOps
<1>17. ~t.fatal => CallOK(t, V, a)
  BY <1>1, <1>2, <1>4, <1>6 DEF CallOK
<1>18. ~t.fatal => EndOK(t, a)
  BY <1>1, <1>2 DEF EndOK
<1>19. LogOK(t, k)
  BY <1>1, <1>2 DEF LogOK
<1>20. RepliesOK(t, V, k)
  BY <1>1, <1>2, <1>3, <1>4, <1>5, <1>6, <1>7 DEF RepliesOK, Sending, Last, Of
<1>21. PartsOK(t, V, a, k)
  BY <1>1, <1>2, <1>4 DEF PartsOK, Gathering
<1>22. OutcomeOK(t, V, a, k)
  BY <1>1, <1>2, <1>4, <1>6 DEF OutcomeOK
<1>23. ToldOK(t, a, k, d)
  BY <1>1, <1>2 DEF ToldOK
<1>24. NoBump => AbortOK(t, V, a, k, d)
  BY <1>1, <1>2, <1>3, <1>4, <1>5, <1>6, <1>7 DEF AbortOK, CommitLost, Of, Reacquiring, Acquiring, Aborting
<1>25. SettledOK(t, V, a, d)
  BY <1>1, <1>2, <1>3, <1>4, <1>5, <1>6, <1>7 DEF SettledOK
<1> QED
  BY <1>25, <1>24, <1>1, <1>2, <1>8, <1>9, <1>10, <1>11, <1>12, <1>13, <1>14, <1>15, <1>16, <1>17, <1>18,
  <1>19, <1>20, <1>21, <1>22, <1>23, <1>3, <1>4, <1>5, <1>6, <1>7 DEF Sound

LEMMA AssignedSound ==
  ASSUME NEW s, NEW W, NEW a, NEW k, NEW d, Sound(s, W, a, k, d), NEW t,
         Same(s, t, {"txn_state", "idemp_state", "may_enq", "api"}),
         ~s.fatal, s.idemp_state = "WAIT_PID", t.idemp_state = "ASSIGNED", t.may_enq = FALSE,
         NEW r \in W, r.kind = "init_pid", r.reply = "ok",
         t.txn_state = IF s.txn_state = "WAIT_PID" THEN "READY_NOT_ACKED" ELSE "ABORT_NOT_ACKED",
         t.api = Answered(s.api, "none")
  PROVE  Sound(t, {}, a, k, d)
<1>1. /\ ClientOK(s) /\ s.asserts /\ a \in Apps /\ k \in Coords /\ d \in Tolds /\ AppOK(a)
      /\ StatesOK(s) /\ QueueOK(s, a) /\ WireOK(s, W) /\ ListsOK(s, W) /\ CountOK(s, W, k)
      /\ SlotOK(s, a) /\ LogOK(s, k) /\ RepliesOK(s, W, k) /\ PartsOK(s, W, a, k)
      /\ OutcomeOK(s, W, a, k) /\ ToldOK(s, a, k, d)
      /\ SettledOK(s, W, a, d)
      /\ (NoBump => AbortOK(s, W, a, k, d))
      /\ ~s.fatal => OpsOK(s, W, a) /\ CallOK(s, W, a) /\ EndOK(s, a)
  BY DEF Sound
<1>2. /\ t.fatal = s.fatal /\ t.txn_err = s.txn_err /\ t.bump = s.bump /\ t.req_cnt = s.req_cnt
      /\ t.dr_fails = s.dr_fails /\ t.pending = s.pending /\ t.waitresp = s.waitresp
      /\ t.rktps = s.rktps /\ t.ops = s.ops /\ t.offc = s.offc /\ t.queued = s.queued
      /\ t.flight = s.flight /\ t.txn = s.txn /\ t.produced = s.produced
      /\ t.asserts = s.asserts /\ t.timedout = s.timedout /\ DOMAIN t = Fields /\ t.timers \subseteq Timers
  BY DEF Same, Fields, Misc
<1>3. /\ s.txn_state = "WAIT_PID" \/ Reacquiring(s)
      /\ s.txn_state # "WAIT_PID" => s.txn_state \in Aborting
  BY <1>1 DEF StatesOK, ClientOK, TxnStates, Reacquiring, Aborting, Acquiring
<1>4. t.txn_state \in TxnStates /\ t.idemp_state \in IdempStates /\ ~Reacquiring(t)
  BY DEF TxnStates, IdempStates, Reacquiring, Aborting
<1>5. s.api.name # "none" /\ ~s.api.has_result /\ s.api.error = "none"
  BY <1>1, <1>3 DEF CallOK, SlotOK, At, InCall, ClientOK, ApiOK, Reacquiring, Aborting, Apis
<1>6. /\ ApiOK(t.api) /\ t.api.name = s.api.name /\ t.api.calling = s.api.calling
      /\ t.api.has_result /\ t.api.error = "none" /\ s.api.error = "none"
  <2>1. s.api.name # "none" /\ s.api.error = "none" /\ ApiOK(s.api) /\ "none" \in Errors
    BY <1>1, <1>5 DEF ClientOK, Errors
  <2> QED
    BY <2>1, AnsweredIs
<1>7. \A x : ~Has({}, x)
  BY DEF Has
<1>8. k.parts = {}
  BY <1>1 DEF RepliesOK, Last
<1>9. s.offc = "none"
  BY <1>1, <1>3 DEF CallOK, Reacquiring, Aborting
<1>10. ClientOK(t)
  BY <1>1, <1>2, <1>3, <1>4, <1>5, <1>6, <1>7, <1>8, <1>9 DEF ClientOK
<1>11. t.asserts
  BY <1>1, <1>2
<1>12. StatesOK(t)
  BY <1>1, <1>2, <1>3, <1>4, <1>5, <1>6, <1>7, <1>8, <1>9 DEF StatesOK, Acquiring, Outside,
  Sending, Aborting
<1>13. QueueOK(t, a)
  BY <1>1, <1>2, <1>3, <1>4, <1>5, <1>6, <1>7, <1>8, <1>9 DEF QueueOK, Reacquiring, Apps,
  Acquiring, Aborting, StatesOK
<1>14. WireOK(t, {})
  BY <1>3, <1>4, <1>2 DEF WireOK, Only, Has
<1>15. ListsOK(t, {})
  BY <1>1, <1>2, <1>3, <1>4, <1>5, <1>6, <1>7, <1>8, <1>9 DEF ListsOK, Has, Outside, Sending,
  Aborting
<1>16. CountOK(t, {}, k)
  BY <1>1, <1>2, <1>7, <1>3 DEF CountOK, One, ClientOK, Aborting
<1>17. SlotOK(t, a)
  BY <1>1, <1>2, <1>3, <1>4, <1>5, <1>6, <1>7, <1>8, <1>9 DEF SlotOK, InCall, ApiOK, ClientOK,
  Apps
<1>18. ~t.fatal => OpsOK(t, {}, a)
  <2>1. CASE s.txn_state = "WAIT_PID"
    <3>1. s.api.name = "init" /\ a.at # "produce" /\ a.stage <= 1
      BY <2>1, <1>1 DEF CallOK, QueueOK
    <3>2. InCall(a) => a.api = "init" /\ a.stage = 1
      BY <3>1, <1>1 DEF SlotOK, AppOK
    <3>3. InCall(a) => PhaseOf(a) = "init"
      BY <3>2, PhaseIs, <1>1
    <3>4. a.at # "wait" => s.ops = <<>>
      BY <2>1, <1>1 DEF OpsOK, InitOps
    <3>5. a.at = "wait" => s.ops = <<>> \/ s.ops = <<"init">>
      BY <2>1, <3>3, <1>1 DEF OpsOK, InitOps, InCall
    <3>6. a.at \in {"idle", "enter", "wait", "flush", "return"}
      BY <3>1, <1>1 DEF Apps
    <3> QED
      BY <2>1, <3>1, <3>2, <3>4, <3>5, <3>6, <1>2, <1>6 DEF OpsOK, InitOps, At, InCall
  <2>2. CASE s.txn_state # "WAIT_PID"
    <3>1. At(a, "abort", 3, "wait") /\ s.ops = <<>>
      BY <2>2, <1>1, <1>3 DEF CallOK
    <3> QED
      BY <3>1, <1>2, <1>6 DEF OpsOK, At
  <2> QED
    BY <2>1, <2>2
<1>19. ~t.fatal => CallOK(t, {}, a)
  <2>1. s.txn_state = "WAIT_PID" => s.api.name = "init" /\ a.stage <= 1 /\ (a.at = "return" => a.error = "retriable" /\ a.stage = 1)
    BY <1>1 DEF CallOK
  <2>2. a.at = "wait" /\ s.txn_state = "WAIT_PID" => a.stage = 1
    BY <2>1, <1>1 DEF AppOK, InCall
  <2> QED
    BY <2>1, <2>2, <1>2, <1>4, <1>3, <1>6, <1>9, <1>7 DEF CallOK
<1>20. ~t.fatal => EndOK(t, a)
  <2>1. s.txn_state # "WAIT_PID" => At(a, "abort", 3, "wait") /\ s.ops = <<>>
    BY <1>1, <1>3 DEF CallOK
  <2>2. s.txn_state = "WAIT_PID" => a.stage <= 1 /\ (a.stage = 1 => a.api = "init")
    BY <1>1 DEF CallOK, AppOK, SlotOK, InCall
  <2> QED
    BY <2>1, <2>2, <1>1, <1>2, <1>6 DEF EndOK, At
<1>21. LogOK(t, k)
  BY <1>1, <1>2, <1>8, <1>3 DEF LogOK, Outside, Aborting
<1>22. RepliesOK(t, {}, k)
  BY <1>1, <1>2, <1>3, <1>4, <1>5, <1>6, <1>7, <1>8, <1>9 DEF RepliesOK, Sending, Last, Of
<1>23. PartsOK(t, {}, a, k)
  BY <1>1, <1>2, <1>3, <1>4, <1>5, <1>6, <1>7, <1>8, <1>9 DEF PartsOK, Gathering, Sending,
  StatesOK
<1>24. OutcomeOK(t, {}, a, k)
  <2>1. a.at # "produce"
    BY <1>1, <1>3 DEF QueueOK, Reacquiring, Aborting
  <2> QED
    BY <2>1, <1>1, <1>2, <1>9, <1>7 DEF OutcomeOK, Sending
<1>25. ToldOK(t, a, k, d)
  <2>1. s.txn_state \notin {"READY", "FATAL_ERROR"}
    BY <1>3 DEF Aborting
  <2> QED
    BY <2>1, <1>1, <1>2 DEF ToldOK
<1>26. NoBump => AbortOK(t, {}, a, k, d)
  BY <1>1, <1>2, <1>3, <1>4, <1>5, <1>6, <1>7, <1>8, <1>9 DEF AbortOK, CommitLost, Of, Reacquiring, Acquiring, Aborting
<1>27. SettledOK(t, {}, a, d)
  BY <1>1, <1>2, <1>3, <1>4, <1>5, <1>6, <1>7, <1>8, <1>9 DEF SettledOK
<1> QED
  BY <1>27, <1>26, <1>1, <1>2, <1>10, <1>11, <1>12, <1>13, <1>14, <1>15, <1>16, <1>17, <1>18, <1>19, <1>20,
  <1>21, <1>22, <1>23, <1>24, <1>25, <1>3, <1>4, <1>5, <1>6, <1>7, <1>8, <1>9 DEF Sound

LEMMA OutdatedSound ==
  ASSUME NEW s, NEW W, NEW a, NEW k, NEW d, Sound(s, W, a, k, d), NEW t,
         Same(s, t, {"req_cnt"}),
         ~s.fatal, NEW r \in W, r.kind = "add_parts",
         NEW V, V = W \ {r},
         s.txn_state \notin Sending, t.req_cnt = s.req_cnt - 1
  PROVE  Sound(t, V, a, k, d)
<1>1. /\ ClientOK(s) /\ s.asserts /\ a \in Apps /\ k \in Coords /\ d \in Tolds /\ AppOK(a)
      /\ StatesOK(s) /\ QueueOK(s, a) /\ WireOK(s, W) /\ ListsOK(s, W) /\ CountOK(s, W, k)
      /\ SlotOK(s, a) /\ LogOK(s, k) /\ RepliesOK(s, W, k) /\ PartsOK(s, W, a, k)
      /\ OutcomeOK(s, W, a, k) /\ ToldOK(s, a, k, d)
      /\ SettledOK(s, W, a, d)
      /\ (NoBump => AbortOK(s, W, a, k, d))
      /\ ~s.fatal => OpsOK(s, W, a) /\ CallOK(s, W, a) /\ EndOK(s, a)
  BY DEF Sound
<1>2. /\ t.txn_state = s.txn_state /\ t.idemp_state = s.idemp_state /\ t.fatal = s.fatal
      /\ t.txn_err = s.txn_err /\ t.bump = s.bump /\ t.may_enq = s.may_enq
      /\ t.dr_fails = s.dr_fails /\ t.pending = s.pending /\ t.waitresp = s.waitresp
      /\ t.rktps = s.rktps /\ t.api = s.api /\ t.ops = s.ops /\ t.offc = s.offc
      /\ t.queued = s.queued /\ t.flight = s.flight /\ t.txn = s.txn /\ t.produced = s.produced
      /\ t.asserts = s.asserts /\ t.timedout = s.timedout /\ DOMAIN t = Fields /\ t.timers \subseteq Timers
  BY DEF Same, Fields, Misc
<1>3. /\ \A p \in V : p \in W
      /\ \A p \in V : p.kind # "add_parts"
  BY <1>1 DEF WireOK
<1>4. /\ ~Has(V, "add_parts") /\ Has(W, "add_parts")
      /\ \A x : x # "add_parts" => (Has(V, x) <=> Has(W, x))
  BY <1>3 DEF Has
<1>5. s.txn_state \notin Outside
  BY <1>1 DEF WireOK, Only, Allowed, Reacquiring, Aborting, Outside
<1>6. ClientOK(t)
  BY <1>1, <1>2, <1>3, <1>4, <1>5 DEF ClientOK
<1>7. t.asserts
  BY <1>1, <1>2
<1>8. StatesOK(t)
  BY <1>1, <1>2 DEF StatesOK
<1>9. QueueOK(t, a)
  BY <1>1, <1>2 DEF QueueOK, Reacquiring
<1>10. WireOK(t, V)
  <2>1. Allowed(t) = Allowed(s) /\ (Reacquiring(t) <=> Reacquiring(s))
    BY <1>2 DEF Allowed, Reacquiring
  <2>2. Only(V, Allowed(s))
    BY <1>1, <1>3 DEF WireOK, Only
  <2>3. W = {} => V = {}
    BY <1>3
  <2> QED
    BY <2>1, <2>2, <2>3, <1>1, <1>2, <1>3, <1>4 DEF WireOK
<1>11. ListsOK(t, V)
  BY <1>1, <1>2, <1>5 DEF ListsOK
<1>12. CountOK(t, V, k)
  <2> DEFINE P == One(~s.fatal /\ s.rktps # {})
  <2> DEFINE Q == One(~s.fatal /\ (s.offc # "none" \/ <<s.txn, OFF>> \in k.written))
  <2> DEFINE P1 == One(~t.fatal /\ t.rktps # {})
  <2> DEFINE Q1 == One(~t.fatal /\ (t.offc # "none" \/ <<t.txn, OFF>> \in k.written))
  <2>1. /\ One(Has(W, "add_parts")) = 1 /\ One(Has(V, "add_parts")) = 0
        /\ One(Has(V, "add_offsets")) = One(Has(W, "add_offsets")) /\ One(Has(W, "add_offsets")) \in 0 .. 1
    BY <1>4 DEF One
  <2>2. P \in 0 .. 1 /\ Q \in 0 .. 1 /\ P1 \in 0 .. 1 /\ Q1 \in 0 .. 1
    BY DEF One
  <2>3. P1 = P /\ Q1 = Q
    BY <1>2 DEF One
  <2>4. s.req_cnt \in Int /\ s.req_cnt >= One(Has(W, "add_parts")) + One(Has(W, "add_offsets")) + P + Q
    BY <1>1, <1>5 DEF CountOK, ClientOK, Outside
  <2> HIDE DEF P, Q, P1, Q1
  <2>5. t.req_cnt >= One(Has(V, "add_parts")) + One(Has(V, "add_offsets")) + P1 + Q1
    BY <2>1, <2>2, <2>3, <2>4, <1>2
  <2> QED
    BY <2>5 DEF CountOK, P1, Q1
<1>13. SlotOK(t, a)
  BY <1>1, <1>2 DEF SlotOK
<1>14. ~t.fatal => OpsOK(t, V, a)
  BY <1>1, <1>2, <1>4 DEF OpsOK, Pending, InitOps, Reacquiring
<1>15. ~t.fatal => CallOK(t, V, a)
  BY <1>1, <1>2, <1>4 DEF CallOK, Reacquiring
<1>16. ~t.fatal => EndOK(t, a)
  BY <1>1, <1>2 DEF EndOK
<1>17. LogOK(t, k)
  BY <1>1, <1>2 DEF LogOK
<1>18. RepliesOK(t, V, k)
  BY <1>1, <1>2, <1>3 DEF RepliesOK
<1>19. PartsOK(t, V, a, k)
  BY <1>1, <1>2, <1>3, <1>4, <1>5 DEF PartsOK, Gathering, Sending
<1>20. OutcomeOK(t, V, a, k)
  BY <1>1, <1>2, <1>4 DEF OutcomeOK
<1>21. ToldOK(t, a, k, d)
  BY <1>1, <1>2 DEF ToldOK
<1>22. NoBump => AbortOK(t, V, a, k, d)
  <2>1. NoBump => ~CommitLost(s, k) /\ s.txn_state # "COMMITTING_TRANSACTION"
    BY <1>1 DEF AbortOK, CommitLost, WireOK, Only, Allowed
  <2> QED
    BY <2>1, <1>1, <1>2, <1>3 DEF AbortOK, CommitLost
<1>23. SettledOK(t, V, a, d)
  BY <1>1, <1>2, <1>3, <1>4, <1>5 DEF SettledOK
<1> QED
  BY <1>23, <1>22, <1>1, <1>2, <1>6, <1>7, <1>8, <1>9, <1>10, <1>11, <1>12, <1>13, <1>14, <1>15, <1>16,
  <1>17, <1>18, <1>19, <1>20, <1>21, <1>3, <1>4, <1>5 DEF Sound

LEMMA RequeueSound ==
  ASSUME NEW s, NEW W, NEW a, NEW k, NEW d, Sound(s, W, a, k, d), NEW t,
         Same(s, t, {"pending", "waitresp"}),
         ~s.fatal, NEW r \in W, r.kind = "add_parts",
         NEW V, V = W \ {r},
         t.pending = s.pending \cup s.waitresp, t.waitresp = {}
  PROVE  Sound(t, V, a, k, d)
<1>1. /\ ClientOK(s) /\ s.asserts /\ a \in Apps /\ k \in Coords /\ d \in Tolds /\ AppOK(a)
      /\ StatesOK(s) /\ QueueOK(s, a) /\ WireOK(s, W) /\ ListsOK(s, W) /\ CountOK(s, W, k)
      /\ SlotOK(s, a) /\ LogOK(s, k) /\ RepliesOK(s, W, k) /\ PartsOK(s, W, a, k)
      /\ OutcomeOK(s, W, a, k) /\ ToldOK(s, a, k, d)
      /\ SettledOK(s, W, a, d)
      /\ (NoBump => AbortOK(s, W, a, k, d))
      /\ ~s.fatal => OpsOK(s, W, a) /\ CallOK(s, W, a) /\ EndOK(s, a)
  BY DEF Sound
<1>2. /\ t.txn_state = s.txn_state /\ t.idemp_state = s.idemp_state /\ t.fatal = s.fatal
      /\ t.txn_err = s.txn_err /\ t.bump = s.bump /\ t.req_cnt = s.req_cnt
      /\ t.may_enq = s.may_enq /\ t.dr_fails = s.dr_fails /\ t.rktps = s.rktps /\ t.api = s.api
      /\ t.ops = s.ops /\ t.offc = s.offc /\ t.queued = s.queued /\ t.flight = s.flight
      /\ t.txn = s.txn /\ t.produced = s.produced /\ t.asserts = s.asserts /\ t.timedout = s.timedout /\ DOMAIN t = Fields
      /\ t.timers \subseteq Timers
  BY DEF Same, Fields, Misc
<1>3. /\ \A p \in V : p \in W
      /\ \A p \in V : p.kind # "add_parts"
  BY <1>1 DEF WireOK
<1>4. /\ ~Has(V, "add_parts") /\ Has(W, "add_parts")
      /\ \A x : x # "add_parts" => (Has(V, x) <=> Has(W, x))
  BY <1>3 DEF Has
<1>5. s.txn_state \notin Outside
  BY <1>1 DEF WireOK, Only, Allowed, Reacquiring, Aborting, Outside
<1>6. ClientOK(t)
  BY <1>1, <1>2, <1>3, <1>4, <1>5 DEF ClientOK
<1>7. t.asserts
  BY <1>1, <1>2
<1>8. StatesOK(t)
  BY <1>1, <1>2 DEF StatesOK
<1>9. QueueOK(t, a)
  BY <1>1, <1>2 DEF QueueOK, Reacquiring
<1>10. WireOK(t, V)
  <2>1. Allowed(t) = Allowed(s) /\ (Reacquiring(t) <=> Reacquiring(s))
    BY <1>2 DEF Allowed, Reacquiring
  <2>2. Only(V, Allowed(s))
    BY <1>1, <1>3 DEF WireOK, Only
  <2>3. W = {} => V = {}
    BY <1>3
  <2> QED
    BY <2>1, <2>2, <2>3, <1>1, <1>2, <1>3, <1>4 DEF WireOK
<1>11. ListsOK(t, V)
  BY <1>1, <1>2, <1>5, <1>3 DEF ListsOK
<1>12. CountOK(t, V, k)
  <2> DEFINE P == One(~s.fatal /\ s.rktps # {})
  <2> DEFINE Q == One(~s.fatal /\ (s.offc # "none" \/ <<s.txn, OFF>> \in k.written))
  <2> DEFINE P1 == One(~t.fatal /\ t.rktps # {})
  <2> DEFINE Q1 == One(~t.fatal /\ (t.offc # "none" \/ <<t.txn, OFF>> \in k.written))
  <2>1. /\ One(Has(W, "add_parts")) = 1 /\ One(Has(V, "add_parts")) = 0
        /\ One(Has(V, "add_offsets")) = One(Has(W, "add_offsets")) /\ One(Has(W, "add_offsets")) \in 0 .. 1
    BY <1>4 DEF One
  <2>2. P \in 0 .. 1 /\ Q \in 0 .. 1 /\ P1 \in 0 .. 1 /\ Q1 \in 0 .. 1
    BY DEF One
  <2>3. P1 = P /\ Q1 = Q
    BY <1>2 DEF One
  <2>4. s.req_cnt \in Int /\ s.req_cnt >= One(Has(W, "add_parts")) + One(Has(W, "add_offsets")) + P + Q
    BY <1>1, <1>5 DEF CountOK, ClientOK, Outside
  <2> HIDE DEF P, Q, P1, Q1
  <2>5. t.req_cnt >= One(Has(V, "add_parts")) + One(Has(V, "add_offsets")) + P1 + Q1
    BY <2>1, <2>2, <2>3, <2>4, <1>2
  <2> QED
    BY <2>5 DEF CountOK, P1, Q1
<1>13. SlotOK(t, a)
  BY <1>1, <1>2 DEF SlotOK
<1>14. ~t.fatal => OpsOK(t, V, a)
  BY <1>1, <1>2, <1>4 DEF OpsOK, Pending, InitOps, Reacquiring
<1>15. ~t.fatal => CallOK(t, V, a)
  BY <1>1, <1>2, <1>4 DEF CallOK, Reacquiring
<1>16. ~t.fatal => EndOK(t, a)
  BY <1>1, <1>2 DEF EndOK
<1>17. LogOK(t, k)
  BY <1>1, <1>2 DEF LogOK
<1>18. RepliesOK(t, V, k)
  BY <1>1, <1>2, <1>3 DEF RepliesOK
<1>19. PartsOK(t, V, a, k)
  BY <1>1, <1>2, <1>3, <1>4, <1>5 DEF PartsOK, Gathering, Sending
<1>20. OutcomeOK(t, V, a, k)
  BY <1>1, <1>2, <1>4 DEF OutcomeOK
<1>21. ToldOK(t, a, k, d)
  BY <1>1, <1>2 DEF ToldOK
<1>22. NoBump => AbortOK(t, V, a, k, d)
  BY <1>1, <1>2, <1>3, <1>4, <1>5 DEF AbortOK, CommitLost, Of, Reacquiring, Acquiring, Aborting
<1>23. SettledOK(t, V, a, d)
  BY <1>1, <1>2, <1>3, <1>4, <1>5 DEF SettledOK
<1> QED
  BY <1>23, <1>22, <1>1, <1>2, <1>6, <1>7, <1>8, <1>9, <1>10, <1>11, <1>12, <1>13, <1>14, <1>15, <1>16,
  <1>17, <1>18, <1>19, <1>20, <1>21, <1>3, <1>4, <1>5 DEF Sound

LEMMA RegisteredOkSound ==
  ASSUME NEW s, NEW W, NEW a, NEW k, NEW d, Sound(s, W, a, k, d), NEW t,
         Same(s, t, {"rktps", "waitresp"}),
         ~s.fatal, NEW r \in W, r.kind = "add_parts",
         NEW V, V = W \ {r},
         s.txn_state \in Sending, r.reply = "ok", t.rktps = s.rktps \cup s.waitresp, t.waitresp = {}
  PROVE  Sound(t, V, a, k, d)
<1>1. /\ ClientOK(s) /\ s.asserts /\ a \in Apps /\ k \in Coords /\ d \in Tolds /\ AppOK(a)
      /\ StatesOK(s) /\ QueueOK(s, a) /\ WireOK(s, W) /\ ListsOK(s, W) /\ CountOK(s, W, k)
      /\ SlotOK(s, a) /\ LogOK(s, k) /\ RepliesOK(s, W, k) /\ PartsOK(s, W, a, k)
      /\ OutcomeOK(s, W, a, k) /\ ToldOK(s, a, k, d)
      /\ SettledOK(s, W, a, d)
      /\ (NoBump => AbortOK(s, W, a, k, d))
      /\ ~s.fatal => OpsOK(s, W, a) /\ CallOK(s, W, a) /\ EndOK(s, a)
  BY DEF Sound
<1>2. /\ t.txn_state = s.txn_state /\ t.idemp_state = s.idemp_state /\ t.fatal = s.fatal
      /\ t.txn_err = s.txn_err /\ t.bump = s.bump /\ t.req_cnt = s.req_cnt
      /\ t.may_enq = s.may_enq /\ t.dr_fails = s.dr_fails /\ t.pending = s.pending
      /\ t.api = s.api /\ t.ops = s.ops /\ t.offc = s.offc /\ t.queued = s.queued
      /\ t.flight = s.flight /\ t.txn = s.txn /\ t.produced = s.produced
      /\ t.asserts = s.asserts /\ t.timedout = s.timedout /\ DOMAIN t = Fields /\ t.timers \subseteq Timers
  BY DEF Same, Fields, Misc
<1>3. /\ \A p \in V : p \in W
      /\ \A p \in V : p.kind # "add_parts"
  BY <1>1 DEF WireOK
<1>4. /\ ~Has(V, "add_parts") /\ Has(W, "add_parts")
      /\ \A x : x # "add_parts" => (Has(V, x) <=> Has(W, x))
  BY <1>3 DEF Has
<1>5. s.txn_state \notin Outside
  BY <1>1 DEF WireOK, Only, Allowed, Reacquiring, Aborting, Outside
<1>6. r.parts = s.waitresp /\ (k.fenced \/ s.waitresp \subseteq k.parts) /\ s.waitresp # {}
  BY <1>1 DEF ListsOK, RepliesOK, WireOK
<1>7. ClientOK(t)
  BY <1>1, <1>2, <1>3, <1>4, <1>5, <1>6 DEF ClientOK
<1>8. t.asserts
  BY <1>1, <1>2
<1>9. StatesOK(t)
  BY <1>1, <1>2 DEF StatesOK
<1>10. QueueOK(t, a)
  BY <1>1, <1>2 DEF QueueOK, Reacquiring
<1>11. WireOK(t, V)
  <2>1. Allowed(t) = Allowed(s) /\ (Reacquiring(t) <=> Reacquiring(s))
    BY <1>2 DEF Allowed, Reacquiring
  <2>2. Only(V, Allowed(s))
    BY <1>1, <1>3 DEF WireOK, Only
  <2>3. W = {} => V = {}
    BY <1>3
  <2> QED
    BY <2>1, <2>2, <2>3, <1>1, <1>2, <1>3, <1>4 DEF WireOK
<1>12. ListsOK(t, V)
  BY <1>1, <1>2, <1>5, <1>3 DEF ListsOK
<1>13. CountOK(t, V, k)
  <2> DEFINE P == One(~s.fatal /\ s.rktps # {})
  <2> DEFINE Q == One(~s.fatal /\ (s.offc # "none" \/ <<s.txn, OFF>> \in k.written))
  <2> DEFINE P1 == One(~t.fatal /\ t.rktps # {})
  <2> DEFINE Q1 == One(~t.fatal /\ (t.offc # "none" \/ <<t.txn, OFF>> \in k.written))
  <2>1. /\ One(Has(W, "add_parts")) = 1 /\ One(Has(V, "add_parts")) = 0
        /\ One(Has(V, "add_offsets")) = One(Has(W, "add_offsets")) /\ One(Has(W, "add_offsets")) \in 0 .. 1
    BY <1>4 DEF One
  <2>2. P \in 0 .. 1 /\ Q \in 0 .. 1 /\ P1 \in 0 .. 1 /\ Q1 \in 0 .. 1
    BY DEF One
  <2>3. P1 <= P + 1 /\ Q1 = Q
    BY <1>2, <1>6 DEF One
  <2>4. s.req_cnt \in Int /\ s.req_cnt >= One(Has(W, "add_parts")) + One(Has(W, "add_offsets")) + P + Q
    BY <1>1, <1>5 DEF CountOK, ClientOK, Outside
  <2> HIDE DEF P, Q, P1, Q1
  <2>5. t.req_cnt >= One(Has(V, "add_parts")) + One(Has(V, "add_offsets")) + P1 + Q1
    BY <2>1, <2>2, <2>3, <2>4, <1>2
  <2> QED
    BY <2>5 DEF CountOK, P1, Q1
<1>14. SlotOK(t, a)
  BY <1>1, <1>2 DEF SlotOK
<1>15. ~t.fatal => OpsOK(t, V, a)
  BY <1>1, <1>2, <1>4 DEF OpsOK, Pending, InitOps, Reacquiring
<1>16. ~t.fatal => CallOK(t, V, a)
  BY <1>1, <1>2, <1>4 DEF CallOK, Reacquiring
<1>17. ~t.fatal => EndOK(t, a)
  BY <1>1, <1>2 DEF EndOK
<1>18. LogOK(t, k)
  BY <1>1, <1>2, <1>5 DEF LogOK
<1>19. RepliesOK(t, V, k)
  BY <1>1, <1>2, <1>3 DEF RepliesOK
<1>20. PartsOK(t, V, a, k)
  BY <1>1, <1>2, <1>6, <1>3 DEF PartsOK, Gathering
<1>21. OutcomeOK(t, V, a, k)
  BY <1>1, <1>2, <1>4 DEF OutcomeOK
<1>22. ToldOK(t, a, k, d)
  BY <1>1, <1>2 DEF ToldOK
<1>23. NoBump => AbortOK(t, V, a, k, d)
  BY <1>1, <1>2, <1>3, <1>4, <1>5, <1>6 DEF AbortOK, CommitLost, Of, Reacquiring, Acquiring, Aborting
<1>24. SettledOK(t, V, a, d)
  BY <1>1, <1>2, <1>3, <1>4, <1>5, <1>6 DEF SettledOK
<1> QED
  BY <1>24, <1>23, <1>1, <1>2, <1>7, <1>8, <1>9, <1>10, <1>11, <1>12, <1>13, <1>14, <1>15, <1>16, <1>17,
  <1>18, <1>19, <1>20, <1>21, <1>22, <1>3, <1>4, <1>5, <1>6 DEF Sound

LEMMA OffsetsAddedSound ==
  ASSUME NEW s, NEW W, NEW a, NEW k, NEW d, Sound(s, W, a, k, d), NEW t,
         Same(s, t, {"offc"}),
         ~s.fatal, NEW r \in W, r.kind = "add_offsets",
         NEW V, V = W \ {r},
         r.reply = "ok", t.offc = "request"
  PROVE  Sound(t, V, a, k, d)
<1>1. /\ ClientOK(s) /\ s.asserts /\ a \in Apps /\ k \in Coords /\ d \in Tolds /\ AppOK(a)
      /\ StatesOK(s) /\ QueueOK(s, a) /\ WireOK(s, W) /\ ListsOK(s, W) /\ CountOK(s, W, k)
      /\ SlotOK(s, a) /\ LogOK(s, k) /\ RepliesOK(s, W, k) /\ PartsOK(s, W, a, k)
      /\ OutcomeOK(s, W, a, k) /\ ToldOK(s, a, k, d)
      /\ SettledOK(s, W, a, d)
      /\ (NoBump => AbortOK(s, W, a, k, d))
      /\ ~s.fatal => OpsOK(s, W, a) /\ CallOK(s, W, a) /\ EndOK(s, a)
  BY DEF Sound
<1>2. /\ t.txn_state = s.txn_state /\ t.idemp_state = s.idemp_state /\ t.fatal = s.fatal
      /\ t.txn_err = s.txn_err /\ t.bump = s.bump /\ t.req_cnt = s.req_cnt
      /\ t.may_enq = s.may_enq /\ t.dr_fails = s.dr_fails /\ t.pending = s.pending
      /\ t.waitresp = s.waitresp /\ t.rktps = s.rktps /\ t.api = s.api /\ t.ops = s.ops
      /\ t.queued = s.queued /\ t.flight = s.flight /\ t.txn = s.txn /\ t.produced = s.produced
      /\ t.asserts = s.asserts /\ t.timedout = s.timedout /\ DOMAIN t = Fields /\ t.timers \subseteq Timers
  BY DEF Same, Fields, Misc
<1>3. /\ \A p \in V : p \in W
      /\ \A p \in V : p.kind # "add_offsets"
  BY <1>1 DEF WireOK
<1>4. /\ ~Has(V, "add_offsets") /\ Has(W, "add_offsets")
      /\ \A x : x # "add_offsets" => (Has(V, x) <=> Has(W, x))
  BY <1>3 DEF Has
<1>5. /\ s.txn_state \in {"IN_TRANSACTION", "ABORTABLE_ERROR"} /\ At(a, "offsets", 1, "wait")
      /\ s.ops = <<>> /\ ~s.api.has_result /\ s.offc = "none" /\ s.txn_state \notin Outside
  BY <1>1, <1>4 DEF CallOK, Outside
<1>6. (k.fenced \/ OFF \in k.parts) /\ Of(s.txn, k.committed) = {}
  BY <1>1, <1>4 DEF RepliesOK, WireOK, OutcomeOK
<1>7. ClientOK(t)
  BY <1>1, <1>2, <1>3, <1>4, <1>5, <1>6 DEF ClientOK
<1>8. t.asserts
  BY <1>1, <1>2
<1>9. StatesOK(t)
  BY <1>1, <1>2 DEF StatesOK
<1>10. QueueOK(t, a)
  BY <1>1, <1>2 DEF QueueOK, Reacquiring
<1>11. WireOK(t, V)
  <2>1. Allowed(t) = Allowed(s) /\ (Reacquiring(t) <=> Reacquiring(s))
    BY <1>2 DEF Allowed, Reacquiring
  <2>2. Only(V, Allowed(s))
    BY <1>1, <1>3 DEF WireOK, Only
  <2>3. W = {} => V = {}
    BY <1>3
  <2> QED
    BY <2>1, <2>2, <2>3, <1>1, <1>2, <1>3, <1>4 DEF WireOK
<1>12. ListsOK(t, V)
  BY <1>1, <1>2, <1>5, <1>3, <1>4 DEF ListsOK
<1>13. CountOK(t, V, k)
  <2> DEFINE P == One(~s.fatal /\ s.rktps # {})
  <2> DEFINE Q == One(~s.fatal /\ (s.offc # "none" \/ <<s.txn, OFF>> \in k.written))
  <2> DEFINE P1 == One(~t.fatal /\ t.rktps # {})
  <2> DEFINE Q1 == One(~t.fatal /\ (t.offc # "none" \/ <<t.txn, OFF>> \in k.written))
  <2>1. /\ One(Has(W, "add_offsets")) = 1 /\ One(Has(V, "add_offsets")) = 0
        /\ One(Has(V, "add_parts")) = One(Has(W, "add_parts")) /\ One(Has(W, "add_parts")) \in 0 .. 1
    BY <1>4 DEF One
  <2>2. P \in 0 .. 1 /\ Q \in 0 .. 1 /\ P1 \in 0 .. 1 /\ Q1 \in 0 .. 1
    BY DEF One
  <2>3. P1 = P /\ Q1 <= Q + 1
    BY <1>2, <1>5 DEF One
  <2>4. s.req_cnt \in Int /\ s.req_cnt >= One(Has(W, "add_parts")) + One(Has(W, "add_offsets")) + P + Q
    BY <1>1, <1>5 DEF CountOK, ClientOK, Outside
  <2> HIDE DEF P, Q, P1, Q1
  <2>5. t.req_cnt >= One(Has(V, "add_parts")) + One(Has(V, "add_offsets")) + P1 + Q1
    BY <2>1, <2>2, <2>3, <2>4, <1>2
  <2> QED
    BY <2>5 DEF CountOK, P1, Q1
<1>14. SlotOK(t, a)
  BY <1>1, <1>2 DEF SlotOK
<1>15. ~t.fatal => OpsOK(t, V, a)
  BY <1>1, <1>2, <1>4, <1>5 DEF OpsOK, Pending, At
<1>16. ~t.fatal => CallOK(t, V, a)
  BY <1>1, <1>2, <1>4, <1>5 DEF CallOK, Reacquiring, Aborting
<1>17. ~t.fatal => EndOK(t, a)
  BY <1>1, <1>2 DEF EndOK
<1>18. LogOK(t, k)
  BY <1>1, <1>2 DEF LogOK
<1>19. RepliesOK(t, V, k)
  BY <1>1, <1>2, <1>3 DEF RepliesOK
<1>20. PartsOK(t, V, a, k)
  BY <1>1, <1>2, <1>6 DEF PartsOK, Gathering
<1>21. OutcomeOK(t, V, a, k)
  BY <1>1, <1>2, <1>4, <1>6 DEF OutcomeOK
<1>22. ToldOK(t, a, k, d)
  BY <1>1, <1>2 DEF ToldOK
<1>23. NoBump => AbortOK(t, V, a, k, d)
  BY <1>1, <1>2, <1>3, <1>4, <1>5, <1>6 DEF AbortOK, CommitLost, Of, Reacquiring, Acquiring, Aborting
<1>24. SettledOK(t, V, a, d)
  BY <1>1, <1>2, <1>3, <1>4, <1>5, <1>6 DEF SettledOK
<1> QED
  BY <1>24, <1>23, <1>1, <1>2, <1>7, <1>8, <1>9, <1>10, <1>11, <1>12, <1>13, <1>14, <1>15, <1>16, <1>17,
  <1>18, <1>19, <1>20, <1>21, <1>22, <1>3, <1>4, <1>5, <1>6 DEF Sound

LEMMA OffsetsDoneSound ==
  ASSUME NEW s, NEW W, NEW a, NEW k, NEW d, Sound(s, W, a, k, d), NEW t,
         Same(s, t, {"req_cnt", "api"}),
         ~s.fatal, NEW r \in W, r.kind = "add_offsets",
         NEW V, V = W \ {r},
         t.req_cnt \in Int, t.req_cnt >= s.req_cnt - 1, NEW e \in Errors, t.api = Answered(s.api, e)
  PROVE  Sound(t, V, a, k, d)
<1>1. /\ ClientOK(s) /\ s.asserts /\ a \in Apps /\ k \in Coords /\ d \in Tolds /\ AppOK(a)
      /\ StatesOK(s) /\ QueueOK(s, a) /\ WireOK(s, W) /\ ListsOK(s, W) /\ CountOK(s, W, k)
      /\ SlotOK(s, a) /\ LogOK(s, k) /\ RepliesOK(s, W, k) /\ PartsOK(s, W, a, k)
      /\ OutcomeOK(s, W, a, k) /\ ToldOK(s, a, k, d)
      /\ SettledOK(s, W, a, d)
      /\ (NoBump => AbortOK(s, W, a, k, d))
      /\ ~s.fatal => OpsOK(s, W, a) /\ CallOK(s, W, a) /\ EndOK(s, a)
  BY DEF Sound
<1>2. /\ t.txn_state = s.txn_state /\ t.idemp_state = s.idemp_state /\ t.fatal = s.fatal
      /\ t.txn_err = s.txn_err /\ t.bump = s.bump /\ t.may_enq = s.may_enq
      /\ t.dr_fails = s.dr_fails /\ t.pending = s.pending /\ t.waitresp = s.waitresp
      /\ t.rktps = s.rktps /\ t.ops = s.ops /\ t.offc = s.offc /\ t.queued = s.queued
      /\ t.flight = s.flight /\ t.txn = s.txn /\ t.produced = s.produced
      /\ t.asserts = s.asserts /\ t.timedout = s.timedout /\ DOMAIN t = Fields /\ t.timers \subseteq Timers
  BY DEF Same, Fields, Misc
<1>3. /\ \A p \in V : p \in W
      /\ \A p \in V : p.kind # "add_offsets"
  BY <1>1 DEF WireOK
<1>4. /\ ~Has(V, "add_offsets") /\ Has(W, "add_offsets")
      /\ \A x : x # "add_offsets" => (Has(V, x) <=> Has(W, x))
  BY <1>3 DEF Has
<1>5. /\ s.txn_state \in {"IN_TRANSACTION", "ABORTABLE_ERROR"} /\ At(a, "offsets", 1, "wait")
      /\ s.ops = <<>> /\ ~s.api.has_result /\ s.offc = "none" /\ s.txn_state \notin Outside
  BY <1>1, <1>4 DEF CallOK, Outside
<1>6. /\ ApiOK(t.api) /\ t.api.name = s.api.name /\ t.api.calling = s.api.calling
      /\ t.api.has_result /\ t.api.error = e /\ s.api.error = "none"
  <2>1. s.api.name # "none" /\ s.api.error = "none" /\ ApiOK(s.api) /\ e \in Errors
    BY <1>1, <1>5 DEF ClientOK, SlotOK, Apis, AppOK, At, InCall
  <2> QED
    BY <2>1, AnsweredIs
<1>7. ClientOK(t)
  BY <1>1, <1>2, <1>3, <1>4, <1>5, <1>6 DEF ClientOK
<1>8. t.asserts
  BY <1>1, <1>2
<1>9. StatesOK(t)
  BY <1>1, <1>2 DEF StatesOK
<1>10. QueueOK(t, a)
  BY <1>1, <1>2 DEF QueueOK, Reacquiring
<1>11. WireOK(t, V)
  <2>1. Allowed(t) = Allowed(s) /\ (Reacquiring(t) <=> Reacquiring(s))
    BY <1>2 DEF Allowed, Reacquiring
  <2>2. Only(V, Allowed(s))
    BY <1>1, <1>3 DEF WireOK, Only
  <2>3. W = {} => V = {}
    BY <1>3
  <2> QED
    BY <2>1, <2>2, <2>3, <1>1, <1>2, <1>3, <1>4 DEF WireOK
<1>12. ListsOK(t, V)
  BY <1>1, <1>2, <1>5, <1>3, <1>4 DEF ListsOK
<1>13. CountOK(t, V, k)
  <2> DEFINE P == One(~s.fatal /\ s.rktps # {})
  <2> DEFINE Q == One(~s.fatal /\ (s.offc # "none" \/ <<s.txn, OFF>> \in k.written))
  <2> DEFINE P1 == One(~t.fatal /\ t.rktps # {})
  <2> DEFINE Q1 == One(~t.fatal /\ (t.offc # "none" \/ <<t.txn, OFF>> \in k.written))
  <2>1. /\ One(Has(W, "add_offsets")) = 1 /\ One(Has(V, "add_offsets")) = 0
        /\ One(Has(V, "add_parts")) = One(Has(W, "add_parts")) /\ One(Has(W, "add_parts")) \in 0 .. 1
    BY <1>4 DEF One
  <2>2. P \in 0 .. 1 /\ Q \in 0 .. 1 /\ P1 \in 0 .. 1 /\ Q1 \in 0 .. 1
    BY DEF One
  <2>3. P1 = P /\ Q1 = Q
    BY <1>2 DEF One
  <2>4. s.req_cnt \in Int /\ s.req_cnt >= One(Has(W, "add_parts")) + One(Has(W, "add_offsets")) + P + Q
    BY <1>1, <1>5 DEF CountOK, ClientOK, Outside
  <2> HIDE DEF P, Q, P1, Q1
  <2>5. t.req_cnt >= One(Has(V, "add_parts")) + One(Has(V, "add_offsets")) + P1 + Q1
    BY <2>1, <2>2, <2>3, <2>4, <1>2
  <2> QED
    BY <2>5 DEF CountOK, P1, Q1
<1>14. SlotOK(t, a)
  BY <1>1, <1>2, <1>6, <1>5 DEF SlotOK, InCall, At
<1>15. ~t.fatal => OpsOK(t, V, a)
  BY <1>1, <1>2, <1>6, <1>5 DEF OpsOK, Pending, At
<1>16. ~t.fatal => CallOK(t, V, a)
  BY <1>1, <1>2, <1>4, <1>5 DEF CallOK, Reacquiring, Aborting
<1>17. ~t.fatal => EndOK(t, a)
  BY <1>1, <1>2, <1>5 DEF EndOK, At
<1>18. LogOK(t, k)
  BY <1>1, <1>2 DEF LogOK
<1>19. RepliesOK(t, V, k)
  BY <1>1, <1>2, <1>3 DEF RepliesOK
<1>20. PartsOK(t, V, a, k)
  BY <1>1, <1>2, <1>3, <1>4, <1>5, <1>6 DEF PartsOK, Gathering, Sending
<1>21. OutcomeOK(t, V, a, k)
  BY <1>1, <1>2, <1>4 DEF OutcomeOK
<1>22. ToldOK(t, a, k, d)
  BY <1>1, <1>2, <1>5 DEF ToldOK, At
<1>23. NoBump => AbortOK(t, V, a, k, d)
  BY <1>1, <1>2, <1>3, <1>4, <1>5, <1>6 DEF AbortOK, CommitLost, Of, Reacquiring, Acquiring, Aborting
<1>24. SettledOK(t, V, a, d)
  BY <1>1, <1>2, <1>3, <1>4, <1>5, <1>6 DEF SettledOK
<1> QED
  BY <1>24, <1>23, <1>1, <1>2, <1>7, <1>8, <1>9, <1>10, <1>11, <1>12, <1>13, <1>14, <1>15, <1>16, <1>17,
  <1>18, <1>19, <1>20, <1>21, <1>22, <1>3, <1>4, <1>5, <1>6 DEF Sound

LEMMA OffcSound ==
  ASSUME NEW s, NEW W, NEW a, NEW k, NEW d, Sound(s, W, a, k, d), NEW t,
         Same(s, t, {"offc"}),
         s.offc # "none", t.offc \in {"request", "sent"}
  PROVE  Sound(t, W, a, k, d)
<1>1. /\ ClientOK(s) /\ s.asserts /\ a \in Apps /\ k \in Coords /\ d \in Tolds /\ AppOK(a)
      /\ StatesOK(s) /\ QueueOK(s, a) /\ WireOK(s, W) /\ ListsOK(s, W) /\ CountOK(s, W, k)
      /\ SlotOK(s, a) /\ LogOK(s, k) /\ RepliesOK(s, W, k) /\ PartsOK(s, W, a, k)
      /\ OutcomeOK(s, W, a, k) /\ ToldOK(s, a, k, d)
      /\ SettledOK(s, W, a, d)
      /\ (NoBump => AbortOK(s, W, a, k, d))
      /\ ~s.fatal => OpsOK(s, W, a) /\ CallOK(s, W, a) /\ EndOK(s, a)
  BY DEF Sound
<1>2. /\ t.txn_state = s.txn_state /\ t.idemp_state = s.idemp_state /\ t.fatal = s.fatal
      /\ t.txn_err = s.txn_err /\ t.bump = s.bump /\ t.req_cnt = s.req_cnt
      /\ t.may_enq = s.may_enq /\ t.dr_fails = s.dr_fails /\ t.pending = s.pending
      /\ t.waitresp = s.waitresp /\ t.rktps = s.rktps /\ t.api = s.api /\ t.ops = s.ops
      /\ t.queued = s.queued /\ t.flight = s.flight /\ t.txn = s.txn /\ t.produced = s.produced
      /\ t.asserts = s.asserts /\ t.timedout = s.timedout /\ DOMAIN t = Fields /\ t.timers \subseteq Timers
  BY DEF Same, Fields, Misc
<1>3. ClientOK(t)
  BY <1>1, <1>2 DEF ClientOK
<1>4. t.asserts
  BY <1>1, <1>2
<1>5. StatesOK(t)
  BY <1>1, <1>2 DEF StatesOK
<1>6. QueueOK(t, a)
  BY <1>1, <1>2 DEF QueueOK, Reacquiring
<1>7. WireOK(t, W)
  BY <1>1, <1>2 DEF WireOK, Reacquiring, Allowed
<1>8. ListsOK(t, W)
  BY <1>1, <1>2 DEF ListsOK
<1>9. CountOK(t, W, k)
  BY <1>1, <1>2 DEF CountOK, One, Has
<1>10. SlotOK(t, a)
  BY <1>1, <1>2 DEF SlotOK
<1>11. ~t.fatal => OpsOK(t, W, a)
  BY <1>1, <1>2 DEF OpsOK, Pending, InitOps, Reacquiring, At, Acquiring, Aborting, Has, InCall
<1>12. ~t.fatal => CallOK(t, W, a)
  BY <1>1, <1>2 DEF CallOK, Reacquiring, At, Acquiring, Aborting, Has, Apps
<1>13. ~t.fatal => EndOK(t, a)
  BY <1>1, <1>2 DEF EndOK
<1>14. LogOK(t, k)
  BY <1>1, <1>2 DEF LogOK
<1>15. RepliesOK(t, W, k)
  BY <1>1, <1>2 DEF RepliesOK
<1>16. PartsOK(t, W, a, k)
  BY <1>1, <1>2 DEF PartsOK, Gathering, Sending
<1>17. OutcomeOK(t, W, a, k)
  BY <1>1, <1>2 DEF OutcomeOK, Of, Has, Sending
<1>18. ToldOK(t, a, k, d)
  BY <1>1, <1>2 DEF ToldOK
<1>19. NoBump => AbortOK(t, W, a, k, d)
  BY <1>1, <1>2 DEF AbortOK, CommitLost, Of, Reacquiring, Acquiring, Aborting
<1>20. SettledOK(t, W, a, d)
  BY <1>1, <1>2 DEF SettledOK,
  Returns, Spent, Has
<1> QED
  BY <1>20, <1>19, <1>1, <1>2, <1>3, <1>4, <1>5, <1>6, <1>7, <1>8, <1>9, <1>10, <1>11, <1>12, <1>13, <1>14,
  <1>15, <1>16, <1>17, <1>18 DEF Sound

LEMMA OffcWrittenSound ==
  ASSUME NEW s, NEW W, NEW a, NEW k, NEW d, Sound(s, W, a, k, d), NEW t,
         Same(s, t, {}),
         s.offc # "none", ~k.fenced, NEW l, l = [k EXCEPT !.written = @ \cup {<<s.txn, OFF>>}]
  PROVE  Sound(t, W, a, l, d)
<1>1. /\ ClientOK(s) /\ s.asserts /\ a \in Apps /\ k \in Coords /\ d \in Tolds /\ AppOK(a)
      /\ StatesOK(s) /\ QueueOK(s, a) /\ WireOK(s, W) /\ ListsOK(s, W) /\ CountOK(s, W, k)
      /\ SlotOK(s, a) /\ LogOK(s, k) /\ RepliesOK(s, W, k) /\ PartsOK(s, W, a, k)
      /\ OutcomeOK(s, W, a, k) /\ ToldOK(s, a, k, d)
      /\ SettledOK(s, W, a, d)
      /\ (NoBump => AbortOK(s, W, a, k, d))
      /\ ~s.fatal => OpsOK(s, W, a) /\ CallOK(s, W, a) /\ EndOK(s, a)
  BY DEF Sound
<1>2. /\ t.txn_state = s.txn_state /\ t.idemp_state = s.idemp_state /\ t.fatal = s.fatal
      /\ t.txn_err = s.txn_err /\ t.bump = s.bump /\ t.req_cnt = s.req_cnt
      /\ t.may_enq = s.may_enq /\ t.dr_fails = s.dr_fails /\ t.pending = s.pending
      /\ t.waitresp = s.waitresp /\ t.rktps = s.rktps /\ t.api = s.api /\ t.ops = s.ops
      /\ t.offc = s.offc /\ t.queued = s.queued /\ t.flight = s.flight /\ t.txn = s.txn
      /\ t.produced = s.produced /\ t.asserts = s.asserts /\ t.timedout = s.timedout /\ DOMAIN t = Fields
      /\ t.timers \subseteq Timers
  BY DEF Same, Fields, Misc
<1>3. /\ s.txn_state \in {"IN_TRANSACTION", "ABORTABLE_ERROR", "FATAL_ERROR"} /\ ~Has(W, "add_offsets")
      /\ s.txn_state \notin Outside /\ s.txn \in 1 .. MaxTxns
  BY <1>1 DEF CallOK, Outside, StatesOK, ClientOK, SettledOK, Spent
<1>4. /\ <<s.txn, OFF>> \in Messages /\ <<s.txn, OFF>>[1] = s.txn /\ <<s.txn, OFF>>[2] = OFF
  BY <1>1, <1>3 DEF Messages
<1>5. /\ l \in Coords /\ l.written = k.written \cup {<<s.txn, OFF>>} /\ l.parts = k.parts /\ l.open = k.open
      /\ l.fenced = k.fenced /\ l.committed = k.committed /\ l.aborted = k.aborted
  BY <1>1, <1>4 DEF Coords
<1>6. ClientOK(t)
  BY <1>1, <1>2, <1>3, <1>4, <1>5 DEF ClientOK
<1>7. t.asserts
  BY <1>1, <1>2
<1>8. l \in Coords
  BY <1>1, <1>2, <1>3, <1>4, <1>5 DEF Coords
<1>9. StatesOK(t)
  BY <1>1, <1>2 DEF StatesOK
<1>10. QueueOK(t, a)
  BY <1>1, <1>2 DEF QueueOK, Reacquiring
<1>11. WireOK(t, W)
  BY <1>1, <1>2 DEF WireOK, Reacquiring, Allowed
<1>12. ListsOK(t, W)
  BY <1>1, <1>2 DEF ListsOK
<1>13. CountOK(t, W, l)
  BY <1>1, <1>2, <1>3, <1>4, <1>5 DEF CountOK, One, Has
<1>14. SlotOK(t, a)
  BY <1>1, <1>2 DEF SlotOK
<1>15. ~t.fatal => OpsOK(t, W, a)
  BY <1>1, <1>2 DEF OpsOK, Reacquiring, Pending, InitOps
<1>16. ~t.fatal => CallOK(t, W, a)
  BY <1>1, <1>2 DEF CallOK, Reacquiring
<1>17. ~t.fatal => EndOK(t, a)
  BY <1>1, <1>2 DEF EndOK
<1>18. LogOK(t, l)
  <2>1. OFF \in k.parts
    BY <1>1 DEF PartsOK
  <2> QED
    BY <2>1, <1>1, <1>2, <1>5, <1>4, <1>3 DEF LogOK, Outside, ClientOK
<1>19. RepliesOK(t, W, l)
  BY <1>1, <1>2, <1>3, <1>4, <1>5 DEF RepliesOK, Sending, Last, Of
<1>20. PartsOK(t, W, a, l)
  BY <1>1, <1>2, <1>3, <1>4, <1>5 DEF PartsOK, Gathering, Sending
<1>21. OutcomeOK(t, W, a, l)
  BY <1>1, <1>2, <1>3, <1>4, <1>5 DEF OutcomeOK, Of, Has, Sending
<1>22. ToldOK(t, a, l, d)
  BY <1>1, <1>2, <1>3, <1>4, <1>5 DEF ToldOK, Of, Apps
<1>23. NoBump => AbortOK(t, W, a, l, d)
  BY <1>1, <1>2, <1>3, <1>4, <1>5, <1>8 DEF AbortOK, CommitLost, Of, Reacquiring, Acquiring, Aborting
<1>24. SettledOK(t, W, a, d)
  BY <1>1, <1>2, <1>3, <1>4, <1>5, <1>8 DEF SettledOK,
  Returns, Spent, Has
<1> QED
  BY <1>24, <1>23, <1>1, <1>2, <1>6, <1>7, <1>8, <1>9, <1>10, <1>11, <1>12, <1>13, <1>14, <1>15, <1>16,
  <1>17, <1>18, <1>19, <1>20, <1>21, <1>22, <1>3, <1>4, <1>5 DEF Sound

LEMMA OffcDoneSound ==
  ASSUME NEW s, NEW W, NEW a, NEW k, NEW d, Sound(s, W, a, k, d), NEW t,
         Same(s, t, {"offc", "api", "produced"}),
         ~s.fatal, s.offc # "none", t.offc = "none", NEW e \in Errors, t.api = Answered(s.api, e),
         t.produced = s.produced \/ (<<s.txn, OFF>> \in k.written /\ t.produced = s.produced \cup {<<s.txn, OFF>>})
  PROVE  Sound(t, W, a, k, d)
<1>1. /\ ClientOK(s) /\ s.asserts /\ a \in Apps /\ k \in Coords /\ d \in Tolds /\ AppOK(a)
      /\ StatesOK(s) /\ QueueOK(s, a) /\ WireOK(s, W) /\ ListsOK(s, W) /\ CountOK(s, W, k)
      /\ SlotOK(s, a) /\ LogOK(s, k) /\ RepliesOK(s, W, k) /\ PartsOK(s, W, a, k)
      /\ OutcomeOK(s, W, a, k) /\ ToldOK(s, a, k, d)
      /\ SettledOK(s, W, a, d)
      /\ (NoBump => AbortOK(s, W, a, k, d))
      /\ ~s.fatal => OpsOK(s, W, a) /\ CallOK(s, W, a) /\ EndOK(s, a)
  BY DEF Sound
<1>2. /\ t.txn_state = s.txn_state /\ t.idemp_state = s.idemp_state /\ t.fatal = s.fatal
      /\ t.txn_err = s.txn_err /\ t.bump = s.bump /\ t.req_cnt = s.req_cnt
      /\ t.may_enq = s.may_enq /\ t.dr_fails = s.dr_fails /\ t.pending = s.pending
      /\ t.waitresp = s.waitresp /\ t.rktps = s.rktps /\ t.ops = s.ops /\ t.queued = s.queued
      /\ t.flight = s.flight /\ t.txn = s.txn /\ t.asserts = s.asserts /\ t.timedout = s.timedout /\ DOMAIN t = Fields
      /\ t.timers \subseteq Timers
  BY DEF Same, Fields, Misc
<1>3. /\ s.txn_state \in {"IN_TRANSACTION", "ABORTABLE_ERROR"} /\ At(a, "offsets", 1, "wait")
      /\ s.ops = <<>> /\ ~s.api.has_result /\ ~Has(W, "add_offsets") /\ s.txn_state \notin Outside /\ s.txn \in 1 .. MaxTxns
  BY <1>1 DEF CallOK, Outside, StatesOK, ClientOK
<1>4. /\ <<s.txn, OFF>> \in Messages /\ <<s.txn, OFF>>[1] = s.txn /\ <<s.txn, OFF>>[2] = OFF
  BY <1>1, <1>3 DEF Messages
<1>5. /\ ApiOK(t.api) /\ t.api.name = s.api.name /\ t.api.calling = s.api.calling
      /\ t.api.has_result /\ t.api.error = e /\ s.api.error = "none"
  <2>1. s.api.name # "none" /\ s.api.error = "none" /\ ApiOK(s.api) /\ e \in Errors
    BY <1>1, <1>3 DEF ClientOK, SlotOK, Apis, AppOK, At, InCall
  <2> QED
    BY <2>1, AnsweredIs
<1>6. Of(s.txn, k.committed) = {}
  BY <1>1 DEF OutcomeOK
<1>7. \A u \in 1 .. MaxTxns : Of(u, t.produced) = Of(u, s.produced) \/ u = s.txn
  BY <1>4 DEF Of
<1>8. /\ t.produced \subseteq Messages /\ s.produced \subseteq t.produced
      /\ \A m \in t.produced : m \in s.produced \/ (m = <<s.txn, OFF>> /\ m \in k.written)
  BY <1>1, <1>4 DEF ClientOK
<1>9. ClientOK(t)
  BY <1>1, <1>2, <1>5, <1>8 DEF ClientOK
<1>10. t.asserts
  BY <1>1, <1>2
<1>11. StatesOK(t)
  BY <1>1, <1>2 DEF StatesOK
<1>12. QueueOK(t, a)
  BY <1>1, <1>2 DEF QueueOK, Reacquiring
<1>13. WireOK(t, W)
  BY <1>1, <1>2 DEF WireOK, Reacquiring, Allowed
<1>14. ListsOK(t, W)
  BY <1>1, <1>2 DEF ListsOK
<1>15. CountOK(t, W, k)
  BY <1>1, <1>2, <1>3 DEF CountOK, One, ClientOK, Outside
<1>16. SlotOK(t, a)
  BY <1>1, <1>2, <1>5, <1>3 DEF SlotOK, InCall, At
<1>17. ~t.fatal => OpsOK(t, W, a)
  BY <1>1, <1>2, <1>5, <1>3 DEF OpsOK, Pending, At
<1>18. ~t.fatal => CallOK(t, W, a)
  BY <1>1, <1>2, <1>3 DEF CallOK, Reacquiring, Aborting
<1>19. ~t.fatal => EndOK(t, a)
  BY <1>1, <1>2, <1>3 DEF EndOK, At
<1>20. LogOK(t, k)
  BY <1>1, <1>2, <1>3, <1>8, <1>4 DEF LogOK, Outside, ClientOK
<1>21. RepliesOK(t, W, k)
  <2>1. \A r \in W : r.kind # "end_commit"
    BY <1>1, <1>3 DEF WireOK, Only, Allowed, Reacquiring, Aborting
  <2> QED
    BY <2>1, <1>1, <1>2 DEF RepliesOK
<1>22. PartsOK(t, W, a, k)
  BY <1>1, <1>2, <1>3, <1>4, <1>5, <1>6, <1>7, <1>8 DEF PartsOK, Gathering, Sending
<1>23. OutcomeOK(t, W, a, k)
  <2>1. \A m \in Of(s.txn, t.produced) : m \in Of(s.txn, s.produced) \/ m \in k.written
    BY <1>8 DEF Of
  <2>2. \A u \in 1 .. MaxTxns : Of(u, k.committed) # {} => Of(u, t.produced) \subseteq k.committed
    BY <1>1, <1>7, <1>6 DEF OutcomeOK
  <2> QED
    BY <2>1, <2>2, <1>1, <1>2, <1>3, <1>6 DEF OutcomeOK
<1>24. ToldOK(t, a, k, d)
  <2>1. d[s.txn] = "none"
    BY <1>1, <1>3 DEF ToldOK, Tolds, Outside
  <2> QED
    BY <2>1, <1>1, <1>2, <1>3, <1>7 DEF ToldOK, At
<1>25. NoBump => AbortOK(t, W, a, k, d)
  BY <1>1, <1>2, <1>3, <1>4, <1>5, <1>6, <1>7, <1>8 DEF AbortOK, CommitLost, Of, Reacquiring, Acquiring, Aborting
<1>26. SettledOK(t, W, a, d)
  BY <1>1, <1>2, <1>3, <1>4, <1>5, <1>6, <1>7, <1>8 DEF SettledOK
<1> QED
  BY <1>26, <1>25, <1>1, <1>2, <1>9, <1>10, <1>11, <1>12, <1>13, <1>14, <1>15, <1>16, <1>17, <1>18, <1>19,
  <1>20, <1>21, <1>22, <1>23, <1>24, <1>3, <1>4, <1>5, <1>6, <1>7, <1>8 DEF Sound

\* The reply of TxnOffsetCommit after a fatal error.
LEMMA FatalOffcDoneSound ==
  ASSUME NEW s, NEW W, NEW a, NEW k, NEW d, Sound(s, W, a, k, d), NEW t,
         Same(s, t, {"offc", "api", "produced"}),
         s.fatal, s.offc # "none", t.offc = "none", NEW e \in Errors, t.api = Answered(s.api, e),
         t.produced = s.produced \/ (<<s.txn, OFF>> \in k.written /\ t.produced = s.produced \cup {<<s.txn, OFF>>})
  PROVE  Sound(t, W, a, k, d)
<1>1. /\ ClientOK(s) /\ s.asserts /\ a \in Apps /\ k \in Coords /\ d \in Tolds /\ AppOK(a)
      /\ StatesOK(s) /\ QueueOK(s, a) /\ WireOK(s, W) /\ ListsOK(s, W) /\ CountOK(s, W, k)
      /\ SlotOK(s, a) /\ LogOK(s, k) /\ RepliesOK(s, W, k) /\ PartsOK(s, W, a, k)
      /\ OutcomeOK(s, W, a, k) /\ ToldOK(s, a, k, d)
      /\ SettledOK(s, W, a, d)
      /\ (NoBump => AbortOK(s, W, a, k, d))
      /\ ~s.fatal => OpsOK(s, W, a) /\ CallOK(s, W, a) /\ EndOK(s, a)
  BY DEF Sound
<1>2. /\ t.txn_state = s.txn_state /\ t.idemp_state = s.idemp_state /\ t.fatal = s.fatal
      /\ t.txn_err = s.txn_err /\ t.bump = s.bump /\ t.req_cnt = s.req_cnt
      /\ t.may_enq = s.may_enq /\ t.dr_fails = s.dr_fails /\ t.pending = s.pending
      /\ t.waitresp = s.waitresp /\ t.rktps = s.rktps /\ t.ops = s.ops /\ t.queued = s.queued
      /\ t.flight = s.flight /\ t.txn = s.txn /\ t.asserts = s.asserts /\ t.timedout = s.timedout /\ DOMAIN t = Fields
      /\ t.timers \subseteq Timers
  BY DEF Same, Fields, Misc
<1>3. /\ s.txn_state = "FATAL_ERROR" /\ ~Has(W, "add_offsets") /\ s.txn_state \notin Outside /\ s.txn \in 1 .. MaxTxns
      /\ (\A r \in W : r.kind \notin Last) /\ d[s.txn] = "none" /\ ~Returns(a)
  BY <1>1 DEF Outside, StatesOK, ClientOK, SettledOK, Spent, PartsOK
<1>4. /\ <<s.txn, OFF>> \in Messages /\ <<s.txn, OFF>>[1] = s.txn /\ <<s.txn, OFF>>[2] = OFF
  BY <1>1, <1>3 DEF Messages
<1>5. /\ ApiOK(t.api) /\ t.api.name = s.api.name /\ t.api.calling = s.api.calling
      /\ t.api = s.api \/ (s.api.name # "none" /\ t.api.has_result)
  <2>1. ApiOK(s.api) /\ e \in Errors
    BY <1>1 DEF ClientOK
  <2>2. CASE s.api.name = "none"
    BY <2>1, <2>2 DEF Answered
  <2>3. CASE s.api.name # "none"
    BY <2>1, <2>3, AnsweredIs
  <2> QED
    BY <2>2, <2>3
<1>6. Of(s.txn, k.committed) = {}
  BY <1>1 DEF OutcomeOK
<1>7. \A u \in 1 .. MaxTxns : Of(u, t.produced) = Of(u, s.produced) \/ u = s.txn
  BY <1>4 DEF Of
<1>8. /\ t.produced \subseteq Messages /\ s.produced \subseteq t.produced
      /\ \A m \in t.produced : m \in s.produced \/ (m = <<s.txn, OFF>> /\ m \in k.written)
  BY <1>1, <1>4 DEF ClientOK
<1>9. ClientOK(t)
  BY <1>1, <1>2, <1>5, <1>8 DEF ClientOK
<1>10. t.asserts
  BY <1>1, <1>2
<1>11. StatesOK(t)
  BY <1>1, <1>2 DEF StatesOK
<1>12. QueueOK(t, a)
  BY <1>1, <1>2 DEF QueueOK, Reacquiring
<1>13. WireOK(t, W)
  BY <1>1, <1>2 DEF WireOK, Reacquiring, Allowed
<1>14. ListsOK(t, W)
  BY <1>1, <1>2 DEF ListsOK
<1>15. CountOK(t, W, k)
  BY <1>1, <1>2, <1>3 DEF CountOK, One, ClientOK, Outside
<1>16. SlotOK(t, a)
  BY <1>1, <1>2, <1>5, <1>3 DEF SlotOK, InCall, At
<1>17. ~t.fatal => OpsOK(t, W, a)
  BY <1>1, <1>2, <1>5, <1>3 DEF OpsOK, Pending, At
<1>18. ~t.fatal => CallOK(t, W, a)
  BY <1>1, <1>2, <1>3 DEF CallOK, Reacquiring, Aborting
<1>19. ~t.fatal => EndOK(t, a)
  BY <1>1, <1>2, <1>3 DEF EndOK, At
<1>20. LogOK(t, k)
  BY <1>1, <1>2, <1>3, <1>8, <1>4 DEF LogOK, Outside, ClientOK
<1>21. RepliesOK(t, W, k)
  <2>1. \A r \in W : r.kind # "end_commit"
    BY <1>3 DEF Last
  <2> QED
    BY <2>1, <1>1, <1>2 DEF RepliesOK
<1>22. PartsOK(t, W, a, k)
  BY <1>1, <1>2, <1>3, <1>4, <1>5, <1>6, <1>7, <1>8 DEF PartsOK, Gathering, Sending, Has, Last
<1>23. OutcomeOK(t, W, a, k)
  <2>1. \A m \in Of(s.txn, t.produced) : m \in Of(s.txn, s.produced) \/ m \in k.written
    BY <1>8 DEF Of
  <2>2. \A u \in 1 .. MaxTxns : Of(u, k.committed) # {} => Of(u, t.produced) \subseteq k.committed
    BY <1>1, <1>7, <1>6 DEF OutcomeOK
  <2> QED
    BY <2>1, <2>2, <1>1, <1>2, <1>3, <1>6 DEF OutcomeOK
<1>24. ToldOK(t, a, k, d)
  <2>1. d[s.txn] = "none"
    BY <1>3
  <2> QED
    BY <2>1, <1>1, <1>2, <1>3, <1>7 DEF ToldOK, Returns
<1>25. NoBump => AbortOK(t, W, a, k, d)
  BY <1>1, <1>2, <1>3, <1>4, <1>5, <1>6, <1>7, <1>8 DEF AbortOK, CommitLost, Of, Reacquiring, Acquiring, Aborting
<1>26. SettledOK(t, W, a, d)
  BY <1>1, <1>2, <1>3, <1>4, <1>5, <1>6, <1>7, <1>8 DEF SettledOK, Spent
<1> QED
  BY <1>26, <1>25, <1>1, <1>2, <1>9, <1>10, <1>11, <1>12, <1>13, <1>14, <1>15, <1>16, <1>17, <1>18, <1>19,
  <1>20, <1>21, <1>22, <1>23, <1>24, <1>3, <1>4, <1>5, <1>6, <1>7, <1>8 DEF Sound

LEMMA RegisterSendSound ==
  ASSUME NEW s, NEW W, NEW a, NEW k, NEW d, Sound(s, W, a, k, d), NEW t,
         Same(s, t, {"waitresp", "pending", "req_cnt"}),
         ~s.fatal, s.txn_state \in Sending, s.pending # {}, s.waitresp = {},
         NEW q, q = Request("add_parts", s.pending), NEW V, V = W \cup {q},
         t.waitresp = s.pending, t.pending = {}, t.req_cnt = s.req_cnt + 1
  PROVE  Sound(t, V, a, k, d)
<1>1. /\ ClientOK(s) /\ s.asserts /\ a \in Apps /\ k \in Coords /\ d \in Tolds /\ AppOK(a)
      /\ StatesOK(s) /\ QueueOK(s, a) /\ WireOK(s, W) /\ ListsOK(s, W) /\ CountOK(s, W, k)
      /\ SlotOK(s, a) /\ LogOK(s, k) /\ RepliesOK(s, W, k) /\ PartsOK(s, W, a, k)
      /\ OutcomeOK(s, W, a, k) /\ ToldOK(s, a, k, d)
      /\ SettledOK(s, W, a, d)
      /\ (NoBump => AbortOK(s, W, a, k, d))
      /\ ~s.fatal => OpsOK(s, W, a) /\ CallOK(s, W, a) /\ EndOK(s, a)
  BY DEF Sound
<1>2. /\ t.txn_state = s.txn_state /\ t.idemp_state = s.idemp_state /\ t.fatal = s.fatal
      /\ t.txn_err = s.txn_err /\ t.bump = s.bump /\ t.may_enq = s.may_enq
      /\ t.dr_fails = s.dr_fails /\ t.rktps = s.rktps /\ t.api = s.api /\ t.ops = s.ops
      /\ t.offc = s.offc /\ t.queued = s.queued /\ t.flight = s.flight /\ t.txn = s.txn
      /\ t.produced = s.produced /\ t.asserts = s.asserts /\ t.timedout = s.timedout /\ DOMAIN t = Fields
      /\ t.timers \subseteq Timers
  BY DEF Same, Fields, Misc
<1>3. q \in Requests /\ q.kind = "add_parts" /\ q.parts = s.pending /\ q.reply = "none"
  BY <1>1 DEF Request, Requests, Kinds, Replies, ClientOK
<1>4. \A r \in W : r.kind # "add_parts" /\ r.kind \notin Last
  BY <1>1 DEF ListsOK, WireOK, Only, Allowed, Sending, Last, Reacquiring, Aborting
<1>5. ~Has(W, "add_parts") /\ Has(V, "add_parts") /\ (Has(V, "add_offsets") <=> Has(W, "add_offsets"))
  BY <1>3, <1>4 DEF Has
<1>6. /\ s.txn_state \notin Outside /\ s.txn_state \in {"IN_TRANSACTION", "BEGIN_COMMIT"}
      /\ ~Reacquiring(s) /\ ~Reacquiring(t)
  BY <1>2 DEF Sending, Outside, Reacquiring, Aborting
<1>7. ClientOK(t)
  BY <1>1, <1>2, <1>3, <1>4, <1>5, <1>6 DEF ClientOK
<1>8. t.asserts
  BY <1>1, <1>2
<1>9. StatesOK(t)
  BY <1>1, <1>2 DEF StatesOK
<1>10. QueueOK(t, a)
  BY <1>1, <1>2 DEF QueueOK, Reacquiring
<1>11. WireOK(t, V)
  <2>1. Allowed(t) = Allowed(s) /\ "add_parts" \in Allowed(s)
    BY <1>2, <1>6 DEF Allowed, Reacquiring
  <2>2. Only(V, Allowed(t))
    BY <2>1, <1>1, <1>3 DEF WireOK, Only
  <2>3. \A p, u \in V : p.kind = u.kind => p = u
    BY <1>1, <1>3, <1>4 DEF WireOK
  <2>4. \A p \in V : p.kind \notin Last
    BY <1>3, <1>4 DEF Last
  <2> QED
    BY <2>2, <2>3, <2>4, <1>1, <1>2, <1>3, <1>6 DEF WireOK, ClientOK
<1>12. ListsOK(t, V)
  BY <1>1, <1>2, <1>3, <1>4, <1>5, <1>6 DEF ListsOK
<1>13. CountOK(t, V, k)
  <2> DEFINE P == One(~s.fatal /\ s.rktps # {})
  <2> DEFINE Q == One(~s.fatal /\ (s.offc # "none" \/ <<s.txn, OFF>> \in k.written))
  <2>1. /\ One(Has(W, "add_parts")) = 0 /\ One(Has(V, "add_parts")) = 1
        /\ One(Has(V, "add_offsets")) = One(Has(W, "add_offsets")) /\ One(Has(W, "add_offsets")) \in 0 .. 1
    BY <1>5 DEF One
  <2>2. P \in 0 .. 1 /\ Q \in 0 .. 1
    BY DEF One
  <2>3. s.req_cnt \in Int /\ s.req_cnt >= One(Has(W, "add_parts")) + One(Has(W, "add_offsets")) + P + Q
    BY <1>1, <1>6 DEF CountOK, ClientOK, Outside
  <2>4. P = One(~t.fatal /\ t.rktps # {}) /\ Q = One(~t.fatal /\ (t.offc # "none" \/ <<t.txn, OFF>> \in k.written))
    BY <1>2
  <2> HIDE DEF P, Q
  <2>5. t.req_cnt >= One(Has(V, "add_parts")) + One(Has(V, "add_offsets")) + P + Q
    BY <2>1, <2>2, <2>3, <1>2
  <2> QED
    BY <2>4, <2>5 DEF CountOK
<1>14. SlotOK(t, a)
  BY <1>1, <1>2 DEF SlotOK
<1>15. ~t.fatal => OpsOK(t, V, a)
  BY <1>1, <1>2, <1>5, <1>6 DEF OpsOK, Pending, InitOps
<1>16. ~t.fatal => CallOK(t, V, a)
  BY <1>1, <1>2, <1>5, <1>6 DEF CallOK
<1>17. ~t.fatal => EndOK(t, a)
  BY <1>1, <1>2 DEF EndOK
<1>18. LogOK(t, k)
  BY <1>1, <1>2 DEF LogOK
<1>19. RepliesOK(t, V, k)
  BY <1>1, <1>2, <1>3 DEF RepliesOK, Last
<1>20. PartsOK(t, V, a, k)
  BY <1>1, <1>2, <1>3, <1>4, <1>5, <1>6 DEF PartsOK, Gathering, Sending
<1>21. OutcomeOK(t, V, a, k)
  BY <1>1, <1>2, <1>5 DEF OutcomeOK
<1>22. ToldOK(t, a, k, d)
  BY <1>1, <1>2 DEF ToldOK
<1>23. NoBump => AbortOK(t, V, a, k, d)
  BY <1>1, <1>2, <1>3, <1>4, <1>5, <1>6 DEF AbortOK, CommitLost, Of, Reacquiring, Acquiring, Aborting
<1>24. SettledOK(t, V, a, d)
  BY <1>1, <1>2, <1>3, <1>4, <1>5, <1>6 DEF SettledOK
<1> QED
  BY <1>24, <1>23, <1>1, <1>2, <1>7, <1>8, <1>9, <1>10, <1>11, <1>12, <1>13, <1>14, <1>15, <1>16, <1>17,
  <1>18, <1>19, <1>20, <1>21, <1>22, <1>3, <1>4, <1>5, <1>6 DEF Sound

LEMMA CommittedSound ==
  ASSUME NEW s, NEW W, NEW a, NEW k, NEW d, Sound(s, W, a, k, d), NEW t,
         Same(s, t, {"txn_state", "api", "may_enq"}),
         ~s.fatal, s.txn_state = "COMMITTING_TRANSACTION", t.txn_state = "COMMIT_NOT_ACKED",
         t.api = Answered(s.api, "none"),
         t.may_enq = FALSE,
         NEW r \in W, r.kind = "end_commit", r.reply = "ok"
  PROVE  Sound(t, {}, a, k, d)
<1>1. /\ ClientOK(s) /\ s.asserts /\ a \in Apps /\ k \in Coords /\ d \in Tolds /\ AppOK(a)
      /\ StatesOK(s) /\ QueueOK(s, a) /\ WireOK(s, W) /\ ListsOK(s, W) /\ CountOK(s, W, k)
      /\ SlotOK(s, a) /\ LogOK(s, k) /\ RepliesOK(s, W, k) /\ PartsOK(s, W, a, k)
      /\ OutcomeOK(s, W, a, k) /\ ToldOK(s, a, k, d)
      /\ SettledOK(s, W, a, d)
      /\ (NoBump => AbortOK(s, W, a, k, d))
      /\ ~s.fatal => OpsOK(s, W, a) /\ CallOK(s, W, a) /\ EndOK(s, a)
  BY DEF Sound
<1>2. /\ t.idemp_state = s.idemp_state /\ t.fatal = s.fatal /\ t.txn_err = s.txn_err
      /\ t.bump = s.bump /\ t.req_cnt = s.req_cnt /\ t.dr_fails = s.dr_fails
      /\ t.pending = s.pending /\ t.waitresp = s.waitresp /\ t.rktps = s.rktps /\ t.ops = s.ops
      /\ t.offc = s.offc /\ t.queued = s.queued /\ t.flight = s.flight /\ t.txn = s.txn
      /\ t.produced = s.produced /\ t.asserts = s.asserts /\ t.timedout = s.timedout /\ DOMAIN t = Fields
      /\ t.timers \subseteq Timers
  BY DEF Same, Fields, Misc
<1>3. /\ At(a, "commit", 3, "wait") /\ s.ops = <<>> /\ ~s.api.has_result /\ s.offc = "none"
      /\ s.queued \cup s.flight = {} /\ ~Has(W, "add_offsets") /\ s.txn_state # "READY"
  BY <1>1 DEF CallOK, QueueOK, At, StatesOK, Aborting
<1>4. \A x : ~Has({}, x)
  BY DEF Has
<1>5. t.txn_state \in TxnStates /\ ~Reacquiring(t)
  BY <1>1, <1>2 DEF TxnStates, Reacquiring, Aborting, StatesOK, Acquiring
<1>6. /\ ApiOK(t.api) /\ t.api.name = s.api.name /\ t.api.calling = s.api.calling
      /\ t.api.has_result /\ t.api.error = "none" /\ s.api.error = "none"
  <2>1. s.api.name # "none" /\ s.api.error = "none" /\ ApiOK(s.api) /\ "none" \in Errors
    BY <1>1, <1>3 DEF ClientOK, SlotOK, Apis, AppOK, At, InCall, Errors
  <2> QED
    BY <2>1, AnsweredIs
<1>7. k.parts = {} /\ Of(s.txn, s.produced) \subseteq k.committed
  BY <1>1 DEF RepliesOK, Last
<1>8. ClientOK(t)
  BY <1>1, <1>2, <1>3, <1>4, <1>5, <1>6, <1>7 DEF ClientOK
<1>9. t.asserts
  BY <1>1, <1>2
<1>10. StatesOK(t)
  BY <1>1, <1>2, <1>3, <1>4, <1>5, <1>6, <1>7 DEF StatesOK, Acquiring, Outside, Sending,
  Aborting
<1>11. QueueOK(t, a)
  BY <1>1, <1>2, <1>3 DEF QueueOK, At
<1>12. WireOK(t, {})
  BY <1>5, <1>2 DEF WireOK, Only, Has
<1>13. ListsOK(t, {})
  BY <1>1, <1>2 DEF ListsOK, Outside, Sending
<1>14. CountOK(t, {}, k)
  BY <1>1, <1>2, <1>4, <1>3 DEF CountOK, One, ClientOK
<1>15. SlotOK(t, a)
  BY <1>1, <1>2, <1>6, <1>3 DEF SlotOK, InCall, At
<1>16. ~t.fatal => OpsOK(t, {}, a)
  BY <1>1, <1>2, <1>6, <1>3 DEF OpsOK, At
<1>17. ~t.fatal => CallOK(t, {}, a)
  BY <1>1, <1>2, <1>3, <1>4, <1>5 DEF CallOK
<1>18. ~t.fatal => EndOK(t, a)
  BY <1>1, <1>2, <1>3, <1>6 DEF EndOK, At
<1>19. LogOK(t, k)
  BY <1>1, <1>2, <1>7 DEF LogOK
<1>20. RepliesOK(t, {}, k)
  BY DEF RepliesOK
<1>21. PartsOK(t, {}, a, k)
  BY <1>1, <1>2, <1>3 DEF PartsOK, Gathering, Sending, At
<1>22. OutcomeOK(t, {}, a, k)
  BY <1>1, <1>2, <1>3, <1>4, <1>7 DEF OutcomeOK, Sending, At
<1>23. ToldOK(t, a, k, d)
  BY <1>1, <1>2, <1>3 DEF ToldOK, At
<1>24. NoBump => AbortOK(t, {}, a, k, d)
  BY <1>1, <1>2, <1>3, <1>4, <1>5, <1>6, <1>7 DEF AbortOK, CommitLost, Of, Reacquiring, Acquiring, Aborting
<1>25. SettledOK(t, {}, a, d)
  BY <1>1, <1>2, <1>3, <1>4, <1>5, <1>6, <1>7 DEF SettledOK
<1> QED
  BY <1>25, <1>24, <1>1, <1>2, <1>8, <1>9, <1>10, <1>11, <1>12, <1>13, <1>14, <1>15, <1>16, <1>17, <1>18,
  <1>19, <1>20, <1>21, <1>22, <1>23, <1>3, <1>4, <1>5, <1>6, <1>7 DEF Sound

LEMMA CommitRefusedSound ==
  ASSUME NEW s, NEW W, NEW a, NEW k, NEW d, Sound(s, W, a, k, d), NEW t,
         Same(s, t, {"txn_state", "api", "may_enq", "txn_err", "bump"}),
         ~s.fatal, s.txn_state = "COMMITTING_TRANSACTION", t.txn_state = "ABORTABLE_ERROR",
         t.api = Answered(s.api, "abortable"),
         t.may_enq = FALSE,
         t.txn_err = TRUE, t.bump \in BOOLEAN, NoBump => ~t.bump
  PROVE  Sound(t, {}, a, k, d)
<1>1. /\ ClientOK(s) /\ s.asserts /\ a \in Apps /\ k \in Coords /\ d \in Tolds /\ AppOK(a)
      /\ StatesOK(s) /\ QueueOK(s, a) /\ WireOK(s, W) /\ ListsOK(s, W) /\ CountOK(s, W, k)
      /\ SlotOK(s, a) /\ LogOK(s, k) /\ RepliesOK(s, W, k) /\ PartsOK(s, W, a, k)
      /\ OutcomeOK(s, W, a, k) /\ ToldOK(s, a, k, d)
      /\ SettledOK(s, W, a, d)
      /\ (NoBump => AbortOK(s, W, a, k, d))
      /\ ~s.fatal => OpsOK(s, W, a) /\ CallOK(s, W, a) /\ EndOK(s, a)
  BY DEF Sound
<1>2. /\ t.idemp_state = s.idemp_state /\ t.fatal = s.fatal /\ t.req_cnt = s.req_cnt
      /\ t.dr_fails = s.dr_fails /\ t.pending = s.pending /\ t.waitresp = s.waitresp
      /\ t.rktps = s.rktps /\ t.ops = s.ops /\ t.offc = s.offc /\ t.queued = s.queued
      /\ t.flight = s.flight /\ t.txn = s.txn /\ t.produced = s.produced
      /\ t.asserts = s.asserts /\ t.timedout = s.timedout /\ DOMAIN t = Fields /\ t.timers \subseteq Timers
  BY DEF Same, Fields, Misc
<1>3. /\ At(a, "commit", 3, "wait") /\ s.ops = <<>> /\ ~s.api.has_result /\ s.offc = "none"
      /\ s.queued \cup s.flight = {} /\ ~Has(W, "add_offsets") /\ s.txn_state # "READY"
  BY <1>1 DEF CallOK, QueueOK, At, StatesOK, Aborting
<1>4. \A x : ~Has({}, x)
  BY DEF Has
<1>5. t.txn_state \in TxnStates /\ ~Reacquiring(t)
  BY <1>1, <1>2 DEF TxnStates, Reacquiring, Aborting, StatesOK, Acquiring
<1>6. /\ ApiOK(t.api) /\ t.api.name = s.api.name /\ t.api.calling = s.api.calling
      /\ t.api.has_result /\ t.api.error = "abortable" /\ s.api.error = "none"
  <2>1. s.api.name # "none" /\ s.api.error = "none" /\ ApiOK(s.api) /\ "abortable" \in Errors
    BY <1>1, <1>3 DEF ClientOK, SlotOK, Apis, AppOK, At, InCall, Errors
  <2> QED
    BY <2>1, AnsweredIs
<1>7. ClientOK(t)
  BY <1>1, <1>2, <1>3, <1>4, <1>5, <1>6 DEF ClientOK
<1>8. t.asserts
  BY <1>1, <1>2
<1>9. StatesOK(t)
  BY <1>1, <1>2, <1>3, <1>4, <1>5, <1>6 DEF StatesOK, Acquiring, Outside, Sending, Aborting
<1>10. QueueOK(t, a)
  BY <1>1, <1>2, <1>3 DEF QueueOK, At
<1>11. WireOK(t, {})
  BY <1>5, <1>2 DEF WireOK, Only, Has
<1>12. ListsOK(t, {})
  BY <1>1, <1>2 DEF ListsOK, Outside, Sending
<1>13. CountOK(t, {}, k)
  BY <1>1, <1>2, <1>4, <1>3 DEF CountOK, One, ClientOK
<1>14. SlotOK(t, a)
  BY <1>1, <1>2, <1>6, <1>3 DEF SlotOK, InCall, At
<1>15. ~t.fatal => OpsOK(t, {}, a)
  BY <1>1, <1>2, <1>6, <1>3 DEF OpsOK, At
<1>16. ~t.fatal => CallOK(t, {}, a)
  BY <1>1, <1>2, <1>3, <1>4, <1>5 DEF CallOK
<1>17. ~t.fatal => EndOK(t, a)
  BY <1>1, <1>2, <1>3, <1>6 DEF EndOK, At
<1>18. LogOK(t, k)
  BY <1>1, <1>2 DEF LogOK, Outside
<1>19. RepliesOK(t, {}, k)
  BY DEF RepliesOK
<1>20. PartsOK(t, {}, a, k)
  BY <1>1, <1>2, <1>3 DEF PartsOK, Gathering, Sending, At
<1>21. OutcomeOK(t, {}, a, k)
  BY <1>1, <1>2, <1>3, <1>4 DEF OutcomeOK, Sending, At
<1>22. ToldOK(t, a, k, d)
  BY <1>1, <1>2, <1>3 DEF ToldOK, At
<1>23. NoBump => AbortOK(t, {}, a, k, d)
  BY <1>1, <1>2, <1>3, <1>4, <1>5, <1>6 DEF AbortOK, CommitLost, Of, Reacquiring, Acquiring, Aborting
<1>24. SettledOK(t, {}, a, d)
  BY <1>1, <1>2, <1>3, <1>4, <1>5, <1>6 DEF SettledOK
<1> QED
  BY <1>24, <1>23, <1>1, <1>2, <1>7, <1>8, <1>9, <1>10, <1>11, <1>12, <1>13, <1>14, <1>15, <1>16, <1>17,
  <1>18, <1>19, <1>20, <1>21, <1>22, <1>3, <1>4, <1>5, <1>6 DEF Sound

LEMMA AbortedSound ==
  ASSUME NEW s, NEW W, NEW a, NEW k, NEW d, Sound(s, W, a, k, d), NEW t,
         Same(s, t, {"txn_state", "api", "may_enq"}),
         ~s.fatal, s.txn_state = "ABORTING_TRANSACTION", t.txn_state = "ABORT_NOT_ACKED",
         t.api = Answered(s.api, "none"),
         t.may_enq = FALSE,
         ~Reacquiring(s), NEW r \in W, r.kind = "end_abort", r.reply = "ok", ~s.bump
  PROVE  Sound(t, {}, a, k, d)
<1>1. /\ ClientOK(s) /\ s.asserts /\ a \in Apps /\ k \in Coords /\ d \in Tolds /\ AppOK(a)
      /\ StatesOK(s) /\ QueueOK(s, a) /\ WireOK(s, W) /\ ListsOK(s, W) /\ CountOK(s, W, k)
      /\ SlotOK(s, a) /\ LogOK(s, k) /\ RepliesOK(s, W, k) /\ PartsOK(s, W, a, k)
      /\ OutcomeOK(s, W, a, k) /\ ToldOK(s, a, k, d)
      /\ SettledOK(s, W, a, d)
      /\ (NoBump => AbortOK(s, W, a, k, d))
      /\ ~s.fatal => OpsOK(s, W, a) /\ CallOK(s, W, a) /\ EndOK(s, a)
  BY DEF Sound
<1>2. /\ t.idemp_state = s.idemp_state /\ t.fatal = s.fatal /\ t.txn_err = s.txn_err
      /\ t.bump = s.bump /\ t.req_cnt = s.req_cnt /\ t.dr_fails = s.dr_fails
      /\ t.pending = s.pending /\ t.waitresp = s.waitresp /\ t.rktps = s.rktps /\ t.ops = s.ops
      /\ t.offc = s.offc /\ t.queued = s.queued /\ t.flight = s.flight /\ t.txn = s.txn
      /\ t.produced = s.produced /\ t.asserts = s.asserts /\ t.timedout = s.timedout /\ DOMAIN t = Fields
      /\ t.timers \subseteq Timers
  BY DEF Same, Fields, Misc
<1>3. /\ At(a, "abort", 3, "wait") /\ s.ops = <<>> /\ ~s.api.has_result /\ s.offc = "none"
      /\ s.queued \cup s.flight = {} /\ ~Has(W, "add_offsets") /\ s.txn_state # "READY"
  BY <1>1 DEF CallOK, QueueOK, At, StatesOK, Aborting
<1>4. \A x : ~Has({}, x)
  BY DEF Has
<1>5. t.txn_state \in TxnStates /\ ~Reacquiring(t)
  BY <1>1, <1>2 DEF TxnStates, Reacquiring, Aborting, StatesOK, Acquiring
<1>6. /\ ApiOK(t.api) /\ t.api.name = s.api.name /\ t.api.calling = s.api.calling
      /\ t.api.has_result /\ t.api.error = "none" /\ s.api.error = "none"
  <2>1. s.api.name # "none" /\ s.api.error = "none" /\ ApiOK(s.api) /\ "none" \in Errors
    BY <1>1, <1>3 DEF ClientOK, SlotOK, Apis, AppOK, At, InCall, Errors
  <2> QED
    BY <2>1, AnsweredIs
<1>7. k.parts = {}
  BY <1>1 DEF RepliesOK, Last
<1>8. s.idemp_state = "ASSIGNED"
  BY <1>1 DEF StatesOK, Reacquiring, Aborting
<1>9. ClientOK(t)
  BY <1>1, <1>2, <1>3, <1>4, <1>5, <1>6, <1>7, <1>8 DEF ClientOK
<1>10. t.asserts
  BY <1>1, <1>2
<1>11. StatesOK(t)
  BY <1>1, <1>2, <1>8 DEF StatesOK, Outside, Aborting
<1>12. QueueOK(t, a)
  BY <1>1, <1>2, <1>3 DEF QueueOK, At
<1>13. WireOK(t, {})
  BY <1>5, <1>2 DEF WireOK, Only, Has
<1>14. ListsOK(t, {})
  BY <1>1, <1>2 DEF ListsOK, Outside, Sending
<1>15. CountOK(t, {}, k)
  BY <1>1, <1>2, <1>4, <1>3 DEF CountOK, One, ClientOK
<1>16. SlotOK(t, a)
  BY <1>1, <1>2, <1>6, <1>3 DEF SlotOK, InCall, At
<1>17. ~t.fatal => OpsOK(t, {}, a)
  BY <1>1, <1>2, <1>6, <1>3 DEF OpsOK, At
<1>18. ~t.fatal => CallOK(t, {}, a)
  BY <1>1, <1>2, <1>3, <1>4, <1>5 DEF CallOK
<1>19. ~t.fatal => EndOK(t, a)
  BY <1>1, <1>2, <1>3, <1>6 DEF EndOK, At
<1>20. LogOK(t, k)
  BY <1>1, <1>2, <1>7 DEF LogOK
<1>21. RepliesOK(t, {}, k)
  BY DEF RepliesOK
<1>22. PartsOK(t, {}, a, k)
  BY <1>1, <1>2, <1>3 DEF PartsOK, Gathering, Sending, At
<1>23. OutcomeOK(t, {}, a, k)
  BY <1>1, <1>2, <1>3, <1>4 DEF OutcomeOK, Sending, At
<1>24. ToldOK(t, a, k, d)
  BY <1>1, <1>2, <1>3 DEF ToldOK, At
<1>25. NoBump => AbortOK(t, {}, a, k, d)
  BY <1>1, <1>2, <1>3, <1>4, <1>5, <1>6, <1>7, <1>8 DEF AbortOK, CommitLost, Of, Reacquiring, Acquiring, Aborting
<1>26. SettledOK(t, {}, a, d)
  BY <1>1, <1>2, <1>3, <1>4, <1>5, <1>6, <1>7, <1>8 DEF SettledOK
<1> QED
  BY <1>26, <1>25, <1>1, <1>2, <1>9, <1>10, <1>11, <1>12, <1>13, <1>14, <1>15, <1>16, <1>17, <1>18, <1>19,
  <1>20, <1>21, <1>22, <1>23, <1>24, <1>3, <1>4, <1>5, <1>6, <1>7, <1>8 DEF Sound

LEMMA AbortRefusedSound ==
  ASSUME NEW s, NEW W, NEW a, NEW k, NEW d, Sound(s, W, a, k, d), NEW t,
         Same(s, t, {"txn_state", "api", "may_enq", "txn_err"}),
         ~s.fatal, s.txn_state = "ABORTING_TRANSACTION", t.txn_state = "BEGIN_ABORT",
         t.api = Answered(s.api, "abortable"),
         t.may_enq = FALSE,
         ~Reacquiring(s), t.txn_err = TRUE
  PROVE  Sound(t, {}, a, k, d)
<1>1. /\ ClientOK(s) /\ s.asserts /\ a \in Apps /\ k \in Coords /\ d \in Tolds /\ AppOK(a)
      /\ StatesOK(s) /\ QueueOK(s, a) /\ WireOK(s, W) /\ ListsOK(s, W) /\ CountOK(s, W, k)
      /\ SlotOK(s, a) /\ LogOK(s, k) /\ RepliesOK(s, W, k) /\ PartsOK(s, W, a, k)
      /\ OutcomeOK(s, W, a, k) /\ ToldOK(s, a, k, d)
      /\ SettledOK(s, W, a, d)
      /\ (NoBump => AbortOK(s, W, a, k, d))
      /\ ~s.fatal => OpsOK(s, W, a) /\ CallOK(s, W, a) /\ EndOK(s, a)
  BY DEF Sound
<1>2. /\ t.idemp_state = s.idemp_state /\ t.fatal = s.fatal /\ t.bump = s.bump
      /\ t.req_cnt = s.req_cnt /\ t.dr_fails = s.dr_fails /\ t.pending = s.pending
      /\ t.waitresp = s.waitresp /\ t.rktps = s.rktps /\ t.ops = s.ops /\ t.offc = s.offc
      /\ t.queued = s.queued /\ t.flight = s.flight /\ t.txn = s.txn /\ t.produced = s.produced
      /\ t.asserts = s.asserts /\ t.timedout = s.timedout /\ DOMAIN t = Fields /\ t.timers \subseteq Timers
  BY DEF Same, Fields, Misc
<1>3. /\ At(a, "abort", 3, "wait") /\ s.ops = <<>> /\ ~s.api.has_result /\ s.offc = "none"
      /\ s.queued \cup s.flight = {} /\ ~Has(W, "add_offsets") /\ s.txn_state # "READY"
  BY <1>1 DEF CallOK, QueueOK, At, StatesOK, Aborting
<1>4. \A x : ~Has({}, x)
  BY DEF Has
<1>5. t.txn_state \in TxnStates /\ ~Reacquiring(t)
  BY <1>1, <1>2 DEF TxnStates, Reacquiring, Aborting, StatesOK, Acquiring
<1>6. /\ ApiOK(t.api) /\ t.api.name = s.api.name /\ t.api.calling = s.api.calling
      /\ t.api.has_result /\ t.api.error = "abortable" /\ s.api.error = "none"
  <2>1. s.api.name # "none" /\ s.api.error = "none" /\ ApiOK(s.api) /\ "abortable" \in Errors
    BY <1>1, <1>3 DEF ClientOK, SlotOK, Apis, AppOK, At, InCall, Errors
  <2> QED
    BY <2>1, AnsweredIs
<1>7. ClientOK(t)
  BY <1>1, <1>2, <1>3, <1>4, <1>5, <1>6 DEF ClientOK
<1>8. t.asserts
  BY <1>1, <1>2
<1>9. StatesOK(t)
  BY <1>1, <1>2, <1>3, <1>4, <1>5, <1>6 DEF StatesOK, Acquiring, Outside, Sending, Aborting
<1>10. QueueOK(t, a)
  BY <1>1, <1>2, <1>3 DEF QueueOK, At
<1>11. WireOK(t, {})
  BY <1>5, <1>2 DEF WireOK, Only, Has
<1>12. ListsOK(t, {})
  BY <1>1, <1>2 DEF ListsOK, Outside, Sending
<1>13. CountOK(t, {}, k)
  BY <1>1, <1>2, <1>4, <1>3 DEF CountOK, One, ClientOK
<1>14. SlotOK(t, a)
  BY <1>1, <1>2, <1>6, <1>3 DEF SlotOK, InCall, At
<1>15. ~t.fatal => OpsOK(t, {}, a)
  BY <1>1, <1>2, <1>6, <1>3 DEF OpsOK, At
<1>16. ~t.fatal => CallOK(t, {}, a)
  BY <1>1, <1>2, <1>3, <1>4, <1>5 DEF CallOK
<1>17. ~t.fatal => EndOK(t, a)
  BY <1>1, <1>2, <1>3, <1>6 DEF EndOK, At
<1>18. LogOK(t, k)
  BY <1>1, <1>2 DEF LogOK, Outside
<1>19. RepliesOK(t, {}, k)
  BY DEF RepliesOK
<1>20. PartsOK(t, {}, a, k)
  BY <1>1, <1>2, <1>3 DEF PartsOK, Gathering, Sending, At
<1>21. OutcomeOK(t, {}, a, k)
  BY <1>1, <1>2, <1>3, <1>4 DEF OutcomeOK, Sending, At
<1>22. ToldOK(t, a, k, d)
  BY <1>1, <1>2, <1>3 DEF ToldOK, At
<1>23. NoBump => AbortOK(t, {}, a, k, d)
  BY <1>1, <1>2, <1>3, <1>4, <1>5, <1>6 DEF AbortOK, CommitLost, Of, Reacquiring, Acquiring, Aborting
<1>24. SettledOK(t, {}, a, d)
  BY <1>1, <1>2, <1>3, <1>4, <1>5, <1>6 DEF SettledOK
<1> QED
  BY <1>24, <1>23, <1>1, <1>2, <1>7, <1>8, <1>9, <1>10, <1>11, <1>12, <1>13, <1>14, <1>15, <1>16, <1>17,
  <1>18, <1>19, <1>20, <1>21, <1>22, <1>3, <1>4, <1>5, <1>6 DEF Sound

LEMMA ReacquireSound ==
  ASSUME NEW s, NEW W, NEW a, NEW k, NEW d, Sound(s, W, a, k, d), NEW t,
         Same(s, t, {"idemp_state", "ops"}),
         ~s.fatal, NoBump => s.bump, s.txn_state \in Aborting, ~Reacquiring(s), At(a, "abort", 3, "wait"), ~s.api.has_result,
         t.idemp_state = "REQ_PID", t.ops = <<>>
  PROVE  Sound(t, {}, a, k, d)
<1>1. /\ ClientOK(s) /\ s.asserts /\ a \in Apps /\ k \in Coords /\ d \in Tolds /\ AppOK(a)
      /\ StatesOK(s) /\ QueueOK(s, a) /\ WireOK(s, W) /\ ListsOK(s, W) /\ CountOK(s, W, k)
      /\ SlotOK(s, a) /\ LogOK(s, k) /\ RepliesOK(s, W, k) /\ PartsOK(s, W, a, k)
      /\ OutcomeOK(s, W, a, k) /\ ToldOK(s, a, k, d)
      /\ SettledOK(s, W, a, d)
      /\ (NoBump => AbortOK(s, W, a, k, d))
      /\ ~s.fatal => OpsOK(s, W, a) /\ CallOK(s, W, a) /\ EndOK(s, a)
  BY DEF Sound
<1>2. /\ t.txn_state = s.txn_state /\ t.fatal = s.fatal /\ t.txn_err = s.txn_err
      /\ t.bump = s.bump /\ t.req_cnt = s.req_cnt /\ t.may_enq = s.may_enq
      /\ t.dr_fails = s.dr_fails /\ t.pending = s.pending /\ t.waitresp = s.waitresp
      /\ t.rktps = s.rktps /\ t.api = s.api /\ t.offc = s.offc /\ t.queued = s.queued
      /\ t.flight = s.flight /\ t.txn = s.txn /\ t.produced = s.produced
      /\ t.asserts = s.asserts /\ t.timedout = s.timedout /\ DOMAIN t = Fields /\ t.timers \subseteq Timers
  BY DEF Same, Fields, Misc
<1>3. \A x : ~Has({}, x)
  BY DEF Has
<1>4. /\ s.txn_state \in {"BEGIN_ABORT", "ABORTING_TRANSACTION"} /\ Reacquiring(t) /\ s.txn_state # "READY"
      /\ s.queued \cup s.flight = {} /\ s.offc = "none" 
  BY <1>1, <1>2 DEF Aborting, Reacquiring, Acquiring, QueueOK, At, CallOK
<1>5. ClientOK(t)
  <2>1. t.idemp_state \in IdempStates /\ t.ops \in Seq(OpNames)
    BY DEF IdempStates
  <2> QED
    BY <2>1, <1>1, <1>2 DEF ClientOK
<1>6. t.asserts
  BY <1>1, <1>2
<1>7. StatesOK(t)
  BY <1>1, <1>2, <1>3, <1>4 DEF StatesOK, Acquiring, Outside, Sending, Aborting
<1>8. QueueOK(t, a)
  BY <1>1, <1>2, <1>4 DEF QueueOK, At
<1>9. WireOK(t, {})
  BY <1>4, <1>2 DEF WireOK, Only, Has
<1>10. ListsOK(t, {})
  BY <1>1, <1>2, <1>4 DEF ListsOK, Outside, Sending
<1>11. CountOK(t, {}, k)
  BY <1>1, <1>2, <1>3, <1>4 DEF CountOK, One, ClientOK
<1>12. SlotOK(t, a)
  BY <1>1, <1>2 DEF SlotOK
<1>13. ~t.fatal => OpsOK(t, {}, a)
  BY <1>1, <1>2, <1>4 DEF OpsOK, Pending, At
<1>14. ~t.fatal => CallOK(t, {}, a)
  BY <1>1, <1>2, <1>4, <1>3 DEF CallOK
<1>15. ~t.fatal => EndOK(t, a)
  BY <1>1, <1>2, <1>4 DEF EndOK, At
<1>16. LogOK(t, k)
  BY <1>1, <1>2 DEF LogOK
<1>17. RepliesOK(t, {}, k)
  BY DEF RepliesOK
<1>18. PartsOK(t, {}, a, k)
  BY <1>1, <1>2, <1>4 DEF PartsOK, Gathering, Sending, At
<1>19. OutcomeOK(t, {}, a, k)
  BY <1>1, <1>2, <1>4, <1>3 DEF OutcomeOK, Sending, At
<1>20. ToldOK(t, a, k, d)
  BY <1>1, <1>2 DEF ToldOK
<1>21. NoBump => AbortOK(t, {}, a, k, d)
  BY <1>1, <1>2, <1>3, <1>4 DEF AbortOK, CommitLost, Of, Reacquiring, Acquiring, Aborting
<1>22. SettledOK(t, {}, a, d)
  BY <1>1, <1>2, <1>3, <1>4 DEF SettledOK
<1> QED
  BY <1>22, <1>21, <1>1, <1>2, <1>5, <1>6, <1>7, <1>8, <1>9, <1>10, <1>11, <1>12, <1>13, <1>14, <1>15, <1>16,
  <1>17, <1>18, <1>19, <1>20, <1>3, <1>4 DEF Sound

LEMMA ResultSound ==
  ASSUME NEW s, NEW W, NEW a, NEW k, NEW d, Sound(s, W, a, k, d), NEW t,
         Same(s, t, {"ops", "api"}),
         ~s.fatal, a.at = "wait", s.ops = <<PhaseOf(a)>>, ~s.api.has_result, t.ops = <<>>,
         NEW e \in Errors,
         t.api = Answered(s.api, e),
         s.txn_state \notin {"WAIT_PID", "READY_NOT_ACKED", "COMMIT_NOT_ACKED", "ABORT_NOT_ACKED"},
         e = "none" => ~(a.api \in {"commit", "abort"} /\ a.stage = 3)
  PROVE  Sound(t, W, a, k, d)
<1>1. /\ ClientOK(s) /\ s.asserts /\ a \in Apps /\ k \in Coords /\ d \in Tolds /\ AppOK(a)
      /\ StatesOK(s) /\ QueueOK(s, a) /\ WireOK(s, W) /\ ListsOK(s, W) /\ CountOK(s, W, k)
      /\ SlotOK(s, a) /\ LogOK(s, k) /\ RepliesOK(s, W, k) /\ PartsOK(s, W, a, k)
      /\ OutcomeOK(s, W, a, k) /\ ToldOK(s, a, k, d)
      /\ SettledOK(s, W, a, d)
      /\ (NoBump => AbortOK(s, W, a, k, d))
      /\ ~s.fatal => OpsOK(s, W, a) /\ CallOK(s, W, a) /\ EndOK(s, a)
  BY DEF Sound
<1>2. /\ t.txn_state = s.txn_state /\ t.idemp_state = s.idemp_state /\ t.fatal = s.fatal
      /\ t.txn_err = s.txn_err /\ t.bump = s.bump /\ t.req_cnt = s.req_cnt
      /\ t.may_enq = s.may_enq /\ t.dr_fails = s.dr_fails /\ t.pending = s.pending
      /\ t.waitresp = s.waitresp /\ t.rktps = s.rktps /\ t.offc = s.offc /\ t.queued = s.queued
      /\ t.flight = s.flight /\ t.txn = s.txn /\ t.produced = s.produced
      /\ t.asserts = s.asserts /\ t.timedout = s.timedout /\ DOMAIN t = Fields /\ t.timers \subseteq Timers
  BY DEF Same, Fields, Misc
<1>3. /\ InCall(a) /\ s.api.name = a.api /\ s.api.name # "none" /\ s.api.error = "none" /\ ~Has(W, "add_offsets")
      /\ s.offc = "none" /\ a.at # "produce" /\ s.ops # <<>>
  BY <1>1 DEF InCall, SlotOK, AppOK, Apis, CallOK
<1>4. t.ops \in Seq(OpNames)
  OBVIOUS
<1>5. /\ ApiOK(t.api) /\ t.api.name = s.api.name /\ t.api.calling = s.api.calling
      /\ t.api.has_result /\ t.api.error = e /\ s.api.error = "none"
  <2>1. s.api.name # "none" /\ s.api.error = "none" /\ ApiOK(s.api) /\ e \in Errors
    BY <1>1, <1>3 DEF ClientOK, Errors
  <2> QED
    BY <2>1, AnsweredIs
<1>6. ClientOK(t)
  BY <1>1, <1>2, <1>3, <1>4, <1>5 DEF ClientOK
<1>7. t.asserts
  BY <1>1, <1>2
<1>8. StatesOK(t)
  BY <1>1, <1>2 DEF StatesOK
<1>9. QueueOK(t, a)
  BY <1>1, <1>2 DEF QueueOK, Reacquiring
<1>10. WireOK(t, W)
  BY <1>1, <1>2 DEF WireOK, Reacquiring, Allowed
<1>11. ListsOK(t, W)
  BY <1>1, <1>2 DEF ListsOK
<1>12. CountOK(t, W, k)
  BY <1>1, <1>2 DEF CountOK
<1>13. SlotOK(t, a)
  BY <1>1, <1>2, <1>5, <1>3 DEF SlotOK
<1>14. ~t.fatal => OpsOK(t, W, a)
  BY <1>1, <1>2, <1>5, <1>3 DEF OpsOK
<1>15. ~t.fatal => CallOK(t, W, a)
  BY <1>1, <1>2, <1>3 DEF CallOK, Reacquiring
<1>16. ~t.fatal => EndOK(t, a)
  BY <1>1, <1>2, <1>3, <1>5 DEF EndOK, At
<1>17. LogOK(t, k)
  BY <1>1, <1>2 DEF LogOK
<1>18. RepliesOK(t, W, k)
  BY <1>1, <1>2 DEF RepliesOK
<1>19. PartsOK(t, W, a, k)
  BY <1>1, <1>2 DEF PartsOK, Gathering
<1>20. OutcomeOK(t, W, a, k)
  BY <1>1, <1>2 DEF OutcomeOK
<1>21. ToldOK(t, a, k, d)
  BY <1>1, <1>2, <1>3 DEF ToldOK, EndOK
<1>22. NoBump => AbortOK(t, W, a, k, d)
  BY <1>1, <1>2, <1>3, <1>4, <1>5 DEF AbortOK, CommitLost, Of, Reacquiring, Acquiring, Aborting
<1>23. SettledOK(t, W, a, d)
  BY <1>1, <1>2, <1>3, <1>4, <1>5 DEF SettledOK
<1> QED
  BY <1>23, <1>22, <1>1, <1>2, <1>6, <1>7, <1>8, <1>9, <1>10, <1>11, <1>12, <1>13, <1>14, <1>15, <1>16,
  <1>17, <1>18, <1>19, <1>20, <1>21, <1>3, <1>4, <1>5 DEF Sound

LEMMA InitSound ==
  ASSUME NEW s, NEW W, NEW a, NEW k, NEW d, Sound(s, W, a, k, d), NEW t,
         Same(s, t, {"txn_state", "idemp_state", "may_enq", "ops"}),
         ~s.fatal, a.at = "wait", s.ops = <<PhaseOf(a)>>, ~s.api.has_result, t.ops = <<>>,
         s.txn_state \in {"INIT", "WAIT_PID"}, a.api = "init", a.stage = 1,
         t.txn_state = "WAIT_PID", t.may_enq = FALSE,
         t.idemp_state = "REQ_PID" \/ (t.idemp_state = "WAIT_PID" /\ s.idemp_state = "WAIT_PID" ),
         NEW V, V = W \/ (V = {} /\ t.idemp_state = "REQ_PID"),
         t.idemp_state = "REQ_PID" => W = {}
  PROVE  Sound(t, V, a, k, d)
<1>1. /\ ClientOK(s) /\ s.asserts /\ a \in Apps /\ k \in Coords /\ d \in Tolds /\ AppOK(a)
      /\ StatesOK(s) /\ QueueOK(s, a) /\ WireOK(s, W) /\ ListsOK(s, W) /\ CountOK(s, W, k)
      /\ SlotOK(s, a) /\ LogOK(s, k) /\ RepliesOK(s, W, k) /\ PartsOK(s, W, a, k)
      /\ OutcomeOK(s, W, a, k) /\ ToldOK(s, a, k, d)
      /\ SettledOK(s, W, a, d)
      /\ (NoBump => AbortOK(s, W, a, k, d))
      /\ ~s.fatal => OpsOK(s, W, a) /\ CallOK(s, W, a) /\ EndOK(s, a)
  BY DEF Sound
<1>2. /\ t.fatal = s.fatal /\ t.txn_err = s.txn_err /\ t.bump = s.bump /\ t.req_cnt = s.req_cnt
      /\ t.dr_fails = s.dr_fails /\ t.pending = s.pending /\ t.waitresp = s.waitresp
      /\ t.rktps = s.rktps /\ t.api = s.api /\ t.offc = s.offc /\ t.queued = s.queued
      /\ t.flight = s.flight /\ t.txn = s.txn /\ t.produced = s.produced
      /\ t.asserts = s.asserts /\ t.timedout = s.timedout /\ DOMAIN t = Fields /\ t.timers \subseteq Timers
  BY DEF Same, Fields, Misc
<1>3. /\ InCall(a) /\ s.api.name = a.api /\ s.api.name # "none" /\ s.api.error = "none" /\ ~Has(W, "add_offsets")
      /\ s.offc = "none" /\ a.at # "produce" /\ s.ops # <<>>
  BY <1>1 DEF InCall, SlotOK, AppOK, Apis, CallOK
<1>4. t.ops \in Seq(OpNames)
  OBVIOUS
<1>5. t.txn_state \in TxnStates
  BY DEF TxnStates
<1>6. V = W /\ t.idemp_state \in IdempStates /\ ~Reacquiring(t) /\ ~Reacquiring(s)
  BY <1>1, <1>2 DEF IdempStates, Reacquiring, Aborting
<1>7. ClientOK(t)
  BY <1>1, <1>2, <1>3, <1>4, <1>5, <1>6 DEF ClientOK
<1>8. t.asserts
  BY <1>1, <1>2
<1>9. StatesOK(t)
  BY <1>1, <1>2, <1>3, <1>4, <1>5, <1>6 DEF StatesOK, Acquiring, Outside, Sending, Aborting
<1>10. QueueOK(t, a)
  BY <1>1, <1>2, <1>3, <1>4, <1>5, <1>6 DEF QueueOK, Reacquiring, Apps, Acquiring, Aborting
<1>11. WireOK(t, V)
  <2>1. s.txn_state = "INIT" => W = {}
    BY <1>1 DEF WireOK, Only, Allowed, Reacquiring, Aborting
  <2>2. Only(W, Allowed(t))
    BY <2>1, <1>1 DEF WireOK, Only, Allowed, Reacquiring, Aborting
  <2> QED
    BY <2>2, <1>1, <1>2, <1>6 DEF WireOK
<1>12. ListsOK(t, V)
  BY <1>1, <1>2, <1>6 DEF ListsOK, Outside, Sending
<1>13. CountOK(t, V, k)
  BY <1>1, <1>2, <1>6 DEF CountOK
<1>14. SlotOK(t, a)
  BY <1>1, <1>2 DEF SlotOK
<1>15. ~t.fatal => OpsOK(t, V, a)
  BY <1>1, <1>2, <1>6, <1>3 DEF OpsOK, Pending, At
<1>16. ~t.fatal => CallOK(t, V, a)
  BY <1>1, <1>2, <1>6, <1>3 DEF CallOK
<1>17. ~t.fatal => EndOK(t, a)
  BY <1>1, <1>2, <1>3 DEF EndOK, At
<1>18. LogOK(t, k)
  BY <1>1, <1>2, <1>3, <1>4, <1>5, <1>6 DEF LogOK, Outside
<1>19. RepliesOK(t, V, k)
  BY <1>1, <1>2, <1>6 DEF RepliesOK, Sending
<1>20. PartsOK(t, V, a, k)
  BY <1>1, <1>2, <1>3, <1>4, <1>5, <1>6 DEF PartsOK, Gathering, Sending
<1>21. OutcomeOK(t, V, a, k)
  BY <1>1, <1>2, <1>6 DEF OutcomeOK, Sending
<1>22. ToldOK(t, a, k, d)
  BY <1>1, <1>2, <1>3, <1>4, <1>5, <1>6 DEF ToldOK, Of, Apps
<1>23. NoBump => AbortOK(t, V, a, k, d)
  BY <1>1, <1>2, <1>3, <1>4, <1>5, <1>6 DEF AbortOK, CommitLost, Of, Reacquiring, Acquiring, Aborting
<1>24. SettledOK(t, V, a, d)
  BY <1>1, <1>2, <1>3, <1>4, <1>5, <1>6 DEF SettledOK
<1> QED
  BY <1>24, <1>23, <1>1, <1>2, <1>7, <1>8, <1>9, <1>10, <1>11, <1>12, <1>13, <1>14, <1>15, <1>16, <1>17,
  <1>18, <1>19, <1>20, <1>21, <1>22, <1>3, <1>4, <1>5, <1>6 DEF Sound

LEMMA InitOpSound ==
  ASSUME NEW s, NEW W, NEW a, NEW k, NEW d, Sound(s, W, a, k, d), NEW t,
         Same(s, t, {"ops"}),
         ~s.fatal, s.txn_state = "READY_NOT_ACKED", InitOps(s, a),
         t.ops = Tail(s.ops)
  PROVE  Sound(t, W, a, k, d)
<1>1. /\ ClientOK(s) /\ s.asserts /\ a \in Apps /\ k \in Coords /\ d \in Tolds /\ AppOK(a)
      /\ StatesOK(s) /\ QueueOK(s, a) /\ WireOK(s, W) /\ ListsOK(s, W) /\ CountOK(s, W, k)
      /\ SlotOK(s, a) /\ LogOK(s, k) /\ RepliesOK(s, W, k) /\ PartsOK(s, W, a, k)
      /\ OutcomeOK(s, W, a, k) /\ ToldOK(s, a, k, d)
      /\ SettledOK(s, W, a, d)
      /\ (NoBump => AbortOK(s, W, a, k, d))
      /\ ~s.fatal => OpsOK(s, W, a) /\ CallOK(s, W, a) /\ EndOK(s, a)
  BY DEF Sound
<1>2. /\ t.txn_state = s.txn_state /\ t.idemp_state = s.idemp_state /\ t.fatal = s.fatal
      /\ t.txn_err = s.txn_err /\ t.bump = s.bump /\ t.req_cnt = s.req_cnt
      /\ t.may_enq = s.may_enq /\ t.dr_fails = s.dr_fails /\ t.pending = s.pending
      /\ t.waitresp = s.waitresp /\ t.rktps = s.rktps /\ t.api = s.api /\ t.offc = s.offc
      /\ t.queued = s.queued /\ t.flight = s.flight /\ t.txn = s.txn /\ t.produced = s.produced
      /\ t.asserts = s.asserts /\ t.timedout = s.timedout /\ DOMAIN t = Fields /\ t.timers \subseteq Timers
  BY DEF Same, Fields, Misc
<1>3. t.ops \in Seq(OpNames) /\ (s.ops = <<"init">> => t.ops = <<>>) /\ (s.ops = <<"init", "init_ack">> => t.ops = <<"init_ack">>)
  <2>1. s.ops = <<"init">> \/ s.ops = <<"init", "init_ack">>
    BY DEF InitOps
  <2>2. (s.ops = <<"init">> => t.ops = <<>>) /\ (s.ops = <<"init", "init_ack">> => t.ops = <<"init_ack">>)
    BY TailTwo
  <2>3. <<>> \in Seq(OpNames) /\ <<"init_ack">> \in Seq(OpNames)
    BY DEF OpNames
  <2> QED
    BY <2>1, <2>2, <2>3
<1>4. At(a, "init", 2, "wait") => PhaseOf(a) = "init_ack"
  BY <1>1, PhaseIs DEF At, InCall
<1>5. ClientOK(t)
  BY <1>1, <1>2, <1>3, <1>4 DEF ClientOK
<1>6. t.asserts
  BY <1>1, <1>2
<1>7. StatesOK(t)
  BY <1>1, <1>2 DEF StatesOK
<1>8. QueueOK(t, a)
  BY <1>1, <1>2 DEF QueueOK, Reacquiring
<1>9. WireOK(t, W)
  BY <1>1, <1>2 DEF WireOK, Reacquiring, Allowed
<1>10. ListsOK(t, W)
  BY <1>1, <1>2 DEF ListsOK
<1>11. CountOK(t, W, k)
  BY <1>1, <1>2 DEF CountOK
<1>12. SlotOK(t, a)
  BY <1>1, <1>2 DEF SlotOK
<1>13. ~t.fatal => OpsOK(t, W, a)
  <2>1. CASE At(a, "init", 1, "wait") /\ s.ops = <<"init">> /\ s.api.has_result
    BY <2>1, <1>2, <1>3 DEF OpsOK, At
  <2>2. CASE At(a, "init", 2, "enter") /\ s.ops = <<"init">> /\ ~s.api.has_result
    BY <2>2, <1>2, <1>3 DEF OpsOK, At
  <2>3. CASE At(a, "init", 2, "wait") /\ s.ops = <<"init", "init_ack">> /\ ~s.api.has_result
    BY <2>3, <1>2, <1>3, <1>4 DEF OpsOK, At
  <2> QED
    BY <2>1, <2>2, <2>3 DEF InitOps
<1>14. ~t.fatal => CallOK(t, W, a)
  <2>1. s.offc = "none" /\ ~Has(W, "add_offsets")
    BY <1>1 DEF CallOK
  <2> QED
    BY <2>1, <1>1, <1>2 DEF CallOK, Reacquiring, Aborting
<1>15. ~t.fatal => EndOK(t, a)
  BY <1>1, <1>2 DEF EndOK, At, InitOps
<1>16. LogOK(t, k)
  BY <1>1, <1>2 DEF LogOK
<1>17. RepliesOK(t, W, k)
  BY <1>1, <1>2 DEF RepliesOK
<1>18. PartsOK(t, W, a, k)
  BY <1>1, <1>2 DEF PartsOK, Gathering
<1>19. OutcomeOK(t, W, a, k)
  BY <1>1, <1>2 DEF OutcomeOK
<1>20. ToldOK(t, a, k, d)
  BY <1>1, <1>2 DEF ToldOK
<1>21. NoBump => AbortOK(t, W, a, k, d)
  BY <1>1, <1>2, <1>3, <1>4 DEF AbortOK, CommitLost, Of, Reacquiring, Acquiring, Aborting
<1>22. SettledOK(t, W, a, d)
  BY <1>1, <1>2, <1>3, <1>4 DEF SettledOK
<1> QED
  BY <1>22, <1>21, <1>1, <1>2, <1>5, <1>6, <1>7, <1>8, <1>9, <1>10, <1>11, <1>12, <1>13, <1>14, <1>15, <1>16,
  <1>17, <1>18, <1>19, <1>20, <1>3, <1>4 DEF Sound

LEMMA InitAckSound ==
  ASSUME NEW s, NEW W, NEW a, NEW k, NEW d, Sound(s, W, a, k, d), NEW t,
         Same(s, t, {"txn_state", "may_enq", "ops", "api"}),
         ~s.fatal, a.at = "wait", s.ops = <<PhaseOf(a)>>, ~s.api.has_result, t.ops = <<>>,
         t.api = Answered(s.api, "none"),
         s.txn_state = "READY_NOT_ACKED", a.api = "init", a.stage = 2, t.txn_state = "READY", t.may_enq = FALSE
  PROVE  Sound(t, W, a, k, d)
<1>1. /\ ClientOK(s) /\ s.asserts /\ a \in Apps /\ k \in Coords /\ d \in Tolds /\ AppOK(a)
      /\ StatesOK(s) /\ QueueOK(s, a) /\ WireOK(s, W) /\ ListsOK(s, W) /\ CountOK(s, W, k)
      /\ SlotOK(s, a) /\ LogOK(s, k) /\ RepliesOK(s, W, k) /\ PartsOK(s, W, a, k)
      /\ OutcomeOK(s, W, a, k) /\ ToldOK(s, a, k, d)
      /\ SettledOK(s, W, a, d)
      /\ (NoBump => AbortOK(s, W, a, k, d))
      /\ ~s.fatal => OpsOK(s, W, a) /\ CallOK(s, W, a) /\ EndOK(s, a)
  BY DEF Sound
<1>2. /\ t.idemp_state = s.idemp_state /\ t.fatal = s.fatal /\ t.txn_err = s.txn_err
      /\ t.bump = s.bump /\ t.req_cnt = s.req_cnt /\ t.dr_fails = s.dr_fails
      /\ t.pending = s.pending /\ t.waitresp = s.waitresp /\ t.rktps = s.rktps
      /\ t.offc = s.offc /\ t.queued = s.queued /\ t.flight = s.flight /\ t.txn = s.txn
      /\ t.produced = s.produced /\ t.asserts = s.asserts /\ t.timedout = s.timedout /\ DOMAIN t = Fields
      /\ t.timers \subseteq Timers
  BY DEF Same, Fields, Misc
<1>3. /\ InCall(a) /\ s.api.name = a.api /\ s.api.name # "none" /\ s.api.error = "none" /\ ~Has(W, "add_offsets")
      /\ s.offc = "none" /\ a.at # "produce" /\ s.ops # <<>>
  BY <1>1 DEF InCall, SlotOK, AppOK, Apis, CallOK
<1>4. t.ops \in Seq(OpNames)
  OBVIOUS
<1>5. /\ ApiOK(t.api) /\ t.api.name = s.api.name /\ t.api.calling = s.api.calling
      /\ t.api.has_result /\ t.api.error = "none" /\ s.api.error = "none"
  <2>1. s.api.name # "none" /\ s.api.error = "none" /\ ApiOK(s.api) /\ "none" \in Errors
    BY <1>1, <1>3 DEF ClientOK, Errors
  <2> QED
    BY <2>1, AnsweredIs
<1>6. t.txn_state \in TxnStates
  BY DEF TxnStates
<1>7. ClientOK(t)
  BY <1>1, <1>2, <1>3, <1>4, <1>5, <1>6 DEF ClientOK
<1>8. t.asserts
  BY <1>1, <1>2
<1>9. StatesOK(t)
  BY <1>1, <1>2, <1>3, <1>4, <1>5, <1>6 DEF StatesOK, Acquiring, Outside, Sending, Aborting
<1>10. QueueOK(t, a)
  BY <1>1, <1>2, <1>3, <1>4, <1>5, <1>6 DEF QueueOK, Reacquiring, Apps, Acquiring, Aborting
<1>11. WireOK(t, W)
  BY <1>1, <1>2 DEF WireOK, Only, Allowed, Reacquiring, Aborting
<1>12. ListsOK(t, W)
  BY <1>1, <1>2, <1>3, <1>4, <1>5, <1>6 DEF ListsOK, Has, Outside, Sending
<1>13. CountOK(t, W, k)
  BY <1>1, <1>2, <1>3, <1>4, <1>5, <1>6 DEF CountOK, One, Has
<1>14. SlotOK(t, a)
  BY <1>1, <1>2, <1>5, <1>3 DEF SlotOK
<1>15. ~t.fatal => OpsOK(t, W, a)
  BY <1>1, <1>2, <1>5, <1>3 DEF OpsOK
<1>16. ~t.fatal => CallOK(t, W, a)
  BY <1>1, <1>2, <1>3 DEF CallOK, Reacquiring, Aborting
<1>17. ~t.fatal => EndOK(t, a)
  BY <1>1, <1>2, <1>3 DEF EndOK, At
<1>18. LogOK(t, k)
  BY <1>1, <1>2, <1>3, <1>4, <1>5, <1>6 DEF LogOK, Outside
<1>19. RepliesOK(t, W, k)
  BY <1>1, <1>2 DEF RepliesOK, Sending
<1>20. PartsOK(t, W, a, k)
  BY <1>1, <1>2, <1>3, <1>4, <1>5, <1>6 DEF PartsOK, Gathering, Sending
<1>21. OutcomeOK(t, W, a, k)
  BY <1>1, <1>2, <1>3, <1>4, <1>5, <1>6 DEF OutcomeOK, Of, Has, Sending
<1>22. ToldOK(t, a, k, d)
  BY <1>1, <1>2, <1>3 DEF ToldOK
<1>23. NoBump => AbortOK(t, W, a, k, d)
  BY <1>1, <1>2, <1>3, <1>4, <1>5, <1>6 DEF AbortOK, CommitLost, Of, Reacquiring, Acquiring, Aborting
<1>24. SettledOK(t, W, a, d)
  BY <1>1, <1>2, <1>3, <1>4, <1>5, <1>6 DEF SettledOK
<1> QED
  BY <1>24, <1>23, <1>1, <1>2, <1>7, <1>8, <1>9, <1>10, <1>11, <1>12, <1>13, <1>14, <1>15, <1>16, <1>17,
  <1>18, <1>19, <1>20, <1>21, <1>22, <1>3, <1>4, <1>5, <1>6 DEF Sound

LEMMA BeginSound ==
  ASSUME NEW s, NEW W, NEW a, NEW k, NEW d, Sound(s, W, a, k, d), NEW t,
         Same(s, t, {"txn_state", "dr_fails", "txn_err", "may_enq", "txn", "ops", "api"}),
         ~s.fatal, a.at = "wait", s.ops = <<PhaseOf(a)>>, ~s.api.has_result, t.ops = <<>>,
         t.api = Answered(s.api, "none"),
         s.txn_state = "READY", a.api = "begin", a.stage = 1, t.txn_state = "IN_TRANSACTION",
         t.dr_fails = FALSE, t.txn_err = FALSE, t.may_enq = TRUE, t.txn = s.txn + 1
  PROVE  Sound(t, W, a, k, d)
<1>1. /\ ClientOK(s) /\ s.asserts /\ a \in Apps /\ k \in Coords /\ d \in Tolds /\ AppOK(a)
      /\ StatesOK(s) /\ QueueOK(s, a) /\ WireOK(s, W) /\ ListsOK(s, W) /\ CountOK(s, W, k)
      /\ SlotOK(s, a) /\ LogOK(s, k) /\ RepliesOK(s, W, k) /\ PartsOK(s, W, a, k)
      /\ OutcomeOK(s, W, a, k) /\ ToldOK(s, a, k, d)
      /\ SettledOK(s, W, a, d)
      /\ (NoBump => AbortOK(s, W, a, k, d))
      /\ ~s.fatal => OpsOK(s, W, a) /\ CallOK(s, W, a) /\ EndOK(s, a)
  BY DEF Sound
<1>2. /\ t.idemp_state = s.idemp_state /\ t.fatal = s.fatal /\ t.bump = s.bump
      /\ t.req_cnt = s.req_cnt /\ t.pending = s.pending /\ t.waitresp = s.waitresp
      /\ t.rktps = s.rktps /\ t.offc = s.offc /\ t.queued = s.queued /\ t.flight = s.flight
      /\ t.produced = s.produced /\ t.asserts = s.asserts /\ t.timedout = s.timedout /\ DOMAIN t = Fields
      /\ t.timers \subseteq Timers
  BY DEF Same, Fields, Misc
<1>3. /\ InCall(a) /\ s.api.name = a.api /\ s.api.name # "none" /\ s.api.error = "none" /\ ~Has(W, "add_offsets")
      /\ s.offc = "none" /\ a.at # "produce" /\ s.ops # <<>>
  BY <1>1 DEF InCall, SlotOK, AppOK, Apis, CallOK
<1>4. t.ops \in Seq(OpNames)
  OBVIOUS
<1>5. /\ ApiOK(t.api) /\ t.api.name = s.api.name /\ t.api.calling = s.api.calling
      /\ t.api.has_result /\ t.api.error = "none" /\ s.api.error = "none"
  <2>1. s.api.name # "none" /\ s.api.error = "none" /\ ApiOK(s.api) /\ "none" \in Errors
    BY <1>1, <1>3 DEF ClientOK, Errors
  <2> QED
    BY <2>1, AnsweredIs
<1>6. t.txn_state \in TxnStates
  BY DEF TxnStates
<1>7. /\ s.txn \in 0 .. MaxTxns /\ s.txn < MaxTxns /\ MaxTxns \in Nat /\ t.txn \in 1 .. MaxTxns /\ t.txn = s.txn + 1
  BY <1>1, <1>3, TxnBounds DEF EndOK, At, ClientOK
<1>8. /\ W = {} /\ s.queued \cup s.flight = {} /\ s.pending = {} /\ s.waitresp = {} /\ s.rktps = {} /\ s.req_cnt = 0
  BY <1>1 DEF WireOK, Only, Allowed, Reacquiring, Aborting, QueueOK, ListsOK, Outside, StatesOK
<1>9. \A m \in k.written \cup s.produced : m \in Messages /\ m[1] \in Nat /\ m[1] <= s.txn /\ m[1] # t.txn
  <2>1. \A m \in k.written \cup s.produced : m \in Messages /\ m[1] <= s.txn
    BY <1>1 DEF LogOK, Coords, ClientOK
  <2>2. \A m \in Messages : m[1] \in 1 .. MaxTxns
    BY DEF Messages
  <2> QED
    BY <2>1, <2>2, <1>7
<1>10. Of(t.txn, s.produced) = {} /\ Of(t.txn, k.written) = {} /\ Of(t.txn, k.committed) = {} /\ Of(t.txn, k.aborted) = {}
  BY <1>1, <1>9 DEF Of, LogOK
<1>11. \A x : ~Has(W, x)
  BY <1>8 DEF Has
<1>12. ClientOK(t)
  <2>1. t.txn \in 0 .. MaxTxns
    BY <1>7
  <2> QED
    BY <2>1, <1>1, <1>2, <1>4, <1>5, <1>6 DEF ClientOK
<1>13. t.asserts
  BY <1>1, <1>2
<1>14. StatesOK(t)
  BY <1>1, <1>2, <1>3, <1>4, <1>5, <1>6, <1>7, <1>8, <1>9, <1>10, <1>11 DEF StatesOK,
  Acquiring, Outside, Sending, Aborting
<1>15. QueueOK(t, a)
  BY <1>1, <1>2, <1>8, <1>3 DEF QueueOK
<1>16. WireOK(t, W)
  BY <1>1, <1>2, <1>8 DEF WireOK, Only, Has, Reacquiring, Aborting
<1>17. ListsOK(t, W)
  BY <1>1, <1>2, <1>8 DEF ListsOK, Outside
<1>18. CountOK(t, W, k)
  <2>1. <<t.txn, OFF>> \notin k.written
    BY <1>10 DEF Of
  <2> QED
    BY <2>1, <1>2, <1>8, <1>11, <1>3 DEF CountOK, One
<1>19. SlotOK(t, a)
  BY <1>1, <1>2, <1>5, <1>3 DEF SlotOK
<1>20. ~t.fatal => OpsOK(t, W, a)
  BY <1>1, <1>2, <1>5, <1>3 DEF OpsOK
<1>21. ~t.fatal => CallOK(t, W, a)
  BY <1>1, <1>2, <1>3 DEF CallOK, Reacquiring, Aborting
<1>22. ~t.fatal => EndOK(t, a)
  BY <1>1, <1>2, <1>3 DEF EndOK, At
<1>23. LogOK(t, k)
  <2>1. k.written \subseteq k.committed \cup k.aborted
    BY <1>1 DEF LogOK, Outside
  <2> QED
    BY <2>1, <1>1, <1>2, <1>9, <1>8, <1>7 DEF LogOK, Outside
<1>24. RepliesOK(t, W, k)
  BY <1>8 DEF RepliesOK
<1>25. PartsOK(t, W, a, k)
  BY <1>1, <1>2, <1>8, <1>3 DEF PartsOK
<1>26. OutcomeOK(t, W, a, k)
  BY <1>1, <1>2, <1>10 DEF OutcomeOK
<1>27. ToldOK(t, a, k, d)
  <2>1. \A u \in 1 .. MaxTxns : d[u] # "none" => u < t.txn
    BY <1>1, <1>7 DEF ToldOK
  <2> QED
    BY <2>1, <1>1, <1>2 DEF ToldOK
<1>28. NoBump => AbortOK(t, W, a, k, d)
  BY <1>1, <1>2, <1>3, <1>4, <1>5, <1>6, <1>7, <1>8, <1>9, <1>10, <1>11 DEF AbortOK, CommitLost, Of, Reacquiring, Acquiring, Aborting
<1>29. SettledOK(t, W, a, d)
  BY <1>1, <1>2, <1>3, <1>4, <1>5, <1>6, <1>7, <1>8, <1>9, <1>10, <1>11 DEF SettledOK
<1> QED
  BY <1>29, <1>28, <1>1, <1>2, <1>12, <1>13, <1>14, <1>15, <1>16, <1>17, <1>18, <1>19, <1>20, <1>21, <1>22,
  <1>23, <1>24, <1>25, <1>26, <1>27, <1>3, <1>4, <1>5, <1>6, <1>7, <1>8, <1>9, <1>10, <1>11 DEF
  Sound

LEMMA OffsetsSendSound ==
  ASSUME NEW s, NEW W, NEW a, NEW k, NEW d, Sound(s, W, a, k, d), NEW t,
         Same(s, t, {"req_cnt", "ops"}),
         ~s.fatal, a.at = "wait", s.ops = <<PhaseOf(a)>>, ~s.api.has_result, t.ops = <<>>,
         s.txn_state = "IN_TRANSACTION", a.api = "offsets", a.stage = 1,
         NEW q, q = Request("add_offsets", {OFF}), NEW V, V = W \cup {q},
         t.req_cnt = s.req_cnt + 1
  PROVE  Sound(t, V, a, k, d)
<1>1. /\ ClientOK(s) /\ s.asserts /\ a \in Apps /\ k \in Coords /\ d \in Tolds /\ AppOK(a)
      /\ StatesOK(s) /\ QueueOK(s, a) /\ WireOK(s, W) /\ ListsOK(s, W) /\ CountOK(s, W, k)
      /\ SlotOK(s, a) /\ LogOK(s, k) /\ RepliesOK(s, W, k) /\ PartsOK(s, W, a, k)
      /\ OutcomeOK(s, W, a, k) /\ ToldOK(s, a, k, d)
      /\ SettledOK(s, W, a, d)
      /\ (NoBump => AbortOK(s, W, a, k, d))
      /\ ~s.fatal => OpsOK(s, W, a) /\ CallOK(s, W, a) /\ EndOK(s, a)
  BY DEF Sound
<1>2. /\ t.txn_state = s.txn_state /\ t.idemp_state = s.idemp_state /\ t.fatal = s.fatal
      /\ t.txn_err = s.txn_err /\ t.bump = s.bump /\ t.may_enq = s.may_enq
      /\ t.dr_fails = s.dr_fails /\ t.pending = s.pending /\ t.waitresp = s.waitresp
      /\ t.rktps = s.rktps /\ t.api = s.api /\ t.offc = s.offc /\ t.queued = s.queued
      /\ t.flight = s.flight /\ t.txn = s.txn /\ t.produced = s.produced
      /\ t.asserts = s.asserts /\ t.timedout = s.timedout /\ DOMAIN t = Fields /\ t.timers \subseteq Timers
  BY DEF Same, Fields, Misc
<1>3. /\ InCall(a) /\ s.api.name = a.api /\ s.api.name # "none" /\ s.api.error = "none" /\ ~Has(W, "add_offsets")
      /\ s.offc = "none" /\ a.at # "produce" /\ s.ops # <<>>
  BY <1>1 DEF InCall, SlotOK, AppOK, Apis, CallOK
<1>4. t.ops \in Seq(OpNames)
  OBVIOUS
<1>5. q \in Requests /\ q.kind = "add_offsets" /\ q.parts = {OFF} /\ q.reply = "none"
  BY DEF Request, Requests, Kinds, Replies
<1>6. \A r \in W : r.kind # "add_offsets" /\ r.kind \notin Last
  BY <1>1, <1>3 DEF WireOK, Only, Allowed, Has, Last, Reacquiring, Aborting
<1>7. Has(V, "add_offsets") /\ (Has(V, "add_parts") <=> Has(W, "add_parts"))
  BY <1>5, <1>6 DEF Has
<1>8. ClientOK(t)
  BY <1>1, <1>2, <1>3, <1>4, <1>5, <1>6, <1>7 DEF ClientOK
<1>9. t.asserts
  BY <1>1, <1>2
<1>10. StatesOK(t)
  BY <1>1, <1>2 DEF StatesOK
<1>11. QueueOK(t, a)
  BY <1>1, <1>2 DEF QueueOK, Reacquiring
<1>12. WireOK(t, V)
  <2>1. Allowed(t) = Allowed(s) /\ "add_offsets" \in Allowed(s) /\ ~Reacquiring(t)
    BY <1>2 DEF Allowed, Reacquiring, Aborting
  <2>2. Only(V, Allowed(t))
    BY <2>1, <1>1, <1>5 DEF WireOK, Only
  <2>3. \A p, u \in V : p.kind = u.kind => p = u
    BY <1>1, <1>5, <1>6 DEF WireOK
  <2>4. \A p \in V : p.kind \notin Last
    BY <1>5, <1>6 DEF Last
  <2> QED
    BY <2>1, <2>2, <2>3, <2>4, <1>1, <1>2, <1>5 DEF WireOK
<1>13. ListsOK(t, V)
  BY <1>1, <1>2, <1>5, <1>6, <1>7 DEF ListsOK, Outside
<1>14. CountOK(t, V, k)
  <2> DEFINE P == One(~s.fatal /\ s.rktps # {})
  <2> DEFINE Q == One(~s.fatal /\ (s.offc # "none" \/ <<s.txn, OFF>> \in k.written))
  <2>1. /\ One(Has(W, "add_offsets")) = 0 /\ One(Has(V, "add_offsets")) = 1
        /\ One(Has(V, "add_parts")) = One(Has(W, "add_parts")) /\ One(Has(W, "add_parts")) \in 0 .. 1
    BY <1>7, <1>3 DEF One
  <2>2. P \in 0 .. 1 /\ Q \in 0 .. 1
    BY DEF One
  <2>3. s.req_cnt \in Int /\ s.req_cnt >= One(Has(W, "add_parts")) + One(Has(W, "add_offsets")) + P + Q
    BY <1>1 DEF CountOK, ClientOK
  <2>4. P = One(~t.fatal /\ t.rktps # {}) /\ Q = One(~t.fatal /\ (t.offc # "none" \/ <<t.txn, OFF>> \in k.written))
    BY <1>2
  <2> HIDE DEF P, Q
  <2>5. t.req_cnt >= One(Has(V, "add_parts")) + One(Has(V, "add_offsets")) + P + Q
    BY <2>1, <2>2, <2>3, <1>2
  <2> QED
    BY <2>4, <2>5 DEF CountOK
<1>15. SlotOK(t, a)
  BY <1>1, <1>2 DEF SlotOK
<1>16. ~t.fatal => OpsOK(t, V, a)
  BY <1>1, <1>2, <1>7, <1>3 DEF OpsOK, Pending, At
<1>17. ~t.fatal => CallOK(t, V, a)
  BY <1>1, <1>2, <1>7, <1>3 DEF CallOK, At, Reacquiring, Aborting
<1>18. ~t.fatal => EndOK(t, a)
  BY <1>1, <1>2, <1>3 DEF EndOK, At
<1>19. LogOK(t, k)
  BY <1>1, <1>2 DEF LogOK
<1>20. RepliesOK(t, V, k)
  BY <1>1, <1>2, <1>5 DEF RepliesOK, Last
<1>21. PartsOK(t, V, a, k)
  BY <1>1, <1>2, <1>3, <1>4, <1>5, <1>6, <1>7 DEF PartsOK, Gathering, Sending
<1>22. OutcomeOK(t, V, a, k)
  BY <1>1, <1>2, <1>7 DEF OutcomeOK, Sending
<1>23. ToldOK(t, a, k, d)
  BY <1>1, <1>2 DEF ToldOK
<1>24. NoBump => AbortOK(t, V, a, k, d)
  BY <1>1, <1>2, <1>3, <1>4, <1>5, <1>6, <1>7 DEF AbortOK, CommitLost, Of, Reacquiring, Acquiring, Aborting
<1>25. SettledOK(t, V, a, d)
  BY <1>1, <1>2, <1>3, <1>4, <1>5, <1>6, <1>7 DEF SettledOK
<1> QED
  BY <1>25, <1>24, <1>1, <1>2, <1>8, <1>9, <1>10, <1>11, <1>12, <1>13, <1>14, <1>15, <1>16, <1>17, <1>18,
  <1>19, <1>20, <1>21, <1>22, <1>23, <1>3, <1>4, <1>5, <1>6, <1>7 DEF Sound

LEMMA BeginCommitSound ==
  ASSUME NEW s, NEW W, NEW a, NEW k, NEW d, Sound(s, W, a, k, d), NEW t,
         Same(s, t, {"txn_state", "may_enq", "ops", "api"}),
         ~s.fatal, a.at = "wait", s.ops = <<PhaseOf(a)>>, ~s.api.has_result, t.ops = <<>>,
         t.api = Answered(s.api, "none"),
         s.txn_state = "IN_TRANSACTION", a.api = "commit", a.stage = 1, t.txn_state = "BEGIN_COMMIT", t.may_enq = FALSE
  PROVE  Sound(t, W, a, k, d)
<1>1. /\ ClientOK(s) /\ s.asserts /\ a \in Apps /\ k \in Coords /\ d \in Tolds /\ AppOK(a)
      /\ StatesOK(s) /\ QueueOK(s, a) /\ WireOK(s, W) /\ ListsOK(s, W) /\ CountOK(s, W, k)
      /\ SlotOK(s, a) /\ LogOK(s, k) /\ RepliesOK(s, W, k) /\ PartsOK(s, W, a, k)
      /\ OutcomeOK(s, W, a, k) /\ ToldOK(s, a, k, d)
      /\ SettledOK(s, W, a, d)
      /\ (NoBump => AbortOK(s, W, a, k, d))
      /\ ~s.fatal => OpsOK(s, W, a) /\ CallOK(s, W, a) /\ EndOK(s, a)
  BY DEF Sound
<1>2. /\ t.idemp_state = s.idemp_state /\ t.fatal = s.fatal /\ t.txn_err = s.txn_err
      /\ t.bump = s.bump /\ t.req_cnt = s.req_cnt /\ t.dr_fails = s.dr_fails
      /\ t.pending = s.pending /\ t.waitresp = s.waitresp /\ t.rktps = s.rktps
      /\ t.offc = s.offc /\ t.queued = s.queued /\ t.flight = s.flight /\ t.txn = s.txn
      /\ t.produced = s.produced /\ t.asserts = s.asserts /\ t.timedout = s.timedout /\ DOMAIN t = Fields
      /\ t.timers \subseteq Timers
  BY DEF Same, Fields, Misc
<1>3. /\ InCall(a) /\ s.api.name = a.api /\ s.api.name # "none" /\ s.api.error = "none" /\ ~Has(W, "add_offsets")
      /\ s.offc = "none" /\ a.at # "produce" /\ s.ops # <<>>
  BY <1>1 DEF InCall, SlotOK, AppOK, Apis, CallOK
<1>4. t.ops \in Seq(OpNames)
  OBVIOUS
<1>5. /\ ApiOK(t.api) /\ t.api.name = s.api.name /\ t.api.calling = s.api.calling
      /\ t.api.has_result /\ t.api.error = "none" /\ s.api.error = "none"
  <2>1. s.api.name # "none" /\ s.api.error = "none" /\ ApiOK(s.api) /\ "none" \in Errors
    BY <1>1, <1>3 DEF ClientOK, Errors
  <2> QED
    BY <2>1, AnsweredIs
<1>6. t.txn_state \in TxnStates
  BY DEF TxnStates
<1>7. ClientOK(t)
  BY <1>1, <1>2, <1>3, <1>4, <1>5, <1>6 DEF ClientOK
<1>8. t.asserts
  BY <1>1, <1>2
<1>9. StatesOK(t)
  BY <1>1, <1>2, <1>3, <1>4, <1>5, <1>6 DEF StatesOK, Acquiring, Outside, Sending, Aborting
<1>10. QueueOK(t, a)
  BY <1>1, <1>2, <1>3, <1>4, <1>5, <1>6 DEF QueueOK, Reacquiring, Apps, Acquiring, Aborting,
  Sending
<1>11. WireOK(t, W)
  <2>1. Only(W, Allowed(t))
    BY <1>1, <1>3 DEF WireOK, Only, Allowed, Has, Reacquiring, Aborting
  <2> QED
    BY <2>1, <1>1, <1>2 DEF WireOK, Reacquiring, Aborting
<1>12. ListsOK(t, W)
  BY <1>1, <1>2 DEF ListsOK, Outside, Sending
<1>13. CountOK(t, W, k)
  BY <1>1, <1>2, <1>3, <1>4, <1>5, <1>6 DEF CountOK, One, Has
<1>14. SlotOK(t, a)
  BY <1>1, <1>2, <1>5, <1>3 DEF SlotOK
<1>15. ~t.fatal => OpsOK(t, W, a)
  BY <1>1, <1>2, <1>5, <1>3 DEF OpsOK
<1>16. ~t.fatal => CallOK(t, W, a)
  BY <1>1, <1>2, <1>3 DEF CallOK, Reacquiring, Aborting
<1>17. ~t.fatal => EndOK(t, a)
  BY <1>1, <1>2, <1>3 DEF EndOK, At
<1>18. LogOK(t, k)
  BY <1>1, <1>2, <1>3, <1>4, <1>5, <1>6 DEF LogOK, Outside
<1>19. RepliesOK(t, W, k)
  BY <1>1, <1>2 DEF RepliesOK, Sending
<1>20. PartsOK(t, W, a, k)
  BY <1>1, <1>2, <1>3, <1>4, <1>5, <1>6 DEF PartsOK, Gathering, Sending
<1>21. OutcomeOK(t, W, a, k)
  BY <1>1, <1>2 DEF OutcomeOK, Sending
<1>22. ToldOK(t, a, k, d)
  BY <1>1, <1>2, <1>3 DEF ToldOK
<1>23. NoBump => AbortOK(t, W, a, k, d)
  BY <1>1, <1>2, <1>3, <1>4, <1>5, <1>6 DEF AbortOK, CommitLost, Of, Reacquiring, Acquiring, Aborting
<1>24. SettledOK(t, W, a, d)
  BY <1>1, <1>2, <1>3, <1>4, <1>5, <1>6 DEF SettledOK
<1> QED
  BY <1>24, <1>23, <1>1, <1>2, <1>7, <1>8, <1>9, <1>10, <1>11, <1>12, <1>13, <1>14, <1>15, <1>16, <1>17,
  <1>18, <1>19, <1>20, <1>21, <1>22, <1>3, <1>4, <1>5, <1>6 DEF Sound

LEMMA BeginAbortSound ==
  ASSUME NEW s, NEW W, NEW a, NEW k, NEW d, Sound(s, W, a, k, d), NEW t,
         Same(s, t, {"txn_state", "may_enq", "pending", "waitresp", "ops", "api"}),
         ~s.fatal, a.at = "wait", s.ops = <<PhaseOf(a)>>, ~s.api.has_result, t.ops = <<>>,
         t.api = Answered(s.api, "none"),
         s.txn_state \in {"IN_TRANSACTION", "ABORTABLE_ERROR"}, a.api = "abort", a.stage = 1, t.txn_state = "BEGIN_ABORT", t.may_enq = FALSE,
         t.pending = {}, t.waitresp = {}
  PROVE  Sound(t, W, a, k, d)
<1>1. /\ ClientOK(s) /\ s.asserts /\ a \in Apps /\ k \in Coords /\ d \in Tolds /\ AppOK(a)
      /\ StatesOK(s) /\ QueueOK(s, a) /\ WireOK(s, W) /\ ListsOK(s, W) /\ CountOK(s, W, k)
      /\ SlotOK(s, a) /\ LogOK(s, k) /\ RepliesOK(s, W, k) /\ PartsOK(s, W, a, k)
      /\ OutcomeOK(s, W, a, k) /\ ToldOK(s, a, k, d)
      /\ SettledOK(s, W, a, d)
      /\ (NoBump => AbortOK(s, W, a, k, d))
      /\ ~s.fatal => OpsOK(s, W, a) /\ CallOK(s, W, a) /\ EndOK(s, a)
  BY DEF Sound
<1>2. /\ t.idemp_state = s.idemp_state /\ t.fatal = s.fatal /\ t.txn_err = s.txn_err
      /\ t.bump = s.bump /\ t.req_cnt = s.req_cnt /\ t.dr_fails = s.dr_fails
      /\ t.rktps = s.rktps /\ t.offc = s.offc /\ t.queued = s.queued /\ t.flight = s.flight
      /\ t.txn = s.txn /\ t.produced = s.produced /\ t.asserts = s.asserts /\ t.timedout = s.timedout /\ DOMAIN t = Fields
      /\ t.timers \subseteq Timers
  BY DEF Same, Fields, Misc
<1>3. /\ InCall(a) /\ s.api.name = a.api /\ s.api.name # "none" /\ s.api.error = "none" /\ ~Has(W, "add_offsets")
      /\ s.offc = "none" /\ a.at # "produce" /\ s.ops # <<>>
  BY <1>1 DEF InCall, SlotOK, AppOK, Apis, CallOK
<1>4. t.ops \in Seq(OpNames)
  OBVIOUS
<1>5. /\ ApiOK(t.api) /\ t.api.name = s.api.name /\ t.api.calling = s.api.calling
      /\ t.api.has_result /\ t.api.error = "none" /\ s.api.error = "none"
  <2>1. s.api.name # "none" /\ s.api.error = "none" /\ ApiOK(s.api) /\ "none" \in Errors
    BY <1>1, <1>3 DEF ClientOK, Errors
  <2> QED
    BY <2>1, AnsweredIs
<1>6. t.txn_state \in TxnStates
  BY DEF TxnStates
<1>7. ~Reacquiring(t) /\ ~Reacquiring(s)
  BY <1>1, <1>2 DEF StatesOK, Reacquiring, Aborting, Acquiring
<1>8. ClientOK(t)
  BY <1>1, <1>2, <1>3, <1>4, <1>5, <1>6, <1>7 DEF ClientOK
<1>9. t.asserts
  BY <1>1, <1>2
<1>10. StatesOK(t)
  BY <1>1, <1>2, <1>3, <1>4, <1>5, <1>6, <1>7 DEF StatesOK, Acquiring, Outside, Sending,
  Aborting
<1>11. QueueOK(t, a)
  BY <1>1, <1>2, <1>7, <1>3 DEF QueueOK, Sending
<1>12. WireOK(t, W)
  <2>1. Only(W, Allowed(t))
    BY <1>1, <1>3, <1>7 DEF WireOK, Only, Allowed, Has, Reacquiring, Aborting
  <2> QED
    BY <2>1, <1>1, <1>2, <1>7 DEF WireOK
<1>13. ListsOK(t, W)
  BY <1>1, <1>2 DEF ListsOK, Outside, Sending
<1>14. CountOK(t, W, k)
  BY <1>1, <1>2, <1>3, <1>4, <1>5, <1>6, <1>7 DEF CountOK, One, Has
<1>15. SlotOK(t, a)
  BY <1>1, <1>2, <1>5, <1>3 DEF SlotOK
<1>16. ~t.fatal => OpsOK(t, W, a)
  BY <1>1, <1>2, <1>5, <1>3 DEF OpsOK
<1>17. ~t.fatal => CallOK(t, W, a)
  BY <1>1, <1>2, <1>3, <1>7 DEF CallOK
<1>18. ~t.fatal => EndOK(t, a)
  BY <1>1, <1>2, <1>3 DEF EndOK, At
<1>19. LogOK(t, k)
  BY <1>1, <1>2, <1>3, <1>4, <1>5, <1>6, <1>7 DEF LogOK, Outside
<1>20. RepliesOK(t, W, k)
  BY <1>1, <1>2 DEF RepliesOK, Sending
<1>21. PartsOK(t, W, a, k)
  BY <1>1, <1>2, <1>3 DEF PartsOK, Gathering, Sending
<1>22. OutcomeOK(t, W, a, k)
  BY <1>1, <1>2, <1>3 DEF OutcomeOK, Sending
<1>23. ToldOK(t, a, k, d)
  BY <1>1, <1>2, <1>3 DEF ToldOK
<1>24. NoBump => AbortOK(t, W, a, k, d)
  <2>1. s.txn_state = "IN_TRANSACTION" => Of(s.txn, k.committed) = {}
    BY <1>1 DEF OutcomeOK, Sending
  <2> QED
    BY <2>1, <1>1, <1>2, <1>7 DEF AbortOK, CommitLost
<1>25. SettledOK(t, W, a, d)
  BY <1>1, <1>2, <1>3, <1>4, <1>5, <1>6, <1>7 DEF SettledOK
<1> QED
  BY <1>25, <1>24, <1>1, <1>2, <1>8, <1>9, <1>10, <1>11, <1>12, <1>13, <1>14, <1>15, <1>16, <1>17, <1>18,
  <1>19, <1>20, <1>21, <1>22, <1>23, <1>3, <1>4, <1>5, <1>6, <1>7 DEF Sound

LEMMA CommitEmptySound ==
  ASSUME NEW s, NEW W, NEW a, NEW k, NEW d, Sound(s, W, a, k, d), NEW t,
         Same(s, t, {"txn_state", "may_enq", "ops", "api"}),
         ~s.fatal, a.at = "wait", s.ops = <<PhaseOf(a)>>, ~s.api.has_result, t.ops = <<>>,
         t.api = Answered(s.api, "none"),
         s.txn_state = "BEGIN_COMMIT", a.api = "commit", a.stage = 3, ~s.dr_fails, s.req_cnt = 0,
         t.txn_state = "COMMIT_NOT_ACKED", t.may_enq = FALSE
  PROVE  Sound(t, W, a, k, d)
<1>1. /\ ClientOK(s) /\ s.asserts /\ a \in Apps /\ k \in Coords /\ d \in Tolds /\ AppOK(a)
      /\ StatesOK(s) /\ QueueOK(s, a) /\ WireOK(s, W) /\ ListsOK(s, W) /\ CountOK(s, W, k)
      /\ SlotOK(s, a) /\ LogOK(s, k) /\ RepliesOK(s, W, k) /\ PartsOK(s, W, a, k)
      /\ OutcomeOK(s, W, a, k) /\ ToldOK(s, a, k, d)
      /\ SettledOK(s, W, a, d)
      /\ (NoBump => AbortOK(s, W, a, k, d))
      /\ ~s.fatal => OpsOK(s, W, a) /\ CallOK(s, W, a) /\ EndOK(s, a)
  BY DEF Sound
<1>2. /\ t.idemp_state = s.idemp_state /\ t.fatal = s.fatal /\ t.txn_err = s.txn_err
      /\ t.bump = s.bump /\ t.req_cnt = s.req_cnt /\ t.dr_fails = s.dr_fails
      /\ t.pending = s.pending /\ t.waitresp = s.waitresp /\ t.rktps = s.rktps
      /\ t.offc = s.offc /\ t.queued = s.queued /\ t.flight = s.flight /\ t.txn = s.txn
      /\ t.produced = s.produced /\ t.asserts = s.asserts /\ t.timedout = s.timedout /\ DOMAIN t = Fields
      /\ t.timers \subseteq Timers
  BY DEF Same, Fields, Misc
<1>3. /\ InCall(a) /\ s.api.name = a.api /\ s.api.name # "none" /\ s.api.error = "none" /\ ~Has(W, "add_offsets")
      /\ s.offc = "none" /\ a.at # "produce" /\ s.ops # <<>>
  BY <1>1 DEF InCall, SlotOK, AppOK, Apis, CallOK
<1>4. t.ops \in Seq(OpNames)
  OBVIOUS
<1>5. /\ ApiOK(t.api) /\ t.api.name = s.api.name /\ t.api.calling = s.api.calling
      /\ t.api.has_result /\ t.api.error = "none" /\ s.api.error = "none"
  <2>1. s.api.name # "none" /\ s.api.error = "none" /\ ApiOK(s.api) /\ "none" \in Errors
    BY <1>1, <1>3 DEF ClientOK, Errors
  <2> QED
    BY <2>1, AnsweredIs
<1>6. t.txn_state \in TxnStates
  BY DEF TxnStates
<1>7. ~Reacquiring(s) /\ ~Reacquiring(t)
  BY <1>1 DEF Reacquiring, Aborting
<1>8. s.queued = {} /\ s.flight = {} /\ s.timedout = {}
  BY <1>1 DEF QueueOK, Sending
<1>9. /\ W = {} /\ s.rktps = {} /\ <<s.txn, OFF>> \notin k.written /\ s.offc = "none"
  <2> DEFINE A == One(Has(W, "add_parts"))
  <2> DEFINE B == One(Has(W, "add_offsets"))
  <2> DEFINE P == One(s.rktps # {})
  <2> DEFINE Q == One(s.offc # "none" \/ <<s.txn, OFF>> \in k.written)
  <2>1. A \in 0 .. 1 /\ B \in 0 .. 1 /\ P \in 0 .. 1 /\ Q \in 0 .. 1
    BY DEF One
  <2>2. 0 >= A + B + P + Q
    BY <1>1 DEF CountOK
  <2> HIDE DEF A, B, P, Q
  <2>3. A = 0 /\ B = 0 /\ P = 0 /\ Q = 0
    BY <2>1, <2>2
  <2>4. ~Has(W, "add_parts") /\ s.rktps = {} /\ ~(s.offc # "none" \/ <<s.txn, OFF>> \in k.written)
    BY <2>3 DEF A, P, Q, One
  <2>5. \A r \in W : r.kind = "add_parts"
    BY <1>1, <1>7 DEF WireOK, Only, Allowed, Reacquiring, Aborting
  <2> QED
    BY <2>4, <2>5 DEF Has
<1>10. Of(s.txn, k.written) = {}
  <2>1. \A m \in k.written : m[1] = s.txn => m[2] = OFF
    BY <1>1, <1>9 DEF LogOK
  <2>2. \A m \in k.written : m = <<m[1], m[2]>>
    BY <1>1 DEF Coords, Messages
  <2> QED
    BY <2>1, <2>2, <1>9 DEF Of
<1>11. Of(s.txn, s.produced) = {}
  BY <1>1, <1>10, <1>8 DEF OutcomeOK, Sending, Of
<1>12. ClientOK(t)
  BY <1>1, <1>2, <1>3, <1>4, <1>5, <1>6, <1>7, <1>8, <1>9, <1>10, <1>11 DEF ClientOK
<1>13. t.asserts
  BY <1>1, <1>2
<1>14. StatesOK(t)
  BY <1>1, <1>2, <1>3, <1>4, <1>5, <1>6, <1>7, <1>8, <1>9, <1>10, <1>11 DEF StatesOK,
  Acquiring, Outside, Sending, Aborting
<1>15. QueueOK(t, a)
  BY <1>1, <1>2, <1>8, <1>3 DEF QueueOK, Sending
<1>16. WireOK(t, W)
  BY <1>1, <1>2, <1>9, <1>7 DEF WireOK, Only
<1>17. ListsOK(t, W)
  BY <1>1, <1>2 DEF ListsOK, Outside, Sending
<1>18. CountOK(t, W, k)
  BY <1>1, <1>2 DEF CountOK
<1>19. SlotOK(t, a)
  BY <1>1, <1>2, <1>5, <1>3 DEF SlotOK
<1>20. ~t.fatal => OpsOK(t, W, a)
  BY <1>1, <1>2, <1>5, <1>3 DEF OpsOK
<1>21. ~t.fatal => CallOK(t, W, a)
  BY <1>1, <1>2, <1>3, <1>7 DEF CallOK
<1>22. ~t.fatal => EndOK(t, a)
  BY <1>1, <1>2, <1>3, <1>5 DEF EndOK, At
<1>23. LogOK(t, k)
  <2>1. k.written \subseteq k.committed \cup k.aborted
    BY <1>1, <1>10 DEF LogOK, Of
  <2> QED
    BY <2>1, <1>1, <1>2 DEF LogOK, Outside
<1>24. RepliesOK(t, W, k)
  BY <1>9 DEF RepliesOK
<1>25. PartsOK(t, W, a, k)
  BY <1>1, <1>2, <1>3 DEF PartsOK, Gathering, Sending
<1>26. OutcomeOK(t, W, a, k)
  BY <1>1, <1>2, <1>3, <1>11, <1>9 DEF OutcomeOK, Sending, Has
<1>27. ToldOK(t, a, k, d)
  BY <1>1, <1>2, <1>3 DEF ToldOK
<1>28. NoBump => AbortOK(t, W, a, k, d)
  BY <1>1, <1>2, <1>3, <1>4, <1>5, <1>6, <1>7, <1>8, <1>9, <1>10, <1>11 DEF AbortOK, CommitLost, Of, Reacquiring, Acquiring, Aborting
<1>29. SettledOK(t, W, a, d)
  BY <1>1, <1>2, <1>3, <1>4, <1>5, <1>6, <1>7, <1>8, <1>9, <1>10, <1>11 DEF SettledOK
<1> QED
  BY <1>29, <1>28, <1>1, <1>2, <1>12, <1>13, <1>14, <1>15, <1>16, <1>17, <1>18, <1>19, <1>20, <1>21, <1>22,
  <1>23, <1>24, <1>25, <1>26, <1>27, <1>3, <1>4, <1>5, <1>6, <1>7, <1>8, <1>9, <1>10, <1>11 DEF
  Sound

LEMMA AbortEmptySound ==
  ASSUME NEW s, NEW W, NEW a, NEW k, NEW d, Sound(s, W, a, k, d), NEW t,
         Same(s, t, {"txn_state", "may_enq", "ops", "api"}),
         ~s.fatal, a.at = "wait", s.ops = <<PhaseOf(a)>>, ~s.api.has_result, t.ops = <<>>,
         t.api = Answered(s.api, "none"),
         s.txn_state = "BEGIN_ABORT", s.idemp_state \notin Acquiring, a.api = "abort", a.stage = 3, ~s.bump, s.req_cnt = 0,
         t.txn_state = "ABORT_NOT_ACKED", t.may_enq = FALSE
  PROVE  Sound(t, W, a, k, d)
<1>1. /\ ClientOK(s) /\ s.asserts /\ a \in Apps /\ k \in Coords /\ d \in Tolds /\ AppOK(a)
      /\ StatesOK(s) /\ QueueOK(s, a) /\ WireOK(s, W) /\ ListsOK(s, W) /\ CountOK(s, W, k)
      /\ SlotOK(s, a) /\ LogOK(s, k) /\ RepliesOK(s, W, k) /\ PartsOK(s, W, a, k)
      /\ OutcomeOK(s, W, a, k) /\ ToldOK(s, a, k, d)
      /\ SettledOK(s, W, a, d)
      /\ (NoBump => AbortOK(s, W, a, k, d))
      /\ ~s.fatal => OpsOK(s, W, a) /\ CallOK(s, W, a) /\ EndOK(s, a)
  BY DEF Sound
<1>2. /\ t.idemp_state = s.idemp_state /\ t.fatal = s.fatal /\ t.txn_err = s.txn_err
      /\ t.bump = s.bump /\ t.req_cnt = s.req_cnt /\ t.dr_fails = s.dr_fails
      /\ t.pending = s.pending /\ t.waitresp = s.waitresp /\ t.rktps = s.rktps
      /\ t.offc = s.offc /\ t.queued = s.queued /\ t.flight = s.flight /\ t.txn = s.txn
      /\ t.produced = s.produced /\ t.asserts = s.asserts /\ t.timedout = s.timedout /\ DOMAIN t = Fields
      /\ t.timers \subseteq Timers
  BY DEF Same, Fields, Misc
<1>3. /\ InCall(a) /\ s.api.name = a.api /\ s.api.name # "none" /\ s.api.error = "none" /\ ~Has(W, "add_offsets")
      /\ s.offc = "none" /\ a.at # "produce" /\ s.ops # <<>>
  BY <1>1 DEF InCall, SlotOK, AppOK, Apis, CallOK
<1>4. t.ops \in Seq(OpNames)
  OBVIOUS
<1>5. /\ ApiOK(t.api) /\ t.api.name = s.api.name /\ t.api.calling = s.api.calling
      /\ t.api.has_result /\ t.api.error = "none" /\ s.api.error = "none"
  <2>1. s.api.name # "none" /\ s.api.error = "none" /\ ApiOK(s.api) /\ "none" \in Errors
    BY <1>1, <1>3 DEF ClientOK, Errors
  <2> QED
    BY <2>1, AnsweredIs
<1>6. t.txn_state \in TxnStates
  BY DEF TxnStates
<1>7. ~Reacquiring(s) /\ ~Reacquiring(t)
  BY <1>1 DEF Reacquiring, Aborting
<1>8. s.queued = {} /\ s.flight = {}
  BY <1>1 DEF QueueOK
<1>9. /\ W = {} /\ s.rktps = {} /\ <<s.txn, OFF>> \notin k.written /\ s.offc = "none"
  <2> DEFINE A == One(Has(W, "add_parts"))
  <2> DEFINE B == One(Has(W, "add_offsets"))
  <2> DEFINE P == One(s.rktps # {})
  <2> DEFINE Q == One(s.offc # "none" \/ <<s.txn, OFF>> \in k.written)
  <2>1. A \in 0 .. 1 /\ B \in 0 .. 1 /\ P \in 0 .. 1 /\ Q \in 0 .. 1
    BY DEF One
  <2>2. 0 >= A + B + P + Q
    BY <1>1 DEF CountOK
  <2> HIDE DEF A, B, P, Q
  <2>3. A = 0 /\ B = 0 /\ P = 0 /\ Q = 0
    BY <2>1, <2>2
  <2>4. ~Has(W, "add_parts") /\ s.rktps = {} /\ ~(s.offc # "none" \/ <<s.txn, OFF>> \in k.written)
    BY <2>3 DEF A, P, Q, One
  <2>5. \A r \in W : r.kind = "add_parts"
    BY <1>1, <1>7 DEF WireOK, Only, Allowed, Reacquiring, Aborting
  <2> QED
    BY <2>4, <2>5 DEF Has
<1>10. Of(s.txn, k.written) = {}
  <2>1. \A m \in k.written : m[1] = s.txn => m[2] = OFF
    BY <1>1, <1>9 DEF LogOK
  <2>2. \A m \in k.written : m = <<m[1], m[2]>>
    BY <1>1 DEF Coords, Messages
  <2> QED
    BY <2>1, <2>2, <1>9 DEF Of
<1>11. ClientOK(t)
  BY <1>1, <1>2, <1>3, <1>4, <1>5, <1>6, <1>7, <1>8, <1>9, <1>10 DEF ClientOK
<1>12. t.asserts
  BY <1>1, <1>2
<1>13. StatesOK(t)
  BY <1>1, <1>2, <1>3, <1>4, <1>5, <1>6, <1>7, <1>8, <1>9, <1>10 DEF StatesOK, Acquiring,
  Outside, Sending, Aborting
<1>14. QueueOK(t, a)
  BY <1>1, <1>2, <1>8, <1>3 DEF QueueOK
<1>15. WireOK(t, W)
  BY <1>1, <1>2, <1>9, <1>7 DEF WireOK, Only
<1>16. ListsOK(t, W)
  BY <1>1, <1>2 DEF ListsOK, Outside, Sending
<1>17. CountOK(t, W, k)
  BY <1>1, <1>2 DEF CountOK
<1>18. SlotOK(t, a)
  BY <1>1, <1>2, <1>5, <1>3 DEF SlotOK
<1>19. ~t.fatal => OpsOK(t, W, a)
  BY <1>1, <1>2, <1>5, <1>3 DEF OpsOK
<1>20. ~t.fatal => CallOK(t, W, a)
  BY <1>1, <1>2, <1>3, <1>7 DEF CallOK
<1>21. ~t.fatal => EndOK(t, a)
  BY <1>1, <1>2, <1>3, <1>5 DEF EndOK, At
<1>22. LogOK(t, k)
  <2>1. k.written \subseteq k.committed \cup k.aborted
    BY <1>1, <1>10 DEF LogOK, Of
  <2> QED
    BY <2>1, <1>1, <1>2 DEF LogOK, Outside
<1>23. RepliesOK(t, W, k)
  BY <1>9 DEF RepliesOK
<1>24. PartsOK(t, W, a, k)
  BY <1>1, <1>2, <1>3 DEF PartsOK, Gathering, Sending
<1>25. OutcomeOK(t, W, a, k)
  BY <1>1, <1>2, <1>3, <1>9 DEF OutcomeOK, Sending, Has
<1>26. ToldOK(t, a, k, d)
  BY <1>1, <1>2, <1>3 DEF ToldOK
<1>27. NoBump => AbortOK(t, W, a, k, d)
  BY <1>1, <1>2, <1>3, <1>4, <1>5, <1>6, <1>7, <1>8, <1>9, <1>10 DEF AbortOK, CommitLost, Of, Reacquiring, Acquiring, Aborting
<1>28. SettledOK(t, W, a, d)
  BY <1>1, <1>2, <1>3, <1>4, <1>5, <1>6, <1>7, <1>8, <1>9, <1>10 DEF SettledOK
<1> QED
  BY <1>28, <1>27, <1>1, <1>2, <1>11, <1>12, <1>13, <1>14, <1>15, <1>16, <1>17, <1>18, <1>19, <1>20, <1>21,
  <1>22, <1>23, <1>24, <1>25, <1>26, <1>3, <1>4, <1>5, <1>6, <1>7, <1>8, <1>9, <1>10 DEF Sound

LEMMA CommitSendSound ==
  ASSUME NEW s, NEW W, NEW a, NEW k, NEW d, Sound(s, W, a, k, d), NEW t,
         Same(s, t, {"txn_state", "may_enq", "ops"}),
         ~s.fatal, a.at = "wait", s.ops = <<PhaseOf(a)>>, ~s.api.has_result, t.ops = <<>>,
         s.txn_state = "BEGIN_COMMIT", a.api = "commit", a.stage = 3, ~s.dr_fails, s.req_cnt # 0,
         NEW q, q = Request("end_commit", {}), NEW V, V = W \cup {q},
         t.txn_state = "COMMITTING_TRANSACTION", t.may_enq = FALSE
  PROVE  Sound(t, V, a, k, d)
<1>1. /\ ClientOK(s) /\ s.asserts /\ a \in Apps /\ k \in Coords /\ d \in Tolds /\ AppOK(a)
      /\ StatesOK(s) /\ QueueOK(s, a) /\ WireOK(s, W) /\ ListsOK(s, W) /\ CountOK(s, W, k)
      /\ SlotOK(s, a) /\ LogOK(s, k) /\ RepliesOK(s, W, k) /\ PartsOK(s, W, a, k)
      /\ OutcomeOK(s, W, a, k) /\ ToldOK(s, a, k, d)
      /\ SettledOK(s, W, a, d)
      /\ (NoBump => AbortOK(s, W, a, k, d))
      /\ ~s.fatal => OpsOK(s, W, a) /\ CallOK(s, W, a) /\ EndOK(s, a)
  BY DEF Sound
<1>2. /\ t.idemp_state = s.idemp_state /\ t.fatal = s.fatal /\ t.txn_err = s.txn_err
      /\ t.bump = s.bump /\ t.req_cnt = s.req_cnt /\ t.dr_fails = s.dr_fails
      /\ t.pending = s.pending /\ t.waitresp = s.waitresp /\ t.rktps = s.rktps /\ t.api = s.api
      /\ t.offc = s.offc /\ t.queued = s.queued /\ t.flight = s.flight /\ t.txn = s.txn
      /\ t.produced = s.produced /\ t.asserts = s.asserts /\ t.timedout = s.timedout /\ DOMAIN t = Fields
      /\ t.timers \subseteq Timers
  BY DEF Same, Fields, Misc
<1>3. /\ InCall(a) /\ s.api.name = a.api /\ s.api.name # "none" /\ s.api.error = "none" /\ ~Has(W, "add_offsets")
      /\ s.offc = "none" /\ a.at # "produce" /\ s.ops # <<>>
  BY <1>1 DEF InCall, SlotOK, AppOK, Apis, CallOK
<1>4. t.ops \in Seq(OpNames)
  OBVIOUS
<1>5. t.txn_state \in TxnStates
  BY DEF TxnStates
<1>6. ~Reacquiring(s) /\ ~Reacquiring(t)
  BY <1>1 DEF Reacquiring, Aborting
<1>7. s.queued = {} /\ s.flight = {} /\ s.timedout = {}
  BY <1>1 DEF QueueOK, Sending
<1>8. q \in Requests /\ q.kind = "end_commit" /\ q.reply = "none"
  BY DEF Request, Requests, Kinds, Replies
<1>9. s.pending = {} /\ s.waitresp = {} /\ W = {}
  <2>1. s.pending = {} /\ s.waitresp = {}
    BY <1>1, <1>7 DEF ListsOK, Sending
  <2>2. \A r \in W : r.kind = "add_parts"
    BY <1>1, <1>6 DEF WireOK, Only, Allowed, Reacquiring, Aborting
  <2> QED
    BY <2>1, <2>2, <1>1 DEF ListsOK, WireOK, Sending
<1>10. Of(s.txn, s.produced) \subseteq k.written
  BY <1>1, <1>7 DEF OutcomeOK, Sending
<1>11. ClientOK(t)
  BY <1>1, <1>2, <1>3, <1>4, <1>5, <1>6, <1>7, <1>8, <1>9, <1>10 DEF ClientOK
<1>12. t.asserts
  BY <1>1, <1>2
<1>13. StatesOK(t)
  BY <1>1, <1>2, <1>3, <1>4, <1>5, <1>6, <1>7, <1>8, <1>9, <1>10 DEF StatesOK, Acquiring,
  Outside, Sending, Aborting
<1>14. QueueOK(t, a)
  BY <1>1, <1>2, <1>7, <1>3 DEF QueueOK, Sending
<1>15. WireOK(t, V)
  <2>1. Only(V, Allowed(t)) /\ Has(V, "end_commit")
    BY <1>9, <1>8, <1>6 DEF Only, Allowed, Has
  <2>2. V = {q} /\ V \subseteq Requests
    BY <1>9, <1>8
  <2> QED
    BY <2>1, <2>2, <1>8, <1>6 DEF WireOK
<1>16. ListsOK(t, V)
  BY <1>1, <1>2 DEF ListsOK, Outside, Sending
<1>17. CountOK(t, V, k)
  <2>1. \A x \in {"add_parts", "add_offsets"} : Has(V, x) <=> Has(W, x)
    BY <1>8 DEF Has
  <2>2. \A x \in {"add_parts", "add_offsets"} : One(Has(V, x)) = One(Has(W, x))
    BY <2>1 DEF One
  <2> QED
    BY <2>2, <1>1, <1>2 DEF CountOK
<1>18. SlotOK(t, a)
  BY <1>1, <1>2 DEF SlotOK
<1>19. ~t.fatal => OpsOK(t, V, a)
  BY <1>1, <1>2, <1>3 DEF OpsOK, Pending, At
<1>20. ~t.fatal => CallOK(t, V, a)
  BY <1>1, <1>2, <1>3, <1>6, <1>8, <1>9 DEF CallOK, At, Has
<1>21. ~t.fatal => EndOK(t, a)
  BY <1>1, <1>2, <1>3 DEF EndOK, At
<1>22. LogOK(t, k)
  BY <1>1, <1>2, <1>3, <1>4, <1>5, <1>6, <1>7, <1>8, <1>9, <1>10 DEF LogOK, Outside
<1>23. RepliesOK(t, V, k)
  BY <1>9, <1>8 DEF RepliesOK
<1>24. PartsOK(t, V, a, k)
  BY <1>1, <1>2, <1>3 DEF PartsOK, Gathering, Sending
<1>25. OutcomeOK(t, V, a, k)
  BY <1>1, <1>2, <1>3, <1>10, <1>9, <1>8 DEF OutcomeOK, Sending, Has
<1>26. ToldOK(t, a, k, d)
  BY <1>1, <1>2, <1>3 DEF ToldOK
<1>27. NoBump => AbortOK(t, V, a, k, d)
  <2>1. s.req_cnt > 0
    BY <1>1 DEF CountOK, One, ClientOK
  <2>2. Of(s.txn, k.committed) = {}
    BY <1>1 DEF OutcomeOK, Sending
  <2> QED
    BY <2>1, <2>2, <1>1, <1>2, <1>8, <1>9 DEF AbortOK, CommitLost
<1>28. SettledOK(t, V, a, d)
  BY <1>1, <1>2, <1>3, <1>4, <1>5, <1>6, <1>7, <1>8, <1>9, <1>10 DEF SettledOK
<1> QED
  BY <1>28, <1>27, <1>1, <1>2, <1>11, <1>12, <1>13, <1>14, <1>15, <1>16, <1>17, <1>18, <1>19, <1>20, <1>21,
  <1>22, <1>23, <1>24, <1>25, <1>26, <1>3, <1>4, <1>5, <1>6, <1>7, <1>8, <1>9, <1>10 DEF Sound

LEMMA AbortSendSound ==
  ASSUME NEW s, NEW W, NEW a, NEW k, NEW d, Sound(s, W, a, k, d), NEW t,
         Same(s, t, {"txn_state", "may_enq", "ops"}),
         ~s.fatal, a.at = "wait", s.ops = <<PhaseOf(a)>>, ~s.api.has_result, t.ops = <<>>,
         s.txn_state = "BEGIN_ABORT", s.idemp_state \notin Acquiring, a.api = "abort", a.stage = 3,
         NEW q, q = Request("end_abort", {}), NEW V, V = W \cup {q},
         t.txn_state = "ABORTING_TRANSACTION", t.may_enq = FALSE
  PROVE  Sound(t, V, a, k, d)
<1>1. /\ ClientOK(s) /\ s.asserts /\ a \in Apps /\ k \in Coords /\ d \in Tolds /\ AppOK(a)
      /\ StatesOK(s) /\ QueueOK(s, a) /\ WireOK(s, W) /\ ListsOK(s, W) /\ CountOK(s, W, k)
      /\ SlotOK(s, a) /\ LogOK(s, k) /\ RepliesOK(s, W, k) /\ PartsOK(s, W, a, k)
      /\ OutcomeOK(s, W, a, k) /\ ToldOK(s, a, k, d)
      /\ SettledOK(s, W, a, d)
      /\ (NoBump => AbortOK(s, W, a, k, d))
      /\ ~s.fatal => OpsOK(s, W, a) /\ CallOK(s, W, a) /\ EndOK(s, a)
  BY DEF Sound
<1>2. /\ t.idemp_state = s.idemp_state /\ t.fatal = s.fatal /\ t.txn_err = s.txn_err
      /\ t.bump = s.bump /\ t.req_cnt = s.req_cnt /\ t.dr_fails = s.dr_fails
      /\ t.pending = s.pending /\ t.waitresp = s.waitresp /\ t.rktps = s.rktps /\ t.api = s.api
      /\ t.offc = s.offc /\ t.queued = s.queued /\ t.flight = s.flight /\ t.txn = s.txn
      /\ t.produced = s.produced /\ t.asserts = s.asserts /\ t.timedout = s.timedout /\ DOMAIN t = Fields
      /\ t.timers \subseteq Timers
  BY DEF Same, Fields, Misc
<1>3. /\ InCall(a) /\ s.api.name = a.api /\ s.api.name # "none" /\ s.api.error = "none" /\ ~Has(W, "add_offsets")
      /\ s.offc = "none" /\ a.at # "produce" /\ s.ops # <<>>
  BY <1>1 DEF InCall, SlotOK, AppOK, Apis, CallOK
<1>4. t.ops \in Seq(OpNames)
  OBVIOUS
<1>5. t.txn_state \in TxnStates
  BY DEF TxnStates
<1>6. ~Reacquiring(s) /\ ~Reacquiring(t)
  BY <1>1, <1>2 DEF Reacquiring
<1>7. s.queued = {} /\ s.flight = {}
  BY <1>1 DEF QueueOK
<1>8. q \in Requests /\ q.kind = "end_abort" /\ q.reply = "none"
  BY DEF Request, Requests, Kinds, Replies
<1>9. \A r \in W : r.kind = "add_parts"
  BY <1>1, <1>6 DEF WireOK, Only, Allowed, Reacquiring, Aborting
<1>10. ClientOK(t)
  BY <1>1, <1>2, <1>3, <1>4, <1>5, <1>6, <1>7, <1>8, <1>9 DEF ClientOK
<1>11. t.asserts
  BY <1>1, <1>2
<1>12. StatesOK(t)
  BY <1>1, <1>2, <1>3, <1>4, <1>5, <1>6, <1>7, <1>8, <1>9 DEF StatesOK, Acquiring, Outside,
  Sending, Aborting
<1>13. QueueOK(t, a)
  BY <1>1, <1>2, <1>7, <1>3 DEF QueueOK
<1>14. WireOK(t, V)
  <2>1. Only(V, Allowed(t)) /\ Has(V, "end_abort")
    BY <1>9, <1>8, <1>6 DEF Only, Allowed, Has
  <2>2. V \subseteq Requests /\ \A p, u \in V : p.kind = u.kind => p = u
    BY <1>1, <1>9, <1>8 DEF WireOK
  <2>3. \A p, u \in V : p.kind \notin Last /\ u.kind \in Last /\ u.reply # "none" => p.reply # "none"
    BY <1>9, <1>8 DEF Last
  <2> QED
    BY <2>1, <2>2, <2>3, <1>8, <1>6, <1>1 DEF WireOK
<1>15. ListsOK(t, V)
  BY <1>1, <1>2 DEF ListsOK, Outside, Sending
<1>16. CountOK(t, V, k)
  <2>1. \A x \in {"add_parts", "add_offsets"} : Has(V, x) <=> Has(W, x)
    BY <1>8 DEF Has
  <2>2. \A x \in {"add_parts", "add_offsets"} : One(Has(V, x)) = One(Has(W, x))
    BY <2>1 DEF One
  <2> QED
    BY <2>2, <1>1, <1>2 DEF CountOK
<1>17. SlotOK(t, a)
  BY <1>1, <1>2 DEF SlotOK
<1>18. ~t.fatal => OpsOK(t, V, a)
  BY <1>1, <1>2, <1>3 DEF OpsOK, Pending, At
<1>19. ~t.fatal => CallOK(t, V, a)
  BY <1>1, <1>2, <1>3, <1>6, <1>8, <1>9 DEF CallOK, At, Has
<1>20. ~t.fatal => EndOK(t, a)
  BY <1>1, <1>2, <1>3 DEF EndOK, At
<1>21. LogOK(t, k)
  BY <1>1, <1>2, <1>3, <1>4, <1>5, <1>6, <1>7, <1>8, <1>9 DEF LogOK, Outside
<1>22. RepliesOK(t, V, k)
  BY <1>1, <1>2, <1>9, <1>8 DEF RepliesOK, Sending, Last
<1>23. PartsOK(t, V, a, k)
  BY <1>1, <1>2, <1>3 DEF PartsOK, Gathering, Sending
<1>24. OutcomeOK(t, V, a, k)
  <2>1. Has(V, "add_offsets") => Has(W, "add_offsets")
    BY <1>9, <1>8 DEF Has
  <2> QED
    BY <2>1, <1>1, <1>2, <1>3 DEF OutcomeOK, Sending
<1>25. ToldOK(t, a, k, d)
  BY <1>1, <1>2, <1>3 DEF ToldOK
<1>26. NoBump => AbortOK(t, V, a, k, d)
  BY <1>1, <1>2, <1>3, <1>4, <1>5, <1>6, <1>7, <1>8, <1>9 DEF AbortOK, CommitLost, Of, Reacquiring, Acquiring, Aborting
<1>27. SettledOK(t, V, a, d)
  BY <1>1, <1>2, <1>3, <1>4, <1>5, <1>6, <1>7, <1>8, <1>9 DEF SettledOK
<1> QED
  BY <1>27, <1>26, <1>1, <1>2, <1>10, <1>11, <1>12, <1>13, <1>14, <1>15, <1>16, <1>17, <1>18, <1>19, <1>20,
  <1>21, <1>22, <1>23, <1>24, <1>25, <1>3, <1>4, <1>5, <1>6, <1>7, <1>8, <1>9 DEF Sound

LEMMA CommitAckSound ==
  ASSUME NEW s, NEW W, NEW a, NEW k, NEW d, Sound(s, W, a, k, d), NEW t,
         Same(s, t, {"txn_state", "may_enq", "pending", "waitresp", "rktps", "bump", "req_cnt", "ops", "api"}),
         ~s.fatal, a.at = "wait", s.ops = <<PhaseOf(a)>>, ~s.api.has_result, t.ops = <<>>,
         t.api = Answered(s.api, "none"),
         s.txn_state = "COMMIT_NOT_ACKED", a.api = "commit", a.stage = 4, t.txn_state = "READY", t.may_enq = FALSE,
         t.pending = {}, t.waitresp = {}, t.rktps = {}, t.bump = FALSE, t.req_cnt = 0
  PROVE  Sound(t, W, a, k, d)
<1>1. /\ ClientOK(s) /\ s.asserts /\ a \in Apps /\ k \in Coords /\ d \in Tolds /\ AppOK(a)
      /\ StatesOK(s) /\ QueueOK(s, a) /\ WireOK(s, W) /\ ListsOK(s, W) /\ CountOK(s, W, k)
      /\ SlotOK(s, a) /\ LogOK(s, k) /\ RepliesOK(s, W, k) /\ PartsOK(s, W, a, k)
      /\ OutcomeOK(s, W, a, k) /\ ToldOK(s, a, k, d)
      /\ SettledOK(s, W, a, d)
      /\ (NoBump => AbortOK(s, W, a, k, d))
      /\ ~s.fatal => OpsOK(s, W, a) /\ CallOK(s, W, a) /\ EndOK(s, a)
  BY DEF Sound
<1>2. /\ t.idemp_state = s.idemp_state /\ t.fatal = s.fatal /\ t.txn_err = s.txn_err
      /\ t.dr_fails = s.dr_fails /\ t.offc = s.offc /\ t.queued = s.queued
      /\ t.flight = s.flight /\ t.txn = s.txn /\ t.produced = s.produced
      /\ t.asserts = s.asserts /\ t.timedout = s.timedout /\ DOMAIN t = Fields /\ t.timers \subseteq Timers
  BY DEF Same, Fields, Misc
<1>3. /\ InCall(a) /\ s.api.name = a.api /\ s.api.name # "none" /\ s.api.error = "none" /\ ~Has(W, "add_offsets")
      /\ s.offc = "none" /\ a.at # "produce" /\ s.ops # <<>>
  BY <1>1 DEF InCall, SlotOK, AppOK, Apis, CallOK
<1>4. t.ops \in Seq(OpNames)
  OBVIOUS
<1>5. /\ ApiOK(t.api) /\ t.api.name = s.api.name /\ t.api.calling = s.api.calling
      /\ t.api.has_result /\ t.api.error = "none" /\ s.api.error = "none"
  <2>1. s.api.name # "none" /\ s.api.error = "none" /\ ApiOK(s.api) /\ "none" \in Errors
    BY <1>1, <1>3 DEF ClientOK, Errors
  <2> QED
    BY <2>1, AnsweredIs
<1>6. t.txn_state \in TxnStates
  BY DEF TxnStates
<1>7. /\ W = {} /\ s.queued \cup s.flight = {}
  BY <1>1 DEF WireOK, Only, Allowed, QueueOK, Reacquiring, Aborting
<1>8. ClientOK(t)
  <2>1. 0 \in Int /\ t.req_cnt \in Int
    OBVIOUS
  <2> QED
    BY <2>1, <1>1, <1>2, <1>4, <1>5, <1>6 DEF ClientOK
<1>9. t.asserts
  BY <1>1, <1>2
<1>10. StatesOK(t)
  BY <1>1, <1>2, <1>3, <1>4, <1>5, <1>6, <1>7 DEF StatesOK, Acquiring, Outside, Sending,
  Aborting
<1>11. QueueOK(t, a)
  BY <1>1, <1>2, <1>7, <1>3 DEF QueueOK
<1>12. WireOK(t, W)
  BY <1>1, <1>2, <1>7 DEF WireOK, Only, Reacquiring, Aborting
<1>13. ListsOK(t, W)
  BY <1>1, <1>2, <1>7 DEF ListsOK, Outside, Sending
<1>14. CountOK(t, W, k)
  BY DEF CountOK
<1>15. SlotOK(t, a)
  BY <1>1, <1>2, <1>5, <1>3 DEF SlotOK
<1>16. ~t.fatal => OpsOK(t, W, a)
  BY <1>1, <1>2, <1>5, <1>3 DEF OpsOK
<1>17. ~t.fatal => CallOK(t, W, a)
  BY <1>1, <1>2, <1>3 DEF CallOK, Reacquiring, Aborting
<1>18. ~t.fatal => EndOK(t, a)
  BY <1>1, <1>2, <1>3 DEF EndOK, At
<1>19. LogOK(t, k)
  BY <1>1, <1>2, <1>7 DEF LogOK, Outside
<1>20. RepliesOK(t, W, k)
  BY <1>7 DEF RepliesOK
<1>21. PartsOK(t, W, a, k)
  BY <1>1, <1>2, <1>7, <1>3 DEF PartsOK, Gathering, Sending
<1>22. OutcomeOK(t, W, a, k)
  BY <1>1, <1>2, <1>3 DEF OutcomeOK, Sending
<1>23. ToldOK(t, a, k, d)
  BY <1>1, <1>2, <1>3, <1>5 DEF ToldOK, EndOK, OutcomeOK
<1>24. NoBump => AbortOK(t, W, a, k, d)
  BY <1>1, <1>2, <1>3, <1>4, <1>5, <1>6, <1>7 DEF AbortOK, CommitLost, Of, Reacquiring, Acquiring, Aborting
<1>25. SettledOK(t, W, a, d)
  BY <1>1, <1>2, <1>3, <1>4, <1>5, <1>6, <1>7 DEF SettledOK
<1> QED
  BY <1>25, <1>24, <1>1, <1>2, <1>8, <1>9, <1>10, <1>11, <1>12, <1>13, <1>14, <1>15, <1>16, <1>17, <1>18,
  <1>19, <1>20, <1>21, <1>22, <1>23, <1>3, <1>4, <1>5, <1>6, <1>7 DEF Sound

LEMMA AbortAckSound ==
  ASSUME NEW s, NEW W, NEW a, NEW k, NEW d, Sound(s, W, a, k, d), NEW t,
         Same(s, t, {"txn_state", "may_enq", "pending", "waitresp", "rktps", "bump", "req_cnt", "ops", "api"}),
         ~s.fatal, a.at = "wait", s.ops = <<PhaseOf(a)>>, ~s.api.has_result, t.ops = <<>>,
         t.api = Answered(s.api, "none"),
         s.txn_state = "ABORT_NOT_ACKED", a.api = "abort", a.stage = 4, t.txn_state = "READY", t.may_enq = FALSE,
         t.pending = {}, t.waitresp = {}, t.rktps = {}, t.bump = FALSE, t.req_cnt = 0
  PROVE  Sound(t, W, a, k, d)
<1>1. /\ ClientOK(s) /\ s.asserts /\ a \in Apps /\ k \in Coords /\ d \in Tolds /\ AppOK(a)
      /\ StatesOK(s) /\ QueueOK(s, a) /\ WireOK(s, W) /\ ListsOK(s, W) /\ CountOK(s, W, k)
      /\ SlotOK(s, a) /\ LogOK(s, k) /\ RepliesOK(s, W, k) /\ PartsOK(s, W, a, k)
      /\ OutcomeOK(s, W, a, k) /\ ToldOK(s, a, k, d)
      /\ SettledOK(s, W, a, d)
      /\ (NoBump => AbortOK(s, W, a, k, d))
      /\ ~s.fatal => OpsOK(s, W, a) /\ CallOK(s, W, a) /\ EndOK(s, a)
  BY DEF Sound
<1>2. /\ t.idemp_state = s.idemp_state /\ t.fatal = s.fatal /\ t.txn_err = s.txn_err
      /\ t.dr_fails = s.dr_fails /\ t.offc = s.offc /\ t.queued = s.queued
      /\ t.flight = s.flight /\ t.txn = s.txn /\ t.produced = s.produced
      /\ t.asserts = s.asserts /\ t.timedout = s.timedout /\ DOMAIN t = Fields /\ t.timers \subseteq Timers
  BY DEF Same, Fields, Misc
<1>3. /\ InCall(a) /\ s.api.name = a.api /\ s.api.name # "none" /\ s.api.error = "none" /\ ~Has(W, "add_offsets")
      /\ s.offc = "none" /\ a.at # "produce" /\ s.ops # <<>>
  BY <1>1 DEF InCall, SlotOK, AppOK, Apis, CallOK
<1>4. t.ops \in Seq(OpNames)
  OBVIOUS
<1>5. /\ ApiOK(t.api) /\ t.api.name = s.api.name /\ t.api.calling = s.api.calling
      /\ t.api.has_result /\ t.api.error = "none" /\ s.api.error = "none"
  <2>1. s.api.name # "none" /\ s.api.error = "none" /\ ApiOK(s.api) /\ "none" \in Errors
    BY <1>1, <1>3 DEF ClientOK, Errors
  <2> QED
    BY <2>1, AnsweredIs
<1>6. t.txn_state \in TxnStates
  BY DEF TxnStates
<1>7. /\ W = {} /\ s.queued \cup s.flight = {}
  BY <1>1 DEF WireOK, Only, Allowed, QueueOK, Reacquiring, Aborting
<1>8. ClientOK(t)
  <2>1. 0 \in Int /\ t.req_cnt \in Int
    OBVIOUS
  <2> QED
    BY <2>1, <1>1, <1>2, <1>4, <1>5, <1>6 DEF ClientOK
<1>9. t.asserts
  BY <1>1, <1>2
<1>10. StatesOK(t)
  BY <1>1, <1>2, <1>3, <1>4, <1>5, <1>6, <1>7 DEF StatesOK, Acquiring, Outside, Sending,
  Aborting
<1>11. QueueOK(t, a)
  BY <1>1, <1>2, <1>7, <1>3 DEF QueueOK
<1>12. WireOK(t, W)
  BY <1>1, <1>2, <1>7 DEF WireOK, Only, Reacquiring, Aborting
<1>13. ListsOK(t, W)
  BY <1>1, <1>2, <1>7 DEF ListsOK, Outside, Sending
<1>14. CountOK(t, W, k)
  BY DEF CountOK
<1>15. SlotOK(t, a)
  BY <1>1, <1>2, <1>5, <1>3 DEF SlotOK
<1>16. ~t.fatal => OpsOK(t, W, a)
  BY <1>1, <1>2, <1>5, <1>3 DEF OpsOK
<1>17. ~t.fatal => CallOK(t, W, a)
  BY <1>1, <1>2, <1>3 DEF CallOK, Reacquiring, Aborting
<1>18. ~t.fatal => EndOK(t, a)
  BY <1>1, <1>2, <1>3 DEF EndOK, At
<1>19. LogOK(t, k)
  BY <1>1, <1>2, <1>7 DEF LogOK, Outside
<1>20. RepliesOK(t, W, k)
  BY <1>7 DEF RepliesOK
<1>21. PartsOK(t, W, a, k)
  BY <1>1, <1>2, <1>7, <1>3 DEF PartsOK, Gathering, Sending
<1>22. OutcomeOK(t, W, a, k)
  BY <1>1, <1>2, <1>3 DEF OutcomeOK, Sending
<1>23. ToldOK(t, a, k, d)
  BY <1>1, <1>2, <1>3, <1>5 DEF ToldOK, EndOK, OutcomeOK
<1>24. NoBump => AbortOK(t, W, a, k, d)
  BY <1>1, <1>2, <1>3, <1>4, <1>5, <1>6, <1>7 DEF AbortOK, CommitLost, Of, Reacquiring, Acquiring, Aborting
<1>25. SettledOK(t, W, a, d)
  BY <1>1, <1>2, <1>3, <1>4, <1>5, <1>6, <1>7 DEF SettledOK
<1> QED
  BY <1>25, <1>24, <1>1, <1>2, <1>8, <1>9, <1>10, <1>11, <1>12, <1>13, <1>14, <1>15, <1>16, <1>17, <1>18,
  <1>19, <1>20, <1>21, <1>22, <1>23, <1>3, <1>4, <1>5, <1>6, <1>7 DEF Sound

LEMMA MiscSound ==
  ASSUME NEW s, NEW W, NEW a, NEW k, NEW d, Sound(s, W, a, k, d), NEW t,
         Same(s, t, {})
  PROVE  Sound(t, W, a, k, d)
<1>1. /\ ClientOK(s) /\ s.asserts /\ a \in Apps /\ k \in Coords /\ d \in Tolds /\ AppOK(a)
      /\ StatesOK(s) /\ QueueOK(s, a) /\ WireOK(s, W) /\ ListsOK(s, W) /\ CountOK(s, W, k)
      /\ SlotOK(s, a) /\ LogOK(s, k) /\ RepliesOK(s, W, k) /\ PartsOK(s, W, a, k)
      /\ OutcomeOK(s, W, a, k) /\ ToldOK(s, a, k, d)
      /\ SettledOK(s, W, a, d)
      /\ (NoBump => AbortOK(s, W, a, k, d))
      /\ ~s.fatal => OpsOK(s, W, a) /\ CallOK(s, W, a) /\ EndOK(s, a)
  BY DEF Sound
<1>2. /\ t.txn_state = s.txn_state /\ t.idemp_state = s.idemp_state /\ t.fatal = s.fatal
      /\ t.txn_err = s.txn_err /\ t.bump = s.bump /\ t.req_cnt = s.req_cnt
      /\ t.may_enq = s.may_enq /\ t.dr_fails = s.dr_fails /\ t.pending = s.pending
      /\ t.waitresp = s.waitresp /\ t.rktps = s.rktps /\ t.api = s.api /\ t.ops = s.ops
      /\ t.offc = s.offc /\ t.queued = s.queued /\ t.flight = s.flight /\ t.txn = s.txn
      /\ t.produced = s.produced /\ t.asserts = s.asserts /\ t.timedout = s.timedout /\ DOMAIN t = Fields
      /\ t.timers \subseteq Timers
  BY DEF Same, Fields, Misc
<1>3. ClientOK(t)
  BY <1>1, <1>2 DEF ClientOK
<1>4. t.asserts
  BY <1>1, <1>2
<1>5. StatesOK(t)
  BY <1>1, <1>2 DEF StatesOK
<1>6. QueueOK(t, a)
  BY <1>1, <1>2 DEF QueueOK, Reacquiring
<1>7. WireOK(t, W)
  BY <1>1, <1>2 DEF WireOK, Reacquiring, Allowed
<1>8. ListsOK(t, W)
  BY <1>1, <1>2 DEF ListsOK
<1>9. CountOK(t, W, k)
  BY <1>1, <1>2 DEF CountOK
<1>10. SlotOK(t, a)
  BY <1>1, <1>2 DEF SlotOK
<1>11. ~t.fatal => OpsOK(t, W, a)
  BY <1>1, <1>2 DEF OpsOK, Reacquiring, Pending, InitOps
<1>12. ~t.fatal => CallOK(t, W, a)
  BY <1>1, <1>2 DEF CallOK, Reacquiring
<1>13. ~t.fatal => EndOK(t, a)
  BY <1>1, <1>2 DEF EndOK
<1>14. LogOK(t, k)
  BY <1>1, <1>2 DEF LogOK
<1>15. RepliesOK(t, W, k)
  BY <1>1, <1>2 DEF RepliesOK
<1>16. PartsOK(t, W, a, k)
  BY <1>1, <1>2 DEF PartsOK, Gathering
<1>17. OutcomeOK(t, W, a, k)
  BY <1>1, <1>2 DEF OutcomeOK
<1>18. ToldOK(t, a, k, d)
  BY <1>1, <1>2 DEF ToldOK
<1>19. NoBump => AbortOK(t, W, a, k, d)
  BY <1>1, <1>2 DEF AbortOK, CommitLost, Of, Reacquiring, Acquiring, Aborting
<1>20. SettledOK(t, W, a, d)
  BY <1>1, <1>2 DEF SettledOK,
  Returns, Spent, Has
<1> QED
  BY <1>20, <1>19, <1>1, <1>2, <1>3, <1>4, <1>5, <1>6, <1>7, <1>8, <1>9, <1>10, <1>11, <1>12, <1>13, <1>14,
  <1>15, <1>16, <1>17, <1>18 DEF Sound

LEMMA ExpiredSound ==
  ASSUME NEW s, NEW W, NEW a, NEW k, NEW d, Sound(s, W, a, k, d), NEW t,
         Same(s, t, {}), k.open,
         NEW l, l = [Ended(k, "none") EXCEPT !.fenced = TRUE]
  PROVE  Sound(t, W, a, l, d)
<1>1. /\ ClientOK(s) /\ s.asserts /\ a \in Apps /\ k \in Coords /\ d \in Tolds /\ AppOK(a)
      /\ StatesOK(s) /\ QueueOK(s, a) /\ WireOK(s, W) /\ ListsOK(s, W) /\ CountOK(s, W, k)
      /\ SlotOK(s, a) /\ LogOK(s, k) /\ RepliesOK(s, W, k) /\ PartsOK(s, W, a, k)
      /\ OutcomeOK(s, W, a, k) /\ ToldOK(s, a, k, d)
      /\ SettledOK(s, W, a, d)
      /\ (NoBump => AbortOK(s, W, a, k, d))
      /\ ~s.fatal => OpsOK(s, W, a) /\ CallOK(s, W, a) /\ EndOK(s, a)
  BY DEF Sound
<1>2. /\ t.txn_state = s.txn_state /\ t.idemp_state = s.idemp_state /\ t.fatal = s.fatal
      /\ t.txn_err = s.txn_err /\ t.bump = s.bump /\ t.req_cnt = s.req_cnt
      /\ t.may_enq = s.may_enq /\ t.dr_fails = s.dr_fails /\ t.pending = s.pending
      /\ t.waitresp = s.waitresp /\ t.rktps = s.rktps /\ t.api = s.api /\ t.ops = s.ops
      /\ t.offc = s.offc /\ t.queued = s.queued /\ t.flight = s.flight /\ t.txn = s.txn
      /\ t.produced = s.produced /\ t.asserts = s.asserts /\ t.timedout = s.timedout /\ DOMAIN t = Fields
      /\ t.timers \subseteq Timers
  BY DEF Same, Fields, Misc
<1>3. /\ l \in Coords /\ l.fenced /\ l.parts = {} /\ ~l.open /\ l.written = k.written /\ l.committed = k.committed
      /\ k.aborted \subseteq l.aborted /\ l.aborted \subseteq k.written
      /\ \A m \in k.written : m \in l.committed \cup l.aborted
      /\ l.committed \cap l.aborted = {}
  <2> DEFINE ms == {m \in k.written \ (k.committed \cup k.aborted) : m[2] \in k.parts}
  <2>1. l = [k EXCEPT !.open = FALSE, !.parts = {}, !.last = "none", !.fenced = TRUE, !.aborted = k.aborted \cup ms]
    BY <1>1 DEF Ended, Coords
  <2>2. ms \subseteq k.written /\ ms \cap k.committed = {}
    OBVIOUS
  <2>3. \A m \in k.written : m \in k.committed \cup k.aborted \cup ms
    BY <1>1 DEF LogOK
  <2> HIDE DEF ms
  <2>4. k.written \subseteq Messages /\ k.committed \subseteq Messages /\ k.aborted \subseteq k.written
        /\ k.committed \cap k.aborted = {}
    BY <1>1 DEF Coords, LogOK
  <2>5. k.aborted \cup ms \subseteq Messages
    BY <2>2, <2>4
  <2>8. PICK A \in SUBSET Messages : A = k.aborted \cup ms
    BY <2>5
  <2>9. {} \in SUBSET (Partitions \cup {OFF}) /\ k.written \in SUBSET Messages /\ k.committed \in SUBSET Messages
    BY <2>4
  <2>6. l \in Coords
    BY <2>1, <2>8, <1>1 DEF Coords
  <2>7. /\ l.fenced /\ l.parts = {} /\ ~l.open /\ l.written = k.written
        /\ l.committed = k.committed /\ l.aborted = k.aborted \cup ms
    BY <2>1, <1>1 DEF Coords
  <2> QED
    BY <2>2, <2>3, <2>4, <2>6, <2>7
<1>4. ClientOK(t)
  BY <1>1, <1>2, <1>3 DEF ClientOK
<1>5. t.asserts
  BY <1>1, <1>2
<1>6. l \in Coords
  BY <1>3
<1>7. StatesOK(t)
  BY <1>1, <1>2 DEF StatesOK
<1>8. QueueOK(t, a)
  BY <1>1, <1>2 DEF QueueOK, Reacquiring
<1>9. WireOK(t, W)
  BY <1>1, <1>2 DEF WireOK, Reacquiring, Allowed
<1>10. ListsOK(t, W)
  BY <1>1, <1>2 DEF ListsOK
<1>11. CountOK(t, W, l)
  BY <1>1, <1>2, <1>3 DEF CountOK
<1>12. SlotOK(t, a)
  BY <1>1, <1>2 DEF SlotOK
<1>13. ~t.fatal => OpsOK(t, W, a)
  BY <1>1, <1>2 DEF OpsOK, Reacquiring, Pending, InitOps
<1>14. ~t.fatal => CallOK(t, W, a)
  BY <1>1, <1>2 DEF CallOK, Reacquiring
<1>15. ~t.fatal => EndOK(t, a)
  BY <1>1, <1>2 DEF EndOK
<1>16. LogOK(t, l)
  <2>1. \A m \in l.written \cup t.produced : m[1] <= t.txn
    BY <1>1, <1>2, <1>3 DEF LogOK
  <2>2. t.txn_state # "READY" /\ ~t.fatal =>
          \A m \in t.flight \cup l.written : m[1] = t.txn => m[2] \in t.rktps \cup {OFF}
    BY <1>1, <1>2, <1>3 DEF LogOK
  <2>3. l.committed \subseteq l.written
    BY <1>1, <1>3 DEF LogOK
  <2> QED
    BY <2>1, <2>2, <2>3, <1>3 DEF LogOK
<1>17. RepliesOK(t, W, l)
  BY <1>1, <1>2, <1>3 DEF RepliesOK
<1>18. PartsOK(t, W, a, l)
  BY <1>1, <1>2, <1>3 DEF PartsOK
<1>19. OutcomeOK(t, W, a, l)
  BY <1>1, <1>2, <1>3 DEF OutcomeOK
<1>20. ToldOK(t, a, l, d)
  BY <1>1, <1>2, <1>3 DEF ToldOK
<1>21. NoBump => AbortOK(t, W, a, l, d)
  <2>1. NoBump => ~CommitLost(s, k)
    BY <1>1 DEF AbortOK, LogOK
  <2> QED
    BY <2>1, <1>1, <1>2, <1>3 DEF AbortOK, CommitLost
<1>22. SettledOK(t, W, a, d)
  BY <1>1, <1>2, <1>3, <1>6 DEF SettledOK,
  Returns, Spent, Has
<1> QED
  BY <1>22, <1>21, <1>1, <1>2, <1>4, <1>5, <1>6, <1>7, <1>8, <1>9, <1>10, <1>11, <1>12, <1>13, <1>14, <1>15,
  <1>16, <1>17, <1>18, <1>19, <1>20, <1>3 DEF Sound
=============================================================================
