---------------------- MODULE IdempotentProducer_proofs ----------------------
(***************************************************************************)
(* Proofs about IdempotentProducer, for every number of partitions,        *)
(* brokers, messages and faults: first its types, then what it keeps right *)
(* beyond them.                                                            *)
(*                                                                         *)
(* MessagesConserved.  The invariant speaks of queues, not of the slots of *)
(* the property: message m of partition p is in one of the two partition   *)
(* queues, reported, or in the requests of one broker and there in one     *)
(* place.  Requests are taken from the middle of a queue when they time    *)
(* out or come back, which moves the ones behind: TakenOut and its lemmas  *)
(* state what that does to the messages a queue holds.                     *)
(* InflightExact.  The counters, by the set Flying of messages they count. *)
(* NotPersistedIsTrue.  A message that may be written is known as such, or *)
(* the result that will tell so is on its way (KnownInv).                  *)
(* WindowRespected, BoundRespected.  Requests are told apart by the        *)
(* messages they carry: Near is the set of a partition's batches, Room     *)
(* what a thread may still add to it.                                      *)
(* RenumbersWhenQuiet, RenumbersWhenDrained.  Nothing in flight means that *)
(* no batch is near the partition; the flag for drain_done() implies a     *)
(* count of zero (DrainedInv, one broker).                                 *)
(***************************************************************************)
EXTENDS IdempotentProducer, FiniteSetTheorems, WellFoundedInduction, SequenceTheorems, TLAPS

-----------------------------------------------------------------------------
(* Sets of numbers: least, greatest and n-th elements. *)

\* The relation NatLessThanWellFounded speaks of, as a set of pairs.
LEMMA LessThanRel == OpToRel(<, Nat) = {ss \in Nat \X Nat : ss[1] < ss[2]}
  BY DEF OpToRel

\* A non-empty set of natural numbers has a least element.
LEMMA LeastExists ==
  ASSUME NEW T, T \subseteq Nat, T # {}
  PROVE  \E x \in T : \A y \in T : x <= y
<1> DEFINE R == {ss \in Nat \X Nat : ss[1] < ss[2]}
<1>1. IsWellFoundedOn(R, Nat)
  BY NatLessThanWellFounded, LessThanRel
<1>2. \A x, y \in Nat : x < y => <<x, y>> \in R
  OBVIOUS
<1> HIDE DEF R
<1>3. PICK x \in T : \A y \in T : ~(<<y, x>> \in R)
  BY <1>1, WFMin
<1>4. ASSUME NEW y \in T PROVE x <= y
  <2>1. x \in Nat /\ y \in Nat
    OBVIOUS
  <2>2. y < x => <<y, x>> \in R
    BY <1>2, <2>1
  <2>3. ~(y < x)
    BY <1>3, <2>2
  <2>4. QED
    BY <2>1, <2>3
<1>5. QED
  BY <1>4

\* The set of natural numbers is the only one that holds 0 and every successor:
\* induction, stated with a set instead of a predicate.
LEMMA SetInduction ==
  ASSUME NEW S, 0 \in S, \A n \in Nat : n \in S => n + 1 \in S
  PROVE  Nat \subseteq S
<1>1. SUFFICES ASSUME Nat \ S # {} PROVE FALSE
  OBVIOUS
<1>2. PICK x \in Nat \ S : \A y \in Nat \ S : x <= y
  BY <1>1, LeastExists
<1>3. x - 1 \in Nat /\ x - 1 \in S
  BY <1>2
<1>4. QED
  BY <1>2, <1>3

\* Min of the library is the least element.
LEMMA MinIn ==
  ASSUME NEW T, T \subseteq Nat, T # {}
  PROVE  Min(T) \in T /\ \A y \in T : Min(T) <= y
  BY LeastExists DEF Min

\* Max of the library is the greatest element of a bounded set.
LEMMA MaxIn ==
  ASSUME NEW n \in Nat, NEW T, T \subseteq 0 .. n, T # {}
  PROVE  Max(T) \in T /\ \A y \in T : Max(T) >= y
<1> DEFINE U == {n - x : x \in T}
<1>1. \A x \in T : n - x \in U /\ n - x \in Nat
  OBVIOUS
<1>2. \A u \in U : \E x \in T : u = n - x
  OBVIOUS
<1> HIDE DEF U
<1>3. U \subseteq Nat /\ U # {}
  BY <1>1, <1>2
<1>4. PICK u \in U : \A v \in U : u <= v
  BY <1>3, LeastExists
<1>5. PICK x \in T : u = n - x
  BY <1>2
<1>6. \A y \in T : x >= y
  BY <1>1, <1>4, <1>5
<1>7. QED
  BY <1>6 DEF Max

\* Min and Max of two integers.
LEMMA MinOfTwo ==
  ASSUME NEW a \in Int, NEW b \in Int
  PROVE  /\ Min({a, b}) \in {a, b} /\ Min({a, b}) <= a /\ Min({a, b}) <= b
         /\ Max({a, b}) \in {a, b} /\ Max({a, b}) >= a /\ Max({a, b}) >= b
<1>1. \E x \in {a, b} : \A y \in {a, b} : x <= y
  OBVIOUS
<1>2. \E x \in {a, b} : \A y \in {a, b} : x >= y
  OBVIOUS
<1>3. Min({a, b}) \in {a, b} /\ \A y \in {a, b} : Min({a, b}) <= y
  BY <1>1 DEF Min
<1>4. Max({a, b}) \in {a, b} /\ \A y \in {a, b} : Max({a, b}) >= y
  BY <1>2 DEF Max
<1>5. QED
  BY <1>3, <1>4

\* A bounded set of natural numbers is finite, and so are its subsets.
LEMMA BoundedFinite ==
  ASSUME NEW n \in Nat, NEW T, T \subseteq 0 .. n
  PROVE  IsFiniteSet(T) /\ Cardinality(T) \in Nat
<1>1. IsFiniteSet(0 .. n)
  BY FS_Interval
<1>2. QED
  BY <1>1, FS_Subset, FS_CardinalityType

\* Every rank below the size of a bounded set is the rank of one of its elements:
\* counting the smaller elements is an injection into 0 .. |T| - 1.
LEMMA RankExists ==
  ASSUME NEW n \in Nat, NEW T, T \subseteq 0 .. n, NEW i \in 1 .. Cardinality(T)
  PROVE  \E m \in T : Cardinality({k \in T : k < m}) = i - 1
<1> DEFINE below(m) == {k \in T : k < m}
           D == 0 .. Cardinality(T) - 1
           f == [m \in T |-> Cardinality(below(m))]
<1>1. IsFiniteSet(T) /\ Cardinality(T) \in Nat
  BY BoundedFinite
<1>2. ASSUME NEW m \in T PROVE f[m] \in D
  <2>1. below(m) \in SUBSET T /\ below(m) # T
    OBVIOUS
  <2>2. /\ Cardinality(below(m)) <= Cardinality(T)
        /\ Cardinality(T) # Cardinality(below(m))
        /\ Cardinality(below(m)) \in Nat
    BY <1>1, <2>1, FS_Subset, FS_CardinalityType
  <2>3. QED
    BY <1>1, <2>2
<1>3. ASSUME NEW a \in T, NEW b \in T, a < b PROVE f[a] # f[b]
  <2>0. T \subseteq Int
    OBVIOUS
  <2>1. below(a) \in SUBSET below(b) /\ a \in below(b) /\ a \notin below(a)
    <3>1. \A k \in T : k < a => k < b
      BY <1>3, <2>0
    <3>2. below(a) \subseteq below(b)
      BY <3>1
    <3>3. a < b /\ ~(a < a)
      BY <1>3, <2>0
    <3>4. QED
      BY <3>2, <3>3
  <2>2. IsFiniteSet(below(b))
    BY <1>1, FS_Subset
  <2>3. Cardinality(below(b)) # Cardinality(below(a))
    BY <2>1, <2>2, FS_Subset
  <2>4. QED
    BY <2>3
<1>4. f \in Injection(T, D)
  <2>1. \A a, b \in T : f[a] = f[b] => a = b
    BY <1>3
  <2>2. f \in [T -> D]
    BY <1>2
  <2>3. QED
    BY <2>1, <2>2 DEF Injection, IsInjective
<1>5. IsFiniteSet(D) /\ Cardinality(D) = Cardinality(T)
  <2>1. Cardinality(T) - 1 \in Int /\ ~(0 > Cardinality(T) - 1)
    BY <1>1
  <2>2. /\ IsFiniteSet(D)
        /\ Cardinality(D) = IF 0 > Cardinality(T) - 1 THEN 0 ELSE Cardinality(T) - 1 - 0 + 1
    BY <2>1, FS_Interval
  <2>3. QED
    BY <1>1, <2>1, <2>2
<1>6. f \in Surjection(T, D)
  BY <1>4, <1>5, FS_Injection
<1>7. i - 1 \in D
  BY <1>1
<1>8. \E m \in T : f[m] = i - 1
  BY <1>6, <1>7 DEF Surjection
<1>9. QED
  BY <1>8

-----------------------------------------------------------------------------
(* The operators of the model.                                             *)

LEMMA ConstantTypes ==
  /\ MaxMsgs \in Nat /\ MaxRetries \in Nat /\ BatchMax \in Nat \ {0}
  /\ OutbufsMax \in Nat /\ MaxInflight \in Nat /\ EpochSpace \in Nat \ {0}
  /\ SeqSpace \in Nat \ {0} /\ Window \in Nat \ {0}
  /\ MsgIds = 1 .. MaxMsgs /\ NoPid = -1
  BY BoundsAssumption, SeqSpaceAssumption, WindowAssumption DEF MsgIds, NoPid

LEMMA SeqWrapType == \A n \in Int : SeqWrap(n) \in Int
  BY SeqSpaceAssumption DEF SeqWrap

\* Message sets are finite and have a first and a last message.
LEMMA MsgSetType ==
  ASSUME NEW S \in SUBSET MsgIds
  PROVE  /\ IsFiniteSet(S) /\ Cardinality(S) \in Nat
         /\ S # {} => /\ Min(S) \in S /\ \A m \in S : Min(S) <= m
                      /\ Max(S) \in S /\ \A m \in S : Max(S) >= m
                      /\ Min(S) <= Max(S)
<1>1. S \subseteq 0 .. MaxMsgs /\ S \subseteq Nat /\ MaxMsgs \in Nat
  BY ConstantTypes
<1>2. IsFiniteSet(S) /\ Cardinality(S) \in Nat
  BY <1>1, BoundedFinite
<1>3. S # {} => /\ Min(S) \in S /\ \A m \in S : Min(S) <= m
                /\ Max(S) \in S /\ \A m \in S : Max(S) >= m
  BY <1>1, MinIn, MaxIn
<1>4. QED
  BY <1>2, <1>3

\* The messages of a batch, in order, are a sequence of message ids.
LEMMA InOrderType ==
  ASSUME NEW S \in SUBSET MsgIds
  PROVE  InOrder(S) \in Seq(MsgIds)
<1>1. S \subseteq 0 .. MaxMsgs /\ MaxMsgs \in Nat /\ Cardinality(S) \in Nat
  BY ConstantTypes, MsgSetType
<1> DEFINE c(i) == CHOOSE m \in S : Cardinality({n \in S : n < m}) = i - 1
<1>2. ASSUME NEW i \in 1 .. Cardinality(S) PROVE c(i) \in MsgIds
  <2>1. \E m \in S : Cardinality({n \in S : n < m}) = i - 1
    BY <1>1, RankExists
  <2>2. QED
    BY <2>1
<1>3. InOrder(S) = [i \in 1 .. Cardinality(S) |-> c(i)]
  BY DEF InOrder
<1> HIDE DEF c
<1>4. [i \in 1 .. Cardinality(S) |-> c(i)] \in [1 .. Cardinality(S) -> MsgIds]
  BY <1>2
<1>5. QED
  BY <1>1, <1>3, <1>4, SeqDef

LEMMA SetStateType ==
  ASSUME NEW g \in Clients, NEW s \in IdempStates
  PROVE  SetState(g, s) \in Clients
  BY DEF SetState, IdempStates, Clients

LEMMA PidBumpType ==
  ASSUME NEW pid \in NoPid .. EpochSpace - 1
  PROVE  PidBump(pid) \in NoPid .. EpochSpace - 1
  BY ConstantTypes DEF PidBump

LEMMA DrainDoneType ==
  ASSUME NEW g \in Clients
  PROVE  DrainDone(g) \in Clients
<1>1. [g EXCEPT !.pid = PidBump(@)] \in Clients
  BY PidBumpType DEF Clients
<1>2. {"REQ_PID", "ASSIGNED"} \subseteq IdempStates
  BY DEF IdempStates
<1>3. QED
  BY <1>1, <1>2, SetStateType DEF DrainDone

LEMMA AfterErrorType ==
  ASSUME NEW g \in Clients, NEW a
  PROVE  AfterError(g, a) \in Clients
<1>1. SetFatal(g) \in Clients
  BY DEF SetFatal, Clients
<1>2. {"DRAIN_RESET", "DRAIN_BUMP"} \subseteq IdempStates
  BY DEF IdempStates
<1>3. QED
  BY <1>1, <1>2, SetStateType DEF AfterError

LEMMA PcTypes ==
  /\ {"idle", "toppar", "fail", "purge_op"} \subseteq ThreadPcs
  /\ {"idle", "toppar", "fail", "purge_op"} \cap TopparPcs = {}
  /\ {"checks", "produce", "purge_pid", "purge_drain", "purge_leave"} = TopparPcs
  /\ TopparPcs \subseteq ThreadPcs
  BY DEF ThreadPcs, TopparPcs

\* What the broker threads assign to their locals.
LEMMA ThreadPc == \A t \in Threads, pc \in ThreadPcs : [t EXCEPT !.pc = pc] \in Threads
  BY DEF Threads

LEMMA ThreadDd == \A t \in Threads, dd \in BOOLEAN : [t EXCEPT !.dd = dd] \in Threads
  BY DEF Threads

LEMMA ThreadTodo ==
  \A t \in Threads, todo \in SUBSET Partitions : [t EXCEPT !.todo = todo] \in Threads
  BY DEF Threads

LEMMA ThreadProduce ==
  \A t \in Threads, pc \in ThreadPcs, left \in Int :
    [t EXCEPT !.pc = pc, !.left = left] \in Threads
  BY DEF Threads

LEMMA ThreadBegin ==
  \A t \in Threads, pc \in ThreadPcs, scan \in BOOLEAN, pid \in Int,
     todo \in SUBSET Partitions :
    [t EXCEPT !.pc = pc, !.scan = scan, !.pid = pid, !.todo = todo] \in Threads
  BY DEF Threads

LEMMA ThreadServe ==
  \A t \in Threads, pc \in ThreadPcs, left \in Int, tp \in Partitions,
     todo \in SUBSET Partitions :
    [t EXCEPT !.todo = todo, !.tp = tp, !.left = left, !.pc = pc] \in Threads
  BY DEF Threads

LEMMA ThreadNext ==
  \A t \in Threads, pc \in ThreadPcs, left \in Int, tp \in Partitions \cup {None} :
    [t EXCEPT !.pc = pc, !.left = left, !.tp = tp] \in Threads
  BY DEF Threads

LEMMA NextTopparType ==
  ASSUME NEW t \in Threads
  PROVE  NextToppar(t) \in Threads /\ NextToppar(t).pc \notin TopparPcs
<1>1. IdleThread \in Threads /\ IdleThread.pc \notin TopparPcs
  BY PcTypes DEF IdleThread, Threads, NoPid
<1>2. /\ "toppar" \in ThreadPcs /\ "toppar" \notin TopparPcs
      /\ 0 \in Int /\ None \in Partitions \cup {None}
  BY PcTypes
<1>3. [t EXCEPT !.pc = "toppar", !.left = 0, !.tp = None] \in Threads
  BY Zenon, <1>2, ThreadNext
<1>4. [t EXCEPT !.pc = "toppar", !.left = 0, !.tp = None].pc = "toppar"
  BY DEF Threads
<1>5. QED
  BY <1>1, <1>2, <1>3, <1>4 DEF NextToppar

\* What the error handlers may decide.
ErrActions == [retry : BOOLEAN, incr : {0, 1}, status : Statuses,
               fatal : BOOLEAN, bump : BOOLEAN, ok : BOOLEAN]

LEMMA ErrActionType == \A e : ErrAction(e) \in ErrActions
  BY Zenon DEF ErrAction, ErrActions, Statuses

LEMMA IdempotentProduceErrorType ==
  ASSUME NEW r, NEW e, NEW t, NEW retries
  PROVE  IdempotentProduceError(r, e, t, retries) \in ErrActions
<1> DEFINE a == ErrAction(e)
<1>1. a \in ErrActions
  BY ErrActionType
<1> HIDE DEF a
<1> DEFINE permanent == [a EXCEPT !.retry = FALSE, !.status = "POSSIBLY_PERSISTED"]
           fatal == [permanent EXCEPT !.fatal = TRUE]
           renumber == [a EXCEPT !.retry = TRUE, !.incr = 0, !.bump = TRUE,
                                 !.status = "NOT_PERSISTED"]
           dup == [a EXCEPT !.ok = TRUE, !.status = "PERSISTED"]
<1>2. permanent \in ErrActions /\ fatal \in ErrActions
  BY <1>1 DEF ErrActions, Statuses
<1>3. renumber \in ErrActions /\ dup \in ErrActions
  BY <1>1 DEF ErrActions, Statuses
<1>4. QED
  BY Zenon, <1>1, <1>2, <1>3 DEF IdempotentProduceError, a

-----------------------------------------------------------------------------
(* Type correctness: one lemma per action.                                 *)

\* A part of the type invariant holds as long as its variables do not change.
LEMMA Frame ==
  /\ RkType /\ UNCHANGED rk => RkType'
  /\ MsgType /\ UNCHANGED <<rktp_msgid, rkm>> => MsgType'
  /\ TopparType /\ UNCHANGED <<msgq, xmit_msgq, msgs_inflight, eos>> => TopparType'
  /\ PlaceType /\ UNCHANGED place_vars => PlaceType'
  /\ ThreadType /\ UNCHANGED th => ThreadType'
  /\ HandType /\ UNCHANGED hand => HandType'
  /\ BufType /\ UNCHANGED <<buf_vars, purge_op>> => BufType'
  /\ KafkaType /\ UNCHANGED <<kafka_vars, expired, faults>> => KafkaType'
  BY DEF RkType, MsgType, TopparType, PlaceType, ThreadType, HandType, BufType,
         KafkaType, place_vars, buf_vars, kafka_vars

\* A purge op reaches all brokers or none.
LEMMA PurgeOnFatalType ==
  ASSUME BufType, PurgeOnFatal
  PROVE  purge_op' \in [Brokers -> BOOLEAN]
  BY DEF BufType, PurgeOnFatal

LEMMA FaultType ==
  ASSUME KafkaType, NEW kind, Fault(kind)
  PROVE  faults' \in Nat
  BY DEF KafkaType, Fault

LEMMA InitType == Init => TypeOK
<1> SUFFICES ASSUME Init PROVE TypeOK
  OBVIOUS
<1>1. RkType
  BY ConstantTypes DEF Init, RkType, Clients, IdempStates
<1>2. MsgType
  <2>1. [retries |-> 0, last_msgid |-> 0, status |-> "NOT_PERSISTED", dr |-> "none"]
          \in Messages
    BY ConstantTypes DEF Messages, Statuses
  <2>2. QED
    BY <2>1, ConstantTypes DEF Init, MsgType
<1>3. TopparType
  <2>1. [pid |-> NoPid, acked_msgid |-> 0, epoch_base_msgid |-> 0, next_ack_seq |-> 0,
         next_err_seq |-> 0, wait_drain |-> TRUE] \in EosStates
    BY ConstantTypes DEF EosStates
  <2>2. QED
    BY <2>1 DEF Init, TopparType
<1>4. PlaceType
  BY DEF Init, PlaceType
<1>5. ThreadType
  <2>1. IdleThread \in Threads /\ IdleThread.pc \notin TopparPcs
    BY PcTypes DEF IdleThread, Threads, NoPid
  <2>2. QED
    BY <2>1 DEF Init, ThreadType
<1>6. HandType
  BY DEF Init, HandType
<1>7. BufType
  BY DEF Init, BufType
<1>8. KafkaType
  <2>1. EmptyLog \in Logs
    BY DEF EmptyLog, Logs, NoPid
  <2>2. QED
    BY <2>1 DEF Init, KafkaType
<1>9. QED
  BY <1>1, <1>2, <1>3, <1>4, <1>5, <1>6, <1>7, <1>8 DEF TypeOK

LEMMA PidFsmType == TypeOK /\ PidFsm => TypeOK'
<1> SUFFICES ASSUME TypeOK, PidFsm PROVE TypeOK'
  OBVIOUS
<1>1. RkType'
  <2>1. {"WAIT_PID", "WAIT_TRANSPORT"} \subseteq IdempStates
    BY DEF IdempStates
  <2>2. QED
    BY <2>1, SetStateType DEF PidFsm, TypeOK, RkType
<1>2. QED
  BY <1>1, Frame DEF TypeOK, PidFsm, toppar_vars, place_vars, thread_vars, buf_vars, kafka_vars

LEMMA PidUpdateType == TypeOK /\ PidUpdate => TypeOK'
<1> SUFFICES ASSUME TypeOK, PidUpdate PROVE TypeOK'
  OBVIOUS
<1>1. RkType'
  <2>1. [rk EXCEPT !.pid = 0] \in Clients
    BY ConstantTypes DEF TypeOK, RkType, Clients
  <2>2. "ASSIGNED" \in IdempStates
    BY DEF IdempStates
  <2>3. QED
    BY <2>1, <2>2, SetStateType DEF PidUpdate, RkType
<1>2. QED
  BY <1>1, Frame DEF TypeOK, PidUpdate, toppar_vars, place_vars, thread_vars, buf_vars, kafka_vars

LEMMA RequestPidFailedType == TypeOK /\ RequestPidFailed => TypeOK'
<1> SUFFICES ASSUME TypeOK, RequestPidFailed PROVE TypeOK'
  OBVIOUS
<1>1. RkType'
  <2>1. SetFatal(rk) \in Clients /\ rk \in Clients
    BY DEF TypeOK, RkType, Clients, SetFatal
  <2>2. {"REQ_PID", "FATAL_ERROR"} \subseteq IdempStates
    BY DEF IdempStates
  <2>3. QED
    BY <2>1, <2>2, SetStateType DEF RequestPidFailed, RkType
<1>2. BufType'
  BY PurgeOnFatalType DEF RequestPidFailed, TypeOK, BufType, buf_vars
<1>3. KafkaType'
  BY FaultType DEF RequestPidFailed, TypeOK, KafkaType, kafka_vars
<1>4. QED
  BY <1>1, <1>2, <1>3, Frame DEF TypeOK, RequestPidFailed, toppar_vars, place_vars, thread_vars

LEMMA ProduceType == ASSUME NEW p \in Partitions PROVE TypeOK /\ Produce(p) => TypeOK'
<1> SUFFICES ASSUME TypeOK, Produce(p) PROVE TypeOK'
  OBVIOUS
<1>0. rktp_msgid[p] \in 0 .. MaxMsgs /\ rktp_msgid[p] < MaxMsgs /\ MaxMsgs \in Nat
  BY ConstantTypes DEF TypeOK, MsgType, Produce
<1>1. rktp_msgid[p] + 1 \in MsgIds /\ rktp_msgid[p] + 1 \in 0 .. MaxMsgs
  BY <1>0, ConstantTypes
<1>2. MsgType'
  BY <1>1 DEF TypeOK, MsgType, Produce
<1>3. TopparType'
  BY <1>1 DEF TypeOK, TopparType, Produce
<1>4. QED
  BY <1>2, <1>3, Frame DEF TypeOK, Produce, place_vars, thread_vars, buf_vars, kafka_vars

LEMMA PurgeType == TypeOK /\ Purge => TypeOK'
<1> SUFFICES ASSUME TypeOK, Purge PROVE TypeOK'
  OBVIOUS
<1>1. BufType'
  BY DEF Purge, TypeOK, BufType, buf_vars
<1>2. KafkaType'
  BY FaultType DEF Purge, TypeOK, KafkaType, kafka_vars
<1>3. QED
  BY <1>1, <1>2, Frame DEF TypeOK, Purge, toppar_vars, place_vars, thread_vars

LEMMA ExpireType == ASSUME NEW p \in Partitions PROVE TypeOK /\ Expire(p) => TypeOK'
<1> SUFFICES ASSUME TypeOK, Expire(p) PROVE TypeOK'
  OBVIOUS
<1>1. KafkaType'
  BY FaultType DEF Expire, TypeOK, KafkaType, kafka_vars
<1>2. QED
  BY <1>1, Frame DEF TypeOK, Expire, toppar_vars, place_vars, thread_vars, buf_vars

\* A thread keeps its type when its locals are assigned a well-typed record.
LEMMA ThreadStep ==
  ASSUME ThreadType, NEW b \in Brokers, NEW t \in Threads,
         t.pc \in TopparPcs => t.tp \in Partitions,
         th' = [th EXCEPT ![b] = t]
  PROVE  ThreadType'
  BY DEF ThreadType

\* ... and so when only its pc, or only its drain-done flag, changes.
LEMMA ThreadPcStep ==
  ASSUME ThreadType, NEW b \in Brokers, NEW pc \in ThreadPcs \ TopparPcs,
         th' = [th EXCEPT ![b].pc = pc]
  PROVE  ThreadType'
<1>1. th[b] \in Threads
  BY DEF ThreadType
<1>2. [th[b] EXCEPT !.pc = pc] \in Threads
  BY <1>1, ThreadPc
<1>3. [th[b] EXCEPT !.pc = pc].pc = pc
  BY <1>1 DEF Threads
<1>4. th' = [th EXCEPT ![b] = [th[b] EXCEPT !.pc = pc]]
  OBVIOUS
<1>5. QED
  BY <1>2, <1>3, <1>4, ThreadStep

LEMMA ThreadDdStep ==
  ASSUME ThreadType, NEW b \in Brokers, NEW dd \in BOOLEAN,
         th' = [th EXCEPT ![b].dd = dd]
  PROVE  ThreadType'
<1>1. th[b] \in Threads
  BY DEF ThreadType
<1>2. [th[b] EXCEPT !.dd = dd] \in Threads
  BY <1>1, ThreadDd
<1>3. [th[b] EXCEPT !.dd = dd].pc = th[b].pc /\ [th[b] EXCEPT !.dd = dd].tp = th[b].tp
  BY <1>1 DEF Threads
<1>4. th' = [th EXCEPT ![b] = [th[b] EXCEPT !.dd = dd]]
  OBVIOUS
<1>5. QED
  BY <1>2, <1>3, <1>4, ThreadStep DEF ThreadType

LEMMA NextTopparStep ==
  ASSUME ThreadType, NEW b \in Brokers, th' = [th EXCEPT ![b] = NextToppar(th[b])]
  PROVE  ThreadType'
<1>1. NextToppar(th[b]) \in Threads /\ NextToppar(th[b]).pc \notin TopparPcs
  BY NextTopparType DEF ThreadType
<1>2. QED
  BY <1>1, ThreadStep

LEMMA DelegateType == ASSUME NEW p \in Partitions PROVE TypeOK /\ Delegate(p) => TypeOK'
<1> SUFFICES ASSUME TypeOK, Delegate(p) PROVE TypeOK'
  OBVIOUS
<1>1. PlaceType'
  BY DEF Delegate, TypeOK, PlaceType, KafkaType
<1>2. QED
  BY <1>1, Frame DEF TypeOK, Delegate, toppar_vars, thread_vars, buf_vars, kafka_vars

LEMMA LeaderChangeType ==
  ASSUME NEW p \in Partitions PROVE TypeOK /\ LeaderChange(p) => TypeOK'
<1> SUFFICES ASSUME TypeOK, LeaderChange(p) PROVE TypeOK'
  OBVIOUS
<1>1. KafkaType'
  BY FaultType DEF LeaderChange, TypeOK, KafkaType
<1>2. QED
  BY <1>1, Frame DEF TypeOK, LeaderChange, toppar_vars, place_vars, thread_vars, buf_vars

LEMMA KafkaForgetType ==
  ASSUME NEW p \in Partitions PROVE TypeOK /\ KafkaForget(p) => TypeOK'
<1> SUFFICES ASSUME TypeOK, KafkaForget(p) PROVE TypeOK'
  OBVIOUS
<1>1. Forgotten(plog[p]) \in Logs
  <2>1. \A k \in Logs, e \in Int, w \in Seq(Batches) :
          [k EXCEPT !.epoch = e, !.window = w] \in Logs
    BY DEF Logs
  <2>2. plog[p] \in Logs /\ NoPid \in Int /\ <<>> \in Seq(Batches)
    BY ConstantTypes DEF TypeOK, KafkaType
  <2>3. QED
    BY Zenon, <2>1, <2>2 DEF Forgotten
<1>2. KafkaType'
  BY <1>1, FaultType DEF KafkaForget, TypeOK, KafkaType
<1>3. QED
  BY <1>2, Frame DEF TypeOK, KafkaForget, toppar_vars, place_vars, thread_vars, buf_vars

LEMMA ServeBeginType == ASSUME NEW b \in Brokers PROVE TypeOK /\ ServeBegin(b) => TypeOK'
<1> SUFFICES ASSUME TypeOK, ServeBegin(b) PROVE TypeOK'
  OBVIOUS
<1>1. ThreadType'
  <2>1. PICK scan \in BOOLEAN :
          th' = [th EXCEPT ![b] = [@ EXCEPT !.pc = "toppar", !.scan = scan,
                                            !.pid = GetPid(rk), !.todo = Active(b)]]
    BY DEF ServeBegin
  <2>2. "toppar" \in ThreadPcs /\ "toppar" \notin TopparPcs
    BY PcTypes
  <2>3. GetPid(rk) \in Int /\ Active(b) \in SUBSET Partitions /\ th[b] \in Threads
    BY ConstantTypes DEF TypeOK, RkType, Clients, GetPid, Active, ThreadType
  <2> DEFINE t == [th[b] EXCEPT !.pc = "toppar", !.scan = scan,
                                !.pid = GetPid(rk), !.todo = Active(b)]
  <2>4. t \in Threads
    BY Zenon, <2>2, <2>3, ThreadBegin
  <2>5. t.pc = "toppar"
    BY <2>3 DEF Threads
  <2>6. th' = [th EXCEPT ![b] = t]
    BY <2>1
  <2> HIDE DEF t
  <2>7. QED
    BY <2>2, <2>4, <2>5, <2>6, ThreadStep DEF TypeOK
<1>2. QED
  BY <1>1, Frame DEF TypeOK, ServeBegin, toppar_vars, place_vars, buf_vars, kafka_vars

LEMMA PurgeDrainDoneType ==
  ASSUME NEW b \in Brokers PROVE TypeOK /\ PurgeDrainDone(b) => TypeOK'
<1> SUFFICES ASSUME TypeOK, PurgeDrainDone(b) PROVE TypeOK'
  OBVIOUS
<1>1. ThreadType'
  BY NextTopparStep DEF TypeOK, PurgeDrainDone
<1>2. QED
  BY <1>1, Frame DEF TypeOK, PurgeDrainDone, toppar_vars, place_vars, buf_vars, kafka_vars

LEMMA ReconnectType == ASSUME NEW b \in Brokers PROVE TypeOK /\ Reconnect(b) => TypeOK'
<1> SUFFICES ASSUME TypeOK, Reconnect(b) PROVE TypeOK'
  OBVIOUS
<1>1. BufType'
  BY DEF Reconnect, TypeOK, BufType
<1>2. QED
  BY <1>1, Frame DEF TypeOK, Reconnect, toppar_vars, place_vars, thread_vars, kafka_vars

LEMMA PurgeOpType == ASSUME NEW b \in Brokers PROVE TypeOK /\ PurgeOp(b) => TypeOK'
<1> SUFFICES ASSUME TypeOK, PurgeOp(b) PROVE TypeOK'
  OBVIOUS
<1>1. BufType'
  BY DEF PurgeOp, TypeOK, BufType, buf_vars
<1>2. ThreadType'
  BY PcTypes, ThreadPcStep DEF PurgeOp, TypeOK
<1>3. QED
  BY <1>1, <1>2, Frame DEF TypeOK, PurgeOp, toppar_vars, place_vars, kafka_vars

LEMMA CallDrainDoneType ==
  ASSUME NEW b \in Brokers PROVE TypeOK /\ CallDrainDone(b) => TypeOK'
<1> SUFFICES ASSUME TypeOK, CallDrainDone(b) PROVE TypeOK'
  OBVIOUS
<1>1. RkType'
  BY DrainDoneType DEF CallDrainDone, TypeOK, RkType
<1>2. ThreadType'
  BY ThreadDdStep DEF CallDrainDone, TypeOK
<1>3. QED
  BY <1>1, <1>2, Frame DEF TypeOK, CallDrainDone, toppar_vars, place_vars, buf_vars, kafka_vars

LEMMA PartitionJoinType ==
  ASSUME NEW b \in Brokers, NEW p \in Partitions
  PROVE  TypeOK /\ PartitionJoin(b, p) => TypeOK'
<1> SUFFICES ASSUME TypeOK, PartitionJoin(b, p) PROVE TypeOK'
  OBVIOUS
<1>1. PlaceType'
  BY DEF PartitionJoin, TypeOK, PlaceType
<1>2. TopparType'
  <2>1. [eos[p] EXCEPT !.wait_drain = TRUE] \in EosStates
    BY DEF TypeOK, TopparType, EosStates
  <2>2. eos' = [eos EXCEPT ![p] = [eos[p] EXCEPT !.wait_drain = TRUE]]
    BY DEF PartitionJoin
  <2>3. QED
    BY <2>1, <2>2 DEF PartitionJoin, TypeOK, TopparType
<1>3. QED
  BY <1>1, <1>2, Frame DEF TypeOK, PartitionJoin, thread_vars, buf_vars, kafka_vars

LEMMA PartitionLeaveType ==
  ASSUME NEW b \in Brokers, NEW p \in Partitions
  PROVE  TypeOK /\ PartitionLeave(b, p) => TypeOK'
<1> SUFFICES ASSUME TypeOK, PartitionLeave(b, p) PROVE TypeOK'
  OBVIOUS
<1>1. ThreadType'
  <2> DEFINE t == [th[b] EXCEPT !.pc = "purge_leave", !.tp = p]
  <2>1. th[b] \in Threads /\ "purge_leave" \in ThreadPcs
    BY PcTypes DEF TypeOK, ThreadType
  <2>2. ASSUME NEW pc \in ThreadPcs PROVE [th[b] EXCEPT !.pc = pc, !.tp = p] \in Threads
    BY <2>1 DEF Threads
  <2>3. t \in Threads
    BY Zenon, <2>1, <2>2
  <2>4. t.tp = p
    BY <2>1 DEF Threads
  <2>5. th' = [th EXCEPT ![b] = t]
    BY DEF PartitionLeave
  <2> HIDE DEF t
  <2>6. QED
    BY <2>3, <2>4, <2>5, ThreadStep DEF TypeOK
<1>2. QED
  BY <1>1, Frame DEF TypeOK, PartitionLeave, toppar_vars, place_vars, buf_vars, kafka_vars

LEMMA PartitionLeftType ==
  ASSUME NEW b \in Brokers PROVE TypeOK /\ PartitionLeft(b) => TypeOK'
<1> SUFFICES ASSUME TypeOK, PartitionLeft(b) PROVE TypeOK'
  OBVIOUS
<1>1. th[b].tp \in Partitions
  BY PcTypes DEF TypeOK, ThreadType, PartitionLeft
<1>2. ThreadType'
  <2>1. IdleThread \in Threads /\ IdleThread.pc \notin TopparPcs
    BY PcTypes DEF IdleThread, Threads, NoPid
  <2>2. QED
    BY <2>1, ThreadStep DEF TypeOK, PartitionLeft
<1>3. TopparType'
  BY <1>1 DEF PartitionLeft, GivenBack, TypeOK, TopparType
<1>4. PlaceType'
  BY <1>1 DEF PartitionLeft, TypeOK, PlaceType
<1>5. QED
  BY <1>2, <1>3, <1>4, Frame DEF TypeOK, PartitionLeft, buf_vars, kafka_vars

\* The messages of one partition are replaced.
LEMMA MsgStep ==
  ASSUME MsgType, NEW p \in Partitions, NEW f \in [MsgIds -> Messages],
         \A m \in MsgIds : f[m].last_msgid # 0 => f[m].last_msgid >= m,
         rkm' = [rkm EXCEPT ![p] = f], UNCHANGED rktp_msgid
  PROVE  MsgType'
  BY DEF MsgType

LEMMA DrQueuedType ==
  ASSUME MsgType, NEW p \in Partitions, NEW S
  PROVE  /\ DrQueued(p, S)[p] \in [MsgIds -> Messages]
         /\ \A m \in MsgIds : DrQueued(p, S)[p][m].last_msgid = rkm[p][m].last_msgid
         /\ DrQueued(p, S) = [rkm EXCEPT ![p] = DrQueued(p, S)[p]]
<1> DEFINE g(m) == IF m \in S THEN [rkm[p][m] EXCEPT !.dr = "error"] ELSE rkm[p][m]
<1>1. ASSUME NEW m \in MsgIds
      PROVE  g(m) \in Messages /\ g(m).last_msgid = rkm[p][m].last_msgid
  <2>1. rkm[p][m] \in Messages
    BY DEF MsgType
  <2>2. /\ [rkm[p][m] EXCEPT !.dr = "error"] \in Messages
        /\ [rkm[p][m] EXCEPT !.dr = "error"].last_msgid = rkm[p][m].last_msgid
    BY <2>1 DEF Messages
  <2>3. QED
    BY <2>1, <2>2
<1>2. DrQueued(p, S) = [rkm EXCEPT ![p] = [m \in MsgIds |-> g(m)]]
  BY DEF DrQueued
<1>3. DrQueued(p, S)[p] = [m \in MsgIds |-> g(m)]
  BY <1>2 DEF MsgType
<1> HIDE DEF g
<1>4. QED
  BY <1>1, <1>2, <1>3

LEMMA ServeTimeoutType ==
  ASSUME NEW b \in Brokers, NEW p \in Partitions
  PROVE  TypeOK /\ ServeTimeout(b, p) => TypeOK'
<1> SUFFICES ASSUME TypeOK, ServeTimeout(b, p) PROVE TypeOK'
  OBVIOUS
<1>1. RkType'
  <2>1. "DRAIN_BUMP" \in IdempStates
    BY DEF IdempStates
  <2>2. QED
    BY <2>1, SetStateType DEF ServeTimeout, TypeOK, RkType
<1>2. MsgType'
  <2> DEFINE f == DrQueued(p, Expired(p))[p]
  <2>1. /\ f \in [MsgIds -> Messages]
        /\ \A m \in MsgIds : f[m].last_msgid = rkm[p][m].last_msgid
        /\ rkm' = [rkm EXCEPT ![p] = f]
    BY DrQueuedType DEF ServeTimeout, TypeOK
  <2>2. \A m \in MsgIds : f[m].last_msgid # 0 => f[m].last_msgid >= m
    BY <2>1 DEF TypeOK, MsgType
  <2> HIDE DEF f
  <2>3. QED
    BY <2>1, <2>2, MsgStep DEF ServeTimeout, TypeOK
<1>3. TopparType'
  BY DEF ServeTimeout, TypeOK, TopparType
<1>4. ThreadType'
  <2> DEFINE u == [th[b] EXCEPT !.todo = th[b].todo \ {p}]
             dd == th[b].pid # NoPid /\ rk.inflight_toppar_cnt = 0
             t == [NextToppar(u) EXCEPT !.dd = dd]
  <2>1. th[b] \in Threads /\ dd \in BOOLEAN /\ th[b].todo \ {p} \in SUBSET Partitions
    BY DEF TypeOK, ThreadType, Threads
  <2>2. u \in Threads
    BY <2>1, ThreadTodo
  <2>3. NextToppar(u) \in Threads /\ NextToppar(u).pc \notin TopparPcs
    BY <2>2, NextTopparType
  <2>4. th' = [th EXCEPT ![b] = t]
    BY DEF ServeTimeout
  <2> HIDE DEF u, dd
  <2>5. t \in Threads
    BY <2>1, <2>3, ThreadDd
  <2>6. t.pc = NextToppar(u).pc
    BY <2>3 DEF Threads
  <2> HIDE DEF t
  <2>7. QED
    BY <2>3, <2>4, <2>5, <2>6, ThreadStep DEF TypeOK
<1>5. QED
  BY <1>1, <1>2, <1>3, <1>4, Frame
  DEF TypeOK, ServeTimeout, toppar_vars, place_vars, buf_vars, kafka_vars

LEMMA ServeTopparType ==
  ASSUME NEW b \in Brokers, NEW p \in Partitions
  PROVE  TypeOK /\ ServeToppar(b, p) => TypeOK'
<1> SUFFICES ASSUME TypeOK, ServeToppar(b, p) PROVE TypeOK'
  OBVIOUS
<1> DEFINE left == IF rk.fatal THEN 0 ELSE OutbufsMax - Len(outbufs[b])
           todo == th[b].todo \ {p}
           pc == IF th[b].pid # eos[p].pid THEN "purge_pid" ELSE "checks"
<1>1. th[b] \in Threads /\ todo \in SUBSET Partitions
  BY DEF TypeOK, ThreadType, Threads
<1>2. left \in Int
  <2>1. Len(outbufs[b]) \in Int
    BY DEF TypeOK, BufType
  <2>2. QED
    BY <2>1, ConstantTypes
<1>3. pc \in ThreadPcs
  BY PcTypes
<1>4. TopparType'
  <2>1. \/ UNCHANGED <<msgq, xmit_msgq>>
        \/ /\ xmit_msgq' = [xmit_msgq EXCEPT ![p] = xmit_msgq[p] \cup msgq[p]]
           /\ msgq' = [msgq EXCEPT ![p] = {}]
    BY DEF ServeToppar
  <2>2. UNCHANGED <<msgs_inflight, eos>>
    BY DEF ServeToppar
  <2>3. QED
    BY <2>1, <2>2 DEF TypeOK, TopparType
<1>5. \/ th' = [th EXCEPT ![b] = NextToppar([th[b] EXCEPT !.todo = todo])]
      \/ th' = [th EXCEPT ![b] = [th[b] EXCEPT !.todo = todo, !.tp = p, !.left = left,
                                               !.pc = pc]]
  BY DEF ServeToppar
<1> HIDE DEF left, todo, pc
<1>6. ThreadType'
  <2>1. CASE th' = [th EXCEPT ![b] = NextToppar([th[b] EXCEPT !.todo = todo])]
    <3>1. [th[b] EXCEPT !.todo = todo] \in Threads
      BY <1>1, ThreadTodo
    <3>2. QED
      BY <2>1, <3>1, NextTopparType, ThreadStep DEF TypeOK
  <2>2. CASE th' = [th EXCEPT ![b] = [th[b] EXCEPT !.todo = todo, !.tp = p, !.left = left,
                                                   !.pc = pc]]
    <3> DEFINE t == [th[b] EXCEPT !.todo = todo, !.tp = p, !.left = left, !.pc = pc]
    <3>1. t \in Threads
      BY Zenon, <1>1, <1>2, <1>3, ThreadServe
    <3>2. t.tp = p
      BY <1>1 DEF Threads
    <3>3. th' = [th EXCEPT ![b] = t]
      BY <2>2
    <3> HIDE DEF t
    <3>4. QED
      BY <3>1, <3>2, <3>3, ThreadStep DEF TypeOK
  <2>3. QED
    BY <1>5, <2>1, <2>2
<1>7. QED
  BY <1>4, <1>6, Frame
  DEF TypeOK, ServeToppar, toppar_vars, place_vars, buf_vars, kafka_vars

LEMMA PurgeQueuesType ==
  ASSUME NEW b \in Brokers PROVE TypeOK /\ PurgeQueues(b) => TypeOK'
<1> SUFFICES ASSUME TypeOK, PurgeQueues(b) PROVE TypeOK'
  OBVIOUS
<1>1. MsgType'
  <2> DEFINE f(p) == DrQueued(p, msgq[p] \cup xmit_msgq[p])[p]
  <2>1. rkm' = [p \in Partitions |-> IF p \in Active(b) THEN f(p) ELSE rkm[p]]
    BY DEF PurgeQueues
  <2>2. \A p \in Partitions :
          /\ f(p) \in [MsgIds -> Messages]
          /\ \A m \in MsgIds : f(p)[m].last_msgid = rkm[p][m].last_msgid
    BY DrQueuedType DEF TypeOK
  <2> HIDE DEF f
  <2>3. rkm' \in [Partitions -> [MsgIds -> Messages]]
    BY <2>1, <2>2 DEF TypeOK, MsgType
  <2>4. \A p \in Partitions, m \in MsgIds : rkm'[p][m].last_msgid = rkm[p][m].last_msgid
    BY <2>1, <2>2
  <2>5. QED
    BY <2>3, <2>4 DEF TypeOK, MsgType, PurgeQueues
<1>2. TopparType'
  BY DEF PurgeQueues, TypeOK, TopparType
<1>3. ThreadType'
  BY PcTypes, ThreadPcStep DEF PurgeQueues, TypeOK
<1>4. QED
  BY <1>1, <1>2, <1>3, Frame DEF TypeOK, PurgeQueues, place_vars, buf_vars, kafka_vars

-----------------------------------------------------------------------------
(* Actions that move requests.                                             *)

LEMMA NewHandType ==
  \A r \in Requests, e \in ReplyCodes \cup LocalErrs, sent \in BOOLEAN :
    [phase |-> "start", req |-> r, err |-> e, sent |-> sent] \in Hands
  BY DEF Hands

LEMMA HandStep ==
  ASSUME HandType, NEW b \in Brokers, NEW h \in Hands, hand' = [hand EXCEPT ![b] = h]
  PROVE  HandType'
  BY DEF HandType

\* Removing a request from the middle of a queue leaves a queue.
LEMMA RemoveAtType ==
  ASSUME NEW S, NEW s \in Seq(S), NEW i \in DOMAIN s
  PROVE  RemoveAt(s, i) \in Seq(S) /\ s[i] \in S
<1>1. Len(s) \in Nat /\ DOMAIN s = 1 .. Len(s) /\ i \in 1 .. Len(s)
      /\ \A j \in 1 .. Len(s) : s[j] \in S
  BY LenProperties, ElementOfSeq
<1>2. SubSeq(s, 1, i - 1) \in Seq(S)
  <2>1. 1 \in Int /\ i - 1 \in Int /\ \A j \in 1 .. i - 1 : s[j] \in S
    BY <1>1
  <2>2. QED
    BY <2>1, SubSeqProperties
<1>3. SubSeq(s, i + 1, Len(s)) \in Seq(S)
  <2>1. i + 1 \in Int /\ Len(s) \in Int /\ \A j \in i + 1 .. Len(s) : s[j] \in S
    BY <1>1
  <2>2. QED
    BY <2>1, SubSeqProperties
<1>4. QED
  BY <1>1, <1>2, <1>3, ConcatProperties DEF RemoveAt

LEMMA PurgeNextType == ASSUME NEW b \in Brokers PROVE TypeOK /\ PurgeNext(b) => TypeOK'
<1> SUFFICES ASSUME TypeOK, PurgeNext(b) PROVE TypeOK'
  OBVIOUS
<1> DEFINE i == Min(Victims(b))
           e == IF th[b].pc = "purge_op" THEN "_PURGE_QUEUE" ELSE "_RETRY"
<1>1. outbufs[b] \in Seq(Requests)
  BY DEF TypeOK, BufType
<1>2. i \in DOMAIN outbufs[b]
  <2>1. DOMAIN outbufs[b] \subseteq Nat
    BY <1>1, LenProperties
  <2>2. Victims(b) \subseteq DOMAIN outbufs[b] /\ Victims(b) # {}
    BY DEF Victims, PurgeNext
  <2>3. QED
    BY <2>1, <2>2, MinIn
<1>3. e \in ReplyCodes \cup LocalErrs
  BY DEF LocalErrs
<1>4. /\ hand' = [hand EXCEPT ![b] = [phase |-> "start", req |-> outbufs[b][i],
                                      err |-> e, sent |-> FALSE]]
      /\ outbufs' = [outbufs EXCEPT ![b] = RemoveAt(outbufs[b], i)]
  BY DEF PurgeNext
<1> HIDE DEF i, e
<1>5. RemoveAt(outbufs[b], i) \in Seq(Requests) /\ outbufs[b][i] \in Requests
  BY <1>1, <1>2, RemoveAtType
<1>6. HandType'
  BY <1>3, <1>4, <1>5, NewHandType, HandStep DEF TypeOK
<1>7. BufType'
  BY <1>4, <1>5 DEF TypeOK, BufType, PurgeNext
<1>8. QED
  BY <1>6, <1>7, Frame DEF TypeOK, PurgeNext, toppar_vars, place_vars, kafka_vars

LEMMA TransmitType == ASSUME NEW b \in Brokers PROVE TypeOK /\ Transmit(b) => TypeOK'
<1> SUFFICES ASSUME TypeOK, Transmit(b) PROVE TypeOK'
  OBVIOUS
<1>1. outbufs[b] \in Seq(Requests) /\ outbufs[b] # <<>> /\ waitresps[b] \in Seq(Requests)
  BY DEF TypeOK, BufType, Transmit
<1>2. Head(outbufs[b]) \in Requests /\ Tail(outbufs[b]) \in Seq(Requests)
  BY <1>1, HeadTailProperties
<1>3. Append(waitresps[b], Head(outbufs[b])) \in Seq(Requests)
  BY <1>1, <1>2, AppendProperties
<1>4. BufType'
  BY <1>2, <1>3 DEF TypeOK, BufType, Transmit
<1>5. QED
  BY <1>4, Frame DEF TypeOK, Transmit, toppar_vars, place_vars, thread_vars, kafka_vars

LEMMA RecvResponseType ==
  ASSUME NEW b \in Brokers PROVE TypeOK /\ RecvResponse(b) => TypeOK'
<1> SUFFICES ASSUME TypeOK, RecvResponse(b) PROVE TypeOK'
  OBVIOUS
<1>1. waitresps[b] \in Seq(Requests) /\ waitresps[b] # <<>>
  BY DEF TypeOK, BufType, RecvResponse
<1>2. Head(waitresps[b]) \in Requests /\ Tail(waitresps[b]) \in Seq(Requests)
  BY <1>1, HeadTailProperties
<1>3. Head(waitresps[b]).resp \in ReplyCodes \cup LocalErrs
  BY <1>2 DEF RecvResponse, Requests
<1>4. HandType'
  BY <1>2, <1>3, NewHandType, HandStep DEF TypeOK, RecvResponse
<1>5. BufType'
  BY <1>2 DEF TypeOK, BufType, RecvResponse
<1>6. QED
  BY <1>4, <1>5, Frame DEF TypeOK, RecvResponse, toppar_vars, place_vars, kafka_vars

LEMMA BrokerFailType == ASSUME NEW b \in Brokers PROVE TypeOK /\ BrokerFail(b) => TypeOK'
<1> SUFFICES ASSUME TypeOK, BrokerFail(b) PROVE TypeOK'
  OBVIOUS
<1> DEFINE answered ==
      Cardinality({i \in DOMAIN waitresps[b] : waitresps[b][i].resp # NoReply})
<1>1. waitresps[b] \in Seq(Requests) /\ stale[b] \in Seq(Requests)
  BY DEF TypeOK, BufType, KafkaType
<1>2. Len(waitresps[b]) \in Nat /\ DOMAIN waitresps[b] = 1 .. Len(waitresps[b])
      /\ \A j \in 1 .. Len(waitresps[b]) : waitresps[b][j] \in Requests
  BY <1>1, LenProperties, ElementOfSeq
<1>3. answered \in Nat
  <2>1. {i \in DOMAIN waitresps[b] : waitresps[b][i].resp # NoReply}
          \subseteq 0 .. Len(waitresps[b])
    BY <1>2
  <2>2. QED
    BY <1>2, <2>1, BoundedFinite
<1>4. stale' = [stale EXCEPT ![b] =
                  stale[b] \o SubSeq(waitresps[b], answered + 1, Len(waitresps[b]))]
  BY DEF BrokerFail
<1> HIDE DEF answered
<1>5. SubSeq(waitresps[b], answered + 1, Len(waitresps[b])) \in Seq(Requests)
  <2>1. /\ answered + 1 \in Int /\ Len(waitresps[b]) \in Int
        /\ \A j \in answered + 1 .. Len(waitresps[b]) : waitresps[b][j] \in Requests
    BY <1>2, <1>3
  <2>2. QED
    BY <2>1, SubSeqProperties
<1>6. stale[b] \o SubSeq(waitresps[b], answered + 1, Len(waitresps[b])) \in Seq(Requests)
  BY <1>1, <1>5, ConcatProperties
<1>7. KafkaType'
  BY <1>4, <1>6, FaultType DEF TypeOK, KafkaType, BrokerFail
<1>8. BufType'
  BY DEF TypeOK, BufType, BrokerFail
<1>9. ThreadType'
  BY PcTypes, ThreadPcStep DEF BrokerFail, TypeOK
<1>10. QED
  BY <1>7, <1>8, <1>9, Frame DEF TypeOK, BrokerFail, toppar_vars, place_vars

LEMMA FailNextType == ASSUME NEW b \in Brokers PROVE TypeOK /\ FailNext(b) => TypeOK'
<1> SUFFICES ASSUME TypeOK, FailNext(b) PROVE TypeOK'
  OBVIOUS
<1>1. outbufs[b] \in Seq(Requests) /\ waitresps[b] \in Seq(Requests)
  BY DEF TypeOK, BufType
<1>2. "_TRANSPORT" \in ReplyCodes \cup LocalErrs
  BY DEF LocalErrs
<1>3. CASE waitresps[b] # <<>>
  <2>1. Head(waitresps[b]) \in Requests /\ Tail(waitresps[b]) \in Seq(Requests)
    BY <1>1, <1>3, HeadTailProperties
  <2>2. HandType'
    BY <1>2, <1>3, <2>1, NewHandType, HandStep DEF TypeOK, FailNext
  <2>3. BufType'
    BY <1>3, <2>1 DEF TypeOK, BufType, FailNext
  <2>4. QED
    BY <1>3, <2>2, <2>3, Frame DEF TypeOK, FailNext, toppar_vars, place_vars, kafka_vars
<1>4. CASE waitresps[b] = <<>> /\ outbufs[b] # <<>>
  <2>1. Head(outbufs[b]) \in Requests /\ Tail(outbufs[b]) \in Seq(Requests)
    BY <1>1, <1>4, HeadTailProperties
  <2>2. HandType'
    BY <1>2, <1>4, <2>1, NewHandType, HandStep DEF TypeOK, FailNext
  <2>3. BufType'
    BY <1>4, <2>1 DEF TypeOK, BufType, FailNext
  <2>4. QED
    BY <1>4, <2>2, <2>3, Frame DEF TypeOK, FailNext, toppar_vars, place_vars, kafka_vars
<1>5. CASE waitresps[b] = <<>> /\ outbufs[b] = <<>>
  <2>1. ThreadType'
    BY <1>5, PcTypes, ThreadPcStep DEF TypeOK, FailNext
  <2>2. QED
    BY <1>5, <2>1, Frame DEF TypeOK, FailNext, toppar_vars, place_vars, buf_vars, kafka_vars
<1>6. QED
  BY <1>3, <1>4, <1>5

\* The batch taken from a queue that is not empty holds its first message.
LEMMA NextBatchType ==
  ASSUME MsgType, TopparType, NEW p \in Partitions, xmit_msgq[p] # {}
  PROVE  NextBatch(p) \in (SUBSET MsgIds) \ {{}}
<1> DEFINE m == Min(xmit_msgq[p])
<1>1. xmit_msgq[p] \in SUBSET MsgIds
  BY DEF TopparType
<1>2. m \in xmit_msgq[p] /\ \A n \in xmit_msgq[p] : m <= n
  BY <1>1, MsgSetType
<1>3. m \in MsgIds /\ xmit_msgq[p] \subseteq Int
  BY <1>1, <1>2, ConstantTypes
<1>4. {n \in xmit_msgq[p] : n < m} = {}
  BY <1>2, <1>3, ConstantTypes
<1>5. Cardinality({n \in xmit_msgq[p] : n < m}) < BatchMax
  <2>1. Cardinality({}) = 0
    BY FS_EmptySet
  <2>2. Cardinality({n \in xmit_msgq[p] : n < m}) = 0
    BY Zenon, <1>4, <2>1
  <2>3. QED
    BY <2>2, ConstantTypes
<1>6. rkm[p][m].last_msgid # 0 => m <= rkm[p][m].last_msgid
  <2>1. rkm[p][m].last_msgid \in Int /\ m \in Int
    BY <1>3, ConstantTypes DEF MsgType, Messages
  <2>2. QED
    BY <1>3, <2>1 DEF MsgType
<1>7. m \in NextBatch(p)
  BY <1>2, <1>5, <1>6 DEF NextBatch
<1>8. NextBatch(p) \subseteq xmit_msgq[p]
  BY DEF NextBatch
<1>9. QED
  BY <1>1, <1>7, <1>8

LEMMA MaxRequestsType ==
  ASSUME NEW left \in Int, NEW n \in Int
  PROVE  MaxRequests(left, n) \in Int
<1>1. MaxInflight - n \in Int
  BY ConstantTypes
<1>2. QED
  BY <1>1, MinOfTwo DEF MaxRequests

LEMMA PidChangeType ==
  ASSUME NEW t \in EosStates, NEW pid \in Int, NEW base \in 0 .. MaxMsgs
  PROVE  PidChange(t, pid, base) \in EosStates
<1>1. \A a, e \in Int : [t EXCEPT !.pid = pid, !.epoch_base_msgid = base,
                                  !.next_ack_seq = a, !.next_err_seq = e] \in EosStates
  BY DEF EosStates
<1>2. 0 \in Int
  OBVIOUS
<1>3. QED
  BY Zenon, <1>1, <1>2 DEF PidChange

LEMMA ServeChecksType == ASSUME NEW b \in Brokers PROVE TypeOK /\ ServeChecks(b) => TypeOK'
<1> SUFFICES ASSUME TypeOK, ServeChecks(b) PROVE TypeOK'
  OBVIOUS
<1> DEFINE p == th[b].tp
           n == MaxRequests(th[b].left, msgs_inflight[p])
           e == [eos[p] EXCEPT !.wait_drain = FALSE]
           c == PidChange(e, th[b].pid, Min(xmit_msgq[p]))
           t == [th[b] EXCEPT !.pc = "produce", !.left = n]
           d == [th[b] EXCEPT !.pc = "purge_drain"]
<1>1. th[b] \in Threads /\ p \in Partitions
  BY PcTypes DEF TypeOK, ThreadType, ServeChecks
<1>2. n \in Int
  <2>1. th[b].left \in Int /\ msgs_inflight[p] \in Int
    BY <1>1 DEF TypeOK, TopparType, Threads
  <2>2. QED
    BY <2>1, MaxRequestsType
<1>3. e \in EosStates
  BY <1>1 DEF TypeOK, TopparType, EosStates
<1>4. xmit_msgq[p] # {} => c \in EosStates
  <2>1. xmit_msgq[p] # {} => Min(xmit_msgq[p]) \in 0 .. MaxMsgs
    BY <1>1, MsgSetType, ConstantTypes DEF TypeOK, TopparType
  <2>2. th[b].pid \in Int
    BY <1>1 DEF Threads
  <2> HIDE DEF e
  <2>3. QED
    BY <1>3, <2>1, <2>2, PidChangeType
<1>5. /\ {"produce", "purge_drain"} \subseteq ThreadPcs
      /\ {"produce", "purge_drain"} \subseteq TopparPcs
  BY PcTypes
<1>6. t \in Threads /\ t.tp = p /\ d \in Threads /\ d.tp = p
  <2> HIDE DEF n
  <2>1. t \in Threads
    BY Zenon, <1>1, <1>2, <1>5, ThreadProduce
  <2>2. d \in Threads
    BY <1>1, <1>5, ThreadPc
  <2>3. t.tp = p /\ d.tp = p
    BY <1>1 DEF Threads
  <2>4. QED
    BY <2>1, <2>2, <2>3
<1>7. \/ UNCHANGED eos
      \/ eos' = [eos EXCEPT ![p] = e]
      \/ xmit_msgq[p] # {} /\ eos' = [eos EXCEPT ![p] = c]
  BY DEF ServeChecks
<1>8. \/ th' = [th EXCEPT ![b] = NextToppar(th[b])]
      \/ th' = [th EXCEPT ![b] = t]
      \/ th' = [th EXCEPT ![b] = d]
  BY DEF ServeChecks
<1>9. UNCHANGED <<msgq, xmit_msgq, msgs_inflight>>
  BY DEF ServeChecks
<1> HIDE DEF n, e, c, t, d
<1>10. TopparType'
  BY <1>1, <1>3, <1>4, <1>7, <1>9 DEF TypeOK, TopparType
<1>11. ThreadType'
  BY <1>1, <1>6, <1>8, ThreadStep, NextTopparStep DEF TypeOK
<1>12. QED
  BY <1>10, <1>11, Frame DEF TypeOK, ServeChecks, place_vars, buf_vars, kafka_vars

LEMMA ProduceRequestType ==
  ASSUME NEW b \in Brokers PROVE TypeOK /\ ProduceRequest(b) => TypeOK'
<1> SUFFICES ASSUME TypeOK, ProduceRequest(b) PROVE TypeOK'
  OBVIOUS
<1> DEFINE p == th[b].tp
           S == NextBatch(p)
           req == [tp |-> p, pid |-> th[b].pid, msgs |-> S, resp |-> NoReply,
                   first_seq |-> FirstSeq(p, S)]
           t == [th[b] EXCEPT !.left = th[b].left - 1]
<1>1. th[b] \in Threads /\ p \in Partitions
  BY PcTypes DEF TypeOK, ThreadType, ProduceRequest
<1>2. RkType'
  <2>1. SetFatal(rk) \in Clients
    BY DEF SetFatal, TypeOK, RkType, Clients
  <2>2. [rk EXCEPT !.inflight_toppar_cnt = @ + 1] \in Clients
    BY DEF TypeOK, RkType, Clients
  <2>3. rk' \in {rk, SetFatal(rk), [rk EXCEPT !.inflight_toppar_cnt = @ + 1]}
    BY DEF ProduceRequest
  <2>4. QED
    BY <2>1, <2>2, <2>3 DEF TypeOK, RkType
<1>3. ThreadType'
  <2>1. t \in Threads /\ t.tp = p
    BY <1>1 DEF Threads
  <2>2. \/ th' = [th EXCEPT ![b] = NextToppar(th[b])]
        \/ th' = [th EXCEPT ![b] = t]
    BY DEF ProduceRequest
  <2> HIDE DEF t
  <2>3. QED
    BY <1>1, <2>1, <2>2, ThreadStep, NextTopparStep DEF TypeOK
<1>4. purge_op' \in [Brokers -> BOOLEAN]
  BY PurgeOnFatalType DEF TypeOK, ProduceRequest
<1>5. TopparType' /\ outbufs' \in [Brokers -> Seq(Requests)]
  <2>1. CASE UNCHANGED <<xmit_msgq, outbufs, msgs_inflight>>
    BY <2>1 DEF TypeOK, TopparType, BufType, ProduceRequest
  <2>2. CASE /\ xmit_msgq[p] # {}
             /\ xmit_msgq' = [xmit_msgq EXCEPT ![p] = xmit_msgq[p] \ S]
             /\ outbufs' = [outbufs EXCEPT ![b] = Append(outbufs[b], req)]
             /\ msgs_inflight' = [msgs_inflight EXCEPT ![p] = msgs_inflight[p] + Cardinality(S)]
    <3>1. S \in (SUBSET MsgIds) \ {{}}
      BY <1>1, <2>2, NextBatchType DEF TypeOK
    <3>2. FirstSeq(p, S) \in Int
      <4>1. Min(S) \in MsgIds
        BY <3>1, MsgSetType
      <4>2. Min(S) - eos[p].epoch_base_msgid \in Int
        BY <1>1, <4>1, ConstantTypes DEF TypeOK, TopparType, EosStates
      <4>3. QED
        BY <4>2, SeqWrapType DEF FirstSeq
    <3>3. Cardinality(S) \in Nat
      BY <3>1, MsgSetType
    <3>4. th[b].pid \in Int
      BY <1>1 DEF Threads
    <3> HIDE DEF S
    <3>5. req \in Requests
      BY <1>1, <3>1, <3>2, <3>4 DEF Requests
    <3> HIDE DEF req
    <3>6. Append(outbufs[b], req) \in Seq(Requests)
      BY <3>5, AppendProperties DEF TypeOK, BufType
    <3>7. UNCHANGED <<msgq, eos>>
      BY DEF ProduceRequest
    <3>8. TopparType'
      BY <1>1, <2>2, <3>1, <3>3, <3>7 DEF TypeOK, TopparType
    <3>9. outbufs' \in [Brokers -> Seq(Requests)]
      BY <2>2, <3>6 DEF TypeOK, BufType
    <3>10. QED
      BY <3>8, <3>9
  <2>3. QED
    BY <2>1, <2>2 DEF ProduceRequest
<1>6. BufType'
  BY <1>4, <1>5 DEF TypeOK, BufType, ProduceRequest
<1>7. QED
  BY <1>2, <1>3, <1>5, <1>6, Frame DEF TypeOK, ProduceRequest, place_vars, kafka_vars

-----------------------------------------------------------------------------
(* The response handler.                                                   *)

LEMMA HandInUse ==
  ASSUME HandType, NEW b \in Brokers, hand[b].phase # "none"
  PROVE  /\ hand[b] \in Hands /\ hand[b].req \in Requests /\ hand[b].req.tp \in Partitions
         /\ hand[b].req.msgs \in (SUBSET MsgIds) \ {{}} /\ hand[b].req.first_seq \in Int
<1>1. hand[b] \in Hands
  BY DEF HandType, NoHand
<1>2. hand[b].req \in Requests
  BY <1>1 DEF Hands
<1>3. QED
  BY <1>1, <1>2 DEF Requests

LEMMA HandlerEndType ==
  ASSUME ThreadType, HandType, NEW b \in Brokers, NEW g \in Clients,
         NEW bumped \in BOOLEAN, HandlerEnd(b, g, bumped)
  PROVE  RkType' /\ ThreadType' /\ HandType'
<1> DEFINE cnt == IF hand[b].phase = "last" THEN g.inflight_toppar_cnt - 1
                  ELSE g.inflight_toppar_cnt
           dd == (hand[b].phase = "last" \/ bumped) /\ cnt = 0
<1>1. cnt \in Int /\ dd \in BOOLEAN
  BY DEF Clients
<1>2. /\ rk' = [g EXCEPT !.inflight_toppar_cnt = cnt]
      /\ th' = [th EXCEPT ![b].dd = dd]
      /\ hand' = [hand EXCEPT ![b] = NoHand]
  BY DEF HandlerEnd
<1> HIDE DEF cnt, dd
<1>3. RkType'
  BY <1>1, <1>2 DEF RkType, Clients
<1>4. ThreadType'
  BY <1>1, <1>2, ThreadDdStep
<1>5. HandType'
  BY <1>2 DEF HandType
<1>6. QED
  BY <1>3, <1>4, <1>5

LEMMA HandleStartType ==
  ASSUME NEW b \in Brokers PROVE TypeOK /\ HandleStart(b) => TypeOK'
<1> SUFFICES ASSUME TypeOK, HandleStart(b) PROVE TypeOK'
  OBVIOUS
<1> DEFINE r == hand[b].req
           n == msgs_inflight[r.tp] - Cardinality(r.msgs)
           ph == IF n = 0 THEN "last" ELSE "more"
<1>1. hand[b] \in Hands /\ r.tp \in Partitions /\ r.msgs \in SUBSET MsgIds
  BY HandInUse DEF TypeOK, HandleStart
<1>2. n \in Int
  BY <1>1, MsgSetType DEF TypeOK, TopparType
<1>3. /\ msgs_inflight' = [msgs_inflight EXCEPT ![r.tp] = n]
      /\ hand' = [hand EXCEPT ![b] = [hand[b] EXCEPT !.phase = ph]]
  BY DEF HandleStart
<1>4. [hand[b] EXCEPT !.phase = ph] \in Hands
  <2>1. ph \in {"start", "more", "last"}
    OBVIOUS
  <2> HIDE DEF ph
  <2>2. QED
    BY <1>1, <2>1 DEF Hands
<1> HIDE DEF n, ph
<1>5. TopparType'
  BY <1>1, <1>2, <1>3 DEF TypeOK, TopparType, HandleStart
<1>6. HandType'
  BY <1>3, <1>4, HandStep DEF TypeOK
<1>7. QED
  BY <1>5, <1>6, Frame DEF TypeOK, HandleStart, place_vars, buf_vars, kafka_vars

LEMMA NextSeqType ==
  ASSUME NEW r \in Requests
  PROVE  NextSeq(r) \in Int
<1>1. r.msgs \in SUBSET MsgIds /\ r.first_seq \in Int
  BY DEF Requests
<1>2. Cardinality(r.msgs) \in Nat
  BY <1>1, MsgSetType
<1>3. r.first_seq + Cardinality(r.msgs) \in Int
  BY <1>1, <1>2
<1>4. QED
  BY <1>3, SeqWrapType DEF NextSeq

LEMMA HandleSuccessType ==
  ASSUME NEW b \in Brokers PROVE TypeOK /\ HandleSuccess(b) => TypeOK'
<1> SUFFICES ASSUME TypeOK, HandleSuccess(b) PROVE TypeOK'
  OBVIOUS
<1> DEFINE r == hand[b].req
           p == r.tp
           t == eos[p]
           last == Max(r.msgs)
           implicit == t.acked_msgid < Min(r.msgs) - 1
           acked == IF implicit THEN ImplicitAck(p, last) ELSE {}
           unexpected == /\ ~implicit
                         /\ r.first_seq # t.next_ack_seq
                         /\ r.first_seq = t.next_err_seq
           ack == IF unexpected THEN t.next_ack_seq ELSE NextSeq(r)
           err == IF unexpected \/ t.next_err_seq = t.next_ack_seq
                  THEN NextSeq(r) ELSE t.next_err_seq
           top == Max({t.acked_msgid, last})
           e == [t EXCEPT !.next_err_seq = err, !.next_ack_seq = ack, !.acked_msgid = top]
           g == IF unexpected THEN SetFatal(rk) ELSE rk
           f(m) == IF m \in r.msgs \cup acked
                   THEN [rkm[p][m] EXCEPT !.status = "PERSISTED", !.dr = "ok"] ELSE rkm[p][m]
<1>1. r \in Requests /\ p \in Partitions /\ r.msgs \in (SUBSET MsgIds) \ {{}}
  BY HandInUse DEF TypeOK, HandleSuccess
<1>2. t \in EosStates
  BY <1>1 DEF TypeOK, TopparType
<1>3. ack \in Int /\ err \in Int
  BY <1>1, <1>2, NextSeqType DEF EosStates
<1>4. top \in 0 .. MaxMsgs
  <2>1. last \in MsgIds
    BY <1>1, MsgSetType
  <2>2. t.acked_msgid \in 0 .. MaxMsgs
    BY <1>2 DEF EosStates
  <2>3. last \in Int /\ t.acked_msgid \in Int
    BY <2>1, <2>2, ConstantTypes
  <2> HIDE DEF last, t
  <2>4. top \in {t.acked_msgid, last}
    BY <2>3, MinOfTwo
  <2>5. QED
    BY <2>1, <2>2, <2>4, ConstantTypes
<1>5. /\ eos' = [eos EXCEPT ![p] = e]
      /\ xmit_msgq' = [xmit_msgq EXCEPT ![p] = xmit_msgq[p] \ acked]
      /\ msgq' = [msgq EXCEPT ![p] = msgq[p] \ acked]
      /\ rkm' = [rkm EXCEPT ![p] = [m \in MsgIds |-> f(m)]]
      /\ HandlerEnd(b, g, FALSE)
      /\ UNCHANGED <<rktp_msgid, msgs_inflight>>
  BY DEF HandleSuccess
<1>6. g \in Clients
  BY DEF SetFatal, TypeOK, RkType, Clients
<1>7. \A m \in MsgIds : f(m) \in Messages /\ f(m).last_msgid = rkm[p][m].last_msgid
  <2> SUFFICES ASSUME NEW m \in MsgIds
               PROVE  f(m) \in Messages /\ f(m).last_msgid = rkm[p][m].last_msgid
    OBVIOUS
  <2>1. rkm[p][m] \in Messages
    BY <1>1 DEF TypeOK, MsgType
  <2>2. \A s \in Statuses, d \in {"none", "ok", "error"} :
          [rkm[p][m] EXCEPT !.status = s, !.dr = d] \in Messages
    BY <2>1 DEF Messages
  <2>3. "PERSISTED" \in Statuses /\ "ok" \in {"none", "ok", "error"}
    BY DEF Statuses
  <2>4. [rkm[p][m] EXCEPT !.status = "PERSISTED", !.dr = "ok"] \in Messages
    BY Zenon, <2>2, <2>3
  <2>5. [rkm[p][m] EXCEPT !.status = "PERSISTED", !.dr = "ok"].last_msgid
          = rkm[p][m].last_msgid
    BY <2>1 DEF Messages
  <2>6. QED
    BY <2>1, <2>4, <2>5
<1> HIDE DEF acked, ack, err, top, g, f, t
<1>8. e \in EosStates
  BY <1>2, <1>3, <1>4 DEF EosStates
<1> HIDE DEF e
<1>9. TopparType'
  BY <1>1, <1>5, <1>8 DEF TypeOK, TopparType
<1>10. MsgType'
  <2>1. [m \in MsgIds |-> f(m)] \in [MsgIds -> Messages]
    BY <1>7
  <2>2. ASSUME NEW m \in MsgIds, f(m).last_msgid # 0
        PROVE  f(m).last_msgid >= m
    BY <1>1, <1>7, <2>2 DEF TypeOK, MsgType
  <2>3. QED
    BY <1>1, <1>5, <2>1, <2>2, MsgStep DEF TypeOK
<1>11. RkType' /\ ThreadType' /\ HandType'
  BY <1>5, <1>6, HandlerEndType DEF TypeOK
<1>12. BufType'
  BY PurgeOnFatalType DEF HandleSuccess, TypeOK, BufType, buf_vars
<1>13. QED
  BY <1>9, <1>10, <1>11, <1>12, Frame DEF TypeOK, HandleSuccess, place_vars, kafka_vars

LEMMA HandleErrorType ==
  ASSUME NEW b \in Brokers PROVE TypeOK /\ HandleError(b) => TypeOK'
<1> SUFFICES ASSUME TypeOK, HandleError(b) PROVE TypeOK'
  OBVIOUS
<1> DEFINE r == hand[b].req
           p == r.tp
           t == eos[p]
           first == Min(r.msgs)
           a0 == IdempotentProduceError(r, hand[b].err, t, rkm[p][first].retries)
           incr == IF hand[b].sent THEN a0.incr ELSE 0
           status == IF a0.retry /\ incr = 0 THEN "NOT_PERSISTED" ELSE a0.status
           requeue == {m \in r.msgs : a0.retry /\ rkm[p][m].retries + incr <= MaxRetries}
           ack == IF a0.ok THEN NextSeq(r) ELSE t.next_ack_seq
           drain == t.wait_drain \/ a0.retry
           e == [t EXCEPT !.next_ack_seq = ack, !.next_err_seq = NextSeq(r),
                          !.wait_drain = drain]
           retries(m) == IF m \in requeue THEN rkm[p][m].retries + incr ELSE rkm[p][m].retries
           lastid(m) == IF m = first THEN Max(r.msgs) ELSE rkm[p][m].last_msgid
           stat(m) == NewStatus(rkm[p][m].status, status)
           dr(m) == IF m \in requeue THEN "none" ELSE IF a0.ok THEN "ok" ELSE "error"
           f(m) == IF m \notin r.msgs THEN rkm[p][m]
                   ELSE [retries |-> retries(m), last_msgid |-> lastid(m),
                         status |-> stat(m), dr |-> dr(m)]
           bumped == a0.bump \/ Permanent(a0)
<1>1. r \in Requests /\ p \in Partitions /\ r.msgs \in (SUBSET MsgIds) \ {{}}
  BY HandInUse DEF TypeOK, HandleError
<1>2. t \in EosStates
  BY <1>1 DEF TypeOK, TopparType
<1>3. a0 \in ErrActions
  BY IdempotentProduceErrorType
<1>4. /\ eos' = [eos EXCEPT ![p] = e]
      /\ msgq' = [msgq EXCEPT ![p] = msgq[p] \cup requeue]
      /\ rkm' = [rkm EXCEPT ![p] = [m \in MsgIds |-> f(m)]]
      /\ HandlerEnd(b, AfterError(rk, a0), bumped)
      /\ UNCHANGED <<rktp_msgid, xmit_msgq, msgs_inflight>>
  BY DEF HandleError
<1> HIDE DEF a0
<1>5. incr \in {0, 1} /\ status \in Statuses
  BY <1>3 DEF ErrActions, Statuses
<1>6. bumped \in BOOLEAN
  BY <1>3 DEF ErrActions, Permanent
<1>7. requeue \in SUBSET MsgIds
  BY <1>1
<1>8. NextSeq(r) \in Int /\ ack \in Int /\ drain \in BOOLEAN
  BY <1>1, <1>2, <1>3, NextSeqType DEF EosStates, ErrActions
<1> HIDE DEF incr, status, requeue, ack, drain, bumped, t
<1>9. e \in EosStates
  BY <1>2, <1>8 DEF EosStates
<1>10. ASSUME NEW m \in MsgIds
       PROVE  /\ f(m) \in Messages
              /\ f(m).last_msgid # 0 => f(m).last_msgid >= m
  <2>1. /\ rkm[p][m] \in Messages
        /\ rkm[p][m].last_msgid # 0 => rkm[p][m].last_msgid >= m
    BY <1>1 DEF TypeOK, MsgType
  <2>2. CASE m \notin r.msgs
    BY <2>1, <2>2
  <2>3. CASE m \in r.msgs
    <3>1. retries(m) \in Nat
      BY <1>5, <2>1 DEF Messages
    <3>2. Max(r.msgs) \in MsgIds /\ Max(r.msgs) >= m
      BY <1>1, <2>3, MsgSetType
    <3>3. lastid(m) \in 0 .. MaxMsgs /\ (lastid(m) # 0 => lastid(m) >= m)
      BY <2>1, <3>2, ConstantTypes DEF Messages
    <3>4. stat(m) \in Statuses
      BY <1>5, <2>1 DEF Messages, NewStatus
    <3>5. dr(m) \in {"none", "ok", "error"}
      OBVIOUS
    <3>6. f(m) = [retries |-> retries(m), last_msgid |-> lastid(m),
                  status |-> stat(m), dr |-> dr(m)]
      BY <2>3
    <3> HIDE DEF retries, lastid, stat, dr, f
    <3>7. f(m) \in Messages /\ f(m).last_msgid = lastid(m)
      BY <3>1, <3>3, <3>4, <3>5, <3>6 DEF Messages
    <3>8. QED
      BY <3>3, <3>7
  <2>4. QED
    BY <2>2, <2>3
<1> HIDE DEF e, f
<1>11. TopparType'
  BY <1>1, <1>4, <1>7, <1>9 DEF TypeOK, TopparType
<1>12. MsgType'
  BY <1>1, <1>4, <1>10, MsgStep DEF TypeOK
<1>13. RkType' /\ ThreadType' /\ HandType'
  <2>1. AfterError(rk, a0) \in Clients
    BY AfterErrorType DEF TypeOK, RkType
  <2>2. QED
    BY <1>4, <1>6, <2>1, HandlerEndType DEF TypeOK
<1>14. BufType'
  BY PurgeOnFatalType DEF HandleError, TypeOK, BufType, buf_vars
<1>15. QED
  BY <1>11, <1>12, <1>13, <1>14, Frame DEF TypeOK, HandleError, place_vars, kafka_vars

-----------------------------------------------------------------------------
(* The cluster.                                                            *)

LEMMA AppendedType ==
  ASSUME NEW k \in Logs, NEW r \in Requests
  PROVE  Appended(k, r) \in Logs
<1> DEFINE prev == IF k.epoch = r.pid THEN k.window ELSE <<>>
           win == Append(prev, Batch(r))
           window == IF Len(win) > Window THEN Tail(win) ELSE win
           ids == InOrder(r.msgs)
           recs == [i \in 1 .. Len(ids) |-> [id |-> ids[i], epoch |-> r.pid]]
<1>1. /\ k.window \in Seq(Batches) /\ k.log \in Seq(Records)
      /\ r.msgs \in SUBSET MsgIds /\ r.pid \in Int /\ r.first_seq \in Int
  BY DEF Logs, Requests
<1>2. Batch(r) \in Batches
  <2>1. Cardinality(r.msgs) \in Nat
    BY <1>1, MsgSetType
  <2>2. QED
    BY <1>1, <2>1 DEF Batch, Batches
<1>3. prev \in Seq(Batches)
  BY <1>1
<1> HIDE DEF prev
<1>4. win \in Seq(Batches) /\ win # <<>>
  BY <1>2, <1>3, AppendProperties
<1> HIDE DEF win
<1>5. window \in Seq(Batches)
  BY <1>4, HeadTailProperties
<1>6. recs \in Seq(Records)
  <2>1. ids \in Seq(MsgIds)
    BY <1>1, InOrderType
  <2> HIDE DEF ids
  <2>2. Len(ids) \in Nat /\ \A i \in 1 .. Len(ids) : ids[i] \in MsgIds
    BY <2>1, LenProperties, ElementOfSeq
  <2>3. \A i \in 1 .. Len(ids) : [id |-> ids[i], epoch |-> r.pid] \in Records
    BY <1>1, <2>2 DEF Records
  <2>4. recs \in [1 .. Len(ids) -> Records]
    BY <2>3
  <2>5. QED
    BY <2>2, <2>4, SeqDef
<1>7. k.log \o recs \in Seq(Records)
  BY <1>1, <1>6, ConcatProperties
<1>8. Appended(k, r) = [epoch |-> r.pid, window |-> window, log |-> k.log \o recs]
  BY DEF Appended, win, prev
<1> HIDE DEF window, recs
<1>9. QED
  BY <1>1, <1>5, <1>7, <1>8 DEF Logs

LEMMA KafkaRepliesType ==
  ASSUME KafkaType, NEW b \in Brokers, NEW r \in Requests, NEW x \in KafkaReplies(b, r)
  PROVE  x.k \in Logs /\ x.resp \in ReplyCodes
<1>1. r.tp \in Partitions
  BY DEF Requests
<1>2. plog[r.tp] \in Logs
  BY <1>1 DEF KafkaType
<1>3. \A y \in Replies(plog[r.tp], r) : y.k \in Logs /\ y.resp \in ReplyCodes
  <2> DEFINE k == plog[r.tp]
  <2>1. Appended(k, r) \in Logs
    BY <1>2, AppendedType
  <2> HIDE DEF k
  <2>2. \A y \in Replies(k, r) :
          /\ y.k \in {k, Appended(k, r)}
          /\ y.resp \in {"INVALID_PRODUCER_EPOCH", "OK", "DUPLICATE_SEQUENCE_NUMBER",
                         "UNKNOWN_PRODUCER_ID", "OUT_OF_ORDER_SEQUENCE_NUMBER"}
    BY DEF Replies
  <2>3. QED
    BY <1>2, <2>1, <2>2 DEF k, ReplyCodes
<1>4. \/ x.k = plog[r.tp] /\ x.resp \in {"NOT_LEADER_FOR_PARTITION", "NOT_ENOUGH_REPLICAS",
                                         "MSG_SIZE_TOO_LARGE"}
      \/ \E y \in Replies(plog[r.tp], r) :
           x.k = y.k /\ x.resp \in {y.resp, "NOT_ENOUGH_REPLICAS_AFTER_APPEND"}
  BY DEF KafkaReplies
<1>5. QED
  BY <1>2, <1>3, <1>4 DEF ReplyCodes

LEMMA KafkaHandleType == ASSUME NEW b \in Brokers PROVE TypeOK /\ KafkaHandle(b) => TypeOK'
<1> SUFFICES ASSUME TypeOK, KafkaHandle(b) PROVE TypeOK'
  OBVIOUS
<1> DEFINE w == waitresps[b]
           unanswered == {i \in DOMAIN w : w[i].resp = NoReply}
           i == Min(unanswered)
           r == w[i]
<1>1. w \in Seq(Requests)
  BY DEF TypeOK, BufType
<1>2. i \in 1 .. Len(w) /\ r \in Requests
  <2>1. DOMAIN w = 1 .. Len(w) /\ DOMAIN w \subseteq Nat
    BY <1>1, LenProperties
  <2>2. unanswered \subseteq DOMAIN w /\ unanswered # {}
    BY DEF KafkaHandle
  <2>3. i \in unanswered
    BY <2>1, <2>2, MinIn
  <2>4. QED
    BY <1>1, <2>1, <2>2, <2>3, ElementOfSeq
<1>3. PICK x \in KafkaReplies(b, r) :
        /\ MayReply(x)
        /\ plog' = [plog EXCEPT ![r.tp] = x.k]
        /\ waitresps' = [waitresps EXCEPT ![b] = [w EXCEPT ![i] = [r EXCEPT !.resp = x.resp]]]
  BY DEF KafkaHandle
<1>4. r.tp \in Partitions
  BY <1>2 DEF Requests
<1> HIDE DEF w, i, r
<1>5. x.k \in Logs /\ x.resp \in ReplyCodes
  BY <1>2, KafkaRepliesType DEF TypeOK
<1>6. [r EXCEPT !.resp = x.resp] \in Requests
  BY <1>2, <1>5 DEF Requests
<1>7. [w EXCEPT ![i] = [r EXCEPT !.resp = x.resp]] \in Seq(Requests)
  BY <1>1, <1>2, <1>6, ExceptSeq
<1>8. BufType'
  BY <1>3, <1>7 DEF TypeOK, BufType, KafkaHandle
<1>9. KafkaType'
  BY <1>3, <1>4, <1>5, FaultType DEF TypeOK, KafkaType, KafkaHandle, MayReply
<1>10. QED
  BY <1>8, <1>9, Frame DEF TypeOK, KafkaHandle, toppar_vars, place_vars, thread_vars

LEMMA KafkaStaleType == ASSUME NEW b \in Brokers PROVE TypeOK /\ KafkaStale(b) => TypeOK'
<1> SUFFICES ASSUME TypeOK, KafkaStale(b) PROVE TypeOK'
  OBVIOUS
<1> DEFINE r == Head(stale[b])
<1>1. stale[b] \in Seq(Requests) /\ stale[b] # <<>>
  BY DEF TypeOK, KafkaType, KafkaStale
<1>2. r \in Requests /\ Tail(stale[b]) \in Seq(Requests)
  BY <1>1, HeadTailProperties
<1>3. r.tp \in Partitions
  BY <1>2 DEF Requests
<1>4. \/ UNCHANGED plog
      \/ \E x \in KafkaReplies(b, r) : plog' = [plog EXCEPT ![r.tp] = x.k]
  BY DEF KafkaStale
<1> HIDE DEF r
<1>5. plog' \in [Partitions -> Logs]
  BY <1>2, <1>3, <1>4, KafkaRepliesType DEF TypeOK, KafkaType
<1>6. KafkaType'
  BY <1>2, <1>5 DEF TypeOK, KafkaType, KafkaStale
<1>7. QED
  BY <1>6, Frame DEF TypeOK, KafkaStale, toppar_vars, place_vars, thread_vars, buf_vars

-----------------------------------------------------------------------------
LEMMA NextType == TypeOK /\ [Next]_vars => TypeOK'
<1> SUFFICES ASSUME TypeOK, [Next]_vars PROVE TypeOK'
  OBVIOUS
<1>1. ASSUME NEW b \in Brokers, BrokerThread(b) PROVE TypeOK'
  BY <1>1, ServeBeginType, PurgeNextType, PurgeDrainDoneType, ServeChecksType,
     ProduceRequestType, TransmitType, RecvResponseType, FailNextType, ReconnectType,
     PurgeOpType, PurgeQueuesType, HandleStartType, HandleSuccessType, HandleErrorType,
     CallDrainDoneType, PartitionLeftType, ServeTimeoutType, ServeTopparType,
     PartitionLeaveType, PartitionJoinType
  DEF BrokerThread
<1>2. ASSUME NEW b \in Brokers, BrokerFail(b) \/ KafkaHandle(b) \/ KafkaStale(b)
      PROVE  TypeOK'
  BY <1>2, BrokerFailType, KafkaHandleType, KafkaStaleType
<1>3. ASSUME NEW p \in Partitions,
             \/ Produce(p) \/ Expire(p) \/ Delegate(p) \/ LeaderChange(p) \/ KafkaForget(p)
      PROVE  TypeOK'
  BY <1>3, ProduceType, ExpireType, DelegateType, LeaderChangeType, KafkaForgetType
<1>4. CASE PidFsm \/ PidUpdate \/ RequestPidFailed \/ Purge
  BY <1>4, PidFsmType, PidUpdateType, RequestPidFailedType, PurgeType
<1>5. CASE UNCHANGED vars
  BY <1>5, Frame DEF TypeOK, vars, toppar_vars, place_vars, thread_vars, buf_vars, kafka_vars
<1>6. QED
  BY <1>1, <1>2, <1>3, <1>4, <1>5 DEF Next

\* Every reachable state of the producer, its broker threads and the cluster is
\* well typed, for any number of partitions, brokers, messages and faults: no
\* handler works on a partition it does not have, builds an empty request, or
\* takes the epoch out of its range.
THEOREM TypeCorrect == Spec => []TypeOK
<1>1. Init => TypeOK
  BY InitType
<1>2. TypeOK /\ [Next]_vars => TypeOK'
  BY NextType
<1>3. QED
  BY <1>1, <1>2, PTL DEF Spec

-----------------------------------------------------------------------------
(* The requests of one queue that hold message m of partition p. *)

Match(r, p, m) == r.tp = p /\ m \in r.msgs

Has(q, p, m) == \E i \in DOMAIN q : Match(q[i], p, m)

Uniq(q, p, m) ==
  \A i, j \in DOMAIN q : Match(q[i], p, m) /\ Match(q[j], p, m) => i = j

\* q is s with its element number i, e, taken out.
TakenOut(s, q, i, e) ==
  /\ i \in DOMAIN s /\ e = s[i]
  /\ Len(s) \in Nat /\ DOMAIN s = 1 .. Len(s) /\ DOMAIN q = 1 .. (Len(s) - 1)
  /\ \A j \in DOMAIN q : q[j] = s[IF j < i THEN j ELSE j + 1]

LEMMA TakenOutHas ==
  ASSUME NEW s, NEW q, NEW i, NEW e, TakenOut(s, q, i, e), NEW p, NEW m
  PROVE  /\ Has(s, p, m) <=> Has(q, p, m) \/ Match(e, p, m)
         /\ Uniq(s, p, m) <=> Uniq(q, p, m) /\ ~(Has(q, p, m) /\ Match(e, p, m))
<1>1. /\ i \in 1 .. Len(s) /\ Len(s) \in Nat /\ DOMAIN s = 1 .. Len(s) /\ e = s[i]
      /\ DOMAIN q = 1 .. (Len(s) - 1)
      /\ \A j \in DOMAIN q : q[j] = s[IF j < i THEN j ELSE j + 1]
  BY DEF TakenOut
<1> DEFINE shift(j) == IF j < i THEN j ELSE j + 1
           unshift(j) == IF j < i THEN j ELSE j - 1
<1>2. \A j \in DOMAIN q : shift(j) \in DOMAIN s /\ shift(j) # i /\ q[j] = s[shift(j)]
  BY <1>1
<1>3. \A j \in DOMAIN s : j # i => unshift(j) \in DOMAIN q /\ q[unshift(j)] = s[j]
  BY <1>1
<1>4. \A j, k \in DOMAIN q : shift(j) = shift(k) => j = k
  BY <1>1
<1>5. i \in DOMAIN s /\ s[i] = e
  BY <1>1
<1> HIDE DEF shift, unshift
<1>6. Has(s, p, m) => Has(q, p, m) \/ Match(e, p, m)
  BY <1>3, <1>5 DEF Has
<1>7. Has(q, p, m) \/ Match(e, p, m) => Has(s, p, m)
  BY <1>2, <1>5 DEF Has
<1>8. Uniq(s, p, m) => Uniq(q, p, m)
  BY <1>2, <1>4 DEF Uniq
<1>9. Uniq(s, p, m) => ~(Has(q, p, m) /\ Match(e, p, m))
  BY <1>2, <1>5 DEF Uniq, Has
<1>10. \A j, k \in DOMAIN s : j # i /\ k # i /\ unshift(j) = unshift(k) => j = k
  BY <1>1 DEF unshift
<1>11. ASSUME Uniq(q, p, m), ~(Has(q, p, m) /\ Match(e, p, m)) PROVE Uniq(s, p, m)
  <2>1. ASSUME NEW j \in DOMAIN s, NEW k \in DOMAIN s, Match(s[j], p, m), Match(s[k], p, m)
        PROVE  j = k
    <3>1. CASE j # i /\ k # i
      BY <1>3, <1>10, <1>11, <2>1, <3>1 DEF Uniq
    <3>2. CASE j = i /\ k # i
      BY <1>3, <1>5, <1>11, <2>1, <3>2 DEF Has
    <3>3. CASE j # i /\ k = i
      BY <1>3, <1>5, <1>11, <2>1, <3>3 DEF Has
    <3>4. QED
      BY <3>1, <3>2, <3>3
  <2>2. QED
    BY <2>1 DEF Uniq
<1>12. QED
  BY <1>6, <1>7, <1>8, <1>9, <1>11

LEMMA TailTaken ==
  ASSUME NEW S, NEW s \in Seq(S), s # <<>>
  PROVE  TakenOut(s, Tail(s), 1, Head(s))
<1>1. /\ Len(s) \in Nat /\ DOMAIN s = 1 .. Len(s) /\ Len(s) >= 1
  BY LenProperties, EmptySeq
<1>2. /\ Tail(s) \in Seq(S) /\ Len(Tail(s)) = Len(s) - 1 /\ Head(s) = s[1]
      /\ \A j \in 1 .. Len(Tail(s)) : Tail(s)[j] = s[j + 1]
  BY HeadTailProperties
<1>3. DOMAIN Tail(s) = 1 .. (Len(s) - 1)
  BY <1>2, LenProperties
<1>4. QED
  BY <1>1, <1>2, <1>3 DEF TakenOut

LEMMA RemoveTaken ==
  ASSUME NEW S, NEW q \in Seq(S), NEW i \in DOMAIN q
  PROVE  TakenOut(q, RemoveAt(q, i), i, q[i])
<1> DEFINE a == SubSeq(q, 1, i - 1)
           b == SubSeq(q, i + 1, Len(q))
           z == a \o b
<1>1. Len(q) \in Nat /\ DOMAIN q = 1 .. Len(q) /\ i \in 1 .. Len(q) /\ q[i] \in S
  BY LenProperties, ElementOfSeq
<1>2. /\ a \in Seq(S) /\ Len(a) = i - 1 /\ \A j \in 1 .. i - 1 : a[j] = q[j]
  BY <1>1, SubSeqProperties
<1>3. /\ b \in Seq(S) /\ Len(b) = Len(q) - i /\ \A j \in 1 .. Len(q) - i : b[j] = q[j + i]
  BY <1>1, SubSeqProperties
<1> HIDE DEF a, b
<1>4. /\ z \in Seq(S) /\ Len(z) = Len(q) - 1
      /\ \A j \in 1 .. Len(z) : z[j] = IF j <= i - 1 THEN a[j] ELSE b[j - (i - 1)]
  <2>1. /\ z \in Seq(S) /\ Len(z) = Len(a) + Len(b)
        /\ \A j \in 1 .. Len(a) + Len(b) : z[j] = IF j <= Len(a) THEN a[j] ELSE b[j - Len(a)]
    BY <1>2, <1>3, ConcatProperties
  <2> HIDE DEF z
  <2>2. Len(a) + Len(b) = Len(q) - 1
    BY <1>1, <1>2, <1>3
  <2>3. QED
    BY <1>2, <2>1, <2>2
<1>5. DOMAIN z = 1 .. Len(q) - 1
  BY <1>4, LenProperties
<1> HIDE DEF z
<1>6. ASSUME NEW j \in DOMAIN z PROVE z[j] = q[IF j < i THEN j ELSE j + 1]
  <2>1. j \in 1 .. Len(q) - 1 /\ j \in Int
    BY <1>1, <1>5
  <2>2. CASE j < i
    <3>1. j \in 1 .. i - 1 /\ j \in 1 .. Len(z) /\ j <= i - 1
      BY <1>1, <1>4, <2>1, <2>2
    <3>2. z[j] = a[j] /\ a[j] = q[j]
      BY <1>2, <1>4, <3>1
    <3>3. QED
      BY <2>2, <3>2
  <2>3. CASE ~(j < i)
    <3>1. j - (i - 1) \in 1 .. Len(q) - i /\ (j - (i - 1)) + i = j + 1
      BY <1>1, <2>1, <2>3
    <3>2. b[j - (i - 1)] = q[j + 1]
      BY <1>3, <3>1
    <3>3. QED
      BY <1>1, <1>4, <2>1, <2>3, <3>2
  <2>4. QED
    BY <2>2, <2>3
<1>7. TakenOut(q, z, i, q[i])
  BY <1>1, <1>5, <1>6 DEF TakenOut
<1>8. QED
  BY <1>7 DEF z, a, b, RemoveAt

LEMMA AppendTaken ==
  ASSUME NEW S, NEW s \in Seq(S), NEW e \in S
  PROVE  TakenOut(Append(s, e), s, Len(s) + 1, e)
<1>1. /\ Len(s) \in Nat /\ DOMAIN s = 1 .. Len(s)
  BY LenProperties
<1>2. /\ Append(s, e) \in Seq(S) /\ Len(Append(s, e)) = Len(s) + 1
      /\ \A j \in 1 .. Len(s) : Append(s, e)[j] = s[j]
      /\ Append(s, e)[Len(s) + 1] = e
  BY AppendProperties
<1>3. DOMAIN Append(s, e) = 1 .. (Len(s) + 1)
  BY <1>2, LenProperties
<1>4. QED
  BY <1>1, <1>2, <1>3 DEF TakenOut

-----------------------------------------------------------------------------
(* The owners of a message.                                                *)

\* The requests of a broker: unsent (o), sent (w) and in the hands of its
\* thread (h).  Whether one of them has message m of partition p, and only one.
InHand(h, p, m) == h.phase # "none" /\ Match(h.req, p, m)

HoldsIn(o, w, h, p, m) == Has(o, p, m) \/ Has(w, p, m) \/ InHand(h, p, m)

OnceIn(o, w, h, p, m) ==
  /\ Uniq(o, p, m) /\ Uniq(w, p, m)
  /\ ~(Has(o, p, m) /\ Has(w, p, m))
  /\ ~(Has(o, p, m) /\ InHand(h, p, m))
  /\ ~(Has(w, p, m) /\ InHand(h, p, m))

Holds(b, p, m) == HoldsIn(outbufs[b], waitresps[b], hand[b], p, m)
Once(b, p, m) == OnceIn(outbufs[b], waitresps[b], hand[b], p, m)

InQ(p, m) == m \in msgq[p]
InX(p, m) == m \in xmit_msgq[p]
InD(p, m) == rkm[p][m].dr # "none"

\* A produced message is in one of the queues, has been reported, or is held by
\* one request of one broker; one that has not been produced is nowhere.
Conserved(p, m) ==
  /\ m <= rktp_msgid[p] <=>
       InQ(p, m) \/ InX(p, m) \/ InD(p, m) \/ \E b \in Brokers : Holds(b, p, m)
  /\ ~(InQ(p, m) /\ InX(p, m)) /\ ~(InQ(p, m) /\ InD(p, m)) /\ ~(InX(p, m) /\ InD(p, m))
  /\ \A b \in Brokers : Holds(b, p, m) => ~InQ(p, m) /\ ~InX(p, m) /\ ~InD(p, m)
  /\ \A b, d \in Brokers : Holds(b, p, m) /\ Holds(d, p, m) => b = d
  /\ \A b \in Brokers : Once(b, p, m)

OwnersInv == \A p \in Partitions, m \in MsgIds : Conserved(p, m)

LEMMA SendRequest ==
  ASSUME NEW o, NEW w, NEW h, NEW o2, NEW w2, NEW i, NEW j, NEW e,
         TakenOut(o, o2, i, e), TakenOut(w2, w, j, e), NEW p, NEW m
  PROVE  /\ HoldsIn(o2, w2, h, p, m) <=> HoldsIn(o, w, h, p, m)
         /\ OnceIn(o, w, h, p, m) => OnceIn(o2, w2, h, p, m)
<1>1. /\ Has(o, p, m) <=> Has(o2, p, m) \/ Match(e, p, m)
      /\ Uniq(o, p, m) <=> Uniq(o2, p, m) /\ ~(Has(o2, p, m) /\ Match(e, p, m))
  BY TakenOutHas
<1>2. /\ Has(w2, p, m) <=> Has(w, p, m) \/ Match(e, p, m)
      /\ Uniq(w2, p, m) <=> Uniq(w, p, m) /\ ~(Has(w, p, m) /\ Match(e, p, m))
  BY TakenOutHas
<1>3. QED
  BY <1>1, <1>2, Zenon DEF HoldsIn, OnceIn

LEMMA TakeUnsent ==
  ASSUME NEW o, NEW w, NEW h, NEW o2, NEW h2, NEW i, NEW e,
         TakenOut(o, o2, i, e), h.phase = "none", h2.phase = "start", h2.req = e,
         NEW p, NEW m
  PROVE  /\ HoldsIn(o2, w, h2, p, m) <=> HoldsIn(o, w, h, p, m)
         /\ OnceIn(o, w, h, p, m) => OnceIn(o2, w, h2, p, m)
<1>1. /\ Has(o, p, m) <=> Has(o2, p, m) \/ Match(e, p, m)
      /\ Uniq(o, p, m) <=> Uniq(o2, p, m) /\ ~(Has(o2, p, m) /\ Match(e, p, m))
  BY TakenOutHas
<1>2. ~InHand(h, p, m) /\ (InHand(h2, p, m) <=> Match(e, p, m))
  BY DEF InHand
<1>3. QED
  BY <1>1, <1>2, Zenon DEF HoldsIn, OnceIn

LEMMA TakeSent ==
  ASSUME NEW o, NEW w, NEW h, NEW w2, NEW h2, NEW i, NEW e,
         TakenOut(w, w2, i, e), h.phase = "none", h2.phase = "start", h2.req = e,
         NEW p, NEW m
  PROVE  /\ HoldsIn(o, w2, h2, p, m) <=> HoldsIn(o, w, h, p, m)
         /\ OnceIn(o, w, h, p, m) => OnceIn(o, w2, h2, p, m)
<1>1. /\ Has(w, p, m) <=> Has(w2, p, m) \/ Match(e, p, m)
      /\ Uniq(w, p, m) <=> Uniq(w2, p, m) /\ ~(Has(w2, p, m) /\ Match(e, p, m))
  BY TakenOutHas
<1>2. ~InHand(h, p, m) /\ (InHand(h2, p, m) <=> Match(e, p, m))
  BY DEF InHand
<1>3. QED
  BY <1>1, <1>2, Zenon DEF HoldsIn, OnceIn

\* A reply changes nothing but itself.
LEMMA SameRequests ==
  ASSUME NEW q, NEW z, DOMAIN z = DOMAIN q,
         \A i \in DOMAIN q : z[i].tp = q[i].tp /\ z[i].msgs = q[i].msgs, NEW p, NEW m
  PROVE  (Has(z, p, m) <=> Has(q, p, m)) /\ (Uniq(z, p, m) <=> Uniq(q, p, m))
BY DEF Has, Uniq, Match

\* The messages stay where they are but for requests moving within a broker.
SameQueues == UNCHANGED <<rktp_msgid, msgq, xmit_msgq, rkm>>

SameHolders ==
  \A b \in Brokers, p \in Partitions, m \in MsgIds :
    /\ Holds(b, p, m)' <=> Holds(b, p, m)
    /\ Once(b, p, m) => Once(b, p, m)'

LEMMA MovedOnly ==
  ASSUME OwnersInv, SameQueues, SameHolders
  PROVE  OwnersInv'
<1> SUFFICES ASSUME NEW p \in Partitions, NEW m \in MsgIds PROVE Conserved(p, m)'
  BY DEF OwnersInv
<1>1. Conserved(p, m)
  BY DEF OwnersInv
<1>2. /\ InQ(p, m)' <=> InQ(p, m)
      /\ InX(p, m)' <=> InX(p, m)
      /\ InD(p, m)' <=> InD(p, m)
      /\ rktp_msgid'[p] = rktp_msgid[p]
  BY DEF SameQueues, InQ, InX, InD
<1>3. \A b \in Brokers : /\ Holds(b, p, m)' <=> Holds(b, p, m)
                         /\ Once(b, p, m) => Once(b, p, m)'
  BY DEF SameHolders
<1>4. QED
  BY <1>1, <1>2, <1>3 DEF Conserved

-----------------------------------------------------------------------------
(* The steps: most move no message, some move a request within a broker.   *)

LEMMA Untouched ==
  ASSUME OwnersInv, SameQueues, UNCHANGED <<outbufs, waitresps>>,
         \A b \in Brokers : /\ hand'[b].req = hand[b].req
                            /\ hand'[b].phase = "none" <=> hand[b].phase = "none"
  PROVE  OwnersInv'
<1>1. ASSUME NEW b \in Brokers, NEW p \in Partitions, NEW m \in MsgIds
      PROVE  (Holds(b, p, m)' <=> Holds(b, p, m)) /\ (Once(b, p, m)' <=> Once(b, p, m))
  <2>1. InHand(hand[b], p, m)' <=> InHand(hand[b], p, m)
    BY DEF InHand
  <2>2. QED
    BY <2>1 DEF Holds, Once, HoldsIn, OnceIn
<1>2. SameHolders
  BY <1>1 DEF SameHolders
<1>3. QED
  BY <1>2, MovedOnly

LEMMA QuietOwners ==
  ASSUME TypeOK, OwnersInv,
         \/ PidFsm \/ PidUpdate \/ RequestPidFailed \/ Purge
         \/ \E p \in Partitions : \/ Expire(p) \/ Delegate(p) \/ LeaderChange(p)
                                  \/ KafkaForget(p)
         \/ \E b \in Brokers :
              \/ ServeBegin(b) \/ PurgeDrainDone(b) \/ ServeChecks(b) \/ BrokerFail(b)
              \/ Reconnect(b) \/ PurgeOp(b) \/ CallDrainDone(b) \/ KafkaStale(b)
              \/ \E p \in Partitions : PartitionLeave(b, p) \/ PartitionJoin(b, p)
  PROVE  OwnersInv'
<1>1. UNCHANGED <<rktp_msgid, msgq, xmit_msgq, rkm, outbufs, waitresps, hand>>
  BY Zenon DEF PidFsm, PidUpdate, RequestPidFailed, Purge, Expire, Delegate, LeaderChange,
     KafkaForget, ServeBegin, PurgeDrainDone, ServeChecks, BrokerFail, Reconnect, PurgeOp,
     CallDrainDone, KafkaStale, PartitionLeave, PartitionJoin, toppar_vars, thread_vars, buf_vars
<1>2. QED
  BY <1>1, Untouched DEF SameQueues

LEMMA HandleStartOwners ==
  ASSUME TypeOK, OwnersInv, NEW b \in Brokers, HandleStart(b)
  PROVE  OwnersInv'
<1>1. UNCHANGED <<rktp_msgid, msgq, xmit_msgq, rkm, outbufs, waitresps>>
  BY DEF HandleStart, buf_vars
<1>2. PICK ph \in {"last", "more"} : hand' = [hand EXCEPT ![b].phase = ph]
  BY DEF HandleStart
<1>3. hand[b].phase = "start" /\ hand \in [Brokers -> Hands \cup {NoHand}]
  BY DEF HandleStart, TypeOK, HandType
<1>4. hand[b] \in Hands
  BY <1>3 DEF NoHand
<1>5. hand'[b].req = hand[b].req /\ hand'[b].phase = ph
  BY <1>2, <1>3, <1>4 DEF Hands
<1>6. \A d \in Brokers : d # b => hand'[d] = hand[d]
  BY <1>2, <1>3
<1>7. QED
  BY <1>1, <1>2, <1>3, <1>5, <1>6, Untouched DEF SameQueues

\* A step of broker b that moves a request from one of its queues to another.
LEMMA OneBrokerMoves ==
  ASSUME OwnersInv, SameQueues, NEW b \in Brokers,
         \A d \in Brokers \ {b} : /\ outbufs'[d] = outbufs[d] /\ waitresps'[d] = waitresps[d]
                                  /\ hand'[d] = hand[d],
         \A p \in Partitions, m \in MsgIds :
           /\ Holds(b, p, m)' <=> Holds(b, p, m)
           /\ Once(b, p, m) => Once(b, p, m)'
  PROVE  OwnersInv'
<1>1. ASSUME NEW d \in Brokers \ {b}, NEW p \in Partitions, NEW m \in MsgIds
      PROVE  (Holds(d, p, m)' <=> Holds(d, p, m)) /\ (Once(d, p, m) => Once(d, p, m)')
  BY DEF Holds, Once
<1>2. SameHolders
  BY <1>1 DEF SameHolders
<1>3. QED
  BY <1>2, MovedOnly

LEMMA TransmitOwners ==
  ASSUME TypeOK, OwnersInv, NEW b \in Brokers, Transmit(b)
  PROVE  OwnersInv'
<1>1. /\ outbufs \in [Brokers -> Seq(Requests)] /\ waitresps \in [Brokers -> Seq(Requests)]
      /\ outbufs[b] # <<>>
  BY DEF TypeOK, BufType, Transmit
<1>2. /\ outbufs' = [outbufs EXCEPT ![b] = Tail(outbufs[b])]
      /\ waitresps' = [waitresps EXCEPT ![b] = Append(waitresps[b], Head(outbufs[b]))]
      /\ hand' = hand /\ SameQueues
  BY DEF Transmit, SameQueues, toppar_vars, thread_vars
<1>3. Head(outbufs[b]) \in Requests
  BY <1>1, HeadTailProperties
<1>4. /\ TakenOut(outbufs[b], outbufs'[b], 1, Head(outbufs[b]))
      /\ TakenOut(waitresps'[b], waitresps[b], Len(waitresps[b]) + 1, Head(outbufs[b]))
  <2>1. outbufs'[b] = Tail(outbufs[b]) /\ waitresps'[b] = Append(waitresps[b], Head(outbufs[b]))
    BY <1>1, <1>2
  <2>2. QED
    BY <1>1, <1>3, <2>1, TailTaken, AppendTaken
<1>5. \A d \in Brokers \ {b} : /\ outbufs'[d] = outbufs[d] /\ waitresps'[d] = waitresps[d]
                               /\ hand'[d] = hand[d]
  BY <1>1, <1>2
<1>6. \A p \in Partitions, m \in MsgIds :
        /\ Holds(b, p, m)' <=> Holds(b, p, m)
        /\ Once(b, p, m) => Once(b, p, m)'
  BY <1>2, <1>4, SendRequest DEF Holds, Once
<1>7. QED
  BY <1>2, <1>5, <1>6, OneBrokerMoves

\* The thread takes a request from a queue into its hands.
LEMMA TakenOwners ==
  ASSUME TypeOK, OwnersInv, NEW b \in Brokers, SameQueues, hand[b].phase = "none",
         NEW e, NEW h, h.phase = "start", h.req = e, hand' = [hand EXCEPT ![b] = h],
         \/ /\ waitresps' = waitresps
            /\ \E o, i : TakenOut(outbufs[b], o, i, e) /\ outbufs' = [outbufs EXCEPT ![b] = o]
         \/ /\ outbufs' = outbufs
            /\ \E w, i : TakenOut(waitresps[b], w, i, e) /\ waitresps' = [waitresps EXCEPT ![b] = w]
  PROVE  OwnersInv'
<1>1. /\ outbufs \in [Brokers -> Seq(Requests)] /\ waitresps \in [Brokers -> Seq(Requests)]
      /\ hand \in [Brokers -> Hands \cup {NoHand}]
  BY DEF TypeOK, BufType, HandType
<1>2. \A d \in Brokers \ {b} : /\ outbufs'[d] = outbufs[d] /\ waitresps'[d] = waitresps[d]
                               /\ hand'[d] = hand[d]
  BY <1>1
<1>3. hand'[b] = h
  BY <1>1
<1>4. \A p \in Partitions, m \in MsgIds :
        /\ Holds(b, p, m)' <=> Holds(b, p, m)
        /\ Once(b, p, m) => Once(b, p, m)'
  <2>1. CASE /\ waitresps' = waitresps
             /\ \E o, i : TakenOut(outbufs[b], o, i, e) /\ outbufs' = [outbufs EXCEPT ![b] = o]
    <3>1. PICK i : TakenOut(outbufs[b], outbufs'[b], i, e)
      BY <1>1, <2>1
    <3>2. ASSUME NEW p \in Partitions, NEW m \in MsgIds
          PROVE  /\ Holds(b, p, m)' <=> Holds(b, p, m)
                 /\ Once(b, p, m) => Once(b, p, m)'
      <4>1. hand[b].phase = "none" /\ hand'[b].phase = "start" /\ hand'[b].req = e
        BY <1>3
      <4>2. /\ HoldsIn(outbufs'[b], waitresps[b], hand'[b], p, m)
                  <=> HoldsIn(outbufs[b], waitresps[b], hand[b], p, m)
            /\ OnceIn(outbufs[b], waitresps[b], hand[b], p, m)
                  => OnceIn(outbufs'[b], waitresps[b], hand'[b], p, m)
        BY <3>1, <4>1, TakeUnsent
      <4>3. QED
        BY <2>1, <4>2 DEF Holds, Once
    <3>3. QED
      BY <3>2
  <2>2. CASE /\ outbufs' = outbufs
             /\ \E w, i : TakenOut(waitresps[b], w, i, e) /\ waitresps' = [waitresps EXCEPT ![b] = w]
    <3>1. PICK i : TakenOut(waitresps[b], waitresps'[b], i, e)
      BY <1>1, <2>2
    <3>2. ASSUME NEW p \in Partitions, NEW m \in MsgIds
          PROVE  /\ Holds(b, p, m)' <=> Holds(b, p, m)
                 /\ Once(b, p, m) => Once(b, p, m)'
      <4>1. hand[b].phase = "none" /\ hand'[b].phase = "start" /\ hand'[b].req = e
        BY <1>3
      <4>2. /\ HoldsIn(outbufs[b], waitresps'[b], hand'[b], p, m)
                  <=> HoldsIn(outbufs[b], waitresps[b], hand[b], p, m)
            /\ OnceIn(outbufs[b], waitresps[b], hand[b], p, m)
                  => OnceIn(outbufs[b], waitresps'[b], hand'[b], p, m)
        BY <3>1, <4>1, TakeSent
      <4>3. QED
        BY <2>2, <4>2 DEF Holds, Once
    <3>3. QED
      BY <3>2
  <2>3. QED
    BY <2>1, <2>2
<1>5. QED
  BY <1>2, <1>4, OneBrokerMoves

LEMMA TakingOwners ==
  ASSUME TypeOK, OwnersInv, NEW b \in Brokers, RecvResponse(b) \/ FailNext(b) \/ PurgeNext(b)
  PROVE  OwnersInv'
<1>1. /\ outbufs \in [Brokers -> Seq(Requests)] /\ waitresps \in [Brokers -> Seq(Requests)]
      /\ outbufs[b] \in Seq(Requests) /\ waitresps[b] \in Seq(Requests)
  BY DEF TypeOK, BufType
<1>2. SameQueues /\ hand[b].phase = "none"
  <2>1. SameQueues
    BY Zenon DEF RecvResponse, FailNext, PurgeNext, SameQueues, toppar_vars
  <2>2. hand[b].phase = "none"
    BY DEF RecvResponse, FailNext, PurgeNext, Idle, Free
  <2>3. QED
    BY <2>1, <2>2
<1>3. ASSUME waitresps[b] # <<>>, outbufs' = outbufs,
             waitresps' = [waitresps EXCEPT ![b] = Tail(waitresps[b])],
             NEW e, NEW s,
             hand' = [hand EXCEPT ![b] = [phase |-> "start", req |-> Head(waitresps[b]),
                                          err |-> e, sent |-> s]]
      PROVE  OwnersInv'
  <2>1. TakenOut(waitresps[b], Tail(waitresps[b]), 1, Head(waitresps[b]))
    BY <1>1, <1>3, TailTaken
  <2> DEFINE h == [phase |-> "start", req |-> Head(waitresps[b]), err |-> e, sent |-> s]
             x == Head(waitresps[b])
             w == Tail(waitresps[b])
  <2>2. h.phase = "start" /\ h.req = x /\ hand' = [hand EXCEPT ![b] = h]
    BY <1>3
  <2>3. /\ outbufs' = outbufs
        /\ TakenOut(waitresps[b], w, 1, x) /\ waitresps' = [waitresps EXCEPT ![b] = w]
    BY <1>3, <2>1
  <2> HIDE DEF h, x, w
  <2>4. QED
    BY <1>2, <2>2, <2>3, TakenOwners
<1>4. ASSUME NEW i \in DOMAIN outbufs[b], waitresps' = waitresps,
             NEW o, TakenOut(outbufs[b], o, i, outbufs[b][i]),
             outbufs' = [outbufs EXCEPT ![b] = o],
             NEW e, NEW s,
             hand' = [hand EXCEPT ![b] = [phase |-> "start", req |-> outbufs[b][i],
                                          err |-> e, sent |-> s]]
      PROVE  OwnersInv'
  <2> DEFINE h == [phase |-> "start", req |-> outbufs[b][i], err |-> e, sent |-> s]
             x == outbufs[b][i]
  <2>2. h.phase = "start" /\ h.req = x /\ hand' = [hand EXCEPT ![b] = h]
    BY <1>4
  <2>3. /\ waitresps' = waitresps
        /\ TakenOut(outbufs[b], o, i, x) /\ outbufs' = [outbufs EXCEPT ![b] = o]
    BY <1>4
  <2> HIDE DEF h, x
  <2>4. QED
    BY <1>2, <2>2, <2>3, TakenOwners
<1>5. CASE RecvResponse(b)
  BY <1>3, <1>5 DEF RecvResponse
<1>6. CASE PurgeNext(b)
  <2> DEFINE i == Min(Victims(b))
             e == IF th[b].pc = "purge_op" THEN "_PURGE_QUEUE" ELSE "_RETRY"
  <2>1. /\ Victims(b) # {} /\ waitresps' = waitresps
        /\ outbufs' = [outbufs EXCEPT ![b] = RemoveAt(outbufs[b], i)]
        /\ hand' = [hand EXCEPT ![b] = [phase |-> "start", req |-> outbufs[b][i],
                                        err |-> e, sent |-> FALSE]]
    BY <1>6 DEF PurgeNext
  <2>2. i \in DOMAIN outbufs[b]
    <3>1. DOMAIN outbufs[b] \subseteq Nat /\ Victims(b) \subseteq DOMAIN outbufs[b]
      BY <1>1, LenProperties DEF Victims
    <3>2. QED
      BY <2>1, <3>1, MinIn
  <2>3. TakenOut(outbufs[b], RemoveAt(outbufs[b], i), i, outbufs[b][i])
    BY <1>1, <2>2, RemoveTaken
  <2> HIDE DEF i, e
  <2>4. QED
    BY <1>4, <2>1, <2>2, <2>3
<1>7. CASE FailNext(b)
  <2>1. CASE waitresps[b] # <<>>
    BY <1>3, <1>7, <2>1 DEF FailNext
  <2>2. CASE waitresps[b] = <<>> /\ outbufs[b] # <<>>
    <3>1. /\ waitresps' = waitresps /\ outbufs' = [outbufs EXCEPT ![b] = Tail(outbufs[b])]
          /\ hand' = [hand EXCEPT ![b] = [phase |-> "start", req |-> Head(outbufs[b]),
                                          err |-> "_TRANSPORT", sent |-> FALSE]]
      BY <1>7, <2>2 DEF FailNext
    <3>2. TakenOut(outbufs[b], Tail(outbufs[b]), 1, Head(outbufs[b]))
      BY <1>1, <2>2, TailTaken
    <3>3. 1 \in DOMAIN outbufs[b] /\ Head(outbufs[b]) = outbufs[b][1]
      BY <3>2 DEF TakenOut
    <3>4. QED
      BY <1>4, <3>1, <3>2, <3>3
  <2>3. CASE waitresps[b] = <<>> /\ outbufs[b] = <<>>
    <3>1. UNCHANGED <<hand, outbufs, waitresps>>
      BY <1>7, <2>3 DEF FailNext
    <3>2. QED
      BY <1>2, <3>1, Untouched
  <2>4. QED
    BY <2>1, <2>2, <2>3
<1>8. QED
  BY <1>5, <1>6, <1>7

LEMMA KafkaHandleOwners ==
  ASSUME TypeOK, OwnersInv, NEW b \in Brokers, KafkaHandle(b)
  PROVE  OwnersInv'
<1> DEFINE U == {i \in DOMAIN waitresps[b] : waitresps[b][i].resp = NoReply}
           i == Min(U)
<1>1. /\ waitresps \in [Brokers -> Seq(Requests)] /\ waitresps[b] \in Seq(Requests)
  BY DEF TypeOK, BufType
<1>2. SameQueues /\ outbufs' = outbufs /\ hand' = hand
  BY Zenon DEF KafkaHandle, SameQueues, toppar_vars, thread_vars
<1>3. U # {} /\ \E x : waitresps' = [waitresps EXCEPT ![b][i].resp = x]
  BY DEF KafkaHandle
<1>4. DOMAIN waitresps[b] \subseteq Nat
  BY <1>1, LenProperties
<1>5. i \in DOMAIN waitresps[b]
  BY <1>3, <1>4, MinIn
<1>6. PICK x : waitresps' = [waitresps EXCEPT ![b][i].resp = x]
  BY <1>3
<1> HIDE DEF i, U
<1>7. \A j \in DOMAIN waitresps[b] : waitresps[b][j] \in Requests
  BY <1>1, ElementOfSeq, LenProperties
<1>8. /\ DOMAIN waitresps'[b] = DOMAIN waitresps[b]
      /\ \A j \in DOMAIN waitresps[b] : /\ waitresps'[b][j].tp = waitresps[b][j].tp
                                        /\ waitresps'[b][j].msgs = waitresps[b][j].msgs
  BY <1>1, <1>5, <1>6, <1>7 DEF Requests
<1>9. \A d \in Brokers \ {b} : /\ outbufs'[d] = outbufs[d] /\ waitresps'[d] = waitresps[d]
                               /\ hand'[d] = hand[d]
  BY <1>1, <1>2, <1>6
<1>10. ASSUME NEW p \in Partitions, NEW m \in MsgIds
       PROVE  /\ Holds(b, p, m)' <=> Holds(b, p, m)
              /\ Once(b, p, m) => Once(b, p, m)'
  <2>1. /\ Has(waitresps'[b], p, m) <=> Has(waitresps[b], p, m)
        /\ Uniq(waitresps'[b], p, m) <=> Uniq(waitresps[b], p, m)
    BY <1>8, SameRequests
  <2>2. QED
    BY <1>2, <2>1 DEF Holds, Once, HoldsIn, OnceIn
<1>11. QED
  BY <1>2, <1>9, <1>10, OneBrokerMoves

-----------------------------------------------------------------------------
(* The steps that move messages between the queues and the application.    *)

Apart(p, m) ==
  ~(InQ(p, m) /\ InX(p, m)) /\ ~(InQ(p, m) /\ InD(p, m)) /\ ~(InX(p, m) /\ InD(p, m))

Kept(p, m) == InQ(p, m) \/ InX(p, m) \/ InD(p, m)

LEMMA SameSlots ==
  ASSUME UNCHANGED <<outbufs, waitresps, hand>>
  PROVE  SameHolders
BY DEF SameHolders, Holds, Once

LEMMA QueueMoves ==
  ASSUME OwnersInv, SameHolders, rktp_msgid' = rktp_msgid,
         \A p \in Partitions, m \in MsgIds :
           Apart(p, m) => Apart(p, m)' /\ (Kept(p, m)' <=> Kept(p, m))
  PROVE  OwnersInv'
<1> SUFFICES ASSUME NEW p \in Partitions, NEW m \in MsgIds PROVE Conserved(p, m)'
  BY DEF OwnersInv
<1>1. Conserved(p, m) /\ Apart(p, m)
  BY DEF OwnersInv, Conserved, Apart
<1>2. Apart(p, m)' /\ (Kept(p, m)' <=> Kept(p, m))
  BY <1>1
<1>3. \A b \in Brokers : /\ Holds(b, p, m)' <=> Holds(b, p, m)
                         /\ Once(b, p, m) => Once(b, p, m)'
  BY DEF SameHolders
<1>4. QED
  BY <1>1, <1>2, <1>3 DEF Conserved, Apart, Kept

\* The messages S of partition p leave its queues and are reported as failed.
LEMMA DrQueuedEffect ==
  ASSUME TypeOK, NEW p \in Partitions, NEW S, NEW r \in Partitions, NEW m \in MsgIds
  PROVE  DrQueued(p, S)[r][m].dr = IF r = p /\ m \in S THEN "error" ELSE rkm[r][m].dr
<1>1. rkm \in [Partitions -> [MsgIds -> Messages]]
  BY DEF TypeOK, MsgType
<1>2. QED
  BY <1>1 DEF DrQueued, Messages

LEMMA ServeTimeoutOwners ==
  ASSUME TypeOK, OwnersInv, NEW b \in Brokers, NEW p \in Partitions, ServeTimeout(b, p)
  PROVE  OwnersInv'
<1> DEFINE S == Expired(p)
<1>1. /\ msgq' = [msgq EXCEPT ![p] = @ \ S] /\ xmit_msgq' = [xmit_msgq EXCEPT ![p] = @ \ S]
      /\ rkm' = DrQueued(p, S) /\ rktp_msgid' = rktp_msgid
      /\ UNCHANGED <<outbufs, waitresps, hand>>
  BY DEF ServeTimeout, buf_vars
<1>2. S \subseteq msgq[p] \cup xmit_msgq[p]
  BY DEF Expired
<1> HIDE DEF S
<1>3. msgq \in [Partitions -> SUBSET MsgIds] /\ xmit_msgq \in [Partitions -> SUBSET MsgIds]
  BY DEF TypeOK, TopparType
<1>4. ASSUME NEW r \in Partitions, NEW m \in MsgIds, Apart(r, m)
      PROVE  Apart(r, m)' /\ (Kept(r, m)' <=> Kept(r, m))
  <2>1. /\ InQ(r, m)' <=> InQ(r, m) /\ ~(r = p /\ m \in S)
        /\ InX(r, m)' <=> InX(r, m) /\ ~(r = p /\ m \in S)
    BY <1>1, <1>3 DEF InQ, InX
  <2>2. InD(r, m)' <=> InD(r, m) \/ (r = p /\ m \in S)
    BY <1>1, DrQueuedEffect DEF InD
  <2>3. r = p /\ m \in S => InQ(r, m) \/ InX(r, m)
    BY <1>2 DEF InQ, InX
  <2>4. QED
    BY <1>4, <2>1, <2>2, <2>3, Zenon DEF Apart, Kept
<1>5. QED
  BY <1>1, <1>4, SameSlots, QueueMoves

LEMMA PurgeQueuesOwners ==
  ASSUME TypeOK, OwnersInv, NEW b \in Brokers, PurgeQueues(b)
  PROVE  OwnersInv'
<1>1. /\ msgq' = [p \in Partitions |-> IF p \in Active(b) THEN {} ELSE msgq[p]]
      /\ xmit_msgq' = [p \in Partitions |-> IF p \in Active(b) THEN {} ELSE xmit_msgq[p]]
      /\ rkm' = [p \in Partitions |->
                   IF p \in Active(b) THEN DrQueued(p, msgq[p] \cup xmit_msgq[p])[p] ELSE rkm[p]]
      /\ rktp_msgid' = rktp_msgid /\ UNCHANGED <<outbufs, waitresps, hand>>
  BY DEF PurgeQueues, buf_vars
<1>2. ASSUME NEW r \in Partitions, NEW m \in MsgIds, Apart(r, m)
      PROVE  Apart(r, m)' /\ (Kept(r, m)' <=> Kept(r, m))
  <2>1. CASE r \notin Active(b)
    <3>1. /\ InQ(r, m)' <=> InQ(r, m)
          /\ InX(r, m)' <=> InX(r, m)
          /\ InD(r, m)' <=> InD(r, m)
      BY <1>1, <2>1 DEF InQ, InX, InD
    <3>2. QED
      BY <1>2, <3>1, Zenon DEF Apart, Kept
  <2>2. CASE r \in Active(b)
    <3>1. ~InQ(r, m)' /\ ~InX(r, m)'
      BY <1>1, <2>2 DEF InQ, InX
    <3>2. rkm'[r] = DrQueued(r, msgq[r] \cup xmit_msgq[r])[r]
      BY <1>1, <2>2
    <3>3. InD(r, m)' <=> InD(r, m) \/ InQ(r, m) \/ InX(r, m)
      BY <3>2, DrQueuedEffect DEF InD, InQ, InX
    <3>4. QED
      BY <1>2, <3>1, <3>3, Zenon DEF Apart, Kept
  <2>3. QED
    BY <2>1, <2>2
<1>3. QED
  BY <1>1, <1>2, SameSlots, QueueMoves

LEMMA BetweenQueuesOwners ==
  ASSUME TypeOK, OwnersInv, NEW b \in Brokers,
         PartitionLeft(b) \/ \E p \in Partitions : ServeToppar(b, p)
  PROVE  OwnersInv'
<1>1. rktp_msgid' = rktp_msgid /\ rkm' = rkm /\ UNCHANGED <<outbufs, waitresps, hand>>
  BY Zenon DEF PartitionLeft, ServeToppar, buf_vars
<1>2. msgq \in [Partitions -> SUBSET MsgIds] /\ xmit_msgq \in [Partitions -> SUBSET MsgIds]
  BY DEF TypeOK, TopparType
<1>3. \/ msgq' = msgq /\ xmit_msgq' = xmit_msgq
      \/ \E p \in Partitions : /\ msgq' = [msgq EXCEPT ![p] = {}]
                               /\ xmit_msgq' = [xmit_msgq EXCEPT ![p] = @ \cup msgq[p]]
      \/ \E p \in Partitions : /\ msgq' = [msgq EXCEPT ![p] = msgq[p] \cup xmit_msgq[p]]
                               /\ xmit_msgq' = [xmit_msgq EXCEPT ![p] = {}]
  <2>1. CASE PartitionLeft(b)
    <3>1. th[b].tp \in Partitions
      BY <2>1 DEF TypeOK, ThreadType, TopparPcs, PartitionLeft
    <3>2. QED
      BY <2>1, <3>1 DEF PartitionLeft, GivenBack
  <2>2. CASE \E p \in Partitions : ServeToppar(b, p)
    BY <2>2, Zenon DEF ServeToppar
  <2>3. QED
    BY <2>1, <2>2
<1>4. ASSUME NEW r \in Partitions, NEW m \in MsgIds, Apart(r, m)
      PROVE  Apart(r, m)' /\ (Kept(r, m)' <=> Kept(r, m))
  <2>1. InD(r, m)' <=> InD(r, m)
    BY <1>1 DEF InD
  <2>2. /\ ~(InQ(r, m)' /\ InX(r, m)')
        /\ InQ(r, m)' \/ InX(r, m)' <=> InQ(r, m) \/ InX(r, m)
    BY <1>2, <1>3, <1>4 DEF InQ, InX, Apart
  <2>3. QED
    BY <1>4, <2>1, <2>2, Zenon DEF Apart, Kept
<1>5. QED
  BY <1>1, <1>4, SameSlots, QueueMoves

LEMMA ProduceOwners ==
  ASSUME TypeOK, OwnersInv, NEW p \in Partitions, Produce(p)
  PROVE  OwnersInv'
<1> SUFFICES ASSUME NEW r \in Partitions, NEW m \in MsgIds PROVE Conserved(r, m)'
  BY DEF OwnersInv
<1>1. /\ rktp_msgid \in [Partitions -> 0 .. MaxMsgs] /\ msgq \in [Partitions -> SUBSET MsgIds]
  BY DEF TypeOK, MsgType, TopparType
<1>2. /\ rktp_msgid' = [rktp_msgid EXCEPT ![p] = @ + 1]
      /\ msgq' = [msgq EXCEPT ![p] = @ \cup {rktp_msgid[p] + 1}]
      /\ xmit_msgq' = xmit_msgq /\ rkm' = rkm /\ UNCHANGED <<outbufs, waitresps, hand>>
  BY DEF Produce, thread_vars, buf_vars
<1>3. \A b \in Brokers : /\ Holds(b, r, m)' <=> Holds(b, r, m)
                         /\ Once(b, r, m) => Once(b, r, m)'
  BY <1>2, SameSlots DEF SameHolders
<1>4. Conserved(r, m)
  BY DEF OwnersInv
<1>5. (InX(r, m)' <=> InX(r, m)) /\ (InD(r, m)' <=> InD(r, m))
  BY <1>2 DEF InX, InD
<1>6. CASE r = p /\ m = rktp_msgid[p] + 1
  <2>1. m <= rktp_msgid'[r] /\ ~(m <= rktp_msgid[r])
    BY <1>1, <1>2, <1>6 DEF MsgIds
  <2>2. InQ(r, m)'
    BY <1>1, <1>2, <1>6 DEF InQ
  <2>3. QED
    BY <1>3, <1>4, <1>5, <2>1, <2>2 DEF Conserved
<1>7. CASE ~(r = p /\ m = rktp_msgid[p] + 1)
  <2>1. m <= rktp_msgid'[r] <=> m <= rktp_msgid[r]
    BY <1>1, <1>2, <1>7 DEF MsgIds
  <2>2. InQ(r, m)' <=> InQ(r, m)
    BY <1>1, <1>2, <1>7 DEF InQ
  <2>3. QED
    BY <1>3, <1>4, <1>5, <2>1, <2>2 DEF Conserved
<1>8. QED
  BY <1>6, <1>7

-----------------------------------------------------------------------------
(* Building a request.                                                     *)

\* Request req of broker b takes its messages from the transmit queue.
Built(b, req) ==
  /\ req.tp = th[b].tp
  /\ req.msgs \subseteq xmit_msgq[req.tp]
  /\ xmit_msgq' = [xmit_msgq EXCEPT ![req.tp] = @ \ req.msgs]
  /\ outbufs' = [outbufs EXCEPT ![b] = Append(@, req)]
  /\ msgs_inflight' = [msgs_inflight EXCEPT ![req.tp] = @ + Cardinality(req.msgs)]
  /\ rk' = IF msgs_inflight[req.tp] = 0
           THEN [rk EXCEPT !.inflight_toppar_cnt = @ + 1] ELSE rk

LEMMA ProduceRequestEffect ==
  ASSUME TypeOK, NEW b \in Brokers, ProduceRequest(b)
  PROVE  /\ UNCHANGED <<rktp_msgid, rkm, msgq, hand, waitresps>>
         /\ \/ UNCHANGED <<xmit_msgq, outbufs, msgs_inflight>> /\ rk' \in {rk, SetFatal(rk)}
            \/ \E req \in Requests : Built(b, req)
<1> DEFINE p == th[b].tp
           S == NextBatch(p)
           req == [tp |-> p, pid |-> th[b].pid, msgs |-> S, resp |-> NoReply,
                   first_seq |-> FirstSeq(p, S)]
<1>1. th[b] \in Threads /\ p \in Partitions
  BY PcTypes DEF TypeOK, ThreadType, ProduceRequest
<1>2. UNCHANGED <<rktp_msgid, rkm, msgq, hand, waitresps>>
  BY DEF ProduceRequest
<1>3. CASE UNCHANGED <<xmit_msgq, outbufs, msgs_inflight>> /\ rk' \in {rk, SetFatal(rk)}
  BY <1>2, <1>3
<1>4. CASE /\ xmit_msgq[p] # {}
           /\ xmit_msgq' = [xmit_msgq EXCEPT ![p] = xmit_msgq[p] \ S]
           /\ outbufs' = [outbufs EXCEPT ![b] = Append(outbufs[b], req)]
           /\ msgs_inflight' = [msgs_inflight EXCEPT ![p] = msgs_inflight[p] + Cardinality(S)]
           /\ rk' = IF msgs_inflight[p] = 0
                    THEN [rk EXCEPT !.inflight_toppar_cnt = @ + 1] ELSE rk
  <2>1. S \in (SUBSET MsgIds) \ {{}}
    BY <1>1, <1>4, NextBatchType DEF TypeOK
  <2>2. FirstSeq(p, S) \in Int
    <3>1. Min(S) \in MsgIds
      BY <2>1, MsgSetType
    <3>2. Min(S) - eos[p].epoch_base_msgid \in Int
      BY <1>1, <3>1, ConstantTypes DEF TypeOK, TopparType, EosStates
    <3>3. QED
      BY <3>2, SeqWrapType DEF FirstSeq
  <2>3. th[b].pid \in Int
    BY <1>1 DEF Threads
  <2>4. S \subseteq xmit_msgq[p]
    BY DEF NextBatch
  <2> HIDE DEF S
  <2>5. req \in Requests
    BY <1>1, <2>1, <2>2, <2>3 DEF Requests
  <2>6. req.tp = p /\ req.msgs = S /\ p = th[b].tp
    OBVIOUS
  <2> HIDE DEF req, p
  <2>7. Built(b, req)
    BY <1>4, <2>4, <2>6 DEF Built
  <2>8. QED
    BY <1>2, <2>5, <2>7
<1>5. QED
  BY <1>3, <1>4 DEF ProduceRequest

LEMMA ProduceRequestOwners ==
  ASSUME TypeOK, OwnersInv, NEW b \in Brokers, ProduceRequest(b)
  PROVE  OwnersInv'
<1>1. UNCHANGED <<rktp_msgid, rkm, msgq, hand, waitresps>>
  BY ProduceRequestEffect
<1>2. CASE UNCHANGED <<xmit_msgq, outbufs>>
  BY <1>1, <1>2, Untouched DEF SameQueues
<1>3. ASSUME NEW req \in Requests, Built(b, req)
      PROVE  OwnersInv'
  <2> SUFFICES ASSUME NEW r \in Partitions, NEW m \in MsgIds PROVE Conserved(r, m)'
    BY DEF OwnersInv
  <2>1. /\ outbufs \in [Brokers -> Seq(Requests)] /\ xmit_msgq \in [Partitions -> SUBSET MsgIds]
        /\ req.tp \in Partitions
    BY <1>3 DEF TypeOK, BufType, TopparType, Requests
  <2>2. Conserved(r, m)
    BY DEF OwnersInv
  <2>3. /\ InQ(r, m)' <=> InQ(r, m)
        /\ InD(r, m)' <=> InD(r, m)
        /\ InX(r, m)' <=> InX(r, m) /\ ~Match(req, r, m)
        /\ Match(req, r, m) => InX(r, m)
        /\ rktp_msgid'[r] = rktp_msgid[r]
    BY <1>1, <1>3, <2>1 DEF InQ, InD, InX, Built, Match
  <2>4. ASSUME NEW d \in Brokers, d # b
        PROVE  (Holds(d, r, m)' <=> Holds(d, r, m)) /\ (Once(d, r, m)' <=> Once(d, r, m))
    <3>1. outbufs'[d] = outbufs[d]
      BY <1>3, <2>1, <2>4 DEF Built
    <3>2. QED
      BY <1>1, <3>1 DEF Holds, Once
  <2>5. TakenOut(outbufs'[b], outbufs[b], Len(outbufs[b]) + 1, req)
    <3>1. outbufs'[b] = Append(outbufs[b], req)
      BY <1>3, <2>1 DEF Built
    <3>2. QED
      BY <2>1, <3>1, AppendTaken
  <2>6. /\ Has(outbufs'[b], r, m) <=> Has(outbufs[b], r, m) \/ Match(req, r, m)
        /\ Uniq(outbufs'[b], r, m)
             <=> Uniq(outbufs[b], r, m) /\ ~(Has(outbufs[b], r, m) /\ Match(req, r, m))
    BY <2>5, TakenOutHas
  <2>7. Holds(b, r, m)' <=> Holds(b, r, m) \/ Match(req, r, m)
    BY <1>1, <2>6 DEF Holds, HoldsIn
  <2>8. Match(req, r, m) => \A d \in Brokers : ~Holds(d, r, m)
    BY <2>2, <2>3 DEF Conserved
  <2>9. Once(b, r, m)'
    <3>1. Once(b, r, m) /\ (Match(req, r, m) => ~Holds(b, r, m))
      BY <2>2, <2>8 DEF Conserved
    <3>2. QED
      BY <1>1, <2>6, <3>1 DEF Once, OnceIn, Holds, HoldsIn
  <2>10. QED
    BY <2>2, <2>3, <2>4, <2>7, <2>8, <2>9 DEF Conserved
<1>4. QED
  BY <1>2, <1>3, ProduceRequestEffect

-----------------------------------------------------------------------------
(* The result of a request.                                                *)

\* The thread of broker b lets go of its request: each of its messages goes to
\* a queue or to the application.
LEMMA HandledOwners ==
  ASSUME TypeOK, OwnersInv, NEW b \in Brokers, hand[b].phase # "none",
         hand' = [hand EXCEPT ![b] = NoHand],
         UNCHANGED <<rktp_msgid, outbufs, waitresps>>,
         \A r \in Partitions, m \in MsgIds :
           /\ ~Match(hand[b].req, r, m) /\ Apart(r, m)
                => Apart(r, m)' /\ (Kept(r, m)' <=> Kept(r, m))
           /\ Match(hand[b].req, r, m) /\ ~Kept(r, m) => Apart(r, m)' /\ Kept(r, m)'
  PROVE  OwnersInv'
<1> SUFFICES ASSUME NEW r \in Partitions, NEW m \in MsgIds PROVE Conserved(r, m)'
  BY DEF OwnersInv
<1>1. Conserved(r, m)
  BY DEF OwnersInv
<1>2. hand'[b] = NoHand /\ \A d \in Brokers : d # b => hand'[d] = hand[d]
  BY DEF TypeOK, HandType
<1>3. InHand(hand[b], r, m) <=> Match(hand[b].req, r, m)
  BY DEF InHand
<1>4. ~InHand(hand'[b], r, m)
  BY <1>2 DEF InHand, NoHand
<1>5. /\ Holds(b, r, m)' <=> Has(outbufs[b], r, m) \/ Has(waitresps[b], r, m)
      /\ Holds(b, r, m) <=> \/ Has(outbufs[b], r, m) \/ Has(waitresps[b], r, m)
                            \/ Match(hand[b].req, r, m)
      /\ Once(b, r, m) => Once(b, r, m)'
      /\ Once(b, r, m) /\ Match(hand[b].req, r, m) => ~Holds(b, r, m)'
  BY <1>3, <1>4 DEF Holds, HoldsIn, Once, OnceIn
<1>6. \A d \in Brokers : d # b => (Holds(d, r, m)' <=> Holds(d, r, m)) /\ (Once(d, r, m)' <=> Once(d, r, m))
  BY <1>2 DEF Holds, Once
<1>7. rktp_msgid'[r] = rktp_msgid[r]
  OBVIOUS
<1>8. CASE Match(hand[b].req, r, m)
  <2>1. ~Kept(r, m) /\ \A d \in Brokers : d # b => ~Holds(d, r, m)
    BY <1>1, <1>5, <1>8 DEF Conserved, Kept
  <2>2. Apart(r, m)' /\ Kept(r, m)'
    BY <1>8, <2>1
  <2>3. \A d \in Brokers : ~Holds(d, r, m)'
    BY <1>1, <1>5, <1>6, <1>8, <2>1 DEF Conserved
  <2>4. QED
    BY <1>1, <1>5, <1>6, <1>7, <1>8, <2>2, <2>3 DEF Conserved, Apart, Kept
<1>9. CASE ~Match(hand[b].req, r, m)
  <2>1. Apart(r, m)' /\ (Kept(r, m)' <=> Kept(r, m))
    BY <1>1, <1>9 DEF Conserved, Apart
  <2>2. \A d \in Brokers : (Holds(d, r, m)' <=> Holds(d, r, m)) /\ (Once(d, r, m) => Once(d, r, m)')
    BY <1>5, <1>6, <1>9
  <2>3. QED
    BY <1>1, <1>7, <2>1, <2>2 DEF Conserved, Apart, Kept
<1>10. QED
  BY <1>8, <1>9

LEMMA HandleErrorOwners ==
  ASSUME TypeOK, OwnersInv, NEW b \in Brokers, HandleError(b)
  PROVE  OwnersInv'
<1> DEFINE r == hand[b].req
           p == r.tp
           a0 == IdempotentProduceError(r, hand[b].err, eos[p], rkm[p][Min(r.msgs)].retries)
           incr == IF hand[b].sent THEN a0.incr ELSE 0
           S == {m \in r.msgs : a0.retry /\ rkm[p][m].retries + incr <= MaxRetries}
<1>1. /\ hand[b].phase # "none" /\ hand' = [hand EXCEPT ![b] = NoHand]
      /\ UNCHANGED <<rktp_msgid, xmit_msgq, outbufs, waitresps>>
  BY DEF HandleError, HandlerEnd, buf_vars
<1>2. p \in Partitions /\ r.msgs \subseteq MsgIds
  BY <1>1, HandInUse DEF TypeOK
<1>3. msgq' = [msgq EXCEPT ![p] = @ \cup S] /\ S \subseteq r.msgs
  BY DEF HandleError
<1>4. \A n \in MsgIds :
        rkm'[p][n].dr = IF n \notin r.msgs THEN rkm[p][n].dr
                        ELSE IF n \in S THEN "none" ELSE IF a0.ok THEN "ok" ELSE "error"
  BY <1>2 DEF HandleError, TypeOK, MsgType
<1>5. \A q \in Partitions : q # p => rkm'[q] = rkm[q]
  BY DEF HandleError, TypeOK, MsgType
<1>6. msgq \in [Partitions -> SUBSET MsgIds]
  BY DEF TypeOK, TopparType
<1> HIDE DEF S, a0, p, r
<1>7. ASSUME NEW q \in Partitions, NEW m \in MsgIds
      PROVE  /\ ~Match(r, q, m) /\ Apart(q, m) => Apart(q, m)' /\ (Kept(q, m)' <=> Kept(q, m))
             /\ Match(r, q, m) /\ ~Kept(q, m) => Apart(q, m)' /\ Kept(q, m)'
  <2>1. InX(q, m)' <=> InX(q, m)
    BY <1>1 DEF InX
  <2>2. CASE Match(r, q, m)
    <3>1. q = p /\ m \in r.msgs
      BY <2>2 DEF Match, p
    <3>2. InQ(q, m)' <=> InQ(q, m) \/ m \in S
      BY <1>3, <1>6, <3>1 DEF InQ
    <3>3. InD(q, m)' <=> m \notin S
      BY <1>4, <3>1 DEF InD
    <3>4. QED
      BY <2>1, <2>2, <3>2, <3>3, Zenon DEF Apart, Kept
  <2>3. CASE ~Match(r, q, m)
    <3>1. q # p \/ m \notin r.msgs
      BY <2>3 DEF Match, p
    <3>2. InQ(q, m)' <=> InQ(q, m)
      BY <1>2, <1>3, <1>6, <3>1 DEF InQ
    <3>3. InD(q, m)' <=> InD(q, m)
      BY <1>4, <1>5, <3>1 DEF InD
    <3>4. QED
      BY <2>1, <2>3, <3>2, <3>3, Zenon DEF Apart, Kept
  <2>4. QED
    BY <2>2, <2>3
<1>8. QED
  BY <1>1, <1>7, HandledOwners DEF r

LEMMA HandleSuccessOwners ==
  ASSUME TypeOK, OwnersInv, NEW b \in Brokers, HandleSuccess(b)
  PROVE  OwnersInv'
<1> DEFINE r == hand[b].req
           p == r.tp
           A == IF eos[p].acked_msgid < Min(r.msgs) - 1 THEN ImplicitAck(p, Max(r.msgs)) ELSE {}
<1>1. /\ hand[b].phase # "none" /\ hand' = [hand EXCEPT ![b] = NoHand]
      /\ UNCHANGED <<rktp_msgid, outbufs, waitresps>>
  BY DEF HandleSuccess, HandlerEnd, buf_vars
<1>2. p \in Partitions /\ r.msgs \subseteq MsgIds
  BY <1>1, HandInUse DEF TypeOK
<1>3. /\ msgq' = [msgq EXCEPT ![p] = @ \ A] /\ xmit_msgq' = [xmit_msgq EXCEPT ![p] = @ \ A]
  BY DEF HandleSuccess
<1>4. \A n \in MsgIds :
        rkm'[p][n].dr = IF n \in r.msgs \cup A THEN "ok" ELSE rkm[p][n].dr
  <2>1. rkm' = [rkm EXCEPT ![p] = [m \in MsgIds |->
          IF m \in r.msgs \cup A
          THEN [rkm[p][m] EXCEPT !.status = "PERSISTED", !.dr = "ok"] ELSE rkm[p][m]]]
    BY DEF HandleSuccess
  <2>2. rkm \in [Partitions -> [MsgIds -> Messages]]
    BY DEF TypeOK, MsgType
  <2> DEFINE T == r.msgs \cup A
  <2> HIDE DEF T, A, p
  <2>3. rkm' = [rkm EXCEPT ![p] = [m \in MsgIds |->
          IF m \in T THEN [rkm[p][m] EXCEPT !.status = "PERSISTED", !.dr = "ok"]
          ELSE rkm[p][m]]]
    BY <2>1 DEF T
  <2>4. ASSUME NEW n \in MsgIds
        PROVE  rkm'[p][n].dr = IF n \in T THEN "ok" ELSE rkm[p][n].dr
    <3>1. rkm'[p][n] = IF n \in T THEN [rkm[p][n] EXCEPT !.status = "PERSISTED", !.dr = "ok"]
                       ELSE rkm[p][n]
      BY <1>2, <2>2, <2>3
    <3>2. rkm[p][n] \in Messages
      BY <1>2, <2>2
    <3>3. QED
      BY <3>1, <3>2 DEF Messages
  <2>5. QED
    BY <2>4 DEF T
<1>5. \A q \in Partitions : q # p => rkm'[q] = rkm[q]
  BY DEF HandleSuccess, TypeOK, MsgType
<1>6. /\ msgq \in [Partitions -> SUBSET MsgIds] /\ xmit_msgq \in [Partitions -> SUBSET MsgIds]
  BY DEF TypeOK, TopparType
<1>7. A \subseteq msgq[p] \cup xmit_msgq[p]
  BY DEF ImplicitAck
<1> HIDE DEF A, p, r
<1>8. ASSUME NEW q \in Partitions, NEW m \in MsgIds
      PROVE  /\ ~Match(r, q, m) /\ Apart(q, m) => Apart(q, m)' /\ (Kept(q, m)' <=> Kept(q, m))
             /\ Match(r, q, m) /\ ~Kept(q, m) => Apart(q, m)' /\ Kept(q, m)'
  <2>1. CASE q # p
    <3>1. ~Match(r, q, m)
      BY <2>1 DEF Match, p
    <3>2. (InQ(q, m)' <=> InQ(q, m)) /\ (InX(q, m)' <=> InX(q, m)) /\ (InD(q, m)' <=> InD(q, m))
      BY <1>2, <1>3, <1>5, <1>6, <2>1 DEF InQ, InX, InD
    <3>3. QED
      BY <3>1, <3>2, Zenon DEF Apart, Kept
  <2>2. CASE q = p
    <3>1. /\ InQ(q, m)' <=> InQ(q, m) /\ m \notin A
          /\ InX(q, m)' <=> InX(q, m) /\ m \notin A
          /\ m \in A => InQ(q, m) \/ InX(q, m)
      BY <1>2, <1>3, <1>6, <1>7, <2>2 DEF InQ, InX
    <3>2. InD(q, m)' <=> InD(q, m) \/ m \in A \/ Match(r, q, m)
      BY <1>4, <2>2 DEF InD, Match, p
    <3>3. QED
      BY <3>1, <3>2, Zenon DEF Apart, Kept
  <2>3. QED
    BY <2>1, <2>2
<1>9. QED
  BY <1>1, <1>8, HandledOwners DEF r

-----------------------------------------------------------------------------
(* Every produced message has one owner.                                   *)

LEMMA InitOwners == Init => OwnersInv
<1> SUFFICES ASSUME Init, NEW p \in Partitions, NEW m \in MsgIds PROVE Conserved(p, m)
  BY DEF OwnersInv
<1>1. ~InQ(p, m) /\ ~InX(p, m) /\ ~InD(p, m) /\ ~(m <= rktp_msgid[p])
  BY ConstantTypes DEF Init, InQ, InX, InD, MsgIds
<1>2. ASSUME NEW b \in Brokers PROVE ~Holds(b, p, m) /\ Once(b, p, m)
  <2>1. outbufs[b] = <<>> /\ waitresps[b] = <<>> /\ hand[b].phase = "none"
    BY <1>2 DEF Init, NoHand
  <2>2. DOMAIN outbufs[b] = {} /\ DOMAIN waitresps[b] = {}
    BY <2>1
  <2>3. QED
    BY <2>1, <2>2 DEF Holds, HoldsIn, Once, OnceIn, Has, Uniq, InHand
<1>3. QED
  BY <1>1, <1>2 DEF Conserved

LEMMA NextOwners == TypeOK /\ OwnersInv /\ [Next]_vars => OwnersInv'
<1> SUFFICES ASSUME TypeOK, OwnersInv, [Next]_vars PROVE OwnersInv'
  OBVIOUS
<1>1. CASE UNCHANGED vars
  BY <1>1, Untouched DEF vars, toppar_vars, thread_vars, buf_vars, SameQueues
<1>2. CASE \/ PidFsm \/ PidUpdate \/ RequestPidFailed \/ Purge
           \/ \E p \in Partitions : \/ Expire(p) \/ Delegate(p) \/ LeaderChange(p)
                                    \/ KafkaForget(p)
           \/ \E b \in Brokers :
                \/ ServeBegin(b) \/ PurgeDrainDone(b) \/ ServeChecks(b) \/ BrokerFail(b)
                \/ Reconnect(b) \/ PurgeOp(b) \/ CallDrainDone(b) \/ KafkaStale(b)
                \/ \E p \in Partitions : PartitionLeave(b, p) \/ PartitionJoin(b, p)
  BY <1>2, QuietOwners
<1>3. CASE \E p \in Partitions : Produce(p)
  BY <1>3, ProduceOwners
<1>4. ASSUME NEW b \in Brokers, BrokerThread(b) \/ KafkaHandle(b)
      PROVE  \/ OwnersInv'
             \/ ServeBegin(b) \/ PurgeDrainDone(b) \/ ServeChecks(b)
             \/ Reconnect(b) \/ PurgeOp(b) \/ CallDrainDone(b)
             \/ \E p \in Partitions : PartitionLeave(b, p) \/ PartitionJoin(b, p)
  BY <1>4, HandleStartOwners, TransmitOwners, TakingOwners, KafkaHandleOwners,
     ServeTimeoutOwners, PurgeQueuesOwners, BetweenQueuesOwners, ProduceRequestOwners,
     HandleErrorOwners, HandleSuccessOwners, Zenon DEF BrokerThread
<1>5. QED
  BY <1>1, <1>2, <1>3, <1>4, Zenon DEF Next

LEMMA SlotFacts ==
  ASSUME NEW s
  PROVE  s \in Slots <=>
           \E b \in Brokers :
             \/ \E i \in DOMAIN outbufs[b] : s = <<"out", b, i>>
             \/ \E i \in DOMAIN waitresps[b] : s = <<"wait", b, i>>
             \/ hand[b].phase # "none" /\ s = <<"hand", b, 1>>
<1> DEFINE A == UNION {{"out"} \X {b} \X DOMAIN outbufs[b] : b \in Brokers}
           B == UNION {{"wait"} \X {b} \X DOMAIN waitresps[b] : b \in Brokers}
           C == {"hand"} \X {b \in Brokers : hand[b].phase # "none"} \X {1}
<1>1. \A k, b, D : s \in {k} \X {b} \X D <=> \E i \in D : s = <<k, b, i>>
  OBVIOUS
<1>2. s \in A <=> \E b \in Brokers : s \in {"out"} \X {b} \X DOMAIN outbufs[b]
  BY Zenon
<1>3. s \in B <=> \E b \in Brokers : s \in {"wait"} \X {b} \X DOMAIN waitresps[b]
  BY Zenon
<1>4. s \in C <=> \E b \in Brokers : hand[b].phase # "none" /\ s = <<"hand", b, 1>>
  OBVIOUS
<1>5. Slots = A \cup B \cup C
  BY Zenon DEF Slots
<1>6. \A b : s \in {"out"} \X {b} \X DOMAIN outbufs[b]
             <=> \E i \in DOMAIN outbufs[b] : s = <<"out", b, i>>
  BY <1>1, SMT
<1>7. \A b : s \in {"wait"} \X {b} \X DOMAIN waitresps[b]
             <=> \E i \in DOMAIN waitresps[b] : s = <<"wait", b, i>>
  BY <1>1, SMT
<1> HIDE DEF A, B, C
<1>9. s \in Slots <=> s \in A \/ s \in B \/ s \in C
  BY <1>5
<1>10. s \in A <=> \E b \in Brokers : \E i \in DOMAIN outbufs[b] : s = <<"out", b, i>>
  BY <1>6, <1>2, Zenon
<1>11. s \in B <=> \E b \in Brokers : \E i \in DOMAIN waitresps[b] : s = <<"wait", b, i>>
  BY <1>7, <1>3, Zenon
<1>8. QED
  BY <1>4, <1>9, <1>10, <1>11, Zenon

LEMMA ReqFacts ==
  ASSUME NEW b, NEW i
  PROVE  /\ ReqAt(<<"out", b, i>>) = outbufs[b][i]
         /\ ReqAt(<<"wait", b, i>>) = waitresps[b][i]
         /\ ReqAt(<<"hand", b, i>>) = hand[b].req
BY DEF ReqAt

\* The owners of a message, one by one.
OutOwner(s, p, m) ==
  \E b \in Brokers : \E i \in DOMAIN outbufs[b] :
    s = <<"out", b, i>> /\ Match(outbufs[b][i], p, m)
WaitOwner(s, p, m) ==
  \E b \in Brokers : \E i \in DOMAIN waitresps[b] :
    s = <<"wait", b, i>> /\ Match(waitresps[b][i], p, m)
HandOwner(s, p, m) ==
  \E b \in Brokers : InHand(hand[b], p, m) /\ s = <<"hand", b, 1>>
QueueOwner(s, p, m) ==
  \/ s = <<"msgq", None, 0>> /\ InQ(p, m)
  \/ s = <<"xmit_msgq", None, 0>> /\ InX(p, m)
  \/ s = <<"dr", None, 0>> /\ InD(p, m)

LEMMA OwnerFacts ==
  ASSUME NEW p, NEW m, NEW s
  PROVE  s \in Owners(p, m) <=>
           \/ OutOwner(s, p, m) \/ WaitOwner(s, p, m) \/ HandOwner(s, p, m)
           \/ QueueOwner(s, p, m)
<1>1. s \in {q \in {"msgq", "xmit_msgq", "dr"} \X {None} \X {0} :
               \/ q[1] = "msgq" /\ m \in msgq[p]
               \/ q[1] = "xmit_msgq" /\ m \in xmit_msgq[p]
               \/ q[1] = "dr" /\ rkm[p][m].dr # "none"}
      <=> QueueOwner(s, p, m)
  BY DEF QueueOwner, InQ, InX, InD
<1>2. s \in {t \in SlotsOf(p) : m \in ReqAt(t).msgs} <=> s \in Slots /\ Match(ReqAt(s), p, m)
  BY DEF SlotsOf, Match
<1>3. ASSUME NEW b \in Brokers, NEW i \in DOMAIN outbufs[b], s = <<"out", b, i>>
      PROVE  s \in Slots /\ ReqAt(s) = outbufs[b][i]
  <2>1. s \in Slots
    BY <1>3, SlotFacts, Zenon
  <2>2. ReqAt(<<"out", b, i>>) = outbufs[b][i]
    BY ReqFacts
  <2>3. QED
    BY <1>3, <2>1, <2>2, Zenon
<1>4. ASSUME NEW b \in Brokers, NEW i \in DOMAIN waitresps[b], s = <<"wait", b, i>>
      PROVE  s \in Slots /\ ReqAt(s) = waitresps[b][i]
  <2>1. s \in Slots
    BY <1>4, SlotFacts, Zenon
  <2>2. ReqAt(<<"wait", b, i>>) = waitresps[b][i]
    BY ReqFacts
  <2>3. QED
    BY <1>4, <2>1, <2>2, Zenon
<1>5. ASSUME NEW b \in Brokers, hand[b].phase # "none", s = <<"hand", b, 1>>
      PROVE  s \in Slots /\ ReqAt(s) = hand[b].req
  <2>1. s \in Slots
    BY <1>5, SlotFacts, Zenon
  <2>2. ReqAt(<<"hand", b, 1>>) = hand[b].req
    BY ReqFacts
  <2>3. QED
    BY <1>5, <2>1, <2>2, Zenon
<1>6. s \in Slots /\ Match(ReqAt(s), p, m) <=>
        OutOwner(s, p, m) \/ WaitOwner(s, p, m) \/ HandOwner(s, p, m)
  <2>1. ASSUME s \in Slots, Match(ReqAt(s), p, m)
        PROVE  OutOwner(s, p, m) \/ WaitOwner(s, p, m) \/ HandOwner(s, p, m)
    <3>1. PICK b \in Brokers :
             \/ \E i \in DOMAIN outbufs[b] : s = <<"out", b, i>>
             \/ \E i \in DOMAIN waitresps[b] : s = <<"wait", b, i>>
             \/ hand[b].phase # "none" /\ s = <<"hand", b, 1>>
      BY <2>1, SlotFacts, Zenon
    <3>2. CASE \E i \in DOMAIN outbufs[b] : s = <<"out", b, i>>
      <4>1. PICK i \in DOMAIN outbufs[b] : s = <<"out", b, i>>
        BY <3>2
      <4>2. Match(outbufs[b][i], p, m)
        BY <1>3, <2>1, <4>1
      <4>3. QED
        BY <4>1, <4>2, Zenon DEF OutOwner
    <3>3. CASE \E i \in DOMAIN waitresps[b] : s = <<"wait", b, i>>
      <4>1. PICK i \in DOMAIN waitresps[b] : s = <<"wait", b, i>>
        BY <3>3
      <4>2. Match(waitresps[b][i], p, m)
        BY <1>4, <2>1, <4>1
      <4>3. QED
        BY <4>1, <4>2, Zenon DEF WaitOwner
    <3>4. CASE hand[b].phase # "none" /\ s = <<"hand", b, 1>>
      <4>1. Match(hand[b].req, p, m)
        BY <1>5, <2>1, <3>4
      <4>2. QED
        BY <3>4, <4>1, Zenon DEF HandOwner, InHand
    <3>5. QED
      BY <3>1, <3>2, <3>3, <3>4
  <2>2. ASSUME OutOwner(s, p, m) PROVE s \in Slots /\ Match(ReqAt(s), p, m)
    BY <1>3, <2>2 DEF OutOwner
  <2>3. ASSUME WaitOwner(s, p, m) PROVE s \in Slots /\ Match(ReqAt(s), p, m)
    BY <1>4, <2>3 DEF WaitOwner
  <2>4. ASSUME HandOwner(s, p, m) PROVE s \in Slots /\ Match(ReqAt(s), p, m)
    BY <1>5, <2>4 DEF HandOwner, InHand
  <2>5. QED
    BY <2>1, <2>2, <2>3, <2>4
<1>7. QED
  BY <1>1, <1>2, <1>6, Zenon DEF Owners

LEMMA OwnersOne == OwnersInv => MessageConservation
<1> SUFFICES ASSUME OwnersInv, NEW p \in Partitions, NEW m \in MsgIds
             PROVE  IF m <= rktp_msgid[p] THEN \E o \in Owners(p, m) : Owners(p, m) = {o}
                    ELSE Owners(p, m) = {}
  BY DEF MessageConservation
<1>1. Conserved(p, m)
  BY DEF OwnersInv
<1> DEFINE O == Owners(p, m)
<1>2. \A s : s \in O <=> \/ OutOwner(s, p, m) \/ WaitOwner(s, p, m) \/ HandOwner(s, p, m)
                         \/ QueueOwner(s, p, m)
  BY OwnerFacts
<1> HIDE DEF O
<1>3. \A s : \/ OutOwner(s, p, m) \/ WaitOwner(s, p, m) \/ HandOwner(s, p, m)
             => \E b \in Brokers : Holds(b, p, m)
  BY DEF OutOwner, WaitOwner, HandOwner, Holds, HoldsIn, Has
<1>4. CASE ~(m <= rktp_msgid[p])
  <2>1. ~InQ(p, m) /\ ~InX(p, m) /\ ~InD(p, m) /\ \A b \in Brokers : ~Holds(b, p, m)
    BY <1>1, <1>4 DEF Conserved
  <2>2. \A s : ~QueueOwner(s, p, m)
    BY <2>1 DEF QueueOwner
  <2>3. O = {}
    BY <1>2, <1>3, <2>1, <2>2
  <2>4. QED
    BY <1>4, <2>3 DEF O
<1>5. CASE m <= rktp_msgid[p] /\ (InQ(p, m) \/ InX(p, m) \/ InD(p, m))
  <2>1. /\ \A b \in Brokers : ~Holds(b, p, m)
        /\ ~(InQ(p, m) /\ InX(p, m)) /\ ~(InQ(p, m) /\ InD(p, m)) /\ ~(InX(p, m) /\ InD(p, m))
    BY <1>1, <1>5 DEF Conserved
  <2>2. \E o : \A s : QueueOwner(s, p, m) <=> s = o
    BY <1>5, <2>1 DEF QueueOwner
  <2>3. PICK o : \A s : s \in O <=> s = o
    BY <1>2, <1>3, <2>1, <2>2
  <2>4. o \in O /\ O = {o}
    BY <2>3
  <2>5. QED
    BY <1>5, <2>4 DEF O
<1>6. CASE m <= rktp_msgid[p] /\ ~InQ(p, m) /\ ~InX(p, m) /\ ~InD(p, m)
  <2>1. PICK b \in Brokers : Holds(b, p, m)
    BY <1>1, <1>6 DEF Conserved
  <2>2. Once(b, p, m) /\ \A d \in Brokers : Holds(d, p, m) => d = b
    BY <1>1, <2>1 DEF Conserved
  <2>3. \A s : ~QueueOwner(s, p, m)
    BY <1>6 DEF QueueOwner
  <2>4. /\ \A d \in Brokers : Has(outbufs[d], p, m) => d = b
        /\ \A d \in Brokers : Has(waitresps[d], p, m) => d = b
        /\ \A d \in Brokers : InHand(hand[d], p, m) => d = b
    BY <2>2 DEF Holds, HoldsIn
  <2>5. ASSUME NEW s, OutOwner(s, p, m)
        PROVE  /\ Has(outbufs[b], p, m)
               /\ \E i \in DOMAIN outbufs[b] : s = <<"out", b, i>> /\ Match(outbufs[b][i], p, m)
    BY <2>4, <2>5 DEF OutOwner, Has
  <2>6. ASSUME NEW s, WaitOwner(s, p, m)
        PROVE  /\ Has(waitresps[b], p, m)
               /\ \E i \in DOMAIN waitresps[b] :
                    s = <<"wait", b, i>> /\ Match(waitresps[b][i], p, m)
    BY <2>4, <2>6 DEF WaitOwner, Has
  <2>7. ASSUME NEW s, HandOwner(s, p, m)
        PROVE  InHand(hand[b], p, m) /\ s = <<"hand", b, 1>>
    BY <2>4, <2>7 DEF HandOwner
  <2>8. CASE Has(outbufs[b], p, m)
    <3>1. PICK i \in DOMAIN outbufs[b] : Match(outbufs[b][i], p, m)
      BY <2>8 DEF Has
    <3>2. /\ ~Has(waitresps[b], p, m) /\ ~InHand(hand[b], p, m)
          /\ \A j \in DOMAIN outbufs[b] : Match(outbufs[b][j], p, m) => j = i
      BY <2>2, <2>8, <3>1 DEF Once, OnceIn, Uniq
    <3>3. OutOwner(<<"out", b, i>>, p, m)
      BY <3>1 DEF OutOwner
    <3>4. \A s : s \in O => s = <<"out", b, i>>
      BY <1>2, <2>3, <2>5, <2>6, <2>7, <3>2
    <3>5. <<"out", b, i>> \in O
      BY <1>2, <3>3
    <3>6. QED
      BY <1>6, <3>4, <3>5 DEF O
  <2>9. CASE Has(waitresps[b], p, m)
    <3>1. PICK i \in DOMAIN waitresps[b] : Match(waitresps[b][i], p, m)
      BY <2>9 DEF Has
    <3>2. /\ ~Has(outbufs[b], p, m) /\ ~InHand(hand[b], p, m)
          /\ \A j \in DOMAIN waitresps[b] : Match(waitresps[b][j], p, m) => j = i
      BY <2>2, <2>9, <3>1 DEF Once, OnceIn, Uniq
    <3>3. WaitOwner(<<"wait", b, i>>, p, m)
      BY <3>1 DEF WaitOwner
    <3>4. \A s : s \in O => s = <<"wait", b, i>>
      BY <1>2, <2>3, <2>5, <2>6, <2>7, <3>2
    <3>5. <<"wait", b, i>> \in O
      BY <1>2, <3>3
    <3>6. QED
      BY <1>6, <3>4, <3>5 DEF O
  <2>10. CASE InHand(hand[b], p, m)
    <3>1. ~Has(outbufs[b], p, m) /\ ~Has(waitresps[b], p, m)
      BY <2>2, <2>10 DEF Once, OnceIn
    <3>2. HandOwner(<<"hand", b, 1>>, p, m)
      BY <2>10 DEF HandOwner
    <3>3. \A s : s \in O => s = <<"hand", b, 1>>
      BY <1>2, <2>3, <2>5, <2>6, <2>7, <3>1
    <3>4. <<"hand", b, 1>> \in O
      BY <1>2, <3>2
    <3>5. QED
      BY <1>6, <3>3, <3>4 DEF O
  <2>11. QED
    BY <2>1, <2>8, <2>9, <2>10 DEF Holds, HoldsIn
<1>7. QED
  BY <1>4, <1>5, <1>6

\* A produced message has exactly one owner at every moment, for any number of
\* partitions, brokers, messages, retries and faults and any interleaving of the
\* threads: a queue, one request of one broker, or the application that has its
\* delivery report.  None is lost, none is in two places, and none is used after
\* it has been reported.
THEOREM MessagesConserved == Spec => []MessageConservation
<1>1. QED
  BY InitType, NextType, InitOwners, NextOwners, OwnersOne, PTL DEF Spec

-----------------------------------------------------------------------------
(* The in-flight counters.                                                 *)

\* The request whose result is being handled: its messages are not counted any
\* more.  The messages of partition p that are.
Late(b, p, m) == hand[b].phase \in {"more", "last"} /\ Match(hand[b].req, p, m)

Carries(b, p, m) ==
  \/ Has(outbufs[b], p, m) \/ Has(waitresps[b], p, m)
  \/ hand[b].phase = "start" /\ Match(hand[b].req, p, m)

Flying(p) == {m \in MsgIds : \E b \in Brokers : Carries(b, p, m)}

Busy  == {p \in Partitions : msgs_inflight[p] > 0}
Lasts == {b \in Brokers : hand[b].phase = "last"}

PerToppar == \A p \in Partitions : msgs_inflight[p] = Cardinality(Flying(p))

PerClient ==
  /\ IsFiniteSet(Busy) /\ IsFiniteSet(Lasts)
  /\ rk.inflight_toppar_cnt = Cardinality(Busy) + Cardinality(Lasts)

LEMMA FlyingFinite ==
  ASSUME NEW p
  PROVE  Flying(p) \in SUBSET MsgIds /\ IsFiniteSet(Flying(p)) /\ Cardinality(Flying(p)) \in Nat
<1>1. Flying(p) \in SUBSET MsgIds
  BY DEF Flying
<1>2. QED
  BY <1>1, MsgSetType

LEMMA HandPhases ==
  ASSUME TypeOK, NEW b \in Brokers
  PROVE  /\ hand \in [Brokers -> Hands \cup {NoHand}]
         /\ hand[b].phase \in {"none", "start", "more", "last"}
         /\ hand[b].phase # "none" =>
              hand[b].req \in Requests /\ hand[b].req.tp \in Partitions
              /\ hand[b].req.msgs \in (SUBSET MsgIds) \ {{}}
<1>1. hand \in [Brokers -> Hands \cup {NoHand}]
  BY DEF TypeOK, HandType
<1>2. hand[b] \in Hands \cup {NoHand}
  BY <1>1
<1>3. QED
  BY <1>1, <1>2 DEF Hands, NoHand, Requests

LEMMA CarriesHolds ==
  ASSUME TypeOK, OwnersInv, NEW b \in Brokers, NEW p \in Partitions, NEW m \in MsgIds
  PROVE  Carries(b, p, m) <=> Holds(b, p, m) /\ ~Late(b, p, m)
<1>1. Once(b, p, m)
  BY DEF OwnersInv, Conserved
<1>2. hand[b].phase \in {"none", "start", "more", "last"}
  BY HandPhases
<1>3. QED
  BY <1>1, <1>2 DEF Carries, Holds, HoldsIn, Once, OnceIn, InHand, Late

\* No request moves, except for the one whose result has been handled.
LEMMA SameFlying ==
  ASSUME UNCHANGED <<outbufs, waitresps>>,
         \A b \in Brokers : \/ hand'[b] = hand[b]
                            \/ hand[b].phase # "start" /\ hand'[b].phase # "start",
         NEW p
  PROVE  Flying(p)' = Flying(p)
<1>1. ASSUME NEW b \in Brokers, NEW m \in MsgIds
      PROVE  Carries(b, p, m)' <=> Carries(b, p, m)
  BY DEF Carries
<1>2. QED
  BY <1>1 DEF Flying

\* Requests move within their broker and into the hands of its thread: what the
\* queues do not have, the requests still do.
LEMMA MovedFlying ==
  ASSUME TypeOK, TypeOK', OwnersInv, OwnersInv', SameQueues,
         \A b \in Brokers : \/ hand'[b] = hand[b]
                            \/ hand[b].phase = "none" /\ hand'[b].phase = "start",
         NEW p \in Partitions
  PROVE  Flying(p)' = Flying(p)
<1>1. ASSUME NEW b \in Brokers, NEW m \in MsgIds
      PROVE  Late(b, p, m)' <=> Late(b, p, m)
  BY DEF Late
<1>2. ASSUME NEW b \in Brokers, NEW m \in MsgIds
      PROVE  /\ Carries(b, p, m) <=> Holds(b, p, m) /\ ~Late(b, p, m)
             /\ Late(b, p, m) => Holds(b, p, m)
  <2>1. Late(b, p, m) => Holds(b, p, m)
    BY DEF Late, Holds, HoldsIn, InHand
  <2>2. QED
    BY <2>1, CarriesHolds
<1>3. ASSUME NEW b \in Brokers, NEW m \in MsgIds
      PROVE  /\ Carries(b, p, m)' <=> Holds(b, p, m)' /\ ~Late(b, p, m)'
             /\ Late(b, p, m)' => Holds(b, p, m)'
  <2>1. Late(b, p, m)' => Holds(b, p, m)'
    BY DEF Late, Holds, HoldsIn, InHand
  <2>2. Carries(b, p, m)' <=> Holds(b, p, m)' /\ ~Late(b, p, m)'
    <3>1. Once(b, p, m)'
      BY DEF OwnersInv, Conserved
    <3>2. hand'[b] \in Hands \cup {NoHand}
      BY DEF TypeOK, HandType
    <3>3. hand'[b].phase \in {"none", "start", "more", "last"}
      BY <3>2 DEF Hands, NoHand
    <3>4. QED
      BY <3>1, <3>3 DEF Carries, Holds, HoldsIn, Once, OnceIn, InHand, Late
  <2>3. QED
    BY <2>1, <2>2
<1>4. ASSUME NEW m \in MsgIds
      PROVE  (\E b \in Brokers : Carries(b, p, m)') <=> (\E b \in Brokers : Carries(b, p, m))
  <2>1. Conserved(p, m) /\ Conserved(p, m)'
    BY DEF OwnersInv
  <2>2. (\E b \in Brokers : Holds(b, p, m)') <=> (\E b \in Brokers : Holds(b, p, m))
    <3>1. /\ InQ(p, m)' <=> InQ(p, m)
          /\ InX(p, m)' <=> InX(p, m)
          /\ InD(p, m)' <=> InD(p, m)
          /\ rktp_msgid'[p] = rktp_msgid[p]
      BY DEF SameQueues, InQ, InX, InD
    <3>2. QED
      BY <2>1, <3>1 DEF Conserved
  <2>3. /\ \A b, d \in Brokers : Holds(b, p, m) /\ Holds(d, p, m) => b = d
        /\ \A b, d \in Brokers : Holds(b, p, m)' /\ Holds(d, p, m)' => b = d
    BY <2>1 DEF Conserved
  <2>4. QED
    BY <1>1, <1>2, <1>3, <2>2, <2>3
<1>5. QED
  BY <1>4 DEF Flying

LEMMA CountSame ==
  ASSUME PerToppar, PerClient, \A p \in Partitions : Flying(p)' = Flying(p),
         msgs_inflight' = msgs_inflight,
         rk'.inflight_toppar_cnt = rk.inflight_toppar_cnt,
         \A b \in Brokers : hand'[b].phase = "last" <=> hand[b].phase = "last"
  PROVE  PerToppar' /\ PerClient'
<1>1. PerToppar'
  BY DEF PerToppar
<1>2. Busy' = Busy /\ Lasts' = Lasts
  BY DEF Busy, Lasts
<1>3. QED
  BY <1>1, <1>2 DEF PerClient

\* What the idempotence state machine does to the client record leaves the count.
LEMMA StateKeepsCount ==
  ASSUME NEW g \in Clients, NEW s
  PROVE  /\ SetState(g, s).inflight_toppar_cnt = g.inflight_toppar_cnt
         /\ SetFatal(g).inflight_toppar_cnt = g.inflight_toppar_cnt
         /\ SetFatal(g) \in Clients
         /\ \A p \in NoPid .. EpochSpace - 1 :
              /\ [g EXCEPT !.pid = p] \in Clients
              /\ [g EXCEPT !.pid = p].inflight_toppar_cnt = g.inflight_toppar_cnt
  BY DEF SetState, SetFatal, Clients

LEMMA DrainDoneKeepsCount ==
  ASSUME NEW g \in Clients
  PROVE  DrainDone(g).inflight_toppar_cnt = g.inflight_toppar_cnt
<1> DEFINE h == [g EXCEPT !.pid = PidBump(@)]
<1>1. h \in Clients /\ h.inflight_toppar_cnt = g.inflight_toppar_cnt
  BY PidBumpType DEF Clients
<1>2. DrainDone(g) = IF g.state = "DRAIN_RESET" THEN SetState(g, "REQ_PID")
                     ELSE IF g.state = "DRAIN_BUMP" /\ g.pid # NoPid THEN SetState(h, "ASSIGNED")
                     ELSE g
  BY DEF DrainDone
<1> HIDE DEF h
<1>3. QED
  BY <1>1, <1>2, StateKeepsCount

LEMMA AfterErrorKeepsCount ==
  ASSUME NEW g \in Clients, NEW a
  PROVE  AfterError(g, a).inflight_toppar_cnt = g.inflight_toppar_cnt
<1> DEFINE gap == Permanent(a) /\ Gapless
           h == IF a.fatal \/ gap THEN SetFatal(g) ELSE g
<1>1. h \in Clients /\ h.inflight_toppar_cnt = g.inflight_toppar_cnt
  BY StateKeepsCount
<1>2. AfterError(g, a) = IF gap THEN SetState(h, "DRAIN_RESET")
                         ELSE IF a.bump \/ Permanent(a) THEN SetState(h, "DRAIN_BUMP")
                         ELSE h
  BY Zenon DEF AfterError
<1> HIDE DEF h, gap
<1>3. QED
  BY <1>1, <1>2, StateKeepsCount

\* The steps that neither send a request nor handle a result.
LEMMA QuietCounts ==
  ASSUME TypeOK, PerToppar, PerClient,
         \/ PidFsm \/ PidUpdate \/ RequestPidFailed \/ Purge \/ UNCHANGED vars
         \/ \E p \in Partitions : \/ Expire(p) \/ Delegate(p) \/ LeaderChange(p)
                                  \/ KafkaForget(p) \/ Produce(p)
         \/ \E b \in Brokers :
              \/ ServeBegin(b) \/ PurgeDrainDone(b) \/ ServeChecks(b) \/ BrokerFail(b)
              \/ Reconnect(b) \/ PurgeOp(b) \/ CallDrainDone(b) \/ KafkaStale(b)
              \/ PurgeQueues(b) \/ PartitionLeft(b)
              \/ \E p \in Partitions : \/ PartitionLeave(b, p) \/ PartitionJoin(b, p)
                                       \/ ServeTimeout(b, p) \/ ServeToppar(b, p)
  PROVE  PerToppar' /\ PerClient'
<1>1. UNCHANGED <<msgs_inflight, outbufs, waitresps, hand>>
  <2>1. CASE UNCHANGED vars
    BY <2>1 DEF vars, toppar_vars, thread_vars, buf_vars
  <2>2. CASE \/ PidFsm \/ PidUpdate \/ RequestPidFailed \/ Purge
             \/ \E p \in Partitions : \/ Expire(p) \/ Delegate(p) \/ LeaderChange(p)
                                      \/ KafkaForget(p) \/ Produce(p)
    BY <2>2, Zenon DEF PidFsm, PidUpdate, RequestPidFailed, Purge, Expire, Delegate,
       LeaderChange, KafkaForget, Produce, toppar_vars, thread_vars, buf_vars
  <2>3. ASSUME NEW b \in Brokers,
               \/ ServeBegin(b) \/ PurgeDrainDone(b) \/ ServeChecks(b) \/ BrokerFail(b)
               \/ Reconnect(b) \/ PurgeOp(b) \/ CallDrainDone(b) \/ KafkaStale(b)
               \/ PurgeQueues(b) \/ PartitionLeft(b)
        PROVE  UNCHANGED <<msgs_inflight, outbufs, waitresps, hand>>
    BY <2>3, Zenon DEF ServeBegin, PurgeDrainDone, ServeChecks, BrokerFail, Reconnect, PurgeOp,
       CallDrainDone, KafkaStale, PurgeQueues, PartitionLeft, toppar_vars, thread_vars, buf_vars
  <2>4. ASSUME NEW b \in Brokers, NEW p \in Partitions,
               \/ PartitionLeave(b, p) \/ PartitionJoin(b, p)
               \/ ServeTimeout(b, p) \/ ServeToppar(b, p)
        PROVE  UNCHANGED <<msgs_inflight, outbufs, waitresps, hand>>
    BY <2>4, Zenon DEF PartitionLeave, PartitionJoin, ServeTimeout, ServeToppar,
       toppar_vars, thread_vars, buf_vars
  <2>5. QED
    BY <2>1, <2>2, <2>3, <2>4, Zenon
<1>2. rk \in Clients
  BY DEF TypeOK, RkType
<1>3. \/ rk' = rk
      \/ \E s : rk' = SetState(rk, s)
      \/ \E s : rk' = SetState(SetFatal(rk), s)
      \/ rk' = DrainDone(rk)
      \/ \E s : rk' = SetState([rk EXCEPT !.pid = 0], s)
  <2>1. CASE UNCHANGED vars
    BY <2>1 DEF vars
  <2>2. CASE PidFsm \/ PidUpdate \/ RequestPidFailed
    BY <2>2, Zenon DEF PidFsm, PidUpdate, RequestPidFailed
  <2>3. CASE \/ Purge
             \/ \E p \in Partitions : \/ Expire(p) \/ Delegate(p) \/ LeaderChange(p)
                                      \/ KafkaForget(p) \/ Produce(p)
    BY <2>3, Zenon DEF Purge, Expire, Delegate, LeaderChange, KafkaForget, Produce
  <2>4. ASSUME NEW b \in Brokers,
               \/ ServeBegin(b) \/ PurgeDrainDone(b) \/ ServeChecks(b) \/ BrokerFail(b)
               \/ Reconnect(b) \/ PurgeOp(b) \/ CallDrainDone(b) \/ KafkaStale(b)
               \/ PurgeQueues(b) \/ PartitionLeft(b)
        PROVE  rk' = rk \/ rk' = DrainDone(rk)
    BY <2>4, Zenon DEF ServeBegin, PurgeDrainDone, ServeChecks, BrokerFail, Reconnect, PurgeOp,
       CallDrainDone, KafkaStale, PurgeQueues, PartitionLeft
  <2>5. ASSUME NEW b \in Brokers, NEW p \in Partitions,
               \/ PartitionLeave(b, p) \/ PartitionJoin(b, p) \/ ServeToppar(b, p)
        PROVE  rk' = rk
    BY <2>5, Zenon DEF PartitionLeave, PartitionJoin, ServeToppar
  <2>6. ASSUME NEW b \in Brokers, NEW p \in Partitions, ServeTimeout(b, p)
        PROVE  rk' = rk \/ rk' = SetState(rk, "DRAIN_BUMP")
    BY <2>6, Zenon DEF ServeTimeout
  <2>7. QED
    BY <2>1, <2>2, <2>3, <2>4, <2>5, <2>6, Zenon
<1>4. rk'.inflight_toppar_cnt = rk.inflight_toppar_cnt
  <2> DEFINE z == [rk EXCEPT !.pid = 0]
             f == SetFatal(rk)
  <2>1. 0 \in NoPid .. EpochSpace - 1
    BY ConstantTypes
  <2>2. /\ z \in Clients /\ z.inflight_toppar_cnt = rk.inflight_toppar_cnt
        /\ f \in Clients /\ f.inflight_toppar_cnt = rk.inflight_toppar_cnt
    BY <1>2, <2>1, StateKeepsCount
  <2>3. \/ rk' = rk \/ rk' = DrainDone(rk)
        \/ \E s : rk' = SetState(rk, s) \/ rk' = SetState(f, s) \/ rk' = SetState(z, s)
    BY <1>3
  <2> HIDE DEF z, f
  <2>4. QED
    BY <1>2, <2>2, <2>3, StateKeepsCount, DrainDoneKeepsCount
<1>5. QED
  BY <1>1, <1>4, SameFlying, CountSame

LEMMA MovingCounts ==
  ASSUME TypeOK, TypeOK', OwnersInv, OwnersInv', PerToppar, PerClient, NEW b \in Brokers,
         Transmit(b) \/ RecvResponse(b) \/ FailNext(b) \/ PurgeNext(b) \/ KafkaHandle(b)
  PROVE  PerToppar' /\ PerClient'
<1>1. SameQueues /\ UNCHANGED <<msgs_inflight, rk>>
  BY Zenon DEF Transmit, RecvResponse, FailNext, PurgeNext, KafkaHandle, SameQueues, toppar_vars
<1>2. \/ hand' = hand
      \/ hand[b].phase = "none" /\ \E h : h.phase = "start" /\ hand' = [hand EXCEPT ![b] = h]
  <2>1. CASE Transmit(b) \/ KafkaHandle(b)
    BY <2>1, Zenon DEF Transmit, KafkaHandle, thread_vars
  <2>2. CASE RecvResponse(b) \/ FailNext(b) \/ PurgeNext(b)
    <3>1. hand[b].phase = "none"
      BY <2>2 DEF RecvResponse, FailNext, PurgeNext, Idle, Free
    <3>2. \/ hand' = hand
          \/ \E r, e, s : hand' = [hand EXCEPT ![b] = [phase |-> "start", req |-> r,
                                                       err |-> e, sent |-> s]]
      BY <2>2, Zenon DEF RecvResponse, FailNext, PurgeNext
    <3>3. QED
      BY <3>1, <3>2
  <2>3. QED
    BY <2>1, <2>2
<1>3. \A d \in Brokers : \/ hand'[d] = hand[d]
                         \/ hand[d].phase = "none" /\ hand'[d].phase = "start"
  BY <1>2 DEF TypeOK, HandType
<1>4. \A p \in Partitions : Flying(p)' = Flying(p)
  BY <1>1, <1>3, MovedFlying
<1>5. QED
  BY <1>1, <1>3, <1>4, CountSame

\* The messages of a request whose result is taken up stop being counted ...
LEMMA StartFlying ==
  ASSUME TypeOK, OwnersInv, NEW b \in Brokers, HandleStart(b)
  PROVE  /\ hand[b].req.msgs \subseteq Flying(hand[b].req.tp)
         /\ \A q \in Partitions :
              Flying(q)' = IF q = hand[b].req.tp THEN Flying(q) \ hand[b].req.msgs
                           ELSE Flying(q)
<1> DEFINE r == hand[b].req
           p == r.tp
<1>1. /\ hand[b].phase = "start" /\ UNCHANGED <<outbufs, waitresps>>
      /\ hand'[b].phase \in {"last", "more"} /\ \A d \in Brokers : d # b => hand'[d] = hand[d]
  <2>1. hand[b].phase = "start" /\ UNCHANGED <<outbufs, waitresps>>
    BY DEF HandleStart, buf_vars
  <2>2. PICK ph \in {"last", "more"} : hand' = [hand EXCEPT ![b].phase = ph]
    BY DEF HandleStart
  <2>3. hand[b] \in Hands /\ hand \in [Brokers -> Hands \cup {NoHand}]
    BY <2>1 DEF TypeOK, HandType, NoHand
  <2>4. QED
    BY <2>1, <2>2, <2>3 DEF Hands
<1>2. p \in Partitions /\ r.msgs \in SUBSET MsgIds
  BY <1>1, HandPhases
<1>3. ASSUME NEW q \in Partitions, NEW m \in MsgIds
      PROVE  /\ Match(r, q, m) => /\ \E d \in Brokers : Carries(d, q, m)
                                  /\ ~\E d \in Brokers : Carries(d, q, m)'
             /\ ~Match(r, q, m) => \A d \in Brokers : Carries(d, q, m)' <=> Carries(d, q, m)
  <2>1. Conserved(q, m)
    BY DEF OwnersInv
  <2>2. /\ Carries(b, q, m) <=> \/ Has(outbufs[b], q, m) \/ Has(waitresps[b], q, m)
                                \/ Match(r, q, m)
        /\ Carries(b, q, m)' <=> Has(outbufs[b], q, m) \/ Has(waitresps[b], q, m)
    BY <1>1 DEF Carries
  <2>3. \A d \in Brokers : d # b => (Carries(d, q, m)' <=> Carries(d, q, m))
    BY <1>1 DEF Carries
  <2>4. CASE Match(r, q, m)
    <3>1. Holds(b, q, m) /\ ~Has(outbufs[b], q, m) /\ ~Has(waitresps[b], q, m)
      BY <1>1, <2>1, <2>4 DEF Conserved, Once, OnceIn, Holds, HoldsIn, InHand
    <3>2. \A d \in Brokers : d # b => ~Carries(d, q, m)
      BY <2>1, <3>1, CarriesHolds DEF Conserved
    <3>3. QED
      BY <2>2, <2>3, <2>4, <3>1, <3>2
  <2>5. CASE ~Match(r, q, m)
    BY <2>2, <2>3, <2>5
  <2>6. QED
    BY <2>4, <2>5
<1>4. \A q \in Partitions, m \in MsgIds :
        /\ Match(r, q, m) => m \in Flying(q) /\ m \notin Flying(q)'
        /\ ~Match(r, q, m) => (m \in Flying(q)' <=> m \in Flying(q))
  BY <1>3 DEF Flying
<1>5. \A q : Flying(q) \subseteq MsgIds /\ Flying(q)' \subseteq MsgIds
  BY DEF Flying
<1>6. \A q \in Partitions, m \in MsgIds : Match(r, q, m) <=> q = p /\ m \in r.msgs
  BY DEF Match
<1> HIDE DEF r, p
<1>7. r.msgs \subseteq Flying(p)
  BY <1>2, <1>4, <1>6
<1>8. \A q \in Partitions : Flying(q)' = IF q = p THEN Flying(q) \ r.msgs ELSE Flying(q)
  BY <1>4, <1>5, <1>6
<1>9. QED
  BY <1>7, <1>8 DEF p, r

\* ... and the partition is in flight no more, or the window of the handler opens.
LEMMA HandleStartCounts ==
  ASSUME TypeOK, OwnersInv, PerToppar, PerClient, NEW b \in Brokers, HandleStart(b)
  PROVE  PerToppar' /\ PerClient'
<1> DEFINE S == hand[b].req.msgs
           p == hand[b].req.tp
           n == msgs_inflight[p] - Cardinality(S)
           ph == IF n = 0 THEN "last" ELSE "more"
<1>1. /\ hand[b].phase = "start" /\ rk' = rk
      /\ msgs_inflight' = [msgs_inflight EXCEPT ![p] = n]
      /\ hand' = [hand EXCEPT ![b].phase = ph]
  BY DEF HandleStart
<1>2. /\ p \in Partitions /\ S \in (SUBSET MsgIds) \ {{}}
      /\ hand \in [Brokers -> Hands \cup {NoHand}]
  BY <1>1, HandPhases
<1>3. hand[b] \in Hands
  BY <1>1, <1>2 DEF NoHand
<1>4. msgs_inflight \in [Partitions -> Int]
  BY DEF TypeOK, TopparType
<1>5. /\ S \subseteq Flying(p)
      /\ \A q \in Partitions : Flying(q)' = IF q = p THEN Flying(q) \ S ELSE Flying(q)
  BY StartFlying
<1>6. IsFiniteSet(S) /\ Cardinality(S) \in Nat /\ Cardinality(S) > 0
  <2>1. IsFiniteSet(S) /\ Cardinality(S) \in Nat
    BY <1>2, MsgSetType
  <2>2. Cardinality(S) # 0
    BY <1>2, <2>1, FS_EmptySet
  <2>3. QED
    BY <2>1, <2>2
<1>7. Cardinality(Flying(p) \ S) = Cardinality(Flying(p)) - Cardinality(S)
  <2>1. IsFiniteSet(Flying(p)) /\ Flying(p) \cap S = S
    BY <1>5, FlyingFinite
  <2>2. QED
    BY <2>1, FS_Difference
<1>8. /\ IsFiniteSet(Flying(p) \ S) /\ Cardinality(Flying(p) \ S) \in Nat
  BY FlyingFinite, FS_Difference, FS_CardinalityType
<1>9. msgs_inflight[p] = Cardinality(Flying(p)) /\ Cardinality(Flying(p)) \in Nat
  BY <1>2, FlyingFinite DEF PerToppar
<1>10. n \in Nat /\ msgs_inflight[p] > 0 /\ n = Cardinality(Flying(p) \ S)
  BY <1>6, <1>7, <1>8, <1>9
<1>11. hand'[b].phase = ph /\ \A d \in Brokers : d # b => hand'[d] = hand[d]
  BY <1>1, <1>2, <1>3 DEF Hands
<1> HIDE DEF n, S, p
<1>12. PerToppar'
  BY <1>1, <1>2, <1>4, <1>5, <1>10 DEF PerToppar
<1>13. CASE n = 0
  <2>1. ph = "last"
    BY <1>13
  <2>2. Busy' = Busy \ {p}
    BY <1>1, <1>2, <1>4, <1>13 DEF Busy
  <2>3. Lasts' = Lasts \cup {b}
    BY <1>11, <2>1 DEF Lasts
  <2>4. p \in Busy /\ b \notin Lasts
    BY <1>1, <1>2, <1>10 DEF Busy, Lasts
  <2>5. /\ IsFiniteSet(Busy \ {p}) /\ Cardinality(Busy \ {p}) = Cardinality(Busy) - 1
        /\ IsFiniteSet(Lasts \cup {b}) /\ Cardinality(Lasts \cup {b}) = Cardinality(Lasts) + 1
        /\ Cardinality(Busy) \in Nat /\ Cardinality(Lasts) \in Nat
    BY <2>4, FS_RemoveElement, FS_AddElement, FS_CardinalityType DEF PerClient
  <2>6. QED
    BY <1>1, <1>12, <2>2, <2>3, <2>5 DEF PerClient
<1>14. CASE n # 0
  <2>1. n > 0 /\ ph = "more"
    BY <1>10, <1>14
  <2>2. Busy' = Busy
    BY <1>1, <1>2, <1>4, <1>10, <2>1 DEF Busy
  <2>3. Lasts' = Lasts
    BY <1>1, <1>11, <2>1 DEF Lasts
  <2>4. QED
    BY <1>1, <1>12, <2>2, <2>3 DEF PerClient
<1>15. QED
  BY <1>13, <1>14

\* The handler ends, and counts the partition out if it was its last request.
LEMMA HandlerEndCounts ==
  ASSUME TypeOK, PerToppar, PerClient, NEW b \in Brokers, NEW g \in Clients, NEW bumped,
         hand[b].phase \in {"more", "last"}, HandlerEnd(b, g, bumped),
         g.inflight_toppar_cnt = rk.inflight_toppar_cnt,
         UNCHANGED <<outbufs, waitresps, msgs_inflight>>
  PROVE  PerToppar' /\ PerClient'
<1>1. hand \in [Brokers -> Hands \cup {NoHand}]
  BY DEF TypeOK, HandType
<1>2. /\ hand'[b].phase = "none" /\ \A d \in Brokers : d # b => hand'[d] = hand[d]
  BY <1>1 DEF HandlerEnd, NoHand
<1>3. \A p \in Partitions : Flying(p)' = Flying(p)
  BY <1>2, SameFlying
<1>4. PerToppar'
  BY <1>3 DEF PerToppar
<1>5. Busy' = Busy /\ Lasts' = Lasts \ {b}
  BY <1>2 DEF Busy, Lasts
<1>6. rk'.inflight_toppar_cnt = rk.inflight_toppar_cnt - (IF b \in Lasts THEN 1 ELSE 0)
  <2>1. g.inflight_toppar_cnt \in Int
    BY DEF Clients
  <2>2. rk'.inflight_toppar_cnt = IF hand[b].phase = "last" THEN g.inflight_toppar_cnt - 1
                                  ELSE g.inflight_toppar_cnt
    BY DEF HandlerEnd, Clients
  <2>3. QED
    BY <2>1, <2>2 DEF Lasts
<1>7. /\ IsFiniteSet(Lasts \ {b})
      /\ Cardinality(Lasts \ {b}) = Cardinality(Lasts) - (IF b \in Lasts THEN 1 ELSE 0)
      /\ Cardinality(Busy) \in Nat /\ Cardinality(Lasts) \in Nat
  BY FS_RemoveElement, FS_CardinalityType DEF PerClient
<1>8. QED
  BY <1>4, <1>5, <1>6, <1>7 DEF PerClient

LEMMA HandledCounts ==
  ASSUME TypeOK, PerToppar, PerClient, NEW b \in Brokers, HandleSuccess(b) \/ HandleError(b)
  PROVE  PerToppar' /\ PerClient'
<1>1. rk \in Clients
  BY DEF TypeOK, RkType
<1>2. /\ hand[b].phase \in {"more", "last"}
      /\ UNCHANGED <<outbufs, waitresps, msgs_inflight>>
  BY Zenon DEF HandleSuccess, HandleError, buf_vars
<1>3. \E g, bumped : /\ g \in Clients /\ g.inflight_toppar_cnt = rk.inflight_toppar_cnt
                     /\ HandlerEnd(b, g, bumped)
  <2>1. CASE HandleSuccess(b)
    <3>1. HandlerEnd(b, rk, FALSE) \/ HandlerEnd(b, SetFatal(rk), FALSE)
      BY <2>1, Zenon DEF HandleSuccess
    <3>2. QED
      BY <1>1, <3>1, StateKeepsCount
  <2>2. CASE HandleError(b)
    <3>1. \E a, x : HandlerEnd(b, AfterError(rk, a), x)
      BY <2>2, Zenon DEF HandleError
    <3>2. QED
      BY <1>1, <3>1, AfterErrorType, AfterErrorKeepsCount
  <2>3. QED
    BY <2>1, <2>2
<1>4. QED
  BY <1>2, <1>3, HandlerEndCounts

LEMMA ProduceRequestCounts ==
  ASSUME TypeOK, OwnersInv, PerToppar, PerClient, NEW b \in Brokers, ProduceRequest(b)
  PROVE  PerToppar' /\ PerClient'
<1>1. UNCHANGED <<hand, waitresps>>
  BY ProduceRequestEffect
<1>2. rk \in Clients /\ msgs_inflight \in [Partitions -> Int]
  BY DEF TypeOK, RkType, TopparType
<1>3. CASE UNCHANGED <<outbufs, msgs_inflight>> /\ rk' \in {rk, SetFatal(rk)}
  <2>1. rk'.inflight_toppar_cnt = rk.inflight_toppar_cnt
    BY <1>2, <1>3, StateKeepsCount
  <2>2. QED
    BY <1>1, <1>3, <2>1, SameFlying, CountSame
<1>4. ASSUME NEW req \in Requests, Built(b, req)
      PROVE  PerToppar' /\ PerClient'
  <2> DEFINE p == req.tp
             S == req.msgs
  <2>1. p \in Partitions /\ S \in (SUBSET MsgIds) \ {{}} /\ S \subseteq xmit_msgq[p]
    BY <1>4 DEF Requests, Built
  <2>2. ASSUME NEW q \in Partitions, NEW m \in MsgIds
        PROVE  /\ (\E d \in Brokers : Carries(d, q, m)')
                    <=> (\E d \in Brokers : Carries(d, q, m)) \/ (q = p /\ m \in S)
               /\ q = p /\ m \in S => ~\E d \in Brokers : Carries(d, q, m)
    <3>1. outbufs \in [Brokers -> Seq(Requests)]
      BY DEF TypeOK, BufType
    <3>2. \A d \in Brokers : d # b => (Carries(d, q, m)' <=> Carries(d, q, m))
      BY <1>1, <1>4, <3>1 DEF Built, Carries
    <3>3. TakenOut(outbufs'[b], outbufs[b], Len(outbufs[b]) + 1, req)
      <4>1. outbufs'[b] = Append(outbufs[b], req)
        BY <1>4, <3>1 DEF Built
      <4>2. QED
        BY <3>1, <4>1, AppendTaken
    <3>4. Has(outbufs'[b], q, m) <=> Has(outbufs[b], q, m) \/ Match(req, q, m)
      BY <3>3, TakenOutHas
    <3>5. Carries(b, q, m)' <=> Carries(b, q, m) \/ (q = p /\ m \in S)
      BY <1>1, <3>4 DEF Carries, Match
    <3>6. ASSUME q = p, m \in S PROVE ~\E d \in Brokers : Carries(d, q, m)
      <4>1. InX(q, m) /\ Conserved(q, m)
        BY <2>1, <3>6 DEF InX, OwnersInv
      <4>2. \A d \in Brokers : ~Holds(d, q, m)
        BY <4>1 DEF Conserved
      <4>3. QED
        BY <4>2, CarriesHolds
    <3>7. QED
      BY <3>2, <3>5, <3>6
  <2>3. \A q \in Partitions : /\ Flying(q)' = IF q = p THEN Flying(q) \cup S ELSE Flying(q)
                              /\ q = p => Flying(q) \cap S = {}
    <3> HIDE DEF p, S
    <3>1. ASSUME NEW q \in Partitions
          PROVE  /\ Flying(q)' = IF q = p THEN Flying(q) \cup S ELSE Flying(q)
                 /\ q = p => Flying(q) \cap S = {}
      <4>1. S \subseteq MsgIds
        BY <2>1
      <4>2. QED
        BY <2>2, <4>1 DEF Flying
    <3>2. QED
      BY <3>1
  <2>4. IsFiniteSet(S) /\ Cardinality(S) \in Nat /\ Cardinality(S) > 0
    <3>1. IsFiniteSet(S) /\ Cardinality(S) \in Nat
      BY <2>1, MsgSetType
    <3>2. Cardinality(S) # 0
      BY <2>1, <3>1, FS_EmptySet
    <3>3. QED
      BY <3>1, <3>2
  <2>5. Cardinality(Flying(p) \cup S) = Cardinality(Flying(p)) + Cardinality(S)
    <3> HIDE DEF p, S
    <3>1. IsFiniteSet(Flying(p)) /\ Flying(p) \cap S = {} /\ Cardinality(Flying(p)) \in Nat
      BY <2>1, <2>3, FlyingFinite
    <3>2. Cardinality(Flying(p) \cap S) = 0
      BY <3>1, FS_EmptySet
    <3>3. Cardinality(Flying(p) \cup S)
            = Cardinality(Flying(p)) + Cardinality(S) - Cardinality(Flying(p) \cap S)
      BY <2>4, <3>1, FS_Union
    <3>4. QED
      BY <2>4, <3>1, <3>2, <3>3
  <2>6. msgs_inflight' = [msgs_inflight EXCEPT ![p] = msgs_inflight[p] + Cardinality(S)]
    BY <1>4 DEF Built
  <2>7. rk'.inflight_toppar_cnt
          = IF msgs_inflight[p] = 0 THEN rk.inflight_toppar_cnt + 1 ELSE rk.inflight_toppar_cnt
    BY <1>2, <1>4 DEF Built, Clients
  <2> HIDE DEF p, S
  <2>8. PerToppar'
    BY <1>2, <2>1, <2>3, <2>5, <2>6 DEF PerToppar
  <2>9. msgs_inflight[p] \in Nat /\ msgs_inflight'[p] = msgs_inflight[p] + Cardinality(S)
    BY <1>2, <2>1, <2>6, FlyingFinite DEF PerToppar
  <2>10. Lasts' = Lasts
    BY <1>1 DEF Lasts
  <2>11. Busy' = Busy \cup {p}
    <3>1. \A q \in Partitions : q # p => msgs_inflight'[q] = msgs_inflight[q]
      BY <1>2, <2>1, <2>6
    <3>2. msgs_inflight'[p] > 0
      BY <2>4, <2>9
    <3>3. QED
      BY <2>1, <3>1, <3>2 DEF Busy
  <2>12. p \in Busy <=> msgs_inflight[p] # 0
    BY <2>1, <2>9 DEF Busy
  <2>13. /\ IsFiniteSet(Busy \cup {p})
         /\ Cardinality(Busy \cup {p})
              = IF p \in Busy THEN Cardinality(Busy) ELSE Cardinality(Busy) + 1
         /\ Cardinality(Busy) \in Nat /\ Cardinality(Lasts) \in Nat
    BY FS_AddElement, FS_CardinalityType DEF PerClient
  <2>14. QED
    BY <2>7, <2>8, <2>10, <2>11, <2>12, <2>13 DEF PerClient
<1>5. QED
  BY <1>3, <1>4, ProduceRequestEffect

LEMMA InitCounts == Init => PerToppar /\ PerClient
<1> SUFFICES ASSUME Init PROVE PerToppar /\ PerClient
  OBVIOUS
<1>1. ASSUME NEW p \in Partitions PROVE Flying(p) = {} /\ msgs_inflight[p] = 0
  <2>1. ASSUME NEW b \in Brokers, NEW m \in MsgIds PROVE ~Carries(b, p, m)
    <3>1. outbufs[b] = <<>> /\ waitresps[b] = <<>> /\ hand[b].phase = "none"
      BY <2>1 DEF Init, NoHand
    <3>2. DOMAIN outbufs[b] = {} /\ DOMAIN waitresps[b] = {}
      BY <3>1
    <3>3. QED
      BY <3>1, <3>2 DEF Carries, Has
  <2>2. QED
    BY <2>1 DEF Flying, Init
<1>2. PerToppar
  BY <1>1, FS_EmptySet DEF PerToppar
<1>3. Busy = {} /\ Lasts = {}
  BY <1>1 DEF Busy, Lasts, Init, NoHand
<1>4. rk.inflight_toppar_cnt = 0
  BY DEF Init
<1>5. QED
  BY <1>2, <1>3, <1>4, FS_EmptySet DEF PerClient

LEMMA NextCounts ==
  TypeOK /\ TypeOK' /\ OwnersInv /\ OwnersInv' /\ PerToppar /\ PerClient /\ [Next]_vars
    => PerToppar' /\ PerClient'
<1> SUFFICES ASSUME TypeOK, TypeOK', OwnersInv, OwnersInv', PerToppar, PerClient, [Next]_vars
             PROVE  PerToppar' /\ PerClient'
  OBVIOUS
<1>1. CASE \/ PidFsm \/ PidUpdate \/ RequestPidFailed \/ Purge \/ UNCHANGED vars
           \/ \E p \in Partitions : \/ Expire(p) \/ Delegate(p) \/ LeaderChange(p)
                                    \/ KafkaForget(p) \/ Produce(p)
  BY <1>1, QuietCounts, Zenon
<1>2. ASSUME NEW b \in Brokers,
             \/ ServeBegin(b) \/ PurgeDrainDone(b) \/ ServeChecks(b) \/ BrokerFail(b)
             \/ Reconnect(b) \/ PurgeOp(b) \/ CallDrainDone(b) \/ KafkaStale(b)
             \/ PurgeQueues(b) \/ PartitionLeft(b)
             \/ \E p \in Partitions : \/ PartitionLeave(b, p) \/ PartitionJoin(b, p)
                                      \/ ServeTimeout(b, p) \/ ServeToppar(b, p)
      PROVE  PerToppar' /\ PerClient'
  BY <1>2, QuietCounts, Zenon
<1>3. ASSUME NEW b \in Brokers,
             BrokerThread(b) \/ BrokerFail(b) \/ KafkaHandle(b) \/ KafkaStale(b)
      PROVE  PerToppar' /\ PerClient'
  BY <1>2, <1>3, MovingCounts, HandleStartCounts, HandledCounts, ProduceRequestCounts, Zenon
     DEF BrokerThread
<1>4. QED
  BY <1>1, <1>3, Zenon DEF Next

\* The slots of the property that count are the requests that carry messages.
LEMMA CountedSlots ==
  ASSUME NEW p \in Partitions, NEW m \in MsgIds
  PROVE  (\E s \in SlotsOf(p) : InFlight(s, m)) <=> m \in Flying(p)
<1>1. ASSUME NEW s \in SlotsOf(p), InFlight(s, m) PROVE m \in Flying(p)
  <2>1. s \in Slots /\ Match(ReqAt(s), p, m)
    BY <1>1 DEF SlotsOf, InFlight, Match
  <2>2. PICK b \in Brokers :
             \/ \E i \in DOMAIN outbufs[b] : s = <<"out", b, i>>
             \/ \E i \in DOMAIN waitresps[b] : s = <<"wait", b, i>>
             \/ hand[b].phase # "none" /\ s = <<"hand", b, 1>>
    BY <2>1, SlotFacts
  <2>3. CASE \E i \in DOMAIN outbufs[b] : s = <<"out", b, i>>
    <3>1. PICK i \in DOMAIN outbufs[b] : s = <<"out", b, i>>
      BY <2>3
    <3>2. Match(outbufs[b][i], p, m)
      BY <2>1, <3>1, ReqFacts
    <3>3. QED
      BY <3>2 DEF Flying, Carries, Has
  <2>4. CASE \E i \in DOMAIN waitresps[b] : s = <<"wait", b, i>>
    <3>1. PICK i \in DOMAIN waitresps[b] : s = <<"wait", b, i>>
      BY <2>4
    <3>2. Match(waitresps[b][i], p, m)
      BY <2>1, <3>1, ReqFacts
    <3>3. QED
      BY <3>2 DEF Flying, Carries, Has
  <2>5. CASE s = <<"hand", b, 1>>
    <3>1. Match(hand[b].req, p, m) /\ hand[b].phase = "start"
      BY <1>1, <2>1, <2>5, ReqFacts DEF InFlight
    <3>2. QED
      BY <3>1 DEF Flying, Carries
  <2>6. QED
    BY <2>2, <2>3, <2>4, <2>5
<1>2. ASSUME m \in Flying(p) PROVE \E s \in SlotsOf(p) : InFlight(s, m)
  <2>1. PICK b \in Brokers : Carries(b, p, m)
    BY <1>2 DEF Flying
  <2>2. CASE Has(outbufs[b], p, m)
    <3>1. PICK i \in DOMAIN outbufs[b] : Match(outbufs[b][i], p, m)
      BY <2>2 DEF Has
    <3> DEFINE s == <<"out", b, i>>
    <3>2. s \in Slots /\ ReqAt(s) = outbufs[b][i] /\ s[1] # "hand"
      BY SlotFacts, ReqFacts
    <3> HIDE DEF s
    <3>3. s \in SlotsOf(p) /\ InFlight(s, m)
      BY <3>1, <3>2 DEF SlotsOf, InFlight, Match
    <3>4. QED
      BY <3>3
  <2>3. CASE Has(waitresps[b], p, m)
    <3>1. PICK i \in DOMAIN waitresps[b] : Match(waitresps[b][i], p, m)
      BY <2>3 DEF Has
    <3> DEFINE s == <<"wait", b, i>>
    <3>2. s \in Slots /\ ReqAt(s) = waitresps[b][i] /\ s[1] # "hand"
      BY SlotFacts, ReqFacts
    <3> HIDE DEF s
    <3>3. s \in SlotsOf(p) /\ InFlight(s, m)
      BY <3>1, <3>2 DEF SlotsOf, InFlight, Match
    <3>4. QED
      BY <3>3
  <2>4. CASE hand[b].phase = "start" /\ Match(hand[b].req, p, m)
    <3> DEFINE s == <<"hand", b, 1>>
    <3>2. s \in Slots /\ ReqAt(s) = hand[b].req /\ s[2] = b
      BY <2>4, SlotFacts, ReqFacts
    <3> HIDE DEF s
    <3>3. s \in SlotsOf(p) /\ InFlight(s, m)
      BY <2>4, <3>2 DEF SlotsOf, InFlight, Match
    <3>4. QED
      BY <3>3
  <2>5. QED
    BY <2>1, <2>2, <2>3, <2>4 DEF Carries
<1>3. QED
  BY <1>1, <1>2

\* Because a message has one owner, counting it in the requests counts it once.
LEMMA CountedOnce ==
  ASSUME MessageConservation, NEW p \in Partitions
  PROVE  Cardinality({x \in SlotsOf(p) \X MsgIds : InFlight(x[1], x[2])})
           = Cardinality(Flying(p))
<1> DEFINE T == {x \in SlotsOf(p) \X MsgIds : InFlight(x[1], x[2])}
           own(m) == CHOOSE o : o \in Owners(p, m)
           f == [m \in Flying(p) |-> <<own(m), m>>]
<1>1. ASSUME NEW s \in SlotsOf(p), NEW m \in MsgIds, InFlight(s, m)
      PROVE  own(m) = s
  <2>1. s \in Owners(p, m)
    BY <1>1 DEF Owners, InFlight
  <2>2. \E o \in Owners(p, m) : Owners(p, m) = {o}
    BY <2>1 DEF MessageConservation
  <2>3. Owners(p, m) = {s}
    BY <2>1, <2>2
  <2>4. QED
    BY <2>3
<1>2. \A m \in Flying(p) : m \in MsgIds /\ own(m) \in SlotsOf(p) /\ InFlight(own(m), m)
  <2>1. \A m \in Flying(p) : m \in MsgIds /\ \E s \in SlotsOf(p) : InFlight(s, m)
    BY CountedSlots DEF Flying
  <2> HIDE DEF own
  <2>2. QED
    BY <1>1, <2>1
<1> HIDE DEF own
<1>3. \A m \in Flying(p) : <<own(m), m>> \in T
  BY <1>2
<1>4. ASSUME NEW x \in T PROVE x[2] \in Flying(p) /\ f[x[2]] = x
  <2>1. x \in SlotsOf(p) \X MsgIds /\ InFlight(x[1], x[2])
    BY <1>4
  <2>2. x = <<x[1], x[2]>> /\ x[1] \in SlotsOf(p) /\ x[2] \in MsgIds
    BY <2>1
  <2>3. own(x[2]) = x[1] /\ x[2] \in Flying(p)
    BY <1>1, <2>1, <2>2, CountedSlots
  <2>4. QED
    BY <2>2, <2>3
<1> HIDE DEF T
<1>5. f \in Bijection(Flying(p), T)
  <2>1. f \in [Flying(p) -> T]
    BY <1>3
  <2>2. \A m, n \in Flying(p) : f[m] = f[n] => m = n
    OBVIOUS
  <2>3. \A t \in T : \E m \in Flying(p) : f[m] = t
    BY <1>4
  <2> HIDE DEF f
  <2>4. QED
    BY <2>1, <2>2, <2>3 DEF Bijection, Injection, IsInjective, Surjection
<1>6. ExistsBijection(Flying(p), T)
  BY <1>5 DEF ExistsBijection
<1>7. Cardinality(T) = Cardinality(Flying(p))
  BY <1>6, FlyingFinite, FS_Bijection
<1>8. QED
  BY <1>7 DEF T

LEMMA CountsAreAccounting ==
  MessageConservation /\ PerToppar /\ PerClient => InflightAccounting
<1> SUFFICES ASSUME MessageConservation, PerToppar, PerClient PROVE InflightAccounting
  OBVIOUS
<1>1. \A p \in Partitions :
        msgs_inflight[p] = Cardinality({x \in SlotsOf(p) \X MsgIds : InFlight(x[1], x[2])})
  BY CountedOnce DEF PerToppar
<1>2. QED
  BY <1>1 DEF InflightAccounting, PerClient, Busy, Lasts

\* The two in-flight counters are exact at every moment, for any number of
\* partitions, brokers and messages: rktp_msgs_inflight is the number of messages
\* in the partition's requests whose result has not been taken up, and
\* rk_eos.inflight_toppar_cnt the number of partitions with any, plus the handlers
\* between the two decrements of rd_kafka_msgbatch_handle_Produce_result().  A
\* drain that waits for zero waits for exactly that.
THEOREM InflightExact == Spec => []InflightAccounting
<1>1. QED
  BY InitType, NextType, InitOwners, NextOwners, InitCounts, NextCounts, OwnersOne,
     CountsAreAccounting, PTL DEF Spec

-----------------------------------------------------------------------------
(* What is known of a message that may have been written.                  *)

\* The results after which the messages of a request may be in the log.
Doubt == {"OK", "NOT_ENOUGH_REPLICAS_AFTER_APPEND", "DUPLICATE_SEQUENCE_NUMBER",
          "_TRANSPORT"}

\* A request (of the sent ones w, or the one in hand h, of a broker that is
\* connected or not) whose result will tell that message m may be written.
DoubtIn(w, u, h, p, m) ==
  \/ \E i \in DOMAIN w : Match(w[i], p, m) /\ (w[i].resp \in Doubt \/ ~u)
  \/ h.phase # "none" /\ h.sent /\ h.err \in Doubt /\ Match(h.req, p, m)

Unsettled(p, m) == \E b \in Brokers : DoubtIn(waitresps[b], up[b], hand[b], p, m)

\* The message is in the log, or in a request of a lost connection that the
\* cluster may still handle.
MayBeWritten(p, m) == m \in Written(p) \/ \E b \in Brokers : Has(stale[b], p, m)

Known(p, m) == rkm[p][m].status # "NOT_PERSISTED"

\* A message that may be written is known as such, or the result that tells so is
\* on its way.  A thread purges its requests when the connection is lost, and only
\* then does it have requests waiting without a connection.
KnownInv ==
  \A p \in Partitions, m \in MsgIds : MayBeWritten(p, m) => Known(p, m) \/ Unsettled(p, m)

LostInv ==
  \A b \in Brokers : /\ th[b].pc = "fail" => ~up[b]
                     /\ ~up[b] /\ th[b].pc # "fail" => waitresps[b] = <<>>

KnowsMore ==
  \A p \in Partitions, m \in MsgIds :
    /\ MayBeWritten(p, m)' => MayBeWritten(p, m) \/ Unsettled(p, m)'
    /\ Unsettled(p, m) => Unsettled(p, m)' \/ Known(p, m)'
    /\ Known(p, m) => Known(p, m)'

LEMMA KnowsStep ==
  ASSUME KnownInv, KnowsMore
  PROVE  KnownInv'
BY DEF KnownInv, KnowsMore

SameStatus == \A p \in Partitions, m \in MsgIds : rkm'[p][m].status = rkm[p][m].status

SameLogs == \A p \in Partitions : plog'[p].log = plog[p].log

LEMMA SameWritten ==
  ASSUME SameLogs, NEW p \in Partitions
  PROVE  Written(p)' = Written(p)
<1>1. plog'[p].log = plog[p].log
  BY DEF SameLogs
<1>2. QED
  BY <1>1 DEF Written

\* A step that leaves the cluster, the connections and the status alone, and
\* in the hands of a thread changes the phase at most.
LEMMA QuietKnows ==
  ASSUME KnownInv, SameLogs, SameStatus, UNCHANGED <<stale, waitresps, up>>,
         \A b \in Brokers : /\ hand'[b].req = hand[b].req /\ hand'[b].err = hand[b].err
                            /\ hand'[b].sent <=> hand[b].sent
                            /\ hand'[b].phase = "none" <=> hand[b].phase = "none"
  PROVE  KnownInv'
<1>1. ASSUME NEW p \in Partitions, NEW m \in MsgIds
      PROVE  /\ MayBeWritten(p, m)' => MayBeWritten(p, m)
             /\ Unsettled(p, m) => Unsettled(p, m)'
             /\ Known(p, m) => Known(p, m)'
  <2>1. MayBeWritten(p, m)' => MayBeWritten(p, m)
    BY SameWritten DEF MayBeWritten
  <2>2. Known(p, m) => Known(p, m)'
    BY DEF Known, SameStatus
  <2>3. ASSUME NEW b \in Brokers, DoubtIn(waitresps[b], up[b], hand[b], p, m)
        PROVE  DoubtIn(waitresps[b], up[b], hand[b], p, m)'
    <3>1. /\ waitresps'[b] = waitresps[b] /\ up'[b] = up[b]
          /\ hand'[b].req = hand[b].req /\ hand'[b].err = hand[b].err
          /\ hand'[b].sent <=> hand[b].sent
          /\ hand'[b].phase = "none" <=> hand[b].phase = "none"
      OBVIOUS
    <3>2. QED
      BY <2>3, <3>1, Zenon DEF DoubtIn
  <2>4. QED
    BY <2>1, <2>2, <2>3 DEF Unsettled
<1>2. KnowsMore
  BY <1>1 DEF KnowsMore
<1>3. QED
  BY <1>2, KnowsStep

LEMMA DrQueuedStatus ==
  ASSUME TypeOK, NEW p \in Partitions, NEW S, NEW r \in Partitions, NEW m \in MsgIds
  PROVE  DrQueued(p, S)[r][m].status = rkm[r][m].status
<1>1. rkm \in [Partitions -> [MsgIds -> Messages]]
  BY DEF TypeOK, MsgType
<1>2. QED
  BY <1>1 DEF DrQueued, Messages

LEMMA UntouchedKnows ==
  ASSUME TypeOK, KnownInv,
         \/ PidFsm \/ PidUpdate \/ RequestPidFailed \/ Purge
         \/ \E p \in Partitions : \/ Produce(p) \/ Expire(p) \/ Delegate(p) \/ LeaderChange(p)
         \/ \E b \in Brokers :
              \/ ServeBegin(b) \/ PurgeDrainDone(b) \/ ServeChecks(b) \/ ProduceRequest(b)
              \/ PurgeOp(b) \/ PurgeQueues(b) \/ CallDrainDone(b) \/ PartitionLeft(b)
              \/ \E p \in Partitions : \/ ServeTimeout(b, p) \/ ServeToppar(b, p)
                                       \/ PartitionLeave(b, p) \/ PartitionJoin(b, p)
  PROVE  KnownInv'
<1> DEFINE Same == UNCHANGED <<plog, stale, waitresps, up, hand>>
<1>1. Same
  <2>1. CASE \/ PidFsm \/ PidUpdate \/ RequestPidFailed \/ Purge
             \/ \E p \in Partitions : \/ Produce(p) \/ Expire(p) \/ Delegate(p) \/ LeaderChange(p)
    BY <2>1, Zenon DEF PidFsm, PidUpdate, RequestPidFailed, Purge, Produce, Expire, Delegate,
       LeaderChange, kafka_vars, thread_vars, buf_vars
  <2>2. ASSUME NEW b \in Brokers, ServeBegin(b) \/ PurgeDrainDone(b) \/ ServeChecks(b)
        PROVE  Same
    BY <2>2, Zenon DEF ServeBegin, PurgeDrainDone, ServeChecks, kafka_vars, thread_vars, buf_vars
  <2>3. ASSUME NEW b \in Brokers, ProduceRequest(b) \/ PurgeOp(b) \/ PurgeQueues(b)
        PROVE  Same
    BY <2>3, Zenon DEF ProduceRequest, PurgeOp, PurgeQueues, kafka_vars, thread_vars, buf_vars
  <2>4. ASSUME NEW b \in Brokers, CallDrainDone(b) \/ PartitionLeft(b)
        PROVE  Same
    BY <2>4, Zenon DEF CallDrainDone, PartitionLeft, kafka_vars, thread_vars, buf_vars
  <2>5. ASSUME NEW b \in Brokers, NEW p \in Partitions, ServeTimeout(b, p) \/ ServeToppar(b, p)
        PROVE  Same
    BY <2>5, Zenon DEF ServeTimeout, ServeToppar, kafka_vars, thread_vars, buf_vars
  <2>6. ASSUME NEW b \in Brokers, NEW p \in Partitions, PartitionLeave(b, p) \/ PartitionJoin(b, p)
        PROVE  Same
    BY <2>6, Zenon DEF PartitionLeave, PartitionJoin, kafka_vars, thread_vars, buf_vars
  <2> HIDE DEF Same
  <2>7. QED
    <3>1. CASE \E b \in Brokers :
                 \/ ServeBegin(b) \/ PurgeDrainDone(b) \/ ServeChecks(b) \/ ProduceRequest(b)
                 \/ PurgeOp(b) \/ PurgeQueues(b) \/ CallDrainDone(b) \/ PartitionLeft(b)
      BY <3>1, <2>2, <2>3, <2>4
    <3>2. CASE \E b \in Brokers, p \in Partitions :
                 \/ ServeTimeout(b, p) \/ ServeToppar(b, p)
                 \/ PartitionLeave(b, p) \/ PartitionJoin(b, p)
      BY <3>2, <2>5, <2>6
    <3>3. QED
      BY <2>1, <3>1, <3>2
<1>2. \/ UNCHANGED rkm
      \/ \E b \in Brokers : PurgeQueues(b) \/ \E p \in Partitions : ServeTimeout(b, p)
  <2>1. CASE \/ PidFsm \/ PidUpdate \/ RequestPidFailed \/ Purge
             \/ \E p \in Partitions : \/ Produce(p) \/ Expire(p) \/ Delegate(p) \/ LeaderChange(p)
    BY <2>1, Zenon DEF PidFsm, PidUpdate, RequestPidFailed, Purge, Produce, Expire, Delegate,
       LeaderChange, toppar_vars
  <2>2. ASSUME NEW b \in Brokers, ServeBegin(b) \/ PurgeDrainDone(b) \/ ServeChecks(b)
        PROVE  UNCHANGED rkm
    BY <2>2, Zenon DEF ServeBegin, PurgeDrainDone, ServeChecks, toppar_vars
  <2>3. ASSUME NEW b \in Brokers,
               ProduceRequest(b) \/ PurgeOp(b) \/ CallDrainDone(b) \/ PartitionLeft(b)
        PROVE  UNCHANGED rkm
    BY <2>3, Zenon DEF ProduceRequest, PurgeOp, CallDrainDone, PartitionLeft, toppar_vars
  <2>4. ASSUME NEW b \in Brokers, NEW p \in Partitions,
               ServeToppar(b, p) \/ PartitionLeave(b, p) \/ PartitionJoin(b, p)
        PROVE  UNCHANGED rkm
    BY <2>4, Zenon DEF ServeToppar, PartitionLeave, PartitionJoin, toppar_vars
  <2>5. QED
    BY <2>1, <2>2, <2>3, <2>4
<1>3. SameStatus
  <2>1. CASE UNCHANGED rkm
    BY <2>1 DEF SameStatus
  <2>2. ASSUME NEW b \in Brokers, PurgeQueues(b) PROVE SameStatus
    <3>1. \A p \in Partitions :
            rkm'[p] = IF p \in Active(b) THEN DrQueued(p, msgq[p] \cup xmit_msgq[p])[p] ELSE rkm[p]
      BY <2>2 DEF PurgeQueues
    <3>2. ASSUME NEW p \in Partitions, NEW m \in MsgIds
          PROVE  rkm'[p][m].status = rkm[p][m].status
      <4>1. DrQueued(p, msgq[p] \cup xmit_msgq[p])[p][m].status = rkm[p][m].status
        BY DrQueuedStatus
      <4>2. QED
        BY <3>1, <4>1
    <3>3. QED
      BY <3>2 DEF SameStatus
  <2>3. ASSUME NEW b \in Brokers, NEW p \in Partitions, ServeTimeout(b, p) PROVE SameStatus
    <3>1. rkm' = DrQueued(p, Expired(p))
      BY <2>3 DEF ServeTimeout
    <3>2. QED
      BY <3>1, DrQueuedStatus DEF SameStatus
  <2>4. QED
    BY <1>2, <2>1, <2>2, <2>3
<1>4. QED
  BY <1>1, <1>3, QuietKnows DEF SameLogs

LEMMA ForgetKnows ==
  ASSUME TypeOK, KnownInv, NEW p \in Partitions, KafkaForget(p)
  PROVE  KnownInv'
<1>1. plog \in [Partitions -> Logs] /\ plog' = [plog EXCEPT ![p] = Forgotten(@)]
  BY DEF TypeOK, KafkaType, KafkaForget
<1>2. SameLogs
  BY <1>1 DEF SameLogs, Forgotten, Logs
<1>3. UNCHANGED <<stale, waitresps, up, hand, rkm>>
  BY DEF KafkaForget, toppar_vars, thread_vars, buf_vars
<1>4. QED
  BY <1>2, <1>3, QuietKnows DEF SameStatus

LEMMA HandleStartKnows ==
  ASSUME TypeOK, KnownInv, NEW b \in Brokers, HandleStart(b)
  PROVE  KnownInv'
<1>1. UNCHANGED <<plog, stale, waitresps, up, rkm>>
  BY DEF HandleStart, buf_vars, kafka_vars
<1>2. PICK ph \in {"last", "more"} : hand' = [hand EXCEPT ![b].phase = ph]
  BY DEF HandleStart
<1>3. hand[b].phase = "start" /\ hand \in [Brokers -> Hands \cup {NoHand}]
  BY DEF HandleStart, TypeOK, HandType
<1>4. hand[b] \in Hands
  BY <1>3 DEF NoHand
<1>5. /\ hand'[b].req = hand[b].req /\ hand'[b].err = hand[b].err
      /\ hand'[b].sent = hand[b].sent /\ hand'[b].phase = ph
  BY <1>2, <1>3, <1>4 DEF Hands
<1>6. \A d \in Brokers : d # b => hand'[d] = hand[d]
  BY <1>2, <1>3
<1>7. QED
  BY <1>1, <1>2, <1>3, <1>5, <1>6, QuietKnows DEF SameLogs, SameStatus

\* A broker other than b is as before.
LEMMA OneBrokerDoubts ==
  ASSUME NEW b \in Brokers, NEW p, NEW m,
         \A d \in Brokers \ {b} : /\ waitresps'[d] = waitresps[d] /\ up'[d] = up[d]
                                  /\ hand'[d] = hand[d],
         DoubtIn(waitresps[b], up[b], hand[b], p, m)
           => DoubtIn(waitresps'[b], up'[b], hand'[b], p, m) \/ Known(p, m)'
  PROVE  Unsettled(p, m) => Unsettled(p, m)' \/ Known(p, m)'
<1> SUFFICES ASSUME NEW d \in Brokers, DoubtIn(waitresps[d], up[d], hand[d], p, m)
             PROVE  Unsettled(p, m)' \/ Known(p, m)'
  BY DEF Unsettled
<1>1. CASE d = b
  BY <1>1 DEF Unsettled
<1>2. CASE d # b
  <2>1. waitresps'[d] = waitresps[d] /\ up'[d] = up[d] /\ hand'[d] = hand[d]
    BY <1>2
  <2>2. DoubtIn(waitresps'[d], up'[d], hand'[d], p, m)
    BY <2>1
  <2>3. QED
    BY <2>2 DEF Unsettled
<1>3. QED
  BY <1>1, <1>2

\* A step of broker b's thread that leaves the log, the stale requests and
\* the status of every message alone.
LEMMA ThreadKnows ==
  ASSUME KnownInv, NEW b \in Brokers, UNCHANGED <<plog, stale, rkm>>,
         \A d \in Brokers \ {b} : /\ waitresps'[d] = waitresps[d] /\ up'[d] = up[d]
                                  /\ hand'[d] = hand[d],
         \A p \in Partitions, m \in MsgIds :
           DoubtIn(waitresps[b], up[b], hand[b], p, m)
             => DoubtIn(waitresps'[b], up'[b], hand'[b], p, m)
  PROVE  KnownInv'
<1>1. ASSUME NEW p \in Partitions, NEW m \in MsgIds
      PROVE  /\ MayBeWritten(p, m)' => MayBeWritten(p, m) \/ Unsettled(p, m)'
             /\ Unsettled(p, m) => Unsettled(p, m)' \/ Known(p, m)'
             /\ Known(p, m) => Known(p, m)'
  <2>1. MayBeWritten(p, m)' => MayBeWritten(p, m)
    BY DEF MayBeWritten, Written
  <2>2. Unsettled(p, m) => Unsettled(p, m)' \/ Known(p, m)'
    BY OneBrokerDoubts
  <2>3. Known(p, m) => Known(p, m)'
    BY DEF Known
  <2>4. QED
    BY <2>1, <2>2, <2>3
<1>2. KnowsMore
  BY <1>1 DEF KnowsMore
<1>3. QED
  BY <1>2, KnowsStep

\* The request taken from the sent ones is in hand with a result that says no
\* less.
LEMMA TakeDoubts ==
  ASSUME NEW w, NEW w2, NEW i, NEW e, TakenOut(w, w2, i, e), NEW u, NEW h, NEW h2,
         h.phase = "none", h2.phase = "start", h2.req = e, h2.sent,
         e.resp \in Doubt \/ ~u => h2.err \in Doubt,
         NEW p, NEW m, DoubtIn(w, u, h, p, m)
  PROVE  DoubtIn(w2, u, h2, p, m)
<1>1. PICK j \in DOMAIN w : Match(w[j], p, m) /\ (w[j].resp \in Doubt \/ ~u)
  BY DEF DoubtIn
<1>2. CASE j = i
  <2>1. w[j] = e
    BY <1>2 DEF TakenOut
  <2>2. QED
    BY <1>1, <2>1 DEF DoubtIn
<1>3. CASE j # i
  <2> DEFINE k == IF j < i THEN j ELSE j - 1
  <2>1. k \in DOMAIN w2 /\ w2[k] = w[j]
    BY <1>3 DEF TakenOut
  <2>2. QED
    BY <1>1, <2>1 DEF DoubtIn
<1>4. QED
  BY <1>2, <1>3

LEMMA TransmitKnows ==
  ASSUME TypeOK, KnownInv, NEW b \in Brokers, Transmit(b)
  PROVE  KnownInv'
<1>1. /\ outbufs \in [Brokers -> Seq(Requests)] /\ waitresps \in [Brokers -> Seq(Requests)]
      /\ outbufs[b] # <<>>
  BY DEF TypeOK, BufType, Transmit
<1>2. /\ waitresps' = [waitresps EXCEPT ![b] = Append(waitresps[b], Head(outbufs[b]))]
      /\ UNCHANGED <<hand, up, plog, stale, rkm>>
  BY DEF Transmit, toppar_vars, thread_vars, kafka_vars
<1>3. Head(outbufs[b]) \in Requests
  BY <1>1, HeadTailProperties
<1>4. TakenOut(waitresps'[b], waitresps[b], Len(waitresps[b]) + 1, Head(outbufs[b]))
  BY <1>1, <1>2, <1>3, AppendTaken
<1>5. ASSUME NEW p \in Partitions, NEW m \in MsgIds,
             DoubtIn(waitresps[b], up[b], hand[b], p, m)
      PROVE  DoubtIn(waitresps'[b], up'[b], hand'[b], p, m)
  <2> DEFINE w == waitresps[b]
             v == waitresps'[b]
  <2>1. Len(w) \in Nat /\ DOMAIN w = 1 .. Len(w)
    BY <1>1, LenProperties
  <2>2. \A j \in DOMAIN w : j \in DOMAIN v /\ v[j] = w[j]
    <3>1. /\ Append(w, Head(outbufs[b])) \in Seq(Requests)
          /\ Len(Append(w, Head(outbufs[b]))) = Len(w) + 1
          /\ \A j \in 1 .. Len(w) : Append(w, Head(outbufs[b]))[j] = w[j]
      BY <1>1, <1>3, AppendProperties
    <3>2. v = Append(w, Head(outbufs[b]))
      BY <1>1, <1>2
    <3>3. DOMAIN v = 1 .. (Len(w) + 1)
      BY <3>1, <3>2, LenProperties
    <3> HIDE DEF v, w
    <3>4. QED
      BY <2>1, <3>1, <3>2, <3>3
  <2>3. DoubtIn(w, up[b], hand[b], p, m)
    BY <1>5
  <2> HIDE DEF v, w
  <2>4. DoubtIn(v, up[b], hand[b], p, m)
    BY <2>2, <2>3 DEF DoubtIn
  <2>5. QED
    BY <1>2, <2>4 DEF v
<1>6. \A d \in Brokers \ {b} : /\ waitresps'[d] = waitresps[d] /\ up'[d] = up[d]
                               /\ hand'[d] = hand[d]
  BY <1>1, <1>2
<1>7. QED
  BY <1>2, <1>5, <1>6, ThreadKnows

LEMMA ReconnectKnows ==
  ASSUME TypeOK, KnownInv, LostInv, NEW b \in Brokers, Reconnect(b)
  PROVE  KnownInv'
<1>1. /\ UNCHANGED <<plog, stale, rkm, waitresps, hand>> /\ up' = [up EXCEPT ![b] = TRUE]
      /\ ~up[b] /\ th[b].pc = "idle" /\ hand[b].phase = "none"
  BY DEF Reconnect, toppar_vars, thread_vars, kafka_vars, Idle, Free
<1>2. waitresps[b] = <<>>
  BY <1>1 DEF LostInv
<1>3. \A p \in Partitions, m \in MsgIds : ~DoubtIn(waitresps[b], up[b], hand[b], p, m)
  BY <1>1, <1>2 DEF DoubtIn
<1>4. up \in [Brokers -> BOOLEAN]
  BY DEF TypeOK, BufType
<1>5. QED
  BY <1>1, <1>3, <1>4, ThreadKnows

LEMMA TakingKnows ==
  ASSUME TypeOK, KnownInv, LostInv, NEW b \in Brokers,
         RecvResponse(b) \/ FailNext(b) \/ PurgeNext(b)
  PROVE  KnownInv'
<1>1. /\ waitresps \in [Brokers -> Seq(Requests)] /\ waitresps[b] \in Seq(Requests)
      /\ hand \in [Brokers -> Hands \cup {NoHand}]
  BY DEF TypeOK, BufType, HandType
<1>2. UNCHANGED <<plog, stale, rkm, up>> /\ hand[b].phase = "none"
  <2>1. UNCHANGED <<plog, stale, rkm, up>>
    BY Zenon DEF RecvResponse, FailNext, PurgeNext, toppar_vars, kafka_vars
  <2>2. hand[b].phase = "none"
    BY DEF RecvResponse, FailNext, PurgeNext, Idle, Free
  <2>3. QED
    BY <2>1, <2>2
<1>3. ASSUME waitresps[b] # <<>>,
             waitresps' = [waitresps EXCEPT ![b] = Tail(waitresps[b])],
             NEW e, Head(waitresps[b]).resp \in Doubt \/ ~up[b] => e \in Doubt,
             hand' = [hand EXCEPT ![b] = [phase |-> "start", req |-> Head(waitresps[b]),
                                          err |-> e, sent |-> TRUE]]
      PROVE  KnownInv'
  <2> DEFINE h == [phase |-> "start", req |-> Head(waitresps[b]), err |-> e, sent |-> TRUE]
             x == Head(waitresps[b])
             w == Tail(waitresps[b])
  <2>1. TakenOut(waitresps[b], w, 1, x)
    BY <1>1, <1>3, TailTaken
  <2>2. /\ h.phase = "start" /\ h.req = x /\ h.sent /\ hand'[b] = h /\ h.err = e
        /\ waitresps'[b] = w
    BY <1>1, <1>3
  <2>3. x.resp \in Doubt \/ ~up[b] => h.err \in Doubt
    BY <1>3
  <2> HIDE DEF h, x, w
  <2>4. \A p \in Partitions, m \in MsgIds :
          DoubtIn(waitresps[b], up[b], hand[b], p, m) => DoubtIn(w, up[b], h, p, m)
    BY <1>2, <2>1, <2>2, <2>3, TakeDoubts
  <2>5. \A p \in Partitions, m \in MsgIds :
          DoubtIn(waitresps[b], up[b], hand[b], p, m)
            => DoubtIn(waitresps'[b], up'[b], hand'[b], p, m)
    BY <1>2, <2>2, <2>4
  <2>6. \A d \in Brokers \ {b} : /\ waitresps'[d] = waitresps[d] /\ up'[d] = up[d]
                                 /\ hand'[d] = hand[d]
    BY <1>1, <1>2, <1>3
  <2>7. QED
    BY <1>2, <2>5, <2>6, ThreadKnows
<1>4. ASSUME waitresps' = waitresps, NEW h, hand' = [hand EXCEPT ![b] = h]
      PROVE  KnownInv'
  <2>1. \A p \in Partitions, m \in MsgIds :
          DoubtIn(waitresps[b], up[b], hand[b], p, m)
            => DoubtIn(waitresps'[b], up'[b], hand'[b], p, m)
    BY <1>2, <1>4 DEF DoubtIn
  <2>2. \A d \in Brokers \ {b} : /\ waitresps'[d] = waitresps[d] /\ up'[d] = up[d]
                                 /\ hand'[d] = hand[d]
    BY <1>1, <1>2, <1>4
  <2>3. QED
    BY <1>2, <2>1, <2>2, ThreadKnows
<1>5. CASE RecvResponse(b)
  BY <1>3, <1>5 DEF RecvResponse
<1>6. CASE PurgeNext(b)
  BY <1>4, <1>6 DEF PurgeNext
<1>7. CASE FailNext(b)
  <2>1. CASE waitresps[b] # <<>>
    BY <1>3, <1>7, <2>1 DEF FailNext, Doubt
  <2>2. CASE waitresps[b] = <<>> /\ outbufs[b] # <<>>
    BY <1>4, <1>7, <2>2 DEF FailNext
  <2>3. CASE waitresps[b] = <<>> /\ outbufs[b] = <<>>
    <3>1. UNCHANGED <<hand, waitresps>>
      BY <1>7, <2>3 DEF FailNext
    <3>2. QED
      BY <1>2, <3>1, QuietKnows DEF SameLogs, SameStatus
  <2>4. QED
    BY <2>1, <2>2, <2>3
<1>8. QED
  BY <1>5, <1>6, <1>7

\* What may be written after a connection is lost was in a sent request.
LEMMA BrokerFailKnows ==
  ASSUME TypeOK, KnownInv, NEW b \in Brokers, BrokerFail(b)
  PROVE  KnownInv'
<1> DEFINE answered ==
      Cardinality({i \in DOMAIN waitresps[b] : waitresps[b][i].resp # NoReply})
           lo == answered + 1
           w == waitresps[b]
           z == SubSeq(w, lo, Len(w))
<1>1. w \in Seq(Requests) /\ stale[b] \in Seq(Requests) /\ stale \in [Brokers -> Seq(Requests)]
  BY DEF TypeOK, BufType, KafkaType
<1>2. Len(w) \in Nat /\ DOMAIN w = 1 .. Len(w) /\ \A j \in 1 .. Len(w) : w[j] \in Requests
  BY <1>1, LenProperties, ElementOfSeq
<1>3. lo \in Nat /\ lo >= 1
  <2>1. {i \in DOMAIN waitresps[b] : waitresps[b][i].resp # NoReply} \subseteq 0 .. Len(w)
    BY <1>2
  <2>2. QED
    BY <1>2, <2>1, BoundedFinite
<1>4. /\ stale' = [stale EXCEPT ![b] = stale[b] \o z] /\ up' = [up EXCEPT ![b] = FALSE]
      /\ UNCHANGED <<plog, waitresps, hand, rkm>>
  BY DEF BrokerFail, toppar_vars
<1> HIDE DEF answered, lo
<1>5. /\ z \in Seq(Requests) /\ Len(z) \in Nat
      /\ \A j \in 1 .. Len(z) : \E i \in DOMAIN w : z[j] = w[i]
  <2>1. lo \in Int /\ Len(w) \in Int /\ \A j \in lo .. Len(w) : w[j] \in Requests
    BY <1>2, <1>3
  <2> HIDE DEF w
  <2>2. /\ z \in Seq(Requests)
        /\ Len(z) = IF lo <= Len(w) THEN Len(w) - lo + 1 ELSE 0
        /\ \A j \in 1 .. Len(w) - lo + 1 : z[j] = w[lo + j - 1]
    BY <2>1, SubSeqProperties
  <2> HIDE DEF z
  <2>3. ASSUME NEW j \in 1 .. Len(z) PROVE \E i \in DOMAIN w : z[j] = w[i]
    <3>1. /\ j \in 1 .. Len(w) - lo + 1 /\ lo + j - 1 \in DOMAIN w
      BY <1>2, <1>3, <2>2, <2>3
    <3>2. z[j] = w[lo + j - 1]
      BY <2>2, <3>1
    <3>3. QED
      BY <3>1, <3>2
  <2>4. QED
    BY <2>2, <2>3, LenProperties
<1>6. ASSUME NEW p \in Partitions, NEW m \in MsgIds, Has(stale[b] \o z, p, m)
      PROVE  Has(stale[b], p, m) \/ Has(w, p, m)
  <2> DEFINE s == stale[b]
             y == s \o z
  <2>1. /\ y \in Seq(Requests) /\ Len(y) = Len(s) + Len(z)
        /\ \A j \in 1 .. Len(s) + Len(z) : y[j] = IF j <= Len(s) THEN s[j] ELSE z[j - Len(s)]
    BY <1>1, <1>5, ConcatProperties
  <2>2. PICK j \in DOMAIN y : Match(y[j], p, m)
    BY <1>6 DEF Has
  <2>3. DOMAIN y = 1 .. Len(y) /\ Len(s) \in Nat /\ DOMAIN s = 1 .. Len(s)
    BY <1>1, <2>1, LenProperties
  <2> HIDE DEF y, s, z, w
  <2>4. CASE j <= Len(s)
    <3>1. j \in DOMAIN s /\ y[j] = s[j]
      BY <1>5, <2>1, <2>3, <2>4
    <3>2. QED
      BY <2>2, <3>1 DEF Has, s
  <2>5. CASE ~(j <= Len(s))
    <3>1. j - Len(s) \in 1 .. Len(z) /\ y[j] = z[j - Len(s)]
      BY <1>5, <2>1, <2>3, <2>5
    <3>2. PICK i \in DOMAIN w : z[j - Len(s)] = w[i]
      BY <1>5, <3>1
    <3>3. QED
      BY <2>2, <3>1, <3>2 DEF Has
  <2>6. QED
    BY <2>4, <2>5
<1>7. up'[b] = FALSE /\ \A d \in Brokers : d # b => up'[d] = up[d] /\ stale'[d] = stale[d]
  BY <1>1, <1>4 DEF TypeOK, BufType
<1>8. stale'[b] = stale[b] \o z
  BY <1>1, <1>4
<1> HIDE DEF z
<1>9. ASSUME NEW p \in Partitions, NEW m \in MsgIds
      PROVE  /\ MayBeWritten(p, m)' => MayBeWritten(p, m) \/ Unsettled(p, m)'
             /\ Unsettled(p, m) => Unsettled(p, m)' \/ Known(p, m)'
             /\ Known(p, m) => Known(p, m)'
  <2>1. Written(p)' = Written(p)
    BY <1>4 DEF Written
  <2>2. Has(w, p, m) => Unsettled(p, m)'
    <3>1. Has(w, p, m) => DoubtIn(waitresps'[b], up'[b], hand'[b], p, m)
      BY <1>4, <1>7 DEF Has, DoubtIn
    <3>2. QED
      BY <3>1 DEF Unsettled
  <2>3. MayBeWritten(p, m)' => MayBeWritten(p, m) \/ Unsettled(p, m)'
    <3>1. CASE m \in Written(p)'
      BY <2>1, <3>1 DEF MayBeWritten
    <3>2. ASSUME NEW d \in Brokers, Has(stale[d], p, m)'
          PROVE  MayBeWritten(p, m) \/ Unsettled(p, m)'
      BY <1>6, <1>7, <1>8, <2>2, <3>2 DEF MayBeWritten
    <3>3. QED
      BY <3>1, <3>2 DEF MayBeWritten
  <2>4. Unsettled(p, m) => Unsettled(p, m)' \/ Known(p, m)'
    <3>1. DoubtIn(waitresps[b], up[b], hand[b], p, m)
            => DoubtIn(waitresps'[b], up'[b], hand'[b], p, m)
      BY <1>4, <1>7 DEF DoubtIn
    <3>2. QED
      BY <1>4, <1>7, <3>1, OneBrokerDoubts
  <2>5. Known(p, m) => Known(p, m)'
    BY <1>4 DEF Known
  <2>6. QED
    BY <2>3, <2>4, <2>5
<1>10. QED
  BY <1>9, KnowsStep DEF KnowsMore

\* The request in the hands of broker b's thread has been handled: its
\* messages are known as possibly written if its result said so.
LEMMA HandledKnows ==
  ASSUME TypeOK, KnownInv, NEW b \in Brokers, hand[b].phase # "none",
         hand' = [hand EXCEPT ![b] = NoHand],
         UNCHANGED <<waitresps, up, plog, stale>>,
         \A p \in Partitions, m \in MsgIds : Known(p, m) => Known(p, m)',
         hand[b].sent /\ hand[b].err \in Doubt =>
           \A p \in Partitions, m \in MsgIds : Match(hand[b].req, p, m) => Known(p, m)'
  PROVE  KnownInv'
<1>1. \A d \in Brokers : d # b => hand'[d] = hand[d]
  BY DEF TypeOK, HandType
<1>2. ASSUME NEW p \in Partitions, NEW m \in MsgIds
      PROVE  /\ MayBeWritten(p, m)' => MayBeWritten(p, m) \/ Unsettled(p, m)'
             /\ Unsettled(p, m) => Unsettled(p, m)' \/ Known(p, m)'
  <2>1. DoubtIn(waitresps[b], up[b], hand[b], p, m)
          => DoubtIn(waitresps'[b], up'[b], hand'[b], p, m) \/ Known(p, m)'
    BY DEF DoubtIn
  <2>2. Unsettled(p, m) => Unsettled(p, m)' \/ Known(p, m)'
    BY <1>1, <2>1, OneBrokerDoubts
  <2>3. QED
    BY <2>2 DEF MayBeWritten, Written
<1>3. QED
  BY <1>2, KnowsStep DEF KnowsMore

LEMMA HandleSuccessKnows ==
  ASSUME TypeOK, KnownInv, NEW b \in Brokers, HandleSuccess(b)
  PROVE  KnownInv'
<1> DEFINE r == hand[b].req
           p == r.tp
           A == IF eos[p].acked_msgid < Min(r.msgs) - 1 THEN ImplicitAck(p, Max(r.msgs)) ELSE {}
           T == r.msgs \cup A
<1>1. /\ hand[b].phase # "none" /\ hand' = [hand EXCEPT ![b] = NoHand]
      /\ UNCHANGED <<waitresps, up, plog, stale>>
  BY DEF HandleSuccess, HandlerEnd, buf_vars, kafka_vars
<1>2. p \in Partitions /\ r.msgs \subseteq MsgIds
  BY <1>1, HandInUse DEF TypeOK
<1>3. rkm' = [rkm EXCEPT ![p] = [m \in MsgIds |->
        IF m \in T THEN [rkm[p][m] EXCEPT !.status = "PERSISTED", !.dr = "ok"] ELSE rkm[p][m]]]
  BY DEF HandleSuccess
<1>4. rkm \in [Partitions -> [MsgIds -> Messages]]
  BY DEF TypeOK, MsgType
<1>5. r.msgs \subseteq T
  OBVIOUS
<1> HIDE DEF T, A, p
<1>6. ASSUME NEW n \in MsgIds
      PROVE  rkm'[p][n].status = IF n \in T THEN "PERSISTED" ELSE rkm[p][n].status
  <2>1. rkm'[p][n] = IF n \in T THEN [rkm[p][n] EXCEPT !.status = "PERSISTED", !.dr = "ok"]
                     ELSE rkm[p][n]
    BY <1>2, <1>3, <1>4
  <2>2. rkm[p][n] \in Messages
    BY <1>2, <1>4
  <2>3. QED
    BY <2>1, <2>2 DEF Messages
<1>7. \A q \in Partitions : q # p => rkm'[q] = rkm[q]
  BY <1>3, <1>4
<1>8. \A q \in Partitions, m \in MsgIds : Known(q, m) => Known(q, m)'
  BY <1>6, <1>7 DEF Known
<1>9. \A q \in Partitions, m \in MsgIds : Match(r, q, m) => Known(q, m)'
  BY <1>5, <1>6 DEF Known, Match, p
<1>10. QED
  BY <1>1, <1>8, <1>9, HandledKnows

\* After a result that leaves doubt the handler has the messages down as
\* possibly persisted, and a retry counts.
LEMMA DoubtfulError ==
  ASSUME NEW r, NEW e \in Doubt \ {"OK"}, NEW t, NEW retries
  PROVE  LET a == IdempotentProduceError(r, e, t, retries)
         IN a.status # "NOT_PERSISTED" /\ (a.retry => a.incr = 1)
<1> DEFINE a == ErrAction(e)
           permanent == [a EXCEPT !.retry = FALSE, !.status = "POSSIBLY_PERSISTED"]
           dup == [a EXCEPT !.ok = TRUE, !.status = "PERSISTED"]
<1>1. a \in ErrActions
  BY ErrActionType
<1>2. CASE e = "DUPLICATE_SEQUENCE_NUMBER"
  <2>1. a.retry = FALSE
    BY <1>2, Zenon DEF ErrAction
  <2>2. IdempotentProduceError(r, e, t, retries) \in {permanent, dup}
    BY <1>2, Zenon DEF IdempotentProduceError
  <2> HIDE DEF a
  <2>3. QED
    BY <1>1, <2>1, <2>2 DEF ErrActions
<1>3. CASE e \in {"_TRANSPORT", "NOT_ENOUGH_REPLICAS_AFTER_APPEND"}
  <2>1. a = [retry |-> TRUE, incr |-> 1, status |-> "POSSIBLY_PERSISTED", fatal |-> FALSE,
             bump |-> FALSE, ok |-> FALSE]
    BY <1>3, Zenon DEF ErrAction
  <2>2. IdempotentProduceError(r, e, t, retries) \in {permanent, a}
    BY <1>3 DEF IdempotentProduceError
  <2>3. a.retry = TRUE /\ a.incr = 1 /\ a.status = "POSSIBLY_PERSISTED"
    BY <2>1
  <2> HIDE DEF a
  <2>4. permanent.retry = FALSE /\ permanent.status = "POSSIBLY_PERSISTED"
    BY <1>1 DEF ErrActions
  <2> HIDE DEF permanent
  <2>5. QED
    BY <2>2, <2>3, <2>4
<1>4. QED
  BY <1>2, <1>3 DEF Doubt

LEMMA HandleErrorKnows ==
  ASSUME TypeOK, KnownInv, NEW b \in Brokers, HandleError(b)
  PROVE  KnownInv'
<1> DEFINE r == hand[b].req
           p == r.tp
           a0 == IdempotentProduceError(r, hand[b].err, eos[p], rkm[p][Min(r.msgs)].retries)
           incr == IF hand[b].sent THEN a0.incr ELSE 0
           status == IF a0.retry /\ incr = 0 THEN "NOT_PERSISTED" ELSE a0.status
<1>1. /\ hand[b].phase # "none" /\ hand' = [hand EXCEPT ![b] = NoHand] /\ hand[b].err # "OK"
      /\ UNCHANGED <<waitresps, up, plog, stale>>
  BY DEF HandleError, HandlerEnd, buf_vars, kafka_vars
<1>2. p \in Partitions /\ r.msgs \subseteq MsgIds
  BY <1>1, HandInUse DEF TypeOK
<1>3. \A n \in MsgIds :
        rkm'[p][n].status = IF n \notin r.msgs THEN rkm[p][n].status
                            ELSE NewStatus(rkm[p][n].status, status)
  BY <1>2 DEF HandleError, TypeOK, MsgType
<1>4. \A q \in Partitions : q # p => rkm'[q] = rkm[q]
  BY DEF HandleError, TypeOK, MsgType
<1>5. hand[b].sent /\ hand[b].err \in Doubt => status # "NOT_PERSISTED"
  <2> SUFFICES ASSUME hand[b].sent, hand[b].err \in Doubt PROVE status # "NOT_PERSISTED"
    OBVIOUS
  <2>1. hand[b].err \in Doubt \ {"OK"}
    BY <1>1
  <2>2. a0.status # "NOT_PERSISTED" /\ (a0.retry => a0.incr = 1)
    BY <2>1, DoubtfulError
  <2> HIDE DEF a0
  <2>3. QED
    BY <2>2
<1> HIDE DEF status, a0, p
<1>6. \A q \in Partitions, m \in MsgIds : Known(q, m) => Known(q, m)'
  BY <1>3, <1>4 DEF Known, NewStatus
<1>7. ASSUME hand[b].sent, hand[b].err \in Doubt, NEW q \in Partitions, NEW m \in MsgIds,
             Match(r, q, m)
      PROVE  Known(q, m)'
  BY <1>3, <1>5, <1>7 DEF Known, Match, p, NewStatus
<1>8. QED
  BY <1>1, <1>6, <1>7, HandledKnows

LEMMA RepliesAppend ==
  ASSUME NEW k, NEW r, NEW y \in Replies(k, r)
  PROVE  y.k = k \/ (y.k = Appended(k, r) /\ y.resp = "OK")
<1>1. \/ \E e : y = [resp |-> e, k |-> k]
      \/ y = [resp |-> "OK", k |-> Appended(k, r)]
  BY Zenon DEF Replies
<1>2. ASSUME NEW e, y = [resp |-> e, k |-> k] PROVE y.k = k
  BY <1>2
<1>3. ASSUME y = [resp |-> "OK", k |-> Appended(k, r)]
      PROVE  y.k = Appended(k, r) /\ y.resp = "OK"
  BY <1>3
<1>4. QED
  BY <1>1, <1>2, <1>3, Zenon

\* The cluster writes the messages of the request it handles, and then says so.
LEMMA RepliesWrite ==
  ASSUME KafkaType, NEW b \in Brokers, NEW r \in Requests, NEW x \in KafkaReplies(b, r),
         NEW i \in DOMAIN x.k.log
  PROVE  \/ \E j \in DOMAIN plog[r.tp].log : plog[r.tp].log[j].id = x.k.log[i].id
         \/ x.k.log[i].id \in r.msgs /\ x.resp \in {"OK", "NOT_ENOUGH_REPLICAS_AFTER_APPEND"}
<1> DEFINE k == plog[r.tp]
           ids == InOrder(r.msgs)
           recs == [n \in 1 .. Len(ids) |-> [id |-> ids[n], epoch |-> r.pid]]
<1>1. r.tp \in Partitions /\ r.msgs \in SUBSET MsgIds /\ r.pid \in Int
  BY DEF Requests
<1>2. k \in Logs /\ k.log \in Seq(Records)
  BY <1>1 DEF KafkaType, Logs
<1>3. Appended(k, r).log = k.log \o recs
  BY DEF Appended
<1>4. \/ x.k = k
      \/ x.k = Appended(k, r) /\ x.resp \in {"OK", "NOT_ENOUGH_REPLICAS_AFTER_APPEND"}
  <2>1. \A y \in Replies(k, r) : y.k = k \/ (y.k = Appended(k, r) /\ y.resp = "OK")
    BY RepliesAppend
  <2>2. \/ x.k = k
        \/ \E y \in Replies(k, r) : x.k = y.k /\ x.resp = y.resp
        \/ \E y \in Replies(k, r) : /\ x.k = y.k /\ y.resp = "OK"
                                   /\ x.resp = "NOT_ENOUGH_REPLICAS_AFTER_APPEND"
    BY DEF KafkaReplies
  <2> HIDE DEF k
  <2>3. QED
    BY <2>1, <2>2
<1>5. CASE x.k = k
  BY <1>5
<1>6. CASE x.k = Appended(k, r) /\ x.resp \in {"OK", "NOT_ENOUGH_REPLICAS_AFTER_APPEND"}
  <2>1. ids \in Seq(MsgIds) /\ Len(ids) = Cardinality(r.msgs) /\ Len(ids) \in Nat
        /\ \A n \in 1 .. Len(ids) : ids[n] \in r.msgs /\ ids[n] \in MsgIds
    <3> DEFINE c(n) == CHOOSE m \in r.msgs : Cardinality({o \in r.msgs : o < m}) = n - 1
    <3>1. r.msgs \subseteq 0 .. MaxMsgs /\ MaxMsgs \in Nat /\ Cardinality(r.msgs) \in Nat
      BY <1>1, ConstantTypes, MsgSetType
    <3>2. ASSUME NEW n \in 1 .. Cardinality(r.msgs) PROVE c(n) \in r.msgs
      <4>1. \E m \in r.msgs : Cardinality({o \in r.msgs : o < m}) = n - 1
        BY <3>1, RankExists
      <4>2. QED
        BY <4>1
    <3>3. ids = [n \in 1 .. Cardinality(r.msgs) |-> c(n)]
      BY DEF InOrder
    <3> HIDE DEF c
    <3>4. ids \in Seq(MsgIds)
      BY <1>1, InOrderType
    <3>5. DOMAIN ids = 1 .. Len(ids) /\ Len(ids) \in Nat
      BY <3>4, LenProperties
    <3>6. DOMAIN ids = 1 .. Cardinality(r.msgs)
      BY <3>3
    <3> HIDE DEF ids
    <3>7. Len(ids) = Cardinality(r.msgs)
      BY <3>1, <3>5, <3>6
    <3>8. \A n \in 1 .. Len(ids) : ids[n] \in r.msgs
      BY <3>2, <3>3, <3>7
    <3>9. QED
      BY <1>1, <3>4, <3>5, <3>7, <3>8
  <2> HIDE DEF ids
  <2>2. recs \in Seq(Records) /\ Len(recs) = Len(ids)
    <3>1. \A n \in 1 .. Len(ids) : [id |-> ids[n], epoch |-> r.pid] \in Records
      BY <1>1, <2>1 DEF Records
    <3>2. recs \in [1 .. Len(ids) -> Records]
      BY <3>1
    <3>3. QED
      BY <2>1, <3>2, SeqDef
  <2>3. \A n \in 1 .. Len(ids) : recs[n].id = ids[n]
    OBVIOUS
  <2> DEFINE g == k.log
             z == g \o recs
  <2> HIDE DEF recs
  <2>4. /\ z \in Seq(Records) /\ Len(z) = Len(g) + Len(recs)
        /\ \A n \in 1 .. Len(g) + Len(recs) : z[n] = IF n <= Len(g) THEN g[n] ELSE recs[n - Len(g)]
    BY <1>2, <2>2, ConcatProperties
  <2>5. DOMAIN z = 1 .. Len(z) /\ DOMAIN g = 1 .. Len(g) /\ Len(g) \in Nat
    BY <1>2, <2>4, LenProperties
  <2>6. x.k.log = z
    BY <1>3, <1>6
  <2> HIDE DEF z, g
  <2>7. i \in 1 .. Len(g) + Len(recs)
    BY <2>4, <2>5, <2>6
  <2>8. CASE i <= Len(g)
    <3>1. i \in DOMAIN g /\ z[i] = g[i]
      BY <2>4, <2>5, <2>7, <2>8
    <3>2. QED
      BY <2>6, <3>1 DEF g
  <2>9. CASE ~(i <= Len(g))
    <3>1. i - Len(g) \in 1 .. Len(ids) /\ z[i] = recs[i - Len(g)]
      BY <2>1, <2>2, <2>4, <2>5, <2>7, <2>9
    <3>2. z[i].id \in r.msgs
      BY <2>1, <2>3, <3>1
    <3>3. QED
      BY <1>6, <2>6, <3>2
  <2>10. QED
    BY <2>8, <2>9
<1>7. QED
  BY <1>4, <1>5, <1>6

LEMMA LogWritten ==
  ASSUME TypeOK, NEW b \in Brokers, NEW r \in Requests, NEW x \in KafkaReplies(b, r),
         plog' = [plog EXCEPT ![r.tp] = x.k], NEW p \in Partitions, NEW m \in Written(p)'
  PROVE  \/ m \in Written(p)
         \/ Match(r, p, m) /\ x.resp \in {"OK", "NOT_ENOUGH_REPLICAS_AFTER_APPEND"}
<1>1. plog \in [Partitions -> Logs] /\ r.tp \in Partitions /\ KafkaType
  BY DEF TypeOK, KafkaType, Requests
<1>2. PICK i \in DOMAIN plog'[p].log : m = plog'[p].log[i].id
  BY DEF Written
<1>3. CASE p # r.tp
  <2>1. plog'[p] = plog[p]
    BY <1>1, <1>3
  <2>2. QED
    BY <1>2, <2>1 DEF Written
<1>4. CASE p = r.tp
  <2>1. plog'[p] = x.k
    BY <1>1, <1>4
  <2>2. i \in DOMAIN x.k.log /\ m = x.k.log[i].id
    BY <1>2, <2>1
  <2>3. \/ \E j \in DOMAIN plog[r.tp].log : plog[r.tp].log[j].id = x.k.log[i].id
        \/ x.k.log[i].id \in r.msgs /\ x.resp \in {"OK", "NOT_ENOUGH_REPLICAS_AFTER_APPEND"}
    BY <1>1, <2>2, RepliesWrite
  <2>4. QED
    BY <1>4, <2>2, <2>3 DEF Written, Match
<1>5. QED
  BY <1>3, <1>4

LEMMA KafkaHandleKnows ==
  ASSUME TypeOK, KnownInv, NEW b \in Brokers, KafkaHandle(b)
  PROVE  KnownInv'
<1> DEFINE w == waitresps[b]
           unanswered == {i \in DOMAIN w : w[i].resp = NoReply}
           i == Min(unanswered)
           r == w[i]
<1>1. w \in Seq(Requests) /\ waitresps \in [Brokers -> Seq(Requests)]
  BY DEF TypeOK, BufType
<1>2. i \in DOMAIN w /\ r \in Requests /\ r.resp = NoReply
  <2>1. DOMAIN w = 1 .. Len(w) /\ DOMAIN w \subseteq Nat
    BY <1>1, LenProperties
  <2>2. unanswered \subseteq DOMAIN w /\ unanswered # {}
    BY DEF KafkaHandle
  <2>3. i \in unanswered
    BY <2>1, <2>2, MinIn
  <2>4. QED
    BY <1>1, <2>1, <2>2, <2>3, ElementOfSeq
<1>3. PICK x \in KafkaReplies(b, r) :
        /\ plog' = [plog EXCEPT ![r.tp] = x.k]
        /\ waitresps' = [waitresps EXCEPT ![b] = [w EXCEPT ![i] = [r EXCEPT !.resp = x.resp]]]
  BY DEF KafkaHandle
<1>4. up[b] /\ UNCHANGED <<hand, up, rkm, stale>>
  BY DEF KafkaHandle, thread_vars, toppar_vars
<1> DEFINE v == [w EXCEPT ![i] = [r EXCEPT !.resp = x.resp]]
<1> HIDE DEF w, i, r
<1>5. /\ DOMAIN v = DOMAIN w /\ v[i].tp = r.tp /\ v[i].msgs = r.msgs /\ v[i].resp = x.resp
      /\ \A j \in DOMAIN w : j # i => v[j] = w[j]
  BY <1>1, <1>2 DEF Requests
<1> HIDE DEF v
<1>6. waitresps'[b] = v /\ \A d \in Brokers \ {b} : waitresps'[d] = waitresps[d]
  BY <1>1, <1>3 DEF v
<1>7. ASSUME NEW p \in Partitions, NEW m \in MsgIds
      PROVE  /\ MayBeWritten(p, m)' => MayBeWritten(p, m) \/ Unsettled(p, m)'
             /\ Unsettled(p, m) => Unsettled(p, m)' \/ Known(p, m)'
             /\ Known(p, m) => Known(p, m)'
  <2>1. ASSUME m \in Written(p)', m \notin Written(p) PROVE Unsettled(p, m)'
    <3>1. Match(r, p, m) /\ x.resp \in Doubt
      BY <1>2, <1>3, <2>1, LogWritten DEF Doubt
    <3>2. Match(v[i], p, m) /\ v[i].resp \in Doubt /\ i \in DOMAIN v
      BY <1>2, <1>5, <3>1 DEF Match
    <3>3. DoubtIn(v, up'[b], hand'[b], p, m)
      BY <3>2 DEF DoubtIn
    <3>4. QED
      BY <1>6, <3>3 DEF Unsettled
  <2>2. MayBeWritten(p, m)' => MayBeWritten(p, m) \/ Unsettled(p, m)'
    BY <1>4, <2>1 DEF MayBeWritten
  <2>3. DoubtIn(w, up[b], hand[b], p, m) => DoubtIn(v, up'[b], hand'[b], p, m)
    <3>1. NoReply \notin Doubt
      BY DEF NoReply, Doubt
    <3>2. QED
      BY <1>2, <1>4, <1>5, <3>1 DEF DoubtIn, r
  <2>4. Unsettled(p, m) => Unsettled(p, m)' \/ Known(p, m)'
    BY <1>4, <1>6, <2>3, OneBrokerDoubts DEF w
  <2>5. Known(p, m) => Known(p, m)'
    BY <1>4 DEF Known
  <2>6. QED
    BY <2>2, <2>4, <2>5
<1>8. QED
  BY <1>7, KnowsStep DEF KnowsMore

LEMMA KafkaStaleKnows ==
  ASSUME TypeOK, KnownInv, NEW b \in Brokers, KafkaStale(b)
  PROVE  KnownInv'
<1> DEFINE r == Head(stale[b])
<1>1. stale[b] \in Seq(Requests) /\ stale[b] # <<>> /\ stale \in [Brokers -> Seq(Requests)]
  BY DEF TypeOK, KafkaType, KafkaStale
<1>2. r \in Requests /\ TakenOut(stale[b], Tail(stale[b]), 1, r)
  BY <1>1, HeadTailProperties, TailTaken
<1>3. \/ UNCHANGED plog
      \/ \E x \in KafkaReplies(b, r) : plog' = [plog EXCEPT ![r.tp] = x.k]
  BY DEF KafkaStale
<1>4. stale' = [stale EXCEPT ![b] = Tail(stale[b])] /\ UNCHANGED <<waitresps, up, hand, rkm>>
  BY DEF KafkaStale, toppar_vars, thread_vars, buf_vars
<1> HIDE DEF r
<1>5. ASSUME NEW p \in Partitions, NEW m \in MsgIds
      PROVE  /\ MayBeWritten(p, m)' => MayBeWritten(p, m) \/ Unsettled(p, m)'
             /\ Unsettled(p, m) => Unsettled(p, m)' \/ Known(p, m)'
             /\ Known(p, m) => Known(p, m)'
  <2>1. Has(stale[b], p, m) <=> Has(Tail(stale[b]), p, m) \/ Match(r, p, m)
    BY <1>2, TakenOutHas
  <2>2. \A d \in Brokers : Has(stale[d], p, m)' => Has(stale[d], p, m)
    BY <1>1, <1>4, <2>1
  <2>3. m \in Written(p)' => m \in Written(p) \/ Match(r, p, m)
    <3>1. CASE UNCHANGED plog
      BY <3>1 DEF Written
    <3>2. ASSUME NEW x \in KafkaReplies(b, r), plog' = [plog EXCEPT ![r.tp] = x.k]
          PROVE  m \in Written(p)' => m \in Written(p) \/ Match(r, p, m)
      BY <1>2, <3>2, LogWritten
    <3>3. QED
      BY <1>3, <3>1, <3>2
  <2>4. MayBeWritten(p, m)' => MayBeWritten(p, m)
    BY <2>1, <2>2, <2>3 DEF MayBeWritten
  <2>5. QED
    BY <1>4, <2>4 DEF Unsettled, Known
<1>6. QED
  BY <1>5, KnowsStep DEF KnowsMore

-----------------------------------------------------------------------------
(* Where a broker thread is, and where its steps take it.                  *)

LEMMA NextLoop ==
  ASSUME NEW t \in Threads
  PROVE  NextToppar(t).pc \in {"idle", "toppar"}
<1>1. IdleThread.pc = "idle"
  BY DEF IdleThread
<1>2. [t EXCEPT !.pc = "toppar", !.left = 0, !.tp = None].pc = "toppar"
  BY DEF Threads
<1>3. QED
  BY <1>1, <1>2 DEF NextToppar

\* The steps of thread b, told apart by what they do to its place and its
\* partition.
Stays(b) == /\ th'[b].pc = th[b].pc /\ th'[b].tp = th[b].tp /\ th'[b].left = th[b].left
Loops(b) == th[b].pc # "fail" /\ th'[b].pc \in {"idle", "toppar", "purge_op"}
Fails(b) == BrokerFail(b) /\ th[b].pc = "idle" /\ th'[b].pc = "fail"
Failed(b) == FailNext(b) /\ th'[b].pc = "idle" /\ waitresps[b] = <<>>
Works(b) == /\ th[b].pc # "fail" /\ th'[b].pc \in TopparPcs \ {"produce"}
            /\ th'[b].tp \in Partitions
            /\ \/ rktp_broker[th'[b].tp] = b
               \/ th[b].pc \in TopparPcs /\ th'[b].tp = th[b].tp
            /\ th'[b].pc = "purge_leave" => next_broker[th'[b].tp] # None
Starts(b) == /\ ServeChecks(b) /\ th'[b].pc = "produce" /\ th'[b].tp = th[b].tp
             /\ th'[b].left = MaxRequests(th[b].left, msgs_inflight[th[b].tp])
             /\ th'[b].left > 0 /\ th[b].pc \in TopparPcs
Repeats(b) == /\ ProduceRequest(b) /\ th[b].pc = "produce" /\ th'[b].pc = "produce"
              /\ th'[b].tp = th[b].tp /\ th'[b].left = th[b].left - 1 /\ th'[b].left > 0

Moves(b) == \/ Stays(b) \/ Loops(b) \/ Fails(b) \/ Failed(b) \/ Works(b)
            \/ Starts(b) \/ Repeats(b)

ThreadOf(b) == \A d \in Brokers \ {b} : th'[d] = th[d]

LEMMA SetsThread ==
  ASSUME TypeOK, NEW b \in Brokers, NEW t, th' = [th EXCEPT ![b] = t]
  PROVE  th'[b] = t /\ ThreadOf(b) /\ th[b] \in Threads
BY DEF TypeOK, ThreadType, ThreadOf

LEMMA SetsPc ==
  ASSUME TypeOK, NEW b \in Brokers, NEW pc, th' = [th EXCEPT ![b].pc = pc]
  PROVE  th'[b].pc = pc /\ th'[b].tp = th[b].tp /\ ThreadOf(b)
<1>1. th \in [Brokers -> Threads]
  BY DEF TypeOK, ThreadType
<1>2. QED
  BY <1>1 DEF Threads, ThreadOf

LEMMA SetsDd ==
  ASSUME TypeOK, NEW b \in Brokers, NEW dd, th' = [th EXCEPT ![b].dd = dd]
  PROVE  Stays(b) /\ ThreadOf(b)
<1>1. th \in [Brokers -> Threads]
  BY DEF TypeOK, ThreadType
<1>2. QED
  BY <1>1 DEF Threads, ThreadOf, Stays

LEMMA GoesOn ==
  ASSUME TypeOK, NEW b \in Brokers, th' = [th EXCEPT ![b] = NextToppar(th[b])],
         th[b].pc # "fail"
  PROVE  Loops(b) /\ ThreadOf(b)
<1>1. th'[b] = NextToppar(th[b]) /\ ThreadOf(b) /\ th[b] \in Threads
  BY SetsThread
<1>2. QED
  BY <1>1, NextLoop DEF Loops

LEMMA ServeTopparMoves ==
  ASSUME TypeOK, NEW b \in Brokers, NEW p \in Partitions, ServeToppar(b, p)
  PROVE  Moves(b) /\ ThreadOf(b)
<1> DEFINE todo == th[b].todo \ {p}
           u == [th[b] EXCEPT !.todo = todo]
           left == IF rk.fatal THEN 0 ELSE OutbufsMax - Len(outbufs[b])
           pc == IF th[b].pid # eos[p].pid THEN "purge_pid" ELSE "checks"
           t == [th[b] EXCEPT !.todo = todo, !.tp = p, !.left = left, !.pc = pc]
<1>1. th[b] \in Threads /\ todo \in SUBSET Partitions /\ th[b].pc = "toppar"
  BY DEF TypeOK, ThreadType, Threads, ServeToppar
<1>2. u \in Threads
  BY <1>1, ThreadTodo
<1>3. \/ th' = [th EXCEPT ![b] = NextToppar(u)]
      \/ rktp_broker[p] = b /\ th' = [th EXCEPT ![b] = t]
  BY DEF ServeToppar
<1>4. pc \in {"purge_pid", "checks"} /\ pc \in TopparPcs \ {"produce"}
  BY PcTypes
<1> HIDE DEF todo, u, left, pc
<1>5. CASE th' = [th EXCEPT ![b] = NextToppar(u)]
  BY <1>1, <1>2, <1>5, SetsThread, NextLoop DEF Moves, Loops
<1>6. CASE rktp_broker[p] = b /\ th' = [th EXCEPT ![b] = t]
  <2>1. t.tp = p /\ t.pc = pc
    BY <1>1 DEF Threads
  <2> HIDE DEF t
  <2>2. th'[b] = t /\ ThreadOf(b)
    BY <1>6, SetsThread
  <2>3. th'[b].pc = pc /\ th'[b].tp = p /\ th[b].pc # "fail" /\ rktp_broker[p] = b
    BY <1>1, <1>6, <2>1, <2>2
  <2>4. Works(b)
    BY <1>4, <2>3, Zenon DEF Works
  <2>5. QED
    BY <2>2, <2>4 DEF Moves
<1>7. QED
  BY <1>3, <1>5, <1>6

LEMMA ServeTimeoutMoves ==
  ASSUME TypeOK, NEW b \in Brokers, NEW p \in Partitions, ServeTimeout(b, p)
  PROVE  Moves(b) /\ ThreadOf(b)
<1> DEFINE todo == th[b].todo \ {p}
           u == [th[b] EXCEPT !.todo = todo]
           dd == th[b].pid # NoPid /\ rk.inflight_toppar_cnt = 0
           v == NextToppar(u)
           t == [v EXCEPT !.dd = dd]
<1>1. th[b] \in Threads /\ todo \in SUBSET Partitions /\ th[b].pc = "toppar"
  BY DEF TypeOK, ThreadType, Threads, ServeTimeout
<1>2. u \in Threads
  BY <1>1, ThreadTodo
<1>3. th' = [th EXCEPT ![b] = t]
  BY DEF ServeTimeout
<1> HIDE DEF todo, u, dd
<1>4. v \in Threads /\ v.pc \in {"idle", "toppar"}
  BY <1>2, NextTopparType, NextLoop
<1> HIDE DEF v
<1>5. t.pc \in {"idle", "toppar"}
  BY <1>4 DEF Threads
<1> HIDE DEF t
<1>6. QED
  BY <1>1, <1>3, <1>5, SetsThread DEF Moves, Loops

LEMMA ServeChecksMoves ==
  ASSUME TypeOK, NEW b \in Brokers, ServeChecks(b)
  PROVE  Moves(b) /\ ThreadOf(b)
<1> DEFINE p == th[b].tp
           n == MaxRequests(th[b].left, msgs_inflight[p])
           t == [th[b] EXCEPT !.pc = "purge_drain"]
           u == [th[b] EXCEPT !.pc = "produce", !.left = n]
<1>1. th[b].pc \in TopparPcs /\ th[b].pc # "fail" /\ p \in Partitions /\ th[b] \in Threads
  <2>1. th[b].pc \in {"checks", "purge_pid"}
    BY DEF ServeChecks
  <2>2. QED
    BY <2>1, PcTypes DEF TypeOK, ThreadType
<1>2. \/ th' = [th EXCEPT ![b] = NextToppar(th[b])]
      \/ th' = [th EXCEPT ![b] = t]
      \/ th' = [th EXCEPT ![b] = u] /\ ~(n <= 0)
  BY DEF ServeChecks
<1>3. CASE th' = [th EXCEPT ![b] = NextToppar(th[b])]
  BY <1>1, <1>3, GoesOn DEF Moves
<1>4. CASE th' = [th EXCEPT ![b] = t]
  <2>1. t.pc = "purge_drain" /\ t.tp = p
    BY <1>1 DEF Threads
  <2> HIDE DEF t
  <2>2. th'[b] = t /\ ThreadOf(b)
    BY <1>4, SetsThread
  <2>3. "purge_drain" \in TopparPcs \ {"produce"}
    BY PcTypes
  <2>4. Works(b)
    BY <1>1, <2>1, <2>2, <2>3 DEF Works
  <2>5. QED
    BY <2>2, <2>4 DEF Moves
<1>5. CASE th' = [th EXCEPT ![b] = u] /\ ~(n <= 0)
  <2>1. u.pc = "produce" /\ u.tp = p /\ u.left = n
    BY <1>1 DEF Threads
  <2> HIDE DEF u
  <2>2. th'[b] = u /\ ThreadOf(b)
    BY <1>5, SetsThread
  <2>3. n \in Int
    <3>1. th[b].left \in Int /\ msgs_inflight[p] \in Int
      BY <1>1 DEF TypeOK, TopparType, Threads
    <3>2. QED
      BY <3>1, MaxRequestsType
  <2>4. n > 0
    BY <1>5, <2>3
  <2>5. Starts(b)
    BY <1>1, <2>1, <2>2, <2>4 DEF Starts
  <2>6. QED
    BY <2>2, <2>5 DEF Moves
<1>6. QED
  BY <1>2, <1>3, <1>4, <1>5

LEMMA ProduceRequestMoves ==
  ASSUME TypeOK, NEW b \in Brokers, ProduceRequest(b)
  PROVE  (Loops(b) \/ Repeats(b)) /\ ThreadOf(b)
<1> DEFINE left == th[b].left - 1
           t == [th[b] EXCEPT !.left = left]
<1>1. th[b].pc = "produce" /\ th[b] \in Threads
  BY DEF ProduceRequest, TypeOK, ThreadType
<1>2. \/ th' = [th EXCEPT ![b] = NextToppar(th[b])]
      \/ th' = [th EXCEPT ![b] = t] /\ left > 0
  BY DEF ProduceRequest
<1>3. CASE th' = [th EXCEPT ![b] = NextToppar(th[b])]
  BY <1>1, <1>3, GoesOn
<1>4. CASE th' = [th EXCEPT ![b] = t] /\ left > 0
  <2>1. t.left = left /\ t.pc = "produce" /\ t.tp = th[b].tp
    BY <1>1 DEF Threads
  <2>2. th'[b] = t /\ ThreadOf(b)
    BY <1>4, SetsThread
  <2> HIDE DEF t
  <2>3. Repeats(b)
    BY <1>1, <1>4, <2>1, <2>2 DEF Repeats
  <2>4. QED
    BY <2>2, <2>3
<1>5. QED
  BY <1>2, <1>3, <1>4

LEMMA ThreadMoves ==
  ASSUME TypeOK, NEW b \in Brokers, BrokerThread(b) \/ BrokerFail(b)
  PROVE  Moves(b) /\ ThreadOf(b)
<1>1. CASE ServeBegin(b)
  <2>1. PICK scan \in BOOLEAN :
          th' = [th EXCEPT ![b] = [th[b] EXCEPT !.pc = "toppar", !.scan = scan,
                                   !.pid = GetPid(rk), !.todo = Active(b)]]
    BY <1>1 DEF ServeBegin
  <2> DEFINE t == [th[b] EXCEPT !.pc = "toppar", !.scan = scan, !.pid = GetPid(rk),
                                !.todo = Active(b)]
  <2>2. th'[b] = t /\ ThreadOf(b) /\ th[b] \in Threads
    BY <2>1, SetsThread
  <2>3. t.pc = "toppar"
    BY <2>2 DEF Threads
  <2>4. QED
    BY <1>1, <2>2, <2>3 DEF Moves, Loops, ServeBegin, Idle
<1>2. CASE UNCHANGED th
  BY <1>2 DEF Moves, Stays, ThreadOf
<1>3. CASE PurgeNext(b) \/ Transmit(b) \/ RecvResponse(b) \/ Reconnect(b) \/ HandleStart(b)
  <2>1. UNCHANGED th
    BY <1>3 DEF PurgeNext, Transmit, RecvResponse, Reconnect, HandleStart, thread_vars
  <2>2. QED
    BY <1>2, <2>1
<1>4. CASE PurgeDrainDone(b)
  BY <1>4, GoesOn DEF PurgeDrainDone, Moves
<1>5. CASE FailNext(b)
  <2>1. UNCHANGED th \/ (th' = [th EXCEPT ![b].pc = "idle"] /\ waitresps[b] = <<>>)
    <3>1. CASE waitresps[b] # <<>>
      BY <1>5, <3>1 DEF FailNext
    <3>2. CASE waitresps[b] = <<>>
      BY <1>5, <3>2 DEF FailNext
    <3>3. QED
      BY <3>1, <3>2
  <2>2. QED
    BY <1>2, <1>5, <2>1, SetsPc DEF Moves, Failed
<1>6. CASE PurgeOp(b) \/ PurgeQueues(b)
  <2>1. PICK pc \in {"purge_op", "idle"} : th' = [th EXCEPT ![b].pc = pc]
    BY <1>6 DEF PurgeOp, PurgeQueues
  <2>2. th[b].pc # "fail"
    BY <1>6 DEF PurgeOp, PurgeQueues, Idle
  <2>3. QED
    BY <2>1, <2>2, SetsPc DEF Moves, Loops
<1>7. CASE HandleSuccess(b) \/ HandleError(b) \/ CallDrainDone(b)
  <2>1. \E dd : th' = [th EXCEPT ![b].dd = dd]
    BY <1>7 DEF HandleSuccess, HandleError, CallDrainDone, HandlerEnd
  <2>2. QED
    BY <2>1, SetsDd DEF Moves
<1>8. CASE PartitionLeft(b)
  <2>1. th' = [th EXCEPT ![b] = IdleThread] /\ th[b].pc # "fail"
    BY <1>8 DEF PartitionLeft
  <2>2. th'[b] = IdleThread /\ ThreadOf(b)
    BY <2>1, SetsThread
  <2>3. th'[b].pc = "idle"
    BY <2>2 DEF IdleThread
  <2>4. QED
    BY <2>1, <2>2, <2>3 DEF Moves, Loops
<1>9. ASSUME NEW p \in Partitions, PartitionLeave(b, p) PROVE Moves(b) /\ ThreadOf(b)
  <2> DEFINE t == [th[b] EXCEPT !.pc = "purge_leave", !.tp = p]
  <2>1. th' = [th EXCEPT ![b] = t] /\ th[b].pc = "idle" /\ rktp_broker[p] = b
        /\ next_broker[p] # None
    BY <1>9 DEF PartitionLeave, Idle
  <2>2. th[b] \in Threads
    BY DEF TypeOK, ThreadType
  <2>3. t.pc = "purge_leave" /\ t.tp = p
    BY <2>2 DEF Threads
  <2> HIDE DEF t
  <2>4. th'[b] = t /\ ThreadOf(b)
    BY <2>1, SetsThread
  <2>5. "purge_leave" \in TopparPcs \ {"produce"}
    BY PcTypes
  <2>6. th'[b].pc = "purge_leave" /\ th'[b].tp = p /\ th[b].pc # "fail"
    BY <2>1, <2>3, <2>4
  <2>7. Works(b)
    BY <2>1, <2>5, <2>6, Zenon DEF Works
  <2>8. QED
    BY <2>4, <2>7 DEF Moves
<1>10. ASSUME NEW p \in Partitions, PartitionJoin(b, p) PROVE UNCHANGED th
  BY <1>10 DEF PartitionJoin, thread_vars
<1>11. CASE BrokerFail(b)
  <2>1. th' = [th EXCEPT ![b].pc = "fail"] /\ th[b].pc = "idle"
    BY <1>11 DEF BrokerFail, Idle
  <2>2. QED
    BY <1>11, <2>1, SetsPc DEF Moves, Fails
<1>12. QED
  BY <1>1, <1>2, <1>3, <1>4, <1>5, <1>6, <1>7, <1>8, <1>9, <1>10, <1>11,
     ServeTopparMoves, ServeTimeoutMoves, ServeChecksMoves, ProduceRequestMoves, Zenon
     DEF BrokerThread, Moves

\* The other steps leave the threads alone.
LEMMA OtherThreads ==
  ASSUME [Next]_vars
  PROVE  UNCHANGED th \/ \E b \in Brokers : BrokerThread(b) \/ BrokerFail(b)
BY Zenon DEF Next, PidFsm, PidUpdate, RequestPidFailed, Purge, Produce, Expire, Delegate,
   LeaderChange, KafkaForget, KafkaHandle, KafkaStale, vars, thread_vars

-----------------------------------------------------------------------------
(* A report that a message is not persisted is true.                       *)

\* The connection and the sent requests of a thread change in these steps only.
LEMMA SameConnections ==
  ASSUME [Next]_vars
  PROVE  \/ UNCHANGED <<up, waitresps>>
         \/ \E b \in Brokers : \/ Transmit(b) \/ RecvResponse(b) \/ KafkaHandle(b)
                                \/ FailNext(b) \/ Reconnect(b) \/ BrokerFail(b)
<1>1. CASE \/ PidFsm \/ PidUpdate \/ RequestPidFailed \/ Purge \/ UNCHANGED vars
           \/ \E p \in Partitions : \/ Produce(p) \/ Expire(p) \/ Delegate(p)
                                    \/ LeaderChange(p) \/ KafkaForget(p)
  BY <1>1, Zenon DEF PidFsm, PidUpdate, RequestPidFailed, Purge, Produce, Expire, Delegate,
     LeaderChange, KafkaForget, vars, buf_vars
<1>2. CASE \E b \in Brokers :
             \/ ServeBegin(b) \/ PurgeDrainDone(b) \/ ServeChecks(b) \/ PurgeOp(b)
             \/ PurgeQueues(b) \/ HandleStart(b) \/ HandleSuccess(b) \/ HandleError(b)
             \/ CallDrainDone(b) \/ PartitionLeft(b) \/ KafkaStale(b)
  <2>1. UNCHANGED buf_vars
    BY <1>2, Zenon DEF ServeBegin, PurgeDrainDone, ServeChecks, PurgeOp,
       PurgeQueues, HandleStart, HandleSuccess, HandleError, CallDrainDone, PartitionLeft,
       KafkaStale
  <2>2. QED
    BY <2>1 DEF buf_vars
<1>3. CASE \E b \in Brokers : PurgeNext(b) \/ ProduceRequest(b)
  BY <1>3, Zenon DEF PurgeNext, ProduceRequest
<1>4. CASE \E b \in Brokers, p \in Partitions :
             \/ ServeTimeout(b, p) \/ ServeToppar(b, p)
             \/ PartitionLeave(b, p) \/ PartitionJoin(b, p)
  <2>1. UNCHANGED <<up, waitresps>>
    BY <1>4 DEF ServeTimeout, ServeToppar, PartitionLeave, PartitionJoin, buf_vars
  <2>2. QED
    BY <2>1
<1>5. QED
  BY <1>1, <1>2, <1>3, <1>4, Zenon DEF Next, BrokerThread

LEMMA LostStep ==
  ASSUME TypeOK, LostInv, [Next]_vars
  PROVE  LostInv'
<1>1. /\ waitresps \in [Brokers -> Seq(Requests)] /\ up \in [Brokers -> BOOLEAN]
  BY DEF TypeOK, BufType
<1> SUFFICES ASSUME NEW d \in Brokers
             PROVE  /\ th'[d].pc = "fail" => ~up'[d]
                    /\ ~up'[d] /\ th'[d].pc # "fail" => waitresps'[d] = <<>>
  BY DEF LostInv
<1>2. /\ th[d].pc = "fail" => ~up[d]
      /\ ~up[d] /\ th[d].pc # "fail" => waitresps[d] = <<>>
  BY DEF LostInv
<1>3. CASE Transmit(d) \/ RecvResponse(d) \/ KafkaHandle(d)
  <2>1. up'[d] /\ up[d] /\ UNCHANGED th
    BY <1>3 DEF Transmit, RecvResponse, KafkaHandle, thread_vars
  <2>2. QED
    BY <1>2, <2>1
<1>4. CASE FailNext(d)
  <2>1. th[d].pc = "fail" /\ ~up'[d]
    BY <1>2, <1>4 DEF FailNext
  <2>2. CASE waitresps[d] # <<>>
    <3>1. UNCHANGED th
      BY <1>4, <2>2 DEF FailNext
    <3>2. QED
      BY <2>1, <3>1
  <2>3. CASE waitresps[d] = <<>>
    <3>1. waitresps' = waitresps
      BY <1>4, <2>3 DEF FailNext
    <3>2. QED
      BY <2>1, <2>3, <3>1
  <2>4. QED
    BY <2>2, <2>3
<1>5. CASE Reconnect(d)
  <2>1. up'[d] /\ th'[d].pc = "idle"
    BY <1>1, <1>5 DEF Reconnect, thread_vars, Idle
  <2>2. QED
    BY <2>1
<1>6. CASE BrokerFail(d)
  <2>1. ~up'[d]
    BY <1>1, <1>6 DEF BrokerFail
  <2>2. th' = [th EXCEPT ![d].pc = "fail"]
    BY <1>6 DEF BrokerFail
  <2>3. th'[d].pc = "fail"
    BY <2>2, SetsPc
  <2>4. QED
    BY <2>1, <2>3
<1>7. ASSUME ~(Transmit(d) \/ RecvResponse(d) \/ KafkaHandle(d) \/ FailNext(d) \/ Reconnect(d)
               \/ BrokerFail(d))
      PROVE  up'[d] = up[d] /\ waitresps'[d] = waitresps[d]
  <2>1. CASE UNCHANGED <<up, waitresps>>
    BY <2>1
  <2>2. ASSUME NEW b \in Brokers, \/ Transmit(b) \/ RecvResponse(b) \/ KafkaHandle(b)
                                  \/ FailNext(b) \/ Reconnect(b) \/ BrokerFail(b)
        PROVE  up'[d] = up[d] /\ waitresps'[d] = waitresps[d]
    <3>1. b # d
      BY <1>7, <2>2
    <3>2. \/ UNCHANGED waitresps \/ \E w : waitresps' = [waitresps EXCEPT ![b] = w]
      <4>1. CASE Transmit(b) \/ RecvResponse(b) \/ Reconnect(b) \/ BrokerFail(b)
        BY <4>1 DEF Transmit, RecvResponse, Reconnect, BrokerFail
      <4>2. CASE KafkaHandle(b)
        <5>1. \E i, x : waitresps' = [waitresps EXCEPT ![b] = [waitresps[b] EXCEPT ![i].resp = x]]
          BY <4>2 DEF KafkaHandle
        <5>2. QED
          BY <5>1
      <4>3. CASE FailNext(b)
        <5>1. CASE waitresps[b] # <<>>
          BY <4>3, <5>1 DEF FailNext
        <5>2. CASE waitresps[b] = <<>>
          BY <4>3, <5>2 DEF FailNext
        <5>3. QED
          BY <5>1, <5>2
      <4>4. QED
        BY <2>2, <4>1, <4>2, <4>3
    <3>3. \/ UNCHANGED up \/ \E u : up' = [up EXCEPT ![b] = u]
      BY <2>2 DEF Transmit, RecvResponse, KafkaHandle, FailNext, Reconnect, BrokerFail
    <3>4. QED
      BY <1>1, <3>1, <3>2, <3>3
  <2>3. QED
    BY <2>1, <2>2, SameConnections
<1>8. ASSUME ~FailNext(d), ~BrokerFail(d) PROVE th'[d].pc = "fail" <=> th[d].pc = "fail"
  <2>1. CASE UNCHANGED th
    BY <2>1
  <2>2. ASSUME NEW b \in Brokers, BrokerThread(b) \/ BrokerFail(b)
        PROVE  th'[d].pc = "fail" <=> th[d].pc = "fail"
    <3>1. Moves(b) /\ ThreadOf(b)
      BY <2>2, ThreadMoves
    <3>2. CASE b # d
      BY <3>1, <3>2 DEF ThreadOf
    <3>3. CASE b = d
      <4>1. Stays(b) \/ Loops(b) \/ Works(b) \/ Starts(b) \/ Repeats(b)
        BY <1>8, <3>1, <3>3 DEF Moves, Fails, Failed
      <4>2. QED
        BY <3>3, <4>1, PcTypes DEF Stays, Loops, Works, Starts, Repeats
    <3>4. QED
      BY <3>2, <3>3
  <2>3. QED
    BY <2>1, <2>2, OtherThreads
<1>9. QED
  BY <1>2, <1>3, <1>4, <1>5, <1>6, <1>7, <1>8

LEMMA InitKnows == Init => KnownInv /\ LostInv
<1> SUFFICES ASSUME Init PROVE KnownInv /\ LostInv
  OBVIOUS
<1>1. ASSUME NEW p \in Partitions, NEW m \in MsgIds PROVE ~MayBeWritten(p, m)
  <2>1. plog[p].log = <<>>
    BY <1>1 DEF Init, EmptyLog
  <2>2. \A b \in Brokers : stale[b] = <<>>
    BY DEF Init
  <2>3. m \notin Written(p)
    BY <2>1 DEF Written
  <2>4. \A b \in Brokers : ~Has(stale[b], p, m)
    BY <2>2 DEF Has
  <2>5. QED
    BY <2>3, <2>4 DEF MayBeWritten
<1>2. LostInv
  BY DEF Init, LostInv, IdleThread
<1>3. QED
  BY <1>1, <1>2 DEF KnownInv

LEMMA NextKnows == TypeOK /\ KnownInv /\ LostInv /\ [Next]_vars => KnownInv' /\ LostInv'
<1> SUFFICES ASSUME TypeOK, KnownInv, LostInv, [Next]_vars PROVE KnownInv'
  BY LostStep
<1>1. CASE UNCHANGED vars
  BY <1>1, QuietKnows DEF vars, toppar_vars, thread_vars, buf_vars, kafka_vars, SameLogs, SameStatus
<1>2. CASE \/ PidFsm \/ PidUpdate \/ RequestPidFailed \/ Purge
           \/ \E p \in Partitions : \/ Produce(p) \/ Expire(p) \/ Delegate(p) \/ LeaderChange(p)
           \/ \E b \in Brokers :
                \/ ServeBegin(b) \/ PurgeDrainDone(b) \/ ServeChecks(b) \/ ProduceRequest(b)
                \/ PurgeOp(b) \/ PurgeQueues(b) \/ CallDrainDone(b) \/ PartitionLeft(b)
                \/ \E p \in Partitions : \/ ServeTimeout(b, p) \/ ServeToppar(b, p)
                                         \/ PartitionLeave(b, p) \/ PartitionJoin(b, p)
  BY <1>2, UntouchedKnows
<1>3. ASSUME NEW b \in Brokers, BrokerThread(b) \/ BrokerFail(b) \/ KafkaHandle(b) \/ KafkaStale(b)
      PROVE  \/ KnownInv'
             \/ ServeBegin(b) \/ PurgeDrainDone(b) \/ ServeChecks(b) \/ ProduceRequest(b)
             \/ PurgeOp(b) \/ PurgeQueues(b) \/ CallDrainDone(b) \/ PartitionLeft(b)
             \/ \E p \in Partitions : \/ ServeTimeout(b, p) \/ ServeToppar(b, p)
                                      \/ PartitionLeave(b, p) \/ PartitionJoin(b, p)
  BY <1>3, TransmitKnows, ReconnectKnows, TakingKnows, BrokerFailKnows, HandleStartKnows,
     HandleSuccessKnows, HandleErrorKnows, KafkaHandleKnows, KafkaStaleKnows, Zenon
     DEF BrokerThread
<1>4. QED
  BY <1>1, <1>2, <1>3, ForgetKnows, Zenon DEF Next

\* While the result of a message's request is on its way the message is not
\* reported.
LEMMA UnsettledIsHeld ==
  ASSUME OwnersInv, NEW p \in Partitions, NEW m \in MsgIds, Unsettled(p, m)
  PROVE  rkm[p][m].dr = "none"
<1>1. PICK b \in Brokers : DoubtIn(waitresps[b], up[b], hand[b], p, m)
  BY DEF Unsettled
<1>2. Holds(b, p, m)
  BY <1>1 DEF DoubtIn, Holds, HoldsIn, Has, InHand
<1>3. QED
  BY <1>2 DEF OwnersInv, Conserved, InD

LEMMA KnownIsHonest == OwnersInv /\ KnownInv => NotPersistedIsNotWritten
BY UnsettledIsHeld DEF KnownInv, Known, MayBeWritten, NotPersistedIsNotWritten

\* With any number of brokers, partitions and messages and after any faults, a
\* message that the delivery report calls NOT_PERSISTED is not in the log: neither
\* a late request of a lost connection nor a reply that was lost has written it
\* (rd_kafka_handle_Produce_error(), rd_kafka_dr_msgq()).
THEOREM NotPersistedIsTrue == Spec => []NotPersistedIsNotWritten
<1>1. QED
  BY InitType, NextType, InitOwners, NextOwners, InitKnows, NextKnows, KnownIsHonest, PTL DEF Spec

-----------------------------------------------------------------------------
(* The requests of a partition, by the messages they carry.                *)

IsBatch(r, p, S) == r.tp = p /\ r.msgs = S
InQueue(q, p, S) == \E i \in DOMAIN q : IsBatch(q[i], p, S)

LEMMA TakenOutBatch ==
  ASSUME NEW s, NEW q, NEW i, NEW e, TakenOut(s, q, i, e), NEW p, NEW S
  PROVE  InQueue(s, p, S) <=> InQueue(q, p, S) \/ IsBatch(e, p, S)
<1>1. /\ i \in 1 .. Len(s) /\ Len(s) \in Nat /\ DOMAIN s = 1 .. Len(s) /\ e = s[i]
      /\ DOMAIN q = 1 .. (Len(s) - 1)
      /\ \A j \in DOMAIN q : q[j] = s[IF j < i THEN j ELSE j + 1]
  BY DEF TakenOut
<1> DEFINE shift(j) == IF j < i THEN j ELSE j + 1
           unshift(j) == IF j < i THEN j ELSE j - 1
<1>2. \A j \in DOMAIN q : shift(j) \in DOMAIN s /\ q[j] = s[shift(j)]
  BY <1>1
<1>3. \A j \in DOMAIN s : j # i => unshift(j) \in DOMAIN q /\ q[unshift(j)] = s[j]
  BY <1>1
<1>4. i \in DOMAIN s /\ s[i] = e
  BY <1>1
<1> HIDE DEF shift, unshift
<1>5. InQueue(s, p, S) => InQueue(q, p, S) \/ IsBatch(e, p, S)
  BY <1>3, <1>4 DEF InQueue
<1>6. InQueue(q, p, S) \/ IsBatch(e, p, S) => InQueue(s, p, S)
  BY <1>2, <1>4 DEF InQueue
<1>7. QED
  BY <1>5, <1>6

\* A request of broker b for partition p with messages S.  A result that is
\* being handled counts as long as the broker serves the partition (home).
NearIn(o, w, h, home, p, S) ==
  \/ InQueue(o, p, S) \/ InQueue(w, p, S)
  \/ h.phase # "none" /\ IsBatch(h.req, p, S) /\ (h.phase = "start" \/ home)

NearAt(b, p, S) == NearIn(outbufs[b], waitresps[b], hand[b], rktp_broker[p] = b, p, S)

Near(p) == {S \in SUBSET MsgIds : \E b \in Brokers : NearAt(b, p, S)}

\* No step but ProduceRequest adds a request.
Fewer == \A p \in Partitions, b \in Brokers, S \in SUBSET MsgIds : NearAt(b, p, S)' => NearAt(b, p, S)

LEMMA NearFinite ==
  ASSUME NEW p
  PROVE  IsFiniteSet(Near(p)) /\ Cardinality(Near(p)) \in Nat
<1>1. IsFiniteSet(MsgIds)
  BY MsgSetType
<1>2. IsFiniteSet(SUBSET MsgIds)
  BY <1>1, FS_SUBSET
<1>3. Near(p) \in SUBSET (SUBSET MsgIds)
  BY DEF Near
<1>4. QED
  BY <1>2, <1>3, FS_Subset, FS_CardinalityType

LEMMA FewerNear ==
  ASSUME Fewer, NEW p \in Partitions
  PROVE  Cardinality(Near(p)') <= Cardinality(Near(p)) /\ Cardinality(Near(p)') \in Nat
<1>1. Near(p)' \in SUBSET Near(p)
  BY DEF Fewer, Near
<1>2. QED
  BY <1>1, NearFinite, FS_Subset, FS_CardinalityType

LEMMA QuietFewer ==
  ASSUME UNCHANGED <<outbufs, waitresps, rktp_broker>>,
         \A b \in Brokers : /\ hand'[b].req = hand[b].req
                            /\ hand'[b].phase # "none" => hand[b].phase # "none"
                            /\ hand'[b].phase = "start" => hand[b].phase = "start"
  PROVE  Fewer
<1> SUFFICES ASSUME NEW p \in Partitions, NEW b \in Brokers, NEW S \in SUBSET MsgIds, NearAt(b, p, S)'
             PROVE  NearAt(b, p, S)
  BY DEF Fewer
<1>1. /\ hand'[b].req = hand[b].req
      /\ hand'[b].phase # "none" => hand[b].phase # "none"
      /\ hand'[b].phase = "start" => hand[b].phase = "start"
  OBVIOUS
<1>2. QED
  BY <1>1 DEF NearAt, NearIn

\* The partition changes hands: the thread concerned has no result in hand.
LEMMA MovingFewer ==
  ASSUME TypeOK, UNCHANGED <<outbufs, waitresps, hand>>, NEW b \in Brokers, NEW r \in Partitions,
         hand[b].phase = "none", NEW c \in {b, None}, rktp_broker' = [rktp_broker EXCEPT ![r] = c]
  PROVE  Fewer
<1> SUFFICES ASSUME NEW p \in Partitions, NEW d \in Brokers, NEW S \in SUBSET MsgIds, NearAt(d, p, S)'
             PROVE  NearAt(d, p, S)
  BY DEF Fewer
<1>1. rktp_broker \in [Partitions -> Brokers \cup {None}] /\ None \notin Brokers
  BY BrokersAssumption DEF TypeOK, PlaceType
<1>2. rktp_broker'[p] = d => d = b \/ rktp_broker[p] = d
  BY <1>1
<1>3. QED
  BY <1>2 DEF NearAt, NearIn

\* A thread moves a request from one place to another.
LEMMA OneBrokerFewer ==
  ASSUME NEW b \in Brokers, UNCHANGED rktp_broker,
         \A d \in Brokers \ {b} : /\ outbufs'[d] = outbufs[d] /\ waitresps'[d] = waitresps[d]
                                  /\ hand'[d] = hand[d],
         \A p \in Partitions, S \in SUBSET MsgIds : NearAt(b, p, S)' => NearAt(b, p, S)
  PROVE  Fewer
<1> SUFFICES ASSUME NEW p \in Partitions, NEW d \in Brokers, NEW S \in SUBSET MsgIds, NearAt(d, p, S)'
             PROVE  NearAt(d, p, S)
  BY DEF Fewer
<1>1. CASE d = b
  BY <1>1
<1>2. CASE d # b
  <2>1. outbufs'[d] = outbufs[d] /\ waitresps'[d] = waitresps[d] /\ hand'[d] = hand[d]
    BY <1>2
  <2>2. QED
    BY <2>1 DEF NearAt, NearIn
<1>3. QED
  BY <1>1, <1>2

LEMMA TransmitFewer ==
  ASSUME TypeOK, NEW b \in Brokers, Transmit(b)
  PROVE  Fewer
<1>1. /\ outbufs \in [Brokers -> Seq(Requests)] /\ waitresps \in [Brokers -> Seq(Requests)]
      /\ outbufs[b] # <<>>
  BY DEF TypeOK, BufType, Transmit
<1>2. /\ outbufs' = [outbufs EXCEPT ![b] = Tail(outbufs[b])]
      /\ waitresps' = [waitresps EXCEPT ![b] = Append(waitresps[b], Head(outbufs[b]))]
      /\ hand' = hand /\ rktp_broker' = rktp_broker
  BY DEF Transmit, thread_vars, place_vars
<1>3. Head(outbufs[b]) \in Requests
  BY <1>1, HeadTailProperties
<1>4. /\ TakenOut(outbufs[b], outbufs'[b], 1, Head(outbufs[b]))
      /\ TakenOut(waitresps'[b], waitresps[b], Len(waitresps[b]) + 1, Head(outbufs[b]))
  <2>1. outbufs'[b] = Tail(outbufs[b]) /\ waitresps'[b] = Append(waitresps[b], Head(outbufs[b]))
    BY <1>1, <1>2
  <2>2. QED
    BY <1>1, <1>3, <2>1, TailTaken, AppendTaken
<1>5. \A d \in Brokers \ {b} : /\ outbufs'[d] = outbufs[d] /\ waitresps'[d] = waitresps[d]
                               /\ hand'[d] = hand[d]
  BY <1>1, <1>2
<1>6. ASSUME NEW p \in Partitions, NEW S \in SUBSET MsgIds, NearAt(b, p, S)'
      PROVE  NearAt(b, p, S)
  <2>1. InQueue(outbufs[b], p, S) <=> InQueue(outbufs'[b], p, S) \/ IsBatch(Head(outbufs[b]), p, S)
    BY <1>4, TakenOutBatch
  <2>2. InQueue(waitresps'[b], p, S)
          <=> InQueue(waitresps[b], p, S) \/ IsBatch(Head(outbufs[b]), p, S)
    BY <1>4, TakenOutBatch
  <2>3. QED
    BY <1>2, <1>6, <2>1, <2>2 DEF NearAt, NearIn
<1>7. QED
  BY <1>2, <1>5, <1>6, OneBrokerFewer

LEMMA TakenFewer ==
  ASSUME TypeOK, NEW b \in Brokers, UNCHANGED rktp_broker,
         NEW e, NEW h, h.req = e, hand' = [hand EXCEPT ![b] = h],
         \/ /\ waitresps' = waitresps
            /\ \E o, i : TakenOut(outbufs[b], o, i, e) /\ outbufs' = [outbufs EXCEPT ![b] = o]
         \/ /\ outbufs' = outbufs
            /\ \E w, i : TakenOut(waitresps[b], w, i, e) /\ waitresps' = [waitresps EXCEPT ![b] = w]
  PROVE  Fewer
<1>1. /\ outbufs \in [Brokers -> Seq(Requests)] /\ waitresps \in [Brokers -> Seq(Requests)]
      /\ hand \in [Brokers -> Hands \cup {NoHand}]
  BY DEF TypeOK, BufType, HandType
<1>2. \A d \in Brokers \ {b} : /\ outbufs'[d] = outbufs[d] /\ waitresps'[d] = waitresps[d]
                               /\ hand'[d] = hand[d]
  BY <1>1
<1>3. hand'[b] = h
  BY <1>1
<1>4. ASSUME NEW p \in Partitions, NEW S \in SUBSET MsgIds, NearAt(b, p, S)'
      PROVE  NearAt(b, p, S)
  <2>1. CASE /\ waitresps' = waitresps
             /\ \E o, i : TakenOut(outbufs[b], o, i, e) /\ outbufs' = [outbufs EXCEPT ![b] = o]
    <3>1. PICK i : TakenOut(outbufs[b], outbufs'[b], i, e)
      BY <1>1, <2>1
    <3>2. InQueue(outbufs[b], p, S) <=> InQueue(outbufs'[b], p, S) \/ IsBatch(e, p, S)
      BY <3>1, TakenOutBatch
    <3>3. QED
      BY <1>3, <1>4, <2>1, <3>2 DEF NearAt, NearIn
  <2>2. CASE /\ outbufs' = outbufs
             /\ \E w, i : TakenOut(waitresps[b], w, i, e) /\ waitresps' = [waitresps EXCEPT ![b] = w]
    <3>1. PICK i : TakenOut(waitresps[b], waitresps'[b], i, e)
      BY <1>1, <2>2
    <3>2. InQueue(waitresps[b], p, S) <=> InQueue(waitresps'[b], p, S) \/ IsBatch(e, p, S)
      BY <3>1, TakenOutBatch
    <3>3. QED
      BY <1>3, <1>4, <2>2, <3>2 DEF NearAt, NearIn
  <2>3. QED
    BY <2>1, <2>2
<1>5. QED
  BY <1>2, <1>4, OneBrokerFewer

LEMMA TakingFewer ==
  ASSUME TypeOK, NEW b \in Brokers, RecvResponse(b) \/ FailNext(b) \/ PurgeNext(b)
  PROVE  Fewer
<1>1. /\ outbufs \in [Brokers -> Seq(Requests)] /\ waitresps \in [Brokers -> Seq(Requests)]
      /\ outbufs[b] \in Seq(Requests) /\ waitresps[b] \in Seq(Requests)
  BY DEF TypeOK, BufType
<1>2. UNCHANGED rktp_broker
  BY Zenon DEF RecvResponse, FailNext, PurgeNext, place_vars
<1>3. ASSUME waitresps[b] # <<>>, outbufs' = outbufs,
             waitresps' = [waitresps EXCEPT ![b] = Tail(waitresps[b])],
             NEW e, NEW s,
             hand' = [hand EXCEPT ![b] = [phase |-> "start", req |-> Head(waitresps[b]),
                                          err |-> e, sent |-> s]]
      PROVE  Fewer
  <2>1. TakenOut(waitresps[b], Tail(waitresps[b]), 1, Head(waitresps[b]))
    BY <1>1, <1>3, TailTaken
  <2> DEFINE h == [phase |-> "start", req |-> Head(waitresps[b]), err |-> e, sent |-> s]
             x == Head(waitresps[b])
             w == Tail(waitresps[b])
  <2>2. h.req = x /\ hand' = [hand EXCEPT ![b] = h]
    BY <1>3
  <2>3. /\ outbufs' = outbufs
        /\ TakenOut(waitresps[b], w, 1, x) /\ waitresps' = [waitresps EXCEPT ![b] = w]
    BY <1>3, <2>1
  <2> HIDE DEF h, x, w
  <2>4. QED
    BY <1>2, <2>2, <2>3, TakenFewer
<1>4. ASSUME NEW i \in DOMAIN outbufs[b], waitresps' = waitresps,
             NEW o, TakenOut(outbufs[b], o, i, outbufs[b][i]),
             outbufs' = [outbufs EXCEPT ![b] = o],
             NEW e, NEW s,
             hand' = [hand EXCEPT ![b] = [phase |-> "start", req |-> outbufs[b][i],
                                          err |-> e, sent |-> s]]
      PROVE  Fewer
  <2> DEFINE h == [phase |-> "start", req |-> outbufs[b][i], err |-> e, sent |-> s]
             x == outbufs[b][i]
  <2>2. h.req = x /\ hand' = [hand EXCEPT ![b] = h]
    BY <1>4
  <2>3. /\ waitresps' = waitresps
        /\ TakenOut(outbufs[b], o, i, x) /\ outbufs' = [outbufs EXCEPT ![b] = o]
    BY <1>4
  <2> HIDE DEF h, x
  <2>4. QED
    BY <1>2, <2>2, <2>3, TakenFewer
<1>5. CASE RecvResponse(b)
  BY <1>3, <1>5 DEF RecvResponse
<1>6. CASE PurgeNext(b)
  <2> DEFINE i == Min(Victims(b))
             e == IF th[b].pc = "purge_op" THEN "_PURGE_QUEUE" ELSE "_RETRY"
  <2>1. /\ Victims(b) # {} /\ waitresps' = waitresps
        /\ outbufs' = [outbufs EXCEPT ![b] = RemoveAt(outbufs[b], i)]
        /\ hand' = [hand EXCEPT ![b] = [phase |-> "start", req |-> outbufs[b][i],
                                        err |-> e, sent |-> FALSE]]
    BY <1>6 DEF PurgeNext
  <2>2. i \in DOMAIN outbufs[b]
    <3>1. DOMAIN outbufs[b] \subseteq Nat /\ Victims(b) \subseteq DOMAIN outbufs[b]
      BY <1>1, LenProperties DEF Victims
    <3>2. QED
      BY <2>1, <3>1, MinIn
  <2>3. TakenOut(outbufs[b], RemoveAt(outbufs[b], i), i, outbufs[b][i])
    BY <1>1, <2>2, RemoveTaken
  <2> HIDE DEF i, e
  <2>4. QED
    BY <1>4, <2>1, <2>2, <2>3
<1>7. CASE FailNext(b)
  <2>1. CASE waitresps[b] # <<>>
    BY <1>3, <1>7, <2>1 DEF FailNext
  <2>2. CASE waitresps[b] = <<>> /\ outbufs[b] # <<>>
    <3>1. /\ waitresps' = waitresps
          /\ outbufs' = [outbufs EXCEPT ![b] = Tail(outbufs[b])]
          /\ hand' = [hand EXCEPT ![b] = [phase |-> "start", req |-> Head(outbufs[b]),
                                          err |-> "_TRANSPORT", sent |-> FALSE]]
      BY <1>7, <2>2 DEF FailNext
    <3>2. TakenOut(outbufs[b], Tail(outbufs[b]), 1, Head(outbufs[b]))
      BY <1>1, <2>2, TailTaken
    <3>3. 1 \in DOMAIN outbufs[b] /\ Head(outbufs[b]) = outbufs[b][1]
      BY <3>2 DEF TakenOut
    <3>4. QED
      BY <1>4, <3>1, <3>2, <3>3
  <2>3. CASE waitresps[b] = <<>> /\ outbufs[b] = <<>>
    <3>1. UNCHANGED <<hand, outbufs, waitresps>>
      BY <1>7, <2>3 DEF FailNext
    <3>2. QED
      BY <1>2, <3>1, QuietFewer
  <2>4. QED
    BY <2>1, <2>2, <2>3
<1>8. QED
  BY <1>5, <1>6, <1>7

\* The result of a request is handled: the request goes.
LEMMA HandlingFewer ==
  ASSUME TypeOK, NEW b \in Brokers, HandleStart(b) \/ HandleSuccess(b) \/ HandleError(b)
  PROVE  Fewer
<1>1. UNCHANGED <<outbufs, waitresps, rktp_broker>>
  BY Zenon DEF HandleStart, HandleSuccess, HandleError, buf_vars, place_vars
<1>2. hand \in [Brokers -> Hands \cup {NoHand}]
  BY DEF TypeOK, HandType
<1>3. CASE HandleStart(b)
  <2>1. PICK ph \in {"last", "more"} : hand' = [hand EXCEPT ![b].phase = ph]
    BY <1>3 DEF HandleStart
  <2>2. hand[b].phase = "start" /\ hand[b] \in Hands
    BY <1>2, <1>3 DEF HandleStart, NoHand
  <2>3. hand'[b].req = hand[b].req /\ hand'[b].phase = ph
    BY <1>2, <2>1, <2>2 DEF Hands
  <2>4. \A d \in Brokers : d # b => hand'[d] = hand[d]
    BY <1>2, <2>1
  <2>5. QED
    BY <1>1, <2>1, <2>2, <2>3, <2>4, QuietFewer
<1>4. CASE HandleSuccess(b) \/ HandleError(b)
  <2>1. hand' = [hand EXCEPT ![b] = NoHand]
    BY <1>4, Zenon DEF HandleSuccess, HandleError, HandlerEnd
  <2>2. hand'[b].phase = "none"
    BY <1>2, <2>1 DEF NoHand
  <2>3. \A d \in Brokers \ {b} : /\ outbufs'[d] = outbufs[d] /\ waitresps'[d] = waitresps[d]
                                 /\ hand'[d] = hand[d]
    BY <1>1, <1>2, <2>1
  <2>4. ASSUME NEW p \in Partitions, NEW S \in SUBSET MsgIds, NearAt(b, p, S)'
        PROVE  NearAt(b, p, S)
    BY <1>1, <2>2, <2>4 DEF NearAt, NearIn
  <2>5. QED
    BY <1>1, <2>3, <2>4, OneBrokerFewer
<1>5. QED
  BY <1>3, <1>4

LEMMA KafkaHandleFewer ==
  ASSUME TypeOK, NEW b \in Brokers, KafkaHandle(b)
  PROVE  Fewer
<1> DEFINE U == {i \in DOMAIN waitresps[b] : waitresps[b][i].resp = NoReply}
           i == Min(U)
<1>1. /\ waitresps \in [Brokers -> Seq(Requests)] /\ waitresps[b] \in Seq(Requests)
  BY DEF TypeOK, BufType
<1>2. outbufs' = outbufs /\ hand' = hand /\ rktp_broker' = rktp_broker
  BY Zenon DEF KafkaHandle, place_vars, thread_vars
<1>3. U # {} /\ \E x : waitresps' = [waitresps EXCEPT ![b][i].resp = x]
  BY DEF KafkaHandle
<1>4. DOMAIN waitresps[b] \subseteq Nat
  BY <1>1, LenProperties
<1>5. i \in DOMAIN waitresps[b]
  BY <1>3, <1>4, MinIn
<1>6. PICK x : waitresps' = [waitresps EXCEPT ![b][i].resp = x]
  BY <1>3
<1> HIDE DEF i, U
<1>7. \A j \in DOMAIN waitresps[b] : waitresps[b][j] \in Requests
  BY <1>1, ElementOfSeq, LenProperties
<1>8. /\ DOMAIN waitresps'[b] = DOMAIN waitresps[b]
      /\ \A j \in DOMAIN waitresps[b] : /\ waitresps'[b][j].tp = waitresps[b][j].tp
                                        /\ waitresps'[b][j].msgs = waitresps[b][j].msgs
  BY <1>1, <1>5, <1>6, <1>7 DEF Requests
<1>9. \A d \in Brokers \ {b} : /\ outbufs'[d] = outbufs[d] /\ waitresps'[d] = waitresps[d]
                               /\ hand'[d] = hand[d]
  BY <1>1, <1>2, <1>6
<1>10. ASSUME NEW p \in Partitions, NEW S \in SUBSET MsgIds, NearAt(b, p, S)'
       PROVE  NearAt(b, p, S)
  <2>1. InQueue(waitresps'[b], p, S) => InQueue(waitresps[b], p, S)
    BY <1>8 DEF InQueue, IsBatch
  <2>2. QED
    BY <1>2, <1>10, <2>1 DEF NearAt, NearIn
<1>11. QED
  BY <1>2, <1>9, <1>10, OneBrokerFewer

\* The steps that leave the requests and the places alone.
LEMMA UntouchedFewer ==
  ASSUME \/ PidFsm \/ PidUpdate \/ RequestPidFailed \/ Purge \/ UNCHANGED vars
         \/ \E p \in Partitions : \/ Produce(p) \/ Expire(p) \/ Delegate(p) \/ LeaderChange(p)
                                  \/ KafkaForget(p)
         \/ \E b \in Brokers :
              \/ ServeBegin(b) \/ PurgeDrainDone(b) \/ ServeChecks(b) \/ BrokerFail(b)
              \/ Reconnect(b) \/ PurgeOp(b) \/ PurgeQueues(b) \/ CallDrainDone(b)
              \/ KafkaStale(b)
              \/ \E p \in Partitions : \/ ServeTimeout(b, p) \/ ServeToppar(b, p)
                                       \/ PartitionLeave(b, p)
  PROVE  Fewer /\ UNCHANGED rktp_broker
<1>1. UNCHANGED <<hand, outbufs, waitresps, rktp_broker>>
  <2>1. CASE \/ PidFsm \/ PidUpdate \/ RequestPidFailed \/ Purge \/ UNCHANGED vars
             \/ \E p \in Partitions : \/ Produce(p) \/ Expire(p) \/ Delegate(p) \/ LeaderChange(p)
                                      \/ KafkaForget(p)
    BY <2>1, Zenon DEF PidFsm, PidUpdate, RequestPidFailed, Purge, Produce, Expire, Delegate,
       LeaderChange, KafkaForget, thread_vars, buf_vars, place_vars, vars
  <2>2. CASE \E b \in Brokers :
              \/ ServeBegin(b) \/ PurgeDrainDone(b) \/ ServeChecks(b) \/ BrokerFail(b)
              \/ Reconnect(b) \/ PurgeOp(b)
    BY <2>2, Zenon DEF ServeBegin, PurgeDrainDone, ServeChecks, BrokerFail, Reconnect, PurgeOp,
       thread_vars, buf_vars, place_vars
  <2>3. CASE \E b \in Brokers :
              \/ PurgeQueues(b) \/ CallDrainDone(b) \/ KafkaStale(b)
              \/ \E p \in Partitions : PartitionLeave(b, p)
    BY <2>3, Zenon DEF PurgeQueues, CallDrainDone, KafkaStale, PartitionLeave,
       thread_vars, buf_vars, place_vars
  <2>4. CASE \E b \in Brokers, p \in Partitions : ServeTimeout(b, p) \/ ServeToppar(b, p)
    BY <2>4 DEF ServeTimeout, ServeToppar, buf_vars, place_vars
  <2>5. QED
    BY <2>1, <2>2, <2>3, <2>4
<1>2. QED
  BY <1>1, QuietFewer

\* A new request is the only one a step adds.
Adds(b, S) == \A p \in Partitions, d \in Brokers, T \in SUBSET MsgIds :
                NearAt(d, p, T)' => NearAt(d, p, T) \/ (p = th[b].tp /\ T = S)

LEMMA BuildingAdds ==
  ASSUME TypeOK, NEW b \in Brokers, ProduceRequest(b)
  PROVE  UNCHANGED rktp_broker /\ \E S \in SUBSET MsgIds : Adds(b, S)
<1>1. UNCHANGED <<hand, waitresps, rktp_broker>>
  <2>1. UNCHANGED <<hand, waitresps>>
    BY ProduceRequestEffect
  <2>2. QED
    BY <2>1, Zenon DEF ProduceRequest, place_vars
<1>2. CASE UNCHANGED outbufs
  <2>1. Fewer
    BY <1>1, <1>2, QuietFewer
  <2>2. QED
    BY <1>1, <2>1 DEF Fewer, Adds
<1>3. ASSUME NEW req \in Requests, Built(b, req)
      PROVE  \E S \in SUBSET MsgIds : Adds(b, S)
  <2>1. /\ outbufs \in [Brokers -> Seq(Requests)] /\ outbufs[b] \in Seq(Requests)
        /\ req.tp = th[b].tp /\ outbufs' = [outbufs EXCEPT ![b] = Append(outbufs[b], req)]
        /\ req.msgs \in SUBSET MsgIds
    BY <1>3 DEF TypeOK, BufType, Built, Requests
  <2>2. TakenOut(Append(outbufs[b], req), outbufs[b], Len(outbufs[b]) + 1, req)
    BY <2>1, AppendTaken
  <2>3. /\ outbufs'[b] = Append(outbufs[b], req)
        /\ \A d \in Brokers : d # b => outbufs'[d] = outbufs[d]
    BY <2>1
  <2>4. ASSUME NEW p \in Partitions, NEW d \in Brokers, NEW T \in SUBSET MsgIds, NearAt(d, p, T)'
        PROVE  NearAt(d, p, T) \/ (p = th[b].tp /\ T = req.msgs)
    <3>1. CASE d = b
      <4>1. InQueue(outbufs'[b], p, T) <=> InQueue(outbufs[b], p, T) \/ IsBatch(req, p, T)
        BY <2>2, <2>3, TakenOutBatch
      <4>2. QED
        BY <1>1, <2>1, <2>4, <3>1, <4>1 DEF NearAt, NearIn, IsBatch
    <3>2. CASE d # b
      BY <1>1, <2>3, <2>4, <3>2 DEF NearAt, NearIn
    <3>3. QED
      BY <3>1, <3>2
  <2>5. Adds(b, req.msgs)
    BY <2>4 DEF Adds
  <2>6. QED
    BY <2>1, <2>5
<1>4. QED
  BY <1>1, <1>2, <1>3, ProduceRequestEffect

LEMMA AddsNear ==
  ASSUME NEW b \in Brokers, NEW S \in SUBSET MsgIds, Adds(b, S), NEW p \in Partitions
  PROVE  /\ p # th[b].tp => Cardinality(Near(p)') <= Cardinality(Near(p))
         /\ Cardinality(Near(p)') <= Cardinality(Near(p)) + 1
<1>1. IsFiniteSet(Near(p)) /\ Cardinality(Near(p)) \in Nat
  BY NearFinite
<1> DEFINE M == Near(p)
<1>2. /\ IsFiniteSet(M \cup {S}) /\ Cardinality(M \cup {S}) \in Nat
      /\ Cardinality(M \cup {S}) <= Cardinality(M) + 1
  <2> HIDE DEF M
  <2>1. IsFiniteSet(M) /\ Cardinality(M) \in Nat
    BY <1>1 DEF M
  <2>2. /\ IsFiniteSet(M \cup {S})
        /\ Cardinality(M \cup {S}) = IF S \in M THEN Cardinality(M) ELSE Cardinality(M) + 1
    BY <2>1, FS_AddElement
  <2>3. QED
    BY <2>1, <2>2, FS_CardinalityType
<1>3. Near(p)' \subseteq Near(p) \cup {S} /\ (p # th[b].tp => Near(p)' \subseteq Near(p))
  BY DEF Adds, Near
<1> DEFINE N == Near(p)'
<1>4. Cardinality(N) <= Cardinality(Near(p) \cup {S}) /\ Cardinality(N) \in Nat
  BY <1>2, <1>3, FS_Subset, FS_CardinalityType
<1>5. p # th[b].tp => Cardinality(N) <= Cardinality(Near(p))
  BY <1>1, <1>3, FS_Subset
<1>6. QED
  BY <1>1, <1>2, <1>4, <1>5

-----------------------------------------------------------------------------
(* A thread works on the partitions of its own broker only.                *)

AtHome == \A b \in Brokers : th[b].pc \in TopparPcs => rktp_broker[th[b].tp] = b

\* The steps that move a partition.
LEMMA SamePlaces ==
  ASSUME TypeOK, [Next]_vars
  PROVE  \/ UNCHANGED rktp_broker
         \/ \E b \in Brokers : PartitionLeft(b) \/ \E p \in Partitions : PartitionJoin(b, p)
<1>1. ASSUME NEW b \in Brokers,
             \/ PurgeNext(b) \/ ProduceRequest(b) \/ Transmit(b) \/ RecvResponse(b) \/ FailNext(b)
             \/ HandleStart(b) \/ HandleSuccess(b) \/ HandleError(b) \/ KafkaHandle(b)
      PROVE  UNCHANGED rktp_broker
  BY <1>1, Zenon DEF PurgeNext, ProduceRequest, Transmit, RecvResponse, FailNext,
     HandleStart, HandleSuccess, HandleError, KafkaHandle, place_vars
<1>2. QED
  BY <1>1, UntouchedFewer, Zenon DEF Next, BrokerThread

LEMMA AtHomeStep == TypeOK /\ AtHome /\ [Next]_vars => AtHome'
<1> SUFFICES ASSUME TypeOK, AtHome, [Next]_vars PROVE AtHome'
  OBVIOUS
<1>1. /\ rktp_broker \in [Partitions -> Brokers \cup {None}] /\ None \notin Brokers
      /\ th \in [Brokers -> Threads]
      /\ \A b \in Brokers : th[b].pc \in TopparPcs => th[b].tp \in Partitions
  BY BrokersAssumption DEF TypeOK, PlaceType, ThreadType
<1>2. "idle" \notin TopparPcs /\ "fail" \notin TopparPcs /\ "produce" \in TopparPcs
      /\ "toppar" \notin TopparPcs /\ "purge_op" \notin TopparPcs
  BY DEF TopparPcs
<1>3. ASSUME UNCHANGED rktp_broker, NEW b \in Brokers, BrokerThread(b) \/ BrokerFail(b)
      PROVE  AtHome'
  <2>1. Moves(b) /\ ThreadOf(b)
    BY <1>3, ThreadMoves
  <2>2. th'[b].pc \in TopparPcs =>
          \/ th[b].pc \in TopparPcs /\ th'[b].tp = th[b].tp
          \/ rktp_broker[th'[b].tp] = b
    <3>1. CASE Stays(b) \/ Loops(b) \/ Fails(b) \/ Failed(b)
      BY <1>2, <3>1 DEF Stays, Loops, Fails, Failed
    <3>2. CASE Works(b) \/ Starts(b) \/ Repeats(b)
      BY <1>2, <3>2 DEF Works, Starts, Repeats
    <3>3. QED
      BY <2>1, <3>1, <3>2 DEF Moves
  <2>3. QED
    BY <1>3, <2>1, <2>2 DEF AtHome, ThreadOf
<1>4. ASSUME NEW b \in Brokers, PartitionLeft(b)
      PROVE  AtHome'
  <2> DEFINE p == th[b].tp
  <2>1. th[b].pc = "purge_leave" /\ rktp_broker' = [rktp_broker EXCEPT ![p] = None]
        /\ th' = [th EXCEPT ![b] = IdleThread]
    BY <1>4 DEF PartitionLeft
  <2>2. th'[b].pc = "idle" /\ \A d \in Brokers : d # b => th'[d] = th[d]
    BY <1>1, <2>1 DEF IdleThread
  <2>3. rktp_broker[p] = b /\ p \in Partitions
    BY <1>1, <2>1, PcTypes DEF AtHome
  <2>4. ASSUME NEW d \in Brokers, th'[d].pc \in TopparPcs PROVE rktp_broker'[th'[d].tp] = d
    <3>1. d # b /\ th'[d] = th[d]
      BY <1>2, <2>2, <2>4
    <3>2. rktp_broker[th[d].tp] = d
      BY <2>4, <3>1 DEF AtHome
    <3>3. th[d].tp # p
      BY <2>3, <3>1, <3>2
    <3>4. QED
      BY <1>1, <2>1, <3>1, <3>2, <3>3
  <2>5. QED
    BY <2>4 DEF AtHome
<1>5. ASSUME NEW b \in Brokers, NEW p \in Partitions, PartitionJoin(b, p)
      PROVE  AtHome'
  <2>1. /\ rktp_broker' = [rktp_broker EXCEPT ![p] = b] /\ rktp_broker[p] = None
        /\ th' = th
    BY <1>5 DEF PartitionJoin, thread_vars
  <2>2. ASSUME NEW d \in Brokers, th[d].pc \in TopparPcs PROVE rktp_broker'[th[d].tp] = d
    <3>1. rktp_broker[th[d].tp] = d /\ th[d].tp # p
      BY <1>1, <2>1, <2>2 DEF AtHome
    <3>2. QED
      BY <1>1, <2>1, <3>1
  <2>3. QED
    BY <2>1, <2>2 DEF AtHome
<1>6. CASE UNCHANGED rktp_broker /\ UNCHANGED th
  BY <1>6 DEF AtHome
<1>7. QED
  BY <1>3, <1>4, <1>5, <1>6, SamePlaces, OtherThreads, Zenon

-----------------------------------------------------------------------------
(* No more requests than the window.                                       *)

\* The slot of a request with message m is the only one.
LEMMA NearDisjoint ==
  ASSUME OwnersInv, NEW p \in Partitions, NEW S, NEW T, NEW m \in MsgIds, m \in S, m \in T,
         NEW b \in Brokers, NEW d \in Brokers, NearAt(b, p, S), NearAt(d, p, T)
  PROVE  S = T
<1>1. Conserved(p, m)
  BY DEF OwnersInv
<1>2. Holds(b, p, m) /\ Holds(d, p, m)
  BY DEF Holds, HoldsIn, NearAt, NearIn, InQueue, IsBatch, Has, Match, InHand
<1>3. b = d /\ Once(b, p, m)
  BY <1>1, <1>2 DEF Conserved
<1>4. /\ InQueue(outbufs[b], p, S) => Has(outbufs[b], p, m)
      /\ InQueue(outbufs[b], p, T) => Has(outbufs[b], p, m)
      /\ InQueue(waitresps[b], p, S) => Has(waitresps[b], p, m)
      /\ InQueue(waitresps[b], p, T) => Has(waitresps[b], p, m)
  BY DEF InQueue, IsBatch, Has, Match
<1>5. /\ InQueue(outbufs[b], p, S) /\ InQueue(outbufs[b], p, T) => S = T
      /\ InQueue(waitresps[b], p, S) /\ InQueue(waitresps[b], p, T) => S = T
  BY <1>3 DEF Once, OnceIn, Uniq, InQueue, IsBatch, Match
<1>6. /\ hand[b].phase # "none" /\ IsBatch(hand[b].req, p, S) => InHand(hand[b], p, m)
      /\ hand[b].phase # "none" /\ IsBatch(hand[b].req, p, T) => InHand(hand[b], p, m)
      /\ IsBatch(hand[b].req, p, S) /\ IsBatch(hand[b].req, p, T) => S = T
  BY DEF IsBatch, InHand, Match
<1>7. QED
  BY <1>3, <1>4, <1>5, <1>6 DEF Once, OnceIn, NearAt, NearIn

\* A request has messages.
LEMMA NearNonEmpty ==
  ASSUME TypeOK, NEW p \in Partitions, NEW b \in Brokers, NEW S, NearAt(b, p, S)
  PROVE  S \in (SUBSET MsgIds) \ {{}}
<1>1. /\ outbufs[b] \in Seq(Requests) /\ waitresps[b] \in Seq(Requests)
  BY DEF TypeOK, BufType
<1>2. ASSUME NEW q \in Seq(Requests), NEW i \in DOMAIN q PROVE q[i].msgs \in (SUBSET MsgIds) \ {{}}
  <2>1. q[i] \in Requests
    BY <1>2, ElementOfSeq, LenProperties
  <2>2. QED
    BY <2>1 DEF Requests
<1>3. hand[b].phase # "none" => hand[b].req.msgs \in (SUBSET MsgIds) \ {{}}
  BY HandPhases
<1>4. QED
  BY <1>1, <1>2, <1>3 DEF NearAt, NearIn, InQueue, IsBatch

\* When the thread of the partition's broker handles no result, every request
\* near the partition is in flight.
LEMMA NearFlies ==
  ASSUME TypeOK, OwnersInv, NEW b \in Brokers, hand[b].phase = "none", NEW p \in Partitions,
         rktp_broker[p] = b
  PROVE  Cardinality(Near(p)) <= Cardinality(Flying(p))
<1> DEFINE pick(S) == CHOOSE m : m \in S
           f == [S \in Near(p) |-> pick(S)]
<1>1. ASSUME NEW S \in Near(p) PROVE pick(S) \in S /\ pick(S) \in Flying(p)
  <2>1. PICK d \in Brokers : NearAt(d, p, S)
    BY DEF Near
  <2>2. S \in (SUBSET MsgIds) \ {{}}
    BY <2>1, NearNonEmpty
  <2>3. pick(S) \in S
    BY <2>2
  <2> HIDE DEF pick
  <2>4. pick(S) \in MsgIds
    BY <2>2, <2>3
  <2>5. Carries(d, p, pick(S))
    BY <2>1, <2>3 DEF NearAt, NearIn, Carries, InQueue, IsBatch, Has, Match
  <2>6. QED
    BY <2>3, <2>4, <2>5 DEF Flying
<1> HIDE DEF pick
<1>2. ASSUME NEW S \in Near(p), NEW T \in Near(p), pick(S) = pick(T) PROVE S = T
  <2>1. PICK d \in Brokers : NearAt(d, p, S)
    BY DEF Near
  <2>2. PICK c \in Brokers : NearAt(c, p, T)
    BY DEF Near
  <2>3. pick(S) \in S /\ pick(S) \in T /\ pick(S) \in MsgIds
    BY <1>1, <1>2 DEF Flying
  <2>4. QED
    BY <2>1, <2>2, <2>3, NearDisjoint
<1>3. f \in [Near(p) -> Flying(p)]
  BY <1>1
<1>4. \A S, T \in Near(p) : f[S] = f[T] => S = T
  BY <1>2
<1> HIDE DEF f
<1>5. f \in Injection(Near(p), Flying(p))
  BY <1>3, <1>4 DEF Injection, IsInjective
<1>6. QED
  BY <1>5, FlyingFinite, FS_Injection

\* The bound, with the room that a thread building requests still has.
Room(b) == th[b].pc = "produce" =>
             th[b].left > 0 /\ Cardinality(Near(th[b].tp)) + th[b].left <= MaxInflight
BoundInv == /\ \A p \in Partitions : Cardinality(Near(p)) <= MaxInflight
            /\ \A b \in Brokers : Room(b)

\* Every step but the building of a request keeps or removes requests.
LEMMA StepFewer ==
  ASSUME TypeOK, [Next]_vars
  PROVE  Fewer \/ \E b \in Brokers : ProduceRequest(b)
<1>1. ASSUME NEW b \in Brokers, PartitionLeft(b) PROVE Fewer
  <2> DEFINE r == th[b].tp
  <2>1. /\ hand[b].phase = "none" /\ UNCHANGED <<outbufs, waitresps, hand>>
        /\ th[b].pc = "purge_leave" /\ rktp_broker' = [rktp_broker EXCEPT ![r] = None]
    BY <1>1 DEF PartitionLeft, Free, buf_vars
  <2>2. r \in Partitions
    BY <2>1, PcTypes DEF TypeOK, ThreadType
  <2>3. QED
    BY <2>1, <2>2, MovingFewer
<1>2. ASSUME NEW b \in Brokers, NEW p \in Partitions, PartitionJoin(b, p) PROVE Fewer
  <2>1. /\ hand[b].phase = "none" /\ UNCHANGED <<outbufs, waitresps, hand>>
        /\ rktp_broker' = [rktp_broker EXCEPT ![p] = b]
    BY <1>2 DEF PartitionJoin, Idle, Free, buf_vars, thread_vars
  <2>2. QED
    BY <2>1, MovingFewer
<1>3. QED
  BY <1>1, <1>2, UntouchedFewer, TransmitFewer, TakingFewer, HandlingFewer, KafkaHandleFewer,
     Zenon DEF Next, BrokerThread

\* The step to the request loop leaves room for the requests in flight.
LEMMA StartsRoom ==
  ASSUME TypeOK, OwnersInv, PerToppar, AtHome, NEW b \in Brokers, Starts(b), Fewer
  PROVE  Room(b)'
<1>0. PICK p \in Partitions : p = th[b].tp
  BY DEF TypeOK, ThreadType, Starts
<1> DEFINE n == msgs_inflight[p]
<1>1. th[b].pc \in TopparPcs /\ hand[b].phase = "none" /\ th'[b].tp = p
      /\ th'[b].left = MaxRequests(th[b].left, n) /\ th'[b].left > 0
  BY <1>0 DEF Starts, ServeChecks, Free
<1>2. p \in Partitions /\ rktp_broker[p] = b /\ th[b].left \in Int
  BY <1>0, <1>1 DEF TypeOK, ThreadType, AtHome, Threads
<1>3. n = Cardinality(Flying(p)) /\ n \in Nat
  BY <1>2, FlyingFinite DEF PerToppar
<1>4. Cardinality(Near(p)) <= n /\ Cardinality(Near(p)) \in Nat
  BY <1>1, <1>2, <1>3, NearFlies, NearFinite
<1>5. th'[b].left <= MaxInflight - n /\ th'[b].left \in Int /\ MaxInflight \in Nat
  <2>1. MaxInflight - n \in Int /\ MaxInflight \in Nat
    BY <1>3, BoundsAssumption
  <2> DEFINE x == MaxInflight - n
             y == th[b].left
  <2>2. MaxRequests(y, n) = Min({y, x}) /\ x \in Int /\ y \in Int
    BY <1>0, <1>2, <2>1 DEF MaxRequests
  <2> HIDE DEF x, y
  <2>3. Min({y, x}) \in {y, x} /\ Min({y, x}) <= x
    BY <2>2, MinOfTwo
  <2>4. MaxRequests(th[b].left, n) <= x /\ MaxRequests(th[b].left, n) \in Int
    BY <2>2, <2>3 DEF y
  <2>5. QED
    BY <1>1, <2>1, <2>4 DEF x
<1>6. Cardinality(Near(p)') <= Cardinality(Near(p)) /\ Cardinality(Near(p)') \in Nat
  BY <1>2, FewerNear
<1>7. Cardinality(Near(p)') + th'[b].left <= MaxInflight
  BY <1>3, <1>4, <1>5, <1>6
<1>8. Near(th[b].tp)' = Near(p)'
  BY <1>1 DEF Near
<1>9. QED
  BY <1>1, <1>7, <1>8 DEF Room

\* A thread that keeps building requests has room for one less.
LEMMA BuildingBound ==
  ASSUME TypeOK, BoundInv, AtHome, NEW b \in Brokers, ProduceRequest(b)
  PROVE  BoundInv'
<1>1. PICK S \in SUBSET MsgIds : Adds(b, S)
  BY BuildingAdds
<1>2. th[b].pc = "produce" /\ "produce" \in TopparPcs
  BY DEF ProduceRequest, TopparPcs
<1>3. PICK p \in Partitions : p = th[b].tp
  BY <1>2 DEF TypeOK, ThreadType
<1>4. (Loops(b) \/ Repeats(b)) /\ ThreadOf(b)
  BY ProduceRequestMoves
<1>5. /\ th[b].left > 0 /\ Cardinality(Near(p)) + th[b].left <= MaxInflight
      /\ th[b].left \in Int /\ MaxInflight \in Nat
  BY <1>2, <1>3, BoundsAssumption DEF BoundInv, Room, TypeOK, ThreadType, Threads
<1>6. \A q \in Partitions : /\ Cardinality(Near(q)) \in Nat
                            /\ q # p => Cardinality(Near(q)') <= Cardinality(Near(q))
                            /\ Cardinality(Near(q)') <= Cardinality(Near(q)) + 1
  BY <1>1, <1>3, AddsNear, NearFinite
<1>7. \A q \in Partitions : Cardinality(Near(q)') \in Nat
  <2> TAKE q \in Partitions
  <2>1. IsFiniteSet(SUBSET MsgIds)
    BY MsgSetType, FS_SUBSET
  <2>2. Near(q)' \in SUBSET (SUBSET MsgIds)
    BY DEF Near
  <2>3. QED
    BY <2>1, <2>2, FS_Subset, FS_CardinalityType
<1>8. \A q \in Partitions : Cardinality(Near(q)') <= MaxInflight
  BY <1>5, <1>6, <1>7 DEF BoundInv
<1>9. ASSUME NEW d \in Brokers PROVE Room(d)'
  <2>1. CASE d = b /\ Repeats(b)
    <3>1. th'[b].left = th[b].left - 1 /\ th'[b].left > 0 /\ th'[b].tp = p
      BY <1>3, <2>1 DEF Repeats
    <3>2. Cardinality(Near(p)') + th'[b].left <= MaxInflight
      BY <1>5, <1>6, <1>7, <3>1
    <3>3. QED
      BY <2>1, <3>1, <3>2 DEF Room, Near
  <2>2. CASE d = b /\ Loops(b)
    BY <2>2 DEF Room, Loops
  <2>3. CASE d # b /\ th[d].pc = "produce"
    <3>1. th'[d] = th[d]
      BY <1>4, <2>3 DEF ThreadOf
    <3>2. PICK q \in Partitions : q = th[d].tp
      BY <1>2, <2>3 DEF TypeOK, ThreadType
    <3>3. q # p
      BY <1>2, <1>3, <2>3, <3>2 DEF AtHome
    <3>4. /\ th[d].left > 0 /\ Cardinality(Near(q)) + th[d].left <= MaxInflight
          /\ th[d].left \in Int
      BY <2>3, <3>2 DEF BoundInv, Room, TypeOK, ThreadType, Threads
    <3>5. Cardinality(Near(q)') + th'[d].left <= MaxInflight
      BY <1>5, <1>6, <1>7, <3>1, <3>3, <3>4
    <3>6. QED
      BY <3>1, <3>2, <3>4, <3>5 DEF Room, Near
  <2>4. CASE d # b /\ th[d].pc # "produce"
    BY <1>4, <2>4 DEF ThreadOf, Room
  <2>5. QED
    BY <1>4, <2>1, <2>2, <2>3, <2>4
<1>10. QED
  BY <1>8, <1>9 DEF BoundInv

LEMMA BoundStep ==
  TypeOK /\ OwnersInv /\ PerToppar /\ AtHome /\ BoundInv /\ [Next]_vars => BoundInv'
<1> SUFFICES ASSUME TypeOK, OwnersInv, PerToppar, AtHome, BoundInv, [Next]_vars
             PROVE  BoundInv'
  OBVIOUS
<1>1. ASSUME NEW b \in Brokers, ProduceRequest(b) PROVE BoundInv'
  BY <1>1, BuildingBound
<1>2. CASE Fewer /\ ~(\E b \in Brokers : ProduceRequest(b))
  <2>1. \A p \in Partitions : /\ Cardinality(Near(p)) \in Nat /\ Cardinality(Near(p)') \in Nat
                              /\ Cardinality(Near(p)') <= Cardinality(Near(p))
    BY <1>2, FewerNear, NearFinite
  <2>2. \A p \in Partitions : Cardinality(Near(p)') <= MaxInflight
    BY <2>1, BoundsAssumption DEF BoundInv
  <2>3. ASSUME NEW d \in Brokers, th'[d].pc = th[d].pc, th'[d].tp = th[d].tp,
               th'[d].left = th[d].left
        PROVE  Room(d)'
    <3>1. CASE th[d].pc = "produce"
      <4>1. PICK p \in Partitions : p = th[d].tp
        BY <3>1 DEF TypeOK, ThreadType, TopparPcs
      <4>2. /\ th[d].left > 0 /\ Cardinality(Near(p)) + th[d].left <= MaxInflight
            /\ th[d].left \in Int /\ MaxInflight \in Nat
        BY <3>1, <4>1, BoundsAssumption DEF BoundInv, Room, TypeOK, ThreadType, Threads
      <4>3. Cardinality(Near(p)') + th'[d].left <= MaxInflight
        BY <2>1, <2>3, <4>2
      <4>4. QED
        BY <2>3, <4>1, <4>2, <4>3 DEF Room, Near
    <3>2. CASE th[d].pc # "produce"
      BY <2>3, <3>2 DEF Room
    <3>3. QED
      BY <3>1, <3>2
  <2>4. CASE UNCHANGED th
    BY <2>2, <2>3, <2>4 DEF BoundInv
  <2>5. ASSUME NEW b \in Brokers, BrokerThread(b) \/ BrokerFail(b) PROVE BoundInv'
    <3>1. Moves(b) /\ ThreadOf(b)
      BY <2>5, ThreadMoves
    <3>2. ASSUME Stays(b) PROVE Room(b)'
      BY <2>3, <3>2 DEF Stays
    <3>3. ASSUME Loops(b) \/ Fails(b) \/ Failed(b) \/ Works(b) PROVE Room(b)'
      <4>1. th'[b].pc # "produce"
        BY <3>3 DEF Loops, Fails, Failed, Works
      <4>2. QED
        BY <4>1 DEF Room
    <3>4. ASSUME Starts(b) PROVE Room(b)'
      BY <1>2, <3>4, StartsRoom
    <3>5. ~Repeats(b)
      BY <1>2 DEF Repeats
    <3>6. Room(b)'
      BY <3>1, <3>2, <3>3, <3>4, <3>5 DEF Moves
    <3>7. \A d \in Brokers : d # b => Room(d)'
      BY <2>3, <3>1 DEF ThreadOf
    <3>8. QED
      BY <2>2, <3>6, <3>7 DEF BoundInv
  <2>6. QED
    BY <2>4, <2>5, OtherThreads
<1>3. QED
  BY <1>1, <1>2, StepFewer

LEMMA InitBound == Init => AtHome /\ BoundInv
<1> SUFFICES ASSUME Init PROVE AtHome /\ BoundInv
  OBVIOUS
<1>1. \A b \in Brokers : th[b].pc = "idle" /\ hand[b].phase = "none"
                         /\ outbufs[b] = <<>> /\ waitresps[b] = <<>>
  BY DEF Init, IdleThread, NoHand
<1>2. ASSUME NEW p \in Partitions PROVE Near(p) = {}
  <2>1. ASSUME NEW b \in Brokers, NEW S PROVE ~NearAt(b, p, S)
    BY <1>1 DEF NearAt, NearIn, InQueue
  <2>2. QED
    BY <2>1 DEF Near
<1>3. \A p \in Partitions : Cardinality(Near(p)) <= MaxInflight
  BY <1>2, FS_EmptySet, BoundsAssumption
<1>4. QED
  BY <1>1, <1>3 DEF AtHome, BoundInv, Room, TopparPcs

\* The requests of a partition, leaving out a result that the thread of another
\* broker, a former leader's, has begun to handle.
NearSlots(p) == {s \in SlotsOf(p) :
                   (s[1] = "hand" /\ hand[s[2]].phase # "start") => rktp_broker[p] = s[2]}

\* At most RD_KAFKA_IDEMP_MAX_INFLIGHT requests of a partition are under way: the
\* unsent ones, the ones waiting for a reply, and the one whose result its broker's
\* thread is handling.
InflightWindow == \A p \in Partitions : Cardinality(NearSlots(p)) <= MaxInflight

LEMMA SlotNear ==
  ASSUME NEW p \in Partitions, NEW s \in NearSlots(p)
  PROVE  \E b \in Brokers : NearAt(b, p, ReqAt(s).msgs)
<1>1. s \in Slots /\ ReqAt(s).tp = p
  BY DEF NearSlots, SlotsOf
<1>2. PICK b \in Brokers : \/ \E i \in DOMAIN outbufs[b] : s = <<"out", b, i>>
                           \/ \E i \in DOMAIN waitresps[b] : s = <<"wait", b, i>>
                           \/ hand[b].phase # "none" /\ s = <<"hand", b, 1>>
  BY <1>1, SlotFacts
<1>3. CASE \E i \in DOMAIN outbufs[b] : s = <<"out", b, i>>
  <2>1. PICK i \in DOMAIN outbufs[b] : s = <<"out", b, i>>
    BY <1>3
  <2>2. ReqAt(s) = outbufs[b][i]
    BY <2>1, ReqFacts
  <2>3. QED
    BY <1>1, <2>2 DEF NearAt, NearIn, InQueue, IsBatch
<1>4. CASE \E i \in DOMAIN waitresps[b] : s = <<"wait", b, i>>
  <2>1. PICK i \in DOMAIN waitresps[b] : s = <<"wait", b, i>>
    BY <1>4
  <2>2. ReqAt(s) = waitresps[b][i]
    BY <2>1, ReqFacts
  <2>3. QED
    BY <1>1, <2>2 DEF NearAt, NearIn, InQueue, IsBatch
<1>5. CASE hand[b].phase # "none" /\ s = <<"hand", b, 1>>
  <2>1. ReqAt(s) = hand[b].req /\ s[1] = "hand" /\ s[2] = b
    BY <1>5, ReqFacts
  <2>2. hand[b].phase = "start" \/ rktp_broker[p] = b
    BY <2>1 DEF NearSlots
  <2>3. QED
    BY <1>1, <1>5, <2>1, <2>2 DEF NearAt, NearIn, IsBatch
<1>6. QED
  BY <1>2, <1>3, <1>4, <1>5

\* Two requests of a partition have no message in common.
LEMMA SlotsApart ==
  ASSUME MessageConservation, NEW p \in Partitions, NEW s \in SlotsOf(p), NEW t \in SlotsOf(p),
         NEW m \in MsgIds, m \in ReqAt(s).msgs, m \in ReqAt(t).msgs
  PROVE  s = t
<1>1. s \in Owners(p, m) /\ t \in Owners(p, m)
  BY DEF Owners
<1>2. \E o \in Owners(p, m) : Owners(p, m) = {o}
  BY <1>1 DEF MessageConservation
<1>3. QED
  BY <1>1, <1>2

LEMMA SlotsCounted ==
  ASSUME TypeOK, MessageConservation, BoundInv, NEW p \in Partitions
  PROVE  Cardinality(NearSlots(p)) \in Nat /\ Cardinality(NearSlots(p)) <= MaxInflight
<1> DEFINE msgs(s) == ReqAt(s).msgs
           f == [s \in NearSlots(p) |-> msgs(s)]
<1>1. ASSUME NEW s \in NearSlots(p)
      PROVE  msgs(s) \in Near(p) /\ msgs(s) \in (SUBSET MsgIds) \ {{}}
  <2>1. PICK b \in Brokers : NearAt(b, p, msgs(s))
    BY SlotNear
  <2>2. msgs(s) \in (SUBSET MsgIds) \ {{}}
    BY <2>1, NearNonEmpty
  <2>3. QED
    BY <2>1, <2>2 DEF Near
<1>2. ASSUME NEW s \in NearSlots(p), NEW t \in NearSlots(p), msgs(s) = msgs(t)
      PROVE  s = t
  <2>1. s \in SlotsOf(p) /\ t \in SlotsOf(p)
    BY DEF NearSlots
  <2>2. PICK m \in MsgIds : m \in msgs(s) /\ m \in msgs(t)
    BY <1>1, <1>2
  <2>3. QED
    BY <2>1, <2>2, SlotsApart
<1> HIDE DEF msgs
<1>3. f \in [NearSlots(p) -> Near(p)] /\ \A s, t \in NearSlots(p) : f[s] = f[t] => s = t
  BY <1>1, <1>2
<1> HIDE DEF f
<1>4. f \in Injection(NearSlots(p), Near(p))
  BY <1>3 DEF Injection, IsInjective
<1>5. Cardinality(NearSlots(p)) <= Cardinality(Near(p)) /\ IsFiniteSet(NearSlots(p))
  BY <1>4, NearFinite, FS_Injection
<1>6. Cardinality(NearSlots(p)) \in Nat /\ Cardinality(Near(p)) \in Nat /\ MaxInflight \in Nat
  BY <1>5, NearFinite, FS_CardinalityType, BoundsAssumption
<1>7. QED
  BY <1>5, <1>6 DEF BoundInv

LEMMA BoundIsWindow == TypeOK /\ MessageConservation /\ BoundInv => InflightWindow
BY SlotsCounted DEF InflightWindow

\* The in-flight limit of rd_kafka_toppar_producer_serve() is compared with the number
\* of messages in flight; it bounds the requests, whatever the leader changes.
THEOREM WindowRespected == Spec => []InflightWindow
<1>1. Init => TypeOK /\ OwnersInv /\ PerToppar /\ PerClient /\ AtHome /\ BoundInv
  BY InitType, InitOwners, InitCounts, InitBound
<1>2. TypeOK /\ OwnersInv /\ PerToppar /\ PerClient /\ AtHome /\ BoundInv /\ [Next]_vars
        => TypeOK' /\ OwnersInv' /\ PerToppar' /\ PerClient' /\ AtHome' /\ BoundInv'
  BY NextType, NextOwners, NextCounts, AtHomeStep, BoundStep
<1>3. TypeOK /\ OwnersInv /\ BoundInv => InflightWindow
  BY OwnersOne, BoundIsWindow
<1>4. QED
  BY <1>1, <1>2, <1>3, PTL DEF Spec

-----------------------------------------------------------------------------
(* One broker: every partition stays where it is.                          *)

OneBroker == \A b, d \in Brokers : b = d

Settled == /\ \A p \in Partitions : rktp_broker[p] = leader[p] /\ next_broker[p] = None
           /\ \A b \in Brokers : th[b].pc # "purge_leave"

LEMMA SamePlans ==
  ASSUME [Next]_vars
  PROVE  \/ UNCHANGED next_broker
         \/ \E p \in Partitions : Delegate(p)
         \/ \E b \in Brokers, p \in Partitions : PartitionJoin(b, p)
<1>1. CASE \/ PidFsm \/ PidUpdate \/ RequestPidFailed \/ Purge \/ UNCHANGED vars
           \/ \E p \in Partitions : \/ Produce(p) \/ Expire(p) \/ LeaderChange(p)
                                    \/ KafkaForget(p)
  BY <1>1, Zenon DEF PidFsm, PidUpdate, RequestPidFailed, Purge, Produce, Expire,
     LeaderChange, KafkaForget, vars, place_vars
<1>2. CASE \E b \in Brokers :
             \/ ServeBegin(b) \/ PurgeDrainDone(b) \/ ServeChecks(b) \/ PurgeOp(b)
             \/ PurgeQueues(b) \/ HandleStart(b) \/ HandleSuccess(b) \/ HandleError(b)
             \/ CallDrainDone(b) \/ PartitionLeft(b) \/ KafkaStale(b)
  BY <1>2, Zenon DEF ServeBegin, PurgeDrainDone, ServeChecks, PurgeOp,
     PurgeQueues, HandleStart, HandleSuccess, HandleError, CallDrainDone, PartitionLeft,
     KafkaStale, place_vars
<1>3. CASE \E b \in Brokers :
             \/ PurgeNext(b) \/ ProduceRequest(b) \/ Transmit(b) \/ RecvResponse(b)
             \/ FailNext(b) \/ Reconnect(b) \/ BrokerFail(b) \/ KafkaHandle(b)
  BY <1>3, Zenon DEF PurgeNext, ProduceRequest, Transmit, RecvResponse, FailNext, Reconnect,
     BrokerFail, KafkaHandle, place_vars
<1>4. CASE \E b \in Brokers, p \in Partitions :
             ServeTimeout(b, p) \/ ServeToppar(b, p) \/ PartitionLeave(b, p)
  BY <1>4 DEF ServeTimeout, ServeToppar, PartitionLeave, place_vars
<1>5. QED
  BY <1>1, <1>2, <1>3, <1>4, Zenon DEF Next, BrokerThread

LEMMA SettledStep ==
  OneBroker => (TypeOK /\ TypeOK' /\ Settled /\ [Next]_vars => Settled')
<1> SUFFICES ASSUME OneBroker, TypeOK, TypeOK', Settled, [Next]_vars PROVE Settled'
  OBVIOUS
<1>1. leader' = leader
  <2>1. leader \in [Partitions -> Brokers] /\ leader' \in [Partitions -> Brokers]
    BY DEF TypeOK, KafkaType
  <2>2. \A p \in Partitions : leader'[p] = leader[p]
    BY <2>1 DEF OneBroker
  <2>3. QED
    BY <2>1, <2>2
<1>2. \A p \in Partitions : leader[p] \in Brokers /\ leader[p] # None
  BY BrokersAssumption DEF TypeOK, KafkaType
<1>3. ~(\E p \in Partitions : Delegate(p))
  BY DEF Settled, Delegate, Delegated
<1>4. ~(\E b \in Brokers, p \in Partitions : PartitionJoin(b, p))
  BY BrokersAssumption DEF Settled, PartitionJoin
<1>5. ~(\E b \in Brokers : PartitionLeft(b))
  BY DEF Settled, PartitionLeft
<1>6. UNCHANGED <<rktp_broker, next_broker>>
  BY <1>3, <1>4, <1>5, SamePlaces, SamePlans
<1>7. ASSUME NEW b \in Brokers, Moves(b) PROVE th'[b].pc # "purge_leave"
  <2>1. CASE Stays(b)
    BY <2>1 DEF Stays, Settled
  <2>2. CASE Loops(b) \/ Fails(b) \/ Failed(b) \/ Starts(b) \/ Repeats(b)
    BY <2>2 DEF Loops, Fails, Failed, Starts, Repeats
  <2>3. CASE Works(b)
    BY <2>3 DEF Works, Settled
  <2>4. QED
    BY <1>7, <2>1, <2>2, <2>3 DEF Moves
<1>8. \A b \in Brokers : th'[b].pc # "purge_leave"
  <2>1. CASE UNCHANGED th
    BY <2>1 DEF Settled
  <2>2. ASSUME NEW b \in Brokers, BrokerThread(b) \/ BrokerFail(b)
        PROVE  \A d \in Brokers : th'[d].pc # "purge_leave"
    <3>1. Moves(b) /\ ThreadOf(b)
      BY <2>2, ThreadMoves
    <3>2. QED
      BY <1>7, <3>1 DEF ThreadOf, Settled
  <2>3. QED
    BY <2>1, <2>2, OtherThreads
<1>9. QED
  BY <1>1, <1>6, <1>8 DEF Settled

LEMMA InitSettled == Init => Settled
BY DEF Init, Settled, IdleThread

\* With one broker the requests of a partition are all near it.
LEMMA AllNear ==
  ASSUME OneBroker, TypeOK, Settled, NEW p \in Partitions
  PROVE  NearSlots(p) = SlotsOf(p)
<1>1. ASSUME NEW s \in SlotsOf(p), s[1] = "hand" PROVE rktp_broker[p] = s[2]
  <2>1. PICK b \in Brokers : \/ \E i \in DOMAIN outbufs[b] : s = <<"out", b, i>>
                             \/ \E i \in DOMAIN waitresps[b] : s = <<"wait", b, i>>
                             \/ hand[b].phase # "none" /\ s = <<"hand", b, 1>>
    BY SlotFacts DEF SlotsOf
  <2>2. s = <<"hand", b, 1>>
    BY <1>1, <2>1
  <2>3. rktp_broker[p] \in Brokers
    BY DEF Settled, TypeOK, KafkaType
  <2>4. QED
    BY <2>2, <2>3 DEF OneBroker
<1>2. QED
  BY <1>1 DEF NearSlots

LEMMA WindowIsBound ==
  OneBroker /\ MaxInflight <= Window => (TypeOK /\ MessageConservation /\ BoundInv /\ Settled => InflightBound)
<1> SUFFICES ASSUME OneBroker, MaxInflight <= Window, TypeOK, MessageConservation, BoundInv, Settled,
                    NEW p \in Partitions
             PROVE  Cardinality(SlotsOf(p)) <= Window
  BY DEF InflightBound
<1>1. NearSlots(p) = SlotsOf(p)
  BY AllNear
<1>2. Cardinality(SlotsOf(p)) \in Nat /\ Cardinality(SlotsOf(p)) <= MaxInflight
  BY <1>1, SlotsCounted
<1>3. QED
  BY <1>2, BoundsAssumption, WindowAssumption

\* With one broker, and the limit within the broker's window of remembered batches, a
\* partition never has more requests in the client than the broker remembers.
THEOREM BoundRespected ==
  ASSUME OneBroker, MaxInflight <= Window
  PROVE  Spec => []InflightBound
<1>1. Init => TypeOK /\ OwnersInv /\ PerToppar /\ PerClient /\ AtHome /\ BoundInv /\ Settled
  BY InitType, InitOwners, InitCounts, InitBound, InitSettled
<1>2. TypeOK /\ OwnersInv /\ PerToppar /\ PerClient /\ AtHome /\ BoundInv /\ Settled /\ [Next]_vars
        => TypeOK' /\ OwnersInv' /\ PerToppar' /\ PerClient' /\ AtHome' /\ BoundInv' /\ Settled'
  BY NextType, NextOwners, NextCounts, AtHomeStep, BoundStep, SettledStep
<1>3. TypeOK /\ OwnersInv /\ BoundInv /\ Settled => InflightBound
  BY OwnersOne, WindowIsBound
<1>4. QED
  BY <1>1, <1>2, <1>3, PTL DEF Spec

-----------------------------------------------------------------------------
(* A partition takes a new pid when it has no request left.                *)

\* The pid of a partition changes in ServeChecks only.
LEMMA SamePids ==
  ASSUME TypeOK, [Next]_vars
  PROVE  \/ \A p \in Partitions : eos'[p].pid = eos[p].pid
         \/ \E b \in Brokers : ServeChecks(b)
<1>0. eos \in [Partitions -> EosStates]
  BY DEF TypeOK, TopparType
<1>1. CASE \/ PidFsm \/ PidUpdate \/ RequestPidFailed \/ Purge \/ UNCHANGED vars
           \/ \E p \in Partitions : \/ Produce(p) \/ Expire(p) \/ Delegate(p)
                                    \/ LeaderChange(p) \/ KafkaForget(p)
  <2>1. UNCHANGED eos
    BY <1>1, Zenon DEF PidFsm, PidUpdate, RequestPidFailed, Purge, Produce, Expire, Delegate,
       LeaderChange, KafkaForget, vars, toppar_vars
  <2>2. QED
    BY <2>1
<1>2. CASE \E b \in Brokers :
             \/ ServeBegin(b) \/ PurgeDrainDone(b) \/ PurgeOp(b)
             \/ PurgeQueues(b) \/ HandleStart(b)
             \/ CallDrainDone(b) \/ PartitionLeft(b) \/ KafkaStale(b)
  <2>1. UNCHANGED eos
    BY <1>2, Zenon DEF ServeBegin, PurgeDrainDone, PurgeOp, PurgeQueues, HandleStart,
       CallDrainDone, PartitionLeft, KafkaStale, toppar_vars
  <2>2. QED
    BY <2>1
<1>3. CASE \E b \in Brokers :
             \/ PurgeNext(b) \/ ProduceRequest(b) \/ Transmit(b) \/ RecvResponse(b)
             \/ FailNext(b) \/ Reconnect(b) \/ BrokerFail(b) \/ KafkaHandle(b)
  <2>1. UNCHANGED eos
    BY <1>3, Zenon DEF PurgeNext, ProduceRequest, Transmit, RecvResponse, FailNext, Reconnect,
       BrokerFail, KafkaHandle, toppar_vars
  <2>2. QED
    BY <2>1
<1>4. CASE \E b \in Brokers, p \in Partitions :
             ServeTimeout(b, p) \/ ServeToppar(b, p) \/ PartitionLeave(b, p)
  BY <1>4 DEF ServeTimeout, ServeToppar, PartitionLeave, toppar_vars
<1>5. ASSUME NEW b \in Brokers, NEW q \in Partitions, PartitionJoin(b, q)
      PROVE  \A p \in Partitions : eos'[p].pid = eos[p].pid
  <2>1. eos' = [eos EXCEPT ![q].wait_drain = TRUE]
    BY <1>5 DEF PartitionJoin
  <2>2. QED
    BY <1>0, <2>1 DEF EosStates
<1>6. ASSUME NEW q \in Partitions, NEW t, t.pid = eos[q].pid, eos' = [eos EXCEPT ![q] = t]
      PROVE  \A p \in Partitions : eos'[p].pid = eos[p].pid
  BY <1>0, <1>6
<1>7. ASSUME NEW b \in Brokers, HandleSuccess(b) \/ HandleError(b)
      PROVE  \A p \in Partitions : eos'[p].pid = eos[p].pid
  <2> DEFINE r == hand[b].req
             q == r.tp
  <2>1. hand[b].phase # "none"
    BY <1>7 DEF HandleSuccess, HandleError
  <2>2. q \in Partitions
    BY <2>1, HandPhases
  <2>3. eos[q] \in EosStates
    BY <1>0, <2>2
  <2>4. CASE HandleSuccess(b)
    <3> DEFINE t == eos[q]
               implicit == t.acked_msgid < Min(r.msgs) - 1
               unexpected == /\ ~implicit
                             /\ r.first_seq # t.next_ack_seq
                             /\ r.first_seq = t.next_err_seq
               x == IF unexpected \/ t.next_err_seq = t.next_ack_seq
                    THEN NextSeq(r) ELSE t.next_err_seq
               y == IF unexpected THEN t.next_ack_seq ELSE NextSeq(r)
               z == Max({t.acked_msgid, Max(r.msgs)})
               u == [t EXCEPT !.next_err_seq = x, !.next_ack_seq = y, !.acked_msgid = z]
    <3>1. eos' = [eos EXCEPT ![q] = u]
      BY <2>4 DEF HandleSuccess
    <3> HIDE DEF x, y, z
    <3>2. u.pid = eos[q].pid
      BY <2>3 DEF EosStates
    <3> HIDE DEF u, q
    <3>3. QED
      BY <1>6, <2>2, <3>1, <3>2
  <2>5. CASE HandleError(b)
    <3> DEFINE t == eos[q]
               a == IdempotentProduceError(r, hand[b].err, t, rkm[q][Min(r.msgs)].retries)
               x == IF a.ok THEN NextSeq(r) ELSE t.next_ack_seq
               y == NextSeq(r)
               z == t.wait_drain \/ a.retry
               u == [t EXCEPT !.next_ack_seq = x, !.next_err_seq = y, !.wait_drain = z]
    <3>1. eos' = [eos EXCEPT ![q] = u]
      BY <2>5 DEF HandleError
    <3> HIDE DEF x, y, z
    <3>2. u.pid = eos[q].pid
      BY <2>3 DEF EosStates
    <3> HIDE DEF u, q
    <3>3. QED
      BY <1>6, <2>2, <3>1, <3>2
  <2>6. QED
    BY <1>7, <2>4, <2>5
<1>8. QED
  BY <1>1, <1>2, <1>3, <1>4, <1>5, <1>7, Zenon DEF Next, BrokerThread

\* rd_kafka_toppar_pid_change() runs when nothing is in flight.
LEMMA ChecksPid ==
  ASSUME TypeOK, NEW b \in Brokers, ServeChecks(b), NEW p \in Partitions,
         eos'[p].pid # eos[p].pid
  PROVE  /\ p = th[b].tp /\ th[b].pc \in TopparPcs /\ hand[b].phase = "none"
         /\ msgs_inflight[p] = 0
<1> DEFINE q == th[b].tp
           e == [eos[q] EXCEPT !.wait_drain = FALSE]
<1>1. /\ th[b].pc \in {"checks", "purge_pid"} /\ hand[b].phase = "none"
  BY DEF ServeChecks, Free
<1>2. th[b].pc \in TopparPcs /\ q \in Partitions /\ eos \in [Partitions -> EosStates]
  BY <1>1, PcTypes DEF TypeOK, ThreadType, TopparType
<1>3. e.pid = eos[q].pid
  BY <1>2 DEF EosStates
<1>4. \/ eos' = eos \/ eos' = [eos EXCEPT ![q] = e]
      \/ /\ MayChangePid(q)
         /\ eos' = [eos EXCEPT ![q] = PidChange(e, th[b].pid, Min(xmit_msgq[q]))]
  BY DEF ServeChecks
<1> HIDE DEF e
<1>5. p = q
  BY <1>2, <1>4
<1>6. MayChangePid(q)
  BY <1>2, <1>3, <1>4
<1>7. QED
  BY <1>1, <1>2, <1>5, <1>6 DEF MayChangePid

LEMMA NothingNear ==
  ASSUME TypeOK, OwnersInv, PerToppar, NEW b \in Brokers, hand[b].phase = "none",
         NEW p \in Partitions, rktp_broker[p] = b, msgs_inflight[p] = 0
  PROVE  NearSlots(p) = {}
<1>1. Cardinality(Near(p)) <= 0 /\ Cardinality(Near(p)) \in Nat /\ IsFiniteSet(Near(p))
  BY NearFlies, NearFinite DEF PerToppar
<1>2. Near(p) = {}
  BY <1>1, FS_EmptySet
<1>3. ASSUME NEW s \in NearSlots(p) PROVE FALSE
  <2>1. PICK d \in Brokers : NearAt(d, p, ReqAt(s).msgs)
    BY SlotNear
  <2>2. ReqAt(s).msgs \in SUBSET MsgIds
    BY <2>1, NearNonEmpty
  <2>3. QED
    BY <1>2, <2>1, <2>2 DEF Near
<1>4. QED
  BY <1>3

\* A partition takes the new pid, and renumbers its messages, only when no request of
\* its own is under way in the client.
RenumberWhenQuiet ==
  [][\A p \in Partitions : eos'[p].pid # eos[p].pid => NearSlots(p) = {}]_vars

LEMMA QuietStep ==
  TypeOK /\ OwnersInv /\ PerToppar /\ AtHome /\ [Next]_vars =>
    \A p \in Partitions : eos'[p].pid # eos[p].pid => NearSlots(p) = {}
<1> SUFFICES ASSUME TypeOK, OwnersInv, PerToppar, AtHome, [Next]_vars, NEW p \in Partitions,
                    eos'[p].pid # eos[p].pid
             PROVE  NearSlots(p) = {}
  OBVIOUS
<1>1. PICK b \in Brokers : ServeChecks(b)
  BY SamePids
<1>2. /\ p = th[b].tp /\ th[b].pc \in TopparPcs /\ hand[b].phase = "none"
      /\ msgs_inflight[p] = 0
  BY <1>1, ChecksPid
<1>3. rktp_broker[p] = b
  BY <1>2 DEF AtHome
<1>4. QED
  BY <1>2, <1>3, NothingNear

\* Renumbering waits for the partition's own requests, whatever the leader changes.
THEOREM RenumbersWhenQuiet == Spec => RenumberWhenQuiet
<1>1. Init => TypeOK /\ OwnersInv /\ PerToppar /\ PerClient /\ AtHome
  BY InitType, InitOwners, InitCounts, InitBound
<1>2. TypeOK /\ OwnersInv /\ PerToppar /\ PerClient /\ AtHome /\ [Next]_vars
        => TypeOK' /\ OwnersInv' /\ PerToppar' /\ PerClient' /\ AtHome'
  BY NextType, NextOwners, NextCounts, AtHomeStep
<1>3. TypeOK /\ OwnersInv /\ PerToppar /\ AtHome /\ [Next]_vars =>
        [\A p \in Partitions : eos'[p].pid # eos[p].pid => NearSlots(p) = {}]_vars
  BY QuietStep
<1>4. QED
  BY <1>1, <1>2, <1>3, PTL DEF Spec, RenumberWhenQuiet

-----------------------------------------------------------------------------
(* The pid of the client is bumped when the partitions are drained.        *)

\* The client has no pid until it has acquired one, and a reset is fatal.
PidOK(g) == /\ g.state \in {"REQ_PID", "WAIT_TRANSPORT", "WAIT_PID"} => g.pid = NoPid
            /\ g.state = "DRAIN_RESET" => g.fatal
SamePid(g, h) == h.pid = g.pid /\ PidOK(h)

LEMMA SetStatePid ==
  ASSUME NEW g \in Clients, PidOK(g), NEW s \in {"DRAIN_BUMP", "FATAL_ERROR"}
  PROVE  SamePid(g, SetState(g, s))
BY DEF PidOK, SamePid, SetState, Clients

LEMMA SetFatalPid ==
  ASSUME NEW g \in Clients, PidOK(g)
  PROVE  SamePid(g, SetFatal(g)) /\ SetFatal(g) \in Clients /\ PidOK(SetFatal(g))
BY DEF PidOK, SamePid, SetFatal, Clients

LEMMA ResetPid ==
  ASSUME NEW g \in Clients, PidOK(g), g.fatal
  PROVE  SamePid(g, SetState(g, "DRAIN_RESET"))
BY DEF PidOK, SamePid, SetState, Clients

LEMMA FreshPid ==
  ASSUME NEW g \in Clients, g.pid = NoPid, NEW s \in {"REQ_PID", "WAIT_TRANSPORT", "WAIT_PID"}
  PROVE  SamePid(g, SetState(g, s))
BY DEF PidOK, SamePid, SetState, Clients

LEMMA CountPid ==
  ASSUME NEW g \in Clients, PidOK(g), NEW n
  PROVE  SamePid(g, [g EXCEPT !.inflight_toppar_cnt = n])
BY DEF PidOK, SamePid, Clients

LEMMA AfterErrorPid ==
  ASSUME NEW g \in Clients, PidOK(g), NEW a
  PROVE  SamePid(g, AfterError(g, a))
<1> DEFINE gap == Permanent(a) /\ Gapless
           h == IF a.fatal \/ gap THEN SetFatal(g) ELSE g
<1>1. h \in Clients /\ PidOK(h) /\ h.pid = g.pid /\ (gap => h.fatal)
  <2>1. SetFatal(g).fatal
    BY DEF SetFatal, Clients
  <2>2. QED
    BY <2>1, SetFatalPid DEF SamePid
<1>2. \/ AfterError(g, a) = SetState(h, "DRAIN_BUMP") \/ AfterError(g, a) = h
      \/ AfterError(g, a) = SetState(h, "DRAIN_RESET") /\ gap
  BY DEF AfterError
<1> HIDE DEF gap, h
<1>3. QED
  BY <1>1, <1>2, SetStatePid, ResetPid DEF SamePid

LEMMA DrainDonePid ==
  ASSUME NEW g \in Clients, PidOK(g)
  PROVE  PidOK(DrainDone(g))
<1>1. CASE g.state = "DRAIN_RESET"
  <2>1. DrainDone(g) = SetState(g, "REQ_PID") /\ g.fatal
    BY <1>1 DEF DrainDone, PidOK
  <2>2. QED
    BY <1>1, <2>1 DEF PidOK, SetState, Clients
<1>2. CASE g.state = "DRAIN_BUMP" /\ g.pid # NoPid
  <2> DEFINE h == [g EXCEPT !.pid = PidBump(@)]
  <2>1. DrainDone(g) = SetState(h, "ASSIGNED")
    BY <1>2 DEF DrainDone
  <2>2. h \in Clients
    BY PidBumpType DEF Clients
  <2> HIDE DEF h
  <2>3. SetState(h, "ASSIGNED").state \in {"ASSIGNED", "FATAL_ERROR"}
    BY <2>2 DEF SetState, Clients
  <2>4. QED
    BY <2>1, <2>3 DEF PidOK
<1>3. CASE DrainDone(g) = g
  BY <1>3
<1>4. QED
  BY <1>1, <1>2, <1>3 DEF DrainDone

\* The client record changes in these steps only.
LEMMA SameClient ==
  ASSUME [Next]_vars
  PROVE  \/ UNCHANGED rk \/ PidFsm \/ PidUpdate \/ RequestPidFailed
         \/ \E b \in Brokers : \/ ProduceRequest(b) \/ HandleSuccess(b) \/ HandleError(b)
                               \/ CallDrainDone(b) \/ \E p \in Partitions : ServeTimeout(b, p)
<1>1. CASE \/ Purge \/ UNCHANGED vars
           \/ \E p \in Partitions : \/ Produce(p) \/ Expire(p) \/ Delegate(p)
                                    \/ LeaderChange(p) \/ KafkaForget(p)
  BY <1>1, Zenon DEF Purge, Produce, Expire, Delegate, LeaderChange, KafkaForget, vars
<1>2. CASE \E b \in Brokers :
             \/ ServeBegin(b) \/ PurgeDrainDone(b) \/ ServeChecks(b) \/ PurgeOp(b)
             \/ PurgeQueues(b) \/ HandleStart(b) \/ PartitionLeft(b) \/ KafkaStale(b)
  BY <1>2, Zenon DEF ServeBegin, PurgeDrainDone, ServeChecks, PurgeOp, PurgeQueues, HandleStart,
     PartitionLeft, KafkaStale
<1>3. CASE \E b \in Brokers :
             \/ PurgeNext(b) \/ Transmit(b) \/ RecvResponse(b)
             \/ FailNext(b) \/ Reconnect(b) \/ BrokerFail(b) \/ KafkaHandle(b)
  BY <1>3, Zenon DEF PurgeNext, Transmit, RecvResponse, FailNext, Reconnect, BrokerFail,
     KafkaHandle
<1>4. CASE \E b \in Brokers, p \in Partitions :
             ServeToppar(b, p) \/ PartitionLeave(b, p) \/ PartitionJoin(b, p)
  BY <1>4 DEF ServeToppar, PartitionLeave, PartitionJoin
<1>5. QED
  BY <1>1, <1>2, <1>3, <1>4, Zenon DEF Next, BrokerThread

PidInv == PidOK(rk)

LEMMA PidStep ==
  ASSUME TypeOK, PidInv, [Next]_vars
  PROVE  /\ PidInv'
         /\ rk.pid # NoPid /\ rk'.pid # rk.pid => \E b \in Brokers : CallDrainDone(b)
<1>1. rk \in Clients
  BY DEF TypeOK, RkType
<1>2. ASSUME SamePid(rk, rk') PROVE PidInv' /\ rk'.pid = rk.pid
  BY <1>2 DEF SamePid, PidInv, PidOK
<1>3. CASE UNCHANGED rk
  BY <1>3 DEF PidInv, PidOK
<1>4. CASE PidFsm
  <2>1. PICK s \in {"WAIT_PID", "WAIT_TRANSPORT"} : rk' = SetState(rk, s)
    BY <1>4 DEF PidFsm
  <2>2. rk.pid = NoPid
    BY <1>4 DEF PidFsm, PidInv, PidOK
  <2>3. QED
    BY <1>1, <1>2, <2>1, <2>2, FreshPid
<1>5. CASE PidUpdate
  <2> DEFINE h == [rk EXCEPT !.pid = 0]
  <2>1. rk' = SetState(h, "ASSIGNED") /\ rk.pid = NoPid
    BY <1>5 DEF PidUpdate, PidInv, PidOK
  <2>2. h.state = rk.state
    BY <1>1 DEF Clients
  <2>3. SetState(h, "ASSIGNED").state \in {"ASSIGNED", "FATAL_ERROR"}
    BY <1>1 DEF SetState, Clients
  <2> HIDE DEF h
  <2>4. QED
    BY <2>1, <2>3 DEF PidInv, PidOK
<1>6. CASE RequestPidFailed
  <2>1. rk.pid = NoPid
    BY <1>6 DEF RequestPidFailed, PidInv, PidOK
  <2>2. rk' = SetState(rk, "REQ_PID") \/ rk' = SetState(SetFatal(rk), "FATAL_ERROR")
    BY <1>6 DEF RequestPidFailed
  <2>3. SetFatal(rk) \in Clients /\ PidOK(SetFatal(rk)) /\ SetFatal(rk).pid = rk.pid
    BY <1>1, SetFatalPid DEF PidInv, SamePid
  <2>4. SamePid(SetFatal(rk), SetState(SetFatal(rk), "FATAL_ERROR"))
    BY <2>3, SetStatePid
  <2>5. SamePid(rk, SetState(SetFatal(rk), "FATAL_ERROR"))
    BY <2>3, <2>4 DEF SamePid
  <2>6. QED
    BY <1>1, <1>2, <2>1, <2>2, <2>5, FreshPid
<1>7. ASSUME NEW b \in Brokers, ProduceRequest(b) PROVE SamePid(rk, rk')
  <2>1. CASE rk' = rk
    BY <2>1 DEF PidInv, SamePid
  <2>2. CASE rk' = SetFatal(rk)
    BY <1>1, <2>2, SetFatalPid DEF PidInv
  <2>3. CASE rk' = [rk EXCEPT !.inflight_toppar_cnt = @ + 1]
    BY <1>1, <2>3, CountPid DEF PidInv
  <2>4. QED
    BY <1>7, <2>1, <2>2, <2>3, ProduceRequestEffect DEF Built
<1>8. ASSUME NEW b \in Brokers, HandleSuccess(b) \/ HandleError(b) PROVE SamePid(rk, rk')
  <2>1. PICK g, bumped : g \in Clients /\ SamePid(rk, g) /\ HandlerEnd(b, g, bumped)
    <3>1. CASE HandleSuccess(b)
      <4>1. HandlerEnd(b, rk, FALSE) \/ HandlerEnd(b, SetFatal(rk), FALSE)
        BY <3>1, Zenon DEF HandleSuccess
      <4>2. SamePid(rk, rk)
        BY DEF PidInv, SamePid
      <4>3. QED
        BY <1>1, <4>1, <4>2, SetFatalPid DEF PidInv
    <3>2. CASE HandleError(b)
      <4>1. \E a, x : HandlerEnd(b, AfterError(rk, a), x)
        BY <3>2, Zenon DEF HandleError
      <4>2. QED
        BY <1>1, <4>1, AfterErrorType, AfterErrorPid DEF PidInv
    <3>3. QED
      BY <1>8, <3>1, <3>2
  <2>2. \E n : rk' = [g EXCEPT !.inflight_toppar_cnt = n]
    BY <2>1 DEF HandlerEnd
  <2>3. SamePid(g, rk')
    BY <2>1, <2>2, CountPid DEF SamePid
  <2>4. QED
    BY <2>1, <2>3 DEF SamePid
<1>9. ASSUME NEW b \in Brokers, CallDrainDone(b) PROVE PidInv'
  <2>1. rk' = DrainDone(rk)
    BY <1>9 DEF CallDrainDone
  <2>2. PidOK(DrainDone(rk))
    BY <1>1, DrainDonePid DEF PidInv
  <2>3. QED
    BY <2>1, <2>2 DEF PidInv, PidOK
<1>10. ASSUME NEW b \in Brokers, NEW p \in Partitions, ServeTimeout(b, p) PROVE SamePid(rk, rk')
  <2>1. rk' = rk \/ rk' = SetState(rk, "DRAIN_BUMP")
    BY <1>10 DEF ServeTimeout
  <2>2. SamePid(rk, rk)
    BY DEF PidInv, SamePid
  <2>3. QED
    BY <1>1, <2>1, <2>2, SetStatePid DEF PidInv
<1>11. QED
  BY <1>2, <1>3, <1>4, <1>5, <1>6, <1>7, <1>8, <1>9, <1>10, SameClient

\* A thread that goes on with its loop is not about to call drain_done().
LEMMA NextDd ==
  ASSUME NEW t \in Threads, ~t.dd
  PROVE  ~NextToppar(t).dd
BY DEF NextToppar, IdleThread, Threads

LEMMA PcDd ==
  ASSUME TypeOK, NEW b \in Brokers, NEW pc, ~th[b].dd, th' = [th EXCEPT ![b].pc = pc]
  PROVE  ~th'[b].dd
BY DEF TypeOK, ThreadType, Threads

LEMMA GoesOnDd ==
  ASSUME TypeOK, NEW b \in Brokers, ~th[b].dd, th' = [th EXCEPT ![b] = NextToppar(th[b])]
  PROVE  ~th'[b].dd
<1>1. th \in [Brokers -> Threads] /\ th[b] \in Threads
  BY DEF TypeOK, ThreadType
<1>2. ~NextToppar(th[b]).dd
  BY <1>1, NextDd
<1>3. QED
  BY <1>1, <1>2

LEMMA FreeStays ==
  ASSUME TypeOK, NEW b \in Brokers,
         \/ ServeBegin(b) \/ PurgeNext(b) \/ PurgeDrainDone(b) \/ ServeChecks(b)
         \/ ProduceRequest(b) \/ Transmit(b) \/ RecvResponse(b) \/ FailNext(b) \/ Reconnect(b)
         \/ PurgeOp(b) \/ PurgeQueues(b) \/ PartitionLeft(b) \/ BrokerFail(b)
         \/ \E p \in Partitions : \/ ServeToppar(b, p) \/ PartitionLeave(b, p)
                                  \/ PartitionJoin(b, p)
  PROVE  ~th'[b].dd
<1>1. th \in [Brokers -> Threads] /\ th[b] \in Threads
  BY DEF TypeOK, ThreadType
<1>2. ~th[b].dd
  BY Zenon DEF ServeBegin, PurgeNext, PurgeDrainDone, ServeChecks, ProduceRequest, Transmit,
     RecvResponse, FailNext, Reconnect, PurgeOp, PurgeQueues, PartitionLeft, BrokerFail,
     ServeToppar, PartitionLeave, PartitionJoin, Idle, Free
<1>3. CASE \/ PurgeNext(b) \/ Transmit(b) \/ RecvResponse(b) \/ Reconnect(b)
           \/ \E p \in Partitions : PartitionJoin(b, p)
  <2>1. UNCHANGED th
    BY <1>3, Zenon DEF PurgeNext, Transmit, RecvResponse, Reconnect, PartitionJoin, thread_vars
  <2>2. QED
    BY <1>2, <2>1
<1>4. CASE ServeBegin(b)
  <2>1. PICK scan \in BOOLEAN :
          th' = [th EXCEPT ![b] = [th[b] EXCEPT !.pc = "toppar", !.scan = scan,
                                   !.pid = GetPid(rk), !.todo = Active(b)]]
    BY <1>4 DEF ServeBegin
  <2>2. QED
    BY <1>1, <1>2, <2>1 DEF Threads
<1>5. CASE PurgeDrainDone(b)
  BY <1>2, <1>5, GoesOnDd DEF PurgeDrainDone
<1>6. CASE ServeChecks(b)
  <2>1. PICK n : \/ th' = [th EXCEPT ![b] = NextToppar(th[b])]
                 \/ th' = [th EXCEPT ![b] = [th[b] EXCEPT !.pc = "purge_drain"]]
                 \/ th' = [th EXCEPT ![b] = [th[b] EXCEPT !.pc = "produce", !.left = n]]
    BY <1>6 DEF ServeChecks
  <2>2. QED
    BY <1>1, <1>2, <2>1, GoesOnDd DEF Threads
<1>7. CASE ProduceRequest(b)
  <2>1. PICK n : \/ th' = [th EXCEPT ![b] = NextToppar(th[b])]
                 \/ th' = [th EXCEPT ![b] = [th[b] EXCEPT !.left = n]]
    BY <1>7 DEF ProduceRequest
  <2>2. QED
    BY <1>1, <1>2, <2>1, GoesOnDd DEF Threads
<1>8. CASE FailNext(b)
  <2>1. UNCHANGED th \/ th' = [th EXCEPT ![b].pc = "idle"]
    BY <1>8, Zenon DEF FailNext
  <2>2. QED
    BY <1>2, <2>1, PcDd
<1>9. CASE PurgeOp(b) \/ PurgeQueues(b) \/ BrokerFail(b)
  <2>1. \E pc : th' = [th EXCEPT ![b].pc = pc]
    BY <1>9, Zenon DEF PurgeOp, PurgeQueues, BrokerFail
  <2>2. QED
    BY <1>2, <2>1, PcDd
<1>10. CASE PartitionLeft(b)
  <2>1. th' = [th EXCEPT ![b] = IdleThread]
    BY <1>10 DEF PartitionLeft
  <2>2. QED
    BY <1>1, <2>1 DEF IdleThread
<1>11. ASSUME NEW p \in Partitions, ServeToppar(b, p) PROVE ~th'[b].dd
  <2> DEFINE todo == th[b].todo \ {p}
             u == [th[b] EXCEPT !.todo = todo]
  <2>1. PICK left, pc :
          \/ th' = [th EXCEPT ![b] = NextToppar(u)]
          \/ th' = [th EXCEPT ![b] = [th[b] EXCEPT !.todo = todo, !.tp = p, !.left = left,
                                                   !.pc = pc]]
    BY <1>11 DEF ServeToppar
  <2>2. u \in Threads /\ ~u.dd
    <3>1. todo \in SUBSET Partitions
      BY <1>1 DEF Threads
    <3>2. QED
      BY <1>1, <1>2, <3>1, ThreadTodo DEF Threads
  <2>3. CASE th' = [th EXCEPT ![b] = NextToppar(u)]
    <3> HIDE DEF u
    <3>1. ~NextToppar(u).dd
      BY <2>2, NextDd
    <3>2. QED
      BY <1>1, <2>3, <3>1
  <2> HIDE DEF todo
  <2>4. CASE th' = [th EXCEPT ![b] = [th[b] EXCEPT !.todo = todo, !.tp = p, !.left = left,
                                                   !.pc = pc]]
    BY <1>1, <1>2, <2>4 DEF Threads
  <2>5. QED
    BY <2>1, <2>3, <2>4
<1>12. ASSUME NEW p \in Partitions, PartitionLeave(b, p) PROVE ~th'[b].dd
  <2>1. th' = [th EXCEPT ![b] = [th[b] EXCEPT !.pc = "purge_leave", !.tp = p]]
    BY <1>12 DEF PartitionLeave
  <2>2. QED
    BY <1>1, <1>2, <2>1 DEF Threads
<1>13. QED
  BY <1>3, <1>4, <1>5, <1>6, <1>7, <1>8, <1>9, <1>10, <1>11, <1>12

\* A thread about to call drain_done() has handled its result, and no partition has
\* requests in flight.
DrainedInv == \A b \in Brokers : th[b].dd => hand[b].phase = "none" /\ rk.inflight_toppar_cnt = 0

\* The flag is raised with the count at zero.
LEMMA RaisesDd ==
  ASSUME TypeOK, NEW b \in Brokers, th'[b].dd,
         HandleSuccess(b) \/ HandleError(b) \/ \E p \in Partitions : ServeTimeout(b, p)
  PROVE  hand'[b].phase = "none" /\ rk'.inflight_toppar_cnt = 0
<1>1. /\ th \in [Brokers -> Threads] /\ th[b] \in Threads
      /\ hand \in [Brokers -> Hands \cup {NoHand}] /\ rk \in Clients
  BY DEF TypeOK, ThreadType, HandType, RkType
<1>2. CASE HandleSuccess(b) \/ HandleError(b)
  <2>1. PICK g, bumped : g \in Clients /\ HandlerEnd(b, g, bumped)
    <3>1. CASE HandleSuccess(b)
      <4>1. HandlerEnd(b, rk, FALSE) \/ HandlerEnd(b, SetFatal(rk), FALSE)
        BY <3>1, Zenon DEF HandleSuccess
      <4>2. QED
        BY <1>1, <4>1, StateKeepsCount
    <3>2. CASE HandleError(b)
      <4>1. \E a, x : HandlerEnd(b, AfterError(rk, a), x)
        BY <3>2, Zenon DEF HandleError
      <4>2. QED
        BY <1>1, <4>1, AfterErrorType
    <3>3. QED
      BY <1>2, <3>1, <3>2
  <2> DEFINE last == hand[b].phase = "last"
             cnt == IF last THEN g.inflight_toppar_cnt - 1 ELSE g.inflight_toppar_cnt
  <2>2. /\ rk' = [g EXCEPT !.inflight_toppar_cnt = cnt]
        /\ th' = [th EXCEPT ![b].dd = (last \/ bumped) /\ cnt = 0]
        /\ hand' = [hand EXCEPT ![b] = NoHand]
    BY <2>1 DEF HandlerEnd
  <2> HIDE DEF cnt, last
  <2>3. rk'.inflight_toppar_cnt = cnt /\ hand'[b].phase = "none"
    BY <1>1, <2>1, <2>2 DEF Clients, NoHand
  <2>4. th'[b].dd => cnt = 0
    BY <1>1, <2>2 DEF Threads
  <2>5. QED
    BY <2>3, <2>4
<1>3. ASSUME NEW p \in Partitions, ServeTimeout(b, p)
      PROVE  hand'[b].phase = "none" /\ rk'.inflight_toppar_cnt = 0
  <2> DEFINE todo == th[b].todo \ {p}
             u == [th[b] EXCEPT !.todo = todo]
             dd == th[b].pid # NoPid /\ rk.inflight_toppar_cnt = 0
             v == NextToppar(u)
             t == [v EXCEPT !.dd = dd]
  <2>1. /\ th' = [th EXCEPT ![b] = t] /\ hand[b].phase = "none" /\ hand' = hand
        /\ rk' = rk \/ rk' = SetState(rk, "DRAIN_BUMP")
    BY <1>3 DEF ServeTimeout, Free
  <2>2. u \in Threads
    <3>1. todo \in SUBSET Partitions
      BY <1>1 DEF Threads
    <3>2. QED
      BY <1>1, <3>1, ThreadTodo
  <2> HIDE DEF u
  <2>3. v \in Threads
    BY <2>2, NextTopparType
  <2> HIDE DEF v, dd
  <2>4. t.dd = dd
    BY <2>3 DEF Threads
  <2> HIDE DEF t
  <2>5. dd
    BY <1>1, <2>1, <2>4
  <2>6. QED
    BY <1>1, <2>1, <2>5, StateKeepsCount DEF dd
<1>4. QED
  BY <1>2, <1>3

\* The steps outside the broker threads keep the flags, the results and the count.
LEMMA OutsideDd ==
  ASSUME TypeOK,
         \/ PidFsm \/ PidUpdate \/ RequestPidFailed \/ Purge \/ UNCHANGED vars
         \/ \E p \in Partitions : \/ Produce(p) \/ Expire(p) \/ Delegate(p)
                                  \/ LeaderChange(p) \/ KafkaForget(p)
         \/ \E b \in Brokers : KafkaHandle(b) \/ KafkaStale(b)
  PROVE  UNCHANGED <<th, hand>> /\ rk'.inflight_toppar_cnt = rk.inflight_toppar_cnt
<1>1. UNCHANGED <<th, hand>>
  BY Zenon DEF PidFsm, PidUpdate, RequestPidFailed, Purge, Produce, Expire, Delegate,
     LeaderChange, KafkaForget, KafkaHandle, KafkaStale, vars, thread_vars
<1>2. rk \in Clients /\ NoPid \in Int
  BY DEF TypeOK, RkType, NoPid
<1>3. CASE PidUpdate
  <2>1. 0 \in NoPid .. EpochSpace - 1
    BY BoundsAssumption DEF NoPid
  <2>2. [rk EXCEPT !.pid = 0] \in Clients
        /\ [rk EXCEPT !.pid = 0].inflight_toppar_cnt = rk.inflight_toppar_cnt
    BY <1>2, <2>1, StateKeepsCount
  <2>3. QED
    BY <1>1, <1>3, <2>2, StateKeepsCount DEF PidUpdate
<1>4. CASE PidFsm \/ RequestPidFailed
  <2>1. \/ \E s : rk' = SetState(rk, s)
        \/ \E s : rk' = SetState(SetFatal(rk), s)
    BY <1>4 DEF PidFsm, RequestPidFailed
  <2>2. QED
    BY <1>1, <1>2, <2>1, StateKeepsCount
<1>5. CASE \/ Purge \/ UNCHANGED vars
           \/ \E p \in Partitions : \/ Produce(p) \/ Expire(p) \/ Delegate(p)
                                    \/ LeaderChange(p) \/ KafkaForget(p)
           \/ \E b \in Brokers : KafkaHandle(b) \/ KafkaStale(b)
  <2>1. rk' = rk
    BY <1>5, Zenon DEF Purge, Produce, Expire, Delegate, LeaderChange, KafkaForget, KafkaHandle,
       KafkaStale, vars
  <2>2. QED
    BY <1>1, <2>1
<1>6. QED
  BY <1>3, <1>4, <1>5

LEMMA DrainedStep == OneBroker => (TypeOK /\ DrainedInv /\ [Next]_vars => DrainedInv')
<1> SUFFICES ASSUME OneBroker, TypeOK, DrainedInv, [Next]_vars PROVE DrainedInv'
  OBVIOUS
<1>1. ASSUME NEW b \in Brokers, ~th'[b].dd PROVE DrainedInv'
  BY <1>1 DEF DrainedInv, OneBroker
<1>2. CASE \/ PidFsm \/ PidUpdate \/ RequestPidFailed \/ Purge \/ UNCHANGED vars
           \/ \E p \in Partitions : \/ Produce(p) \/ Expire(p) \/ Delegate(p)
                                    \/ LeaderChange(p) \/ KafkaForget(p)
           \/ \E b \in Brokers : KafkaHandle(b) \/ KafkaStale(b)
  <2>1. UNCHANGED <<th, hand>> /\ rk'.inflight_toppar_cnt = rk.inflight_toppar_cnt
    BY <1>2, OutsideDd
  <2>2. QED
    BY <2>1 DEF DrainedInv
<1>3. ASSUME NEW b \in Brokers, HandleStart(b) PROVE DrainedInv'
  <2>1. hand[b].phase = "start" /\ th' = th
    BY <1>3 DEF HandleStart
  <2>2. QED
    BY <1>1, <2>1 DEF DrainedInv
<1>4. ASSUME NEW b \in Brokers, CallDrainDone(b) PROVE DrainedInv'
  <2>1. th' = [th EXCEPT ![b].dd = FALSE] /\ th \in [Brokers -> Threads]
    BY <1>4 DEF CallDrainDone, TypeOK, ThreadType
  <2>2. ~th'[b].dd
    BY <2>1 DEF Threads
  <2>3. QED
    BY <1>1, <2>2
<1>5. ASSUME NEW b \in Brokers,
             HandleSuccess(b) \/ HandleError(b) \/ \E p \in Partitions : ServeTimeout(b, p)
      PROVE  DrainedInv'
  <2>1. CASE th'[b].dd
    <3>1. hand'[b].phase = "none" /\ rk'.inflight_toppar_cnt = 0
      BY <1>5, <2>1, RaisesDd
    <3>2. QED
      BY <3>1 DEF DrainedInv, OneBroker
  <2>2. QED
    BY <1>1, <2>1
<1>6. QED
  BY <1>1, <1>2, <1>3, <1>4, <1>5, FreeStays, Zenon DEF Next, BrokerThread

DrainInv == /\ TypeOK /\ OwnersInv /\ PerToppar /\ PerClient /\ AtHome
            /\ Settled /\ PidInv /\ DrainedInv

Drains == /\ rk.pid # NoPid /\ rk'.pid # rk.pid => rk.inflight_toppar_cnt = 0
          /\ \A p \in Partitions : eos'[p].pid # eos[p].pid => SlotsOf(p) = {}

LEMMA DrainStep == OneBroker => (DrainInv /\ [Next]_vars => DrainInv' /\ Drains)
<1> SUFFICES ASSUME OneBroker, DrainInv, [Next]_vars PROVE DrainInv' /\ Drains
  OBVIOUS
<1>1. TypeOK /\ OwnersInv /\ PerToppar /\ PerClient /\ AtHome /\ Settled /\ PidInv /\ DrainedInv
  BY DEF DrainInv
<1>2. TypeOK'
  BY <1>1, NextType
<1>3. OwnersInv' /\ AtHome' /\ PidInv'
  BY <1>1, NextOwners, AtHomeStep, PidStep
<1>4. PerToppar' /\ PerClient'
  BY <1>1, <1>2, <1>3, NextCounts
<1>5. Settled' /\ DrainedInv'
  BY <1>1, <1>2, SettledStep, DrainedStep
<1>6. rk.pid # NoPid /\ rk'.pid # rk.pid => rk.inflight_toppar_cnt = 0
  BY <1>1, PidStep DEF CallDrainDone, DrainedInv
<1>7. \A p \in Partitions : eos'[p].pid # eos[p].pid => SlotsOf(p) = {}
  BY <1>1, QuietStep, AllNear
<1>8. QED
  BY <1>2, <1>3, <1>4, <1>5, <1>6, <1>7 DEF DrainInv, Drains

LEMMA InitDrain == Init => DrainInv
<1> SUFFICES ASSUME Init PROVE DrainInv
  OBVIOUS
<1>1. TypeOK /\ OwnersInv /\ PerToppar /\ PerClient /\ AtHome /\ Settled
  BY InitType, InitOwners, InitCounts, InitBound, InitSettled
<1>2. PidInv
  BY DEF Init, PidInv, PidOK
<1>3. DrainedInv
  BY DEF Init, DrainedInv, IdleThread
<1>4. QED
  BY <1>1, <1>2, <1>3 DEF DrainInv

\* With one broker, "the PID is not bumped until the queues are fully drained", and a
\* partition renumbers its messages only when no request of its own is left.
THEOREM RenumbersWhenDrained ==
  ASSUME OneBroker
  PROVE  Spec => RenumberWhenDrained
<1>1. DrainInv /\ [Next]_vars =>
        DrainInv' /\ [/\ rk.pid # NoPid /\ rk'.pid # rk.pid => rk.inflight_toppar_cnt = 0
                      /\ \A p \in Partitions : eos'[p].pid # eos[p].pid => SlotsOf(p) = {}]_vars
  BY DrainStep DEF Drains
<1>2. QED
  BY <1>1, InitDrain, PTL DEF Spec, RenumberWhenDrained
=============================================================================
