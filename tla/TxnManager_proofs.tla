------------------------- MODULE TxnManager_proofs -------------------------
(***************************************************************************)
(* Proofs about TxnManager, for any partitions, numbers of transactions,   *)
(* calls, timeouts and faults: its assertions hold, a transaction is       *)
(* committed as a whole or not at all, and the application is told the     *)
(* truth about which.                                                      *)
(*                                                                         *)
(* The invariant and the cases are in TxnCases_proofs.  Here is a lemma    *)
(* ...Good for each handler and each action, which finds the case.         *)
(***************************************************************************)
EXTENDS TxnCases_proofs
-----------------------------------------------------------------------------
(* The wire as a sequence. *)

LEMMA WireTail ==
  ASSUME NEW w, Ordered(w), w # <<>>
  PROVE  /\ Ordered(Tail(w)) /\ Head(w) \in OnWire(w) /\ OnWire(Tail(w)) = OnWire(w) \ {Head(w)}
         /\ Head(w).kind \in Last => Tail(w) = <<>>
<1>1. w \in Seq(Requests) /\ Len(w) \in Nat /\ Len(w) >= 1 /\ DOMAIN w = 1 .. Len(w) /\ Head(w) = w[1]
  BY DEF Ordered
<1>2. /\ Tail(w) \in Seq(Requests) /\ Len(Tail(w)) = Len(w) - 1
      /\ \A i \in 1 .. Len(Tail(w)) : Tail(w)[i] = w[i + 1]
      /\ DOMAIN Tail(w) = 1 .. (Len(w) - 1)
  BY <1>1
<1>3. \A i \in DOMAIN Tail(w) : i + 1 \in DOMAIN w /\ Tail(w)[i] = w[i + 1]
  BY <1>1, <1>2
<1>4. Ordered(Tail(w))
  <2>1. \A i, j \in DOMAIN Tail(w) : Tail(w)[i].kind = Tail(w)[j].kind => i = j
    BY <1>1, <1>2, <1>3 DEF Ordered
  <2>2. \A i \in DOMAIN Tail(w) : Tail(w)[i].kind \in Last => i = Len(Tail(w))
    BY <1>1, <1>2, <1>3 DEF Ordered
  <2>3. \A i, j \in DOMAIN Tail(w) : i < j /\ Tail(w)[j].reply # "none" => Tail(w)[i].reply # "none"
    BY <1>1, <1>2, <1>3 DEF Ordered
  <2> QED
    BY <2>1, <2>2, <2>3, <1>2 DEF Ordered
<1>5. Head(w) \in OnWire(w)
  BY <1>1 DEF OnWire
<1>6. OnWire(Tail(w)) = OnWire(w) \ {Head(w)}
  <2>1. ASSUME NEW r \in OnWire(Tail(w)) PROVE r \in OnWire(w) \ {Head(w)}
    <3>1. PICK i \in DOMAIN Tail(w) : r = Tail(w)[i]
      BY <2>1 DEF OnWire
    <3>2. i + 1 \in DOMAIN w /\ r = w[i + 1] /\ i + 1 # 1 /\ 1 \in DOMAIN w
      BY <1>1, <1>2, <1>3, <3>1
    <3>3. w[i + 1].kind # w[1].kind
      BY <3>2 DEF Ordered
    <3> QED
      BY <3>2, <3>3, <1>1 DEF OnWire
  <2>2. ASSUME NEW r \in OnWire(w) \ {Head(w)} PROVE r \in OnWire(Tail(w))
    <3>1. PICK i \in DOMAIN w : r = w[i]
      BY <2>2 DEF OnWire
    <3>2. i # 1 /\ i - 1 \in DOMAIN Tail(w) /\ (i - 1) + 1 = i
      BY <1>1, <1>2, <2>2, <3>1
    <3>3. Tail(w)[i - 1] = w[i]
      BY <1>3, <3>2
    <3> QED
      BY <3>1, <3>2, <3>3 DEF OnWire
  <2> QED
    BY <2>1, <2>2
<1>7. ASSUME Head(w).kind \in Last PROVE Tail(w) = <<>>
  <2>1. Len(w) = 1
    BY <1>1, <1>7 DEF Ordered
  <2>2. Len(Tail(w)) = 0
    BY <2>1, <1>2
  <2> QED
    BY <2>2, <1>2, EmptySeq
<1> QED
  BY <1>4, <1>5, <1>6, <1>7

LEMMA WireEmpty ==
  ASSUME NEW w
  PROVE  /\ Ordered(<<>>) /\ OnWire(<<>>) = {}
         /\ Ordered(w) /\ OnWire(w) = {} => w = <<>>
<1>1. <<>> \in Seq(Requests) /\ DOMAIN <<>> = {}
  OBVIOUS
<1>2. Ordered(<<>>) /\ OnWire(<<>>) = {}
  BY <1>1 DEF Ordered, OnWire
<1>3. ASSUME Ordered(w), OnWire(w) = {} PROVE w = <<>>
  <2>1. w \in Seq(Requests) /\ DOMAIN w = 1 .. Len(w) /\ Len(w) \in Nat
    BY <1>3 DEF Ordered
  <2>2. Len(w) = 0
    <3>1. ASSUME Len(w) # 0 PROVE FALSE
      <4>1. 1 \in DOMAIN w
        BY <2>1, <3>1
      <4>2. w[1] \in OnWire(w)
        BY <4>1 DEF OnWire
      <4> QED
        BY <4>2, <1>3
    <3> QED
      BY <3>1
  <2> QED
    BY <2>1, <2>2, EmptySeq
<1> QED
  BY <1>2, <1>3

\* A request is added to the wire.
LEMMA WireAppend ==
  ASSUME NEW w, Ordered(w), NEW r \in Requests, r.reply = "none",
         \A q \in OnWire(w) : q.kind # r.kind /\ q.kind \notin Last
  PROVE  Ordered(Append(w, r)) /\ OnWire(Append(w, r)) = OnWire(w) \cup {r}
<1>1. /\ w \in Seq(Requests) /\ Len(w) \in Nat /\ DOMAIN w = 1 .. Len(w)
      /\ \A i \in DOMAIN w : w[i] \in OnWire(w)
  BY DEF Ordered, OnWire
<1> DEFINE v == Append(w, r)
<1>2. /\ v \in Seq(Requests) /\ Len(v) = Len(w) + 1 /\ DOMAIN v = 1 .. (Len(w) + 1)
      /\ v[Len(w) + 1] = r /\ \A i \in 1 .. Len(w) : v[i] = w[i]
  BY <1>1, AppendProperties
<1> HIDE DEF v
<1>3. \A i \in DOMAIN v : (i \in DOMAIN w /\ v[i] = w[i]) \/ (i = Len(w) + 1 /\ v[i] = r)
  BY <1>1, <1>2
<1>4. \A i, j \in DOMAIN v : v[i].kind = v[j].kind => i = j
  <2> SUFFICES ASSUME NEW i \in DOMAIN v, NEW j \in DOMAIN v, v[i].kind = v[j].kind PROVE i = j
    OBVIOUS
  <2>1. CASE i \in DOMAIN w /\ v[i] = w[i] /\ j \in DOMAIN w /\ v[j] = w[j]
    BY <2>1 DEF Ordered
  <2>2. CASE i \in DOMAIN w /\ v[i] = w[i] /\ v[j] = r
    BY <2>2, <1>1
  <2>3. CASE v[i] = r /\ j \in DOMAIN w /\ v[j] = w[j]
    BY <2>3, <1>1
  <2> QED
    BY <2>1, <2>2, <2>3, <1>3
<1>5. \A i \in DOMAIN v : v[i].kind \in Last => i = Len(v)
  BY <1>1, <1>2, <1>3
<1>6. \A i, j \in DOMAIN v : i < j /\ v[j].reply # "none" => v[i].reply # "none"
  <2> SUFFICES ASSUME NEW i \in DOMAIN v, NEW j \in DOMAIN v, i < j, v[j].reply # "none"
               PROVE  v[i].reply # "none"
    OBVIOUS
  <2>1. j \in DOMAIN w /\ v[j] = w[j]
    BY <1>3
  <2>2. i \in DOMAIN w /\ v[i] = w[i]
    BY <2>1, <1>1, <1>2, <1>3
  <2> QED
    BY <2>1, <2>2 DEF Ordered
<1>7. OnWire(v) = OnWire(w) \cup {r}
  <2>1. ASSUME NEW q \in OnWire(v) PROVE q \in OnWire(w) \cup {r}
    BY <2>1, <1>3 DEF OnWire
  <2>2. ASSUME NEW q \in OnWire(w) PROVE q \in OnWire(v)
    <3>1. PICK i \in DOMAIN w : q = w[i]
      BY <2>2 DEF OnWire
    <3>2. i \in DOMAIN v /\ v[i] = q
      BY <3>1, <1>1, <1>2
    <3> QED
      BY <3>2 DEF OnWire
  <2>3. r \in OnWire(v)
    <3>1. Len(w) + 1 \in DOMAIN v
      BY <1>1, <1>2
    <3> QED
      BY <3>1, <1>2 DEF OnWire
  <2> QED
    BY <2>1, <2>2, <2>3
<1> QED
  BY <1>2, <1>4, <1>5, <1>6, <1>7 DEF Ordered, v

\* Some requests of the wire are answered, or all from one on are lost.
LEMMA WireAnswer ==
  ASSUME NEW w, Ordered(w), NEW v, DOMAIN v = DOMAIN w, v \in Seq(Requests),
         \A i \in DOMAIN w : v[i].kind = w[i].kind /\ v[i].parts = w[i].parts,
         \A i, j \in DOMAIN w : i < j /\ v[j].reply # "none" => v[i].reply # "none",
         NEW k,
         \A i \in DOMAIN w :
           \/ v[i] = w[i]
           \/ v[i].reply \notin {"ok", "fenced"} /\ (NoBump => v[i].reply # "bump")
           \/ v[i].reply = "fenced" /\ (k.fenced \/ v[i].kind \in {"end_commit", "end_abort"})
  PROVE  Ordered(v) /\ Rewrites(OnWire(w), OnWire(v), k)
<1>1. w \in Seq(Requests) /\ Len(w) \in Nat /\ DOMAIN w = 1 .. Len(w) /\ Len(v) = Len(w)
  BY DEF Ordered
<1>2. Ordered(v)
  <2>1. \A i, j \in DOMAIN v : v[i].kind = v[j].kind => i = j
    BY DEF Ordered
  <2>2. \A i \in DOMAIN v : v[i].kind \in Last => i = Len(v)
    BY <1>1 DEF Ordered
  <2> QED
    BY <2>1, <2>2 DEF Ordered
<1>3. OnWire(v) \subseteq Requests
  BY DEF OnWire
<1>4. ASSUME NEW q \in OnWire(v)
      PROVE  \E r \in OnWire(w) :
               /\ q.kind = r.kind /\ q.parts = r.parts
               /\ \/ q = r
                  \/ q.reply \notin {"ok", "fenced"} /\ (NoBump => q.reply # "bump")
                  \/ q.reply = "fenced" /\ (k.fenced \/ q.kind \in {"end_commit", "end_abort"})
  <2>1. PICK i \in DOMAIN w : q = v[i]
    BY <1>4 DEF OnWire
  <2>2. w[i] \in OnWire(w)
    BY DEF OnWire
  <2> QED
    BY <2>1, <2>2
<1>5. \A r \in OnWire(w) : \E q \in OnWire(v) : q.kind = r.kind
  BY DEF OnWire
<1>6. ASSUME NEW q \in OnWire(v), NEW r \in OnWire(v), q.kind = r.kind PROVE q = r
  BY <1>2, <1>6 DEF OnWire, Ordered
<1>7. ASSUME NEW q \in OnWire(v), NEW r \in OnWire(v), q.kind \notin Last, r.kind \in Last, r.reply # "none"
      PROVE  q.reply # "none"
  <2>1. PICK i \in DOMAIN v : q = v[i]
    BY <1>7 DEF OnWire
  <2>2. PICK j \in DOMAIN v : r = v[j]
    BY <1>7 DEF OnWire
  <2>3. j = Len(v) /\ i # j
    BY <1>2, <1>7, <2>1, <2>2 DEF Ordered
  <2>4. i < j
    BY <2>1, <2>3, <1>1
  <2> QED
    BY <2>1, <2>2, <2>4, <1>7
<1> QED
  BY <1>2, <1>3, <1>4, <1>5, <1>6, <1>7 DEF Rewrites

-----------------------------------------------------------------------------
(* What the operators of the client do to it. *)

Frame(s) ==
  /\ DOMAIN s = Fields /\ s.timers \subseteq Timers /\ ApiOK(s.api) /\ s.txn_state \in TxnStates
  /\ s.may_enq \in BOOLEAN /\ (s.may_enq => s.txn_state = "IN_TRANSACTION")

LEMMA SoundFrame ==
  ASSUME NEW s, NEW W, NEW a, NEW k, NEW d, Sound(s, W, a, k, d)
  PROVE  Frame(s) /\ Same(s, s, {})
BY DEF Sound, ClientOK, StatesOK, Frame, Same

LEMMA SameChain ==
  ASSUME NEW s, NEW t, NEW u, NEW C, NEW D, NEW E, Same(s, t, C), Same(t, u, D),
         C \subseteq E, D \subseteq E
  PROVE  Same(s, u, E)
BY DEF Same

LEMMA SameTrans ==
  ASSUME NEW s, NEW t, NEW u, NEW C, Same(s, t, C), Same(t, u, C)
  PROVE  Same(s, u, C)
BY DEF Same

LEMMA SameMore ==
  ASSUME NEW s, NEW t, NEW C, NEW E, Same(s, t, C), C \subseteq E
  PROVE  Same(s, t, E)
BY DEF Same

LEMMA SetResultIs ==
  ASSUME NEW s, Frame(s), NEW e, NEW t, t = SetResult(s, e)
  PROVE  /\ Same(s, t, {"api"}) /\ t.wire = s.wire
         /\ t.api = Answered(s.api, e)
<1>1. CASE s.api.name = "none"
  BY <1>1 DEF SetResult, Same, Frame, Misc, Fields, Answered
<1>2. CASE s.api.name # "none"
  <2>0. PICK x : x = IF s.api.error # "none" THEN s.api.error ELSE e
    OBVIOUS
  <2>1. t = [s EXCEPT !.api.has_result = TRUE, !.api.error = x]
    BY <1>2, <2>0 DEF SetResult
  <2>2. Same(s, t, {"api"}) /\ t.wire = s.wire
    BY <2>1 DEF Same, Frame, Misc, Fields
  <2>3. t.api = Answered(s.api, e)
    <3>1. t.api = [s.api EXCEPT !.has_result = TRUE, !.error = x]
      BY <2>1 DEF Frame, Fields
    <3> QED
      BY <3>1, <2>0, <1>2 DEF Answered
  <2> QED
    BY <1>2, <2>2, <2>3
<1> QED
  BY <1>1, <1>2

Enters(s, new) ==
  s.txn_state # new /\ s.txn_state \in Predecessors[new] /\ ~Ignores(s.txn_state, new)

Entered(s, t, new) ==
  /\ Same(s, t, {"txn_state", "may_enq"}) /\ t.wire = s.wire /\ t.txn_state = new
  /\ new # "IN_TRANSACTION" => t.may_enq = FALSE
  /\ new = "IN_TRANSACTION" => t.may_enq = TRUE

LEMMA SetStateIs ==
  ASSUME NEW s, Frame(s), NEW new, Enters(s, new), NEW t, t = SetState(s, new)
  PROVE  Entered(s, t, new)
<1>1. t = [s EXCEPT !.txn_state = new,
                    !.may_enq = (s.txn_state # "IN_TRANSACTION") /\ (s.may_enq \/ new = "IN_TRANSACTION")]
  BY DEF SetState, Enters
<1>2. Same(s, t, {"txn_state", "may_enq"}) /\ t.wire = s.wire /\ t.txn_state = new
  BY <1>1 DEF Frame, Same, Misc, Fields
<1>3. t.may_enq = ((s.txn_state # "IN_TRANSACTION") /\ (s.may_enq \/ new = "IN_TRANSACTION"))
  BY <1>1 DEF Frame, Fields
<1> QED
  BY <1>2, <1>3 DEF Frame, Enters, Entered

LEMMA SetFatalErrorIs ==
  ASSUME NEW s, Frame(s), NEW t, t = SetFatalError(s)
  PROVE  /\ Same(s, t, {"fatal", "txn_err", "txn_state", "may_enq", "api"}) /\ t.wire = s.wire
         /\ t.fatal = TRUE /\ t.txn_err = TRUE /\ t.txn_state = "FATAL_ERROR" /\ t.may_enq = FALSE
         /\ t.api = Answered(s.api, "fatal")
<1>1. PICK u : u = [s EXCEPT !.fatal = TRUE, !.txn_err = TRUE]
  OBVIOUS
<1>2. /\ Same(s, u, {"fatal", "txn_err"}) /\ u.wire = s.wire /\ u.fatal = TRUE /\ u.txn_err = TRUE
      /\ u.txn_state = s.txn_state /\ u.may_enq = s.may_enq /\ u.api = s.api
  BY <1>1 DEF Same, Frame, Misc, Fields
<1>3. Frame(u)
  BY <1>2 DEF Frame, Same
<1>4. PICK v : v = SetState(u, "FATAL_ERROR")
  OBVIOUS
<1>5. /\ Same(u, v, {"txn_state", "may_enq"}) /\ v.wire = u.wire /\ v.txn_state = "FATAL_ERROR"
      /\ v.may_enq = FALSE
  <2>1. CASE s.txn_state = "FATAL_ERROR"
    <3>1. v = u
      BY <1>2, <1>4, <2>1 DEF SetState
    <3> QED
      BY <3>1, <2>1, <1>2, <1>3 DEF Same, Frame
  <2>2. CASE s.txn_state # "FATAL_ERROR"
    <3>1. Enters(u, "FATAL_ERROR")
      BY <2>2, <1>2 DEF Enters, Predecessors, Ignores, Frame
    <3>2. Entered(u, v, "FATAL_ERROR")
      BY <3>1, <1>3, <1>4, SetStateIs
    <3> QED
      BY <3>2 DEF Entered
  <2> QED
    BY <2>1, <2>2
<1>6. v.fatal = TRUE /\ v.txn_err = TRUE /\ v.api = s.api
  BY <1>2, <1>5 DEF Same, Fields, Misc
<1>7. Frame(v)
  BY <1>3, <1>5, <1>6 DEF Frame, Same, TxnStates
<1>8. t = SetResult(v, "fatal")
  BY <1>1, <1>4 DEF SetFatalError
<1>9. /\ Same(v, t, {"api"}) /\ t.wire = v.wire
      /\ t.api = Answered(s.api, "fatal")
  BY <1>6, <1>7, <1>8, SetResultIs
<1>10. Same(s, v, {"fatal", "txn_err", "txn_state", "may_enq"})
  BY <1>2, <1>5, SameChain
<1>11. Same(s, t, {"fatal", "txn_err", "txn_state", "may_enq", "api"})
  BY <1>9, <1>10, SameChain
<1>12. t.fatal = TRUE /\ t.txn_err = TRUE /\ t.txn_state = "FATAL_ERROR" /\ t.may_enq = FALSE
  BY <1>5, <1>6, <1>9 DEF Same, Fields, Misc
<1> QED
  BY <1>2, <1>5, <1>9, <1>11, <1>12

Errable(s) ==
  /\ s.fatal = FALSE /\ s.txn_err \in BOOLEAN /\ s.bump \in BOOLEAN
  /\ s.txn_state \in {"IN_TRANSACTION", "BEGIN_COMMIT", "COMMITTING_TRANSACTION",
                      "ABORTABLE_ERROR", "BEGIN_ABORT", "ABORTING_TRANSACTION"}
  /\ s.txn_err => s.txn_state \in {"ABORTABLE_ERROR", "BEGIN_ABORT", "ABORTING_TRANSACTION"}

\* A change that makes the transaction one that can only be aborted.
AbortableTo(s, t, b) ==
  /\ t.wire = s.wire /\ t.txn_err = TRUE /\ t.bump \in BOOLEAN /\ (t.bump <=> s.bump \/ b)
  /\ t.may_enq = FALSE
  /\ t.txn_state = IF s.txn_state \in {"ABORTABLE_ERROR", "BEGIN_ABORT", "ABORTING_TRANSACTION"}
                   THEN s.txn_state ELSE "ABORTABLE_ERROR"

LEMMA SetAbortableErrorIs ==
  ASSUME NEW s, Frame(s), Errable(s), NEW b \in BOOLEAN, NEW t, t = SetAbortableError(s, b)
  PROVE  Same(s, t, {"bump", "txn_err", "txn_state", "may_enq"}) /\ AbortableTo(s, t, b)
<1>0. PICK x : x = (s.bump \/ b)
  OBVIOUS
<1>1. PICK u : u = [s EXCEPT !.bump = x]
  OBVIOUS
<1>2. /\ Same(s, u, {"bump"}) /\ u.wire = s.wire /\ u.bump = x /\ x \in BOOLEAN
      /\ u.txn_state = s.txn_state /\ u.may_enq = s.may_enq /\ u.api = s.api /\ u.txn_err = s.txn_err
  BY <1>0, <1>1 DEF Same, Frame, Misc, Fields
<1>3. CASE s.txn_err
  <2>1. t = u
    BY <1>0, <1>1, <1>3 DEF SetAbortableError, Errable
  <2>2. Same(s, t, {"bump", "txn_err", "txn_state", "may_enq"})
    BY <1>2, <2>1, SameMore
  <2>3. t.txn_err = TRUE /\ t.may_enq = FALSE
    BY <2>1, <1>2, <1>3 DEF Errable, Frame
  <2>4. t.bump \in BOOLEAN /\ (t.bump <=> s.bump \/ b)
    BY <2>1, <1>0, <1>2
  <2> QED
    BY <1>2, <1>3, <2>1, <2>2, <2>3, <2>4 DEF Errable, AbortableTo
<1>4. CASE ~s.txn_err
  <2>1. PICK v : v = [u EXCEPT !.txn_err = TRUE]
    OBVIOUS
  <2>2. /\ Same(u, v, {"txn_err"}) /\ v.wire = u.wire /\ v.bump = x /\ v.txn_err = TRUE
        /\ v.txn_state = s.txn_state /\ v.may_enq = s.may_enq /\ v.api = s.api
    BY <2>1, <1>2 DEF Same, Misc, Fields
  <2>3. Frame(v)
    BY <2>2 DEF Frame, Same
  <2>4. PICK z : z = SetState(v, "ABORTABLE_ERROR")
    OBVIOUS
  <2>5. t = [z EXCEPT !.purge = TRUE]
    BY <1>0, <1>1, <1>4, <2>1, <2>4 DEF SetAbortableError, Errable
  <2>6. /\ Same(v, z, {"txn_state", "may_enq"}) /\ z.wire = v.wire /\ z.may_enq = FALSE
        /\ z.txn_state = IF s.txn_state \in {"ABORTABLE_ERROR", "BEGIN_ABORT", "ABORTING_TRANSACTION"}
                         THEN s.txn_state ELSE "ABORTABLE_ERROR"
    <3>1. CASE s.txn_state \in {"ABORTABLE_ERROR", "BEGIN_ABORT", "ABORTING_TRANSACTION"}
      <4>1. z = v
        BY <3>1, <2>2, <2>4 DEF SetState, Ignores, Predecessors
      <4> QED
        BY <4>1, <3>1, <2>2, <2>3 DEF Same, Frame
    <3>2. CASE s.txn_state \in {"IN_TRANSACTION", "BEGIN_COMMIT", "COMMITTING_TRANSACTION"}
      <4>1. Enters(v, "ABORTABLE_ERROR")
        BY <3>2, <2>2 DEF Enters, Predecessors, Ignores
      <4>2. Entered(v, z, "ABORTABLE_ERROR")
        BY <4>1, <2>3, <2>4, SetStateIs
      <4> QED
        BY <4>2, <3>2 DEF Entered
    <3> QED
      BY <3>1, <3>2 DEF Errable
  <2>7. /\ Same(z, t, {}) /\ t.wire = z.wire /\ t.txn_state = z.txn_state /\ t.may_enq = z.may_enq
        /\ t.bump = z.bump /\ t.txn_err = z.txn_err
    BY <2>5, <2>6 DEF Same, Misc, Fields
  <2>8. z.bump = x /\ z.txn_err = TRUE
    BY <2>2, <2>6 DEF Same, Misc, Fields
  <2>9. Same(s, v, {"bump", "txn_err"})
    BY <1>2, <2>2, SameChain
  <2>10. Same(s, z, {"bump", "txn_err", "txn_state", "may_enq"})
    BY <2>6, <2>9, SameChain
  <2>11. Same(s, t, {"bump", "txn_err", "txn_state", "may_enq"})
    BY <2>7, <2>10, SameChain
  <2>12. t.bump \in BOOLEAN /\ (t.bump <=> s.bump \/ b)
    BY <2>7, <2>8, <1>0, <1>2
  <2> QED
    BY <1>2, <2>2, <2>6, <2>7, <2>8, <2>11, <2>12 DEF AbortableTo
<1> QED
  BY <1>3, <1>4 DEF Errable

LEMMA ArmIs ==
  ASSUME NEW s, Frame(s), NEW x \in Timers, NEW t, t = Arm(s, x)
  PROVE  Same(s, t, {}) /\ t.wire = s.wire
BY DEF Arm, Same, Frame, Misc, Fields, Timers

\* The change is confined to C; what the next change needs is kept.
LEMMA FrameKept ==
  ASSUME NEW s, Frame(s), NEW t, NEW C, Same(s, t, C), "txn_state" \notin C, "may_enq" \notin C, "api" \notin C
  PROVE  Frame(t) /\ t.txn_state = s.txn_state /\ t.may_enq = s.may_enq /\ t.api = s.api
BY DEF Frame, Same, Misc, Fields

Idemp(s, t, new) == Same(s, t, {"idemp_state"}) /\ t.wire = s.wire /\ t.idemp_state = new

LEMMA IdempSetStateIs ==
  ASSUME NEW s, Frame(s), s.fatal = FALSE, NEW new, new \notin {"ASSIGNED", "FATAL_ERROR"},
         NEW t, t = IdempSetState(s, new)
  PROVE  Idemp(s, t, new)
<1>1. CASE s.idemp_state = new
  <2>1. t = s
    BY <1>1 DEF IdempSetState
  <2> QED
    BY <1>1, <2>1 DEF Idemp, Same, Frame
<1>2. CASE s.idemp_state # new
  <2>1. t = TxnIdempStateChange([s EXCEPT !.idemp_state = new], new)
    BY <1>2 DEF IdempSetState
  <2>2. t = [s EXCEPT !.idemp_state = new]
    BY <2>1 DEF TxnIdempStateChange
  <2> QED
    BY <2>2 DEF Idemp, Same, Frame, Misc, Fields
<1> QED
  BY <1>1, <1>2

IdempAny(s, t) == Same(s, t, {"idemp_state"}) /\ t.wire = s.wire /\ t.idemp_state \in IdempStates

LEMMA IdempSetStateFatal ==
  ASSUME NEW s, Frame(s), s.fatal = TRUE, s.txn_state = "FATAL_ERROR", s.idemp_state \in IdempStates,
         NEW new \in IdempStates, NEW t, t = IdempSetState(s, new)
  PROVE  IdempAny(s, t)
<1>0. PICK x : x = IF new \notin {"DRAIN_RESET", "DRAIN_BUMP"} THEN "FATAL_ERROR" ELSE new
  OBVIOUS
<1>1. CASE s.idemp_state \in {new, x}
  <2>1. t = s
    BY <1>0, <1>1 DEF IdempSetState
  <2> QED
    BY <2>1 DEF IdempAny, Same, Frame
<1>2. CASE s.idemp_state \notin {new, x}
  <2>1. PICK u : u = [s EXCEPT !.idemp_state = x]
    OBVIOUS
  <2>2. t = TxnIdempStateChange(u, x)
    BY <1>0, <1>2, <2>1 DEF IdempSetState
  <2>3. x \in IdempStates /\ x # "ASSIGNED"
    BY <1>0 DEF IdempStates
  <2>4. IdempAny(s, u) /\ u.txn_state = "FATAL_ERROR"
    BY <2>1, <2>3 DEF IdempAny, Same, Frame, Misc, Fields
  <2>5. t = u
    BY <2>2, <2>3, <2>4 DEF TxnIdempStateChange, SetState
  <2> QED
    BY <2>4, <2>5
<1> QED
  BY <1>1, <1>2

LEMMA CheckDrainDoneFatal ==
  ASSUME NEW s, Frame(s), s.fatal = TRUE, s.txn_state = "FATAL_ERROR", s.idemp_state \in IdempStates,
         NEW t, t = CheckDrainDone(s)
  PROVE  IdempAny(s, t)
<1>1. CASE t = s
  BY <1>1 DEF IdempAny, Same, Frame
<1>2. CASE t = Arm(IdempSetState(s, "REQ_PID"), "pid")
  <2>1. PICK u : u = IdempSetState(s, "REQ_PID")
    OBVIOUS
  <2>2. IdempAny(s, u)
    BY <2>1, IdempSetStateFatal DEF IdempStates
  <2>3. Frame(u)
    BY <2>2, FrameKept DEF IdempAny
  <2>4. Same(u, t, {}) /\ t.wire = u.wire
    BY <1>2, <2>1, <2>3, ArmIs DEF Timers
  <2>5. Same(s, t, {"idemp_state"})
    BY <2>2, <2>4, SameChain DEF IdempAny
  <2>6. t.idemp_state = u.idemp_state
    BY <2>4 DEF Same, Misc, Fields
  <2> QED
    BY <2>2, <2>4, <2>5, <2>6 DEF IdempAny
<1> QED
  BY <1>1, <1>2 DEF CheckDrainDone

LEMMA DrainResetFatal ==
  ASSUME NEW s, Frame(s), s.fatal = TRUE, s.txn_state = "FATAL_ERROR", s.idemp_state \in IdempStates,
         NEW t, t = DrainReset(s)
  PROVE  IdempAny(s, t)
<1>1. PICK u : u = IdempSetState(s, "DRAIN_RESET")
  OBVIOUS
<1>2. IdempAny(s, u)
  BY <1>1, IdempSetStateFatal DEF IdempStates
<1>3. Frame(u) /\ u.txn_state = "FATAL_ERROR"
  BY <1>2, FrameKept DEF IdempAny
<1>4. u.fatal = TRUE
  BY <1>2 DEF IdempAny, Same, Misc, Fields
<1>5. t = CheckDrainDone(u)
  BY <1>1 DEF DrainReset
<1>6. IdempAny(u, t)
  BY <1>2, <1>3, <1>4, <1>5, CheckDrainDoneFatal DEF IdempAny
<1>7. Same(s, t, {"idemp_state"})
  BY <1>2, <1>6, SameChain DEF IdempAny
<1> QED
  BY <1>2, <1>6, <1>7 DEF IdempAny

LEMMA DrainBumpFatal ==
  ASSUME NEW s, Frame(s), s.fatal = TRUE, s.txn_state = "FATAL_ERROR", s.idemp_state \in IdempStates,
         NEW t, t = DrainEpochBump(s, FALSE)
  PROVE  IdempAny(s, t)
<1>1. PICK u : u = IdempSetState(s, "DRAIN_BUMP")
  OBVIOUS
<1>2. IdempAny(s, u)
  BY <1>1, IdempSetStateFatal DEF IdempStates
<1>3. Frame(u) /\ u.txn_state = "FATAL_ERROR"
  BY <1>2, FrameKept DEF IdempAny
<1>4. u.fatal = TRUE
  BY <1>2 DEF IdempAny, Same, Misc, Fields
<1>5. t = CheckDrainDone(u)
  BY <1>1 DEF DrainEpochBump
<1>6. IdempAny(u, t)
  BY <1>2, <1>3, <1>4, <1>5, CheckDrainDoneFatal DEF IdempAny
<1>7. Same(s, t, {"idemp_state"})
  BY <1>2, <1>6, SameChain DEF IdempAny
<1> QED
  BY <1>2, <1>6, <1>7 DEF IdempAny

\* rd_kafka_idemp_drain_epoch_bump() once the messages are gone.
LEMMA DrainBumpIs ==
  ASSUME NEW s, Frame(s), s.fatal = FALSE, s.flight = {}, NEW t, t = DrainEpochBump(s, FALSE)
  PROVE  Idemp(s, t, "REQ_PID")
<1>1. PICK u : u = IdempSetState(s, "DRAIN_BUMP")
  OBVIOUS
<1>2. Idemp(s, u, "DRAIN_BUMP")
  BY <1>1, IdempSetStateIs
<1>3. Frame(u) /\ u.fatal = FALSE /\ u.flight = {} /\ u.idemp_state = "DRAIN_BUMP"
  <2>1. Frame(u)
    BY <1>2, FrameKept DEF Idemp
  <2> QED
    BY <2>1, <1>2 DEF Idemp, Same, Misc, Fields
<1>4. PICK v : v = IdempSetState(u, "REQ_PID")
  OBVIOUS
<1>5. Idemp(u, v, "REQ_PID")
  BY <1>3, <1>4, IdempSetStateIs
<1>6. t = Arm(v, "pid")
  BY <1>1, <1>3, <1>4 DEF DrainEpochBump, CheckDrainDone
<1>7. Frame(v)
  BY <1>3, <1>5, FrameKept DEF Idemp
<1>8. Same(v, t, {}) /\ t.wire = v.wire
  BY <1>6, <1>7, ArmIs DEF Timers
<1>9. t.idemp_state = v.idemp_state
  BY <1>8 DEF Same, Misc, Fields
<1>10. Same(s, v, {"idemp_state"})
  BY <1>2, <1>5, SameChain DEF Idemp
<1>11. Same(s, t, {"idemp_state"})
  BY <1>8, <1>10, SameChain
<1> QED
  BY <1>2, <1>5, <1>8, <1>9, <1>11 DEF Idemp

LEMMA DrainAbortIs ==
  ASSUME NEW s, Frame(s), Errable(s), NEW t, t = DrainEpochBump(s, TRUE)
  PROVE  /\ Same(s, t, {"idemp_state", "bump", "txn_err", "txn_state", "may_enq"})
         /\ AbortableTo(s, t, TRUE) /\ t.idemp_state = "WAIT_TXN_ABORT"
<1>1. PICK u : u = IdempSetState(s, "WAIT_TXN_ABORT")
  OBVIOUS
<1>2. Idemp(s, u, "WAIT_TXN_ABORT")
  BY <1>1, IdempSetStateIs DEF Errable
<1>3. Frame(u) /\ Errable(u) /\ u.bump = s.bump /\ u.txn_state = s.txn_state
  <2>1. Frame(u) /\ u.txn_state = s.txn_state
    BY <1>2, FrameKept DEF Idemp
  <2>2. u.fatal = s.fatal /\ u.bump = s.bump /\ u.txn_err = s.txn_err
    BY <1>2 DEF Idemp, Same, Misc, Fields
  <2> QED
    BY <2>1, <2>2 DEF Errable
<1>4. t = SetAbortableError(u, TRUE)
  BY <1>1 DEF DrainEpochBump
<1>5. /\ Same(u, t, {"bump", "txn_err", "txn_state", "may_enq"})
      /\ AbortableTo(u, t, TRUE)
  BY <1>3, <1>4, SetAbortableErrorIs
<1>6. t.idemp_state = u.idemp_state
  BY <1>5 DEF Same, Misc, Fields
<1>7. Same(s, t, {"idemp_state", "bump", "txn_err", "txn_state", "may_enq"})
  <2>1. Same(s, u, {"idemp_state"})
    BY <1>2 DEF Idemp
  <2>2. Same(s, u, {"idemp_state", "bump", "txn_err", "txn_state", "may_enq"})
    BY <2>1, SameMore
  <2>3. Same(u, t, {"idemp_state", "bump", "txn_err", "txn_state", "may_enq"})
    BY <1>5, SameMore
  <2> QED
    BY <2>2, <2>3, SameTrans
<1> QED
  BY <1>2, <1>3, <1>5, <1>6, <1>7 DEF Idemp, AbortableTo

LEMMA DrainAbortFatal ==
  ASSUME NEW s, Frame(s), s.fatal = TRUE, s.txn_state = "FATAL_ERROR", s.idemp_state \in IdempStates,
         NEW t, t = DrainEpochBump(s, TRUE)
  PROVE  IdempAny(s, t)
<1>1. PICK u : u = IdempSetState(s, "WAIT_TXN_ABORT")
  OBVIOUS
<1>2. IdempAny(s, u)
  BY <1>1, IdempSetStateFatal DEF IdempStates
<1>3. u.fatal = TRUE
  BY <1>2 DEF IdempAny, Same, Misc, Fields
<1>4. t = u
  BY <1>1, <1>3 DEF DrainEpochBump, SetAbortableError
<1> QED
  BY <1>2, <1>4

-----------------------------------------------------------------------------
(* The producer id, the coordinator and the timers. *)

LEMMA MiscGood ==
  ASSUME NEW s, NEW a, NEW k, NEW d, Good(s, a, k, d), NEW t, Same(s, t, {}), t.wire = s.wire
  PROVE  Good(t, a, k, d)
BY MiscSound DEF Good

LEMMA GoodFrame ==
  ASSUME NEW s, NEW a, NEW k, NEW d, Good(s, a, k, d)
  PROVE  /\ Frame(s) /\ Same(s, s, {}) /\ s.idemp_state \in IdempStates /\ s.fatal \in BOOLEAN
         /\ s.fatal => s.txn_state = "FATAL_ERROR"
         /\ ~s.fatal => s.txn_state # "FATAL_ERROR" /\ s.idemp_state \notin {"DRAIN_RESET", "DRAIN_BUMP", "FATAL_ERROR"}
<1>1. Sound(s, OnWire(s.wire), a, k, d)
  BY DEF Good
<1>2. Frame(s) /\ Same(s, s, {})
  BY <1>1, SoundFrame
<1>3. ClientOK(s) /\ StatesOK(s)
  BY <1>1 DEF Sound
<1>4. s.idemp_state \in IdempStates /\ s.fatal \in BOOLEAN /\ s.txn_state \in TxnStates
  BY <1>3 DEF ClientOK
<1>5. s.fatal => s.txn_state = "FATAL_ERROR"
  BY <1>3 DEF StatesOK
<1>6. ASSUME ~s.fatal PROVE s.txn_state # "FATAL_ERROR" /\ s.idemp_state \notin {"DRAIN_RESET", "DRAIN_BUMP", "FATAL_ERROR"}
  BY <1>3, <1>4, <1>6 DEF StatesOK, TxnStates, Acquiring, Aborting
<1> QED
  BY <1>2, <1>4, <1>5, <1>6

\* While a producer id is asked for and no request is out, the wire is empty.
LEMMA AcquiringQuiet ==
  ASSUME NEW s, NEW a, NEW k, NEW d, Good(s, a, k, d), ~s.fatal, s.idemp_state \in {"REQ_PID", "WAIT_TRANSPORT"}
  PROVE  OnWire(s.wire) = {} /\ s.wire = <<>>
<1>1. ClientOK(s) /\ StatesOK(s) /\ WireOK(s, OnWire(s.wire)) /\ Ordered(s.wire)
  BY DEF Good, Sound
<1>2. s.txn_state = "WAIT_PID" \/ Reacquiring(s)
  BY <1>1 DEF ClientOK, StatesOK, TxnStates, Acquiring, Aborting, Reacquiring
<1>3. OnWire(s.wire) = {}
  BY <1>1, <1>2 DEF WireOK
<1> QED
  BY <1>1, <1>3, WireEmpty

LEMMA PidFsmGood ==
  ASSUME NEW s, NEW a, NEW k, NEW d, Good(s, a, k, d), NEW t, t = PidFsm(s)
  PROVE  Good(t, a, k, d)
<1>0. Frame(s) /\ Same(s, s, {}) /\ s.fatal \in BOOLEAN /\ Sound(s, OnWire(s.wire), a, k, d)
  BY GoodFrame DEF Good
<1>1. PICK w : w = IF s.idemp_state = "REQ_PID" /\ s.coord THEN IdempSetState(s, "WAIT_TRANSPORT") ELSE s
  OBVIOUS
<1>2. CASE s.fatal
  BY <1>2, <1>1 DEF PidFsm
<1>3. CASE ~s.fatal /\ s.idemp_state \notin {"REQ_PID", "WAIT_TRANSPORT"}
  <2>1. w = s
    BY <1>1, <1>3
  <2> QED
    BY <2>1, <1>1, <1>3 DEF PidFsm
<1>4. CASE ~s.fatal /\ s.idemp_state \in {"REQ_PID", "WAIT_TRANSPORT"} /\ ~s.coord
  <2>1. t = CoordQuery(s)
    BY <1>1, <1>4 DEF PidFsm
  <2>2. Same(s, t, {}) /\ t.wire = s.wire
    BY <2>1, <1>0 DEF CoordQuery, Same, Misc, Fields
  <2> QED
    BY <2>2, MiscGood
<1>5. CASE ~s.fatal /\ s.idemp_state \in {"REQ_PID", "WAIT_TRANSPORT"} /\ s.coord
  <2>0. OnWire(s.wire) = {} /\ s.wire = <<>>
    BY <1>5, AcquiringQuiet
  <2>1. Idemp(s, w, "WAIT_TRANSPORT")
    <3>1. CASE s.idemp_state = "REQ_PID"
      BY <3>1, <1>0, <1>1, <1>5, IdempSetStateIs
    <3>2. CASE s.idemp_state # "REQ_PID"
      BY <3>2, <1>0, <1>1, <1>5 DEF Idemp, Same
    <3> QED
      BY <3>1, <3>2
  <2>2. /\ Frame(w) /\ w.idemp_state = "WAIT_TRANSPORT" /\ w.fatal = FALSE
        /\ Same(s, w, {"idemp_state"}) /\ w.wire = <<>>
    <3>1. Frame(w)
      BY <2>1, <1>0, FrameKept DEF Idemp
    <3> QED
      BY <3>1, <2>0, <2>1, <1>0, <1>5 DEF Idemp, Same, Misc, Fields
  <2>3. CASE ~s.up
    <3>1. t = Arm(w, "pid")
      BY <1>1, <1>5, <2>2, <2>3 DEF PidFsm
    <3>2. Same(w, t, {}) /\ t.wire = <<>>
      BY <3>1, <2>2, ArmIs DEF Timers
    <3>3. Same(s, t, {"idemp_state"})
      BY <3>2, <2>2, SameChain
    <3>4. t.idemp_state = "WAIT_TRANSPORT"
      BY <3>2, <2>2 DEF Same, Misc, Fields
    <3>5. Sound(t, {}, a, k, d)
      BY <3>3, <3>4, <1>0, <1>5, AcquireSound DEF Acquiring
    <3> QED
      BY <3>2, <3>5, WireEmpty DEF Good
  <2>4. CASE s.up
    <3>1. PICK u : u = Send(w, Request("init_pid", {}))
      OBVIOUS
    <3>2. t = IdempSetState(u, "WAIT_PID")
      BY <1>1, <1>5, <2>2, <2>4, <3>1 DEF PidFsm
    <3>3. Same(w, u, {}) /\ u.wire = Append(<<>>, Request("init_pid", {}))
      BY <3>1, <2>2 DEF Send, Same, Frame, Misc, Fields
    <3>4. Frame(u) /\ u.fatal = FALSE
      <4>1. Frame(u)
        BY <3>3, <2>2, FrameKept
      <4> QED
        BY <4>1, <3>3, <2>2 DEF Same, Misc, Fields
    <3>5. Idemp(u, t, "WAIT_PID")
      BY <3>2, <3>4, IdempSetStateIs
    <3>6. t.wire = u.wire /\ t.idemp_state = "WAIT_PID" /\ Same(u, t, {"idemp_state"})
      BY <3>5 DEF Idemp
    <3>7. Same(s, u, {"idemp_state"})
      BY <3>3, <2>2, SameChain
    <3>8. Same(s, t, {"idemp_state"})
      BY <3>6, <3>7, SameTrans
    <3>9. Request("init_pid", {}) \in Requests /\ Request("init_pid", {}).reply = "none"
      BY DEF Request, Requests, Kinds, Replies
    <3>10. Ordered(t.wire) /\ OnWire(t.wire) = {Request("init_pid", {})}
      <4>1. Ordered(<<>>) /\ OnWire(<<>>) = {}
        BY WireEmpty
      <4>2. PICK r : r = Request("init_pid", {})
        OBVIOUS
      <4>3. \A q \in OnWire(<<>>) : q.kind # r.kind /\ q.kind \notin Last
        BY <4>1
      <4>4. r \in Requests /\ r.reply = "none"
        BY <3>9, <4>2
      <4>5. Ordered(Append(<<>>, r)) /\ OnWire(Append(<<>>, r)) = OnWire(<<>>) \cup {r}
        BY <4>1, <4>3, <4>4, WireAppend
      <4> QED
        BY <3>3, <3>6, <4>1, <4>2, <4>5
    <3>11. Sound(t, {Request("init_pid", {})}, a, k, d)
      BY <3>6, <3>8, <1>0, <1>5, AcquireSound DEF Acquiring
    <3> QED
      BY <3>10, <3>11 DEF Good
  <2> QED
    BY <2>3, <2>4
<1> QED
  BY <1>2, <1>3, <1>4, <1>5

LEMMA CoordSetGood ==
  ASSUME NEW s, NEW a, NEW k, NEW d, Good(s, a, k, d), NEW known \in BOOLEAN, NEW t, t = CoordSet(s, known)
  PROVE  Good(t, a, k, d) /\ (~known => Same(s, t, {}) /\ t.wire = s.wire)
<1>0. Frame(s) /\ Same(s, s, {})
  BY GoodFrame
<1>1. CASE ~known
  <2>1. t = Arm([s EXCEPT !.coord = FALSE], "coord")
    BY <1>1 DEF CoordSet
  <2>2. Same(s, t, {}) /\ t.wire = s.wire
    BY <2>1, <1>0 DEF Arm, Same, Frame, Misc, Fields, Timers
  <2> QED
    BY <2>2, <1>1, MiscGood
<1>2. CASE known /\ s.coord
  BY <1>2 DEF CoordSet
<1>3. CASE known /\ ~s.coord
  <2>1. PICK u : u = [s EXCEPT !.coord = TRUE]
    OBVIOUS
  <2>2. t = PidFsm(u)
    BY <2>1, <1>3 DEF CoordSet
  <2>3. Same(s, u, {}) /\ u.wire = s.wire
    BY <2>1, <1>0 DEF Same, Misc, Fields
  <2>4. Good(u, a, k, d)
    BY <2>3, MiscGood
  <2> QED
    BY <2>2, <2>4, <1>3, PidFsmGood
<1> QED
  BY <1>1, <1>2, <1>3

LEMMA RegisterPartitionsGood ==
  ASSUME NEW s, NEW a, NEW k, NEW d, Good(s, a, k, d), NEW t, t = RegisterPartitions(s)
  PROVE  Good(t, a, k, d)
<1>0. /\ Frame(s) /\ Same(s, s, {}) /\ Sound(s, OnWire(s.wire), a, k, d) /\ ClientOK(s) /\ StatesOK(s)
      /\ WireOK(s, OnWire(s.wire)) /\ ListsOK(s, OnWire(s.wire)) /\ Ordered(s.wire)
  BY GoodFrame DEF Good, Sound
<1>1. CASE t = s
  BY <1>1
<1>2. CASE t # s
  <2>1. /\ s.txn_state \in Sending /\ s.pending # {} /\ s.waitresp = {}
        /\ t = [Send(s, Request("add_parts", s.pending))
                  EXCEPT !.waitresp = s.pending, !.pending = {}, !.req_cnt = @ + 1]
    BY <1>2 DEF RegisterPartitions, RequireState, Sending
  <2>2. PICK q : q = Request("add_parts", s.pending)
    OBVIOUS
  <2>3. /\ Same(s, t, {"waitresp", "pending", "req_cnt"}) /\ t.wire = Append(s.wire, q)
        /\ t.waitresp = s.pending /\ t.pending = {} /\ t.req_cnt = s.req_cnt + 1
    BY <2>1, <2>2, <1>0 DEF Send, Same, Frame, Misc, Fields
  <2>4. q \in Requests /\ q.kind = "add_parts" /\ q.reply = "none"
    BY <2>2, <1>0 DEF Request, Requests, Kinds, Replies, ClientOK
  <2>5. \A r \in OnWire(s.wire) : r.kind # q.kind /\ r.kind \notin Last
    <3>1. \A r \in OnWire(s.wire) : r.kind \in {"add_parts", "add_offsets"}
      BY <2>1, <1>0 DEF WireOK, Only, Allowed, Sending, Reacquiring, Aborting
    <3>2. \A r \in OnWire(s.wire) : r.kind # "add_parts"
      BY <2>1, <1>0 DEF ListsOK, WireOK
    <3> QED
      BY <3>1, <3>2, <2>4 DEF Last
  <2>6. Ordered(t.wire) /\ OnWire(t.wire) = OnWire(s.wire) \cup {q}
    BY <2>3, <2>4, <2>5, <1>0, WireAppend
  <2>7. ~s.fatal
    BY <2>1, <1>0 DEF StatesOK, Sending
  <2>8. Sound(t, OnWire(t.wire), a, k, d)
    BY <2>1, <2>2, <2>3, <2>6, <2>7, <1>0, RegisterSendSound
  <2> QED
    BY <2>6, <2>8 DEF Good
<1> QED
  BY <1>1, <1>2

-----------------------------------------------------------------------------
(* The replies of the coordinator.  W is what was on the wire before the   *)
(* reply r was taken from it.                                              *)

Taken(s, W, r, a, k, d) ==
  /\ Sound(s, W, a, k, d) /\ Ordered(s.wire) /\ r \in W /\ OnWire(s.wire) = W \ {r}
  /\ r.reply # "none" /\ (r.kind \in Last => s.wire = <<>>)

LEMMA CoordLostIs ==
  ASSUME NEW s, Frame(s), NEW t, t = CoordSet(s, FALSE)
  PROVE  Same(s, t, {}) /\ t.wire = s.wire
<1>1. t = Arm([s EXCEPT !.coord = FALSE], "coord")
  BY DEF CoordSet
<1> QED
  BY <1>1 DEF Arm, Same, Frame, Misc, Fields, Timers

LEMMA TakenFrame ==
  ASSUME NEW s, NEW W, NEW r, NEW a, NEW k, NEW d, Taken(s, W, r, a, k, d)
  PROVE  /\ Frame(s) /\ Same(s, s, {}) /\ s.idemp_state \in IdempStates /\ s.fatal \in BOOLEAN
         /\ s.fatal => s.txn_state = "FATAL_ERROR"
         /\ s.bump \in BOOLEAN /\ s.txn_err \in BOOLEAN /\ s.asserts = TRUE /\ s.req_cnt \in Int
         /\ r \in Requests
<1>1. Sound(s, W, a, k, d) /\ r \in W
  BY DEF Taken
<1>2. Frame(s) /\ Same(s, s, {})
  BY <1>1, SoundFrame
<1>3. ClientOK(s) /\ StatesOK(s) /\ WireOK(s, W) /\ s.asserts
  BY <1>1 DEF Sound
<1> QED
  BY <1>1, <1>2, <1>3 DEF ClientOK, StatesOK, WireOK

LEMMA TakenMisc ==
  ASSUME NEW s, NEW W, NEW r, NEW a, NEW k, NEW d, Taken(s, W, r, a, k, d),
         NEW t, Same(s, t, {}), t.wire = s.wire
  PROVE  Taken(t, W, r, a, k, d)
BY MiscSound DEF Taken

\* The wire without the reply, and the count.
LEMMA CountLess ==
  ASSUME NEW s, NEW W, NEW r, NEW a, NEW k, NEW d, Taken(s, W, r, a, k, d),
         r.kind \in {"add_parts", "add_offsets"}, s.txn_state # "READY"
  PROVE  /\ s.req_cnt \in Int /\ s.req_cnt >= 1
         /\ \A t : /\ t.req_cnt \in Int /\ t.req_cnt >= s.req_cnt - 1 /\ (s.fatal => t.fatal)
                   /\ t.rktps = s.rktps /\ t.offc = s.offc /\ t.txn = s.txn
                   => CountOK(t, OnWire(s.wire), k)
         /\ \A t : /\ t.req_cnt = s.req_cnt /\ t.rktps = s.rktps /\ t.txn = s.txn /\ (s.fatal => t.fatal)
                   /\ (t.offc = s.offc \/ t.offc = "none" \/ r.kind = "add_offsets")
                   => CountOK(t, OnWire(s.wire), k)
<1> DEFINE V == OnWire(s.wire)
<1> DEFINE A == One(Has(W, "add_parts"))
<1> DEFINE B == One(Has(W, "add_offsets"))
<1> DEFINE A2 == One(Has(V, "add_parts"))
<1> DEFINE B2 == One(Has(V, "add_offsets"))
<1> DEFINE P(t) == One(~t.fatal /\ t.rktps # {})
<1> DEFINE Q(t) == One(~t.fatal /\ (t.offc # "none" \/ <<t.txn, OFF>> \in k.written))
<1>0. CountOK(s, W, k) /\ WireOK(s, W) /\ V = W \ {r} /\ r \in W /\ s.req_cnt \in Int
  BY TakenFrame DEF Taken, Sound
<1>1. s.req_cnt >= A + B + P(s) + Q(s)
  BY <1>0 DEF CountOK
<1>2. /\ A \in 0 .. 1 /\ B \in 0 .. 1 /\ A2 \in 0 .. 1 /\ B2 \in 0 .. 1
      /\ \A t : P(t) \in 0 .. 1 /\ Q(t) \in 0 .. 1
  BY DEF One
<1>3. \/ r.kind = "add_parts" /\ Has(W, "add_parts") /\ ~Has(V, "add_parts")
         /\ (Has(V, "add_offsets") <=> Has(W, "add_offsets"))
      \/ r.kind = "add_offsets" /\ Has(W, "add_offsets") /\ ~Has(V, "add_offsets")
         /\ (Has(V, "add_parts") <=> Has(W, "add_parts"))
  BY <1>0 DEF WireOK, Has
<1>4. A2 + B2 <= A + B - 1
  BY <1>2, <1>3 DEF One
<1>5. ASSUME NEW t, t.rktps = s.rktps, t.txn = s.txn, s.fatal => t.fatal
      PROVE  /\ P(t) <= P(s)
             /\ t.offc = s.offc \/ t.offc = "none" => Q(t) <= Q(s)
  BY <1>5 DEF One
<1>8. \A t : CountOK(t, V, k) <=> (t.txn_state # "READY" => t.req_cnt >= A2 + B2 + P(t) + Q(t))
  BY DEF CountOK
<1> HIDE DEF A, B, A2, B2, P, Q
<1>6. ASSUME NEW t, t.req_cnt \in Int /\ t.req_cnt >= s.req_cnt - 1 /\ (s.fatal => t.fatal)
                   /\ t.rktps = s.rktps /\ t.offc = s.offc /\ t.txn = s.txn
      PROVE  CountOK(t, V, k)
  <2>1. P(t) <= P(s) /\ Q(t) <= Q(s)
    BY <1>5, <1>6
  <2>2. t.req_cnt >= A2 + B2 + P(t) + Q(t)
    BY <1>0, <1>1, <1>2, <1>4, <1>6, <2>1
  <2> QED
    BY <2>2, <1>8
<1>7. ASSUME NEW t, t.req_cnt = s.req_cnt /\ t.rktps = s.rktps /\ t.txn = s.txn /\ (s.fatal => t.fatal)
                   /\ (t.offc = s.offc \/ t.offc = "none" \/ r.kind = "add_offsets")
      PROVE  CountOK(t, V, k)
  <2>1. P(t) <= P(s)
    BY <1>5, <1>7
  <2>2. A2 + B2 + P(t) + Q(t) <= A + B + P(s) + Q(s)
    BY <1>2, <1>4, <2>1
  <2>3. t.req_cnt >= A2 + B2 + P(t) + Q(t)
    BY <2>2, <1>0, <1>1, <1>2, <1>7
  <2> QED
    BY <2>3, <1>8
<1>9. s.req_cnt >= 1
  BY <1>0, <1>1, <1>2, <1>4
<1> QED
  BY <1>0, <1>6, <1>7, <1>9

LEMMA CountTaken ==
  ASSUME NEW s, NEW W, NEW r, NEW a, NEW k, NEW d, Taken(s, W, r, a, k, d),
         r.kind \in {"add_parts", "add_offsets"}, s.txn_state # "READY",
         NEW t, t.req_cnt \in Int, t.req_cnt >= s.req_cnt - 1,
         t.rktps = s.rktps, t.offc = s.offc, t.txn = s.txn, s.fatal => t.fatal
  PROVE  CountOK(t, OnWire(s.wire), k)
BY CountLess

LEMMA CountHeld ==
  ASSUME NEW s, NEW W, NEW r, NEW a, NEW k, NEW d, Taken(s, W, r, a, k, d),
         r.kind \in {"add_parts", "add_offsets"}, s.txn_state # "READY",
         NEW t, t.req_cnt = s.req_cnt, t.rktps = s.rktps, t.txn = s.txn, s.fatal => t.fatal,
         t.offc = s.offc \/ t.offc = "none" \/ r.kind = "add_offsets"
  PROVE  CountOK(t, OnWire(s.wire), k)
BY CountLess

LEMMA CountSub ==
  ASSUME NEW s, NEW W, NEW k, CountOK(s, W, k), s.req_cnt \in Int, NEW V, V \subseteq W,
         NEW t, t.req_cnt = s.req_cnt, t.rktps = s.rktps, t.txn = s.txn, t.offc = s.offc \/ t.offc = "none",
         t.txn_state # "READY" => s.txn_state # "READY", s.fatal => t.fatal
  PROVE  CountOK(t, V, k)
<1>1. /\ Has(V, "add_parts") => Has(W, "add_parts")
      /\ Has(V, "add_offsets") => Has(W, "add_offsets")
  BY DEF Has
<1> DEFINE n1 == One(Has(W, "add_parts"))  m1 == One(Has(V, "add_parts"))
           n2 == One(Has(W, "add_offsets"))  m2 == One(Has(V, "add_offsets"))
           n3 == One(~s.fatal /\ s.rktps # {})  m3 == One(~t.fatal /\ t.rktps # {})
           n4 == One(~s.fatal /\ (s.offc # "none" \/ <<s.txn, OFF>> \in k.written))
           m4 == One(~t.fatal /\ (t.offc # "none" \/ <<t.txn, OFF>> \in k.written))
<1>2. m1 <= n1 /\ m2 <= n2 /\ m1 \in Int /\ m2 \in Int /\ n1 \in Int /\ n2 \in Int /\ n3 \in Int /\ m3 \in Int /\ m3 <= n3
  BY <1>1 DEF One
<1>3. m4 <= n4 /\ m4 \in Int /\ n4 \in Int
  BY DEF One
<1>4. CountOK(s, W, k) <=> (s.txn_state # "READY" => s.req_cnt >= n1 + n2 + n3 + n4)
  BY DEF CountOK
<1>5. CountOK(t, V, k) <=> (t.txn_state # "READY" => s.req_cnt >= m1 + m2 + m3 + m4)
  BY DEF CountOK
<1> HIDE DEF n1, n2, n3, n4, m1, m2, m3, m4
<1> QED
  BY <1>2, <1>3, <1>4, <1>5

\* The errors that fail the transaction find it in a state they may fail.
LEMMA ErrableIs ==
  ASSUME NEW s, NEW W, NEW a, NEW k, NEW d, Sound(s, W, a, k, d), ~s.fatal,
         s.txn_state \in {"IN_TRANSACTION", "BEGIN_COMMIT", "COMMITTING_TRANSACTION",
                          "ABORTABLE_ERROR", "BEGIN_ABORT", "ABORTING_TRANSACTION"}
  PROVE  Errable(s)
<1>1. ClientOK(s) /\ StatesOK(s)
  BY DEF Sound
<1> QED
  BY <1>1 DEF ClientOK, StatesOK, Errable

Failable(s) ==
  /\ ~s.fatal
  /\ s.txn_state \in {"IN_TRANSACTION", "BEGIN_COMMIT", "ABORTABLE_ERROR", "BEGIN_ABORT",
                      "ABORTING_TRANSACTION"}

Kept(s, t) ==
  /\ t.wire = s.wire /\ t.flight = s.flight /\ t.queued = s.queued /\ t.api = s.api
  /\ t.fatal = s.fatal /\ (s.dr_fails => t.dr_fails)

\* An abortable error as one change of a sound state.
LEMMA AbortableStep ==
  ASSUME NEW s, NEW W, NEW a, NEW k, NEW d, Sound(s, W, a, k, d), Failable(s),
         NEW b \in BOOLEAN, NoBump /\ CommitLost(s, k) => ~b, NEW t, t = SetAbortableError(s, b)
  PROVE  Sound(t, W, a, k, d) /\ Kept(s, t)
<1>1. Frame(s) /\ Errable(s)
  BY SoundFrame, ErrableIs DEF Failable
<1>2. Same(s, t, {"bump", "txn_err", "txn_state", "may_enq"}) /\ AbortableTo(s, t, b)
  BY <1>1, SetAbortableErrorIs
<1>3. Same(s, t, {"txn_state", "txn_err", "bump", "may_enq", "idemp_state"})
  BY <1>2, SameMore
<1>4. t.idemp_state = s.idemp_state /\ t.flight = s.flight /\ t.queued = s.queued /\ t.api = s.api /\ t.fatal = s.fatal
      /\ t.dr_fails = s.dr_fails
  BY <1>2 DEF Same, Misc, Fields
<1>5. /\ t.wire = s.wire /\ t.txn_err = TRUE /\ t.bump \in BOOLEAN /\ t.may_enq = FALSE
      /\ t.txn_state = IF s.txn_state \in Sending THEN "ABORTABLE_ERROR" ELSE s.txn_state
      /\ (s.bump => t.bump) /\ (~s.bump /\ ~b => ~t.bump)
  BY <1>2 DEF AbortableTo, Sending, Failable
<1>6. s.idemp_state = "WAIT_TXN_ABORT" => t.bump
  <2>1. StatesOK(s)
    BY DEF Sound
  <2> QED
    BY <2>1, <1>5 DEF StatesOK, Failable
<1>8. NoBump /\ CommitLost(s, k) => ~t.bump
  <2>1. NoBump /\ CommitLost(s, k) => ~s.bump
    BY DEF Sound, AbortOK
  <2> QED
    BY <2>1, <1>5
<1>7. Sound(t, W, a, k, d)
  BY <1>3, <1>4, <1>5, <1>6, <1>8, AbortableSound DEF Failable
<1> QED
  BY <1>4, <1>5, <1>7 DEF Kept

LEMMA DrainAbortStep ==
  ASSUME NEW s, NEW W, NEW a, NEW k, NEW d, Sound(s, W, a, k, d), Failable(s), ~Reacquiring(s),
         NoBump => ~CommitLost(s, k),
         NEW t, t = DrainEpochBump(s, TRUE)
  PROVE  Sound(t, W, a, k, d) /\ Kept(s, t) /\ ~Reacquiring(t) /\ Failable(t)
<1>1. Frame(s) /\ Errable(s)
  BY SoundFrame, ErrableIs DEF Failable
<1>2. /\ Same(s, t, {"idemp_state", "bump", "txn_err", "txn_state", "may_enq"})
      /\ AbortableTo(s, t, TRUE) /\ t.idemp_state = "WAIT_TXN_ABORT"
  BY <1>1, DrainAbortIs
<1>3. Same(s, t, {"txn_state", "txn_err", "bump", "may_enq", "idemp_state"})
  BY <1>2, SameMore
<1>4. t.flight = s.flight /\ t.queued = s.queued /\ t.api = s.api /\ t.fatal = s.fatal
      /\ t.dr_fails = s.dr_fails
  BY <1>2 DEF Same, Misc, Fields
<1>5. /\ t.wire = s.wire /\ t.txn_err = TRUE /\ t.bump \in BOOLEAN /\ t.may_enq = FALSE /\ t.bump
      /\ t.txn_state = IF s.txn_state \in Sending THEN "ABORTABLE_ERROR" ELSE s.txn_state
  BY <1>2 DEF AbortableTo, Sending, Failable
<1>6. Sound(t, W, a, k, d)
  BY <1>2, <1>3, <1>5, AbortableSound DEF Failable
<1>7. Failable(t) /\ ~Reacquiring(t)
  BY <1>2, <1>4, <1>5 DEF Reacquiring, Acquiring, Sending, Failable
<1> QED
  BY <1>4, <1>5, <1>6, <1>7 DEF Kept

\* Partitions are to be registered again after a fatal error.
LEMMA FatalRequeue ==
  ASSUME NEW s, NEW W, NEW a, NEW k, NEW d, Sound(s, W, a, k, d), s.fatal, NEW V, V \subseteq W,
         NEW t, Same(s, t, {"pending", "waitresp"}), CountOK(t, V, k),
         t.pending = s.pending \cup s.waitresp, t.waitresp = {}
  PROVE  Sound(t, V, a, k, d)
<1>1. /\ t.txn_err = s.txn_err /\ t.bump = s.bump /\ t.dr_fails = s.dr_fails /\ t.idemp_state = s.idemp_state
      /\ t.ops = s.ops /\ t.offc = s.offc /\ t.req_cnt = s.req_cnt
      /\ t.flight = s.flight /\ t.queued = s.queued /\ t.api = s.api
  BY DEF Same, Misc, Fields
<1>2. ClientOK(s)
  BY DEF Sound
<1>3. /\ t.txn_err \in BOOLEAN /\ t.bump \in BOOLEAN /\ t.dr_fails \in BOOLEAN /\ t.idemp_state \in IdempStates
      /\ t.ops \in Seq(OpNames) /\ t.offc \in {"none", "request", "sent"} /\ t.req_cnt \in Int
  BY <1>1, <1>2 DEF ClientOK
<1>4. Same(s, t, {"idemp_state", "txn_err", "bump", "req_cnt", "dr_fails", "pending", "waitresp", "api", "ops", "offc", "flight", "queued"})
  BY SameMore
<1>5. /\ t.pending \cup t.waitresp \subseteq s.pending \cup s.waitresp /\ t.pending \cap t.waitresp = {}
      /\ t.flight \subseteq s.flight /\ t.queued \subseteq s.queued
  BY <1>1
<1> QED
  BY <1>1, <1>3, <1>4, <1>5, FatalSound

LEMMA AddPartitionsGood ==
  ASSUME NEW s, NEW W, NEW r, NEW a, NEW k, NEW d, Taken(s, W, r, a, k, d), r.kind = "add_parts",
         NEW t, t = HandleAddPartitionsToTxn(s, r)
  PROVE  Good(t, a, k, d)
<1> DEFINE V == OnWire(s.wire)
<1> DEFINE outdated == r.reply # "transport" /\ s.txn_state \notin {"IN_TRANSACTION", "BEGIN_COMMIT"}
<1> DEFINE x == s.asserts /\ (r.reply = "transport" \/ s.txn_state # "COMMITTING_TRANSACTION")
                  /\ ((r.reply = "ok" /\ ~outdated) \/ s.req_cnt > 0)
<1>1. PICK u : u = [s EXCEPT !.asserts = x]
  OBVIOUS
<1>2. /\ Frame(s) /\ Same(s, s, {}) /\ s.idemp_state \in IdempStates /\ s.fatal \in BOOLEAN
      /\ s.fatal => s.txn_state = "FATAL_ERROR"
      /\ s.bump \in BOOLEAN /\ s.txn_err \in BOOLEAN /\ s.asserts = TRUE /\ s.req_cnt \in Int
      /\ r \in Requests
  BY TakenFrame
<1>3. s.txn_state \notin {"COMMITTING_TRANSACTION", "READY"} /\ r.reply \in Replies /\ r.reply # "none" /\ ~Reacquiring(s)
  <2>1. WireOK(s, W) /\ r \in W
    BY DEF Taken, Sound
  <2>2. r.kind \in Allowed(s)
    BY <2>1 DEF WireOK, Only
  <2> QED
    BY <2>2, <1>2 DEF Allowed, Requests, Taken, Reacquiring, Aborting
<1>4. s.req_cnt >= 1
  BY <1>3, CountLess
<1>5. x = TRUE
  BY <1>2, <1>3, <1>4
<1>6. Same(s, u, {}) /\ u.wire = s.wire /\ u.waitresp = s.waitresp /\ u.pending = s.pending
      /\ u.rktps = s.rktps /\ u.asserts = TRUE /\ u.txn_state = s.txn_state /\ u.req_cnt = s.req_cnt /\ u.fatal = s.fatal
  BY <1>1, <1>2, <1>5 DEF Same, Misc, Fields, Frame
<1>7. Taken(u, W, r, a, k, d)
  BY <1>6, TakenMisc
<1>8. Frame(u) /\ u.idemp_state = s.idemp_state
  <2>1. Frame(u)
    BY <1>6, <1>2, FrameKept
  <2> QED
    BY <2>1, <1>6 DEF Same, Misc, Fields
<1>9. /\ Sound(u, W, a, k, d) /\ OnWire(u.wire) = V /\ V = W \ {r} /\ r \in W /\ Ordered(u.wire)
      /\ Sound(s, W, a, k, d)
  BY <1>6, <1>7 DEF Taken
<1>10. CASE outdated
  <2>1. t = [u EXCEPT !.req_cnt = @ - 1]
    BY <1>1, <1>10 DEF HandleAddPartitionsToTxn
  <2>2. Same(u, t, {"req_cnt"}) /\ t.wire = u.wire /\ t.req_cnt = u.req_cnt - 1
    BY <2>1, <1>8 DEF Same, Misc, Fields, Frame
  <2>3. CASE ~s.fatal
    BY <2>2, <2>3, <1>6, <1>9, <1>10, OutdatedSound DEF Good, Sending
  <2>4. CASE s.fatal
    <3>1. /\ t.txn_err = u.txn_err /\ t.bump = u.bump /\ t.dr_fails = u.dr_fails /\ t.idemp_state = u.idemp_state
          /\ t.ops = u.ops /\ t.pending = u.pending /\ t.waitresp = u.waitresp /\ t.offc = u.offc
          /\ t.flight = u.flight /\ t.queued = u.queued /\ t.api = u.api /\ t.rktps = u.rktps /\ t.txn = u.txn
          /\ t.fatal = u.fatal
      BY <2>2 DEF Same, Misc, Fields
    <3>2. CountOK(t, V, k)
      <4>1. t.req_cnt \in Int /\ t.req_cnt >= u.req_cnt - 1 /\ u.txn_state # "READY"
        BY <2>2, <1>2, <1>3, <1>6
      <4> QED
        BY <4>1, <3>1, <1>7, <1>9, CountTaken
    <3>3. ClientOK(u) /\ ListsOK(u, W)
      BY <1>9 DEF Sound
    <3>4. Same(u, t, {"idemp_state", "txn_err", "bump", "req_cnt", "dr_fails", "pending", "waitresp", "api", "ops", "offc", "flight", "queued"})
      BY <2>2, SameMore
    <3>5. /\ u.txn_err \in BOOLEAN /\ u.bump \in BOOLEAN /\ u.dr_fails \in BOOLEAN /\ u.idemp_state \in IdempStates
          /\ u.ops \in Seq(OpNames) /\ u.offc \in {"none", "request", "sent"}
          /\ t.req_cnt \in Int
      BY <3>3, <2>2, <1>2, <1>6 DEF ClientOK
    <3>7. t.pending \cup t.waitresp \subseteq u.pending \cup u.waitresp /\ t.pending \cap t.waitresp = {}
      BY <3>1, <3>3 DEF ListsOK
    <3>8. t.flight \subseteq u.flight /\ t.queued \subseteq u.queued /\ V \subseteq W /\ u.fatal
      BY <3>1, <2>4, <1>6, <1>9
    <3>6. Sound(t, V, a, k, d)
      BY <3>1, <3>2, <3>4, <3>5, <3>7, <3>8, <1>9, FatalSound
    <3> QED
      BY <3>6, <2>2, <1>9 DEF Good
  <2> QED
    BY <2>3, <2>4, <1>2
<1>11. CASE ~outdated /\ r.reply = "ok"
  <2>1. r.parts = u.waitresp /\ s.txn_state \in Sending /\ ~s.fatal
    <3>1. s.txn_state \in Sending
      BY <1>11 DEF Sending
    <3>2. ListsOK(u, W) /\ StatesOK(s)
      BY <1>9 DEF Sound
    <3> QED
      BY <3>1, <3>2, <1>6, <1>9 DEF ListsOK, StatesOK, Sending
  <2>2. PICK h : h = PartitionsRegistered(u, r.parts)
    OBVIOUS
  <2>3. h = [u EXCEPT !.waitresp = {}, !.rktps = u.rktps \cup u.waitresp, !.asserts = TRUE]
    <3>1. r.parts \cap (u.pending \cup u.waitresp) = u.waitresp
      BY <2>1
    <3>2. u.waitresp \ u.waitresp = {}
      OBVIOUS
    <3> QED
      BY <3>1, <3>2, <2>2, <1>6 DEF PartitionsRegistered
  <2>4. t = Arm([h EXCEPT !.pending = @ \cup h.waitresp, !.waitresp = {}], "register")
    BY <1>1, <1>11, <2>2 DEF HandleAddPartitionsToTxn
  <2>5. Same(u, h, {"rktps", "waitresp"}) /\ h.wire = u.wire /\ h.waitresp = {} /\ h.rktps = u.rktps \cup u.waitresp /\ h.timers \subseteq Timers
    BY <2>3, <1>6, <1>8 DEF Same, Misc, Fields, Frame
  <2>10. PICK y : y = [h EXCEPT !.pending = @ \cup h.waitresp, !.waitresp = {}]
    OBVIOUS
  <2>11. /\ Same(h, y, {"pending", "waitresp"}) /\ y.wire = h.wire /\ y.waitresp = {} /\ y.rktps = h.rktps
         /\ y.pending = h.pending \cup {}
    BY <2>10, <2>5 DEF Same, Misc, Fields
  <2>12. t = Arm(y, "register")
    BY <2>4, <2>10
  <2>13. /\ Same(y, t, {}) /\ t.wire = y.wire /\ t.waitresp = y.waitresp /\ t.rktps = y.rktps
         /\ t.pending = y.pending
    BY <2>11, <2>12 DEF Arm, Same, Misc, Fields, Timers
  <2>6. /\ Same(h, t, {"pending", "waitresp"}) /\ t.wire = h.wire /\ t.waitresp = {} /\ t.rktps = h.rktps
        /\ t.pending = h.pending \cup {}
    BY <2>11, <2>13, SameChain
  <2>7. Same(u, t, {"rktps", "waitresp"})
    <3>1. Same(h, t, {"waitresp"})
      BY <2>6 DEF Same, Misc, Fields
    <3> QED
      BY <3>1, <2>5, SameChain
  <2>8. t.rktps = u.rktps \cup u.waitresp /\ t.waitresp = {} /\ u.txn_state \in Sending /\ ~u.fatal
    BY <2>1, <2>5, <2>6, <1>6
  <2>9. Sound(t, V, a, k, d)
    BY <2>7, <2>8, <1>9, <1>11, RegisteredOkSound
  <2> QED
    BY <2>9, <2>5, <2>6, <1>9 DEF Good
<1>12. CASE ~outdated /\ r.reply # "ok"
  <2>1. PICK h : h = CASE r.reply = "coord" -> CoordSet(u, FALSE) [] OTHER -> u
    OBVIOUS
  <2>2. Same(u, h, {}) /\ h.wire = u.wire
    BY <2>1, <1>7, <1>8, CoordLostIs, TakenFrame
  <2>3. PICK y : y = [h EXCEPT !.pending = @ \cup h.waitresp, !.waitresp = {}]
    OBVIOUS
  <2>4. h.pending = u.pending /\ h.waitresp = u.waitresp /\ h.timers \subseteq Timers
    BY <2>2 DEF Same, Misc, Fields
  <2>5. /\ Same(h, y, {"pending", "waitresp"}) /\ y.wire = h.wire /\ y.waitresp = {} /\ y.pending = u.pending \cup u.waitresp
    BY <2>2, <2>3, <2>4 DEF Same, Misc, Fields
  <2>6. Same(u, y, {"pending", "waitresp"}) /\ y.wire = u.wire
    BY <2>2, <2>5, SameChain
  <2>7. Frame(y) /\ y.txn_state = u.txn_state /\ y.api = u.api /\ y.fatal = u.fatal /\ y.idemp_state = u.idemp_state
    <3>1. Frame(y) /\ y.txn_state = u.txn_state /\ y.api = u.api
      BY <2>6, <1>8, FrameKept
    <3> QED
      BY <3>1, <2>6 DEF Same, Misc, Fields
  <2>8. h = CASE r.reply = "ok" -> PartitionsRegistered(u, r.parts) [] r.reply = "coord" -> CoordSet(u, FALSE) [] OTHER -> u
    BY <2>1, <1>12
  <2>9. /\ r.reply = "fenced" => t = SetFatalError(y)
        /\ r.reply = "bump" => t = DrainEpochBump(y, TRUE)
        /\ r.reply = "perm" => t = SetAbortableError(y, FALSE)
        /\ r.reply \in {"transport", "coord", "load"} => t = Arm(y, "register")
    BY <1>1, <1>12, <2>3, <2>8 DEF HandleAddPartitionsToTxn
  <2>10. ~s.fatal => Sound(y, V, a, k, d)
    BY <2>5, <2>6, <1>6, <1>9, RequeueSound
  <2>11. ASSUME r.reply = "fenced" PROVE Good(t, a, k, d)
    <3>0. s.txn_state \in Sending /\ ~s.fatal
      BY <2>11, <1>2, <1>12 DEF Sending
    <3>1. /\ Same(y, t, {"fatal", "txn_err", "txn_state", "may_enq", "api"}) /\ t.wire = y.wire
          /\ t.fatal = TRUE /\ t.txn_err = TRUE /\ t.txn_state = "FATAL_ERROR" /\ t.may_enq = FALSE
          /\ t.api = Answered(y.api, "fatal")
      BY <2>7, <2>9, <2>11, SetFatalErrorIs
    <3>2. Sound(y, V, a, k, d)
      BY <3>0, <2>10
    <3>3. ClientOK(y) /\ ListsOK(y, V) /\ CountOK(y, V, k) /\ WireOK(y, V)
      BY <3>2 DEF Sound
    <3>4. /\ t.bump = y.bump /\ t.dr_fails = y.dr_fails /\ t.idemp_state = y.idemp_state
          /\ t.pending = y.pending /\ t.waitresp = y.waitresp /\ t.offc = y.offc
          /\ t.flight = y.flight /\ t.req_cnt = y.req_cnt /\ t.rktps = y.rktps /\ t.txn = y.txn
      BY <3>1 DEF Same, Misc, Fields
    <3>5. CountOK(t, V, k)
      <4>1. y.txn_state # "READY" /\ y.req_cnt \in Int /\ V \subseteq V /\ t.fatal
        BY <3>0, <3>1, <3>3, <2>7, <1>6 DEF Sending, ClientOK
      <4> QED
        BY <4>1, <3>3, <3>4, CountSub
    <3>6. k.fenced
      <4>1. RepliesOK(s, W, k)
        BY <1>9 DEF Sound
      <4> QED
        BY <4>1, <1>9, <2>11 DEF RepliesOK
    <3>7. \A q \in V : q.kind \notin Last
      BY <3>3, <3>0, <2>7, <1>6 DEF WireOK, Only, Allowed, Sending, Last, Reacquiring, Aborting
    <3>8. Same(y, t, {"txn_state", "idemp_state", "fatal", "txn_err", "bump", "may_enq", "req_cnt", "dr_fails", "pending", "waitresp", "api", "offc", "flight"})
      BY <3>1, SameMore
    <3>9. /\ y.bump \in BOOLEAN /\ y.dr_fails \in BOOLEAN /\ y.idemp_state \in IdempStates /\ y.req_cnt \in Int
          /\ y.pending \cap y.waitresp = {}
          /\ y.txn_state \notin {"INIT", "READY_NOT_ACKED", "READY", "COMMIT_NOT_ACKED", "ABORT_NOT_ACKED"}
      BY <3>3, <3>0, <2>7, <1>6 DEF ClientOK, ListsOK, Sending
    <3>10. t.api = IF y.api.name = "none" THEN y.api
                   ELSE [y.api EXCEPT !.has_result = TRUE, !.error = IF @ # "none" THEN @ ELSE "fatal"]
      BY <3>1 DEF Answered
    <3>11. Sound(t, V, a, k, d)
      BY <3>1, <3>2, <3>4, <3>5, <3>6, <3>7, <3>8, <3>9, <3>10, GoFatalSound
    <3> QED
      BY <3>11, <3>1, <2>6, <1>9 DEF Good
  <2>12. ASSUME r.reply \in {"bump", "perm"} PROVE Good(t, a, k, d)
    <3>0. s.txn_state \in Sending /\ ~s.fatal /\ y.txn_state = s.txn_state /\ y.fatal = s.fatal /\ y.idemp_state = s.idemp_state
      BY <2>7, <2>12, <1>2, <1>6, <1>8, <1>12 DEF Sending
    <3>1. Sound(y, V, a, k, d)
      BY <3>0, <2>10
    <3>2. ~Reacquiring(y) /\ Failable(y) /\ ~CommitLost(y, k)
      BY <3>0 DEF Reacquiring, Sending, Aborting, Failable, CommitLost
    <3>3. Sound(t, V, a, k, d) /\ Kept(y, t)
      <4>1. CASE r.reply = "bump"
        <5>1. t = DrainEpochBump(y, TRUE)
          BY <4>1, <2>9
        <5> QED
          BY <5>1, <3>1, <3>2, DrainAbortStep
      <4>2. CASE r.reply = "perm"
        <5>1. t = SetAbortableError(y, FALSE)
          BY <4>2, <2>9
        <5> QED
          BY <5>1, <3>1, <3>2, AbortableStep
      <4> QED
        BY <4>1, <4>2, <2>12
    <3> QED
      BY <3>3, <2>6, <1>9 DEF Good, Kept
  <2>13. ASSUME r.reply \in {"transport", "coord", "load"} PROVE Good(t, a, k, d)
    <3>1. Same(y, t, {}) /\ t.wire = y.wire
      BY <2>7, <2>9, <2>13, ArmIs DEF Timers
    <3>2. CASE ~s.fatal
      <4>1. Sound(t, V, a, k, d)
        BY <3>1, <3>2, <2>10, MiscSound
      <4> QED
        BY <4>1, <3>1, <2>6, <1>9 DEF Good
    <3>3. CASE s.fatal
      <4>0. Same(u, t, {"pending", "waitresp"})
        BY <3>1, <2>6, SameChain
      <4>1. t.req_cnt = u.req_cnt /\ t.offc = u.offc /\ t.rktps = u.rktps /\ t.txn = u.txn /\ t.fatal = u.fatal
        BY <4>0 DEF Same, Misc, Fields
      <4>2. t.pending = u.pending \cup u.waitresp /\ t.waitresp = {}
        BY <3>1, <2>5 DEF Same, Misc, Fields
      <4>3. CountOK(t, V, k)
        BY <4>1, <1>3, <1>6, <1>7, <1>9, CountHeld
      <4>4. u.fatal /\ V \subseteq W /\ Sound(u, W, a, k, d)
        BY <3>3, <1>6, <1>9
      <4>7. Sound(t, V, a, k, d)
        BY <4>0, <4>2, <4>3, <4>4, FatalRequeue
      <4> QED
        BY <4>7, <3>1, <2>6, <1>9 DEF Good
    <3> QED
      BY <3>2, <3>3, <1>2
  <2> QED
    BY <2>11, <2>12, <2>13, <1>3, <1>12 DEF Replies
<1> QED
  BY <1>10, <1>11, <1>12

\* A handler that runs after a fatal error.
LEMMA FatalStep ==
  ASSUME NEW s, NEW W, NEW a, NEW k, NEW d, Sound(s, W, a, k, d), s.fatal, NEW V, V \subseteq W,
         NEW t, Same(s, t, {"req_cnt", "offc", "idemp_state", "dr_fails", "flight", "queued", "ops"}),
         t.req_cnt \in Int, CountOK(t, V, k), t.offc \in {"none", "request", "sent"},
         s.offc = "none" => t.offc = "none" \/ ((k.fenced \/ OFF \in k.parts) /\ Has(W, "add_offsets") /\ ~Has(V, "add_offsets")),
         t.idemp_state \in IdempStates, t.dr_fails \in BOOLEAN, t.ops \in Seq(OpNames),
         t.flight \subseteq s.flight, t.queued \subseteq s.queued
  PROVE  Sound(t, V, a, k, d) /\ t.fatal = TRUE
<1>1. ClientOK(s) /\ ListsOK(s, W)
  BY DEF Sound
<1>2. /\ t.txn_err = s.txn_err /\ t.bump = s.bump /\ t.pending = s.pending /\ t.waitresp = s.waitresp
      /\ t.api = s.api /\ t.fatal = s.fatal
  BY DEF Same, Misc, Fields
<1>3. t.txn_err \in BOOLEAN /\ t.bump \in BOOLEAN /\ s.fatal = TRUE
  BY <1>1, <1>2 DEF ClientOK
<1>4. t.pending \cup t.waitresp \subseteq s.pending \cup s.waitresp /\ t.pending \cap t.waitresp = {}
  BY <1>1, <1>2 DEF ListsOK
<1>5. Same(s, t, {"idemp_state", "txn_err", "bump", "req_cnt", "dr_fails", "pending", "waitresp", "api", "ops", "offc", "flight", "queued"})
  BY SameMore
<1>6. Sound(t, V, a, k, d)
  BY <1>2, <1>3, <1>4, <1>5, FatalSound
<1> QED
  BY <1>2, <1>3, <1>6

\* An error is set as the result after a fatal error.
LEMMA FatalAnswer ==
  ASSUME NEW s, NEW W, NEW a, NEW k, NEW d, Sound(s, W, a, k, d), s.fatal,
         NEW t, Same(s, t, {"txn_err", "api"}), t.txn_err \in BOOLEAN,
         NEW e \in Errors, e # "none", t.api = Answered(s.api, e)
  PROVE  Sound(t, W, a, k, d) /\ t.fatal = TRUE
<1>1. ClientOK(s) /\ ListsOK(s, W) /\ CountOK(s, W, k)
  BY DEF Sound
<1>2. /\ t.bump = s.bump /\ t.pending = s.pending /\ t.waitresp = s.waitresp /\ t.idemp_state = s.idemp_state
      /\ t.fatal = s.fatal /\ t.dr_fails = s.dr_fails /\ t.ops = s.ops /\ t.offc = s.offc /\ t.req_cnt = s.req_cnt
      /\ t.flight = s.flight /\ t.queued = s.queued /\ t.rktps = s.rktps /\ t.txn = s.txn /\ t.txn_state = s.txn_state
  BY DEF Same, Misc, Fields
<1>3. /\ t.bump \in BOOLEAN /\ s.fatal = TRUE /\ t.dr_fails \in BOOLEAN /\ t.idemp_state \in IdempStates
      /\ t.ops \in Seq(OpNames) /\ t.offc \in {"none", "request", "sent"} /\ t.req_cnt \in Int
  BY <1>1, <1>2 DEF ClientOK
<1>4. t.pending \cup t.waitresp \subseteq s.pending \cup s.waitresp /\ t.pending \cap t.waitresp = {}
  BY <1>1, <1>2 DEF ListsOK
<1>5. Same(s, t, {"idemp_state", "txn_err", "bump", "req_cnt", "dr_fails", "pending", "waitresp", "api", "ops", "offc", "flight", "queued"})
  BY SameMore
<1>6. CountOK(t, W, k)
  BY <1>1, <1>2 DEF CountOK
<1>7. t.api = s.api \/ (s.api.name # "none" /\ ApiOK(t.api) /\ t.api.name = s.api.name /\ (t.api.calling <=> s.api.calling)
           /\ t.api.has_result /\ t.api.error # "none")
  <2>1. CASE s.api.name = "none"
    BY <2>1 DEF Answered
  <2>2. CASE s.api.name # "none"
    <3>1. ApiOK(s.api)
      BY <1>1 DEF ClientOK
    <3> QED
      BY <3>1, <2>2 DEF Answered, ApiOK, Errors
  <2> QED
    BY <2>1, <2>2
<1>8. t.flight \subseteq s.flight /\ t.queued \subseteq s.queued /\ W \subseteq W
  BY <1>2
<1>9. Sound(t, W, a, k, d)
  BY <1>2, <1>3, <1>4, <1>5, <1>6, <1>7, <1>8, FatalSound
<1> QED
  BY <1>2, <1>3, <1>9

LEMMA FatalResult ==
  ASSUME NEW s, NEW W, NEW a, NEW k, NEW d, Sound(s, W, a, k, d), s.fatal,
         NEW e \in Errors, e # "none", NEW t, t = SetResult(s, e)
  PROVE  Sound(t, W, a, k, d) /\ t.wire = s.wire
<1>1. Frame(s) /\ ClientOK(s)
  BY SoundFrame DEF Sound
<1>2. Same(s, t, {"api"}) /\ t.wire = s.wire /\ t.api = Answered(s.api, e)
  BY <1>1, SetResultIs
<1>3. Same(s, t, {"txn_err", "api"})
  BY <1>2, SameMore
<1>4. t.txn_err = s.txn_err /\ s.txn_err \in BOOLEAN
  BY <1>1, <1>2 DEF Same, Misc, Fields, ClientOK
<1> QED
  BY <1>2, <1>3, <1>4, FatalAnswer

LEMMA FatalAgain ==
  ASSUME NEW s, NEW W, NEW a, NEW k, NEW d, Sound(s, W, a, k, d), s.fatal,
         NEW t, t = SetFatalError(s)
  PROVE  Sound(t, W, a, k, d) /\ t.wire = s.wire /\ t.fatal = TRUE
<1>1. Frame(s) /\ ClientOK(s) /\ StatesOK(s)
  BY SoundFrame DEF Sound
<1>2. /\ Same(s, t, {"fatal", "txn_err", "txn_state", "may_enq", "api"}) /\ t.wire = s.wire
      /\ t.fatal = TRUE /\ t.txn_err = TRUE /\ t.txn_state = "FATAL_ERROR" /\ t.may_enq = FALSE
      /\ t.api = Answered(s.api, "fatal")
  BY <1>1, SetFatalErrorIs
<1>3. s.fatal = TRUE /\ s.txn_state = "FATAL_ERROR" /\ s.may_enq = FALSE
  BY <1>1 DEF ClientOK, StatesOK
<1>4. Same(s, t, {"txn_err", "api"})
  BY <1>2, <1>3 DEF Same
<1>5. Sound(t, W, a, k, d)
  BY <1>2, <1>4, FatalAnswer DEF Errors
<1> QED
  BY <1>2, <1>5

\* The first fatal error.
FatalNow(u, t) ==
  /\ t.wire = u.wire /\ t.fatal = TRUE /\ t.txn_state = "FATAL_ERROR" /\ t.flight = u.flight
  /\ t.dr_fails = u.dr_fails

LEMMA GoFatalStep ==
  ASSUME NEW s, NEW W, NEW a, NEW k, NEW d, Sound(s, W, a, k, d),
         NEW V, V \subseteq W,
         NEW u, Same(s, u, {"req_cnt", "offc", "dr_fails"}), u.req_cnt \in Int, CountOK(u, V, k),
         u.offc = s.offc \/ u.offc = "none", u.dr_fails \in BOOLEAN,
         s.txn_state = "READY" => u.req_cnt = s.req_cnt,
         NEW t, t = SetFatalError(u)
  PROVE  Sound(t, V, a, k, d) /\ FatalNow(u, t)
<1>1. Frame(s) /\ ClientOK(s) /\ ListsOK(s, W)
  BY SoundFrame DEF Sound
<1>2. Frame(u) /\ u.txn_state = s.txn_state /\ u.may_enq = s.may_enq /\ u.api = s.api
  BY <1>1, FrameKept
<1>3. /\ Same(u, t, {"fatal", "txn_err", "txn_state", "may_enq", "api"}) /\ t.wire = u.wire
      /\ t.fatal = TRUE /\ t.txn_err = TRUE /\ t.txn_state = "FATAL_ERROR" /\ t.may_enq = FALSE
      /\ t.api = Answered(u.api, "fatal")
  BY <1>2, SetFatalErrorIs
<1>4. /\ t.bump = s.bump /\ t.pending = s.pending /\ t.waitresp = s.waitresp /\ t.idemp_state = s.idemp_state
      /\ t.dr_fails = u.dr_fails /\ t.offc = u.offc /\ t.req_cnt = u.req_cnt
      /\ t.flight = s.flight /\ t.rktps = u.rktps /\ t.txn = u.txn /\ u.flight = s.flight
  <2>1. /\ u.bump = s.bump /\ u.pending = s.pending /\ u.waitresp = s.waitresp /\ u.idemp_state = s.idemp_state
        /\ u.flight = s.flight
    BY DEF Same, Misc, Fields
  <2> QED
    BY <2>1, <1>3 DEF Same, Misc, Fields
<1>5. s.bump \in BOOLEAN /\ s.idemp_state \in IdempStates /\ s.pending \cap s.waitresp = {}
  BY <1>1 DEF ClientOK, ListsOK
<1>6. CountOK(t, V, k)
  <2>1. /\ u.req_cnt \in Int /\ t.req_cnt = u.req_cnt /\ t.rktps = u.rktps /\ t.txn = u.txn /\ t.offc = u.offc
        /\ t.fatal /\ V \subseteq V
    BY <1>3, <1>4
  <2>2. CASE s.txn_state # "READY"
    BY <2>1, <2>2, <1>2, <1>3, CountSub
  <2>3. CASE s.txn_state = "READY"
    <3>1. WireOK(s, W) /\ s.req_cnt = 0
      BY <1>1, <2>3 DEF Sound, ListsOK, Outside
    <3>2. ~Has(V, "add_parts") /\ ~Has(V, "add_offsets")
      BY <3>1, <2>3 DEF WireOK, Only, Allowed, Has
    <3>3. t.req_cnt = 0
      BY <3>1, <2>1, <2>3
    <3> QED
      BY <3>2, <3>3, <2>1 DEF CountOK, One
  <2> QED
    BY <2>2, <2>3
<1>7. Same(s, t, {"txn_state", "idemp_state", "fatal", "txn_err", "bump", "may_enq", "req_cnt", "dr_fails", "pending", "waitresp", "api", "offc", "flight"})
  BY <1>3, SameChain
<1>8. t.api = IF s.api.name = "none" THEN s.api
              ELSE [s.api EXCEPT !.has_result = TRUE, !.error = IF @ # "none" THEN @ ELSE "fatal"]
  BY <1>2, <1>3 DEF Answered
<1>9. t.pending \cup t.waitresp \subseteq s.pending \cup s.waitresp /\ t.pending \cap t.waitresp = {} /\ t.flight \subseteq s.flight
  BY <1>4, <1>5
<1>11. Sound(t, V, a, k, d)
  BY <1>3, <1>4, <1>5, <1>6, <1>7, <1>8, <1>9, GoFatalSound
<1> QED
  BY <1>3, <1>4, <1>11 DEF FatalNow

\* A request is sent again.
LEMMA Resend ==
  ASSUME NEW s, NEW W, NEW r, NEW a, NEW k, NEW d, Taken(s, W, r, a, k, d),
         \A q \in OnWire(s.wire) : q.kind \notin Last, s.txn_state \notin Outside,
         NEW t, Same(s, t, {"req_cnt"}), t.req_cnt \in Int, t.req_cnt >= s.req_cnt,
         t.wire = Append(s.wire, Request(r.kind, r.parts))
  PROVE  Good(t, a, k, d)
<1>1. PICK p : p = Request(r.kind, r.parts)
  OBVIOUS
<1>2. WireOK(s, W) /\ r \in W /\ OnWire(s.wire) = W \ {r} /\ Ordered(s.wire) /\ Sound(s, W, a, k, d)
  BY DEF Taken, Sound
<1>3. p \in Requests /\ p.kind = r.kind /\ p.parts = r.parts /\ p.reply = "none"
  BY <1>1, <1>2 DEF WireOK, Request, Requests, Replies
<1>4. \A q \in OnWire(s.wire) : q.kind # p.kind
  BY <1>2, <1>3 DEF WireOK
<1>5. Ordered(t.wire) /\ OnWire(t.wire) = (W \ {r}) \cup {p}
  BY <1>1, <1>2, <1>3, <1>4, WireAppend
<1>6. PICK V : V = OnWire(t.wire)
  OBVIOUS
<1>7. V = (W \ {r}) \cup {p}
  BY <1>5, <1>6
<1>8. Rewrites(W, V, k)
  <2>1. V \subseteq Requests
    BY <1>2, <1>3, <1>7 DEF WireOK
  <2>2. \A q \in V : \E x \in W :
           /\ q.kind = x.kind /\ q.parts = x.parts
           /\ \/ q = x
              \/ q.reply \notin {"ok", "fenced"} /\ (NoBump => q.reply # "bump")
              \/ q.reply = "fenced" /\ (k.fenced \/ q.kind \in {"end_commit", "end_abort"})
    BY <1>2, <1>3, <1>7
  <2>3. \A x \in W : \E q \in V : q.kind = x.kind
    BY <1>3, <1>7
  <2>4. \A q, x \in V : q.kind = x.kind => q = x
    BY <1>2, <1>3, <1>7 DEF WireOK
  <2>5. \A q, x \in V : q.kind \notin Last /\ x.kind \in Last /\ x.reply # "none" => q.reply # "none"
    BY <1>2, <1>3, <1>7
  <2> QED
    BY <2>1, <2>2, <2>3, <2>4, <2>5 DEF Rewrites
<1>9. Sound(t, V, a, k, d)
  BY <1>2, <1>8, RewriteSound
<1> QED
  BY <1>5, <1>6, <1>9 DEF Good

Wired(s, t) == t.wire = s.wire

\* The result may be set before the error is: the two do not touch the same fields.
LEMMA AbortableResult ==
  ASSUME NEW x, NEW V, NEW a, NEW k, NEW d, Sound(x, V, a, k, d), Failable(x),
         NEW s, Frame(s), Same(s, x, {"api"}), NEW e, x.api = Answered(s.api, e), NEW b \in BOOLEAN,
         NoBump /\ CommitLost(x, k) => ~b,
         NEW t, t = SetResult(SetAbortableError(s, b), e)
  PROVE  Sound(t, V, a, k, d) /\ Wired(s, t)
<1>1. Errable(x) /\ StatesOK(x)
  BY ErrableIs DEF Failable, Sound
<1>2. /\ x.fatal = s.fatal /\ x.txn_err = s.txn_err /\ x.bump = s.bump /\ x.txn_state = s.txn_state
      /\ x.idemp_state = s.idemp_state
  BY DEF Same, Misc, Fields
<1>3. Errable(s)
  BY <1>1, <1>2 DEF Errable
<1>4. PICK u : u = SetAbortableError(s, b)
  OBVIOUS
<1>5. Same(s, u, {"bump", "txn_err", "txn_state", "may_enq"}) /\ AbortableTo(s, u, b)
  BY <1>3, <1>4, SetAbortableErrorIs
<1>6. /\ u.api = s.api /\ u.idemp_state = s.idemp_state
      /\ u.wire = s.wire /\ u.txn_err = TRUE /\ u.bump \in BOOLEAN /\ u.may_enq = FALSE
      /\ u.txn_state = IF s.txn_state \in Sending THEN "ABORTABLE_ERROR" ELSE s.txn_state
      /\ (s.bump => u.bump) /\ (~s.bump /\ ~b => ~u.bump)
  <2>1. u.api = s.api /\ u.idemp_state = s.idemp_state
    BY <1>5 DEF Same, Misc, Fields
  <2> QED
    BY <2>1, <1>2, <1>5 DEF AbortableTo, Sending, Failable
<1>7. Frame(u)
  BY <1>5, <1>6 DEF Frame, Same, TxnStates
<1>8. Same(u, t, {"api"}) /\ t.wire = u.wire /\ t.api = Answered(s.api, e)
  BY <1>4, <1>6, <1>7, SetResultIs
<1>9. Same(x, t, {"txn_state", "txn_err", "bump", "may_enq", "idemp_state"})
  BY <1>5, <1>8 DEF Same
<1>10. /\ t.txn_err = TRUE /\ t.bump = u.bump /\ t.may_enq = FALSE /\ t.txn_state = u.txn_state
       /\ t.idemp_state = x.idemp_state
  BY <1>2, <1>6, <1>8 DEF Same, Misc, Fields
<1>11. x.idemp_state = "WAIT_TXN_ABORT" => t.bump
  BY <1>1, <1>2, <1>6, <1>10 DEF StatesOK, Failable
<1>12. /\ t.bump \in BOOLEAN
       /\ t.txn_state = IF x.txn_state \in Sending THEN "ABORTABLE_ERROR" ELSE x.txn_state
  BY <1>2, <1>6, <1>10
<1>14. NoBump /\ CommitLost(x, k) => ~t.bump
  <2>1. NoBump /\ CommitLost(x, k) => ~x.bump
    BY DEF Sound, AbortOK
  <2> QED
    BY <2>1, <1>2, <1>6, <1>10
<1>13. Sound(t, V, a, k, d)
  BY <1>14, <1>9, <1>10, <1>11, <1>12, AbortableSound DEF Failable
<1> QED
  BY <1>6, <1>8, <1>13 DEF Wired

LEMMA AddOffsetsGood ==
  ASSUME NEW s, NEW W, NEW r, NEW a, NEW k, NEW d, Taken(s, W, r, a, k, d), r.kind = "add_offsets",
         NEW expired \in BOOLEAN, NEW t, t = HandleAddOffsetsToTxn(s, r, expired)
  PROVE  Good(t, a, k, d)
<1>1. /\ Frame(s) /\ Same(s, s, {}) /\ s.idemp_state \in IdempStates /\ s.fatal \in BOOLEAN
      /\ s.fatal => s.txn_state = "FATAL_ERROR"
      /\ s.asserts = TRUE /\ s.req_cnt \in Int /\ r \in Requests
  BY TakenFrame
<1>2. PICK V : V = OnWire(s.wire)
  OBVIOUS
<1>3. /\ Sound(s, W, a, k, d) /\ V = W \ {r} /\ r \in W /\ Ordered(s.wire) /\ ClientOK(s) /\ WireOK(s, W)
      /\ PartsOK(s, W, a, k) /\ RepliesOK(s, W, k) /\ (~s.fatal => CallOK(s, W, a)) /\ SlotOK(s, a)
  BY <1>2 DEF Taken, Sound
<1>4. /\ s.txn_state \in {"IN_TRANSACTION", "ABORTABLE_ERROR", "FATAL_ERROR"} /\ ~Reacquiring(s)
      /\ \A q \in W : q.kind \notin Last
  <2>1. r.kind \in Allowed(s)
    BY <1>3 DEF WireOK, Only
  <2>2. s.txn_state \in {"IN_TRANSACTION", "ABORTABLE_ERROR", "FATAL_ERROR"} /\ ~Reacquiring(s)
    BY <2>1, <1>3 DEF Allowed, Reacquiring, Aborting, ClientOK, TxnStates
  <2>3. s.txn_state # "FATAL_ERROR" => \A q \in W : q.kind \notin Last
    BY <2>2, <1>3 DEF WireOK, Only, Allowed, Last
  <2>4. s.txn_state = "FATAL_ERROR" => \A q \in W : q.kind \notin Last
    <3>1. Has(W, "add_offsets")
      BY <1>3 DEF Has
    <3>2. s.txn_state = "FATAL_ERROR" => s.fatal
      BY <1>3 DEF Sound, StatesOK
    <3> QED
      BY <3>1, <3>2, <1>3 DEF PartsOK
  <2> QED
    BY <2>2, <2>3, <2>4
<1>5. s.txn_state # "READY" /\ s.txn_state \notin Outside /\ r.reply \in Replies /\ r.reply # "none"
  BY <1>1, <1>4 DEF Outside, Requests, Taken
<1>6. s.req_cnt >= 1
  BY <1>5, CountLess
<1>7. ~s.fatal => /\ Failable(s) /\ s.offc = "none" /\ s.api.name # "none"
  <2>1. Has(W, "add_offsets")
    BY <1>3 DEF Has
  <2>2. ~s.fatal => s.txn_state # "FATAL_ERROR"
    BY <1>3 DEF Sound, StatesOK
  <2> QED
    BY <2>1, <2>2, <1>3, <1>4 DEF CallOK, At, Failable, SlotOK, InCall
<1>8. r.reply = "ok" => k.fenced \/ OFF \in k.parts
  BY <1>3 DEF RepliesOK, WireOK
<1> DEFINE late == expired /\ r.reply = "ok"
<1>9. PICK less : less = [s EXCEPT !.req_cnt = @ - 1, !.asserts = @ /\ s.req_cnt > 0]
  OBVIOUS
<1>10. /\ Same(s, less, {"req_cnt"}) /\ less.wire = s.wire /\ less.req_cnt = s.req_cnt - 1
       /\ less.req_cnt \in Int
  <2>1. (s.asserts /\ s.req_cnt > 0) = TRUE
    BY <1>1, <1>6
  <2>2. less = [s EXCEPT !.req_cnt = s.req_cnt - 1, !.asserts = TRUE]
    BY <2>1, <1>9
  <2>3. DOMAIN less = Fields /\ less.timers = s.timers /\ less.wire = s.wire /\ less.req_cnt = s.req_cnt - 1
        /\ less.asserts = TRUE
    BY <2>2, <1>1 DEF Fields, Frame
  <2>4. \A f \in Fields \ ({"req_cnt"} \cup Misc) : less[f] = s[f]
    <3> SUFFICES ASSUME NEW f \in Fields, f # "req_cnt" PROVE less[f] = s[f]
      OBVIOUS
    <3> QED
      BY <2>2, <1>1 DEF Frame
  <2>5. Same(s, less, {"req_cnt"})
    BY <2>3, <2>4, <1>1 DEF Same, Frame
  <2> QED
    BY <2>3, <2>5, <1>1
<1>11. /\ Frame(less) /\ less.api = s.api /\ less.fatal = s.fatal /\ less.rktps = s.rktps /\ less.offc = s.offc
       /\ less.txn = s.txn
  <2>1. Frame(less) /\ less.api = s.api
    BY <1>1, <1>10, FrameKept
  <2> QED
    BY <2>1, <1>10 DEF Same, Misc, Fields
<1>12. ASSUME NEW u, Same(s, u, {"req_cnt"}), u.req_cnt \in Int, u.req_cnt >= s.req_cnt - 1, s.fatal
       PROVE  Sound(u, V, a, k, d) /\ u.fatal = TRUE
  <2>1. /\ u.rktps = s.rktps /\ u.offc = s.offc /\ u.txn = s.txn /\ u.idemp_state = s.idemp_state /\ u.fatal = s.fatal
        /\ u.dr_fails = s.dr_fails /\ u.ops = s.ops /\ u.flight = s.flight /\ u.queued = s.queued
    BY <1>12 DEF Same, Misc, Fields
  <2>2. CountOK(u, V, k)
    BY <2>1, <1>2, <1>5, <1>12, CountTaken
  <2>3. Same(s, u, {"req_cnt", "offc", "idemp_state", "dr_fails", "flight", "queued", "ops"})
    BY <1>12, SameMore
  <2>4. /\ u.offc \in {"none", "request", "sent"} /\ u.idemp_state \in IdempStates /\ u.dr_fails \in BOOLEAN
        /\ u.ops \in Seq(OpNames) /\ u.flight \subseteq s.flight /\ u.queued \subseteq s.queued /\ V \subseteq W
        /\ (s.offc = "none" => u.offc = "none")
    BY <2>1, <1>3 DEF ClientOK
  <2> QED
    BY <2>2, <2>3, <2>4, <1>3, <1>12, FatalStep
<1>13. ASSUME r.reply = "ok", ~late PROVE Good(t, a, k, d)
  <2>1. t = [s EXCEPT !.offc = "request"]
    BY <1>13 DEF HandleAddOffsetsToTxn
  <2>2. Same(s, t, {"offc"}) /\ t.wire = s.wire /\ t.offc = "request"
    BY <2>1, <1>1 DEF Same, Misc, Fields, Frame
  <2>3. CASE ~s.fatal
    <3>1. Sound(t, V, a, k, d)
      BY <2>2, <2>3, <1>3, <1>13, OffsetsAddedSound
    <3> QED
      BY <3>1, <2>2, <1>2, <1>3 DEF Good
  <2>4. CASE s.fatal
    <3>1. /\ t.rktps = s.rktps /\ t.req_cnt = s.req_cnt /\ t.txn = s.txn /\ t.idemp_state = s.idemp_state /\ t.fatal = s.fatal
          /\ t.dr_fails = s.dr_fails /\ t.ops = s.ops /\ t.flight = s.flight /\ t.queued = s.queued
      BY <2>2 DEF Same, Misc, Fields
    <3>2. CountOK(t, V, k)
      BY <3>1, <1>2, <1>5, CountHeld
    <3>3. Same(s, t, {"req_cnt", "offc", "idemp_state", "dr_fails", "flight", "queued", "ops"})
      BY <2>2, SameMore
    <3>4. /\ t.offc \in {"none", "request", "sent"} /\ t.idemp_state \in IdempStates /\ t.dr_fails \in BOOLEAN
          /\ t.ops \in Seq(OpNames) /\ t.flight \subseteq s.flight /\ t.queued \subseteq s.queued /\ V \subseteq W
          /\ t.req_cnt \in Int /\ (k.fenced \/ OFF \in k.parts) /\ Has(W, "add_offsets")
      BY <3>1, <2>2, <2>4, <1>1, <1>3, <1>8, <1>13 DEF ClientOK, Has
    <3>6. ~Has(V, "add_offsets")
      BY <1>3 DEF Has, WireOK
    <3>5. Sound(t, V, a, k, d)
      BY <3>2, <3>3, <3>4, <3>6, <2>4, <1>3, FatalStep
    <3> QED
      BY <3>5, <2>2, <1>2, <1>3 DEF Good
  <2> QED
    BY <2>3, <2>4
<1>14. ASSUME r.reply = "fenced" PROVE Good(t, a, k, d)
  <2>1. PICK u : u = SetFatalError(less)
    OBVIOUS
  <2>2. t = SetResult(u, "fatal")
    BY <2>1, <1>9, <1>14 DEF HandleAddOffsetsToTxn
  <2>3. Sound(u, V, a, k, d) /\ u.wire = s.wire /\ u.fatal
    <3>1. CASE ~s.fatal
      <4>1. k.fenced
        BY <1>3, <1>14 DEF RepliesOK
      <4>2. CountOK(less, V, k)
        BY <1>2, <1>5, <1>10, <1>11, CountTaken
      <4>3. Same(s, less, {"req_cnt", "offc", "dr_fails"})
        BY <1>10, SameMore
      <4>4. less.dr_fails \in BOOLEAN
        BY <1>3, <1>10 DEF Same, Misc, Fields, ClientOK
      <4>5. /\ V \subseteq W /\ \A q \in V : q.kind \notin Last
            /\ s.txn_state \notin {"INIT", "READY_NOT_ACKED", "READY", "COMMIT_NOT_ACKED", "ABORT_NOT_ACKED"}
        BY <1>3, <1>4
      <4>6. Sound(u, V, a, k, d) /\ FatalNow(less, u)
        BY <4>1, <4>2, <4>3, <4>4, <4>5, <2>1, <1>3, <1>10, <1>11, GoFatalStep
      <4> QED
        BY <4>6, <1>10 DEF FatalNow
    <3>2. CASE s.fatal
      <4>1. Sound(less, V, a, k, d) /\ less.fatal
        <5>1. less.req_cnt >= s.req_cnt - 1
          BY <1>1, <1>10
        <5> QED
          BY <5>1, <3>2, <1>10, <1>12
      <4> QED
        BY <4>1, <2>1, <1>10, FatalAgain
    <3> QED
      BY <3>1, <3>2
  <2>4. Sound(t, V, a, k, d) /\ t.wire = u.wire
    BY <2>2, <2>3, FatalResult DEF Errors
  <2> QED
    BY <2>3, <2>4, <1>2, <1>3 DEF Good
<1>15. ASSUME r.reply \in {"bump", "perm"} PROVE Good(t, a, k, d)
  <2>1. t = SetResult(SetAbortableError(less, FALSE), "abortable")
    BY <1>9, <1>15 DEF HandleAddOffsetsToTxn
  <2>2. CASE ~s.fatal
    <3>1. PICK x : x = SetResult(less, "abortable")
      OBVIOUS
    <3>2. Same(less, x, {"api"}) /\ x.wire = less.wire /\ x.api = Answered(less.api, "abortable")
      BY <3>1, <1>11, SetResultIs
    <3>3. Same(s, x, {"req_cnt", "api"})
      BY <3>2, <1>10, SameChain
    <3>4. x.req_cnt = less.req_cnt /\ x.fatal = s.fatal /\ x.txn_state = s.txn_state
      BY <3>2, <1>10 DEF Same, Misc, Fields
    <3>5. x.api = Answered(s.api, "abortable") /\ x.req_cnt \in Int /\ x.req_cnt >= s.req_cnt - 1
      BY <3>2, <3>4, <1>1, <1>10, <1>11
    <3>6. Sound(x, V, a, k, d)
      BY <3>3, <3>5, <2>2, <1>3, OffsetsDoneSound DEF Errors
    <3>7. Failable(x)
      BY <3>4, <2>2, <1>7 DEF Failable
    <3>8. Sound(t, V, a, k, d) /\ Wired(less, t)
      <4>1. Frame(less) /\ FALSE \in BOOLEAN
        BY <1>11
      <4> QED
        BY <4>1, <3>2, <3>6, <3>7, <2>1, AbortableResult
    <3> QED
      BY <3>8, <1>2, <1>3, <1>10 DEF Good, Wired
  <2>3. CASE s.fatal
    <3>1. Sound(less, V, a, k, d) /\ less.fatal
      <4>1. less.req_cnt >= s.req_cnt - 1
        BY <1>1, <1>10
      <4> QED
        BY <4>1, <2>3, <1>10, <1>12
    <3>2. t = SetResult(less, "abortable")
      BY <3>1, <2>1 DEF SetAbortableError
    <3>3. Sound(t, V, a, k, d) /\ t.wire = less.wire
      BY <3>1, <3>2, FatalResult DEF Errors
    <3> QED
      BY <3>3, <1>2, <1>3, <1>10 DEF Good
  <2> QED
    BY <2>2, <2>3
<1>16. ASSUME r.reply \in {"transport", "coord", "load"} \/ late PROVE Good(t, a, k, d)
  <2> DEFINE uncertain == r.reply = "transport" \/ late
  <2>1. PICK w : w = CASE late -> [s EXCEPT !.req_cnt = @ + 1]
                       [] r.reply = "transport" -> [less EXCEPT !.req_cnt = @ + 1]
                       [] OTHER -> less
    OBVIOUS
  <2>2. PICK u : u = IF uncertain \/ r.reply = "coord" THEN Arm(w, "coord") ELSE w
    OBVIOUS
  <2>3. /\ Same(s, w, {"req_cnt"}) /\ w.wire = s.wire /\ w.req_cnt \in Int /\ w.req_cnt >= s.req_cnt - 1
    <3>1. CASE late
      <4>1. w = [s EXCEPT !.req_cnt = s.req_cnt + 1]
        BY <3>1, <2>1
      <4> QED
        BY <4>1, <1>1 DEF Same, Misc, Fields, Frame
    <3>2. CASE ~late /\ r.reply = "transport"
      <4>1. w = [less EXCEPT !.req_cnt = less.req_cnt + 1]
        BY <3>2, <2>1
      <4>2. Same(less, w, {"req_cnt"}) /\ w.wire = less.wire /\ w.req_cnt = less.req_cnt + 1
        BY <4>1, <1>10 DEF Same, Misc, Fields
      <4>3. Same(s, w, {"req_cnt"})
        BY <4>2, <1>10, SameTrans
      <4> QED
        BY <4>2, <4>3, <1>1, <1>10
    <3>3. CASE ~late /\ r.reply # "transport"
      <4>1. w = less
        BY <3>3, <2>1
      <4> QED
        BY <4>1, <1>1, <1>10
    <3> QED
      BY <3>1, <3>2, <3>3
  <2>4. Frame(w)
    BY <2>3, <1>1, FrameKept
  <2>5. Same(w, u, {}) /\ u.wire = w.wire
    <3>1. CASE u = w
      BY <3>1, <2>4 DEF Same, Frame
    <3>2. CASE u = Arm(w, "coord")
      BY <3>2, <2>4, ArmIs DEF Timers
    <3> QED
      BY <3>1, <3>2, <2>2
  <2>6. Same(s, u, {"req_cnt"}) /\ u.wire = s.wire /\ u.req_cnt \in Int /\ u.req_cnt >= s.req_cnt - 1
    <3>1. Same(s, u, {"req_cnt"})
      BY <2>3, <2>5, SameChain
    <3> QED
      BY <3>1, <2>3, <2>5 DEF Same, Misc, Fields
  <2>7. Frame(u) /\ u.api = s.api
    BY <2>6, <1>1, FrameKept
  <2>8. CASE expired
    <3>1. t = SetResult(u, "retriable")
      <4>1. CASE late
        BY <4>1, <2>1, <2>2, <2>8, <1>9 DEF HandleAddOffsetsToTxn
      <4>2. CASE r.reply = "transport"
        BY <4>2, <2>1, <2>2, <2>8, <1>9 DEF HandleAddOffsetsToTxn
      <4>3. CASE r.reply = "coord"
        BY <4>3, <2>1, <2>2, <2>8, <1>9 DEF HandleAddOffsetsToTxn
      <4>4. CASE r.reply = "load"
        BY <4>4, <2>1, <2>2, <2>8, <1>9 DEF HandleAddOffsetsToTxn
      <4> QED
        BY <4>1, <4>2, <4>3, <4>4, <1>16
    <3>2. CASE ~s.fatal
      <4>1. Same(u, t, {"api"}) /\ t.wire = u.wire /\ t.api = Answered(s.api, "retriable")
        BY <3>1, <2>7, SetResultIs
      <4>2. Same(s, t, {"req_cnt", "api"})
        BY <4>1, <2>6, SameChain
      <4>3. t.req_cnt = u.req_cnt
        BY <4>1 DEF Same, Misc, Fields
      <4>4. Sound(t, V, a, k, d)
        BY <4>1, <4>2, <4>3, <2>6, <3>2, <1>3, OffsetsDoneSound DEF Errors
      <4> QED
        BY <4>1, <4>4, <2>6, <1>2, <1>3 DEF Good
    <3>3. CASE s.fatal
      <4>1. Sound(u, V, a, k, d) /\ u.fatal
        BY <3>3, <2>6, <1>12
      <4>2. Sound(t, V, a, k, d) /\ t.wire = u.wire
        BY <4>1, <3>1, FatalResult DEF Errors
      <4> QED
        BY <4>2, <2>6, <1>2, <1>3 DEF Good
    <3> QED
      BY <3>2, <3>3
  <2>9. CASE ~expired
    <3>0. PICK v : v = [u EXCEPT !.req_cnt = @ + 1]
      OBVIOUS
    <3>1. t = Send(v, Request(r.kind, r.parts))
      <4>1. ~late
        BY <2>9
      <4>2. CASE r.reply = "transport"
        BY <3>0, <4>1, <4>2, <2>1, <2>2, <2>9, <1>9 DEF HandleAddOffsetsToTxn
      <4>3. CASE r.reply = "coord"
        BY <3>0, <4>1, <4>3, <2>1, <2>2, <2>9, <1>9 DEF HandleAddOffsetsToTxn
      <4>4. CASE r.reply = "load"
        BY <3>0, <4>1, <4>4, <2>1, <2>2, <2>9, <1>9 DEF HandleAddOffsetsToTxn
      <4> QED
        BY <4>1, <4>2, <4>3, <4>4, <1>16
    <3>2. Same(u, t, {"req_cnt"}) /\ t.req_cnt = u.req_cnt + 1 /\ t.wire = Append(s.wire, Request(r.kind, r.parts))
      <4>1. Same(u, v, {"req_cnt"}) /\ v.req_cnt = u.req_cnt + 1 /\ v.wire = s.wire
        BY <3>0, <2>6, <2>7 DEF Same, Misc, Fields, Frame
      <4>2. Same(v, t, {"req_cnt"}) /\ t.req_cnt = v.req_cnt /\ t.wire = Append(s.wire, Request(r.kind, r.parts))
        BY <3>1, <4>1 DEF Send, Same, Misc, Fields
      <4>3. Same(u, t, {"req_cnt"})
        BY <4>1, <4>2, SameTrans
      <4> QED
        BY <4>1, <4>2, <4>3
    <3>3. Same(s, t, {"req_cnt"}) /\ t.req_cnt \in Int /\ t.req_cnt >= s.req_cnt
      <4>1. Same(s, t, {"req_cnt"})
        BY <3>2, <2>6, SameTrans
      <4> QED
        BY <4>1, <3>2, <2>6, <1>1
    <3>4. \A q \in OnWire(s.wire) : q.kind \notin Last
      BY <1>2, <1>3, <1>4
    <3> QED
      BY <3>2, <3>3, <3>4, <1>5, Resend
  <2> QED
    BY <2>8, <2>9
<1> QED
  BY <1>5, <1>13, <1>14, <1>15, <1>16 DEF Replies

\* The state in which the reply to EndTxn finds the client.
Ending(s, a, commit) ==
  /\ ~s.fatal /\ s.offc = "none" /\ s.flight = {} /\ s.queued = {} /\ s.ops = <<>> /\ ~s.api.has_result
  /\ commit => s.txn_state = "COMMITTING_TRANSACTION" /\ At(a, "commit", 3, "wait")
                 /\ s.api.name = "commit" /\ ~s.bump
  /\ ~commit => s.txn_state = "ABORTING_TRANSACTION" /\ At(a, "abort", 3, "wait") /\ ~Reacquiring(s)
                 /\ s.api.name = "abort"

LEMMA EndingIs ==
  ASSUME NEW s, NEW W, NEW r, NEW a, NEW k, NEW d, Taken(s, W, r, a, k, d),
         r.kind \in {"end_commit", "end_abort"}, ~s.fatal
  PROVE  Ending(s, a, r.kind = "end_commit") /\ s.wire = <<>>
<1>1. /\ Sound(s, W, a, k, d) /\ r \in W /\ ClientOK(s) /\ WireOK(s, W) /\ StatesOK(s) /\ QueueOK(s, a)
      /\ (~s.fatal => CallOK(s, W, a)) /\ SlotOK(s, a) /\ s.wire = <<>>
  BY DEF Taken, Sound, Last
<1>2. r.kind \in Allowed(s)
  BY <1>1 DEF WireOK, Only
<1>3. CASE r.kind = "end_commit"
  <2>1. s.txn_state = "COMMITTING_TRANSACTION"
    BY <1>1, <1>2, <1>3 DEF Allowed, Reacquiring, Aborting, ClientOK, TxnStates, StatesOK, Kinds
  <2>2. ~s.fatal /\ ~s.bump /\ ~Reacquiring(s)
    BY <2>1, <1>1 DEF StatesOK, Aborting, Reacquiring
  <2>3. s.flight = {} /\ s.queued = {}
    BY <2>1, <2>2, <1>1 DEF QueueOK
  <2>4. At(a, "commit", 3, "wait") /\ s.ops = <<>> /\ ~s.api.has_result
    BY <2>1, <2>2, <1>1 DEF CallOK
  <2>5. s.offc = "none"
    BY <2>1, <2>2, <1>1 DEF CallOK
  <2>6. s.api.name = "commit"
    BY <2>4, <1>1 DEF SlotOK, InCall, At
  <2> QED
    BY <2>1, <2>2, <2>3, <2>4, <2>5, <2>6, <1>1, <1>3 DEF Ending
<1>4. CASE r.kind = "end_abort"
  <2>1. s.txn_state = "ABORTING_TRANSACTION" /\ ~Reacquiring(s)
    BY <1>1, <1>2, <1>4 DEF Allowed, Reacquiring, Aborting, ClientOK, TxnStates, StatesOK, Kinds
  <2>2. ~s.fatal
    BY <2>1, <1>1 DEF StatesOK
  <2>3. s.flight = {} /\ s.queued = {}
    BY <2>1, <2>2, <1>1 DEF QueueOK
  <2>4. At(a, "abort", 3, "wait") /\ s.ops = <<>> /\ ~s.api.has_result
    BY <2>1, <2>2, <1>1 DEF CallOK
  <2>5. s.offc = "none"
    BY <2>1, <2>2, <1>1 DEF CallOK
  <2>6. s.api.name = "abort"
    BY <2>4, <1>1 DEF SlotOK, InCall, At
  <2> QED
    BY <2>1, <2>2, <2>3, <2>4, <2>5, <2>6, <1>1, <1>4 DEF Ending
<1> QED
  BY <1>3, <1>4

LEMMA CommitDone ==
  ASSUME NEW s, NEW W, NEW r, NEW a, NEW k, NEW d, Taken(s, W, r, a, k, d), ~s.fatal,
         r.kind = "end_commit", r.reply = "ok", NEW t, t = EndTxnComplete(s)
  PROVE  Good(t, a, k, d)
<1>1. Ending(s, a, TRUE) /\ s.wire = <<>> /\ Sound(s, W, a, k, d) /\ r \in W
  BY EndingIs DEF Taken
<1>2. Frame(s)
  BY TakenFrame
<1>3. PICK u : u = SetState(s, "COMMIT_NOT_ACKED")
  OBVIOUS
<1>4. t = SetResult(u, "none")
  BY <1>1, <1>3 DEF EndTxnComplete, Ending
<1>5. Enters(s, "COMMIT_NOT_ACKED")
  BY <1>1 DEF Enters, Ending, Predecessors, Ignores
<1>6. Entered(s, u, "COMMIT_NOT_ACKED")
  BY <1>2, <1>3, <1>5, SetStateIs
<1>7. Same(s, u, {"txn_state", "may_enq"}) /\ u.wire = s.wire /\ u.txn_state = "COMMIT_NOT_ACKED"
      /\ u.may_enq = FALSE
  BY <1>6 DEF Entered
<1>8. Frame(u) /\ u.api = s.api
  BY <1>2, <1>7 DEF Frame, Same, Misc, Fields, TxnStates
<1>9. Same(u, t, {"api"}) /\ t.wire = u.wire /\ t.api = Answered(s.api, "none")
  BY <1>4, <1>8, SetResultIs
<1>10. Same(s, t, {"txn_state", "api", "may_enq"}) /\ t.txn_state = "COMMIT_NOT_ACKED" /\ t.may_enq = FALSE
  <2>1. Same(s, t, {"txn_state", "api", "may_enq"})
    BY <1>7, <1>9, SameChain
  <2> QED
    BY <2>1, <1>7, <1>9 DEF Same, Misc, Fields
<1>11. ~s.fatal /\ s.txn_state = "COMMITTING_TRANSACTION"
  BY <1>1 DEF Ending
<1>12. Sound(t, {}, a, k, d)
  BY <1>1, <1>9, <1>10, <1>11, CommittedSound
<1>13. t.wire = <<>>
  BY <1>1, <1>7, <1>9
<1> QED
  BY <1>12, <1>13, WireEmpty DEF Good

LEMMA AbortDone ==
  ASSUME NEW s, NEW W, NEW r, NEW a, NEW k, NEW d, Taken(s, W, r, a, k, d), ~s.fatal,
         r.kind = "end_abort", r.reply = "ok", ~s.bump, NEW t, t = EndTxnComplete(s)
  PROVE  Good(t, a, k, d)
<1>1. Ending(s, a, FALSE) /\ s.wire = <<>> /\ Sound(s, W, a, k, d) /\ r \in W
  BY EndingIs DEF Taken
<1>2. Frame(s)
  BY TakenFrame
<1>3. PICK u : u = SetState(s, "ABORT_NOT_ACKED")
  OBVIOUS
<1>4. t = SetResult(u, "none")
  BY <1>1, <1>3 DEF EndTxnComplete, Ending
<1>5. Enters(s, "ABORT_NOT_ACKED")
  BY <1>1 DEF Enters, Ending, Predecessors, Ignores
<1>6. Entered(s, u, "ABORT_NOT_ACKED")
  BY <1>2, <1>3, <1>5, SetStateIs
<1>7. Same(s, u, {"txn_state", "may_enq"}) /\ u.wire = s.wire /\ u.txn_state = "ABORT_NOT_ACKED"
      /\ u.may_enq = FALSE
  BY <1>6 DEF Entered
<1>8. Frame(u) /\ u.api = s.api
  BY <1>2, <1>7 DEF Frame, Same, Misc, Fields, TxnStates
<1>9. Same(u, t, {"api"}) /\ t.wire = u.wire /\ t.api = Answered(s.api, "none")
  BY <1>4, <1>8, SetResultIs
<1>10. Same(s, t, {"txn_state", "api", "may_enq"}) /\ t.txn_state = "ABORT_NOT_ACKED" /\ t.may_enq = FALSE
  <2>1. Same(s, t, {"txn_state", "api", "may_enq"})
    BY <1>7, <1>9, SameChain
  <2> QED
    BY <2>1, <1>7, <1>9 DEF Same, Misc, Fields
<1>11. ~s.fatal /\ s.txn_state = "ABORTING_TRANSACTION" /\ ~Reacquiring(s)
  BY <1>1 DEF Ending
<1>12. Sound(t, {}, a, k, d)
  BY <1>1, <1>9, <1>10, <1>11, AbortedSound
<1>13. t.wire = <<>>
  BY <1>1, <1>7, <1>9
<1> QED
  BY <1>12, <1>13, WireEmpty DEF Good

\* The epoch is bumped before the abort is done.
LEMMA AbortBump ==
  ASSUME NEW s, NEW W, NEW r, NEW a, NEW k, NEW d, Taken(s, W, r, a, k, d), ~s.fatal,
         r.kind = "end_abort", s.bump \/ r.reply = "bump", NEW t, t = DrainEpochBump(s, FALSE)
  PROVE  Good(t, a, k, d)
<1>1. Ending(s, a, FALSE) /\ s.wire = <<>> /\ Sound(s, W, a, k, d) /\ r \in W
  BY EndingIs DEF Taken
<1>2. Frame(s) /\ s.fatal = FALSE /\ s.flight = {}
  BY <1>1, TakenFrame DEF Ending
<1>3. Idemp(s, t, "REQ_PID")
  BY <1>2, DrainBumpIs
<1>4. Same(s, t, {"idemp_state"}) /\ t.wire = s.wire /\ t.idemp_state = "REQ_PID"
  BY <1>3 DEF Idemp
<1>5. t.ops = <<>>
  BY <1>1, <1>4 DEF Same, Misc, Fields, Ending
<1>6. Same(s, t, {"idemp_state", "ops"})
  BY <1>4, SameMore
<1>7. ~s.fatal /\ s.txn_state \in Aborting /\ ~Reacquiring(s) /\ At(a, "abort", 3, "wait") /\ ~s.api.has_result
  BY <1>1 DEF Ending, Aborting
<1>9. NoBump => s.bump
  <2>1. NoBump => r.reply # "bump"
    BY <1>1 DEF Sound, AbortOK
  <2> QED
    BY <2>1
<1>8. Sound(t, {}, a, k, d)
  BY <1>9, <1>1, <1>4, <1>5, <1>6, <1>7, ReacquireSound
<1> QED
  BY <1>1, <1>4, <1>8, WireEmpty DEF Good

LEMMA EndFenced ==
  ASSUME NEW s, NEW W, NEW r, NEW a, NEW k, NEW d, Taken(s, W, r, a, k, d), ~s.fatal,
         r.kind \in {"end_commit", "end_abort"}, NEW t, t = SetResult(SetFatalError(s), "fatal")
  PROVE  Good(t, a, k, d)
<1>1. Ending(s, a, r.kind = "end_commit") /\ s.wire = <<>> /\ Sound(s, W, a, k, d) /\ r \in W
  BY EndingIs DEF Taken
<1>2. /\ ~s.fatal /\ s.offc = "none" /\ s.flight = {}
      /\ s.txn_state \notin {"INIT", "READY_NOT_ACKED", "READY", "COMMIT_NOT_ACKED", "ABORT_NOT_ACKED"}
  BY <1>1 DEF Ending
<1>3. Frame(s) /\ Same(s, s, {}) /\ s.req_cnt \in Int
  BY TakenFrame
<1>4. Same(s, s, {"req_cnt", "offc", "dr_fails"})
  BY <1>3, SameMore
<1>5. s.dr_fails \in BOOLEAN /\ CountOK(s, W, k)
  BY <1>1 DEF Sound, ClientOK
<1>6. PICK V : V = {}
  OBVIOUS
<1>7. V \subseteq W /\ \A q \in V : q.kind \notin Last
  BY <1>6
<1>8. CountOK(s, V, k)
  BY <1>3, <1>5, <1>7, CountSub
<1>9. PICK u : u = SetFatalError(s)
  OBVIOUS
<1>10. Sound(u, V, a, k, d) /\ FatalNow(s, u)
  BY <1>1, <1>2, <1>3, <1>4, <1>5, <1>6, <1>7, <1>8, <1>9, GoFatalStep
<1>11. u.fatal /\ u.wire = <<>>
  BY <1>1, <1>10 DEF FatalNow
<1>12. Sound(t, V, a, k, d) /\ t.wire = u.wire
  BY <1>9, <1>10, <1>11, FatalResult DEF Errors
<1> QED
  BY <1>6, <1>11, <1>12, WireEmpty DEF Good

LEMMA EndRetried ==
  ASSUME NEW s, NEW W, NEW r, NEW a, NEW k, NEW d, Taken(s, W, r, a, k, d), ~s.fatal,
         r.kind \in {"end_commit", "end_abort"},
         NEW u, u \in {s, Arm(s, "coord"), CoordSet(s, FALSE)},
         NEW t, t = Send(u, Request(r.kind, r.parts))
  PROVE  Good(t, a, k, d)
<1>1. Ending(s, a, r.kind = "end_commit") /\ s.wire = <<>> /\ Sound(s, W, a, k, d) /\ r \in W
  BY EndingIs DEF Taken
<1>2. s.txn_state \notin Outside
  BY <1>1 DEF Ending, Outside
<1>3. Frame(s) /\ Same(s, s, {}) /\ s.req_cnt \in Int
  BY TakenFrame
<1>4. Same(s, u, {}) /\ u.wire = s.wire
  <2>1. CASE u = Arm(s, "coord")
    BY <2>1, <1>3, ArmIs DEF Timers
  <2>2. CASE u = CoordSet(s, FALSE)
    BY <2>2, <1>3, CoordLostIs
  <2> QED
    BY <2>1, <2>2, <1>3
<1>5. Same(u, t, {"req_cnt"}) /\ t.req_cnt = u.req_cnt /\ t.wire = Append(s.wire, Request(r.kind, r.parts))
  BY <1>4 DEF Send, Same, Misc, Fields
<1>6. Same(s, t, {"req_cnt"})
  BY <1>4, <1>5, SameChain
<1>7. t.req_cnt \in Int /\ t.req_cnt >= s.req_cnt
  BY <1>3, <1>4, <1>5 DEF Same, Misc, Fields
<1>8. \A q \in OnWire(s.wire) : q.kind \notin Last
  BY <1>1, WireEmpty
<1> QED
  BY <1>2, <1>5, <1>6, <1>7, <1>8, Resend

LEMMA CommitRefused ==
  ASSUME NEW s, NEW W, NEW r, NEW a, NEW k, NEW d, Taken(s, W, r, a, k, d), ~s.fatal,
         r.kind = "end_commit", NEW b \in BOOLEAN, b => r.reply = "bump",
         NEW t, t = SetResult(SetAbortableError(s, b), "abortable")
  PROVE  Good(t, a, k, d)
<1>1. Ending(s, a, TRUE) /\ s.wire = <<>> /\ Sound(s, W, a, k, d) /\ r \in W
  BY EndingIs DEF Taken
<1>2. Frame(s)
  BY TakenFrame
<1>3. ~s.fatal /\ s.txn_state = "COMMITTING_TRANSACTION"
  BY <1>1 DEF Ending
<1>4. Errable(s)
  BY <1>1, <1>3, ErrableIs
<1>5. PICK u : u = SetAbortableError(s, b)
  OBVIOUS
<1>6. Same(s, u, {"bump", "txn_err", "txn_state", "may_enq"}) /\ AbortableTo(s, u, b)
  BY <1>2, <1>4, <1>5, SetAbortableErrorIs
<1>7. u.wire = s.wire /\ u.txn_err = TRUE /\ u.bump \in BOOLEAN /\ u.may_enq = FALSE /\ u.txn_state = "ABORTABLE_ERROR"
  BY <1>3, <1>6 DEF AbortableTo
<1>8. Frame(u) /\ u.api = s.api
  BY <1>2, <1>6, <1>7 DEF Frame, Same, Misc, Fields, TxnStates
<1>9. Same(u, t, {"api"}) /\ t.wire = u.wire /\ t.api = Answered(s.api, "abortable")
  BY <1>5, <1>8, SetResultIs
<1>10. Same(s, t, {"txn_state", "api", "may_enq", "txn_err", "bump"})
  BY <1>6, <1>9, SameChain
<1>11. t.txn_err = TRUE /\ t.bump \in BOOLEAN /\ t.may_enq = FALSE /\ t.txn_state = "ABORTABLE_ERROR"
  BY <1>7, <1>9 DEF Same, Misc, Fields
<1>13. NoBump => ~t.bump
  <2>1. NoBump => r.reply # "bump"
    BY <1>1 DEF Sound, AbortOK
  <2>2. t.bump = u.bump
    BY <1>9 DEF Same, Misc, Fields
  <2> QED
    BY <2>1, <2>2, <1>1, <1>6 DEF AbortableTo, Ending
<1>12. Sound(t, {}, a, k, d)
  BY <1>13, <1>1, <1>3, <1>9, <1>10, <1>11, CommitRefusedSound
<1> QED
  BY <1>1, <1>7, <1>9, <1>12, WireEmpty DEF Good

LEMMA AbortRefused ==
  ASSUME NEW s, NEW W, NEW r, NEW a, NEW k, NEW d, Taken(s, W, r, a, k, d), ~s.fatal,
         r.kind = "end_abort",
         NEW t, t = SetResult(SetAbortableError(SetState(s, "BEGIN_ABORT"), FALSE), "abortable")
  PROVE  Good(t, a, k, d)
<1>1. Ending(s, a, FALSE) /\ s.wire = <<>> /\ Sound(s, W, a, k, d) /\ r \in W
  BY EndingIs DEF Taken
<1>2. Frame(s) /\ s.bump \in BOOLEAN /\ s.txn_err \in BOOLEAN
  BY TakenFrame
<1>3. ~s.fatal /\ s.txn_state = "ABORTING_TRANSACTION" /\ ~Reacquiring(s)
  BY <1>1 DEF Ending
<1>4. PICK v : v = SetState(s, "BEGIN_ABORT")
  OBVIOUS
<1>5. Enters(s, "BEGIN_ABORT")
  BY <1>3 DEF Enters, Predecessors, Ignores
<1>6. Entered(s, v, "BEGIN_ABORT")
  BY <1>2, <1>4, <1>5, SetStateIs
<1>7. Same(s, v, {"txn_state", "may_enq"}) /\ v.wire = s.wire /\ v.txn_state = "BEGIN_ABORT" /\ v.may_enq = FALSE
  BY <1>6 DEF Entered
<1>8. Frame(v) /\ v.api = s.api /\ v.bump = s.bump /\ v.fatal = s.fatal /\ v.txn_err = s.txn_err
  BY <1>2, <1>7 DEF Frame, Same, Misc, Fields, TxnStates
<1>9. Errable(v)
  <2>1. v.fatal = FALSE
    BY <1>3, <1>8, TakenFrame
  <2> QED
    BY <2>1, <1>2, <1>7, <1>8 DEF Errable
<1>10. PICK u : u = SetAbortableError(v, FALSE)
  OBVIOUS
<1>11. Same(v, u, {"bump", "txn_err", "txn_state", "may_enq"}) /\ AbortableTo(v, u, FALSE)
  BY <1>8, <1>9, <1>10, SetAbortableErrorIs
<1>12. u.wire = s.wire /\ u.txn_err = TRUE /\ u.bump = s.bump /\ u.may_enq = FALSE /\ u.txn_state = "BEGIN_ABORT"
  BY <1>2, <1>7, <1>8, <1>11 DEF AbortableTo
<1>13. Same(s, u, {"txn_state", "may_enq", "txn_err"})
  BY <1>7, <1>8, <1>11, <1>12 DEF Same, Misc, Fields
<1>14. Frame(u) /\ u.api = s.api
  BY <1>2, <1>12, <1>13 DEF Frame, Same, Misc, Fields, TxnStates
<1>15. Same(u, t, {"api"}) /\ t.wire = u.wire /\ t.api = Answered(s.api, "abortable")
  <2>1. t = SetResult(u, "abortable")
    BY <1>4, <1>10
  <2>2. Same(u, t, {"api"}) /\ t.wire = u.wire /\ t.api = Answered(u.api, "abortable")
    BY <2>1, <1>14, SetResultIs, Zenon
  <2> QED
    BY <2>2, <1>14
<1>16. Same(s, t, {"txn_state", "api", "may_enq", "txn_err"})
  <2>1. Same(s, u, {"txn_state", "api", "may_enq", "txn_err"})
    BY <1>13, SameMore
  <2>2. Same(u, t, {"txn_state", "api", "may_enq", "txn_err"})
    BY <1>15, SameMore
  <2> QED
    BY <2>1, <2>2, SameTrans
<1>17. t.txn_err = TRUE /\ t.may_enq = FALSE /\ t.txn_state = "BEGIN_ABORT"
  BY <1>12, <1>15 DEF Same, Misc, Fields
<1>18. Sound(t, {}, a, k, d)
  BY <1>1, <1>3, <1>15, <1>16, <1>17, AbortRefusedSound
<1> QED
  BY <1>1, <1>12, <1>15, <1>18, WireEmpty DEF Good

LEMMA EndTxnLive ==
  ASSUME NEW s, NEW W, NEW r, NEW a, NEW k, NEW d, Taken(s, W, r, a, k, d), ~s.fatal,
         r.kind \in {"end_commit", "end_abort"}, NEW t, t = HandleEndTxn(s, r)
  PROVE  Good(t, a, k, d)
<1>1. Ending(s, a, r.kind = "end_commit")
  BY EndingIs
<1>2. r.reply \in Replies /\ r.reply # "none" /\ s.bump \in BOOLEAN
  <2>1. r \in Requests /\ s.bump \in BOOLEAN
    BY TakenFrame
  <2>2. r.reply # "none"
    BY DEF Taken
  <2> QED
    BY <2>1, <2>2 DEF Requests
<1>3. /\ s.txn_state # "ABORTABLE_ERROR" /\ s.txn_state \in {"COMMITTING_TRANSACTION", "ABORTING_TRANSACTION"}
      /\ r.kind = "end_commit" => s.txn_state = "COMMITTING_TRANSACTION" /\ s.api.name = "commit"
      /\ r.kind = "end_abort" => s.txn_state = "ABORTING_TRANSACTION" /\ s.api.name = "abort"
  BY <1>1 DEF Ending
<1>4. CASE r.reply = "ok"
  <2>1. t = EndTxnComplete(s)
    BY <1>3, <1>4 DEF HandleEndTxn
  <2>2. CASE r.kind = "end_commit"
    BY <2>1, <2>2, <1>4, CommitDone
  <2>3. CASE r.kind = "end_abort" /\ ~s.bump
    BY <2>1, <2>3, <1>4, AbortDone
  <2>4. CASE r.kind = "end_abort" /\ s.bump
    <3>1. t = DrainEpochBump(s, FALSE)
      BY <2>1, <2>4 DEF EndTxnComplete
    <3> QED
      BY <3>1, <2>4, AbortBump
  <2> QED
    BY <2>2, <2>3, <2>4
<1>5. CASE r.reply = "fenced"
  <2>1. t = SetResult(SetFatalError(s), "fatal")
    BY <1>3, <1>5 DEF HandleEndTxn
  <2> QED
    BY <2>1, EndFenced
<1>6. CASE r.reply \in {"transport", "coord", "load"}
  <2>1. PICK u : u = CASE r.reply = "transport" -> Arm(s, "coord")
                       [] r.reply = "coord"     -> CoordSet(s, FALSE)
                       [] OTHER                 -> s
    OBVIOUS
  <2>2. t = Send(u, Request(r.kind, r.parts))
    BY <2>1, <1>3, <1>6 DEF HandleEndTxn
  <2>3. u \in {s, Arm(s, "coord"), CoordSet(s, FALSE)}
    BY <2>1, <1>6
  <2> QED
    BY <2>2, <2>3, EndRetried
<1>7. CASE r.reply = "bump" /\ r.kind = "end_abort"
  <2>1. t = DrainEpochBump(s, FALSE)
    BY <1>3, <1>7 DEF HandleEndTxn
  <2> QED
    BY <2>1, <1>7, AbortBump
<1>8. CASE r.reply \in {"bump", "perm"} /\ r.kind = "end_commit"
  <2>1. t = SetResult(SetAbortableError(s, r.reply = "bump"), "abortable")
    BY <1>3, <1>8 DEF HandleEndTxn
  <2>2. PICK b \in BOOLEAN : b = (r.reply = "bump")
    OBVIOUS
  <2>3. t = SetResult(SetAbortableError(s, b), "abortable")
    BY <2>1, <2>2
  <2>4. b => r.reply = "bump"
    BY <2>2
  <2> QED
    BY <2>3, <2>4, <1>8, CommitRefused
<1>9. CASE r.reply = "perm" /\ r.kind = "end_abort"
  <2>1. t = SetResult(SetAbortableError(SetState(s, "BEGIN_ABORT"), r.reply = "bump"), "abortable")
    BY <1>3, <1>9 DEF HandleEndTxn
  <2>2. (r.reply = "bump") = FALSE
    BY <1>9
  <2>3. t = SetResult(SetAbortableError(SetState(s, "BEGIN_ABORT"), FALSE), "abortable")
    BY <2>1, <2>2
  <2> QED
    BY <2>3, <1>9, AbortRefused
<1> QED
  BY <1>2, <1>4, <1>5, <1>6, <1>7, <1>8, <1>9 DEF Replies

\* The producer id's state does not matter after a fatal error.
LEMMA FatalIdemp ==
  ASSUME NEW s, NEW W, NEW a, NEW k, NEW d, Sound(s, W, a, k, d), s.fatal = TRUE,
         NEW t, Same(s, t, {"idemp_state"}), t.idemp_state \in IdempStates
  PROVE  Sound(t, W, a, k, d) /\ t.fatal = TRUE
<1>1. ClientOK(s) /\ CountOK(s, W, k)
  BY DEF Sound
<1>2. /\ t.req_cnt = s.req_cnt /\ t.offc = s.offc /\ t.dr_fails = s.dr_fails /\ t.ops = s.ops
      /\ t.flight = s.flight /\ t.queued = s.queued /\ t.rktps = s.rktps /\ t.txn = s.txn /\ t.txn_state = s.txn_state
      /\ t.fatal = s.fatal
  BY DEF Same, Misc, Fields
<1>3. CountOK(t, W, k)
  BY <1>1, <1>2 DEF CountOK
<1>4. Same(s, t, {"req_cnt", "offc", "idemp_state", "dr_fails", "flight", "queued", "ops"})
  BY SameMore
<1>5. /\ t.req_cnt \in Int /\ t.offc \in {"none", "request", "sent"} /\ t.dr_fails \in BOOLEAN
      /\ t.ops \in Seq(OpNames) /\ t.flight \subseteq s.flight /\ t.queued \subseteq s.queued
      /\ (s.offc = "none" => t.offc = "none") /\ W \subseteq W
  BY <1>1, <1>2 DEF ClientOK
<1> QED
  BY <1>3, <1>4, <1>5, FatalStep

\* After a fatal error, the reply to the last request is taken off the wire.
LEMMA FatalTaken ==
  ASSUME NEW s, NEW W, NEW r, NEW a, NEW k, NEW d, Taken(s, W, r, a, k, d), s.fatal, r.kind \in Last
  PROVE  Sound(s, {}, a, k, d) /\ s.wire = <<>> /\ s.txn_state = "FATAL_ERROR" /\ s.fatal = TRUE
<1>1. Sound(s, W, a, k, d) /\ s.wire = <<>> /\ ClientOK(s) /\ StatesOK(s) /\ CountOK(s, W, k)
  BY DEF Taken, Sound
<1>2. s.txn_state = "FATAL_ERROR" /\ s.fatal = TRUE
  BY <1>1 DEF StatesOK, ClientOK
<1>3. Same(s, s, {"req_cnt", "offc", "idemp_state", "dr_fails", "flight", "queued", "ops"})
  <2>1. Same(s, s, {})
    BY TakenFrame
  <2> QED
    BY <2>1, SameMore
<1>4. PICK V : V = {}
  OBVIOUS
<1>5. /\ s.req_cnt \in Int /\ s.offc \in {"none", "request", "sent"} /\ s.idemp_state \in IdempStates
      /\ s.dr_fails \in BOOLEAN /\ s.ops \in Seq(OpNames) /\ V \subseteq W
  BY <1>1, <1>4 DEF ClientOK
<1>6. CountOK(s, V, k)
  BY <1>1, <1>5, CountSub
<1>7. Sound(s, V, a, k, d)
  BY <1>1, <1>3, <1>5, <1>6, FatalStep
<1> QED
  BY <1>1, <1>2, <1>4, <1>7

LEMMA EndTxnFatal ==
  ASSUME NEW s, NEW W, NEW r, NEW a, NEW k, NEW d, Taken(s, W, r, a, k, d), s.fatal,
         r.kind \in {"end_commit", "end_abort"}, NEW t, t = HandleEndTxn(s, r)
  PROVE  Good(t, a, k, d)
<1>1. Sound(s, {}, a, k, d) /\ s.wire = <<>> /\ s.txn_state = "FATAL_ERROR" /\ s.fatal = TRUE
  BY FatalTaken DEF Last
<1>2. Frame(s) /\ s.idemp_state \in IdempStates /\ r \in Requests /\ r.reply # "none" /\ Same(s, s, {})
  BY TakenFrame DEF Taken
<1>3. ASSUME NEW u, Same(s, u, {}), u.wire = s.wire, NEW e \in Errors, e # "none", t = SetResult(u, e)
      PROVE  Good(t, a, k, d)
  <2>1. Sound(u, {}, a, k, d)
    BY <1>1, <1>3, MiscSound
  <2>2. u.fatal
    BY <1>1, <1>3 DEF Same, Misc, Fields
  <2>3. Sound(t, {}, a, k, d) /\ t.wire = u.wire
    BY <2>1, <2>2, <1>3, FatalResult
  <2> QED
    BY <2>3, <1>1, <1>3, WireEmpty DEF Good
<1>4. CASE r.reply = "ok"
  <2>1. t = SetResult(s, "state")
    BY <1>1, <1>4 DEF HandleEndTxn
  <2> QED
    BY <2>1, <1>2, <1>3 DEF Errors
<1>5. CASE r.reply = "fenced"
  <2>1. PICK u : u = SetFatalError(s)
    OBVIOUS
  <2>2. t = SetResult(u, "fatal")
    BY <2>1, <1>1, <1>5 DEF HandleEndTxn
  <2>3. Sound(u, {}, a, k, d) /\ u.wire = s.wire /\ u.fatal = TRUE
    BY <2>1, <1>1, FatalAgain
  <2>4. Sound(t, {}, a, k, d) /\ t.wire = u.wire
    BY <2>2, <2>3, FatalResult DEF Errors
  <2> QED
    BY <2>3, <2>4, <1>1, WireEmpty DEF Good
<1>6. CASE r.reply \in {"transport", "coord", "load"}
  <2>1. PICK u : u = CASE r.reply = "transport" -> Arm(s, "coord")
                       [] r.reply = "coord"     -> CoordSet(s, FALSE)
                       [] OTHER                 -> s
    OBVIOUS
  <2>2. t = SetResult(u, "retriable")
    BY <2>1, <1>1, <1>6 DEF HandleEndTxn
  <2>3. u \in {s, Arm(s, "coord"), CoordSet(s, FALSE)}
    BY <2>1, <1>6
  <2>4. Same(s, u, {}) /\ u.wire = s.wire
    <3>1. CASE u = Arm(s, "coord")
      BY <3>1, <1>2, ArmIs DEF Timers
    <3>2. CASE u = CoordSet(s, FALSE)
      BY <3>2, <1>2, CoordLostIs
    <3> QED
      BY <3>1, <3>2, <2>3, <1>2
  <2> QED
    BY <2>2, <2>4, <1>3 DEF Errors
<1>7. CASE r.reply = "bump" /\ r.kind = "end_abort"
  <2>1. t = DrainEpochBump(s, FALSE)
    BY <1>1, <1>7 DEF HandleEndTxn
  <2>2. IdempAny(s, t)
    BY <2>1, <1>1, <1>2, DrainBumpFatal
  <2>3. Sound(t, {}, a, k, d)
    BY <2>2, <1>1, FatalIdemp DEF IdempAny
  <2> QED
    BY <2>2, <2>3, <1>1, WireEmpty DEF Good, IdempAny
<1>8. CASE r.reply = "perm" \/ (r.reply = "bump" /\ r.kind = "end_commit")
  <2>1. SetAbortableError(s, r.reply = "bump") = s
    BY <1>1 DEF SetAbortableError
  <2>2. t = SetResult(s, "abortable")
    BY <2>1, <1>1, <1>8 DEF HandleEndTxn
  <2> QED
    BY <2>2, <1>2, <1>3 DEF Errors
<1> QED
  BY <1>2, <1>4, <1>5, <1>6, <1>7, <1>8 DEF Replies, Requests

LEMMA EndTxnGood ==
  ASSUME NEW s, NEW W, NEW r, NEW a, NEW k, NEW d, Taken(s, W, r, a, k, d),
         r.kind \in {"end_commit", "end_abort"}, NEW t, t = HandleEndTxn(s, r)
  PROVE  Good(t, a, k, d)
BY EndTxnLive, EndTxnFatal

\* The state in which the reply to InitProducerId finds the client.
AwaitingPid(s) ==
  /\ ~s.fatal /\ s.idemp_state = "WAIT_PID" /\ s.offc = "none" /\ s.flight = {}
  /\ s.txn_state \in {"WAIT_PID", "BEGIN_ABORT", "ABORTING_TRANSACTION"}

LEMMA AwaitingPidIs ==
  ASSUME NEW s, NEW W, NEW r, NEW a, NEW k, NEW d, Taken(s, W, r, a, k, d), r.kind = "init_pid", ~s.fatal
  PROVE  AwaitingPid(s) /\ s.wire = <<>>
<1>1. /\ Sound(s, W, a, k, d) /\ r \in W /\ ClientOK(s) /\ WireOK(s, W) /\ StatesOK(s) /\ QueueOK(s, a)
      /\ (~s.fatal => CallOK(s, W, a)) /\ s.wire = <<>>
  BY DEF Taken, Sound, Last
<1>2. r.kind \in Allowed(s)
  BY <1>1 DEF WireOK, Only
<1>3. s.txn_state = "WAIT_PID" \/ Reacquiring(s)
  BY <1>1, <1>2 DEF Allowed, Reacquiring, Aborting, ClientOK, TxnStates, StatesOK
<1>4. s.idemp_state = "WAIT_PID"
  <2>1. W # {}
    BY <1>1
  <2> QED
    BY <2>1, <1>1, <1>3 DEF WireOK
<1>5. s.txn_state \in {"WAIT_PID", "BEGIN_ABORT", "ABORTING_TRANSACTION"}
  BY <1>3 DEF Reacquiring, Aborting
<1>6. ~s.fatal
  BY <1>1, <1>5 DEF StatesOK
<1>7. s.flight = {}
  BY <1>1, <1>3, <1>6 DEF QueueOK
<1>8. s.offc = "none"
  BY <1>1, <1>5, <1>6 DEF CallOK
<1> QED
  BY <1>1, <1>4, <1>5, <1>6, <1>7, <1>8 DEF AwaitingPid

LEMMA PidAssigned ==
  ASSUME NEW s, NEW W, NEW r, NEW a, NEW k, NEW d, Taken(s, W, r, a, k, d), r.kind = "init_pid", ~s.fatal,
         r.reply = "ok", NEW t, t = IdempSetState(s, "ASSIGNED")
  PROVE  Good(t, a, k, d)
<1>1. AwaitingPid(s) /\ s.wire = <<>> /\ Sound(s, W, a, k, d) /\ r \in W
  BY AwaitingPidIs DEF Taken
<1>2. Frame(s)
  BY TakenFrame
<1>3. /\ ~s.fatal /\ s.idemp_state = "WAIT_PID"
      /\ s.txn_state \in {"WAIT_PID", "BEGIN_ABORT", "ABORTING_TRANSACTION"}
  BY <1>1 DEF AwaitingPid
<1>4. PICK v : v = [s EXCEPT !.idemp_state = "ASSIGNED"]
  OBVIOUS
<1>5. t = TxnIdempStateChange(v, "ASSIGNED")
  BY <1>3, <1>4 DEF IdempSetState
<1>6. Same(s, v, {"idemp_state"}) /\ v.wire = s.wire /\ v.idemp_state = "ASSIGNED"
  BY <1>2, <1>4 DEF Same, Misc, Fields, Frame
<1>7. Frame(v) /\ v.api = s.api /\ v.txn_state = s.txn_state
  BY <1>2, <1>6, FrameKept
<1>8. ASSUME NEW new, new \in {"READY_NOT_ACKED", "ABORT_NOT_ACKED"}, Enters(v, new),
             t = SetResult(SetState(v, new), "none"),
             new = IF s.txn_state = "WAIT_PID" THEN "READY_NOT_ACKED" ELSE "ABORT_NOT_ACKED"
      PROVE  Good(t, a, k, d)
  <2>1. PICK u : u = SetState(v, new)
    OBVIOUS
  <2>2. Entered(v, u, new)
    BY <2>1, <1>7, <1>8, SetStateIs
  <2>3. Same(v, u, {"txn_state", "may_enq"}) /\ u.wire = v.wire /\ u.txn_state = new /\ u.may_enq = FALSE
    BY <2>2, <1>8 DEF Entered
  <2>4. Frame(u) /\ u.api = s.api /\ u.idemp_state = "ASSIGNED"
    BY <2>3, <1>6, <1>7, <1>8 DEF Frame, Same, Misc, Fields, TxnStates
  <2>5. t = SetResult(u, "none")
    BY <2>1, <1>8
  <2>6. Same(u, t, {"api"}) /\ t.wire = u.wire /\ t.api = Answered(u.api, "none")
    BY <2>4, <2>5, SetResultIs, Zenon
  <2>7. t.txn_state = new /\ t.may_enq = FALSE /\ t.idemp_state = "ASSIGNED" /\ t.api = Answered(s.api, "none")
    BY <2>3, <2>4, <2>6 DEF Same, Misc, Fields
  <2>8. Same(s, t, {"txn_state", "idemp_state", "may_enq", "api"})
    <3>1. Same(s, v, {"txn_state", "idemp_state", "may_enq", "api"})
      BY <1>6, SameMore
    <3>2. Same(v, u, {"txn_state", "idemp_state", "may_enq", "api"})
      BY <2>3, SameMore
    <3>3. Same(u, t, {"txn_state", "idemp_state", "may_enq", "api"})
      BY <2>6, SameMore
    <3>4. Same(s, u, {"txn_state", "idemp_state", "may_enq", "api"})
      BY <3>1, <3>2, SameTrans
    <3> QED
      BY <3>3, <3>4, SameTrans
  <2>9. t.txn_state = IF s.txn_state = "WAIT_PID" THEN "READY_NOT_ACKED" ELSE "ABORT_NOT_ACKED"
    BY <2>7, <1>8
  <2>10. Sound(t, {}, a, k, d)
    BY <2>7, <2>8, <2>9, <1>1, <1>3, AssignedSound
  <2>11. t.wire = <<>>
    BY <2>3, <2>6, <1>1, <1>6
  <2> QED
    BY <2>10, <2>11, WireEmpty DEF Good
<1>9. CASE s.txn_state = "WAIT_PID"
  <2>1. t = SetResult(SetState(v, "READY_NOT_ACKED"), "none")
    BY <1>5, <1>7, <1>9 DEF TxnIdempStateChange
  <2>2. Enters(v, "READY_NOT_ACKED")
    BY <1>7, <1>9 DEF Enters, Predecessors, Ignores
  <2> QED
    BY <2>1, <2>2, <1>8, <1>9
<1>10. CASE s.txn_state \in {"BEGIN_ABORT", "ABORTING_TRANSACTION"}
  <2>1. t = SetResult(SetState(v, "ABORT_NOT_ACKED"), "none")
    BY <1>5, <1>7, <1>10 DEF TxnIdempStateChange
  <2>2. Enters(v, "ABORT_NOT_ACKED")
    BY <1>7, <1>10 DEF Enters, Predecessors, Ignores
  <2> QED
    BY <2>1, <2>2, <1>8, <1>10
<1> QED
  BY <1>3, <1>9, <1>10

LEMMA PidFenced ==
  ASSUME NEW s, NEW W, NEW r, NEW a, NEW k, NEW d, Taken(s, W, r, a, k, d), r.kind = "init_pid", ~s.fatal,
         NEW t, t = IdempSetState(SetFatalError(s), "FATAL_ERROR")
  PROVE  Good(t, a, k, d)
<1>1. AwaitingPid(s) /\ s.wire = <<>> /\ Sound(s, W, a, k, d) /\ r \in W
  BY AwaitingPidIs DEF Taken
<1>2. /\ ~s.fatal /\ s.offc = "none" /\ s.flight = {}
      /\ s.txn_state \notin {"INIT", "READY_NOT_ACKED", "READY", "COMMIT_NOT_ACKED", "ABORT_NOT_ACKED"}
  BY <1>1 DEF AwaitingPid
<1>3. Frame(s) /\ Same(s, s, {}) /\ s.req_cnt \in Int
  BY TakenFrame
<1>4. Same(s, s, {"req_cnt", "offc", "dr_fails"})
  BY <1>3, SameMore
<1>5. s.dr_fails \in BOOLEAN /\ CountOK(s, W, k)
  BY <1>1 DEF Sound, ClientOK
<1>6. PICK V : V = {}
  OBVIOUS
<1>7. V \subseteq W /\ \A q \in V : q.kind \notin Last
  BY <1>6
<1>8. CountOK(s, V, k)
  BY <1>3, <1>5, <1>7, CountSub
<1>9. PICK u : u = SetFatalError(s)
  OBVIOUS
<1>10. Sound(u, V, a, k, d) /\ FatalNow(s, u)
  BY <1>1, <1>2, <1>3, <1>4, <1>5, <1>6, <1>7, <1>8, <1>9, GoFatalStep
<1>11. u.fatal = TRUE /\ u.wire = <<>> /\ u.txn_state = "FATAL_ERROR"
  BY <1>1, <1>10 DEF FatalNow
<1>12. /\ Frame(u) /\ ClientOK(u) /\ CountOK(u, V, k) /\ u.idemp_state \in IdempStates
  BY <1>10, SoundFrame DEF Sound, ClientOK
<1>13. IdempAny(u, t)
  <2>1. t = IdempSetState(u, "FATAL_ERROR")
    BY <1>9
  <2> QED
    BY <2>1, <1>11, <1>12, IdempSetStateFatal DEF IdempStates
<1>14. Same(u, t, {"idemp_state"}) /\ t.wire = u.wire /\ t.idemp_state \in IdempStates
  BY <1>13 DEF IdempAny
<1>15. Sound(t, V, a, k, d)
  BY <1>10, <1>11, <1>12, <1>14, FatalIdemp
<1> QED
  BY <1>6, <1>11, <1>14, <1>15, WireEmpty DEF Good

LEMMA PidFailed ==
  ASSUME NEW s, NEW W, NEW r, NEW a, NEW k, NEW d, Taken(s, W, r, a, k, d), r.kind = "init_pid", ~s.fatal,
         NEW u, u \in {s, CoordSet(s, FALSE)}, NEW t, t = Arm(IdempSetState(u, "REQ_PID"), "pid")
  PROVE  Good(t, a, k, d)
<1>1. AwaitingPid(s) /\ s.wire = <<>> /\ Sound(s, W, a, k, d) /\ r \in W
  BY AwaitingPidIs DEF Taken
<1>2. Frame(s) /\ Same(s, s, {})
  BY TakenFrame
<1>3. ~s.fatal /\ s.fatal = FALSE /\ s.idemp_state = "WAIT_PID"
  BY <1>1, TakenFrame DEF AwaitingPid
<1>4. Same(s, u, {}) /\ u.wire = s.wire
  BY <1>2, CoordLostIs
<1>5. Frame(u) /\ u.fatal = FALSE
  <2>1. Frame(u)
    BY <1>2, <1>4, FrameKept
  <2> QED
    BY <2>1, <1>3, <1>4 DEF Same, Misc, Fields
<1>6. PICK v : v = IdempSetState(u, "REQ_PID")
  OBVIOUS
<1>7. Idemp(u, v, "REQ_PID")
  BY <1>5, <1>6, IdempSetStateIs
<1>8. Same(u, v, {"idemp_state"}) /\ v.wire = u.wire /\ v.idemp_state = "REQ_PID"
  BY <1>7 DEF Idemp
<1>9. Frame(v)
  BY <1>5, <1>8, FrameKept
<1>10. Same(v, t, {}) /\ t.wire = v.wire
  BY <1>6, <1>9, ArmIs DEF Timers
<1>11. Same(s, t, {"idemp_state"}) /\ t.idemp_state = "REQ_PID"
  BY <1>4, <1>8, <1>10 DEF Same, Misc, Fields
<1>12. Sound(t, {}, a, k, d)
  BY <1>1, <1>3, <1>11, AcquireSound DEF Acquiring
<1> QED
  BY <1>1, <1>4, <1>8, <1>10, <1>12, WireEmpty DEF Good

LEMMA InitPidLive ==
  ASSUME NEW s, NEW W, NEW r, NEW a, NEW k, NEW d, Taken(s, W, r, a, k, d), r.kind = "init_pid", ~s.fatal,
         NEW t, t = HandleInitProducerId(s, r.reply)
  PROVE  Good(t, a, k, d)
<1>1. r.reply \in Replies /\ r.reply # "none"
  <2>1. r \in Requests
    BY TakenFrame
  <2>2. r.reply # "none"
    BY DEF Taken
  <2> QED
    BY <2>1, <2>2 DEF Requests
<1>2. s.idemp_state = "WAIT_PID"
  BY AwaitingPidIs DEF AwaitingPid
<1>3. CASE r.reply = "ok"
  <2>1. t = IdempSetState(s, "ASSIGNED")
    BY <1>2, <1>3 DEF HandleInitProducerId
  <2> QED
    BY <2>1, <1>3, PidAssigned
<1>4. CASE r.reply = "fenced"
  <2>1. t = IdempSetState(SetFatalError(s), "FATAL_ERROR")
    BY <1>4 DEF HandleInitProducerId
  <2> QED
    BY <2>1, PidFenced
<1>5. CASE r.reply \in {"transport", "coord", "load", "bump", "perm"}
  <2>1. PICK u : u = IF r.reply = "coord" THEN CoordSet(s, FALSE) ELSE s
    OBVIOUS
  <2>2. t = Arm(IdempSetState(u, "REQ_PID"), "pid")
    BY <2>1, <1>5 DEF HandleInitProducerId
  <2>3. u \in {s, CoordSet(s, FALSE)}
    BY <2>1
  <2> QED
    BY <2>2, <2>3, PidFailed
<1> QED
  BY <1>1, <1>3, <1>4, <1>5 DEF Replies

LEMMA InitPidFatal ==
  ASSUME NEW s, NEW W, NEW r, NEW a, NEW k, NEW d, Taken(s, W, r, a, k, d), r.kind = "init_pid", s.fatal,
         NEW t, t = HandleInitProducerId(s, r.reply)
  PROVE  Good(t, a, k, d)
<1>1. Sound(s, {}, a, k, d) /\ s.wire = <<>> /\ s.txn_state = "FATAL_ERROR" /\ s.fatal = TRUE
  BY FatalTaken DEF Last
<1>2. Frame(s) /\ s.idemp_state \in IdempStates /\ r \in Requests /\ r.reply # "none" /\ Same(s, s, {})
  BY TakenFrame DEF Taken
<1>3. ASSUME NEW u, Sound(u, {}, a, k, d), u.fatal = TRUE, u.txn_state = "FATAL_ERROR", u.wire = <<>>,
             NEW new \in IdempStates, NEW v, v = IdempSetState(u, new)
      PROVE  Sound(v, {}, a, k, d) /\ v.wire = <<>> /\ Frame(v)
  <2>1. Frame(u) /\ u.idemp_state \in IdempStates
    BY <1>3, SoundFrame DEF Sound, ClientOK
  <2>2. IdempAny(u, v)
    BY <2>1, <1>3, IdempSetStateFatal
  <2>3. Same(u, v, {"idemp_state"}) /\ v.wire = u.wire /\ v.idemp_state \in IdempStates
    BY <2>2 DEF IdempAny
  <2>4. Sound(v, {}, a, k, d)
    BY <2>3, <1>3, FatalIdemp
  <2> QED
    BY <2>3, <2>4, <1>3, SoundFrame
<1>4. CASE r.reply = "ok"
  <2>1. t = s \/ t = IdempSetState(s, "ASSIGNED")
    BY <1>4 DEF HandleInitProducerId
  <2>2. Sound(t, {}, a, k, d) /\ t.wire = <<>>
    BY <2>1, <1>1, <1>3 DEF IdempStates
  <2> QED
    BY <2>2, WireEmpty DEF Good
<1>5. CASE r.reply = "fenced"
  <2>1. PICK u : u = SetFatalError(s)
    OBVIOUS
  <2>2. t = IdempSetState(u, "FATAL_ERROR")
    BY <2>1, <1>5 DEF HandleInitProducerId
  <2>3. Sound(u, {}, a, k, d) /\ u.wire = <<>> /\ u.fatal = TRUE
    BY <2>1, <1>1, FatalAgain
  <2>4. u.txn_state = "FATAL_ERROR"
    BY <2>3 DEF Sound, StatesOK
  <2>5. Sound(t, {}, a, k, d) /\ t.wire = <<>>
    BY <2>2, <2>3, <2>4, <1>3 DEF IdempStates
  <2> QED
    BY <2>5, WireEmpty DEF Good
<1>6. CASE r.reply \in {"transport", "coord", "load", "bump", "perm"}
  <2>1. PICK u : u = IF r.reply = "coord" THEN CoordSet(s, FALSE) ELSE s
    OBVIOUS
  <2>2. PICK v : v = IdempSetState(u, "REQ_PID")
    OBVIOUS
  <2>3. t = Arm(v, "pid")
    BY <2>1, <2>2, <1>6 DEF HandleInitProducerId
  <2>4. Same(s, u, {}) /\ u.wire = s.wire
    BY <2>1, <1>2, CoordLostIs
  <2>5. Sound(u, {}, a, k, d)
    BY <2>4, <1>1, MiscSound
  <2>6. u.fatal = TRUE /\ u.txn_state = "FATAL_ERROR"
    BY <2>4, <1>1 DEF Same, Misc, Fields
  <2>7. Sound(v, {}, a, k, d) /\ v.wire = <<>> /\ Frame(v)
    BY <2>2, <2>4, <2>5, <2>6, <1>1, <1>3 DEF IdempStates
  <2>8. Same(v, t, {}) /\ t.wire = v.wire
    BY <2>3, <2>7, ArmIs DEF Timers
  <2>9. Sound(t, {}, a, k, d)
    BY <2>7, <2>8, MiscSound
  <2> QED
    BY <2>7, <2>8, <2>9, WireEmpty DEF Good
<1> QED
  BY <1>2, <1>4, <1>5, <1>6 DEF Replies, Requests

LEMMA InitPidGood ==
  ASSUME NEW s, NEW W, NEW r, NEW a, NEW k, NEW d, Taken(s, W, r, a, k, d), r.kind = "init_pid",
         NEW t, t = HandleInitProducerId(s, r.reply)
  PROVE  Good(t, a, k, d)
BY InitPidLive, InitPidFatal

\* The head of the wire is taken by its handler.
LEMMA ReplyTaken ==
  ASSUME NEW c0, NEW a, NEW k, NEW d, Good(c0, a, k, d), c0.wire # <<>>, Head(c0.wire).reply # "none",
         NEW s, s = [c0 EXCEPT !.wire = Tail(@)]
  PROVE  Taken(s, OnWire(c0.wire), Head(c0.wire), a, k, d)
<1>1. Ordered(c0.wire) /\ Sound(c0, OnWire(c0.wire), a, k, d) /\ Frame(c0)
  BY GoodFrame DEF Good
<1>2. Same(c0, s, {}) /\ s.wire = Tail(c0.wire)
  BY <1>1 DEF Same, Misc, Fields, Frame
<1>3. Sound(s, OnWire(c0.wire), a, k, d)
  BY <1>1, <1>2, MiscSound
<1>4. /\ Ordered(Tail(c0.wire)) /\ Head(c0.wire) \in OnWire(c0.wire)
      /\ OnWire(Tail(c0.wire)) = OnWire(c0.wire) \ {Head(c0.wire)}
      /\ (Head(c0.wire).kind \in Last => Tail(c0.wire) = <<>>)
  BY <1>1, WireTail
<1> QED
  BY <1>2, <1>3, <1>4 DEF Taken

-----------------------------------------------------------------------------
(* TxnOffsetCommit. *)

\* The state in which the offsets are committed.
Offering(s, W, a) ==
  /\ \A r \in W : r.kind \notin Last
  /\ s.txn_state \in {"IN_TRANSACTION", "ABORTABLE_ERROR", "FATAL_ERROR"}
  /\ ~s.fatal => Failable(s) /\ s.api.name # "none"

LEMMA OfferingIs ==
  ASSUME NEW s, NEW W, NEW a, NEW k, NEW d, Sound(s, W, a, k, d), s.offc # "none"
  PROVE  Offering(s, W, a)
<1>1. /\ ClientOK(s) /\ WireOK(s, W) /\ StatesOK(s) /\ SlotOK(s, a) /\ PartsOK(s, W, a, k)
      /\ (~s.fatal => CallOK(s, W, a)) /\ s.fatal \in BOOLEAN
  BY DEF Sound, ClientOK
<1>2. s.fatal <=> s.txn_state = "FATAL_ERROR"
  BY <1>1 DEF StatesOK
<1>3. ~s.fatal => /\ s.txn_state \in {"IN_TRANSACTION", "ABORTABLE_ERROR"}
                  /\ At(a, "offsets", 1, "wait")
  BY <1>1 DEF CallOK
<1>4. ~s.fatal => s.api.name # "none"
  BY <1>1, <1>3 DEF SlotOK, InCall, At
<1>5. s.txn_state \in {"IN_TRANSACTION", "ABORTABLE_ERROR", "FATAL_ERROR"}
  BY <1>1, <1>2, <1>3
<1>6. \A r \in W : r.kind \notin Last
  <2>1. CASE s.fatal
    BY <2>1, <1>1 DEF PartsOK
  <2>2. CASE ~s.fatal
    BY <2>2, <1>1, <1>2, <1>5 DEF WireOK, Only, Allowed, Last, Reacquiring, Aborting
  <2> QED
    BY <2>1, <2>2
<1> QED
  BY <1>2, <1>3, <1>4, <1>5, <1>6 DEF Offering, Failable

LEMMA OffsetCommitOk ==
  ASSUME NEW s, NEW a, NEW k, NEW d, Good(s, a, k, d), s.offc # "none", ~k.fenced,
         NEW l, l = [k EXCEPT !.written = @ \cup {<<s.txn, OFF>>}],
         NEW t, t = HandleTxnOffsetCommit(s, "ok", FALSE)
  PROVE  Good(t, a, l, d)
<1>1. PICK W : W = OnWire(s.wire)
  OBVIOUS
<1>2. Sound(s, W, a, k, d) /\ Ordered(s.wire) /\ Frame(s) /\ Same(s, s, {}) /\ k \in Coords
  BY <1>1, GoodFrame DEF Good, Sound
<1>4. Sound(s, W, a, l, d)
  BY <1>2, OffcWrittenSound
<1>5. <<s.txn, OFF>> \in l.written
  BY <1>2 DEF Coords
<1>6. PICK u : u = [s EXCEPT !.offc = "none", !.produced = s.produced \cup {<<s.txn, OFF>>}]
  OBVIOUS
<1>7. t = SetResult(u, "none")
  BY <1>2, <1>6 DEF HandleTxnOffsetCommit, Frame, Fields
<1>8. /\ Same(s, u, {"offc", "produced"}) /\ u.wire = s.wire /\ u.offc = "none"
      /\ u.produced = s.produced \cup {<<s.txn, OFF>>}
  BY <1>2, <1>6 DEF Same, Misc, Fields, Frame
<1>9. Frame(u) /\ u.api = s.api
  BY <1>2, <1>8, FrameKept
<1>10. Same(u, t, {"api"}) /\ t.wire = u.wire /\ t.api = Answered(u.api, "none")
  BY <1>7, <1>9, SetResultIs, Zenon
<1>11. Same(s, t, {"offc", "api", "produced"})
  <2>1. Same(s, u, {"offc", "api", "produced"})
    BY <1>8, SameMore
  <2>2. Same(u, t, {"offc", "api", "produced"})
    BY <1>10, SameMore
  <2> QED
    BY <2>1, <2>2, SameTrans
<1>12. t.offc = "none" /\ t.produced = s.produced \cup {<<s.txn, OFF>>} /\ t.api = Answered(s.api, "none")
  BY <1>8, <1>9, <1>10 DEF Same, Misc, Fields
<1>13. Sound(t, W, a, l, d)
  <2>1. CASE ~s.fatal
    BY <2>1, <1>4, <1>5, <1>11, <1>12, OffcDoneSound DEF Errors
  <2>2. CASE s.fatal
    <3>1. PICK e : e = "none"
      OBVIOUS
    <3>2. e \in Errors /\ t.api = Answered(s.api, e)
      BY <3>1, <1>12 DEF Errors
    <3> QED
      BY <3>2, <2>2, <1>4, <1>5, <1>11, <1>12, FatalOffcDoneSound
  <2> QED
    BY <2>1, <2>2
<1> QED
  BY <1>1, <1>2, <1>8, <1>10, <1>13 DEF Good

LEMMA OffsetCommitGood ==
  ASSUME NEW s, NEW a, NEW k, NEW d, Good(s, a, k, d), s.offc # "none",
         NEW reply \in {"fenced", "transport", "perm"}, reply = "fenced" => k.fenced,
         NEW expired \in BOOLEAN, NEW t, t = HandleTxnOffsetCommit(s, reply, expired)
  PROVE  Good(t, a, k, d)
<1>1. PICK W : W = OnWire(s.wire)
  OBVIOUS
<1>2. /\ Sound(s, W, a, k, d) /\ Ordered(s.wire) /\ Frame(s) /\ Same(s, s, {}) /\ ClientOK(s) /\ CountOK(s, W, k)
      /\ s.fatal \in BOOLEAN
  BY <1>1, GoodFrame DEF Good, Sound
<1>3. Offering(s, W, a)
  BY <1>2, OfferingIs
<1>4. PICK done : done = [s EXCEPT !.offc = "none"]
  OBVIOUS
<1>5. Same(s, done, {"offc"}) /\ done.wire = s.wire /\ done.offc = "none"
  BY <1>2, <1>4 DEF Same, Misc, Fields, Frame
<1>6. /\ done.req_cnt = s.req_cnt /\ done.rktps = s.rktps /\ done.txn = s.txn /\ done.txn_state = s.txn_state
      /\ done.fatal = s.fatal /\ done.dr_fails = s.dr_fails /\ done.ops = s.ops /\ done.flight = s.flight
      /\ done.queued = s.queued /\ done.idemp_state = s.idemp_state /\ done.api = s.api /\ done.produced = s.produced
  BY <1>5 DEF Same, Misc, Fields
<1>7. Frame(done)
  BY <1>2, <1>5, FrameKept
<1>8. CountOK(done, W, k)
  <2>1. s.req_cnt \in Int /\ W \subseteq W
    BY <1>2 DEF ClientOK
  <2> QED
    BY <2>1, <1>2, <1>5, <1>6, CountSub
<1>9. s.fatal => Sound(done, W, a, k, d) /\ done.fatal = TRUE
  <2>1. SUFFICES ASSUME s.fatal PROVE Sound(done, W, a, k, d) /\ done.fatal = TRUE
    OBVIOUS
  <2>2. Same(s, done, {"req_cnt", "offc", "idemp_state", "dr_fails", "flight", "queued", "ops"})
    BY <1>5, SameMore
  <2>3. /\ done.req_cnt \in Int /\ done.offc \in {"none", "request", "sent"} /\ done.dr_fails \in BOOLEAN
        /\ done.ops \in Seq(OpNames) /\ done.flight \subseteq s.flight /\ done.queued \subseteq s.queued
        /\ W \subseteq W /\ done.idemp_state \in IdempStates
    BY <1>2, <1>5, <1>6 DEF ClientOK
  <2> QED
    BY <2>1, <2>2, <2>3, <1>2, <1>5, <1>8, FatalStep
<1>10. CASE reply = "fenced"
  <2>1. PICK u : u = SetFatalError(done)
    OBVIOUS
  <2>2. t = SetResult(u, "fatal")
    BY <2>1, <1>4, <1>10 DEF HandleTxnOffsetCommit
  <2>3. Sound(u, W, a, k, d) /\ u.wire = s.wire /\ u.fatal
    <3>1. CASE ~s.fatal
      <4>1. Same(s, done, {"req_cnt", "offc", "dr_fails"})
        BY <1>5, SameMore
      <4>2. done.dr_fails \in BOOLEAN /\ done.req_cnt \in Int
        BY <1>2, <1>6 DEF ClientOK
      <4>3. /\ W \subseteq W /\ \A q \in W : q.kind \notin Last
            /\ s.txn_state \notin {"INIT", "READY_NOT_ACKED", "READY", "COMMIT_NOT_ACKED", "ABORT_NOT_ACKED"}
        BY <1>3 DEF Offering
      <4>4. Sound(u, W, a, k, d) /\ FatalNow(done, u)
        BY <4>1, <4>2, <4>3, <2>1, <1>2, <1>5, <1>8, <1>10, GoFatalStep
      <4> QED
        BY <4>4, <1>5 DEF FatalNow
    <3>2. CASE s.fatal
      BY <3>2, <2>1, <1>5, <1>9, FatalAgain
    <3> QED
      BY <3>1, <3>2
  <2>4. Sound(t, W, a, k, d) /\ t.wire = u.wire
    BY <2>2, <2>3, FatalResult DEF Errors
  <2> QED
    BY <2>3, <2>4, <1>1, <1>2 DEF Good
<1>11. CASE reply = "transport" /\ ~expired
  <2>1. t = [s EXCEPT !.offc = "request"]
    BY <1>11 DEF HandleTxnOffsetCommit
  <2>2. Same(s, t, {"offc"}) /\ t.wire = s.wire /\ t.offc = "request"
    BY <2>1, <1>2 DEF Same, Misc, Fields, Frame
  <2>3. Sound(t, W, a, k, d)
    BY <2>2, <1>2, OffcSound
  <2> QED
    BY <2>2, <2>3, <1>1, <1>2 DEF Good
<1>12. CASE reply = "perm" \/ (reply = "transport" /\ expired)
  <2>1. t = SetResult(SetAbortableError(done, FALSE), "abortable")
    <3>1. CASE reply = "perm"
      BY <3>1, <1>4 DEF HandleTxnOffsetCommit
    <3>2. CASE reply = "transport" /\ expired
      BY <3>2, <1>4 DEF HandleTxnOffsetCommit
    <3> QED
      BY <3>1, <3>2, <1>12
  <2>2. CASE ~s.fatal
    <3>1. PICK x : x = SetResult(done, "abortable")
      OBVIOUS
    <3>2. Same(done, x, {"api"}) /\ x.wire = done.wire /\ x.api = Answered(done.api, "abortable")
      BY <3>1, <1>7, SetResultIs
    <3>3. Same(s, x, {"offc", "api", "produced"})
      <4>1. Same(s, done, {"offc", "api", "produced"})
        BY <1>5, SameMore
      <4>2. Same(done, x, {"offc", "api", "produced"})
        BY <3>2, SameMore
      <4> QED
        BY <4>1, <4>2, SameTrans
    <3>4. x.offc = "none" /\ x.produced = s.produced /\ x.fatal = s.fatal /\ x.txn_state = s.txn_state
      BY <3>2, <1>5, <1>6 DEF Same, Misc, Fields
    <3>5. x.api = Answered(s.api, "abortable")
      BY <3>2, <1>6
    <3>6. Sound(x, W, a, k, d)
      BY <3>3, <3>4, <3>5, <2>2, <1>2, OffcDoneSound DEF Errors
    <3>7. Failable(x)
      BY <3>4, <2>2, <1>3 DEF Failable, Offering
    <3>8. Sound(t, W, a, k, d) /\ Wired(done, t)
      <4>1. Frame(done) /\ FALSE \in BOOLEAN
        BY <1>7
      <4> QED
        BY <4>1, <3>2, <3>6, <3>7, <2>1, AbortableResult
    <3> QED
      BY <3>8, <1>1, <1>2, <1>5 DEF Good, Wired
  <2>3. CASE s.fatal
    <3>1. Sound(done, W, a, k, d) /\ done.fatal
      BY <2>3, <1>9
    <3>2. t = SetResult(done, "abortable")
      BY <3>1, <2>1 DEF SetAbortableError
    <3>3. Sound(t, W, a, k, d) /\ t.wire = done.wire
      BY <3>1, <3>2, FatalResult DEF Errors
    <3> QED
      BY <3>3, <1>1, <1>2, <1>5 DEF Good
  <2> QED
    BY <2>2, <2>3
<1> QED
  BY <1>10, <1>11, <1>12

\* The offsets are written, and the reply is lost.
LEMMA OffsetsWrittenGood ==
  ASSUME NEW s, NEW a, NEW k, NEW d, Good(s, a, k, d), s.offc # "none", ~k.fenced,
         NEW l, l = [k EXCEPT !.written = @ \cup {<<s.txn, OFF>>}]
  PROVE  Good(s, a, l, d)
<1>1. PICK W : W = OnWire(s.wire)
  OBVIOUS
<1>2. Sound(s, W, a, k, d) /\ Same(s, s, {})
  BY <1>1, GoodFrame DEF Good
<1>4. Sound(s, W, a, l, d)
  BY <1>2, OffcWrittenSound
<1> QED
  BY <1>1, <1>4 DEF Good

LEMMA SendOffsetCommitGood ==
  ASSUME NEW s, NEW a, NEW k, NEW d, Good(s, a, k, d), s.offc = "request",
         NEW t, t = SendTxnOffsetCommitRequest(s)
  PROVE  Good(t, a, k, d)
<1>1. CASE s.txn_state = "IN_TRANSACTION" /\ PidValid(s)
  <2>1. t = [s EXCEPT !.offc = "sent"]
    BY <1>1 DEF SendTxnOffsetCommitRequest
  <2>2. Frame(s) /\ Sound(s, OnWire(s.wire), a, k, d) /\ Ordered(s.wire)
    BY GoodFrame DEF Good
  <2>3. Same(s, t, {"offc"}) /\ t.wire = s.wire /\ t.offc = "sent"
    BY <2>1, <2>2 DEF Same, Misc, Fields, Frame
  <2>4. Sound(t, OnWire(s.wire), a, k, d)
    BY <2>2, <2>3, OffcSound
  <2> QED
    BY <2>2, <2>3, <2>4 DEF Good
<1>2. CASE ~(s.txn_state = "IN_TRANSACTION" /\ PidValid(s))
  <2>1. t = HandleTxnOffsetCommit(s, "perm", FALSE)
    BY <1>2 DEF SendTxnOffsetCommitRequest
  <2>2. s.offc # "none" /\ "perm" \in {"fenced", "transport", "perm"} /\ FALSE \in BOOLEAN /\ ("perm" = "fenced" => k.fenced)
    OBVIOUS
  <2> QED
    BY <2>1, <2>2, OffsetCommitGood
<1> QED
  BY <1>1, <1>2

-----------------------------------------------------------------------------
(* The broker threads. *)

\* Messages have failed, and no scan has anything left to do.
LEMMA FailLeft ==
  ASSUME NEW s, NEW W, NEW a, NEW k, NEW d, Sound(s, W, a, k, d), NEW t,
         Same(s, t, {"queued", "flight", "dr_fails"}),
         t.queued \subseteq s.queued, t.flight \subseteq s.flight, t.dr_fails \in BOOLEAN,
         s.dr_fails => t.dr_fails, t.queued # s.queued \/ t.flight # s.flight => t.dr_fails
  PROVE  Sound(t, W, a, k, d)
<1>1. Same(s, t, {"queued", "flight", "dr_fails", "timedout"})
  BY SameMore
<1>2. t.timedout = s.timedout
  BY DEF Same, Misc, Fields
<1>3. s.timedout \subseteq Partitions
  BY DEF Sound, ClientOK
<1> QED
  BY <1>1, <1>2, <1>3, FailSound

LandsOn(s, t, m) == Same(s, t, {"flight"}) /\ t.wire = s.wire /\ t.flight = s.flight \ {m}

\* Without a fatal error nothing is drained: the message just leaves.
LEMMA LandedIs ==
  ASSUME NEW s, NEW W, NEW a, NEW k, NEW d, Sound(s, W, a, k, d), ~s.fatal, NEW m, NEW t, t = Landed(s, m)
  PROVE  LandsOn(s, t, m)
<1>1. Frame(s) /\ StatesOK(s) /\ ClientOK(s)
  BY SoundFrame DEF Sound
<1>2. PICK u : u = [s EXCEPT !.flight = s.flight \ {m}]
  OBVIOUS
<1>3. Same(s, u, {"flight"}) /\ u.wire = s.wire /\ u.flight = s.flight \ {m} /\ u.idemp_state = s.idemp_state
  BY <1>1, <1>2 DEF Same, Misc, Fields, Frame
<1>4. s.idemp_state \notin {"DRAIN_RESET", "DRAIN_BUMP"}
  BY <1>1 DEF StatesOK, ClientOK, TxnStates, Acquiring, Aborting
<1>5. t = CheckDrainDone(u)
  BY <1>1, <1>2 DEF Landed, Frame, Fields
<1>6. t = u
  BY <1>3, <1>4, <1>5 DEF CheckDrainDone
<1> QED
  BY <1>3, <1>6 DEF LandsOn

\* The request of a message that has failed is done.
LEMMA LandedGood ==
  ASSUME NEW s, NEW W, NEW a, NEW k, NEW d, Sound(s, W, a, k, d), s.dr_fails = TRUE, NEW m, NEW t, t = Landed(s, m)
  PROVE  Sound(t, W, a, k, d) /\ Wired(s, t)
<1>1. Frame(s) /\ ClientOK(s) /\ s.fatal \in BOOLEAN /\ (s.fatal => s.txn_state = "FATAL_ERROR")
  BY SoundFrame DEF Sound, ClientOK, StatesOK
<1>2. PICK u : u = [s EXCEPT !.flight = s.flight \ {m}]
  OBVIOUS
<1>3. Same(s, u, {"flight"}) /\ u.wire = s.wire /\ u.flight = s.flight \ {m}
  BY <1>1, <1>2 DEF Same, Misc, Fields, Frame
<1>4. u.queued = s.queued /\ u.dr_fails = TRUE /\ u.fatal = s.fatal /\ u.txn_state = s.txn_state
  BY <1>3 DEF Same, Misc, Fields
<1>5. Same(s, u, {"queued", "flight", "dr_fails"})
  BY <1>3, SameMore
<1>6. Sound(u, W, a, k, d)
  BY <1>3, <1>4, <1>5, FailLeft
<1>7. CASE ~s.fatal
  <2>1. LandsOn(s, t, m)
    BY <1>7, LandedIs
  <2>2. Same(s, t, {"flight"}) /\ t.wire = s.wire /\ t.flight = s.flight \ {m}
    BY <2>1 DEF LandsOn
  <2>3. t.queued = s.queued /\ t.dr_fails = TRUE
    BY <2>2 DEF Same, Misc, Fields
  <2>4. Same(s, t, {"queued", "flight", "dr_fails"})
    BY <2>2, SameMore
  <2>5. Sound(t, W, a, k, d)
    BY <2>2, <2>3, <2>4, FailLeft
  <2> QED
    BY <2>2, <2>5 DEF Wired
<1>8. CASE s.fatal
  <2>1. t = CheckDrainDone(u)
    BY <1>1, <1>2 DEF Landed, Frame, Fields
  <2>2. Frame(u) /\ u.idemp_state \in IdempStates /\ u.fatal = TRUE /\ u.txn_state = "FATAL_ERROR"
    <3>1. Frame(u) /\ u.idemp_state \in IdempStates
      BY <1>6, SoundFrame DEF Sound, ClientOK
    <3> QED
      BY <3>1, <1>1, <1>4, <1>8
  <2>3. IdempAny(u, t)
    BY <2>1, <2>2, CheckDrainDoneFatal
  <2>4. Same(u, t, {"idemp_state"}) /\ t.wire = u.wire /\ t.idemp_state \in IdempStates
    BY <2>3 DEF IdempAny
  <2>5. Sound(t, W, a, k, d)
    BY <2>2, <2>4, <1>6, FatalIdemp
  <2> QED
    BY <2>4, <2>5, <1>3 DEF Wired
<1> QED
  BY <1>1, <1>7, <1>8

Fails(s, u) ==
  /\ Same(s, u, {"dr_fails"}) /\ u.wire = s.wire /\ u.dr_fails = TRUE
  /\ u.flight = s.flight /\ u.fatal = s.fatal /\ u.txn_state = s.txn_state

\* A message is counted as failed.
LEMMA FailedIs ==
  ASSUME NEW s, NEW W, NEW a, NEW k, NEW d, Sound(s, W, a, k, d), NEW m, NEW u, u = Failed(s, {m})
  PROVE  Fails(s, u) /\ Sound(u, W, a, k, d)
<1>1. Frame(s) /\ ClientOK(s)
  BY SoundFrame DEF Sound
<1>2. (s.dr_fails \/ {m} # {}) = TRUE
  BY <1>1 DEF ClientOK
<1>3. u = [s EXCEPT !.dr_fails = TRUE]
  BY <1>1, <1>2 DEF Failed, Frame, Fields
<1>4. Same(s, u, {"dr_fails"}) /\ u.wire = s.wire /\ u.dr_fails = TRUE
  BY <1>1, <1>3 DEF Same, Misc, Fields, Frame
<1>5. u.queued = s.queued /\ u.flight = s.flight /\ u.fatal = s.fatal /\ u.txn_state = s.txn_state
  BY <1>4 DEF Same, Misc, Fields
<1>6. Same(s, u, {"queued", "flight", "dr_fails"})
  BY <1>4, SameMore
<1>7. Sound(u, W, a, k, d)
  BY <1>4, <1>5, <1>6, FailLeft
<1> QED
  BY <1>4, <1>5, <1>7 DEF Fails

\* The state in which a message is in flight.
Flying(s, W) ==
  /\ s.txn_state \in {"IN_TRANSACTION", "BEGIN_COMMIT", "ABORTABLE_ERROR", "BEGIN_ABORT", "FATAL_ERROR"}
  /\ \A r \in W : r.kind \notin Last
  /\ ~Reacquiring(s)
  /\ ~s.fatal => Failable(s)

LEMMA FlyingIs ==
  ASSUME NEW s, NEW W, NEW a, NEW k, NEW d, Sound(s, W, a, k, d), s.flight # {}
  PROVE  Flying(s, W)
<1>1. /\ ClientOK(s) /\ WireOK(s, W) /\ StatesOK(s) /\ QueueOK(s, a) /\ PartsOK(s, W, a, k)
      /\ s.fatal \in BOOLEAN
  BY DEF Sound, ClientOK
<1>2. s.fatal <=> s.txn_state = "FATAL_ERROR"
  BY <1>1 DEF StatesOK
<1>3. ~s.fatal => /\ s.txn_state \in {"IN_TRANSACTION", "BEGIN_COMMIT", "ABORTABLE_ERROR", "BEGIN_ABORT"}
                  /\ ~Reacquiring(s)
  BY <1>1 DEF QueueOK
<1>4. ~Reacquiring(s)
  BY <1>2, <1>3 DEF Reacquiring, Aborting
<1>5. s.txn_state \in {"IN_TRANSACTION", "BEGIN_COMMIT", "ABORTABLE_ERROR", "BEGIN_ABORT", "FATAL_ERROR"}
  BY <1>1, <1>2, <1>3
<1>6. \A r \in W : r.kind \notin Last
  <2>1. CASE s.fatal
    BY <2>1, <1>1 DEF PartsOK
  <2>2. CASE ~s.fatal
    BY <2>2, <1>1, <1>2, <1>4, <1>5 DEF WireOK, Only, Allowed, Last
  <2> QED
    BY <2>1, <2>2
<1> QED
  BY <1>2, <1>3, <1>4, <1>5, <1>6 DEF Flying, Failable

LEMMA DeliveredGood ==
  ASSUME NEW s, NEW a, NEW k, NEW d, Good(s, a, k, d), NEW m \in s.flight, ~k.fenced,
         NEW l, l = [k EXCEPT !.written = @ \cup {m}], NEW t, t = Landed(s, m)
  PROVE  Good(t, a, l, d)
<1>1. PICK W : W = OnWire(s.wire)
  OBVIOUS
<1>2. Sound(s, W, a, k, d) /\ Ordered(s.wire)
  BY <1>1 DEF Good
<1>3. CASE ~s.fatal
  <2>1. LandsOn(s, t, m)
    BY <1>2, <1>3, LandedIs
  <2>2. Same(s, t, {"flight"}) /\ t.wire = s.wire /\ t.flight = s.flight \ {m}
    BY <2>1 DEF LandsOn
  <2>3. Sound(t, W, a, l, d)
    BY <2>2, <1>2, DeliveredSound
  <2> QED
    BY <2>2, <2>3, <1>1, <1>2 DEF Good
<1>4. CASE s.fatal
  <2>1. PICK u : u = [s EXCEPT !.flight = s.flight \ {m}]
    OBVIOUS
  <2>2. Frame(s) /\ StatesOK(s) /\ ClientOK(s)
    BY <1>2, SoundFrame DEF Sound
  <2>3. /\ Same(s, u, {"flight"}) /\ u.wire = s.wire /\ u.flight = s.flight \ {m}
        /\ u.fatal = s.fatal /\ u.txn_state = s.txn_state /\ u.idemp_state = s.idemp_state
    BY <2>1, <2>2 DEF Same, Misc, Fields, Frame
  <2>4. Sound(u, W, a, l, d)
    BY <2>3, <1>2, DeliveredSound
  <2>5. t = CheckDrainDone(u)
    BY <2>1, <2>2 DEF Landed, Frame, Fields
  <2>6. Frame(u) /\ u.idemp_state \in IdempStates /\ u.fatal = TRUE /\ u.txn_state = "FATAL_ERROR"
    BY <2>2, <2>3, <2>4, <1>4, SoundFrame DEF StatesOK, ClientOK
  <2>7. IdempAny(u, t)
    BY <2>5, <2>6, CheckDrainDoneFatal
  <2>8. Same(u, t, {"idemp_state"}) /\ t.wire = u.wire /\ t.idemp_state \in IdempStates
    BY <2>7 DEF IdempAny
  <2>9. Sound(t, W, a, l, d)
    BY <2>4, <2>6, <2>8, FatalIdemp
  <2> QED
    BY <2>3, <2>8, <2>9, <1>1, <1>2 DEF Good
<1> QED
  BY <1>3, <1>4

\* The message is written, and its ProduceRequest times out.
LEMMA LostGood ==
  ASSUME NEW s, NEW a, NEW k, NEW d, Good(s, a, k, d), NEW m \in s.flight,
         NEW l, l = k \/ (~k.fenced /\ l = [k EXCEPT !.written = @ \cup {m}]),
         NEW t, t = Landed(Failed(s, {m}), m)
  PROVE  Good(t, a, l, d)
<1>1. PICK W : W = OnWire(s.wire)
  OBVIOUS
<1>2. Sound(s, W, a, k, d) /\ Ordered(s.wire)
  BY <1>1 DEF Good
<1>3. PICK u : u = Failed(s, {m})
  OBVIOUS
<1>4. Sound(u, W, a, k, d) /\ Fails(s, u) /\ u.flight = s.flight
  <2>1. Fails(s, u) /\ Sound(u, W, a, k, d)
    BY <1>2, <1>3, FailedIs
  <2> QED
    BY <2>1 DEF Fails
<1>5. u.wire = s.wire /\ u.dr_fails = TRUE
  BY <1>4 DEF Fails
<1>6. t = Landed(u, m)
  BY <1>3
<1>7. CASE l = k
  <2>1. Sound(t, W, a, k, d) /\ Wired(u, t)
    BY <1>4, <1>5, <1>6, LandedGood
  <2> QED
    BY <2>1, <1>1, <1>2, <1>5, <1>7 DEF Good, Wired
<1>8. CASE ~k.fenced /\ l = [k EXCEPT !.written = @ \cup {m}]
  <2>1. Good(u, a, k, d)
    BY <1>1, <1>2, <1>4, <1>5 DEF Good
  <2> QED
    BY <2>1, <1>4, <1>6, <1>8, DeliveredGood
<1> QED
  BY <1>7, <1>8

LEMMA RefusedFenced ==
  ASSUME NEW s, NEW a, NEW k, NEW d, Good(s, a, k, d), NEW m \in s.flight, k.fenced,
         NEW t, t = Landed(DrainReset(SetFatalError(Failed(s, {m}))), m)
  PROVE  Good(t, a, k, d)
<1>1. PICK W : W = OnWire(s.wire)
  OBVIOUS
<1>2. Sound(s, W, a, k, d) /\ Ordered(s.wire)
  BY <1>1 DEF Good
<1>3. PICK u : u = Failed(s, {m})
  OBVIOUS
<1>4. Sound(u, W, a, k, d) /\ Fails(s, u) /\ u.fatal = s.fatal /\ u.flight = s.flight /\ u.txn_state = s.txn_state
  <2>1. Fails(s, u) /\ Sound(u, W, a, k, d)
    BY <1>2, <1>3, FailedIs
  <2> QED
    BY <2>1 DEF Fails
<1>5. Same(s, u, {"dr_fails"}) /\ u.wire = s.wire /\ u.dr_fails = TRUE
  BY <1>4 DEF Fails
<1>6. PICK v : v = SetFatalError(u)
  OBVIOUS
<1>7. Flying(u, W)
  <2>1. u.flight # {}
    BY <1>4
  <2> QED
    BY <2>1, <1>4, FlyingIs
<1>8. Sound(v, W, a, k, d) /\ FatalNow(u, v)
  <2>1. CASE ~u.fatal
    <3>1. Same(u, u, {"req_cnt", "offc", "dr_fails"})
      BY <1>4, SoundFrame, SameMore
    <3>2. u.req_cnt \in Int /\ CountOK(u, W, k)
      BY <1>4 DEF Sound, ClientOK
    <3>3. /\ u.txn_state \notin {"INIT", "READY_NOT_ACKED", "READY", "COMMIT_NOT_ACKED", "ABORT_NOT_ACKED"}
          /\ W \subseteq W /\ \A r \in W : r.kind \notin Last
      BY <1>7 DEF Flying
    <3> QED
      BY <3>1, <3>2, <3>3, <1>4, <1>5, <1>6, GoFatalStep
  <2>2. CASE u.fatal
    <3>1. Sound(v, W, a, k, d)
      BY <2>2, <1>4, <1>6, FatalAgain
    <3>2. Frame(u)
      BY <1>4, SoundFrame
    <3>3. /\ Same(u, v, {"fatal", "txn_err", "txn_state", "may_enq", "api"}) /\ v.wire = u.wire
          /\ v.fatal = TRUE /\ v.txn_state = "FATAL_ERROR"
      BY <3>2, <1>6, SetFatalErrorIs
    <3>4. v.flight = u.flight /\ v.dr_fails = u.dr_fails
      BY <3>3 DEF Same, Misc, Fields
    <3> QED
      BY <3>1, <3>3, <3>4 DEF FatalNow
  <2> QED
    BY <2>1, <2>2
<1>9. v.wire = s.wire /\ v.fatal = TRUE /\ v.txn_state = "FATAL_ERROR" /\ v.dr_fails = TRUE
  BY <1>5, <1>8 DEF FatalNow
<1>10. PICK x : x = DrainReset(v)
  OBVIOUS
<1>11. IdempAny(v, x)
  <2>1. Frame(v) /\ v.idemp_state \in IdempStates
    BY <1>8, SoundFrame DEF Sound, ClientOK
  <2> QED
    BY <2>1, <1>9, <1>10, DrainResetFatal
<1>12. Same(v, x, {"idemp_state"}) /\ x.wire = v.wire /\ x.idemp_state \in IdempStates
  BY <1>11 DEF IdempAny
<1>13. Sound(x, W, a, k, d)
  BY <1>8, <1>9, <1>12, FatalIdemp
<1>14. x.dr_fails = TRUE
  BY <1>9, <1>12 DEF Same, Misc, Fields
<1>15. t = Landed(x, m)
  BY <1>3, <1>6, <1>10
<1>16. Sound(t, W, a, k, d) /\ Wired(x, t)
  BY <1>13, <1>14, <1>15, LandedGood
<1> QED
  BY <1>1, <1>2, <1>9, <1>12, <1>16 DEF Good, Wired

LEMMA RefusedPerm ==
  ASSUME NEW s, NEW a, NEW k, NEW d, Good(s, a, k, d), NEW m \in s.flight,
         NEW t, t = Landed(SetAbortableError(Failed(s, {m}), FALSE), m)
  PROVE  Good(t, a, k, d)
<1>1. PICK W : W = OnWire(s.wire)
  OBVIOUS
<1>2. Sound(s, W, a, k, d) /\ Ordered(s.wire)
  BY <1>1 DEF Good
<1>3. PICK u : u = Failed(s, {m})
  OBVIOUS
<1>4. Sound(u, W, a, k, d) /\ Fails(s, u) /\ u.flight = s.flight
  <2>1. Fails(s, u) /\ Sound(u, W, a, k, d)
    BY <1>2, <1>3, FailedIs
  <2> QED
    BY <2>1 DEF Fails
<1>5. u.wire = s.wire /\ u.dr_fails = TRUE
  BY <1>4 DEF Fails
<1>6. PICK v : v = SetAbortableError(u, FALSE)
  OBVIOUS
<1>7. Flying(u, W)
  <2>1. u.flight # {}
    BY <1>4
  <2> QED
    BY <2>1, <1>4, FlyingIs
<1>8. Sound(v, W, a, k, d) /\ Kept(u, v)
  <2>1. CASE ~u.fatal
    <3>1. Failable(u) /\ FALSE \in BOOLEAN
      BY <2>1, <1>7 DEF Flying
    <3> QED
      BY <3>1, <1>4, <1>6, AbortableStep
  <2>2. CASE u.fatal
    <3>1. v = u
      BY <2>2, <1>6 DEF SetAbortableError
    <3> QED
      BY <3>1, <1>4 DEF Kept
  <2> QED
    BY <2>1, <2>2
<1>9. v.wire = s.wire /\ v.dr_fails = TRUE
  <2>1. v.wire = s.wire /\ v.dr_fails
    BY <1>5, <1>8 DEF Kept
  <2>2. v.dr_fails \in BOOLEAN
    BY <1>8 DEF Sound, ClientOK
  <2> QED
    BY <2>1, <2>2
<1>10. t = Landed(v, m)
  BY <1>3, <1>6
<1>11. Sound(t, W, a, k, d) /\ Wired(v, t)
  BY <1>8, <1>9, <1>10, LandedGood
<1> QED
  BY <1>1, <1>2, <1>9, <1>11 DEF Good, Wired

LEMMA RefusedBump ==
  ASSUME NEW s, NEW a, NEW k, NEW d, Good(s, a, k, d), NEW m \in s.flight,
         NEW t, t = Landed(SetAbortableError(DrainEpochBump(Failed(s, {m}), TRUE), TRUE), m)
  PROVE  Good(t, a, k, d)
<1>1. PICK W : W = OnWire(s.wire)
  OBVIOUS
<1>2. Sound(s, W, a, k, d) /\ Ordered(s.wire)
  BY <1>1 DEF Good
<1>3. PICK u : u = Failed(s, {m})
  OBVIOUS
<1>4. Sound(u, W, a, k, d) /\ Fails(s, u) /\ u.flight = s.flight
  <2>1. Fails(s, u) /\ Sound(u, W, a, k, d)
    BY <1>2, <1>3, FailedIs
  <2> QED
    BY <2>1 DEF Fails
<1>5. u.wire = s.wire /\ u.dr_fails = TRUE
  BY <1>4 DEF Fails
<1>6. PICK v : v = DrainEpochBump(u, TRUE)
  OBVIOUS
<1>7. PICK x : x = SetAbortableError(v, TRUE)
  OBVIOUS
<1>8. Flying(u, W)
  <2>1. u.flight # {}
    BY <1>4
  <2> QED
    BY <2>1, <1>4, FlyingIs
<1>9. Sound(x, W, a, k, d) /\ x.wire = s.wire /\ x.dr_fails
  <2>1. CASE ~u.fatal
    <3>1. Failable(u) /\ ~Reacquiring(u) /\ TRUE \in BOOLEAN
      BY <2>1, <1>8 DEF Flying
    <3>4. u.flight # {} /\ (NoBump => ~CommitLost(u, k))
      BY <1>4 DEF Sound, AbortOK
    <3>2. Sound(v, W, a, k, d) /\ Kept(u, v) /\ Failable(v)
      BY <3>1, <3>4, <1>4, <1>6, DrainAbortStep
    <3>5. NoBump => ~CommitLost(v, k)
      BY <3>2, <3>4 DEF Sound, AbortOK, Kept
    <3>3. Sound(x, W, a, k, d) /\ Kept(v, x)
      BY <3>1, <3>2, <3>5, <1>7, AbortableStep
    <3> QED
      BY <3>2, <3>3, <1>5 DEF Kept
  <2>2. CASE u.fatal
    <3>1. Frame(u) /\ u.idemp_state \in IdempStates /\ u.fatal = TRUE /\ u.txn_state = "FATAL_ERROR"
      BY <2>2, <1>4, SoundFrame DEF Sound, ClientOK, StatesOK
    <3>2. IdempAny(u, v)
      BY <3>1, <1>6, DrainAbortFatal
    <3>3. Same(u, v, {"idemp_state"}) /\ v.wire = u.wire /\ v.idemp_state \in IdempStates
      BY <3>2 DEF IdempAny
    <3>4. Sound(v, W, a, k, d)
      BY <3>1, <3>3, <1>4, FatalIdemp
    <3>5. v.fatal = TRUE /\ v.dr_fails = TRUE
      BY <3>1, <3>3, <1>5 DEF Same, Misc, Fields
    <3>6. x = v
      BY <3>5, <1>7 DEF SetAbortableError
    <3> QED
      BY <3>3, <3>4, <3>5, <3>6, <1>5
  <2> QED
    BY <2>1, <2>2
<1>10. x.dr_fails = TRUE
  BY <1>9 DEF Sound, ClientOK
<1>11. t = Landed(x, m)
  BY <1>3, <1>6, <1>7
<1>12. Sound(t, W, a, k, d) /\ Wired(x, t)
  BY <1>9, <1>10, <1>11, LandedGood
<1> QED
  BY <1>1, <1>2, <1>9, <1>12 DEF Good, Wired

LEMMA TimeoutGood ==
  ASSUME NEW s, NEW a, NEW k, NEW d, Good(s, a, k, d), NEW m \in s.queued,
         NEW u, u = Failed([s EXCEPT !.queued = @ \ {m}], {m}),
         NEW t, t = u \/ t = [u EXCEPT !.timedout = @ \cup {m[2]}]
  PROVE  Good(t, a, k, d)
<1>1. Frame(s) /\ Sound(s, OnWire(s.wire), a, k, d) /\ Ordered(s.wire) /\ ClientOK(s)
  BY GoodFrame DEF Good, Sound
<1>2. (s.dr_fails \/ {m} # {}) = TRUE
  BY <1>1 DEF ClientOK
<1>3. u = [s EXCEPT !.queued = s.queued \ {m}, !.dr_fails = TRUE]
  BY <1>1, <1>2 DEF Failed, Frame, Fields
<1>4. Same(s, u, {"queued", "dr_fails"}) /\ u.wire = s.wire /\ u.queued = s.queued \ {m} /\ u.dr_fails = TRUE
  BY <1>1, <1>3 DEF Same, Misc, Fields, Frame
<1>8. u.flight = s.flight /\ u.timedout = s.timedout
  BY <1>4 DEF Same, Misc, Fields
<1>9. QueueOK(s, a)
  BY <1>1 DEF Sound
<1>10. m[2] \in Partitions /\ s.timedout \subseteq Partitions
  BY <1>1, <1>9 DEF QueueOK, ClientOK
<1>11. Same(u, t, {"timedout"}) /\ t.wire = u.wire /\ t.timedout \subseteq Partitions
  BY <1>4, <1>8, <1>10 DEF Same, Misc, Fields
<1>5. t.flight = s.flight /\ t.queued = s.queued \ {m} /\ t.dr_fails = TRUE
  BY <1>4, <1>8, <1>11 DEF Same, Misc, Fields
<1>6. Same(s, t, {"queued", "flight", "dr_fails", "timedout"})
  BY <1>4, <1>11, SameChain
<1>7. Sound(t, OnWire(s.wire), a, k, d)
  BY <1>1, <1>5, <1>6, <1>11, FailSound
<1> QED
  BY <1>1, <1>4, <1>7, <1>11 DEF Good

\* A new epoch is needed after the scan.
LEMMA TimeoutBumpGood ==
  ASSUME NEW s, NEW a, NEW k, NEW d, Good(s, a, k, d), NEW p \in s.timedout,
         NEW t, t = DrainEpochBump([s EXCEPT !.timedout = @ \ {p}], TRUE)
  PROVE  Good(t, a, k, d)
<1>1. PICK W : W = OnWire(s.wire)
  OBVIOUS
<1>2. Sound(s, W, a, k, d) /\ Ordered(s.wire) /\ Frame(s) /\ ClientOK(s) /\ QueueOK(s, a)
  BY <1>1, GoodFrame DEF Good, Sound
<1>3. PICK u : u = [s EXCEPT !.timedout = s.timedout \ {p}]
  OBVIOUS
<1>4. Same(s, u, {"timedout"}) /\ u.wire = s.wire /\ u.timedout = s.timedout \ {p}
  BY <1>2, <1>3 DEF Same, Misc, Fields, Frame
<1>5. /\ u.queued = s.queued /\ u.flight = s.flight /\ u.dr_fails = s.dr_fails /\ u.txn = s.txn
      /\ u.fatal = s.fatal /\ u.txn_state = s.txn_state /\ u.idemp_state = s.idemp_state
  BY <1>4 DEF Same, Misc, Fields
<1>6. s.dr_fails \in BOOLEAN /\ s.timedout \subseteq Partitions /\ s.timedout # {} /\ s.fatal \in BOOLEAN
  BY <1>2 DEF ClientOK
<1>7. Same(s, u, {"queued", "flight", "dr_fails", "timedout"})
  BY <1>4, SameMore
<1>8. Sound(u, W, a, k, d)
  BY <1>2, <1>4, <1>5, <1>6, <1>7, FailSound
<1>9. t = DrainEpochBump(u, TRUE)
  BY <1>2, <1>3 DEF Frame, Fields
<1>10. CASE ~s.fatal
  <2>1. /\ s.txn_state \in {"IN_TRANSACTION", "BEGIN_COMMIT", "ABORTABLE_ERROR", "BEGIN_ABORT"}
        /\ ~Reacquiring(s)
    BY <1>2, <1>6, <1>10 DEF QueueOK
  <2>2. Failable(u) /\ ~Reacquiring(u)
    BY <2>1, <1>5, <1>10 DEF Failable, Reacquiring
  <2>3. NoBump => ~CommitLost(s, k)
    BY <1>2, <1>6 DEF Sound, AbortOK
  <2>4. NoBump => ~CommitLost(u, k)
    BY <2>3, <1>5 DEF CommitLost
  <2>5. Sound(t, W, a, k, d) /\ Kept(u, t)
    BY <2>2, <2>4, <1>8, <1>9, DrainAbortStep
  <2> QED
    BY <2>5, <1>1, <1>2, <1>4 DEF Good, Kept
<1>11. CASE s.fatal
  <2>1. Frame(u) /\ u.idemp_state \in IdempStates /\ u.fatal = TRUE /\ u.txn_state = "FATAL_ERROR"
    BY <1>5, <1>6, <1>8, <1>11, SoundFrame DEF Sound, ClientOK, StatesOK
  <2>2. IdempAny(u, t)
    BY <2>1, <1>9, DrainAbortFatal
  <2>3. Same(u, t, {"idemp_state"}) /\ t.wire = u.wire /\ t.idemp_state \in IdempStates
    BY <2>2 DEF IdempAny
  <2>4. Sound(t, W, a, k, d)
    BY <2>1, <2>3, <1>8, FatalIdemp
  <2> QED
    BY <2>3, <2>4, <1>1, <1>2, <1>4 DEF Good
<1> QED
  BY <1>10, <1>11

Purges(s, t) ==
  /\ Same(s, t, {"queued", "dr_fails"}) /\ t.wire = s.wire /\ t.queued = {} /\ t.flight = s.flight
  /\ t.dr_fails \in BOOLEAN /\ (t.dr_fails <=> s.dr_fails \/ s.queued # {})

LEMMA PurgedIs ==
  ASSUME NEW s, Frame(s), s.dr_fails \in BOOLEAN, NEW t, t = Purged(s)
  PROVE  Purges(s, t)
<1>1. PICK b \in BOOLEAN : b = (s.dr_fails \/ s.queued # {})
  OBVIOUS
<1>2. t = [s EXCEPT !.dr_fails = b, !.queued = {}, !.purge = FALSE, !.may_send = FALSE, !.has_pid = FALSE]
  BY <1>1 DEF Purged, Failed, Frame, Fields
<1>3. Same(s, t, {"queued", "dr_fails"}) /\ t.wire = s.wire /\ t.queued = {} /\ t.dr_fails = b
  BY <1>2 DEF Same, Misc, Fields, Frame
<1>4. t.flight = s.flight
  BY <1>3 DEF Same, Misc, Fields
<1> QED
  BY <1>1, <1>3, <1>4 DEF Purges

LEMMA PurgeGood ==
  ASSUME NEW s, NEW a, NEW k, NEW d, Good(s, a, k, d), NEW t, t = Purged(s)
  PROVE  Good(t, a, k, d)
<1>1. Frame(s) /\ Sound(s, OnWire(s.wire), a, k, d) /\ Ordered(s.wire) /\ ClientOK(s) /\ s.dr_fails \in BOOLEAN
  BY GoodFrame DEF Good, Sound, ClientOK
<1>2. Purges(s, t)
  BY <1>1, PurgedIs
<1>3. /\ Same(s, t, {"queued", "dr_fails"}) /\ t.wire = s.wire /\ t.queued = {} /\ t.flight = s.flight
      /\ t.dr_fails \in BOOLEAN /\ (s.dr_fails => t.dr_fails) /\ (s.queued # {} => t.dr_fails)
  BY <1>2 DEF Purges
<1>4. Same(s, t, {"queued", "flight", "dr_fails"})
  BY <1>3, SameMore
<1>5. Sound(t, OnWire(s.wire), a, k, d)
  BY <1>1, <1>3, <1>4, FailLeft
<1> QED
  BY <1>1, <1>3, <1>5 DEF Good

LEMMA SendGood ==
  ASSUME NEW s, NEW a, NEW k, NEW d, Good(s, a, k, d), ~s.fatal, NEW m \in s.queued, m[2] \in s.rktps,
         NEW t, t = [s EXCEPT !.queued = @ \ {m}, !.flight = @ \cup {m}]
  PROVE  Good(t, a, k, d)
<1>1. Frame(s) /\ Sound(s, OnWire(s.wire), a, k, d) /\ Ordered(s.wire)
  BY GoodFrame DEF Good
<1>2. /\ Same(s, t, {"queued", "flight"}) /\ t.wire = s.wire /\ t.queued = s.queued \ {m}
      /\ t.flight = s.flight \cup {m}
  BY <1>1 DEF Same, Misc, Fields, Frame
<1>3. Sound(t, OnWire(s.wire), a, k, d)
  BY <1>1, <1>2, SendSound
<1> QED
  BY <1>1, <1>2, <1>3 DEF Good

-----------------------------------------------------------------------------
(* The application's thread. *)

\* The client once the call n is current.
CallTo(s, n) == [s EXCEPT !.api.name = n, !.api.calling = TRUE,
                          !.asserts = @ /\ (s.api.name = n \/ s.api.error = "none")]

LEMMA CallGood ==
  ASSUME NEW s, NEW a, NEW k, NEW d, Good(s, a, k, d), NEW n \in Apis, a.at = "idle",
         s.api.name \in {"none", n}, n = "begin" => s.txn < MaxTxns,
         NEW t, t = CallTo(s, n), NEW b, b = Begun(a, n)
  PROVE  Good(t, b, k, d)
<1>1. Frame(s) /\ Sound(s, OnWire(s.wire), a, k, d) /\ Ordered(s.wire)
  BY GoodFrame DEF Good
<1>2. PICK x : x = (s.asserts /\ (s.api.name = n \/ s.api.error = "none"))
  OBVIOUS
<1>3. PICK y : y = [s.api EXCEPT !.name = n, !.calling = TRUE]
  OBVIOUS
<1>4. t = [s EXCEPT !.api = y, !.asserts = x]
  BY <1>1, <1>2, <1>3 DEF CallTo, Frame, Fields
<1>5. Same(s, t, {"api", "asserts"}) /\ t.wire = s.wire /\ t.api = y /\ t.asserts = x
  BY <1>1, <1>4 DEF Same, Misc, Fields, Frame
<1>6. Sound(t, OnWire(s.wire), b, k, d)
  <2>1. t.api = Called(s.api, n)
    BY <1>3, <1>5 DEF Called
  <2>2. t.asserts = (s.asserts /\ (s.api.name = n \/ s.api.error = "none"))
    BY <1>2, <1>5
  <2>3. Sound(s, OnWire(s.wire), a, k, d) /\ Calls(s, t, n)
    BY <2>1, <2>2, <1>1, <1>5 DEF Calls
  <2> QED
    BY <2>3, CallSound
<1> QED
  BY <1>1, <1>5, <1>6 DEF Good

LEMMA FlushGood ==
  ASSUME NEW s, NEW a, NEW k, NEW d, Good(s, a, k, d), a.at = "enter", PhaseOf(a) = "flush", a.api = "abort" => s.timedout = {},
         NEW t, t = IF a.api = "abort" THEN Purged(s) ELSE s,
         NEW b, b = [a EXCEPT !.at = "flush"]
  PROVE  Good(t, b, k, d)
<1>1. /\ Frame(s) /\ Sound(s, OnWire(s.wire), a, k, d) /\ Ordered(s.wire) /\ AppOK(a) /\ s.dr_fails \in BOOLEAN
      /\ Same(s, s, {})
  BY GoodFrame DEF Good, Sound, ClientOK
<1>2. a.api \in {"commit", "abort"} /\ a.stage = 2
  BY <1>1, PhaseIs DEF InCall
<1>3. CASE a.api = "abort"
  <2>1. Purges(s, t)
    BY <1>1, <1>3, PurgedIs
  <2>2. /\ Same(s, t, {"queued", "dr_fails"}) /\ t.wire = s.wire /\ t.queued = {}
        /\ t.dr_fails \in BOOLEAN /\ (t.dr_fails <=> s.dr_fails \/ s.queued # {})
    BY <2>1 DEF Purges
  <2>3. Sound(t, OnWire(s.wire), b, k, d)
    BY <2>2, <1>1, <1>2, <1>3, FlushSound
  <2> QED
    BY <2>2, <2>3, <1>1 DEF Good
<1>4. CASE a.api = "commit"
  <2>1. t = s
    BY <1>4
  <2>2. Same(s, s, {"queued", "dr_fails"})
    BY <1>1, SameMore
  <2>3. Sound(s, OnWire(s.wire), b, k, d)
    BY <2>2, <1>1, <1>2, <1>4, FlushSound
  <2> QED
    BY <2>1, <2>3, <1>1 DEF Good
<1> QED
  BY <1>2, <1>3, <1>4

LEMMA TakeGood ==
  ASSUME NEW s, NEW a, NEW k, NEW d, Good(s, a, k, d), s.api.has_result,
         (a.at = "enter" /\ PhaseOf(a) # "flush") \/ a.at = "wait",
         NEW t, t = [s EXCEPT !.api.has_result = FALSE, !.api.error = "none"],
         NEW b, b = PhaseDone(a, s.api.error)
  PROVE  Good(t, b, k, d)
<1>1. Frame(s) /\ Sound(s, OnWire(s.wire), a, k, d) /\ Ordered(s.wire) /\ AppOK(a)
  BY GoodFrame DEF Good, Sound
<1>2. a.at \in {"enter", "wait"} /\ ~(a.stage = 2 /\ a.api \in {"commit", "abort"})
  <2>1. CASE a.at = "wait"
    BY <2>1, <1>1 DEF AppOK
  <2>2. CASE a.at = "enter" /\ PhaseOf(a) # "flush"
    BY <2>2, <1>1, PhaseIs DEF InCall
  <2> QED
    BY <2>1, <2>2
<1>3. PICK y : y = [s.api EXCEPT !.has_result = FALSE, !.error = "none"]
  OBVIOUS
<1>4. t = [s EXCEPT !.api = y]
  BY <1>1, <1>3 DEF Frame, Fields
<1>5. Same(s, t, {"api"}) /\ t.wire = s.wire /\ t.api = y
  BY <1>1, <1>4 DEF Same, Misc, Fields, Frame
<1>6. Sound(t, OnWire(s.wire), b, k, d)
  <2>1. t.api = Emptied(s.api)
    BY <1>3, <1>5 DEF Emptied
  <2>2. Sound(s, OnWire(s.wire), a, k, d) /\ Same(s, t, {"api"})
    BY <1>1, <1>5
  <2> QED
    BY <2>1, <2>2, <1>2, TakeSound
<1> QED
  BY <1>1, <1>5, <1>6 DEF Good

LEMMA EnterOpGood ==
  ASSUME NEW s, NEW a, NEW k, NEW d, Good(s, a, k, d), ~s.api.has_result, a.at = "enter", PhaseOf(a) # "flush",
         NEW t, t = [s EXCEPT !.ops = Append(@, PhaseOf(a))],
         NEW b, b = [a EXCEPT !.at = "wait"]
  PROVE  Good(t, b, k, d)
<1>1. Frame(s) /\ Sound(s, OnWire(s.wire), a, k, d) /\ Ordered(s.wire) /\ AppOK(a)
  BY GoodFrame DEF Good, Sound
<1>2. ~(a.api \in {"commit", "abort"} /\ a.stage = 2)
  BY <1>1, PhaseIs DEF InCall
<1>3. PICK y : y = Append(s.ops, PhaseOf(a))
  OBVIOUS
<1>4. t = [s EXCEPT !.ops = y]
  BY <1>1, <1>3 DEF Frame, Fields
<1>5. Same(s, t, {"ops"}) /\ t.wire = s.wire /\ t.ops = y
  BY <1>1, <1>4 DEF Same, Misc, Fields, Frame
<1>6. Sound(t, OnWire(s.wire), b, k, d)
  BY <1>1, <1>2, <1>3, <1>5, EnterOpSound
<1> QED
  BY <1>1, <1>5, <1>6 DEF Good

LEMMA FlushedGood ==
  ASSUME NEW s, NEW a, NEW k, NEW d, Good(s, a, k, d), a.at = "flush", s.queued \cup s.flight = {},
         NEW b, b = PhaseDone(a, "none")
  PROVE  Good(s, b, k, d)
<1>1. Same(s, s, {}) /\ Sound(s, OnWire(s.wire), a, k, d) /\ Ordered(s.wire)
  BY GoodFrame DEF Good
<1>2. Sound(s, OnWire(s.wire), b, k, d)
  BY <1>1, FlushedSound
<1> QED
  BY <1>1, <1>2 DEF Good

\* A call times out: not in the phase that waits for the end of the transaction,
\* and not before the main thread has got to its op.
LEMMA TimedOutGood ==
  ASSUME NEW s, NEW a, NEW k, NEW d, Good(s, a, k, d), a.at \in {"wait", "flush"},
         a.at = "wait" => ~s.api.has_result /\ s.ops = <<>>,
         PhaseOf(a) \in {"init", "begin_commit", "begin_abort", "flush"},
         NEW b, b = PhaseDone(a, "retriable")
  PROVE  Good(s, b, k, d)
<1>1. Same(s, s, {}) /\ Sound(s, OnWire(s.wire), a, k, d) /\ Ordered(s.wire) /\ AppOK(a)
  BY GoodFrame DEF Good, Sound
<1>2. a.stage \in 1 .. 2 /\ a.api \in {"init", "commit", "abort"} /\ (a.api = "init" => a.stage = 1)
  BY <1>1, PhaseIs DEF InCall
<1>3. Sound(s, OnWire(s.wire), b, k, d)
  BY <1>1, <1>2, TimedOutSound
<1> QED
  BY <1>1, <1>3 DEF Good

LEMMA ReturnGood ==
  ASSUME NEW s, NEW a, NEW k, NEW d, Good(s, a, k, d), a.at = "return",
         NEW t, t = ApiReturn(s, PhaseOf(a) \in Resumable, a.error),
         NEW b, b = [a EXCEPT !.at = "idle", !.api = "none", !.stage = 0, !.error = "none"],
         NEW e, e = IF a.error = "none" /\ a.api \in {"commit", "abort"} /\ s.txn > 0
                    THEN [d EXCEPT ![s.txn] = a.api] ELSE d
  PROVE  Good(t, b, k, e)
<1>1. Frame(s) /\ Sound(s, OnWire(s.wire), a, k, d) /\ Ordered(s.wire)
  BY GoodFrame DEF Good
<1>2. PICK y : y = IF Retains(PhaseOf(a) \in Resumable, a.error) THEN [s.api EXCEPT !.calling = FALSE]
                   ELSE [s.api EXCEPT !.calling = FALSE, !.name = "none", !.error = "none"]
  OBVIOUS
<1>3. t = [s EXCEPT !.api = y]
  <2>1. CASE Retains(PhaseOf(a) \in Resumable, a.error)
    BY <2>1, <1>1, <1>2 DEF ApiReturn, Frame, Fields
  <2>2. CASE ~Retains(PhaseOf(a) \in Resumable, a.error)
    BY <2>2, <1>1, <1>2 DEF ApiReturn, Frame, Fields
  <2> QED
    BY <2>1, <2>2
<1>4. Same(s, t, {"api"}) /\ t.wire = s.wire /\ t.api = y
  BY <1>1, <1>3 DEF Same, Misc, Fields, Frame
<1>5. Sound(t, OnWire(s.wire), b, k, e)
  BY <1>1, <1>2, <1>4, ReturnSound
<1> QED
  BY <1>1, <1>4, <1>5 DEF Good

LEMMA ProduceCheckGood ==
  ASSUME NEW s, NEW a, NEW k, NEW d, Good(s, a, k, d), a.at = "idle", ~s.fatal, s.may_enq,
         NEW p \in Partitions, NEW b, b = [a EXCEPT !.at = "produce", !.arg = p]
  PROVE  Good(s, b, k, d)
<1>1. Same(s, s, {}) /\ Sound(s, OnWire(s.wire), a, k, d) /\ Ordered(s.wire)
  BY GoodFrame DEF Good
<1>2. Sound(s, OnWire(s.wire), b, k, d)
  BY <1>1, ProduceCheckSound
<1> QED
  BY <1>1, <1>2 DEF Good

LEMMA EnqueueGood ==
  ASSUME NEW s, NEW a, NEW k, NEW d, Good(s, a, k, d), a.at = "produce",
         NEW t, t = AddPartition([s EXCEPT !.queued = @ \cup {<<s.txn, a.arg>>},
                                           !.produced = @ \cup {<<s.txn, a.arg>>}], a.arg),
         NEW b, b = [a EXCEPT !.at = "idle", !.arg = "none"]
  PROVE  Good(t, b, k, d)
<1>1. Frame(s) /\ Sound(s, OnWire(s.wire), a, k, d) /\ Ordered(s.wire)
  BY GoodFrame DEF Good
<1>2. PICK p : p = a.arg
  OBVIOUS
<1>3. PICK u : u = [s EXCEPT !.queued = s.queued \cup {<<s.txn, p>>}, !.produced = s.produced \cup {<<s.txn, p>>}]
  OBVIOUS
<1>4. t = AddPartition(u, p)
  BY <1>1, <1>2, <1>3 DEF Frame, Fields
<1>5. /\ Same(s, u, {"queued", "produced"}) /\ u.wire = s.wire /\ u.queued = s.queued \cup {<<s.txn, p>>}
      /\ u.produced = s.produced \cup {<<s.txn, p>>}
  BY <1>1, <1>3 DEF Same, Misc, Fields, Frame
<1>6. u.pending = s.pending /\ u.waitresp = s.waitresp /\ u.rktps = s.rktps /\ DOMAIN u = Fields /\ u.timers \subseteq Timers
  BY <1>5 DEF Same, Misc, Fields
<1>7. CASE p \in s.pending \cup s.waitresp \cup s.rktps
  <2>1. t = u
    BY <1>4, <1>6, <1>7 DEF AddPartition
  <2>2. t.pending = IF p \in s.pending \cup s.waitresp \cup s.rktps THEN s.pending ELSE s.pending \cup {p}
    BY <2>1, <1>6, <1>7
  <2>3. Same(s, t, {"queued", "produced", "pending"})
    BY <2>1, <1>5, SameMore
  <2>4. Sound(t, OnWire(s.wire), b, k, d)
    BY <2>1, <2>2, <2>3, <1>1, <1>2, <1>5, EnqueueSound
  <2> QED
    BY <2>1, <2>4, <1>1, <1>5 DEF Good
<1>8. CASE p \notin s.pending \cup s.waitresp \cup s.rktps
  <2>1. PICK x : x = IF u.pending = {} THEN u.timers \cup {"register"} ELSE u.timers
    OBVIOUS
  <2>2. t = [u EXCEPT !.pending = u.pending \cup {p}, !.timers = x]
    BY <2>1, <1>4, <1>6, <1>8 DEF AddPartition, Fields
  <2>3. x \subseteq Timers
    BY <2>1, <1>6 DEF Timers
  <2>4. Same(u, t, {"pending"}) /\ t.wire = u.wire /\ t.pending = s.pending \cup {p}
    <3>1. DOMAIN t = Fields /\ t.timers = x /\ t.wire = u.wire /\ t.pending = s.pending \cup {p}
      <4>1. PICK z : z = u.pending \cup {p}
        OBVIOUS
      <4>2. t = [u EXCEPT !.pending = z, !.timers = x]
        BY <4>1, <2>2
      <4>3. DOMAIN t = Fields /\ t.timers = x /\ t.wire = u.wire /\ t.pending = z
        BY <4>2, <1>6 DEF Fields
      <4> QED
        BY <4>1, <4>3, <1>6
    <3>2. \A f \in Fields \ ({"pending"} \cup Misc) : t[f] = u[f]
      <4> SUFFICES ASSUME NEW f \in Fields, f # "pending", f # "timers" PROVE t[f] = u[f]
        BY DEF Misc
      <4> QED
        BY <2>2, <1>6
    <3> QED
      BY <3>1, <3>2, <2>3 DEF Same
  <2>5. Same(s, t, {"queued", "produced", "pending"})
    <3>1. Same(s, u, {"queued", "produced", "pending"})
      BY <1>5, SameMore
    <3>2. Same(u, t, {"queued", "produced", "pending"})
      BY <2>4, SameMore
    <3> QED
      BY <3>1, <3>2, SameTrans
  <2>6. t.queued = u.queued /\ t.produced = u.produced
    BY <2>4 DEF Same, Misc, Fields
  <2>7. t.pending = IF p \in s.pending \cup s.waitresp \cup s.rktps THEN s.pending ELSE s.pending \cup {p}
    BY <2>4, <1>8
  <2>8. Sound(t, OnWire(s.wire), b, k, d)
    <3>1. t.queued = s.queued \cup {<<s.txn, p>>} /\ t.produced = s.produced \cup {<<s.txn, p>>}
      BY <2>6, <1>5
    <3>2. Sound(s, OnWire(s.wire), a, k, d)
      BY <1>1
    <3> QED
      BY <3>1, <3>2, <2>5, <2>7, <1>2, EnqueueSound, Zenon
  <2> QED
    BY <2>4, <2>8, <1>1, <1>5 DEF Good
<1> QED
  BY <1>7, <1>8

-----------------------------------------------------------------------------
(* Ops of the application.  s0 is the client before the op is taken from   *)
(* the queue, s the one its handler begins with.                           *)

OpReady(s0, s, W, a, k, d) ==
  /\ Sound(s0, W, a, k, d) /\ Ordered(s0.wire) /\ W = OnWire(s0.wire)
  /\ Same(s0, s, {"ops"}) /\ s.wire = s0.wire /\ s.ops = <<>> /\ Frame(s)
  /\ ~s0.fatal /\ a.at = "wait" /\ s0.ops = <<PhaseOf(a)>> /\ ~s0.api.has_result

\* The fields an op's guards read.
SameView(s0, s) ==
  /\ s.txn_state = s0.txn_state /\ s.idemp_state = s0.idemp_state /\ s.api = s0.api /\ s.fatal = s0.fatal
  /\ s.bump = s0.bump /\ s.req_cnt = s0.req_cnt /\ s.dr_fails = s0.dr_fails /\ s.txn = s0.txn
  /\ s.rktps = s0.rktps /\ s.flight = s0.flight /\ s.txn_err = s0.txn_err

LEMMA OpView ==
  ASSUME NEW s0, NEW s, NEW W, NEW a, NEW k, NEW d, OpReady(s0, s, W, a, k, d)
  PROVE  /\ SameView(s0, s) /\ Sound(s0, W, a, k, d) /\ ClientOK(s0) /\ StatesOK(s0) /\ ListsOK(s0, W)
         /\ WireOK(s0, W) /\ QueueOK(s0, a) /\ CountOK(s0, W, k) /\ AppOK(a)
         /\ Frame(s) /\ s.fatal = FALSE /\ s0.fatal = FALSE
<1>1. SameView(s0, s)
  BY DEF OpReady, Same, Misc, Fields, SameView
<1>2. /\ Sound(s0, W, a, k, d) /\ ClientOK(s0) /\ StatesOK(s0) /\ ListsOK(s0, W) /\ WireOK(s0, W)
      /\ QueueOK(s0, a) /\ CountOK(s0, W, k) /\ AppOK(a) /\ ~s0.fatal /\ Frame(s)
  BY DEF OpReady, Sound
<1>3. s0.fatal = FALSE
  BY <1>2 DEF ClientOK
<1> QED
  BY <1>1, <1>2, <1>3 DEF SameView

\* The states in which an op of a call is served.
OpStates(s, W, a) ==
  /\ s.txn_state \in TxnStates \ {"FATAL_ERROR", "COMMITTING_TRANSACTION", "ABORTING_TRANSACTION"}
  /\ ~Reacquiring(s)
  /\ s.txn_state = "WAIT_PID" => a.api = "init" /\ a.stage = 1
  /\ s.txn_state = "READY_NOT_ACKED" => a.api = "init" /\ a.stage = 2
  /\ s.txn_state = "COMMIT_NOT_ACKED" <=> a.api = "commit" /\ a.stage = 4
  /\ s.txn_state = "ABORT_NOT_ACKED" <=> a.api = "abort" /\ a.stage = 4
  /\ a.api = "begin" => s.txn < MaxTxns
  /\ ~Has(W, "add_offsets") /\ s.api.name = a.api /\ s.api.name # "none"

LEMMA OpStatesAre ==
  ASSUME NEW s0, NEW s, NEW W, NEW a, NEW k, NEW d, OpReady(s0, s, W, a, k, d)
  PROVE  OpStates(s0, W, a)
<1>1. /\ ClientOK(s0) /\ StatesOK(s0) /\ AppOK(a) /\ SlotOK(s0, a) /\ CallOK(s0, W, a) /\ EndOK(s0, a)
      /\ ~s0.fatal /\ a.at = "wait" /\ s0.ops = <<PhaseOf(a)>> /\ ~s0.api.has_result
  BY DEF OpReady, Sound
<1>2. s0.ops # <<>>
  BY <1>1
<1>3. InCall(a) /\ a.api \in Apis /\ s0.api.name = a.api
  BY <1>1 DEF InCall, AppOK, SlotOK
<1>4. s0.txn_state \in TxnStates \ {"FATAL_ERROR", "COMMITTING_TRANSACTION", "ABORTING_TRANSACTION"}
  BY <1>1, <1>2 DEF ClientOK, StatesOK, CallOK
<1>5. ~Reacquiring(s0) /\ ~Has(W, "add_offsets")
  BY <1>1, <1>2 DEF CallOK
<1>6. s0.txn_state = "WAIT_PID" => a.api = "init" /\ a.stage = 1
  BY <1>1, <1>3 DEF CallOK, AppOK
<1>7. s0.txn_state = "READY_NOT_ACKED" => a.api = "init" /\ a.stage = 2
  BY <1>1, <1>3 DEF CallOK
<1>8. s0.txn_state = "COMMIT_NOT_ACKED" => a.api = "commit" /\ a.stage = 4
  BY <1>1, <1>2 DEF EndOK, At
<1>9. s0.txn_state = "ABORT_NOT_ACKED" => a.api = "abort" /\ a.stage = 4
  BY <1>1, <1>2 DEF EndOK, At
<1>10. a.stage = 4 => \/ s0.txn_state = "COMMIT_NOT_ACKED" /\ a.api = "commit"
                      \/ s0.txn_state = "ABORT_NOT_ACKED" /\ a.api = "abort"
  BY <1>1, <1>2 DEF EndOK
<1>11. a.api = "begin" => s0.txn < MaxTxns
  <2>1. a.api = "begin" => a.stage = 1
    BY <1>1, <1>3 DEF AppOK, Stages
  <2> QED
    BY <2>1, <1>1, <1>2 DEF EndOK, At
<1>12. s0.api.name # "none"
  BY <1>3 DEF Apis
<1> QED
  BY <1>3, <1>4, <1>5, <1>6, <1>7, <1>8, <1>9, <1>10, <1>11, <1>12 DEF OpStates

\* An op whose result is set at once.
LEMMA OpResultX ==
  ASSUME NEW s0, NEW s, NEW W, NEW a, NEW k, NEW d, OpReady(s0, s, W, a, k, d), NEW e \in Errors,
         s0.txn_state \notin {"WAIT_PID", "READY_NOT_ACKED", "COMMIT_NOT_ACKED", "ABORT_NOT_ACKED"},
         e = "none" => ~(a.api \in {"commit", "abort"} /\ a.stage = 3),
         NEW t, t = SetResult(s, e)
  PROVE  Sound(t, W, a, k, d) /\ Same(s, t, {"api"}) /\ Wired(s, t) /\ t.api = Answered(s.api, e)
<1>1. SameView(s0, s) /\ Frame(s)
  BY OpView
<1>2. Same(s, t, {"api"}) /\ t.wire = s.wire /\ t.api = Answered(s.api, e)
  BY <1>1, SetResultIs
<1>3. Same(s0, s, {"ops"}) /\ s.ops = <<>> /\ Sound(s0, W, a, k, d) /\ ~s0.fatal /\ a.at = "wait"
      /\ s0.ops = <<PhaseOf(a)>> /\ ~s0.api.has_result
  BY DEF OpReady
<1>4. Same(s0, t, {"ops", "api"})
  <2>1. Same(s0, s, {"ops", "api"})
    BY <1>3, SameMore
  <2>2. Same(s, t, {"ops", "api"})
    BY <1>2, SameMore
  <2> QED
    BY <2>1, <2>2, SameTrans
<1>5. t.ops = <<>> /\ t.api = Answered(s0.api, e)
  BY <1>1, <1>2, <1>3 DEF Same, Misc, Fields, SameView
<1>6. Sound(t, W, a, k, d)
  BY <1>3, <1>4, <1>5, ResultSound
<1> QED
  BY <1>2, <1>6 DEF Wired

LEMMA OpResult ==
  ASSUME NEW s0, NEW s, NEW W, NEW a, NEW k, NEW d, OpReady(s0, s, W, a, k, d), NEW e \in Errors,
         s0.txn_state \notin {"WAIT_PID", "READY_NOT_ACKED", "COMMIT_NOT_ACKED", "ABORT_NOT_ACKED"},
         e = "none" => ~(a.api \in {"commit", "abort"} /\ a.stage = 3),
         NEW t, t = SetResult(s, e)
  PROVE  Good(t, a, k, d)
<1>1. Sound(t, W, a, k, d) /\ Wired(s, t)
  BY OpResultX
<1> QED
  BY <1>1 DEF OpReady, Good, Wired

\* The op fails the transaction.
LEMMA OpAbortable ==
  ASSUME NEW s0, NEW s, NEW W, NEW a, NEW k, NEW d, OpReady(s0, s, W, a, k, d),
         s0.txn_state \in {"BEGIN_COMMIT", "ABORTABLE_ERROR"},
         NEW t, t = SetResult(SetAbortableError(s, FALSE), "abortable")
  PROVE  Good(t, a, k, d)
<1>1. SameView(s0, s) /\ Frame(s) /\ s.fatal = FALSE
  BY OpView
<1>2. PICK x : x = SetResult(s, "abortable")
  OBVIOUS
<1>3. "abortable" \in Errors /\ "abortable" # "none" /\ FALSE \in BOOLEAN
  BY DEF Errors
<1>4. Sound(x, W, a, k, d) /\ Same(s, x, {"api"}) /\ x.api = Answered(s.api, "abortable")
  BY <1>2, <1>3, OpResultX
<1>5. Failable(x)
  BY <1>1, <1>4 DEF Failable, Same, Misc, Fields, SameView
<1>6. Sound(t, W, a, k, d) /\ Wired(s, t)
  BY <1>1, <1>3, <1>4, <1>5, AbortableResult
<1> QED
  BY <1>6 DEF OpReady, Good, Wired

\* The op changes the transaction's state, and its result is set at once.
Moved(s0, s, t, new) ==
  /\ Same(s0, t, {"txn_state", "may_enq", "ops", "api"}) /\ t.wire = s.wire /\ t.ops = <<>>
  /\ t.txn_state = new /\ t.may_enq = FALSE /\ t.api = Answered(s0.api, "none")

LEMMA OpMoves ==
  ASSUME NEW s0, NEW s, NEW W, NEW a, NEW k, NEW d, OpReady(s0, s, W, a, k, d), NEW new \in TxnStates,
         new # "IN_TRANSACTION", Enters(s, new), NEW t, t = SetResult(SetState(s, new), "none")
  PROVE  Moved(s0, s, t, new)
<1>1. SameView(s0, s) /\ Frame(s)
  BY OpView
<1>2. PICK u : u = SetState(s, new)
  OBVIOUS
<1>3. Entered(s, u, new)
  BY <1>1, <1>2, SetStateIs
<1>4. Same(s, u, {"txn_state", "may_enq"}) /\ u.wire = s.wire /\ u.txn_state = new /\ u.may_enq = FALSE
  BY <1>3 DEF Entered
<1>5. Frame(u) /\ u.api = s0.api /\ u.ops = s.ops
  BY <1>1, <1>4 DEF Frame, Same, Misc, Fields, SameView
<1>6. t = SetResult(u, "none")
  BY <1>2
<1>7. Same(u, t, {"api"}) /\ t.wire = u.wire /\ t.api = Answered(u.api, "none")
  BY <1>5, <1>6, SetResultIs, Zenon
<1>8. Same(s0, t, {"txn_state", "may_enq", "ops", "api"})
  <2>1. Same(s0, s, {"txn_state", "may_enq", "ops", "api"})
    BY SameMore DEF OpReady
  <2>2. Same(s, u, {"txn_state", "may_enq", "ops", "api"})
    BY <1>4, SameMore
  <2>3. Same(u, t, {"txn_state", "may_enq", "ops", "api"})
    BY <1>7, SameMore
  <2>4. Same(s0, u, {"txn_state", "may_enq", "ops", "api"})
    BY <2>1, <2>2, SameTrans
  <2> QED
    BY <2>3, <2>4, SameTrans
<1>9. t.txn_state = new /\ t.may_enq = FALSE /\ t.ops = <<>> /\ t.api = Answered(s0.api, "none") /\ t.wire = s.wire
  BY <1>4, <1>5, <1>7 DEF Same, Misc, Fields, OpReady
<1> QED
  BY <1>8, <1>9 DEF Moved

LEMMA OpInitGood ==
  ASSUME NEW s0, NEW s, NEW W, NEW a, NEW k, NEW d, OpReady(s0, s, W, a, k, d),
         a.api = "init", a.stage = 1, NEW t, t = OpInitTransactions(s)
  PROVE  Good(t, a, k, d)
<1>1. /\ SameView(s0, s) /\ Frame(s) /\ WireOK(s0, W) /\ StatesOK(s0) /\ s0.fatal = FALSE /\ s.fatal = FALSE
      /\ OpStates(s0, W, a)
  BY OpView, OpStatesAre
<1>2. s.txn_state = s0.txn_state /\ s.idemp_state = s0.idemp_state /\ s0.txn_state \in TxnStates
  BY <1>1 DEF SameView, OpStates
<1>3. CASE s0.txn_state \notin {"INIT", "WAIT_PID"}
  <2>1. s.txn_state \notin {"INIT", "WAIT_PID", "READY_NOT_ACKED"}
    BY <1>1, <1>2, <1>3 DEF OpStates
  <2>2. PICK e : e = RequireState(s, {"INIT", "WAIT_PID", "READY_NOT_ACKED"})
    OBVIOUS
  <2>3. e \in Errors /\ e # "none"
    BY <2>1, <2>2 DEF RequireState, Errors
  <2>4. t = SetResult(s, e)
    BY <2>2, <2>3 DEF OpInitTransactions
  <2>5. s0.txn_state \notin {"WAIT_PID", "READY_NOT_ACKED", "COMMIT_NOT_ACKED", "ABORT_NOT_ACKED"}
    BY <2>1, <1>1, <1>2 DEF OpStates
  <2> QED
    BY <2>3, <2>4, <2>5, OpResult
<1>4. CASE s0.txn_state \in {"INIT", "WAIT_PID"}
  <2>1. PICK w : w = SetState(s, "WAIT_PID")
    OBVIOUS
  <2>2. PICK u : u = IF w.idemp_state = "WAIT_PID" THEN w ELSE IdempSetState(w, "REQ_PID")
    OBVIOUS
  <2>3. t = Arm(u, "pid")
    <3>1. RequireState(s, {"INIT", "WAIT_PID", "READY_NOT_ACKED"}) = "none" /\ s.txn_state # "READY_NOT_ACKED"
      BY <1>2, <1>4 DEF RequireState
    <3> QED
      BY <3>1, <2>1, <2>2 DEF OpInitTransactions
  <2>4. /\ Same(s, w, {"txn_state", "may_enq"}) /\ w.wire = s.wire /\ w.txn_state = "WAIT_PID" /\ w.may_enq = FALSE
        /\ w.idemp_state = s0.idemp_state /\ w.fatal = FALSE /\ Frame(w)
    <3>1. /\ Same(s, w, {"txn_state", "may_enq"}) /\ w.wire = s.wire /\ w.txn_state = "WAIT_PID" /\ w.may_enq = FALSE
      <4>1. CASE s0.txn_state = "INIT"
        <5>1. Enters(s, "WAIT_PID")
          BY <4>1, <1>2 DEF Enters, Predecessors, Ignores
        <5>2. Entered(s, w, "WAIT_PID")
          BY <5>1, <2>1, <1>1, SetStateIs
        <5> QED
          BY <5>2 DEF Entered
      <4>2. CASE s0.txn_state = "WAIT_PID"
        <5>1. w = s
          BY <4>2, <2>1, <1>2 DEF SetState
        <5>2. s.may_enq = FALSE
          BY <4>2, <1>1, <1>2 DEF Frame
        <5> QED
          BY <5>1, <5>2, <4>2, <1>1, <1>2 DEF Same, Frame
      <4> QED
        BY <4>1, <4>2, <1>4
    <3>2. w.idemp_state = s0.idemp_state /\ w.fatal = FALSE
      BY <3>1, <1>1, <1>2 DEF Same, Misc, Fields
    <3>3. Frame(w)
      BY <3>1, <1>1 DEF Frame, Same, Misc, Fields, TxnStates
    <3> QED
      BY <3>1, <3>2, <3>3
  <2>5. /\ Same(w, u, {"idemp_state"}) /\ u.wire = w.wire
        /\ u.idemp_state = "REQ_PID" \/ (u.idemp_state = "WAIT_PID" /\ s0.idemp_state = "WAIT_PID")
        /\ u.idemp_state = "REQ_PID" => s0.idemp_state # "WAIT_PID"
    <3>1. CASE w.idemp_state = "WAIT_PID"
      BY <3>1, <2>2, <2>4 DEF Same, Frame
    <3>2. CASE w.idemp_state # "WAIT_PID"
      <4>1. Idemp(w, u, "REQ_PID")
        BY <3>2, <2>2, <2>4, IdempSetStateIs
      <4> QED
        BY <4>1, <3>2, <2>4 DEF Idemp
    <3> QED
      BY <3>1, <3>2
  <2>6. Frame(u)
    BY <2>4, <2>5, FrameKept
  <2>7. Same(u, t, {}) /\ t.wire = u.wire
    BY <2>3, <2>6, ArmIs DEF Timers
  <2>8. Same(s0, t, {"txn_state", "idemp_state", "may_enq", "ops"})
    <3>1. Same(s0, s, {"txn_state", "idemp_state", "may_enq", "ops"})
      BY SameMore DEF OpReady
    <3>2. Same(s, w, {"txn_state", "idemp_state", "may_enq", "ops"})
      BY <2>4, SameMore
    <3>3. Same(w, u, {"txn_state", "idemp_state", "may_enq", "ops"})
      BY <2>5, SameMore
    <3>4. Same(u, t, {"txn_state", "idemp_state", "may_enq", "ops"})
      BY <2>7, SameMore
    <3>5. Same(s0, w, {"txn_state", "idemp_state", "may_enq", "ops"})
      BY <3>1, <3>2, SameTrans
    <3>6. Same(s0, u, {"txn_state", "idemp_state", "may_enq", "ops"})
      BY <3>3, <3>5, SameTrans
    <3> QED
      BY <3>4, <3>6, SameTrans
  <2>9. t.txn_state = "WAIT_PID" /\ t.may_enq = FALSE /\ t.ops = <<>> /\ t.idemp_state = u.idemp_state /\ t.wire = s0.wire
    BY <2>4, <2>5, <2>7 DEF Same, Misc, Fields, OpReady
  <2>10. t.idemp_state = "REQ_PID" => W = {}
    <3>1. CASE s0.txn_state = "WAIT_PID"
      BY <3>1, <2>5, <2>9, <1>1 DEF WireOK
    <3>2. CASE s0.txn_state = "INIT"
      BY <3>2, <1>1 DEF WireOK, Only, Allowed, Reacquiring, Aborting
    <3> QED
      BY <3>1, <3>2, <1>4
  <2>11. Sound(s0, W, a, k, d) /\ ~s0.fatal /\ a.at = "wait" /\ s0.ops = <<PhaseOf(a)>> /\ ~s0.api.has_result
         /\ Ordered(s0.wire) /\ W = OnWire(s0.wire)
    BY DEF OpReady
  <2>12. t.idemp_state = "REQ_PID" \/ (t.idemp_state = "WAIT_PID" /\ s0.idemp_state = "WAIT_PID")
    BY <2>5, <2>9
  <2>13. PICK V : V = W
    OBVIOUS
  <2>14. Sound(t, V, a, k, d)
    BY <2>8, <2>9, <2>10, <2>11, <2>12, <2>13, <1>4, InitSound
  <2> QED
    BY <2>9, <2>11, <2>13, <2>14 DEF Good
<1> QED
  BY <1>3, <1>4

LEMMA OpInitAckGood ==
  ASSUME NEW s0, NEW s, NEW W, NEW a, NEW k, NEW d, OpReady(s0, s, W, a, k, d),
         a.api = "init", a.stage = 2, NEW t, t = OpAckInitTransactions(s)
  PROVE  Good(t, a, k, d)
<1>1. SameView(s0, s) /\ OpStates(s0, W, a) /\ s0.fatal = FALSE
  BY OpView, OpStatesAre
<1>2. s.txn_state = s0.txn_state /\ s0.txn_state \in TxnStates
  BY <1>1 DEF SameView, OpStates
<1>3. CASE s0.txn_state # "READY_NOT_ACKED"
  <2>1. PICK e : e = RequireState(s, {"READY_NOT_ACKED"})
    OBVIOUS
  <2>2. e \in Errors /\ e # "none"
    BY <2>1, <1>2, <1>3 DEF RequireState, Errors
  <2>3. t = SetResult(s, e)
    BY <2>1, <2>2 DEF OpAckInitTransactions
  <2>4. s0.txn_state \notin {"WAIT_PID", "READY_NOT_ACKED", "COMMIT_NOT_ACKED", "ABORT_NOT_ACKED"}
    BY <1>1, <1>3 DEF OpStates
  <2> QED
    BY <2>2, <2>3, <2>4, OpResult
<1>4. CASE s0.txn_state = "READY_NOT_ACKED"
  <2>1. RequireState(s, {"READY_NOT_ACKED"}) = "none"
    BY <1>2, <1>4 DEF RequireState
  <2>2. t = SetResult(SetState(s, "READY"), "none")
    BY <2>1 DEF OpAckInitTransactions
  <2>3. Enters(s, "READY") /\ "READY" \in TxnStates /\ "READY" # "IN_TRANSACTION"
    BY <1>2, <1>4 DEF Enters, Predecessors, Ignores, TxnStates
  <2>4. Moved(s0, s, t, "READY")
    BY <2>2, <2>3, OpMoves
  <2>5. Sound(s0, W, a, k, d) /\ ~s0.fatal /\ a.at = "wait" /\ s0.ops = <<PhaseOf(a)>> /\ ~s0.api.has_result
        /\ Ordered(s0.wire) /\ W = OnWire(s0.wire) /\ s.wire = s0.wire
    BY DEF OpReady
  <2>6. /\ Same(s0, t, {"txn_state", "may_enq", "ops", "api"}) /\ t.wire = s.wire /\ t.ops = <<>>
        /\ t.txn_state = "READY" /\ t.may_enq = FALSE /\ t.api = Answered(s0.api, "none")
    BY <2>4 DEF Moved
  <2>7. Sound(t, W, a, k, d)
    BY <2>5, <2>6, <1>4, InitAckSound
  <2> QED
    BY <2>5, <2>6, <2>7 DEF Good
<1> QED
  BY <1>3, <1>4

LEMMA OpBeginGood ==
  ASSUME NEW s0, NEW s, NEW W, NEW a, NEW k, NEW d, OpReady(s0, s, W, a, k, d),
         a.api = "begin", a.stage = 1, NEW t, t = OpBeginTransaction(s)
  PROVE  Good(t, a, k, d)
<1>1. /\ SameView(s0, s) /\ Frame(s) /\ OpStates(s0, W, a) /\ s0.fatal = FALSE /\ ListsOK(s0, W) /\ s0.asserts = TRUE
  BY OpView, OpStatesAre DEF OpReady, Sound, ClientOK
<1>2. s.txn_state = s0.txn_state /\ s0.txn_state \in TxnStates /\ s.rktps = s0.rktps /\ s.req_cnt = s0.req_cnt
      /\ s.txn = s0.txn
  BY <1>1 DEF SameView, OpStates
<1>3. CASE s0.txn_state # "READY"
  <2>1. PICK e : e = RequireState(s, {"READY"})
    OBVIOUS
  <2>2. e \in Errors /\ e # "none"
    BY <2>1, <1>2, <1>3 DEF RequireState, Errors
  <2>3. t = SetResult(s, e)
    BY <2>1, <2>2 DEF OpBeginTransaction
  <2>4. s0.txn_state \notin {"WAIT_PID", "READY_NOT_ACKED", "COMMIT_NOT_ACKED", "ABORT_NOT_ACKED"}
    BY <1>1 DEF OpStates
  <2> QED
    BY <2>2, <2>3, <2>4, OpResult
<1>4. CASE s0.txn_state = "READY"
  <2>1. RequireState(s, {"READY"}) = "none"
    BY <1>2, <1>4 DEF RequireState
  <2>2. PICK b : b = SetState(s, "IN_TRANSACTION")
    OBVIOUS
  <2>3. Enters(s, "IN_TRANSACTION")
    BY <1>2, <1>4 DEF Enters, Predecessors, Ignores
  <2>4. Entered(s, b, "IN_TRANSACTION")
    BY <2>2, <2>3, <1>1, SetStateIs
  <2>5. Same(s, b, {"txn_state", "may_enq"}) /\ b.wire = s.wire /\ b.txn_state = "IN_TRANSACTION" /\ b.may_enq = TRUE
    BY <2>4 DEF Entered
  <2>6. s.rktps = {} /\ s.req_cnt = 0
    BY <1>1, <1>2, <1>4 DEF ListsOK, Outside
  <2>7. b.asserts = TRUE /\ b.txn = s0.txn /\ b.api = s0.api /\ b.ops = <<>> /\ Frame(b) /\ s.asserts = TRUE
    <3>1. s.asserts = TRUE
      BY <1>1 DEF OpReady, Same, Misc, Fields
    <3>2. b.asserts = s.asserts /\ b.txn = s.txn /\ b.api = s.api /\ b.ops = s.ops
      BY <2>5 DEF Same, Misc, Fields
    <3>3. Frame(b)
      BY <2>5, <1>1 DEF Frame, Same, Misc, Fields, TxnStates
    <3> QED
      BY <3>1, <3>2, <3>3, <1>1 DEF SameView, OpReady
  <2>8. PICK u : u = [b EXCEPT !.dr_fails = FALSE, !.txn_err = FALSE, !.txn = s0.txn + 1, !.asserts = TRUE]
    OBVIOUS
  <2>9. t = SetResult(u, "none")
    <3>1. (b.asserts /\ s.rktps = {} /\ s.req_cnt = 0) = TRUE
      BY <2>6, <2>7
    <3>2. u = [b EXCEPT !.dr_fails = FALSE, !.txn_err = FALSE, !.txn = b.txn + 1,
                        !.asserts = b.asserts /\ s.rktps = {} /\ s.req_cnt = 0]
      BY <3>1, <2>7, <2>8
    <3> QED
      BY <3>2, <2>1, <2>2, <2>7 DEF OpBeginTransaction, Frame, Fields
  <2>10. /\ Same(b, u, {"dr_fails", "txn_err", "txn"}) /\ u.wire = b.wire /\ u.dr_fails = FALSE /\ u.txn_err = FALSE
         /\ u.txn = s0.txn + 1
    <3>1. /\ DOMAIN u = Fields /\ u.timers = b.timers /\ u.wire = b.wire /\ u.dr_fails = FALSE /\ u.txn_err = FALSE
          /\ u.txn = s0.txn + 1 /\ u.asserts = TRUE
      BY <2>7, <2>8 DEF Frame, Fields
    <3>2. \A f \in Fields \ ({"dr_fails", "txn_err", "txn"} \cup Misc) : u[f] = b[f]
      <4> SUFFICES ASSUME NEW f \in Fields, f \notin {"dr_fails", "txn_err", "txn"} PROVE u[f] = b[f]
        OBVIOUS
      <4>1. CASE f = "asserts"
        BY <4>1, <3>1, <2>7
      <4>2. CASE f # "asserts"
        BY <4>2, <2>7, <2>8 DEF Frame
      <4> QED
        BY <4>1, <4>2
    <3> QED
      BY <3>1, <3>2, <2>7 DEF Same, Frame
  <2>11. Frame(u) /\ u.api = s0.api /\ u.txn_state = "IN_TRANSACTION" /\ u.may_enq = TRUE
    <3>1. Frame(u) /\ u.txn_state = b.txn_state /\ u.may_enq = b.may_enq /\ u.api = b.api
      BY <2>7, <2>10, FrameKept
    <3> QED
      BY <3>1, <2>5, <2>7
  <2>12. Same(u, t, {"api"}) /\ t.wire = u.wire /\ t.api = Answered(u.api, "none")
    BY <2>9, <2>11, SetResultIs, Zenon
  <2> DEFINE C == {"txn_state", "dr_fails", "txn_err", "may_enq", "txn", "ops", "api"}
  <2>13. Same(s0, t, C)
    <3>1. Same(s0, s, C)
      BY SameMore DEF OpReady
    <3>2. Same(s, b, C)
      BY <2>5, SameMore
    <3>3. Same(b, u, C)
      BY <2>10, SameMore
    <3>4. Same(u, t, C)
      BY <2>12, SameMore
    <3> HIDE DEF C
    <3>5. Same(s0, b, C)
      BY <3>1, <3>2, SameTrans
    <3>6. Same(s0, u, C)
      BY <3>3, <3>5, SameTrans
    <3> QED
      BY <3>4, <3>6, SameTrans
  <2>14. /\ t.txn_state = "IN_TRANSACTION" /\ t.may_enq = TRUE /\ t.dr_fails = FALSE /\ t.txn_err = FALSE
         /\ t.txn = s0.txn + 1 /\ t.api = Answered(s0.api, "none")
    BY <2>10, <2>11, <2>12 DEF Same, Misc, Fields
  <2>15. t.ops = <<>> /\ t.wire = s0.wire
    BY <2>5, <2>7, <2>10, <2>12 DEF Same, Misc, Fields, OpReady
  <2>16. Sound(s0, W, a, k, d) /\ ~s0.fatal /\ a.at = "wait" /\ s0.ops = <<PhaseOf(a)>> /\ ~s0.api.has_result
         /\ Ordered(s0.wire) /\ W = OnWire(s0.wire)
    BY DEF OpReady
  <2>17. Sound(t, W, a, k, d)
    BY <2>13, <2>14, <2>15, <2>16, <1>4, BeginSound
  <2> QED
    BY <2>15, <2>16, <2>17 DEF Good
<1> QED
  BY <1>3, <1>4

LEMMA OpSendOffsetsGood ==
  ASSUME NEW s0, NEW s, NEW W, NEW a, NEW k, NEW d, OpReady(s0, s, W, a, k, d),
         a.api = "offsets", a.stage = 1, NEW t, t = OpSendOffsets(s)
  PROVE  Good(t, a, k, d)
<1>1. /\ SameView(s0, s) /\ Frame(s) /\ OpStates(s0, W, a) /\ s0.fatal = FALSE /\ WireOK(s0, W)
  BY OpView, OpStatesAre
<1>2. /\ s.txn_state = s0.txn_state /\ s0.txn_state \in TxnStates /\ s.req_cnt = s0.req_cnt
      /\ s0.txn_state \notin {"WAIT_PID", "READY_NOT_ACKED", "COMMIT_NOT_ACKED", "ABORT_NOT_ACKED"}
  BY <1>1 DEF SameView, OpStates
<1>3. CASE s0.txn_state # "IN_TRANSACTION"
  <2>1. PICK e : e = RequireState(s, {"IN_TRANSACTION"})
    OBVIOUS
  <2>2. e \in Errors /\ e # "none"
    BY <2>1, <1>2, <1>3 DEF RequireState, Errors
  <2>3. t = SetResult(s, e)
    BY <2>1, <2>2 DEF OpSendOffsets
  <2> QED
    BY <2>2, <2>3, <1>2, OpResult
<1>4. CASE s0.txn_state = "IN_TRANSACTION" /\ ~PidValid(s)
  <2>1. RequireState(s, {"IN_TRANSACTION"}) = "none"
    BY <1>2, <1>4 DEF RequireState
  <2>2. t = SetResult(s, "retriable")
    BY <2>1, <1>4 DEF OpSendOffsets
  <2>3. "retriable" \in Errors
    BY DEF Errors
  <2> QED
    BY <2>2, <2>3, <1>2, OpResult
<1>5. CASE s0.txn_state = "IN_TRANSACTION" /\ PidValid(s)
  <2>1. RequireState(s, {"IN_TRANSACTION"}) = "none"
    BY <1>2, <1>5 DEF RequireState
  <2>2. PICK q : q = Request("add_offsets", {OFF})
    OBVIOUS
  <2>3. PICK u : u = Send(s, q)
    OBVIOUS
  <2>4. t = [u EXCEPT !.req_cnt = @ + 1]
    BY <2>1, <2>2, <2>3, <1>5 DEF OpSendOffsets
  <2>5. Same(s, u, {}) /\ u.wire = Append(s.wire, q) /\ DOMAIN u = Fields
    BY <2>3, <1>1 DEF Send, Same, Misc, Fields, Frame
  <2>6. u.req_cnt = s0.req_cnt
    BY <2>5, <1>2 DEF Same, Misc, Fields
  <2>7. Same(u, t, {"req_cnt"}) /\ t.wire = u.wire /\ t.req_cnt = s0.req_cnt + 1
    BY <2>4, <2>5, <2>6 DEF Same, Misc, Fields
  <2>8. Same(s0, t, {"req_cnt", "ops"})
    <3>1. Same(s0, s, {"req_cnt", "ops"})
      BY SameMore DEF OpReady
    <3>2. Same(s, u, {"req_cnt", "ops"})
      BY <2>5, SameMore
    <3>3. Same(u, t, {"req_cnt", "ops"})
      BY <2>7, SameMore
    <3>4. Same(s0, u, {"req_cnt", "ops"})
      BY <3>1, <3>2, SameTrans
    <3> QED
      BY <3>3, <3>4, SameTrans
  <2>9. t.ops = <<>>
    BY <2>5, <2>7 DEF Same, Misc, Fields, OpReady
  <2>10. Sound(s0, W, a, k, d) /\ ~s0.fatal /\ a.at = "wait" /\ s0.ops = <<PhaseOf(a)>> /\ ~s0.api.has_result
         /\ Ordered(s0.wire) /\ W = OnWire(s0.wire) /\ s.wire = s0.wire
    BY DEF OpReady
  <2>11. PICK V : V = W \cup {q}
    OBVIOUS
  <2>12. Sound(t, V, a, k, d)
    BY <2>2, <2>7, <2>8, <2>9, <2>10, <2>11, <1>5, OffsetsSendSound
  <2>13. q \in Requests /\ q.reply = "none" /\ q.kind = "add_offsets"
    BY <2>2 DEF Request, Requests, Kinds, Replies
  <2>14. \A r \in W : r.kind # q.kind /\ r.kind \notin Last
    <3>1. ~Has(W, "add_offsets")
      BY <1>1 DEF OpStates
    <3> QED
      BY <3>1, <2>13, <1>1, <1>5 DEF WireOK, Only, Allowed, Last, Has, Reacquiring, Aborting
  <2>15. Ordered(t.wire) /\ OnWire(t.wire) = V
    BY <2>5, <2>7, <2>10, <2>11, <2>13, <2>14, WireAppend
  <2> QED
    BY <2>12, <2>15 DEF Good
<1> QED
  BY <1>3, <1>4, <1>5

LEMMA OpBeginCommitGood ==
  ASSUME NEW s0, NEW s, NEW W, NEW a, NEW k, NEW d, OpReady(s0, s, W, a, k, d),
         a.api = "commit", a.stage = 1, NEW t, t = OpBeginCommit(s)
  PROVE  Good(t, a, k, d)
<1>1. SameView(s0, s) /\ OpStates(s0, W, a) /\ s0.fatal = FALSE
  BY OpView, OpStatesAre
<1>2. /\ s.txn_state = s0.txn_state /\ s0.txn_state \in TxnStates
      /\ s0.txn_state \notin {"WAIT_PID", "READY_NOT_ACKED", "COMMIT_NOT_ACKED", "ABORT_NOT_ACKED"}
  BY <1>1 DEF SameView, OpStates
<1>3. CASE s0.txn_state # "IN_TRANSACTION"
  <2>1. PICK e : e = RequireState(s, {"IN_TRANSACTION", "BEGIN_COMMIT", "COMMITTING_TRANSACTION", "COMMIT_NOT_ACKED"})
    OBVIOUS
  <2>2. e \in Errors
    BY <2>1 DEF RequireState, Errors
  <2>3. t = SetResult(s, e)
    BY <2>1, <1>2, <1>3 DEF OpBeginCommit
  <2> QED
    BY <2>2, <2>3, <1>2, OpResult
<1>4. CASE s0.txn_state = "IN_TRANSACTION"
  <2>1. RequireState(s, {"IN_TRANSACTION", "BEGIN_COMMIT", "COMMITTING_TRANSACTION", "COMMIT_NOT_ACKED"}) = "none"
    BY <1>2, <1>4 DEF RequireState
  <2>2. t = SetResult(SetState(s, "BEGIN_COMMIT"), "none")
    BY <2>1, <1>2, <1>4 DEF OpBeginCommit
  <2>3. Enters(s, "BEGIN_COMMIT") /\ "BEGIN_COMMIT" \in TxnStates /\ "BEGIN_COMMIT" # "IN_TRANSACTION"
    BY <1>2, <1>4 DEF Enters, Predecessors, Ignores, TxnStates
  <2>4. Moved(s0, s, t, "BEGIN_COMMIT")
    BY <2>2, <2>3, OpMoves
  <2>5. Sound(s0, W, a, k, d) /\ ~s0.fatal /\ a.at = "wait" /\ s0.ops = <<PhaseOf(a)>> /\ ~s0.api.has_result
        /\ Ordered(s0.wire) /\ W = OnWire(s0.wire) /\ s.wire = s0.wire
    BY DEF OpReady
  <2>6. /\ Same(s0, t, {"txn_state", "may_enq", "ops", "api"}) /\ t.wire = s.wire /\ t.ops = <<>>
        /\ t.txn_state = "BEGIN_COMMIT" /\ t.may_enq = FALSE /\ t.api = Answered(s0.api, "none")
    BY <2>4 DEF Moved
  <2>7. Sound(t, W, a, k, d)
    BY <2>5, <2>6, <1>4, BeginCommitSound
  <2> QED
    BY <2>5, <2>6, <2>7 DEF Good
<1> QED
  BY <1>3, <1>4

\* A request that ends the transaction is sent.
Ends(s0, s, t, q, new) ==
  /\ Same(s0, t, {"txn_state", "may_enq", "ops"}) /\ t.wire = Append(s.wire, q) /\ t.ops = <<>>
  /\ t.txn_state = new /\ t.may_enq = FALSE

LEMMA OpEnds ==
  ASSUME NEW s0, NEW s, NEW W, NEW a, NEW k, NEW d, OpReady(s0, s, W, a, k, d), NEW q,
         NEW new \in {"COMMITTING_TRANSACTION", "ABORTING_TRANSACTION"}, Enters(s, new),
         NEW t, t = SetState(Send(s, q), new)
  PROVE  Ends(s0, s, t, q, new)
<1>1. SameView(s0, s) /\ Frame(s)
  BY OpView
<1>2. PICK u : u = Send(s, q)
  OBVIOUS
<1>3. Same(s, u, {}) /\ u.wire = Append(s.wire, q)
  BY <1>1, <1>2 DEF Send, Same, Misc, Fields, Frame
<1>4. Frame(u) /\ u.txn_state = s.txn_state
  BY <1>1, <1>3, FrameKept
<1>5. Enters(u, new)
  BY <1>4 DEF Enters
<1>6. t = SetState(u, new)
  BY <1>2
<1>7. Entered(u, t, new)
  BY <1>4, <1>5, <1>6, SetStateIs
<1>8. Same(u, t, {"txn_state", "may_enq"}) /\ t.wire = u.wire /\ t.txn_state = new /\ t.may_enq = FALSE
  BY <1>7 DEF Entered
<1>9. Same(s0, t, {"txn_state", "may_enq", "ops"})
  <2>1. Same(s0, s, {"txn_state", "may_enq", "ops"})
    BY SameMore DEF OpReady
  <2>2. Same(s, u, {"txn_state", "may_enq", "ops"})
    BY <1>3, SameMore
  <2>3. Same(u, t, {"txn_state", "may_enq", "ops"})
    BY <1>8, SameMore
  <2>4. Same(s0, u, {"txn_state", "may_enq", "ops"})
    BY <2>1, <2>2, SameTrans
  <2> QED
    BY <2>3, <2>4, SameTrans
<1>10. t.ops = <<>>
  BY <1>3, <1>8 DEF Same, Misc, Fields, OpReady
<1> QED
  BY <1>3, <1>8, <1>9, <1>10 DEF Ends

LEMMA OpCommitGood ==
  ASSUME NEW s0, NEW s, NEW W, NEW a, NEW k, NEW d, OpReady(s0, s, W, a, k, d),
         a.api = "commit", a.stage = 3, NEW t, t = OpCommitTransaction(s)
  PROVE  Good(t, a, k, d)
<1>1. SameView(s0, s) /\ OpStates(s0, W, a) /\ s0.fatal = FALSE /\ StatesOK(s0) /\ WireOK(s0, W) /\ ClientOK(s0)
  BY OpView, OpStatesAre
<1>2. /\ s.txn_state = s0.txn_state /\ s0.txn_state \in TxnStates /\ s.dr_fails = s0.dr_fails /\ s.req_cnt = s0.req_cnt
      /\ s.bump = s0.bump /\ s.api = s0.api /\ s0.api.name = "commit" /\ s.idemp_state = s0.idemp_state
      /\ s0.txn_state \notin {"WAIT_PID", "READY_NOT_ACKED", "COMMIT_NOT_ACKED", "ABORT_NOT_ACKED",
                              "COMMITTING_TRANSACTION", "FATAL_ERROR"}
  BY <1>1 DEF SameView, OpStates
<1> DEFINE e == RequireState(s, {"BEGIN_COMMIT", "COMMITTING_TRANSACTION", "COMMIT_NOT_ACKED"})
<1>3. CASE s0.txn_state = "ABORTABLE_ERROR"
  <2>1. e = "abortable"
    BY <1>2, <1>3 DEF RequireState
  <2>2. t = SetResult(SetAbortableError(s, FALSE), "abortable")
    BY <2>1, <1>2, <1>3 DEF OpCommitTransaction
  <2> QED
    BY <2>2, <1>3, OpAbortable
<1>4. CASE s0.txn_state \notin {"ABORTABLE_ERROR", "BEGIN_COMMIT"}
  <2>1. e = "state"
    BY <1>2, <1>4 DEF RequireState
  <2>2. t = SetResult(s, "state")
    BY <2>1, <1>2, <1>4 DEF OpCommitTransaction
  <2>3. "state" \in Errors
    BY DEF Errors
  <2> QED
    BY <2>2, <2>3, <1>2, OpResult
<1>5. CASE s0.txn_state = "BEGIN_COMMIT"
  <2>1. e = "none" /\ s.txn_state = "BEGIN_COMMIT"
    BY <1>2, <1>5 DEF RequireState
  <2>2. ~s.bump
    BY <1>1, <1>2, <1>5 DEF StatesOK, Aborting
  <2>3. s.dr_fails \in BOOLEAN
    BY <1>1, <1>2 DEF ClientOK
  <2> HIDE DEF e
  <2>4. Sound(s0, W, a, k, d) /\ ~s0.fatal /\ a.at = "wait" /\ s0.ops = <<PhaseOf(a)>> /\ ~s0.api.has_result
        /\ Ordered(s0.wire) /\ W = OnWire(s0.wire) /\ s.wire = s0.wire
    BY DEF OpReady
  <2>5. CASE s.dr_fails
    <3>1. t = SetResult(SetAbortableError(s, FALSE), "abortable")
      BY <2>1, <2>5 DEF OpCommitTransaction, e
    <3> QED
      BY <3>1, <1>5, OpAbortable
  <2>6. CASE ~s.dr_fails /\ s.req_cnt = 0
    <3>1. t = EndTxnComplete(s)
      BY <2>1, <2>6 DEF OpCommitTransaction, e
    <3>2. t = SetResult(SetState(s, "COMMIT_NOT_ACKED"), "none")
      BY <3>1, <2>2, <1>2 DEF EndTxnComplete
    <3>3. Enters(s, "COMMIT_NOT_ACKED") /\ "COMMIT_NOT_ACKED" \in TxnStates /\ "COMMIT_NOT_ACKED" # "IN_TRANSACTION"
      BY <2>1 DEF Enters, Predecessors, Ignores, TxnStates
    <3>4. Moved(s0, s, t, "COMMIT_NOT_ACKED")
      BY <3>2, <3>3, OpMoves
    <3>5. /\ Same(s0, t, {"txn_state", "may_enq", "ops", "api"}) /\ t.wire = s.wire /\ t.ops = <<>>
          /\ t.txn_state = "COMMIT_NOT_ACKED" /\ t.may_enq = FALSE /\ t.api = Answered(s0.api, "none")
      BY <3>4 DEF Moved
    <3>6. ~s0.dr_fails /\ s0.req_cnt = 0
      BY <2>6, <1>2
    <3>7. Sound(t, W, a, k, d)
      BY <3>5, <3>6, <2>4, <1>5, CommitEmptySound
    <3> QED
      BY <3>5, <3>7, <2>4 DEF Good
  <2>7. CASE ~s.dr_fails /\ s.req_cnt # 0 /\ ~PidValid(s)
    <3>1. t = SetResult(s, "retriable")
      BY <2>1, <2>7 DEF OpCommitTransaction, e
    <3>2. "retriable" \in Errors
      BY DEF Errors
    <3> QED
      BY <3>1, <3>2, <1>2, OpResult
  <2>8. CASE ~s.dr_fails /\ s.req_cnt # 0 /\ PidValid(s)
    <3>1. PICK q : q = Request("end_commit", {})
      OBVIOUS
    <3>2. t = SetState(Send(s, q), "COMMITTING_TRANSACTION")
      BY <3>1, <2>1, <2>8 DEF OpCommitTransaction, e
    <3>3. Enters(s, "COMMITTING_TRANSACTION")
      BY <2>1 DEF Enters, Predecessors, Ignores
    <3>4. Ends(s0, s, t, q, "COMMITTING_TRANSACTION")
      BY <3>2, <3>3, OpEnds
    <3>5. /\ Same(s0, t, {"txn_state", "may_enq", "ops"}) /\ t.wire = Append(s.wire, q) /\ t.ops = <<>>
          /\ t.txn_state = "COMMITTING_TRANSACTION" /\ t.may_enq = FALSE
      BY <3>4 DEF Ends
    <3>6. PICK V : V = W \cup {q}
      OBVIOUS
    <3>7. ~s0.dr_fails /\ s0.req_cnt # 0
      BY <2>8, <1>2
    <3>8. Sound(t, V, a, k, d)
      BY <3>1, <3>5, <3>6, <3>7, <2>4, <1>5, CommitSendSound
    <3>9. q \in Requests /\ q.reply = "none" /\ q.kind = "end_commit"
      BY <3>1 DEF Request, Requests, Kinds, Replies
    <3>10. \A r \in W : r.kind # q.kind /\ r.kind \notin Last
      BY <3>9, <1>1, <1>5 DEF WireOK, Only, Allowed, Last, Reacquiring, Aborting
    <3>11. Ordered(t.wire) /\ OnWire(t.wire) = V
      BY <3>5, <3>6, <3>9, <3>10, <2>4, WireAppend
    <3> QED
      BY <3>8, <3>11 DEF Good
  <2> QED
    BY <2>3, <2>5, <2>6, <2>7, <2>8
<1> QED
  BY <1>3, <1>4, <1>5


\* The transaction is complete, and its call has its result.
Completed(s0, s, t) ==
  /\ Same(s0, t, {"txn_state", "may_enq", "pending", "waitresp", "rktps", "bump", "req_cnt", "ops", "api"})
  /\ t.wire = s.wire /\ t.ops = <<>> /\ t.txn_state = "READY" /\ t.may_enq = FALSE /\ t.pending = {}
  /\ t.waitresp = {} /\ t.rktps = {} /\ t.bump = FALSE /\ t.req_cnt = 0 /\ t.api = Answered(s0.api, "none")

LEMMA OpCompletes ==
  ASSUME NEW s0, NEW s, NEW W, NEW a, NEW k, NEW d, OpReady(s0, s, W, a, k, d),
         s0.txn_state \in {"COMMIT_NOT_ACKED", "ABORT_NOT_ACKED"},
         NEW t, t = SetResult(TxnComplete(s), "none")
  PROVE  Completed(s0, s, t)
<1>1. SameView(s0, s) /\ Frame(s)
  BY OpView
<1>2. PICK v : v = ClearPendingPartitions(s)
  OBVIOUS
<1>3. PICK w : w = [v EXCEPT !.rktps = {}, !.bump = FALSE, !.req_cnt = 0]
  OBVIOUS
<1>4. PICK u : u = SetState(w, "READY")
  OBVIOUS
<1>5. t = SetResult(u, "none")
  BY <1>2, <1>3, <1>4 DEF TxnComplete
<1>6. Same(s, v, {"pending", "waitresp"}) /\ v.wire = s.wire /\ v.pending = {} /\ v.waitresp = {} /\ DOMAIN v = Fields
      /\ v.timers = s.timers
  BY <1>1, <1>2 DEF ClearPendingPartitions, Same, Misc, Fields, Frame
<1>7. /\ Same(v, w, {"rktps", "bump", "req_cnt"}) /\ w.wire = v.wire /\ w.rktps = {} /\ w.bump = FALSE /\ w.req_cnt = 0
      /\ w.pending = v.pending /\ w.waitresp = v.waitresp
  BY <1>1, <1>3, <1>6 DEF Same, Misc, Fields, Frame
<1>8. Frame(w) /\ w.txn_state = s0.txn_state /\ w.api = s0.api /\ w.ops = <<>>
  <2>1. Frame(v) /\ v.txn_state = s.txn_state /\ v.api = s.api
    BY <1>1, <1>6, FrameKept
  <2>2. Frame(w) /\ w.txn_state = v.txn_state /\ w.api = v.api
    BY <2>1, <1>7, FrameKept
  <2>3. w.ops = s.ops
    BY <1>6, <1>7 DEF Same, Misc, Fields
  <2> QED
    BY <2>1, <2>2, <2>3, <1>1 DEF SameView, OpReady
<1>9. Enters(w, "READY")
  BY <1>8 DEF Enters, Predecessors, Ignores
<1>10. Entered(w, u, "READY")
  BY <1>4, <1>8, <1>9, SetStateIs
<1>11. Same(w, u, {"txn_state", "may_enq"}) /\ u.wire = w.wire /\ u.txn_state = "READY" /\ u.may_enq = FALSE
  BY <1>10 DEF Entered
<1>12. Frame(u) /\ u.api = s0.api
  BY <1>8, <1>11 DEF Frame, Same, Misc, Fields, TxnStates
<1>13. Same(u, t, {"api"}) /\ t.wire = u.wire /\ t.api = Answered(u.api, "none")
  BY <1>5, <1>12, SetResultIs, Zenon
<1> DEFINE C == {"txn_state", "may_enq", "pending", "waitresp", "rktps", "bump", "req_cnt", "ops", "api"}
<1>14. Same(s0, t, C)
  <2>1. Same(s0, s, C)
    BY SameMore DEF OpReady
  <2>2. Same(s, v, C)
    BY <1>6, SameMore
  <2>3. Same(v, w, C)
    BY <1>7, SameMore
  <2>4. Same(w, u, C)
    BY <1>11, SameMore
  <2>5. Same(u, t, C)
    BY <1>13, SameMore
  <2> HIDE DEF C
  <2>6. Same(s0, v, C)
    BY <2>1, <2>2, SameTrans
  <2>7. Same(s0, w, C)
    BY <2>3, <2>6, SameTrans
  <2>8. Same(s0, u, C)
    BY <2>4, <2>7, SameTrans
  <2> QED
    BY <2>5, <2>8, SameTrans
<1>15. u.ops = <<>> /\ u.pending = {} /\ u.waitresp = {} /\ u.rktps = {} /\ u.bump = FALSE /\ u.req_cnt = 0
  BY <1>6, <1>7, <1>8, <1>11 DEF Same, Misc, Fields
<1>16. /\ t.ops = <<>> /\ t.pending = {} /\ t.waitresp = {} /\ t.rktps = {} /\ t.bump = FALSE /\ t.req_cnt = 0
       /\ t.txn_state = "READY" /\ t.may_enq = FALSE
  BY <1>11, <1>13, <1>15 DEF Same, Misc, Fields
<1>17. t.wire = s.wire /\ t.api = Answered(s0.api, "none")
  BY <1>6, <1>7, <1>11, <1>12, <1>13
<1> QED
  BY <1>14, <1>16, <1>17 DEF Completed

LEMMA OpCommitAckGood ==
  ASSUME NEW s0, NEW s, NEW W, NEW a, NEW k, NEW d, OpReady(s0, s, W, a, k, d),
         a.api = "commit", a.stage = 4, NEW t, t = OpCommitTransactionAck(s)
  PROVE  Good(t, a, k, d)
<1>1. SameView(s0, s) /\ OpStates(s0, W, a)
  BY OpView, OpStatesAre
<1>2. s0.txn_state = "COMMIT_NOT_ACKED" /\ s.txn_state = "COMMIT_NOT_ACKED"
  BY <1>1 DEF SameView, OpStates
<1>3. RequireState(s, {"COMMIT_NOT_ACKED"}) = "none"
  BY <1>2 DEF RequireState
<1>4. t = SetResult(TxnComplete(s), "none")
  BY <1>3 DEF OpCommitTransactionAck
<1>5. Completed(s0, s, t)
  BY <1>2, <1>4, OpCompletes
<1>6. /\ Same(s0, t, {"txn_state", "may_enq", "pending", "waitresp", "rktps", "bump", "req_cnt", "ops", "api"})
      /\ t.wire = s.wire /\ t.ops = <<>> /\ t.txn_state = "READY" /\ t.may_enq = FALSE /\ t.pending = {}
      /\ t.waitresp = {} /\ t.rktps = {} /\ t.bump = FALSE /\ t.req_cnt = 0 /\ t.api = Answered(s0.api, "none")
  BY <1>5 DEF Completed
<1>7. Sound(s0, W, a, k, d) /\ ~s0.fatal /\ a.at = "wait" /\ s0.ops = <<PhaseOf(a)>> /\ ~s0.api.has_result
      /\ Ordered(s0.wire) /\ W = OnWire(s0.wire) /\ s.wire = s0.wire
  BY DEF OpReady
<1>8. Sound(t, W, a, k, d)
  BY <1>2, <1>6, <1>7, CommitAckSound
<1> QED
  BY <1>6, <1>7, <1>8 DEF Good

LEMMA OpAbortAckGood ==
  ASSUME NEW s0, NEW s, NEW W, NEW a, NEW k, NEW d, OpReady(s0, s, W, a, k, d),
         a.api = "abort", a.stage = 4, NEW t, t = OpAbortTransactionAck(s)
  PROVE  Good(t, a, k, d)
<1>1. SameView(s0, s) /\ OpStates(s0, W, a)
  BY OpView, OpStatesAre
<1>2. s0.txn_state = "ABORT_NOT_ACKED" /\ s.txn_state = "ABORT_NOT_ACKED"
  BY <1>1 DEF SameView, OpStates
<1>3. RequireState(s, {"ABORT_NOT_ACKED"}) = "none"
  BY <1>2 DEF RequireState
<1>4. t = SetResult(TxnComplete(s), "none")
  BY <1>3 DEF OpAbortTransactionAck
<1>5. Completed(s0, s, t)
  BY <1>2, <1>4, OpCompletes
<1>6. /\ Same(s0, t, {"txn_state", "may_enq", "pending", "waitresp", "rktps", "bump", "req_cnt", "ops", "api"})
      /\ t.wire = s.wire /\ t.ops = <<>> /\ t.txn_state = "READY" /\ t.may_enq = FALSE /\ t.pending = {}
      /\ t.waitresp = {} /\ t.rktps = {} /\ t.bump = FALSE /\ t.req_cnt = 0 /\ t.api = Answered(s0.api, "none")
  BY <1>5 DEF Completed
<1>7. Sound(s0, W, a, k, d) /\ ~s0.fatal /\ a.at = "wait" /\ s0.ops = <<PhaseOf(a)>> /\ ~s0.api.has_result
      /\ Ordered(s0.wire) /\ W = OnWire(s0.wire) /\ s.wire = s0.wire
  BY DEF OpReady
<1>8. Sound(t, W, a, k, d)
  BY <1>2, <1>6, <1>7, AbortAckSound
<1> QED
  BY <1>6, <1>7, <1>8 DEF Good

LEMMA OpBeginAbortGood ==
  ASSUME NEW s0, NEW s, NEW W, NEW a, NEW k, NEW d, OpReady(s0, s, W, a, k, d),
         a.api = "abort", a.stage = 1, NEW t, t = OpBeginAbort(s)
  PROVE  Good(t, a, k, d)
<1>1. SameView(s0, s) /\ Frame(s) /\ OpStates(s0, W, a) /\ s0.fatal = FALSE
  BY OpView, OpStatesAre
<1>2. /\ s.txn_state = s0.txn_state /\ s0.txn_state \in TxnStates
      /\ s0.txn_state \notin {"WAIT_PID", "READY_NOT_ACKED", "COMMIT_NOT_ACKED", "ABORT_NOT_ACKED"}
  BY <1>1 DEF SameView, OpStates
<1> DEFINE S == {"IN_TRANSACTION", "BEGIN_ABORT", "ABORTING_TRANSACTION", "ABORTABLE_ERROR", "ABORT_NOT_ACKED"}
<1>3. CASE s0.txn_state \notin {"IN_TRANSACTION", "ABORTABLE_ERROR"}
  <2>1. PICK e : e = RequireState(s, S)
    OBVIOUS
  <2>2. e \in Errors
    BY <2>1 DEF RequireState, Errors
  <2>3. t = SetResult(s, e)
    BY <2>1, <1>2, <1>3 DEF OpBeginAbort
  <2> QED
    BY <2>2, <2>3, <1>2, OpResult
<1>4. CASE s0.txn_state \in {"IN_TRANSACTION", "ABORTABLE_ERROR"}
  <2>1. RequireState(s, S) = "none"
    BY <1>2, <1>4 DEF RequireState
  <2>2. PICK b : b = SetState(s, "BEGIN_ABORT")
    OBVIOUS
  <2>3. PICK u : u = ClearPendingPartitions(b)
    OBVIOUS
  <2>4. t = SetResult(u, "none")
    BY <2>1, <2>2, <2>3, <1>2, <1>4 DEF OpBeginAbort
  <2>5. Enters(s, "BEGIN_ABORT")
    BY <1>2, <1>4 DEF Enters, Predecessors, Ignores
  <2>6. Entered(s, b, "BEGIN_ABORT")
    BY <2>2, <2>5, <1>1, SetStateIs
  <2>7. Same(s, b, {"txn_state", "may_enq"}) /\ b.wire = s.wire /\ b.txn_state = "BEGIN_ABORT" /\ b.may_enq = FALSE
    BY <2>6 DEF Entered
  <2>8. Frame(b) /\ b.api = s0.api /\ b.ops = <<>>
    <3>1. Frame(b) /\ b.api = s.api /\ b.ops = s.ops
      BY <2>7, <1>1 DEF Frame, Same, Misc, Fields, TxnStates
    <3> QED
      BY <3>1, <1>1 DEF SameView, OpReady
  <2>9. Same(b, u, {"pending", "waitresp"}) /\ u.wire = b.wire /\ u.pending = {} /\ u.waitresp = {}
    BY <2>3, <2>8 DEF ClearPendingPartitions, Same, Misc, Fields, Frame
  <2>10. Frame(u) /\ u.api = s0.api /\ u.txn_state = "BEGIN_ABORT" /\ u.may_enq = FALSE /\ u.ops = <<>>
    <3>1. Frame(u) /\ u.txn_state = b.txn_state /\ u.may_enq = b.may_enq /\ u.api = b.api
      BY <2>8, <2>9, FrameKept
    <3>2. u.ops = b.ops
      BY <2>9 DEF Same, Misc, Fields
    <3> QED
      BY <3>1, <3>2, <2>7, <2>8
  <2>11. Same(u, t, {"api"}) /\ t.wire = u.wire /\ t.api = Answered(u.api, "none")
    BY <2>4, <2>10, SetResultIs, Zenon
  <2> DEFINE C == {"txn_state", "may_enq", "pending", "waitresp", "ops", "api"}
  <2>12. Same(s0, t, C)
    <3>1. Same(s0, s, C)
      BY SameMore DEF OpReady
    <3>2. Same(s, b, C)
      BY <2>7, SameMore
    <3>3. Same(b, u, C)
      BY <2>9, SameMore
    <3>4. Same(u, t, C)
      BY <2>11, SameMore
    <3> HIDE DEF C
    <3>5. Same(s0, b, C)
      BY <3>1, <3>2, SameTrans
    <3>6. Same(s0, u, C)
      BY <3>3, <3>5, SameTrans
    <3> QED
      BY <3>4, <3>6, SameTrans
  <2>13. /\ t.txn_state = "BEGIN_ABORT" /\ t.may_enq = FALSE /\ t.pending = {} /\ t.waitresp = {} /\ t.ops = <<>>
         /\ t.api = Answered(s0.api, "none")
    BY <2>9, <2>10, <2>11 DEF Same, Misc, Fields
  <2>14. t.wire = s0.wire
    BY <2>7, <2>9, <2>11 DEF OpReady
  <2>15. Sound(s0, W, a, k, d) /\ ~s0.fatal /\ a.at = "wait" /\ s0.ops = <<PhaseOf(a)>> /\ ~s0.api.has_result
         /\ Ordered(s0.wire) /\ W = OnWire(s0.wire)
    BY DEF OpReady
  <2>16. Sound(t, W, a, k, d)
    BY <2>12, <2>13, <2>15, <1>4, BeginAbortSound
  <2> QED
    BY <2>14, <2>15, <2>16 DEF Good
<1> QED
  BY <1>3, <1>4

LEMMA OpAbortGood ==
  ASSUME NEW s0, NEW s, NEW W, NEW a, NEW k, NEW d, OpReady(s0, s, W, a, k, d),
         a.api = "abort", a.stage = 3, NEW t, t = OpAbortTransaction(s)
  PROVE  Good(t, a, k, d)
<1>1. /\ SameView(s0, s) /\ OpStates(s0, W, a) /\ s0.fatal = FALSE /\ s.fatal = FALSE /\ StatesOK(s0) /\ WireOK(s0, W)
      /\ ClientOK(s0) /\ QueueOK(s0, a) /\ CountOK(s0, W, k) /\ Frame(s)
  BY OpView, OpStatesAre
<1>2. /\ s.txn_state = s0.txn_state /\ s0.txn_state \in TxnStates /\ s.req_cnt = s0.req_cnt
      /\ s.bump = s0.bump /\ s.api = s0.api /\ s0.api.name = "abort" /\ s.idemp_state = s0.idemp_state
      /\ s.flight = s0.flight
      /\ s0.txn_state \notin {"WAIT_PID", "READY_NOT_ACKED", "COMMIT_NOT_ACKED", "ABORT_NOT_ACKED",
                              "ABORTING_TRANSACTION", "FATAL_ERROR"}
  BY <1>1 DEF SameView, OpStates
<1> DEFINE e == RequireState(s, {"BEGIN_ABORT", "ABORTING_TRANSACTION", "ABORT_NOT_ACKED"})
<1>3. CASE s0.txn_state # "BEGIN_ABORT"
  <2>1. e \in Errors /\ e # "none"
    BY <1>2, <1>3 DEF RequireState, Errors
  <2> HIDE DEF e
  <2>2. t = SetResult(s, e)
    BY <2>1, <1>2, <1>3 DEF OpAbortTransaction, e
  <2>3. PICK x : x = e
    OBVIOUS
  <2> QED
    BY <2>1, <2>2, <2>3, <1>2, OpResult
<1>4. CASE s0.txn_state = "BEGIN_ABORT"
  <2>1. e = "none" /\ s.txn_state = "BEGIN_ABORT"
    BY <1>2, <1>4 DEF RequireState
  <2> HIDE DEF e
  <2>2. s0.idemp_state \in {"ASSIGNED", "WAIT_TXN_ABORT"} /\ s0.idemp_state \notin Acquiring
    BY <1>1, <1>2, <1>4 DEF StatesOK, OpStates, Reacquiring, Aborting, Acquiring
  <2>3. s.bump \in BOOLEAN
    BY <1>1, <1>2 DEF ClientOK
  <2>4. Sound(s0, W, a, k, d) /\ ~s0.fatal /\ a.at = "wait" /\ s0.ops = <<PhaseOf(a)>> /\ ~s0.api.has_result
        /\ Ordered(s0.wire) /\ W = OnWire(s0.wire) /\ s.wire = s0.wire /\ Same(s0, s, {"ops"}) /\ s.ops = <<>>
    BY DEF OpReady
  <2>5. CASE s.req_cnt = 0 /\ s.bump
    <3>1. t = EndTxnComplete(s)
      BY <2>1, <2>5 DEF OpAbortTransaction, e
    <3>2. t = DrainEpochBump(s, FALSE)
      BY <3>1, <2>5 DEF EndTxnComplete
    <3>3. s.flight = {}
      BY <1>1, <1>2 DEF QueueOK
    <3>4. Idemp(s, t, "REQ_PID")
      BY <3>2, <3>3, <1>1, DrainBumpIs
    <3>5. Same(s, t, {"idemp_state"}) /\ t.wire = s.wire /\ t.idemp_state = "REQ_PID"
      BY <3>4 DEF Idemp
    <3>6. Same(s0, t, {"idemp_state", "ops"})
      <4>1. Same(s0, s, {"idemp_state", "ops"})
        BY <2>4, SameMore
      <4>2. Same(s, t, {"idemp_state", "ops"})
        BY <3>5, SameMore
      <4> QED
        BY <4>1, <4>2, SameTrans
    <3>7. t.ops = <<>>
      BY <3>5, <2>4 DEF Same, Misc, Fields
    <3>8. At(a, "abort", 3, "wait") /\ s0.txn_state \in Aborting /\ ~Reacquiring(s0)
      BY <2>2, <2>4, <1>4 DEF At, Aborting, Reacquiring
    <3>11. s0.bump
      BY <2>4, <2>5 DEF Same, Misc, Fields
    <3>9. Sound(t, {}, a, k, d)
      BY <3>5, <3>6, <3>7, <3>8, <3>11, <2>4, ReacquireSound
    <3>10. W = {}
      <4>1. Only(W, {"add_parts"})
        BY <3>8, <1>1, <1>4 DEF WireOK, Allowed
      <4>2. s0.req_cnt = 0
        BY <2>5, <1>2
      <4>3. ~Has(W, "add_parts")
        BY <4>2, <1>1, <1>4 DEF CountOK, One
      <4> QED
        BY <4>1, <4>3 DEF Only, Has
    <3> QED
      BY <3>5, <3>9, <3>10, <2>4 DEF Good
  <2>6. CASE s.req_cnt = 0 /\ ~s.bump
    <3>1. t = EndTxnComplete(s)
      BY <2>1, <2>6 DEF OpAbortTransaction, e
    <3>2. t = SetResult(SetState(s, "ABORT_NOT_ACKED"), "none")
      BY <3>1, <2>6, <1>2 DEF EndTxnComplete
    <3>3. Enters(s, "ABORT_NOT_ACKED") /\ "ABORT_NOT_ACKED" \in TxnStates /\ "ABORT_NOT_ACKED" # "IN_TRANSACTION"
      BY <2>1 DEF Enters, Predecessors, Ignores, TxnStates
    <3>4. Moved(s0, s, t, "ABORT_NOT_ACKED")
      BY <3>2, <3>3, OpMoves
    <3>5. /\ Same(s0, t, {"txn_state", "may_enq", "ops", "api"}) /\ t.wire = s.wire /\ t.ops = <<>>
          /\ t.txn_state = "ABORT_NOT_ACKED" /\ t.may_enq = FALSE /\ t.api = Answered(s0.api, "none")
      BY <3>4 DEF Moved
    <3>6. ~s0.bump /\ s0.req_cnt = 0
      BY <2>6, <1>2
    <3>7. Sound(t, W, a, k, d)
      BY <3>5, <3>6, <2>2, <2>4, <1>4, AbortEmptySound
    <3> QED
      BY <3>5, <3>7, <2>4 DEF Good
  <2>7. CASE s.req_cnt # 0
    <3>1. PICK q : q = Request("end_abort", {})
      OBVIOUS
    <3>2. t = SetState(Send(s, q), "ABORTING_TRANSACTION")
      BY <3>1, <2>1, <2>2, <2>7, <1>2 DEF OpAbortTransaction, e
    <3>3. Enters(s, "ABORTING_TRANSACTION")
      BY <2>1 DEF Enters, Predecessors, Ignores
    <3>4. Ends(s0, s, t, q, "ABORTING_TRANSACTION")
      BY <3>2, <3>3, OpEnds
    <3>5. /\ Same(s0, t, {"txn_state", "may_enq", "ops"}) /\ t.wire = Append(s.wire, q) /\ t.ops = <<>>
          /\ t.txn_state = "ABORTING_TRANSACTION" /\ t.may_enq = FALSE
      BY <3>4 DEF Ends
    <3>6. PICK V : V = W \cup {q}
      OBVIOUS
    <3>7. Sound(t, V, a, k, d)
      BY <3>1, <3>5, <3>6, <2>2, <2>4, <1>4, AbortSendSound
    <3>8. q \in Requests /\ q.reply = "none" /\ q.kind = "end_abort"
      BY <3>1 DEF Request, Requests, Kinds, Replies
    <3>9. \A r \in W : r.kind # q.kind /\ r.kind \notin Last
      <4>1. ~Reacquiring(s0)
        BY <2>2 DEF Reacquiring
      <4> QED
        BY <4>1, <3>8, <1>1, <1>4 DEF WireOK, Only, Allowed, Last
    <3>10. Ordered(t.wire) /\ OnWire(t.wire) = V
      BY <3>5, <3>6, <3>8, <3>9, <2>4, WireAppend
    <3> QED
      BY <3>7, <3>10 DEF Good
  <2> QED
    BY <2>3, <2>5, <2>6, <2>7
<1> QED
  BY <1>3, <1>4

LEMMA OpFatalIs ==
  ASSUME NEW s, s.txn_state = "FATAL_ERROR", NEW op \in OpNames
  PROVE  Op(s, op) = SetResult(s, "fatal")
<1>1. \A S : "FATAL_ERROR" \notin S => RequireState(s, S) = "fatal"
  BY DEF RequireState
<1>2. CASE op = "init"
  <2>1. RequireState(s, {"INIT", "WAIT_PID", "READY_NOT_ACKED"}) = "fatal"
    BY <1>1
  <2> QED
    BY <1>2, <2>1 DEF Op, OpInitTransactions
<1>3. CASE op = "init_ack"
  <2>1. RequireState(s, {"READY_NOT_ACKED"}) = "fatal"
    BY <1>1
  <2> QED
    BY <1>3, <2>1 DEF Op, OpAckInitTransactions
<1>4. CASE op = "begin"
  <2>1. RequireState(s, {"READY"}) = "fatal"
    BY <1>1
  <2> QED
    BY <1>4, <2>1 DEF Op, OpBeginTransaction
<1>5. CASE op = "offsets"
  <2>1. RequireState(s, {"IN_TRANSACTION"}) = "fatal"
    BY <1>1
  <2> QED
    BY <1>5, <2>1 DEF Op, OpSendOffsets
<1>6. CASE op = "begin_commit"
  <2>1. RequireState(s, {"IN_TRANSACTION", "BEGIN_COMMIT", "COMMITTING_TRANSACTION", "COMMIT_NOT_ACKED"}) = "fatal"
    BY <1>1
  <2> QED
    BY <1>6, <2>1 DEF Op, OpBeginCommit
<1>7. CASE op = "commit"
  <2>1. RequireState(s, {"BEGIN_COMMIT", "COMMITTING_TRANSACTION", "COMMIT_NOT_ACKED"}) = "fatal"
    BY <1>1
  <2>2. Op(s, op) = OpCommitTransaction(s)
    BY <1>7 DEF Op
  <2> QED
    BY <2>1, <2>2 DEF OpCommitTransaction
<1>8. CASE op = "commit_ack"
  <2>1. RequireState(s, {"COMMIT_NOT_ACKED"}) = "fatal"
    BY <1>1
  <2> QED
    BY <1>8, <2>1 DEF Op, OpCommitTransactionAck
<1>9. CASE op = "begin_abort"
  <2>1. RequireState(s, {"IN_TRANSACTION", "BEGIN_ABORT", "ABORTING_TRANSACTION", "ABORTABLE_ERROR", "ABORT_NOT_ACKED"}) = "fatal"
    BY <1>1
  <2> QED
    BY <1>9, <2>1 DEF Op, OpBeginAbort
<1>10. CASE op = "abort"
  <2>1. RequireState(s, {"BEGIN_ABORT", "ABORTING_TRANSACTION", "ABORT_NOT_ACKED"}) = "fatal"
    BY <1>1
  <2>2. Op(s, op) = OpAbortTransaction(s)
    BY <1>10 DEF Op
  <2> QED
    BY <2>1, <2>2 DEF OpAbortTransaction
<1>11. CASE op = "abort_ack"
  <2>1. RequireState(s, {"ABORT_NOT_ACKED"}) = "fatal"
    BY <1>1
  <2> QED
    BY <1>11, <2>1 DEF Op, OpAbortTransactionAck
<1> QED
  BY <1>2, <1>3, <1>4, <1>5, <1>6, <1>7, <1>8, <1>9, <1>10, <1>11 DEF OpNames

\* The op is taken from the queue.
LEMMA OpTaken ==
  ASSUME NEW c0, NEW a, NEW k, NEW d, Good(c0, a, k, d), c0.ops # <<>>, NEW s, s = [c0 EXCEPT !.ops = Tail(@)]
  PROVE  /\ Same(c0, s, {"ops"}) /\ s.wire = c0.wire /\ s.ops = Tail(c0.ops) /\ Frame(s)
         /\ s.ops \in Seq(OpNames) /\ Head(c0.ops) \in OpNames
<1>1. Frame(c0) /\ c0.ops \in Seq(OpNames)
  BY GoodFrame DEF Good, Sound, ClientOK
<1>2. PICK x : x = Tail(c0.ops)
  OBVIOUS
<1>3. x \in Seq(OpNames) /\ Head(c0.ops) \in OpNames
  BY <1>1, <1>2, HeadTailProperties
<1>4. s = [c0 EXCEPT !.ops = x]
  BY <1>2
<1>5. Same(c0, s, {"ops"}) /\ s.wire = c0.wire /\ s.ops = x
  BY <1>1, <1>4 DEF Same, Misc, Fields, Frame
<1>6. Frame(s)
  BY <1>1, <1>5, FrameKept
<1> QED
  BY <1>2, <1>3, <1>5, <1>6

LEMMA OpFatal ==
  ASSUME NEW c0, NEW W, NEW a, NEW k, NEW d, Sound(c0, W, a, k, d), c0.fatal = TRUE,
         NEW s, Same(c0, s, {"ops"}), s.ops \in Seq(OpNames), NEW t, t = SetResult(s, "fatal")
  PROVE  Sound(t, W, a, k, d) /\ t.wire = s.wire
<1>1. /\ s.txn_state = c0.txn_state /\ s.req_cnt = c0.req_cnt /\ s.offc = c0.offc /\ s.idemp_state = c0.idemp_state /\ s.fatal = c0.fatal
      /\ s.dr_fails = c0.dr_fails /\ s.flight = c0.flight /\ s.queued = c0.queued /\ s.rktps = c0.rktps /\ s.txn = c0.txn
  BY DEF Same, Misc, Fields
<1>2. ClientOK(c0) /\ CountOK(c0, W, k)
  BY DEF Sound
<1>3. CountOK(s, W, k)
  BY <1>1, <1>2 DEF CountOK
<1>4. Same(c0, s, {"req_cnt", "offc", "idemp_state", "dr_fails", "flight", "queued", "ops"})
  BY SameMore
<1>5. /\ s.req_cnt \in Int /\ s.offc \in {"none", "request", "sent"} /\ s.idemp_state \in IdempStates
      /\ s.dr_fails \in BOOLEAN /\ (c0.offc = "none" => s.offc = "none") /\ s.flight \subseteq c0.flight
      /\ s.queued \subseteq c0.queued
  BY <1>1, <1>2 DEF ClientOK
<1>6. PICK V : V = W
  OBVIOUS
<1>7. V \subseteq W /\ CountOK(s, V, k)
  BY <1>3, <1>6
<1>8. Sound(s, V, a, k, d) /\ s.fatal = TRUE
  BY <1>4, <1>5, <1>7, FatalStep
<1>9. Sound(t, V, a, k, d) /\ t.wire = s.wire
  BY <1>8, FatalResult DEF Errors
<1> QED
  BY <1>6, <1>9

LEMMA OpTakenGood ==
  ASSUME NEW c0, NEW a, NEW k, NEW d, Good(c0, a, k, d), c0.ops # <<>>,
         NEW s, Same(c0, s, {"ops"}), s.wire = c0.wire, s.ops = Tail(c0.ops), Frame(s),
         s.ops \in Seq(OpNames), Head(c0.ops) \in OpNames, NEW t, t = Op(s, Head(c0.ops))
  PROVE  Good(t, a, k, d)
<1>1. CASE c0.fatal
  <2>1. Same(c0, s, {"ops"}) /\ s.wire = c0.wire /\ s.ops \in Seq(OpNames) /\ Head(c0.ops) \in OpNames
    OBVIOUS
  <2>2. c0.txn_state = "FATAL_ERROR" /\ c0.fatal = TRUE
    BY <1>1, GoodFrame
  <2>3. PICK W : W = OnWire(c0.wire)
    OBVIOUS
  <2>4. Sound(c0, W, a, k, d) /\ Ordered(c0.wire)
    BY <2>3 DEF Good
  <2>5. s.txn_state = "FATAL_ERROR"
    BY <2>1, <2>2 DEF Same, Misc, Fields
  <2>6. t = SetResult(s, "fatal")
    BY <2>1, <2>5, OpFatalIs
  <2>7. Sound(t, W, a, k, d) /\ t.wire = s.wire
    BY <2>1, <2>2, <2>4, <2>6, OpFatal
  <2> QED
    BY <2>1, <2>3, <2>4, <2>7 DEF Good
<1>2. CASE ~c0.fatal
  <2>1. Same(c0, s, {"ops"}) /\ s.wire = c0.wire /\ s.ops = Tail(c0.ops) /\ Frame(s)
    OBVIOUS
  <2>2. PICK W : W = OnWire(c0.wire)
    OBVIOUS
  <2>3. Sound(c0, W, a, k, d) /\ Ordered(c0.wire)
    BY <2>2 DEF Good
  <2>4. OpsOK(c0, W, a) /\ AppOK(a)
    BY <2>3, <1>2 DEF Sound
  <2>5. InitOps(c0, a) \/ (a.at = "wait" /\ c0.ops = <<PhaseOf(a)>> /\ ~c0.api.has_result)
    BY <2>4 DEF OpsOK
  <2>6. CASE InitOps(c0, a)
    <3>1. c0.txn_state = "READY_NOT_ACKED" /\ (c0.ops = <<"init">> \/ c0.ops = <<"init", "init_ack">>)
      BY <2>6 DEF InitOps
    <3>2. Head(c0.ops) = "init"
      BY <3>1, TailTwo
    <3>3. s.txn_state = "READY_NOT_ACKED"
      BY <2>1, <3>1 DEF Same, Misc, Fields
    <3>4. RequireState(s, {"INIT", "WAIT_PID", "READY_NOT_ACKED"}) = "none"
      BY <3>3 DEF RequireState
    <3>5. t = s
      BY <3>2, <3>3, <3>4 DEF Op, OpInitTransactions
    <3>6. Sound(s, W, a, k, d)
      BY <2>1, <2>3, <2>6, <1>2, <3>1, InitOpSound
    <3> QED
      BY <3>5, <3>6, <2>1, <2>2, <2>3 DEF Good
  <2>7. CASE a.at = "wait" /\ c0.ops = <<PhaseOf(a)>> /\ ~c0.api.has_result
    <3>1. Head(c0.ops) = PhaseOf(a) /\ s.ops = <<>>
      BY <2>1, <2>7, TailTwo
    <3>2. OpReady(c0, s, W, a, k, d)
      BY <3>1, <2>1, <2>2, <2>3, <2>7, <1>2 DEF OpReady
    <3>3. InCall(a)
      BY <2>7 DEF InCall
    <3>4. PICK op : op = PhaseOf(a)
      OBVIOUS
    <3>5. op \in OpNames /\ t = Op(s, op)
      BY <3>1, <3>4
    <3>6. CASE op = "init"
      <4>1. a.api = "init" /\ a.stage = 1
        BY <3>3, <3>4, <3>6, <2>4, PhaseIs
      <4>2. t = OpInitTransactions(s)
        BY <3>5, <3>6 DEF Op
      <4> QED
        BY <4>1, <4>2, <3>2, OpInitGood
    <3>7. CASE op = "init_ack"
      <4>1. a.api = "init" /\ a.stage = 2
        BY <3>3, <3>4, <3>7, <2>4, PhaseIs
      <4>2. t = OpAckInitTransactions(s)
        BY <3>5, <3>7 DEF Op
      <4> QED
        BY <4>1, <4>2, <3>2, OpInitAckGood
    <3>8. CASE op = "begin"
      <4>1. a.api = "begin" /\ a.stage = 1
        BY <3>3, <3>4, <3>8, <2>4, PhaseIs
      <4>2. t = OpBeginTransaction(s)
        BY <3>5, <3>8 DEF Op
      <4> QED
        BY <4>1, <4>2, <3>2, OpBeginGood
    <3>9. CASE op = "offsets"
      <4>1. a.api = "offsets" /\ a.stage = 1
        BY <3>3, <3>4, <3>9, <2>4, PhaseIs
      <4>2. t = OpSendOffsets(s)
        BY <3>5, <3>9 DEF Op
      <4> QED
        BY <4>1, <4>2, <3>2, OpSendOffsetsGood
    <3>10. CASE op = "begin_commit"
      <4>1. a.api = "commit" /\ a.stage = 1
        BY <3>3, <3>4, <3>10, <2>4, PhaseIs
      <4>2. t = OpBeginCommit(s)
        BY <3>5, <3>10 DEF Op
      <4> QED
        BY <4>1, <4>2, <3>2, OpBeginCommitGood
    <3>11. CASE op = "commit"
      <4>1. a.api = "commit" /\ a.stage = 3
        BY <3>3, <3>4, <3>11, <2>4, PhaseIs
      <4>2. t = OpCommitTransaction(s)
        BY <3>5, <3>11 DEF Op
      <4> QED
        BY <4>1, <4>2, <3>2, OpCommitGood
    <3>12. CASE op = "commit_ack"
      <4>1. a.api = "commit" /\ a.stage = 4
        BY <3>3, <3>4, <3>12, <2>4, PhaseIs
      <4>2. t = OpCommitTransactionAck(s)
        BY <3>5, <3>12 DEF Op
      <4> QED
        BY <4>1, <4>2, <3>2, OpCommitAckGood
    <3>13. CASE op = "begin_abort"
      <4>1. a.api = "abort" /\ a.stage = 1
        BY <3>3, <3>4, <3>13, <2>4, PhaseIs
      <4>2. t = OpBeginAbort(s)
        BY <3>5, <3>13 DEF Op
      <4> QED
        BY <4>1, <4>2, <3>2, OpBeginAbortGood
    <3>14. CASE op = "abort"
      <4>1. a.api = "abort" /\ a.stage = 3
        BY <3>3, <3>4, <3>14, <2>4, PhaseIs
      <4>2. t = OpAbortTransaction(s)
        BY <3>5, <3>14 DEF Op
      <4> QED
        BY <4>1, <4>2, <3>2, OpAbortGood
    <3>15. CASE op = "abort_ack"
      <4>1. a.api = "abort" /\ a.stage = 4
        BY <3>3, <3>4, <3>15, <2>4, PhaseIs
      <4>2. t = OpAbortTransactionAck(s)
        BY <3>5, <3>15 DEF Op
      <4> QED
        BY <4>1, <4>2, <3>2, OpAbortAckGood
    <3> QED
      BY <3>5, <3>6, <3>7, <3>8, <3>9, <3>10, <3>11, <3>12, <3>13, <3>14, <3>15 DEF OpNames
  <2> QED
    BY <2>5, <2>6, <2>7
<1> QED
  BY <1>1, <1>2

\* The main thread handles an op.
LEMMA OpGood ==
  ASSUME NEW c0, NEW a, NEW k, NEW d, Good(c0, a, k, d), c0.ops # <<>>,
         NEW s, s = [c0 EXCEPT !.ops = Tail(@)], NEW t, t = Op(s, Head(c0.ops))
  PROVE  Good(t, a, k, d)
<1>1. /\ Same(c0, s, {"ops"}) /\ s.wire = c0.wire /\ s.ops = Tail(c0.ops) /\ Frame(s)
      /\ s.ops \in Seq(OpNames) /\ Head(c0.ops) \in OpNames
  BY OpTaken
<1> QED
  BY <1>1, OpTakenGood

-----------------------------------------------------------------------------
(* The replies, the timers and the connection. *)

\* The main thread handles the reply to the oldest request.
LEMMA ReplyGood ==
  ASSUME NEW c0, NEW a, NEW k, NEW d, Good(c0, a, k, d), c0.wire # <<>>, Head(c0.wire).reply # "none",
         NEW s, s = [c0 EXCEPT !.wire = Tail(@)], NEW r, r = Head(c0.wire), NEW t,
         \/ r.kind = "add_offsets" /\ \E expired \in BOOLEAN : t = HandleAddOffsetsToTxn(s, r, expired)
         \/ r.kind # "add_offsets"
            /\ t = CASE r.kind = "add_parts" -> HandleAddPartitionsToTxn(s, r)
                     [] r.kind = "init_pid"  -> HandleInitProducerId(s, r.reply)
                     [] r.kind \in {"end_commit", "end_abort"} -> HandleEndTxn(s, r)
  PROVE  Good(t, a, k, d)
<1>1. PICK W : W = OnWire(c0.wire)
  OBVIOUS
<1>2. Taken(s, W, r, a, k, d)
  BY <1>1, ReplyTaken
<1>3. r.kind \in Kinds
  BY <1>2 DEF Taken, Sound, WireOK, Requests
<1>4. CASE r.kind = "add_offsets"
  <2>1. PICK expired \in BOOLEAN : t = HandleAddOffsetsToTxn(s, r, expired)
    BY <1>4
  <2> QED
    BY <2>1, <1>2, <1>4, AddOffsetsGood
<1>5. CASE r.kind = "add_parts"
  <2>1. t = HandleAddPartitionsToTxn(s, r)
    BY <1>5
  <2> QED
    BY <2>1, <1>2, <1>5, AddPartitionsGood
<1>6. CASE r.kind = "init_pid"
  <2>1. t = HandleInitProducerId(s, r.reply)
    BY <1>6
  <2> QED
    BY <2>1, <1>2, <1>6, InitPidGood
<1>7. CASE r.kind \in {"end_commit", "end_abort"}
  <2>1. t = HandleEndTxn(s, r)
    BY <1>7
  <2> QED
    BY <2>1, <1>2, <1>7, EndTxnGood
<1> QED
  BY <1>3, <1>4, <1>5, <1>6, <1>7 DEF Kinds

LEMMA TimerGood ==
  ASSUME NEW c0, NEW a, NEW k, NEW d, Good(c0, a, k, d), NEW x \in c0.timers,
         NEW s, s = [c0 EXCEPT !.timers = @ \ {x}], NEW t,
         t = CASE x = "coord"    -> CoordQuery(s)
               [] x = "pid"      -> PidFsm(s)
               [] x = "register" -> RegisterPartitions(s)
  PROVE  Good(t, a, k, d)
<1>1. Frame(c0)
  BY GoodFrame
<1>2. x \in Timers
  BY <1>1 DEF Frame
<1>3. Same(c0, s, {}) /\ s.wire = c0.wire
  BY <1>1 DEF Same, Misc, Fields, Frame
<1>4. Good(s, a, k, d)
  BY <1>3, MiscGood
<1>5. CASE x = "coord"
  <2>1. t = [s EXCEPT !.wait_coord = TRUE]
    BY <1>5 DEF CoordQuery
  <2>2. Frame(s)
    BY <1>4, GoodFrame
  <2>3. Same(s, t, {}) /\ t.wire = s.wire
    BY <2>1, <2>2 DEF Same, Misc, Fields, Frame
  <2> QED
    BY <2>3, <1>4, MiscGood
<1>6. CASE x = "pid"
  BY <1>4, <1>6, PidFsmGood
<1>7. CASE x = "register"
  BY <1>4, <1>7, RegisterPartitionsGood
<1> QED
  BY <1>2, <1>5, <1>6, <1>7 DEF Timers

LEMMA FindCoordinatorGood ==
  ASSUME NEW c0, NEW a, NEW k, NEW d, Good(c0, a, k, d), NEW known \in BOOLEAN,
         NEW s, s = [c0 EXCEPT !.wait_coord = FALSE], NEW t, t = CoordSet(s, known)
  PROVE  Good(t, a, k, d)
<1>1. Frame(c0)
  BY GoodFrame
<1>2. Same(c0, s, {}) /\ s.wire = c0.wire
  BY <1>1 DEF Same, Misc, Fields, Frame
<1>3. Good(s, a, k, d)
  BY <1>2, MiscGood
<1> QED
  BY <1>3, CoordSetGood

\* FindCoordinator is refused for good: TRANSACTIONAL_ID_AUTHORIZATION_FAILED.
LEMMA FatalNowGood ==
  ASSUME NEW s, NEW a, NEW k, NEW d, Good(s, a, k, d), NEW t, t = IdempSetState(SetFatalError(s), "FATAL_ERROR")
  PROVE  Good(t, a, k, d)
<1>1. PICK W : W = OnWire(s.wire)
  OBVIOUS
<1>2. Sound(s, W, a, k, d) /\ Ordered(s.wire)
  BY <1>1 DEF Good
<1>3. Frame(s) /\ Same(s, s, {})
  BY GoodFrame
<1>4. Same(s, s, {"req_cnt", "offc", "dr_fails"})
  BY <1>3, SameMore
<1>5. s.dr_fails \in BOOLEAN /\ s.req_cnt \in Int /\ CountOK(s, W, k)
  BY <1>2 DEF Sound, ClientOK
<1>6. PICK V : V = W
  OBVIOUS
<1>7. V \subseteq W /\ CountOK(s, V, k)
  BY <1>5, <1>6
<1>8. PICK u : u = SetFatalError(s)
  OBVIOUS
<1>9. Sound(u, V, a, k, d) /\ FatalNow(s, u)
  BY <1>2, <1>4, <1>5, <1>7, <1>8, GoFatalStep
<1>10. u.fatal = TRUE /\ u.wire = s.wire /\ u.txn_state = "FATAL_ERROR"
  BY <1>9 DEF FatalNow
<1>11. Frame(u) /\ u.idemp_state \in IdempStates
  BY <1>9, SoundFrame DEF Sound, ClientOK
<1>12. IdempAny(u, t)
  <2>1. t = IdempSetState(u, "FATAL_ERROR")
    BY <1>8
  <2> QED
    BY <2>1, <1>10, <1>11, IdempSetStateFatal DEF IdempStates
<1>13. Same(u, t, {"idemp_state"}) /\ t.wire = u.wire /\ t.idemp_state \in IdempStates
  BY <1>12 DEF IdempAny
<1>14. Sound(t, V, a, k, d)
  BY <1>9, <1>10, <1>13, FatalIdemp
<1>15. t.wire = s.wire
  BY <1>10, <1>13
<1> QED
  BY <1>1, <1>2, <1>6, <1>14, <1>15 DEF Good

LEMMA FindFatalGood ==
  ASSUME NEW c0, NEW a, NEW k, NEW d, Good(c0, a, k, d),
         NEW s, s = [c0 EXCEPT !.wait_coord = FALSE], NEW t, t = IdempSetState(SetFatalError(s), "FATAL_ERROR")
  PROVE  Good(t, a, k, d)
<1>1. Frame(c0)
  BY GoodFrame
<1>2. Same(c0, s, {}) /\ s.wire = c0.wire
  BY <1>1 DEF Same, Misc, Fields, Frame
<1>3. Good(s, a, k, d)
  BY <1>2, MiscGood
<1> QED
  BY <1>3, FatalNowGood

LEMMA ConnectGood ==
  ASSUME NEW c0, NEW a, NEW k, NEW d, Good(c0, a, k, d),
         NEW s, s = [c0 EXCEPT !.up = TRUE], NEW t,
         t = CASE s.idemp_state \in {"INIT", "FATAL_ERROR", "REQ_PID", "WAIT_TRANSPORT", "WAIT_PID"} -> PidFsm(s)
               [] s.idemp_state = "ASSIGNED" -> Arm(s, "register")
               [] OTHER -> s
  PROVE  Good(t, a, k, d)
<1>1. Frame(c0)
  BY GoodFrame
<1>2. Same(c0, s, {}) /\ s.wire = c0.wire
  BY <1>1 DEF Same, Misc, Fields, Frame
<1>3. Good(s, a, k, d)
  BY <1>2, MiscGood
<1>4. CASE s.idemp_state \in {"INIT", "FATAL_ERROR", "REQ_PID", "WAIT_TRANSPORT", "WAIT_PID"}
  <2>1. t = PidFsm(s)
    BY <1>4
  <2> QED
    BY <2>1, <1>3, PidFsmGood
<1>5. CASE s.idemp_state = "ASSIGNED"
  <2>1. t = Arm(s, "register")
    BY <1>5
  <2>2. Same(s, t, {}) /\ t.wire = s.wire
    BY <2>1, <1>3, GoodFrame, ArmIs DEF Timers
  <2> QED
    BY <2>2, <1>3, MiscGood
<1>6. CASE s.idemp_state \notin {"INIT", "FATAL_ERROR", "REQ_PID", "WAIT_TRANSPORT", "WAIT_PID", "ASSIGNED"}
  <2>1. t = s
    BY <1>6
  <2> QED
    BY <2>1, <1>3
<1> QED
  BY <1>4, <1>5, <1>6

\* The requests after the n-th have failed.
Cut(w, n) == [i \in DOMAIN w |-> IF i <= n THEN w[i] ELSE [w[i] EXCEPT !.reply = "transport"]]

LEMMA CutIs ==
  ASSUME NEW w, Ordered(w), NEW n \in 0 .. Len(w), \A i \in 1 .. n : w[i].reply # "none", NEW k
  PROVE  Ordered(Cut(w, n)) /\ Rewrites(OnWire(w), OnWire(Cut(w, n)), k)
<1>1. w \in Seq(Requests) /\ DOMAIN w = 1 .. Len(w) /\ Len(w) \in Nat
  BY DEF Ordered
<1>2. PICK v : v = Cut(w, n)
  OBVIOUS
<1>3. \A i \in DOMAIN w : w[i] \in Requests
  BY <1>1
<1>4. \A i \in DOMAIN w : \/ i <= n /\ v[i] = w[i]
                          \/ i > n /\ v[i] = [kind |-> w[i].kind, parts |-> w[i].parts, reply |-> "transport"]
  <2> TAKE i \in DOMAIN w
  <2>1. w[i] = [kind |-> w[i].kind, parts |-> w[i].parts, reply |-> w[i].reply]
    BY <1>3 DEF Requests
  <2>2. [w[i] EXCEPT !.reply = "transport"] = [kind |-> w[i].kind, parts |-> w[i].parts, reply |-> "transport"]
    BY <2>1
  <2> QED
    BY <2>2, <1>1, <1>2 DEF Cut
<1>5. \A i \in DOMAIN w : v[i] \in Requests /\ v[i].kind = w[i].kind /\ v[i].parts = w[i].parts
  <2> TAKE i \in DOMAIN w
  <2>1. w[i] \in Requests
    BY <1>3
  <2>2. CASE v[i] = w[i]
    BY <2>1, <2>2
  <2>3. CASE v[i] = [kind |-> w[i].kind, parts |-> w[i].parts, reply |-> "transport"]
    BY <2>1, <2>3 DEF Requests, Replies
  <2> QED
    BY <2>2, <2>3, <1>4
<1>6. DOMAIN v = DOMAIN w
  BY <1>2 DEF Cut
<1>7. v \in Seq(Requests)
  <2>1. v = [i \in 1 .. Len(w) |-> v[i]]
    BY <1>1, <1>2 DEF Cut
  <2> QED
    BY <2>1, <1>1, <1>5
<1>8. \A i \in DOMAIN w : \/ i <= n /\ v[i] = w[i]
                          \/ i > n /\ v[i].reply = "transport"
  <2> TAKE i \in DOMAIN w
  <2>1. CASE i <= n /\ v[i] = w[i]
    BY <2>1
  <2>2. CASE i > n /\ v[i] = [kind |-> w[i].kind, parts |-> w[i].parts, reply |-> "transport"]
    <3>1. v[i].reply = "transport"
      BY <2>2
    <3> QED
      BY <2>2, <3>1
  <2> QED
    BY <2>1, <2>2, <1>4
<1>9. \A i \in DOMAIN w : v[i].reply # "none" /\ (v[i] = w[i] \/ (v[i].reply \notin {"ok", "fenced"} /\ v[i].reply # "bump"))
  BY <1>1, <1>8
<1>10. Ordered(v) /\ Rewrites(OnWire(w), OnWire(v), k)
  BY <1>5, <1>6, <1>7, <1>9, WireAnswer
<1> QED
  BY <1>2, <1>10

\* The wire changes, and nothing else but the fields of Misc.
LEMMA RewireGood ==
  ASSUME NEW s, NEW a, NEW k, NEW d, Good(s, a, k, d), NEW t, Same(s, t, {}), Ordered(t.wire),
         Rewrites(OnWire(s.wire), OnWire(t.wire), k)
  PROVE  Good(t, a, k, d)
<1>1. PICK W : W = OnWire(s.wire)
  OBVIOUS
<1>2. PICK V : V = OnWire(t.wire)
  OBVIOUS
<1>3. Sound(s, W, a, k, d) /\ Rewrites(W, V, k) /\ Same(s, t, {"req_cnt"})
  BY <1>1, <1>2, SameMore DEF Good
<1>4. t.req_cnt = s.req_cnt
  BY DEF Same, Misc, Fields
<1>5. t.req_cnt \in Int /\ t.req_cnt >= s.req_cnt
  BY <1>3, <1>4 DEF Sound, ClientOK
<1>6. Sound(t, V, a, k, d)
  BY <1>3, <1>4, <1>5, RewriteSound
<1> QED
  BY <1>2, <1>6 DEF Good

LEMMA DisconnectGood ==
  ASSUME NEW s, NEW a, NEW k, NEW d, Good(s, a, k, d), NEW n \in 0 .. Len(s.wire),
         \A i \in 1 .. n : s.wire[i].reply # "none",
         NEW t, t = Arm([s EXCEPT !.up = FALSE,
                           !.wire = [i \in DOMAIN @ |->
                                       IF i <= n THEN @[i] ELSE [@[i] EXCEPT !.reply = "transport"]]], "coord")
  PROVE  Good(t, a, k, d)
<1>1. Frame(s) /\ Ordered(s.wire)
  BY GoodFrame DEF Good
<1>2. PICK v : v = Cut(s.wire, n)
  OBVIOUS
<1>3. Ordered(v) /\ Rewrites(OnWire(s.wire), OnWire(v), k)
  BY <1>1, <1>2, CutIs
<1>4. PICK u : u = [s EXCEPT !.up = FALSE, !.wire = v]
  OBVIOUS
<1>5. t = Arm(u, "coord")
  BY <1>2, <1>4 DEF Cut
<1>6. Same(s, u, {}) /\ u.wire = v
  BY <1>1, <1>4 DEF Same, Misc, Fields, Frame
<1>7. Frame(u)
  BY <1>1, <1>6, FrameKept
<1>8. Same(u, t, {}) /\ t.wire = u.wire
  BY <1>5, <1>7, ArmIs DEF Timers
<1>9. Same(s, t, {})
  BY <1>6, <1>8, SameTrans
<1>10. Ordered(t.wire) /\ Rewrites(OnWire(s.wire), OnWire(t.wire), k)
  BY <1>3, <1>6, <1>8
<1> QED
  BY <1>9, <1>10, RewireGood

-----------------------------------------------------------------------------
(* The coordinators. *)

\* The i-th request is answered with x: q is the request and its reply.
Reply(w, v, i, q, x) ==
  /\ q \in Requests /\ q.kind = w[i].kind /\ q.parts = w[i].parts /\ q.reply = x
  /\ v \in Seq(Requests) /\ DOMAIN v = DOMAIN w /\ v[i] = q
  /\ \A j \in DOMAIN w : j # i => v[j] = w[j]

LEMMA WireReply ==
  ASSUME NEW w, Ordered(w), NEW i \in DOMAIN w, NEW x \in Replies,
         NEW q, q = [w[i] EXCEPT !.reply = x], NEW v, v = [w EXCEPT ![i] = q]
  PROVE  Reply(w, v, i, q, x)
<1>1. w \in Seq(Requests) /\ DOMAIN w = 1 .. Len(w) /\ Len(w) \in Nat /\ w[i] \in Requests
  BY DEF Ordered
<1>2. q = [kind |-> w[i].kind, parts |-> w[i].parts, reply |-> x]
  BY <1>1 DEF Requests
<1>3. q \in Requests
  BY <1>1, <1>2 DEF Requests
<1>4. q.kind = w[i].kind /\ q.parts = w[i].parts /\ q.reply = x
  BY <1>2
<1>5. DOMAIN v = DOMAIN w /\ v[i] = q /\ \A j \in DOMAIN w : j # i => v[j] = w[j]
  BY <1>1
<1>6. v \in Seq(Requests)
  BY <1>1, <1>3
<1> QED
  BY <1>3, <1>4, <1>5, <1>6 DEF Reply

LEMMA ReplyOrdered ==
  ASSUME NEW w, Ordered(w), NEW i \in DOMAIN w, NEW x, x # "none", NEW q, NEW v, Reply(w, v, i, q, x),
         w[i].reply = "none", \A j \in 1 .. (i - 1) : w[j].reply # "none"
  PROVE  /\ Ordered(v) /\ OnWire(v) = (OnWire(w) \ {w[i]}) \cup {q} /\ w[i] \in OnWire(w)
         /\ w[i].kind \in Last => \A p \in OnWire(w) : p.kind \notin Last => p.reply # "none"
<1>1. w \in Seq(Requests) /\ DOMAIN w = 1 .. Len(w) /\ Len(w) \in Nat
  BY DEF Ordered
<1>2. /\ q.kind = w[i].kind /\ q.parts = w[i].parts /\ q.reply = x /\ v \in Seq(Requests) /\ DOMAIN v = DOMAIN w
      /\ v[i] = q /\ \A j \in DOMAIN w : j # i => v[j] = w[j]
  BY DEF Reply
<1>3. /\ \A j, l \in DOMAIN w : w[j].kind = w[l].kind => j = l
      /\ \A j \in DOMAIN w : w[j].kind \in Last => j = Len(w)
      /\ \A j, l \in DOMAIN w : j < l /\ w[l].reply # "none" => w[j].reply # "none"
  BY DEF Ordered
<1>4. Len(v) = Len(w)
  BY <1>1, <1>2
<1>5. \A j \in DOMAIN w : v[j].kind = w[j].kind
  BY <1>2
<1>6. \A j, l \in DOMAIN w : j < l /\ v[l].reply # "none" => v[j].reply # "none"
  <2> SUFFICES ASSUME NEW j \in DOMAIN w, NEW l \in DOMAIN w, j < l, v[l].reply # "none" PROVE v[j].reply # "none"
    OBVIOUS
  <2>1. CASE j = i
    BY <2>1, <1>2
  <2>2. CASE l = i
    <3>1. j \in 1 .. (i - 1) /\ j # i
      BY <2>2, <1>1
    <3> QED
      BY <3>1, <1>2
  <2>3. CASE j # i /\ l # i
    BY <2>3, <1>2, <1>3
  <2> QED
    BY <2>1, <2>2, <2>3
<1>7. Ordered(v)
  BY <1>2, <1>3, <1>4, <1>5, <1>6 DEF Ordered
<1>8. OnWire(v) \subseteq (OnWire(w) \ {w[i]}) \cup {q}
  <2> SUFFICES ASSUME NEW j \in DOMAIN w, j # i PROVE v[j] \in OnWire(w) \ {w[i]}
    BY <1>2 DEF OnWire
  <2> QED
    BY <1>2, <1>3 DEF OnWire
<1>9. (OnWire(w) \ {w[i]}) \cup {q} \subseteq OnWire(v)
  <2>1. q \in OnWire(v)
    BY <1>2 DEF OnWire
  <2>2. ASSUME NEW p \in OnWire(w), p # w[i] PROVE p \in OnWire(v)
    <3>1. PICK j \in DOMAIN w : p = w[j]
      BY DEF OnWire
    <3>2. j # i
      BY <3>1, <2>2
    <3> QED
      BY <3>1, <3>2, <1>2 DEF OnWire
  <2> QED
    BY <2>1, <2>2
<1>10. w[i] \in OnWire(w)
  BY DEF OnWire
<1>11. ASSUME w[i].kind \in Last, NEW p \in OnWire(w), p.kind \notin Last PROVE p.reply # "none"
  <2>1. PICK j \in DOMAIN w : p = w[j]
    BY DEF OnWire
  <2>2. i = Len(w) /\ j # i
    BY <2>1, <1>3, <1>11
  <2>3. j \in 1 .. (i - 1)
    BY <2>2, <1>1
  <2> QED
    BY <2>1, <2>3
<1> QED
  BY <1>7, <1>8, <1>9, <1>10, <1>11

\* A reply that refuses the request.
LEMMA RefuseGood ==
  ASSUME NEW s, NEW a, NEW k, NEW d, Good(s, a, k, d), NEW i \in DOMAIN s.wire, NEW x, x \notin {"none", "ok"},
         NoBump => x # "bump",
         x = "fenced" => k.fenced \/ s.wire[i].kind \in {"end_commit", "end_abort"},
         s.wire[i].reply = "none", \A j \in 1 .. (i - 1) : s.wire[j].reply # "none",
         NEW q, NEW t, Reply(s.wire, t.wire, i, q, x), Same(s, t, {})
  PROVE  Good(t, a, k, d)
<1>1. PICK w : w = s.wire
  OBVIOUS
<1>2. PICK v : v = t.wire
  OBVIOUS
<1>3. Ordered(w) /\ Reply(w, v, i, q, x) /\ i \in DOMAIN w
  BY <1>1, <1>2 DEF Good
<1>4. /\ q.kind = w[i].kind /\ q.parts = w[i].parts /\ q.reply = x /\ v \in Seq(Requests) /\ DOMAIN v = DOMAIN w
      /\ v[i] = q /\ \A j \in DOMAIN w : j # i => v[j] = w[j]
  BY <1>3 DEF Reply
<1>5. Ordered(v)
  BY <1>1, <1>3, ReplyOrdered
<1>6. \A j, l \in DOMAIN w : j < l /\ v[l].reply # "none" => v[j].reply # "none"
  BY <1>4, <1>5 DEF Ordered
<1>7. \A j \in DOMAIN w : v[j].kind = w[j].kind /\ v[j].parts = w[j].parts
  BY <1>4
<1>8. \A j \in DOMAIN w :
        \/ v[j] = w[j]
        \/ v[j].reply \notin {"ok", "fenced"} /\ (NoBump => v[j].reply # "bump")
        \/ v[j].reply = "fenced" /\ (k.fenced \/ v[j].kind \in {"end_commit", "end_abort"})
  BY <1>1, <1>4
<1>9. Ordered(v) /\ Rewrites(OnWire(w), OnWire(v), k)
  BY <1>3, <1>4, <1>6, <1>7, <1>8, WireAnswer
<1> QED
  BY <1>1, <1>2, <1>9, RewireGood

\* A request that is carried out.
LEMMA CarryGood ==
  ASSUME NEW s, NEW a, NEW k, NEW d, Good(s, a, k, d), NEW i \in DOMAIN s.wire, ~k.fenced,
         s.wire[i].reply = "none", \A j \in 1 .. (i - 1) : s.wire[j].reply # "none",
         NEW q, NEW t, Reply(s.wire, t.wire, i, q, "ok"), Same(s, t, {}), NEW l,
         \/ /\ s.wire[i].kind \in {"add_parts", "add_offsets"}
            /\ l = [k EXCEPT !.open = TRUE, !.parts = @ \cup s.wire[i].parts]
         \/ /\ s.wire[i].kind \in Last
            /\ (k.open \/ s.wire[i].kind = "init_pid" \/ k.last = s.wire[i].kind)
            /\ \/ l = Ended(k, IF s.wire[i].kind = "init_pid" THEN "none" ELSE s.wire[i].kind)
               \/ l = k /\ ~k.open
  PROVE  Good(t, a, l, d)
<1>1. PICK W : W = OnWire(s.wire)
  OBVIOUS
<1>2. PICK V : V = OnWire(t.wire)
  OBVIOUS
<1>3. PICK r : r = s.wire[i]
  OBVIOUS
<1>4. Sound(s, W, a, k, d) /\ Ordered(s.wire)
  BY <1>1 DEF Good
<1>5. /\ Ordered(t.wire) /\ V = (W \ {r}) \cup {q} /\ r \in W
      /\ r.kind \in Last => \A p \in W : p.kind \notin Last => p.reply # "none"
  <2>1. PICK w : w = s.wire
    OBVIOUS
  <2>2. PICK v : v = t.wire
    OBVIOUS
  <2>3. /\ Ordered(w) /\ i \in DOMAIN w /\ Reply(w, v, i, q, "ok") /\ w[i].reply = "none"
        /\ \A j \in 1 .. (i - 1) : w[j].reply # "none"
    BY <2>1, <2>2, <1>4
  <2>4. /\ Ordered(v) /\ OnWire(v) = (OnWire(w) \ {w[i]}) \cup {q} /\ w[i] \in OnWire(w)
        /\ w[i].kind \in Last => \A p \in OnWire(w) : p.kind \notin Last => p.reply # "none"
    <3>1. PICK x : x = "ok"
      OBVIOUS
    <3>2. Reply(w, v, i, q, x) /\ x # "none"
      BY <3>1, <2>3
    <3> QED
      BY <3>2, <2>3, ReplyOrdered
  <2> QED
    BY <2>1, <2>2, <2>4, <1>1, <1>2, <1>3
<1>6. q \in Requests /\ q.kind = r.kind /\ q.parts = r.parts /\ q.reply = "ok" /\ r.reply = "none"
  BY <1>3 DEF Reply
<1>7. CASE r.kind \in {"add_parts", "add_offsets"}
  <2>1. l = [k EXCEPT !.open = TRUE, !.parts = @ \cup r.parts]
    BY <1>3, <1>7 DEF Last
  <2>2. Sound(t, V, a, l, d)
    BY <2>1, <1>4, <1>5, <1>6, <1>7, RegisteredSound
  <2> QED
    BY <2>2, <1>2, <1>5 DEF Good
<1>8. CASE r.kind \in Last
  <2>1. l = Ended(k, IF r.kind = "init_pid" THEN "none" ELSE r.kind) \/ (l = k /\ ~k.open)
    BY <1>3, <1>8 DEF Last
  <2>3. k.open \/ r.kind = "init_pid" \/ k.last = r.kind
    BY <1>3, <1>8 DEF Last
  <2>2. Sound(t, V, a, l, d)
    BY <2>1, <2>3, <1>4, <1>5, <1>6, <1>8, EndedSound
  <2> QED
    BY <2>2, <1>2, <1>5 DEF Good
<1> QED
  BY <1>3, <1>7, <1>8

LEMMA AnswerIs ==
  ASSUME NEW s, NEW a, NEW k, NEW d, Good(s, a, k, d), NEW i \in DOMAIN s.wire, NEW x \in Replies,
         NEW t, t = [s EXCEPT !.wire[i].reply = x]
  PROVE  Same(s, t, {}) /\ \E q : Reply(s.wire, t.wire, i, q, x)
<1>1. Frame(s) /\ Ordered(s.wire)
  BY GoodFrame DEF Good
<1>2. PICK q : q = [s.wire[i] EXCEPT !.reply = x]
  OBVIOUS
<1>3. PICK v : v = [s.wire EXCEPT ![i] = q]
  OBVIOUS
<1>4. t = [s EXCEPT !.wire = v]
  BY <1>2, <1>3
<1>5. Same(s, t, {}) /\ t.wire = v
  BY <1>1, <1>4 DEF Same, Misc, Fields, Frame
<1>6. PICK w : w = s.wire
  OBVIOUS
<1>7. Ordered(w) /\ i \in DOMAIN w /\ q = [w[i] EXCEPT !.reply = x] /\ v = [w EXCEPT ![i] = q]
  BY <1>1, <1>2, <1>3, <1>6
<1>8. Reply(w, v, i, q, x)
  BY <1>7, WireReply
<1> QED
  BY <1>5, <1>6, <1>8

\* The coordinator's answer, and what it does.
Serves(k, r, x, l) ==
  \/ x = "fenced" /\ l = k /\ (k.fenced \/ r.kind \in {"end_commit", "end_abort"})
  \/ /\ x = "ok" /\ ~k.fenced
     /\ \/ /\ r.kind \in {"add_parts", "add_offsets"}
           /\ l = [k EXCEPT !.open = TRUE, !.parts = @ \cup r.parts]
        \/ /\ r.kind \in Last
           /\ (k.open \/ r.kind = "init_pid" \/ k.last = r.kind)
           /\ \/ l = Ended(k, IF r.kind = "init_pid" THEN "none" ELSE r.kind)
              \/ l = k /\ ~k.open

LEMMA CoordinatorServes ==
  ASSUME NEW k, NEW r, r.kind \in Kinds, NEW x, x = CoordinatorReply(k, r), NEW l, l = CoordinatorStep(k, r)
  PROVE  Serves(k, r, x, l)
<1>1. CASE k.fenced
  <2>1. CoordinatorReply(k, r) = "fenced"
    BY <1>1 DEF CoordinatorReply
  <2>2. l = k
    BY <2>1 DEF CoordinatorStep
  <2> QED
    BY <2>1, <2>2, <1>1 DEF Serves
<1>2. CASE ~k.fenced /\ r.kind \in {"end_commit", "end_abort"}
  <2>1. CASE k.open \/ k.last = r.kind
    <3>1. CoordinatorReply(k, r) = "ok"
      BY <1>2, <2>1 DEF CoordinatorReply
    <3>2. r.kind \notin {"add_parts", "add_offsets", "init_pid"}
      BY <1>2
    <3>3. l = IF k.open THEN Ended(k, r.kind) ELSE k
      BY <3>1, <3>2, <1>2 DEF CoordinatorStep
    <3>4. l = Ended(k, IF r.kind = "init_pid" THEN "none" ELSE r.kind) \/ (l = k /\ ~k.open)
      BY <3>2, <3>3
    <3> QED
      BY <3>1, <3>4, <2>1, <1>2 DEF Serves, Last
  <2>2. CASE ~(k.open \/ k.last = r.kind)
    <3>1. CoordinatorReply(k, r) = "fenced"
      BY <1>2, <2>2 DEF CoordinatorReply
    <3>2. l = k
      BY <3>1 DEF CoordinatorStep
    <3> QED
      BY <3>1, <3>2, <1>2 DEF Serves
  <2> QED
    BY <2>1, <2>2
<1>3. CASE ~k.fenced /\ r.kind \in {"add_parts", "add_offsets"}
  <2>1. CoordinatorReply(k, r) = "ok"
    BY <1>3 DEF CoordinatorReply
  <2>2. r.kind \notin {"end_commit", "end_abort", "init_pid"}
    BY <1>3
  <2>3. l = [k EXCEPT !.open = TRUE, !.parts = @ \cup r.parts]
    BY <2>1, <2>2, <1>3 DEF CoordinatorStep
  <2> QED
    BY <2>1, <2>3, <1>3 DEF Serves
<1>4. CASE ~k.fenced /\ r.kind = "init_pid"
  <2>1. CoordinatorReply(k, r) = "ok"
    BY <1>4 DEF CoordinatorReply
  <2>2. l = Ended(k, "none")
    BY <2>1, <1>4 DEF CoordinatorStep
  <2> QED
    BY <2>1, <2>2, <1>4 DEF Serves, Last
<1> QED
  BY <1>1, <1>2, <1>3, <1>4 DEF Kinds

LEMMA KindIs ==
  ASSUME NEW s, NEW a, NEW k, NEW d, Good(s, a, k, d), NEW i \in DOMAIN s.wire
  PROVE  s.wire[i].kind \in Kinds
<1>1. PICK w : w = s.wire
  OBVIOUS
<1>2. w \in Seq(Requests) /\ i \in DOMAIN w
  BY <1>1 DEF Good, Ordered
<1>3. w[i] \in Requests
  BY <1>2
<1> QED
  BY <1>1, <1>3 DEF Requests

LEMMA ServedGood ==
  ASSUME NEW s, NEW a, NEW k, NEW d, Good(s, a, k, d), NEW i \in DOMAIN s.wire,
         s.wire[i].reply = "none", \A j \in 1 .. (i - 1) : s.wire[j].reply # "none",
         NEW x, NEW l, NEW r, r = s.wire[i], Serves(k, r, x, l),
         NEW q, NEW t, Reply(s.wire, t.wire, i, q, x), Same(s, t, {})
  PROVE  Good(t, a, l, d)
<1>1. x \in {"ok", "fenced"}
  BY DEF Serves
<1>2. CASE x = "fenced"
  <2>1. l = k /\ (k.fenced \/ s.wire[i].kind \in {"end_commit", "end_abort"})
    BY <1>2 DEF Serves
  <2>2. Good(t, a, k, d)
    BY <2>1, <1>2, RefuseGood
  <2> QED
    BY <2>1, <2>2
<1>3. CASE x = "ok"
  <2>1. ~k.fenced /\ Reply(s.wire, t.wire, i, q, "ok")
    BY <1>3 DEF Serves
  <2>2. \/ /\ s.wire[i].kind \in {"add_parts", "add_offsets"}
           /\ l = [k EXCEPT !.open = TRUE, !.parts = @ \cup s.wire[i].parts]
        \/ /\ s.wire[i].kind \in Last
           /\ (k.open \/ s.wire[i].kind = "init_pid" \/ k.last = s.wire[i].kind)
           /\ \/ l = Ended(k, IF s.wire[i].kind = "init_pid" THEN "none" ELSE s.wire[i].kind)
              \/ l = k /\ ~k.open
    BY <1>3 DEF Serves
  <2> QED
    BY <2>1, <2>2, CarryGood
<1> QED
  BY <1>1, <1>2, <1>3

LEMMA CoordinatorGood ==
  ASSUME NEW s, NEW a, NEW k, NEW d, Good(s, a, k, d), NEW i \in DOMAIN s.wire,
         s.wire[i].reply = "none", \A j \in 1 .. (i - 1) : s.wire[j].reply # "none",
         NEW t, t = [s EXCEPT !.wire[i].reply = CoordinatorReply(k, s.wire[i])],
         NEW l, l = CoordinatorStep(k, s.wire[i])
  PROVE  Good(t, a, l, d)
<1>1. PICK r : r = s.wire[i]
  OBVIOUS
<1>2. PICK x : x = CoordinatorReply(k, r)
  OBVIOUS
<1>3. r.kind \in Kinds
  BY <1>1, KindIs
<1>4. Serves(k, r, x, l)
  BY <1>1, <1>2, <1>3, CoordinatorServes
<1>5. x \in Replies
  BY <1>4 DEF Serves, Replies
<1>6. t = [s EXCEPT !.wire[i].reply = x]
  BY <1>1, <1>2
<1>7. Same(s, t, {}) /\ \E q : Reply(s.wire, t.wire, i, q, x)
  BY <1>5, <1>6, AnswerIs
<1>8. PICK q : Reply(s.wire, t.wire, i, q, x)
  BY <1>7
<1> QED
  BY <1>1, <1>4, <1>7, <1>8, ServedGood

LEMMA CoordinatorFails ==
  ASSUME NEW s, NEW a, NEW k, NEW d, Good(s, a, k, d), NEW i \in DOMAIN s.wire,
         s.wire[i].reply = "none", \A j \in 1 .. (i - 1) : s.wire[j].reply # "none",
         NEW f \in {"coord", "load", "bump", "perm"}, NoBump => f # "bump", NEW t, t = [s EXCEPT !.wire[i].reply = f]
  PROVE  Good(t, a, k, d)
<1>1. f \in Replies /\ f \notin {"none", "ok"} /\ f # "fenced"
  BY DEF Replies
<1>2. Same(s, t, {}) /\ \E q : Reply(s.wire, t.wire, i, q, f)
  BY <1>1, AnswerIs
<1>3. PICK q : Reply(s.wire, t.wire, i, q, f)
  BY <1>2
<1> QED
  BY <1>1, <1>2, <1>3, RefuseGood

LEMMA ExpiredGood ==
  ASSUME NEW s, NEW a, NEW k, NEW d, Good(s, a, k, d), k.open, NEW l, l = [Ended(k, "none") EXCEPT !.fenced = TRUE]
  PROVE  Good(s, a, l, d)
<1>1. PICK W : W = OnWire(s.wire)
  OBVIOUS
<1>2. Sound(s, W, a, k, d) /\ Ordered(s.wire) /\ Same(s, s, {})
  BY <1>1, GoodFrame DEF Good
<1>3. Sound(s, W, a, l, d)
  BY <1>2, ExpiredSound
<1> QED
  BY <1>1, <1>2, <1>3 DEF Good

-----------------------------------------------------------------------------
(* The invariant. *)

\* The application's thread calls, enters and leaves a call, and produces.
LEMMA StepCall ==
  ASSUME Inv, NEW n \in Apis, Call(n), n = "begin" => c.txn < MaxTxns
  PROVE  Inv'
<1>1. app.at = "idle" /\ c.api.name \in {"none", n} /\ co' = co /\ told' = told
  BY DEF Call
<1>2. c' = CallTo(c, n) /\ app' = Begun(app, n)
  BY DEF Call, CallTo, Begun
<1>3. Good(c, app, co, told)
  BY DEF Inv
<1>4. Good(CallTo(c, n), Begun(app, n), co, told)
  BY <1>1, <1>3, CallGood
<1> QED
  BY <1>1, <1>2, <1>4 DEF Inv

LEMMA StepEnter ==
  ASSUME Inv, Enter
  PROVE  Inv'
<1>1. co' = co /\ told' = told /\ app.at = "enter"
  BY DEF Enter
<1>2. Phase = PhaseOf(app)
  BY DEF Phase, PhaseOf
<1>3. CASE /\ Phase = "flush" /\ (app.api = "abort" => c.timedout = {})
           /\ c' = IF app.api = "abort" THEN Purged(c) ELSE c
           /\ app' = [app EXCEPT !.at = "flush"]
  <2>1. Good(c', app', co, told)
    BY <1>1, <1>2, <1>3, FlushGood DEF Inv
  <2> QED
    BY <2>1, <1>1 DEF Inv
<1>4. CASE /\ Phase # "flush" /\ c.api.has_result
           /\ c' = [c EXCEPT !.api.has_result = FALSE, !.api.error = "none"]
           /\ app' = PhaseDone(app, c.api.error)
  <2>1. Good(c', app', co, told)
    BY <1>1, <1>2, <1>4, TakeGood DEF Inv
  <2> QED
    BY <2>1, <1>1 DEF Inv
<1>5. CASE /\ Phase # "flush" /\ ~c.api.has_result
           /\ c' = [c EXCEPT !.ops = Append(@, Phase)]
           /\ app' = [app EXCEPT !.at = "wait"]
  <2>1. Good(c', app', co, told)
    BY <1>1, <1>2, <1>5, EnterOpGood DEF Inv
  <2> QED
    BY <2>1, <1>1 DEF Inv
<1> QED
  BY <1>3, <1>4, <1>5 DEF Enter

LEMMA StepTakeResult ==
  ASSUME Inv, TakeResult
  PROVE  Inv'
<1>1. /\ app.at = "wait" /\ c.api.has_result /\ c' = [c EXCEPT !.api.has_result = FALSE, !.api.error = "none"]
      /\ app' = PhaseDone(app, c.api.error) /\ co' = co /\ told' = told
  BY DEF TakeResult
<1>2. Good(c', app', co, told)
  BY <1>1, TakeGood DEF Inv
<1> QED
  BY <1>1, <1>2 DEF Inv

LEMMA StepFlushed ==
  ASSUME Inv, Flushed
  PROVE  Inv'
<1>1. /\ app.at = "flush" /\ c.queued \cup c.flight = {} /\ app' = PhaseDone(app, "none") /\ c' = c
      /\ co' = co /\ told' = told
  BY DEF Flushed
<1>2. Good(c, app', co, told)
  BY <1>1, FlushedGood DEF Inv
<1> QED
  BY <1>1, <1>2 DEF Inv

LEMMA StepTimedOut ==
  ASSUME NoLateResult, Inv, TimedOut
  PROVE  Inv'
<1>1. /\ app.at \in {"wait", "flush"} /\ PhaseOf(app) \in TimeoutPhases /\ c' = c /\ co' = co /\ told' = told
      /\ app.at = "wait" => ~c.api.has_result /\ (Stalls \/ c.ops = <<>>)
      /\ app' = PhaseDone(app, "retriable")
  BY DEF TimedOut, Phase, PhaseOf
<1>2. ~Stalls /\ PhaseOf(app) \in {"init", "begin_commit", "begin_abort", "flush"}
  BY <1>1, TxnFaults DEF NoLateResult, Timed
<1>3. Good(c, app', co, told)
  BY <1>1, <1>2, TimedOutGood DEF Inv
<1> QED
  BY <1>1, <1>3 DEF Inv

LEMMA StepReturn ==
  ASSUME Inv, Return
  PROVE  Inv'
<1>1. /\ app.at = "return" /\ c' = ApiReturn(c, PhaseOf(app) \in Resumable, app.error) /\ co' = co
      /\ app' = [app EXCEPT !.at = "idle", !.api = "none", !.stage = 0, !.error = "none"]
      /\ told' = IF app.error = "none" /\ app.api \in {"commit", "abort"} /\ c.txn > 0
                 THEN [told EXCEPT ![c.txn] = app.api] ELSE told
  BY DEF Return, Phase, PhaseOf
<1>2. Good(c', app', co, told')
  BY <1>1, ReturnGood DEF Inv
<1> QED
  BY <1>1, <1>2 DEF Inv

LEMMA StepProduceCheck ==
  ASSUME Inv, ProduceCheck
  PROVE  Inv'
<1>1. app.at = "idle" /\ ~c.fatal /\ c.may_enq /\ c' = c /\ co' = co /\ told' = told
  BY DEF ProduceCheck
<1>2. PICK p \in Partitions : app' = [app EXCEPT !.at = "produce", !.arg = p]
  BY DEF ProduceCheck
<1>3. Good(c, app', co, told)
  BY <1>1, <1>2, ProduceCheckGood DEF Inv
<1> QED
  BY <1>1, <1>3 DEF Inv

LEMMA StepProduceEnqueue ==
  ASSUME Inv, ProduceEnqueue
  PROVE  Inv'
<1>1. /\ app.at = "produce" /\ co' = co /\ told' = told
      /\ c' = AddPartition([c EXCEPT !.queued = @ \cup {<<c.txn, app.arg>>},
                                     !.produced = @ \cup {<<c.txn, app.arg>>}], app.arg)
      /\ app' = [app EXCEPT !.at = "idle", !.arg = "none"]
  BY DEF ProduceEnqueue
<1>2. Good(c', app', co, told)
  BY <1>1, EnqueueGood DEF Inv
<1> QED
  BY <1>1, <1>2 DEF Inv

\* The broker threads.
LEMMA StepBroker ==
  ASSUME Inv, BrokerThread
  PROVE  Inv'
<1>1. CASE BrokerRound
  <2>1. PICK may, pid : c' = [c EXCEPT !.may_send = may, !.has_pid = pid]
    BY <1>1 DEF BrokerRound
  <2>2. app' = app /\ co' = co /\ told' = told
    BY <1>1 DEF BrokerRound
  <2>3. Frame(c)
    BY GoodFrame DEF Inv
  <2>4. Same(c, c', {}) /\ c'.wire = c.wire
    BY <2>1, <2>3 DEF Same, Misc, Fields, Frame
  <2>5. Good(c', app, co, told)
    BY <2>4, MiscGood DEF Inv
  <2> QED
    BY <2>2, <2>5 DEF Inv
<1>2. CASE SendMessage
  <2>1. PICK m \in c.queued : m[2] \in c.rktps /\ c' = [c EXCEPT !.queued = @ \ {m}, !.flight = @ \cup {m}]
    BY <1>2 DEF SendMessage
  <2>2. ~c.fatal /\ app' = app /\ co' = co /\ told' = told
    BY <1>2 DEF SendMessage
  <2>3. Good(c', app, co, told)
    BY <2>1, <2>2, SendGood DEF Inv
  <2> QED
    BY <2>2, <2>3 DEF Inv
<1>3. CASE MessageTimeout
  <2>1. PICK m \in c.queued :
          LET u == Failed([c EXCEPT !.queued = @ \ {m}], {m})
          IN c' = u \/ c' = [u EXCEPT !.timedout = @ \cup {m[2]}]
    BY <1>3 DEF MessageTimeout
  <2>4. PICK u : u = Failed([c EXCEPT !.queued = @ \ {m}], {m})
    OBVIOUS
  <2>5. c' = u \/ c' = [u EXCEPT !.timedout = @ \cup {m[2]}]
    BY <2>1, <2>4
  <2>2. app' = app /\ co' = co /\ told' = told
    BY <1>3 DEF MessageTimeout
  <2>3. Good(c', app, co, told)
    BY <2>5, <2>4, TimeoutGood DEF Inv
  <2> QED
    BY <2>2, <2>3 DEF Inv
<1>4. CASE PurgeQueues
  <2>1. c' = Purged(c) /\ app' = app /\ co' = co /\ told' = told
    BY <1>4 DEF PurgeQueues
  <2>2. Good(c', app, co, told)
    BY <2>1, PurgeGood DEF Inv
  <2> QED
    BY <2>1, <2>2 DEF Inv
<1>5. CASE ProduceReply
  <2>1. PICK m \in c.flight : HandleProduce(m)
    BY <1>5 DEF ProduceReply
  <2>2. app' = app /\ told' = told
    BY <1>5 DEF ProduceReply
  <2>3. CASE ~co.fenced /\ c' = Landed(c, m) /\ co' = [co EXCEPT !.written = @ \cup {m}]
    <3>1. Good(c', app, co', told)
      BY <2>3, DeliveredGood DEF Inv
    <3> QED
      BY <3>1, <2>2 DEF Inv
  <2>4. CASE co.fenced /\ c' = Landed(DrainReset(SetFatalError(Failed(c, {m}))), m) /\ co' = co
    <3>1. Good(c', app, co, told)
      BY <2>4, RefusedFenced DEF Inv
    <3> QED
      BY <3>1, <2>2, <2>4 DEF Inv
  <2>5. CASE c' = Landed(SetAbortableError(Failed(c, {m}), FALSE), m) /\ co' = co
    <3>1. Good(c', app, co, told)
      BY <2>5, RefusedPerm DEF Inv
    <3> QED
      BY <3>1, <2>2, <2>5 DEF Inv
  <2>6. CASE c' = Landed(SetAbortableError(DrainEpochBump(Failed(c, {m}), TRUE), TRUE), m) /\ co' = co
    <3>1. Good(c', app, co, told)
      BY <2>6, RefusedBump DEF Inv
    <3> QED
      BY <3>1, <2>2, <2>6 DEF Inv
  <2>7. CASE c' = Landed(Failed(c, {m}), m) /\ (co' = co \/ (~co.fenced /\ co' = [co EXCEPT !.written = @ \cup {m}]))
    <3>1. Good(c', app, co', told)
      BY <2>7, LostGood DEF Inv
    <3> QED
      BY <3>1, <2>2 DEF Inv
  <2> QED
    BY <2>1, <2>3, <2>4, <2>5, <2>6, <2>7 DEF HandleProduce
<1>6. CASE TimeoutBump
  <2>1. PICK p \in c.timedout : c' = DrainEpochBump([c EXCEPT !.timedout = @ \ {p}], TRUE)
    BY <1>6 DEF TimeoutBump
  <2>2. app' = app /\ co' = co /\ told' = told
    BY <1>6 DEF TimeoutBump
  <2>3. Good(c', app, co, told)
    BY <2>1, TimeoutBumpGood DEF Inv
  <2> QED
    BY <2>2, <2>3 DEF Inv
<1> QED
  BY <1>1, <1>2, <1>3, <1>4, <1>5, <1>6 DEF BrokerThread

\* The main thread.
LEMMA StepMain ==
  ASSUME Inv, MainThread
  PROVE  Inv'
<1>0. Good(c, app, co, told)
  BY DEF Inv
<1>1. CASE HandleOp
  <2>1. PICK s : s = [c EXCEPT !.ops = Tail(@)]
    OBVIOUS
  <2>2. c.ops # <<>> /\ c' = Op(s, Head(c.ops)) /\ app' = app /\ co' = co /\ told' = told
    BY <1>1, <2>1 DEF HandleOp
  <2>3. Good(c', app, co, told)
    BY <2>1, <2>2, <1>0, OpGood
  <2> QED
    BY <2>2, <2>3 DEF Inv
<1>2. CASE HandleReply
  <2>1. PICK s : s = [c EXCEPT !.wire = Tail(@)]
    OBVIOUS
  <2>2. PICK r : r = Head(c.wire)
    OBVIOUS
  <2>3. /\ c.wire # <<>> /\ Head(c.wire).reply # "none" /\ app' = app /\ co' = co /\ told' = told
        /\ \/ r.kind = "add_offsets" /\ \E expired \in BOOLEAN : c' = HandleAddOffsetsToTxn(s, r, expired)
           \/ r.kind # "add_offsets"
              /\ c' = CASE r.kind = "add_parts" -> HandleAddPartitionsToTxn(s, r)
                        [] r.kind = "init_pid"  -> HandleInitProducerId(s, r.reply)
                        [] r.kind \in {"end_commit", "end_abort"} -> HandleEndTxn(s, r)
    BY <1>2, <2>1, <2>2 DEF HandleReply
  <2>4. Good(c', app, co, told)
    BY <2>1, <2>2, <2>3, <1>0, ReplyGood
  <2> QED
    BY <2>3, <2>4 DEF Inv
<1>3. CASE Timer
  <2>1. PICK x \in c.timers :
          LET s == [c EXCEPT !.timers = @ \ {x}]
          IN c' = CASE x = "coord"    -> CoordQuery(s)
                    [] x = "pid"      -> PidFsm(s)
                    [] x = "register" -> RegisterPartitions(s)
    BY <1>3 DEF Timer
  <2>2. PICK s : s = [c EXCEPT !.timers = @ \ {x}]
    OBVIOUS
  <2>3. c' = CASE x = "coord"    -> CoordQuery(s)
               [] x = "pid"      -> PidFsm(s)
               [] x = "register" -> RegisterPartitions(s)
    BY <2>1, <2>2
  <2>4. app' = app /\ co' = co /\ told' = told
    BY <1>3 DEF Timer
  <2>5. Good(c', app, co, told)
    BY <2>2, <2>3, <1>0, TimerGood
  <2> QED
    BY <2>4, <2>5 DEF Inv
<1>4. CASE HandleFindCoordinator
  <2>1. PICK s : s = [c EXCEPT !.wait_coord = FALSE]
    OBVIOUS
  <2>2. app' = app /\ co' = co /\ told' = told
        /\ \/ c' = CoordSet(s, TRUE) \/ c' = CoordSet(s, FALSE)
           \/ c' = IdempSetState(SetFatalError(s), "FATAL_ERROR")
    BY <1>4, <2>1 DEF HandleFindCoordinator
  <2>3. CASE c' = CoordSet(s, TRUE) \/ c' = CoordSet(s, FALSE)
    <3>1. PICK known \in BOOLEAN : c' = CoordSet(s, known)
      BY <2>3
    <3>2. Good(c', app, co, told)
      BY <2>1, <3>1, <1>0, FindCoordinatorGood
    <3> QED
      BY <2>2, <3>2 DEF Inv
  <2>4. CASE c' = IdempSetState(SetFatalError(s), "FATAL_ERROR")
    <3>1. Good(c', app, co, told)
      BY <2>1, <2>4, <1>0, FindFatalGood
    <3> QED
      BY <2>2, <3>1 DEF Inv
  <2> QED
    BY <2>2, <2>3, <2>4
<1>5. CASE SendTxnOffsetCommit
  <2>1. c.offc = "request" /\ c' = SendTxnOffsetCommitRequest(c) /\ app' = app /\ co' = co /\ told' = told
    BY <1>5 DEF SendTxnOffsetCommit
  <2>2. Good(c', app, co, told)
    BY <2>1, <1>0, SendOffsetCommitGood
  <2> QED
    BY <2>1, <2>2 DEF Inv
<1> QED
  BY <1>1, <1>2, <1>3, <1>4, <1>5 DEF MainThread

\* The connection, the coordinators and the transaction's timeout.
LEMMA StepEnvironment ==
  ASSUME Inv, Environment
  PROVE  Inv'
<1>0. Good(c, app, co, told)
  BY DEF Inv
<1>1. CASE Connect
  <2>1. PICK s : s = [c EXCEPT !.up = TRUE]
    OBVIOUS
  <2>2. /\ c' = CASE s.idemp_state \in {"INIT", "FATAL_ERROR", "REQ_PID", "WAIT_TRANSPORT", "WAIT_PID"} -> PidFsm(s)
                  [] s.idemp_state = "ASSIGNED" -> Arm(s, "register")
                  [] OTHER -> s
        /\ app' = app /\ co' = co /\ told' = told
    BY <1>1, <2>1 DEF Connect
  <2>3. Good(c', app, co, told)
    BY <2>1, <2>2, <1>0, ConnectGood
  <2> QED
    BY <2>2, <2>3 DEF Inv
<1>2. CASE Disconnect
  <2>1. PICK n \in 0 .. Len(c.wire) :
          /\ \A i \in 1 .. n : c.wire[i].reply # "none"
          /\ c' = Arm([c EXCEPT !.up = FALSE,
                         !.wire = [i \in DOMAIN @ |->
                                     IF i <= n THEN @[i] ELSE [@[i] EXCEPT !.reply = "transport"]]], "coord")
    BY <1>2 DEF Disconnect
  <2>2. app' = app /\ co' = co /\ told' = told
    BY <1>2 DEF Disconnect
  <2>3. Good(c', app, co, told)
    BY <2>1, <1>0, DisconnectGood
  <2> QED
    BY <2>2, <2>3 DEF Inv
<1>3. CASE Coordinator
  <2>1. PICK i \in DOMAIN c.wire :
          /\ Unanswered(i)
          /\ \/ /\ c' = [c EXCEPT !.wire[i].reply = CoordinatorReply(co, c.wire[i])]
                /\ co' = CoordinatorStep(co, c.wire[i])
             \/ \E f \in {"coord", "load", "bump", "perm"} : f \in Faults /\ c' = [c EXCEPT !.wire[i].reply = f] /\ co' = co
    BY <1>3 DEF Coordinator, Fault
  <2>2. c.wire[i].reply = "none" /\ \A j \in 1 .. (i - 1) : c.wire[j].reply # "none"
    BY <2>1 DEF Unanswered
  <2>3. app' = app /\ told' = told
    BY <1>3 DEF Coordinator
  <2>4. CASE /\ c' = [c EXCEPT !.wire[i].reply = CoordinatorReply(co, c.wire[i])]
             /\ co' = CoordinatorStep(co, c.wire[i])
    <3>1. Good(c', app, co', told)
      BY <2>2, <2>4, <1>0, CoordinatorGood
    <3> QED
      BY <3>1, <2>3 DEF Inv
  <2>5. CASE \E f \in {"coord", "load", "bump", "perm"} : f \in Faults /\ c' = [c EXCEPT !.wire[i].reply = f] /\ co' = co
    <3>1. PICK f \in {"coord", "load", "bump", "perm"} : f \in Faults /\ c' = [c EXCEPT !.wire[i].reply = f] /\ co' = co
      BY <2>5
    <3>3. NoBump => f # "bump"
      BY <3>1 DEF NoBump
    <3>2. Good(c', app, co, told)
      BY <3>1, <3>3, <2>2, <1>0, CoordinatorFails
    <3> QED
      BY <3>1, <3>2, <2>3 DEF Inv
  <2> QED
    BY <2>1, <2>4, <2>5
<1>4. CASE GroupCoordinator
  <2>1. c.offc # "none" /\ app' = app /\ told' = told
    BY <1>4 DEF GroupCoordinator
  <2>2. CASE /\ ~co.fenced /\ c' = HandleTxnOffsetCommit(c, "ok", FALSE)
             /\ co' = [co EXCEPT !.written = @ \cup {<<c.txn, OFF>>}]
    <3>1. Good(c', app, co', told)
      BY <2>1, <2>2, <1>0, OffsetCommitOk
    <3> QED
      BY <3>1, <2>1 DEF Inv
  <2>3. CASE co.fenced /\ c' = HandleTxnOffsetCommit(c, "fenced", FALSE) /\ co' = co
    <3>1. Good(c', app, co, told)
      BY <2>1, <2>3, <1>0, OffsetCommitGood
    <3> QED
      BY <3>1, <2>1, <2>3 DEF Inv
  <2>4. CASE c' = HandleTxnOffsetCommit(c, "perm", FALSE) /\ co' = co
    <3>1. Good(c', app, co, told)
      BY <2>1, <2>4, <1>0, OffsetCommitGood
    <3> QED
      BY <3>1, <2>1, <2>4 DEF Inv
  <2>5. CASE /\ \E expired \in BOOLEAN : c' = HandleTxnOffsetCommit(c, "transport", expired)
             /\ co' = co \/ (~co.fenced /\ co' = [co EXCEPT !.written = @ \cup {<<c.txn, OFF>>}])
    <3>1. Good(c, app, co', told)
      BY <2>1, <2>5, <1>0, OffsetsWrittenGood
    <3>2. PICK expired \in BOOLEAN : c' = HandleTxnOffsetCommit(c, "transport", expired)
      BY <2>5
    <3>3. Good(c', app, co', told)
      BY <3>1, <3>2, <2>1, OffsetCommitGood
    <3> QED
      BY <3>3, <2>1 DEF Inv
  <2> QED
    BY <1>4, <2>2, <2>3, <2>4, <2>5 DEF GroupCoordinator
<1>5. CASE Expire
  <2>1. co' = [Ended(co, "none") EXCEPT !.fenced = TRUE] /\ c' = c /\ app' = app /\ told' = told /\ co.open
    BY <1>5 DEF Expire
  <2>2. Good(c, app, co', told)
    BY <2>1, <1>0, ExpiredGood
  <2> QED
    BY <2>1, <2>2 DEF Inv
<1> QED
  BY <1>1, <1>2, <1>3, <1>4, <1>5 DEF Environment

LEMMA StepApp ==
  ASSUME NoLateResult, Inv, AppThread
  PROVE  Inv'
<1>1. CASE InitTransactions
  BY <1>1, StepCall DEF InitTransactions, Apis
<1>2. CASE BeginTransaction
  BY <1>2, StepCall DEF BeginTransaction, Apis
<1>3. CASE SendOffsets
  BY <1>3, StepCall DEF SendOffsets, Apis
<1>4. CASE CommitTransaction
  BY <1>4, StepCall DEF CommitTransaction, Apis
<1>5. CASE AbortTransaction
  BY <1>5, StepCall DEF AbortTransaction, Apis
<1>6. CASE Enter
  BY <1>6, StepEnter
<1>7. CASE TakeResult
  BY <1>7, StepTakeResult
<1>8. CASE Flushed
  BY <1>8, StepFlushed
<1>9. CASE TimedOut
  BY <1>9, StepTimedOut
<1>10. CASE Return
  BY <1>10, StepReturn
<1>11. CASE ProduceCheck
  BY <1>11, StepProduceCheck
<1>12. CASE ProduceEnqueue
  BY <1>12, StepProduceEnqueue
<1> QED
  BY <1>1, <1>2, <1>3, <1>4, <1>5, <1>6, <1>7, <1>8, <1>9, <1>10, <1>11, <1>12 DEF AppThread

LEMMA InitInv ==
  ASSUME Init
  PROVE  Inv
<1>1. /\ DOMAIN c = Fields /\ c.txn_state = "INIT" /\ c.idemp_state = "INIT" /\ c.fatal = FALSE /\ c.txn_err = FALSE
      /\ c.bump = FALSE /\ c.req_cnt = 0 /\ c.may_enq = FALSE /\ c.dr_fails = FALSE /\ c.pending = {}
      /\ c.waitresp = {} /\ c.rktps = {} /\ c.ops = <<>> /\ c.wire = <<>> /\ c.offc = "none" /\ c.timers = {}
      /\ c.queued = {} /\ c.flight = {} /\ c.txn = 0 /\ c.produced = {} /\ c.asserts = TRUE /\ c.timedout = {}
  BY DEF Init, ClientInit, Fields
<1>2. c.api = [name |-> "none", calling |-> FALSE, has_result |-> FALSE, error |-> "none"]
  BY DEF Init, ClientInit
<1>3. c.api.name = "none" /\ c.api.calling = FALSE /\ c.api.has_result = FALSE /\ c.api.error = "none" /\ ApiOK(c.api)
  BY <1>2 DEF ApiOK, Errors
<1>4. /\ app \in Apps /\ app.at = "idle" /\ app.api = "none" /\ app.stage = 0 /\ app.error = "none"
  BY DEF Init, Apps, Errors
<1>5. /\ co \in Coords /\ co.parts = {} /\ co.open = FALSE /\ co.fenced = FALSE /\ co.written = {} /\ co.committed = {}
      /\ co.aborted = {}
  BY DEF Init, CoordinatorInit, Coords
<1>6. told \in Tolds /\ \A t \in 1 .. MaxTxns : told[t] = "none"
  BY DEF Init, Tolds
<1>7. Ordered(c.wire) /\ OnWire(c.wire) = {}
  BY <1>1, WireEmpty
<1>8. PICK W : W = OnWire(c.wire)
  OBVIOUS
<1>9. W = {}
  BY <1>7, <1>8
<1>10. ClientOK(c)
  <2>1. c.txn_state \in TxnStates /\ c.idemp_state \in IdempStates
    BY <1>1 DEF TxnStates, IdempStates
  <2>2. c.req_cnt \in Int /\ c.txn \in 0 .. MaxTxns
    BY <1>1, TxnBounds
  <2>3. c.ops \in Seq(OpNames)
    BY <1>1
  <2> QED
    BY <1>1, <1>3, <2>1, <2>2, <2>3 DEF ClientOK
<1>11. AppOK(app) /\ ~InCall(app)
  BY <1>4 DEF AppOK, InCall
<1>12. StatesOK(c)
  BY <1>1 DEF StatesOK, Aborting, Outside
<1>13. QueueOK(c, app)
  BY <1>1, <1>4 DEF QueueOK, Sending
<1>14. WireOK(c, W)
  BY <1>1, <1>9 DEF WireOK, Only, Has, Reacquiring, Aborting
<1>15. ListsOK(c, W)
  BY <1>1 DEF ListsOK, Sending
<1>16. CountOK(c, W, co)
  BY <1>1, <1>5, <1>9 DEF CountOK, Has, One
<1>17. SlotOK(c, app)
  BY <1>1, <1>3, <1>4, <1>11 DEF SlotOK
<1>18. OpsOK(c, W, app)
  BY <1>1, <1>3, <1>4 DEF OpsOK
<1>19. CallOK(c, W, app)
  BY <1>1, <1>9 DEF CallOK, Has, Reacquiring, Aborting
<1>20. EndOK(c, app)
  BY <1>1, <1>3, <1>4 DEF EndOK, At
<1>21. LogOK(c, co)
  BY <1>1, <1>5 DEF LogOK
<1>22. RepliesOK(c, W, co)
  BY <1>9 DEF RepliesOK
<1>23. PartsOK(c, W, app, co)
  BY <1>1, <1>9 DEF PartsOK
<1>24. OutcomeOK(c, W, app, co)
  BY <1>1, <1>4, <1>5, <1>9 DEF OutcomeOK, Of, Sending, Has
<1>25. ToldOK(c, app, co, told)
  BY <1>1, <1>4, <1>6 DEF ToldOK
<1>27. SettledOK(c, W, app, told)
  BY <1>1 DEF SettledOK
<1>28. AbortOK(c, W, app, co, told)
  <2>1. ~CommitLost(c, co)
    BY <1>1 DEF CommitLost
  <2> QED
    BY <2>1, <1>1, <1>4, <1>6, <1>9 DEF AbortOK
<1>26. Sound(c, W, app, co, told)
  BY <1>1, <1>4, <1>5, <1>6, <1>10, <1>11, <1>12, <1>13, <1>14, <1>15, <1>16, <1>17, <1>18, <1>19, <1>20, <1>21,
     <1>22, <1>23, <1>24, <1>25, <1>27, <1>28 DEF Sound
<1> QED
  BY <1>7, <1>8, <1>26 DEF Inv, Good

\* Every step keeps the invariant.
LEMMA NextInv ==
  ASSUME NoLateResult
  PROVE  Inv /\ [Next]_vars => Inv'
<1> SUFFICES ASSUME Inv, [Next]_vars PROVE Inv'
  OBVIOUS
<1>1. CASE MainThread
  BY <1>1, StepMain
<1>2. CASE BrokerThread
  BY <1>2, StepBroker
<1>3. CASE AppThread
  BY <1>3, StepApp
<1>4. CASE Environment
  BY <1>4, StepEnvironment
<1>5. CASE UNCHANGED vars
  BY <1>5 DEF vars, Inv
<1> QED
  BY <1>1, <1>2, <1>3, <1>4, <1>5 DEF Next

LEMMA InvImplies == Inv => AssertsHold /\ AllOrNothing /\ CommitIsTrue /\ (NoBump => AbortIsTrue)
<1> SUFFICES ASSUME Inv PROVE AssertsHold /\ AllOrNothing /\ CommitIsTrue /\ (NoBump => AbortIsTrue)
  OBVIOUS
<1>1. PICK W : W = OnWire(c.wire)
  OBVIOUS
<1>2. /\ ClientOK(c) /\ c.asserts /\ app \in Apps /\ co \in Coords /\ told \in Tolds /\ CountOK(c, W, co) /\ ListsOK(c, W)
      /\ OutcomeOK(c, W, app, co) /\ ToldOK(c, app, co, told) /\ (NoBump => AbortOK(c, W, app, co, told))
  BY <1>1 DEF Inv, Good, Sound
<1>3. c.req_cnt \in Nat
  <2>1. CASE c.txn_state = "READY"
    BY <2>1, <1>2 DEF ListsOK, Outside
  <2>2. CASE c.txn_state # "READY"
    <3>1. c.req_cnt >= 0 /\ c.req_cnt \in Int
      BY <2>2, <1>2 DEF CountOK, One, ClientOK
    <3> QED
      BY <3>1
  <2> QED
    BY <2>1, <2>2
<1>4. TypeOK
  <2>1. c.api.name \in Apis \cup {"none"} /\ c.api.error \in Errors
    BY <1>2 DEF ClientOK, ApiOK
  <2>2. app.at \in {"idle", "enter", "wait", "flush", "return", "produce"} /\ co.written \subseteq Messages
    BY <1>2 DEF Apps, Coords
  <2> QED
    BY <2>1, <2>2, <1>2, <1>3 DEF TypeOK, ClientOK, Timers, Tolds
<1>5. AllOrNothing
  BY <1>2 DEF OutcomeOK, AllOrNothing
<1>6. CommitIsTrue
  BY <1>2 DEF ToldOK, CommitIsTrue
<1>7. NoBump => AbortIsTrue
  BY <1>2 DEF AbortOK, AbortIsTrue
<1> QED
  BY <1>2, <1>4, <1>5, <1>6, <1>7 DEF AssertsHold

\* Client, wire, application, coordinator and log fit together as Inv says after
\* every handler of the main thread, every step of the broker threads and of the
\* application, every reply, fault and timeout that leaves no late result.
THEOREM TxnInvariant ==
  ASSUME NoLateResult
  PROVE  Spec => []Inv
<1>1. Init => Inv
  BY InitInv
<1>2. Inv /\ [Next]_vars => Inv'
  BY NextInv
<1> QED
  BY <1>1, <1>2, PTL DEF Spec

\* No rd_assert() of rdkafka_txnmgr.c fails and the state keeps its types, whatever
\* order ops, replies, timers, delivery reports and failures are handled in: every
\* change of the transaction's state is a valid one, a request that is answered has
\* been counted, and nothing is left of the last transaction when the next begins.
THEOREM TxnAssertsHold ==
  ASSUME NoLateResult
  PROVE  Spec => []AssertsHold
BY TxnInvariant, InvImplies, PTL

\* A transaction is committed as a whole or not at all: when EndTxn(commit) is carried
\* out, every message that produce() accepted in it, and the offsets if they were
\* sent, are written and belong to the coordinator's transaction.
THEOREM TxnAllOrNothing ==
  ASSUME NoLateResult
  PROVE  Spec => []AllOrNothing
BY TxnInvariant, InvImplies, PTL

\* What rd_kafka_commit_transaction() returns is true: when it reports success every
\* message of the transaction is committed, although the reply of EndTxn may have
\* been lost, retried or answered by another coordinator.
THEOREM TxnCommitIsTrue ==
  ASSUME NoLateResult
  PROVE  Spec => []CommitIsTrue
BY TxnInvariant, InvImplies, PTL

\* Neither call lies: besides, when rd_kafka_abort_transaction() reports success no
\* message of the transaction is committed, although a commit may have been carried
\* out, its reply lost and the abort been called after it.  Where the coordinator
\* answers with an error that calls for a new epoch this fails: a lost commit, then
\* such an error, and the abort completes by acquiring a producer id.
THEOREM TxnToldTheTruth ==
  ASSUME NoLateResult, NoBump
  PROVE  Spec => []ToldTheTruth
<1>1. Inv => ToldTheTruth
  BY InvImplies DEF ToldTheTruth
<1> QED
  BY <1>1, TxnInvariant, PTL

=============================================================================
