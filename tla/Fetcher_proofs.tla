--------------------------- MODULE Fetcher_proofs ---------------------------
(***************************************************************************)
(* Type correctness of the fetcher with the order of its three versions,   *)
(* and that no outdated message is handed to the application, for every    *)
(* log, position, number of calls and faults and every order of the        *)
(* threads.                                                                *)
(*                                                                         *)
(* The partition is a record that the handlers transform, so the invariant *)
(* is a predicate on such a record, and there is one lemma per             *)
(* transformation.                                                         *)
(***************************************************************************)
EXTENDS Fetcher, WellFoundedInduction, SequenceTheorems, TLAPS

-----------------------------------------------------------------------------
(* Sets of numbers. *)

\* The relation NatLessThanWellFounded speaks of, as a set of pairs.
LEMMA LessThanRel == OpToRel(<, Nat) = {ss \in Nat \X Nat : ss[1] < ss[2]}
  BY DEF OpToRel

\* A non-empty set of natural numbers has a least element.
LEMMA LeastExists ==
  ASSUME NEW T, T \subseteq Nat, T # {}
  PROVE  \E x \in T : \A y \in T : x <= y
<1> DEFINE R == {ss \in Nat \X Nat : ss[1] < ss[2]}
<1>1. IsWellFoundedOn(R, Nat)
  BY NatLessThanWellFounded, LessThanRel
<1>2. \A x, y \in Nat : x < y => <<x, y>> \in R
  OBVIOUS
<1> HIDE DEF R
<1>3. PICK x \in T : \A y \in T : ~(<<y, x>> \in R)
  BY <1>1, WFMin
<1>4. ASSUME NEW y \in T PROVE x <= y
  <2>1. x \in Nat /\ y \in Nat
    OBVIOUS
  <2>2. y < x => <<y, x>> \in R
    BY <1>2, <2>1
  <2>3. ~(y < x)
    BY <1>3, <2>2
  <2>4. QED
    BY <2>1, <2>3
<1>5. QED
  BY <1>4

\* Min of the library is the least element.
LEMMA MinIn ==
  ASSUME NEW T, T \subseteq Nat, T # {}
  PROVE  Min(T) \in T /\ \A y \in T : Min(T) <= y
  BY LeastExists DEF Min

\* Max of the library is the greatest element of a bounded set.
LEMMA MaxIn ==
  ASSUME NEW n \in Nat, NEW T, T \subseteq 0 .. n, T # {}
  PROVE  Max(T) \in T /\ \A y \in T : Max(T) >= y
<1> DEFINE U == {n - x : x \in T}
<1>1. \A x \in T : n - x \in U /\ n - x \in Nat
  OBVIOUS
<1>2. \A u \in U : \E x \in T : u = n - x
  OBVIOUS
<1> HIDE DEF U
<1>3. U \subseteq Nat /\ U # {}
  BY <1>1, <1>2
<1>4. PICK u \in U : \A v \in U : u <= v
  BY <1>3, LeastExists
<1>5. PICK x \in T : u = n - x
  BY <1>2
<1>6. \A y \in T : x >= y
  BY <1>1, <1>4, <1>5
<1>7. QED
  BY <1>6 DEF Max

Fields == {"version", "op_version", "fetch_version", "state", "next", "last",
           "fetch_pos", "app_pos", "val_pos", "query", "lo", "validating", "paused",
           "query_tmr", "validate_tmr", "backoff", "leader", "broker", "ops",
           "fetchq", "net", "era", "start", "asked", "fera", "fstart"}

\* A message of the queue: one that is no error carries the version of its Fetch, and
\* there is an offset after it.
Queued == {m \in Message : m.err \/ (m.ver >= 1 /\ m.off < MaxLog)}

Fetched == {m \in [off : Offsets, ep : Epochs] : m.off < MaxLog}

\* A request: a Fetch carries a version, which is never 0.
Requests ==
  {r \in [type : {"fetch", "list", "epoch"}, ver : Nat, pos : Positions, to : Epochs,
          answer : {"none", "ok", "lost", "not_leader", "out_of_range"},
          msgs : Seq(Fetched), lo : Offsets \cup {Invalid}, era : Nat, start : Int] :
     r.type = "fetch" => r.ver >= 1}

OpTypes == Commands \cup {"list", "epoch", "reset"}

\* An op; a command carries a version that its caller has taken.
Ops(version) ==
  {o \in [type : OpTypes, ver : Nat, pos : Positions,
          res : {"ok", "temporary", "permanent"}, from : Epochs] :
     o.type \in Commands => o.ver <= version}

VersionsOK(s) ==
  /\ s.version \in Nat /\ s.op_version \in Nat /\ s.fetch_version \in Nat
  /\ 1 <= s.op_version
  /\ s.fetch_version <= s.op_version /\ s.op_version <= s.version

PlacesOK(s) ==
  /\ s.next \in Positions /\ s.last \in Positions
  /\ s.fetch_pos \in Positions /\ s.app_pos \in Positions /\ s.val_pos \in Positions
  /\ s.query \in {Invalid, Begin, End} /\ s.lo \in Offsets \cup {Invalid}
  /\ s.era \in Nat /\ s.start \in Int /\ s.fera \in Nat /\ s.fstart \in Int

BrokersOK(s) == s.leader \in Epochs /\ s.broker \in Epochs /\ s.broker <= s.leader

QueuesOK(s) ==
  /\ s.ops \in Seq(Ops(s.version)) /\ s.fetchq \in Seq(Queued) /\ s.net \in Seq(Requests)

Sound(s) ==
  /\ DOMAIN s = Fields /\ s.state \in FetchStates
  /\ VersionsOK(s) /\ PlacesOK(s) /\ BrokersOK(s) /\ QueuesOK(s)

\* What a handler of the main thread or the broker thread may do.
Handled(s, t) == Sound(t) /\ s.version <= t.version /\ t.leader = s.leader

LogOK ==
  /\ log \in [lo : Nat, epochs : Seq(1 .. MaxMoves + 1), leader : 1 .. MaxMoves + 1]
  /\ log.lo <= Len(log.epochs) /\ Len(log.epochs) <= MaxLog
  /\ c.leader <= log.leader

CallType(x) ==
  /\ DOMAIN x = {"at", "op", "ver", "pos", "async"}
  /\ x.at \in {"idle", "bumped", "wait", "ok", "outdated", "state"}
  /\ x.op \in Commands \cup {"none"} /\ x.ver \in Nat /\ x.pos \in Positions

CallOK ==
  /\ CallType(call)
  /\ call.ver <= c.version
  /\ call.at = "bumped" => call.op \in Commands

\* The version of the application's last call is at most the partition's.
AppOK ==
  /\ DOMAIN app = {"started", "paused", "barrier", "era", "next", "stale", "astray"}
  /\ app.barrier \in Nat /\ app.barrier <= c.version
  /\ app.stale = FALSE

Inv == Sound(c) /\ LogOK /\ CallOK /\ AppOK

LEMMA OpsGrow ==
  ASSUME NEW v \in Nat, NEW w \in Nat, v <= w
  PROVE  Seq(Ops(v)) \subseteq Seq(Ops(w))
<1>1. Ops(v) \subseteq Ops(w)
  BY DEF Ops
<1>2. QED
  BY <1>1, SeqMonotonic


LEMMA PrefixSeq ==
  ASSUME NEW S, NEW q \in Seq(S), NEW n \in 0 .. Len(q)
  PROVE  SubSeq(q, 1, n) \in Seq(S) /\ Len(SubSeq(q, 1, n)) = n
<1>1. Len(q) \in Nat /\ n \in Nat /\ n <= Len(q) /\ DOMAIN q = 1 .. Len(q)
  OBVIOUS
<1>2. SubSeq(q, 1, n) = [i \in 1 .. n |-> q[i]]
  BY <1>1
<1>3. \A i \in 1 .. n : q[i] \in S
  BY <1>1, ElementOfSeq
<1>4. QED
  BY <1>1, <1>2, <1>3

LEMMA RemoveAtSeq ==
  ASSUME NEW S, NEW q \in Seq(S), NEW i \in DOMAIN q
  PROVE  RemoveAt(q, i) \in Seq(S)
<1>1. i \in 1 .. Len(q) /\ Len(q) \in Nat
  BY LenProperties
<1>2. SubSeq(q, 1, i - 1) \in Seq(S)
  BY <1>1, SubSeqProperties, EmptySeq
<1>3. SubSeq(q, i + 1, Len(q)) \in Seq(S)
  BY <1>1, SubSeqProperties, EmptySeq
<1>4. QED
  BY <1>2, <1>3, ConcatProperties DEF RemoveAt

\* The tail of a sequence from the first element with a number of at least v.
LEMMA PurgedSeq ==
  ASSUME NEW q \in Seq(Queued), NEW v \in Nat
  PROVE  Purged(q, v) \in Seq(Queued)
<1> DEFINE I == {i \in 1 .. Len(q) : q[i].ver >= v}
<1>1. PurgeVersion(q, v) = IF I # {} THEN Min(I) ELSE 0
  BY DEF PurgeVersion, SelectInSeq
<1>2. Len(q) \in Nat /\ I \subseteq Nat /\ I \subseteq 1 .. Len(q)
  OBVIOUS
<1> HIDE DEF I
<1>3. I # {} => Min(I) \in 1 .. Len(q)
  BY <1>2, MinIn
<1>4. PurgeVersion(q, v) \in 0 .. Len(q)
  BY <1>1, <1>2, <1>3
<1>5. QED
  BY <1>4, <1>2, SubSeqProperties, EmptySeq DEF Purged

LEMMA FromSeq ==
  ASSUME NEW q \in Seq(Fetched), NEW v \in Int
  PROVE  From(q, v) \in Seq(Fetched)
<1> DEFINE I == {i \in 1 .. Len(q) : q[i].off >= v}
           k == IF I # {} THEN Min(I) ELSE 0
<1>1. From(q, v) = IF k = 0 THEN <<>> ELSE SubSeq(q, k, Len(q))
  BY DEF From, SelectInSeq
<1>2. Len(q) \in Nat /\ I \subseteq Nat /\ I \subseteq 1 .. Len(q)
  OBVIOUS
<1> HIDE DEF I
<1>3. I # {} => Min(I) \in 1 .. Len(q)
  BY <1>2, MinIn
<1>4. k \in 0 .. Len(q)
  BY <1>2, <1>3
<1> HIDE DEF k
<1>5. QED
  BY <1>1, <1>4, <1>2, SubSeqProperties, EmptySeq

LEMMA PosType ==
  ASSUME NEW off \in Offsets \cup {Invalid, Begin, End}, NEW ep \in Epochs
  PROVE  Pos(off, ep) \in Positions
BY DEF Pos, Positions

LEMMA PosFacts ==
  ASSUME NEW pos \in Positions
  PROVE  /\ pos.off \in Offsets \cup {Invalid, Begin, End} /\ pos.off \in Int
         /\ pos.ep \in Epochs /\ pos.ep \in Nat
BY FetcherBounds DEF Positions, Offsets, Epochs, Invalid, Begin, End

LEMMA NoPosType == NoPos \in Positions /\ 0 \in Epochs /\ 0 \in Offsets
BY FetcherBounds DEF NoPos, Pos, Positions, Epochs, Offsets, Invalid

-----------------------------------------------------------------------------
(* The operators that change the partition's record. *)

LEMMA HandledTrans ==
  ASSUME NEW s, NEW t, NEW u, Sound(s), Handled(s, t), Handled(t, u)
  PROVE  Handled(s, u)
BY DEF Handled, Sound, VersionsOK

LEMMA HandledSelf ==
  ASSUME NEW s, Sound(s)
  PROVE  Handled(s, s)
BY DEF Handled, Sound, VersionsOK

LEMMA SetState ==
  ASSUME NEW s, Sound(s), NEW st \in FetchStates
  PROVE  Handled(s, [s EXCEPT !.state = st])
BY DEF Handled, Sound, VersionsOK, PlacesOK, BrokersOK, QueuesOK, Fields

\* What Sound does not depend on.
LEMMA SetFlags ==
  ASSUME NEW s, Sound(s), NEW v
  PROVE  /\ Handled(s, [s EXCEPT !.query_tmr = v])
         /\ Handled(s, [s EXCEPT !.validate_tmr = v])
         /\ Handled(s, [s EXCEPT !.backoff = v])
         /\ Handled(s, [s EXCEPT !.paused = v])
         /\ Handled(s, [s EXCEPT !.asked = v])
         /\ Handled(s, [s EXCEPT !.validating = v])
BY DEF Handled, Sound, VersionsOK, PlacesOK, BrokersOK, QueuesOK, Fields

LEMMA OffsetRetrySound ==
  ASSUME NEW s, Sound(s)
  PROVE  Handled(s, OffsetRetry(s))
BY DEF OffsetRetry, Handled, Sound, VersionsOK, PlacesOK, BrokersOK, QueuesOK, Fields,
       FetchStates

LEMMA ConsumerErrSound ==
  ASSUME NEW s, Sound(s)
  PROVE  Handled(s, ConsumerErr(s))
<1> DEFINE m == [err |-> TRUE, ver |-> 0, off |-> 0, ep |-> 0, era |-> 0, start |-> 0]
<1>1. m \in Queued
  BY NoPosType DEF Queued, Message
<1>2. ConsumerErr(s) = [s EXCEPT !.fetchq = Append(@, m)]
  BY DEF ConsumerErr
<1> HIDE DEF m
<1>3. Append(s.fetchq, m) \in Seq(Queued)
  BY <1>1, AppendProperties DEF Sound, QueuesOK
<1>4. QED
  BY <1>2, <1>3
  DEF Handled, Sound, VersionsOK, PlacesOK, BrokersOK, QueuesOK, Fields

\* A request of the main thread, which is no Fetch.
LEMMA RequestType ==
  ASSUME NEW s, Sound(s), NEW type \in {"list", "epoch"}, NEW ver \in Nat,
         NEW pos \in Positions
  PROVE  Append(s.net, Request(type, ver, pos, s)) \in Seq(Requests)
<1>1. <<>> \in Seq(Fetched)
  BY EmptySeq
<1>2. Request(type, ver, pos, s) \in Requests
  BY <1>1, NoPosType DEF Request, Requests, Sound, PlacesOK, BrokersOK
<1>3. QED
  BY <1>2, AppendProperties DEF Sound, QueuesOK

LEMMA OffsetRequestSound ==
  ASSUME NEW s, Sound(s), NEW delayed
  PROVE  Handled(s, OffsetRequest(s, delayed))
<1>1. CASE delayed \/ s.leader = 0
  BY <1>1, OffsetRetrySound DEF OffsetRequest
<1>2. CASE ~(delayed \/ s.leader = 0)
  <2> DEFINE n == Append(s.net, Request("list", s.op_version, Pos(s.query, 0), s))
  <2>1. Pos(s.query, 0) \in Positions
    BY PosType, NoPosType DEF Sound, PlacesOK
  <2>2. n \in Seq(Requests)
    BY <2>1, RequestType DEF Sound, VersionsOK
  <2>3. OffsetRequest(s, delayed) =
          [s EXCEPT !.query_tmr = FALSE, !.net = n, !.state = "OFFSET_WAIT"]
    BY <1>2 DEF OffsetRequest
  <2> HIDE DEF n
  <2>4. QED
    BY <2>2, <2>3 DEF Handled, Sound, VersionsOK, PlacesOK, BrokersOK, QueuesOK, Fields,
                      FetchStates
<1>3. QED
  BY <1>1, <1>2

LEMMA PlaceSound ==
  ASSUME NEW s, Sound(s), NEW pos \in Positions
  PROVE  Handled(s, Place(s, pos))
<1> DEFINE e == IF s.asked THEN s.era + 1 ELSE s.era
           b == IF s.asked THEN pos.off ELSE s.start
<1>1. e \in Nat /\ b \in Int
  BY PosFacts DEF Sound, PlacesOK
<1>2. Place(s, pos) = [s EXCEPT !.next = pos, !.asked = FALSE, !.era = e, !.start = b]
  BY DEF Place
<1> HIDE DEF e, b
<1>3. QED
  BY <1>1, <1>2 DEF Handled, Sound, VersionsOK, PlacesOK, BrokersOK, QueuesOK, Fields

LEMMA PlaceActive ==
  ASSUME NEW s, Sound(s), NEW pos \in Positions, NEW st \in FetchStates
  PROVE  Handled(s, [Place(s, pos) EXCEPT !.state = st])
BY PlaceSound, SetState, HandledTrans DEF Handled

LEMMA OffsetResetSound ==
  ASSUME NEW s, Sound(s), NEW pos \in Positions, NEW err, err \/ pos.off < 0
  PROVE  Handled(s, OffsetReset(s, pos, err))
<1> DEFINE target == IF err \/ pos.off = Invalid THEN AutoOffsetReset ELSE pos.off
           u == [s EXCEPT !.query = target, !.state = "OFFSET_QUERY"]
<1>1. AutoOffsetReset \in {Invalid, Begin, End}
  BY FetcherFaults DEF AutoOffsetReset
<1>2. target \in {Invalid, Begin, End}
  <2>1. pos.off \in Offsets \cup {Invalid, Begin, End}
    BY PosFacts
  <2>2. \A x \in Offsets : ~(x < 0)
    BY FetcherBounds DEF Offsets
  <2>3. ~err => pos.off \in {Invalid, Begin, End}
    BY <2>1, <2>2
  <2>4. QED
    BY <1>1, <2>3
<1>3. OffsetReset(s, pos, err) =
        IF target = Invalid THEN [ConsumerErr(s) EXCEPT !.state = "NONE"]
        ELSE IF target = Begin /\ s.lo >= 0
        THEN [Place(s, Pos(s.lo, 0)) EXCEPT !.state = "ACTIVE"]
        ELSE OffsetRequest(u, err)
  BY DEF OffsetReset
<1>4. Handled(s, [ConsumerErr(s) EXCEPT !.state = "NONE"])
  <2> DEFINE e == ConsumerErr(s)
  <2>1. Handled(s, e) /\ Sound(e)
    BY ConsumerErrSound DEF Handled
  <2> HIDE DEF e
  <2>2. Handled(e, [e EXCEPT !.state = "NONE"])
    BY <2>1, SetState DEF FetchStates
  <2>3. QED
    BY <2>1, <2>2, HandledTrans DEF e
<1>5. CASE target = Begin /\ s.lo >= 0
  <2>1. s.lo \in Offsets
    BY <1>5 DEF Sound, PlacesOK, Invalid
  <2>2. Pos(s.lo, 0) \in Positions
    BY <2>1, PosType, NoPosType
  <2>3. Handled(s, [Place(s, Pos(s.lo, 0)) EXCEPT !.state = "ACTIVE"])
    BY <2>2, PlaceActive DEF FetchStates
  <2>4. target # Invalid
    BY <1>5 DEF Begin, Invalid
  <2>5. QED
    BY <1>3, <1>5, <2>3, <2>4
<1> HIDE DEF target
<1>6. Handled(s, u)
  BY <1>2 DEF Handled, Sound, VersionsOK, PlacesOK, BrokersOK, QueuesOK, Fields, FetchStates
<1> HIDE DEF u
<1>7. Handled(s, OffsetRequest(u, err))
  BY <1>6, OffsetRequestSound, HandledTrans DEF Handled
<1>8. QED
  BY <1>3, <1>4, <1>5, <1>7

LEMMA NextOffsetHandleSound ==
  ASSUME NEW s, Sound(s), NEW pos \in Positions
  PROVE  Handled(s, NextOffsetHandle(s, pos))
<1> DEFINE u == [s EXCEPT !.next = pos]
<1>1. Handled(s, u)
  BY DEF Handled, Sound, VersionsOK, PlacesOK, BrokersOK, QueuesOK, Fields
<1>2. NextOffsetHandle(s, pos) = IF pos.off < 0 THEN OffsetReset(u, pos, FALSE)
                                 ELSE [Place(s, pos) EXCEPT !.state = "ACTIVE"]
  BY DEF NextOffsetHandle
<1> HIDE DEF u
<1>3. CASE pos.off < 0
  <2>1. Handled(u, OffsetReset(u, pos, FALSE))
    BY <1>1, <1>3, OffsetResetSound DEF Handled
  <2>2. QED
    BY <1>1, <1>2, <1>3, <2>1, HandledTrans
<1>4. CASE ~(pos.off < 0)
  BY <1>2, <1>4, PlaceActive DEF FetchStates
<1>5. QED
  BY <1>3, <1>4

LEMMA HandleOffsetSound ==
  ASSUME NEW s, Sound(s), NEW op, op.pos \in Positions
  PROVE  Handled(s, HandleOffset(s, op))
<1> DEFINE u == OffsetReset(s, Pos(s.query, 0), TRUE)
<1>1. Pos(s.query, 0) \in Positions
  BY PosType, NoPosType DEF Sound, PlacesOK
<1>2. Handled(s, u)
  BY <1>1, OffsetResetSound
<1>3. HandleOffset(s, op) =
        IF op.from # s.leader \/ op.ver < s.op_version \/ op.res = "temporary"
        THEN OffsetRetry(s)
        ELSE IF op.res = "permanent" THEN ConsumerErr(u)
        ELSE NextOffsetHandle(s, op.pos)
  BY DEF HandleOffset
<1> HIDE DEF u
<1>4. Handled(s, ConsumerErr(u))
  BY <1>2, ConsumerErrSound, HandledTrans DEF Handled
<1>5. QED
  BY <1>3, <1>4, OffsetRetrySound, NextOffsetHandleSound

LEMMA OffsetValidateSound ==
  ASSUME NEW s, Sound(s)
  PROVE  Handled(s, OffsetValidate(s))
<1> DEFINE n == Append(s.net, Request("epoch", 0, s.val_pos, s))
<1>1. n \in Seq(Requests)
  BY RequestType DEF Sound, PlacesOK
<1>2. OffsetValidate(s) \in {s, [s EXCEPT !.state = "ACTIVE"],
        [s EXCEPT !.state = "VALIDATE_EPOCH_WAIT", !.validating = TRUE, !.net = n]}
  BY DEF OffsetValidate
<1>3. Handled(s, s) /\ Handled(s, [s EXCEPT !.state = "ACTIVE"])
  BY HandledSelf, SetState DEF FetchStates
<1> HIDE DEF n
<1>4. Handled(s, [s EXCEPT !.state = "VALIDATE_EPOCH_WAIT", !.validating = TRUE, !.net = n])
  BY <1>1 DEF Handled, Sound, VersionsOK, PlacesOK, BrokersOK, QueuesOK, Fields, FetchStates
<1>5. QED
  BY <1>2, <1>3, <1>4

\* A re-seek takes a new version, which its op carries.
LEMMA ReseekSound ==
  ASSUME NEW s, Sound(s), NEW pos \in Positions
  PROVE  Handled(s, [s EXCEPT !.version = @ + 1,
                              !.ops = Append(@, Op("reseek", s.version + 1, pos))])
<1> DEFINE o == Op("reseek", s.version + 1, pos)
           q == Append(s.ops, o)
<1>1. s.version \in Nat
  BY DEF Sound, VersionsOK
<1>2. o \in Ops(s.version + 1)
  BY <1>1, NoPosType DEF Op, Ops, OpTypes, Commands
<1> HIDE DEF o
<1>3. s.ops \in Seq(Ops(s.version + 1))
  BY <1>1, OpsGrow DEF Sound, QueuesOK
<1>4. q \in Seq(Ops(s.version + 1))
  BY <1>2, <1>3, AppendProperties
<1>5. [s EXCEPT !.version = @ + 1, !.ops = Append(@, o)] =
        [s EXCEPT !.version = s.version + 1, !.ops = q]
  OBVIOUS
<1> HIDE DEF q
<1>6. Handled(s, [s EXCEPT !.version = s.version + 1, !.ops = q])
  BY <1>4 DEF Handled, Sound, VersionsOK, PlacesOK, BrokersOK, QueuesOK, Fields
<1>7. QED
  BY <1>5, <1>6 DEF o

LEMMA HandleOffsetForLeaderEpochSound ==
  ASSUME NEW s0, Sound(s0), NEW op, op.pos \in Positions
  PROVE  Handled(s0, HandleOffsetForLeaderEpoch(s0, op))
<1> DEFINE s == [s0 EXCEPT !.validating = FALSE]
           asked == [s EXCEPT !.asked = @ \/ op.ver = s.val_pos.ep]
           r == [asked EXCEPT !.version = @ + 1,
                              !.ops = Append(@, Op("reseek", asked.version + 1, op.pos))]
<1>1. Handled(s0, s)
  BY SetFlags
<1>2. Handled(s, asked)
  BY <1>1, SetFlags DEF Handled
<1>3. asked.version = s.version
  BY <1>1 DEF Handled, Sound, Fields
<1>4. HandleOffsetForLeaderEpoch(s0, op) \in
        {s, [s EXCEPT !.validate_tmr = TRUE], OffsetReset(asked, s.val_pos, TRUE),
         [s EXCEPT !.state = "ACTIVE"], OffsetReset(asked, NoPos, TRUE), r}
  BY <1>3 DEF HandleOffsetForLeaderEpoch
<1> HIDE DEF s, asked
<1>5. Sound(s) /\ Sound(asked) /\ Handled(s0, asked) /\ s.val_pos \in Positions
  BY <1>1, <1>2, HandledTrans DEF Handled, Sound, PlacesOK
<1>6. Handled(s0, [s EXCEPT !.validate_tmr = TRUE])
  BY <1>1, <1>5, SetFlags, HandledTrans
<1>7. Handled(s0, [s EXCEPT !.state = "ACTIVE"])
  BY <1>1, <1>5, SetState, HandledTrans DEF FetchStates
<1>8. Handled(s0, OffsetReset(asked, s.val_pos, TRUE))
  BY <1>5, OffsetResetSound, HandledTrans
<1>9. Handled(s0, OffsetReset(asked, NoPos, TRUE))
  BY <1>5, NoPosType, OffsetResetSound, HandledTrans
<1>10. Handled(s0, r)
  BY <1>5, ReseekSound, HandledTrans
<1> HIDE DEF r
<1>11. QED
  BY <1>1, <1>4, <1>6, <1>7, <1>8, <1>9, <1>10

LEMMA VersionBumpSound ==
  ASSUME NEW s, Sound(s), NEW v \in Nat, s.op_version <= v, v <= s.version
  PROVE  Handled(s, VersionBump(s, v))
BY DEF VersionBump, Handled, Sound, VersionsOK, PlacesOK, BrokersOK, QueuesOK, Fields

LEMMA StopQuerySound ==
  ASSUME NEW s, Sound(s)
  PROVE  Handled(s, StopQuery(s))
BY DEF StopQuery, Handled, Sound, VersionsOK, PlacesOK, BrokersOK, QueuesOK, Fields

LEMMA AskSound ==
  ASSUME NEW s, Sound(s)
  PROVE  Handled(s, Ask(s))
BY SetFlags DEF Ask

LEMMA SetAppPos ==
  ASSUME NEW s, Sound(s), NEW pos \in Positions
  PROVE  Handled(s, [s EXCEPT !.app_pos = pos])
BY DEF Handled, Sound, VersionsOK, PlacesOK, BrokersOK, QueuesOK, Fields

\* A command that is neither outdated nor refused.
Accepted(s, op) ==
  /\ op.ver \in Nat /\ s.op_version <= op.ver /\ op.ver <= s.version
  /\ op.pos \in Positions

LEMMA FetchStartSound ==
  ASSUME NEW s, Sound(s), NEW op, Accepted(s, op)
  PROVE  Handled(s, FetchStart(s, op))
<1> DEFINE v == VersionBump(s, op.ver)
           b == Ask(v)
<1>1. Handled(s, v)
  BY VersionBumpSound DEF Accepted
<1>2. Handled(s, b) /\ Sound(b)
  BY <1>1, AskSound, HandledTrans DEF Handled
<1>3. op.pos \in Positions
  BY DEF Accepted
<1>4. FetchStart(s, op) \in
        {NextOffsetHandle(b, op.pos), OffsetReset(b, op.pos, TRUE),
         [Place(b, op.pos) EXCEPT !.state = "ACTIVE"]}
  <2>1. \/ op.pos.off \in {Begin, End}
        \/ op.pos.off = Invalid /\ op.pos.off \notin {Begin, End}
        \/ op.pos.off # Invalid /\ op.pos.off \notin {Begin, End}
    OBVIOUS
  <2>2. QED
    BY <2>1 DEF FetchStart
<1> HIDE DEF b
<1>5. Handled(s, NextOffsetHandle(b, op.pos))
  BY <1>2, <1>3, NextOffsetHandleSound, HandledTrans
<1>6. Handled(s, OffsetReset(b, op.pos, TRUE))
  BY <1>2, <1>3, OffsetResetSound, HandledTrans
<1>7. Handled(s, [Place(b, op.pos) EXCEPT !.state = "ACTIVE"])
  BY <1>2, <1>3, PlaceActive, HandledTrans DEF FetchStates
<1>8. QED
  BY <1>4, <1>5, <1>6, <1>7

LEMMA FetchStopSound ==
  ASSUME NEW s, Sound(s), NEW op, Accepted(s, op)
  PROVE  Handled(s, FetchStop(s, op))
<1> DEFINE v == VersionBump(s, op.ver)
           b == StopQuery(v)
<1>1. Handled(s, v)
  BY VersionBumpSound DEF Accepted
<1>2. Handled(s, b) /\ Sound(b)
  BY <1>1, StopQuerySound, HandledTrans DEF Handled
<1>3. FetchStop(s, op) = [b EXCEPT !.state = "STOPPED", !.app_pos = NoPos, !.asked = FALSE]
  BY DEF FetchStop
<1> HIDE DEF b
<1>4. Handled(b, [b EXCEPT !.state = "STOPPED", !.app_pos = NoPos, !.asked = FALSE])
  BY <1>2, NoPosType
  DEF Handled, Sound, VersionsOK, PlacesOK, BrokersOK, QueuesOK, Fields, FetchStates
<1>5. QED
  BY <1>2, <1>3, <1>4, HandledTrans

LEMMA SeekSound ==
  ASSUME NEW s, Sound(s), NEW op, Accepted(s, op)
  PROVE  Handled(s, Seek(s, op))
<1> DEFINE v == VersionBump(s, op.ver)
           w == [v EXCEPT !.app_pos = NoPos]
           b == StopQuery(w)
           a == IF op.type = "seek" THEN Ask(b) ELSE b
           p == [Place(a, op.pos) EXCEPT !.state = "VALIDATE_EPOCH_WAIT", !.val_pos = op.pos]
<1>1. Handled(s, v)
  BY VersionBumpSound DEF Accepted
<1>2. Handled(s, w) /\ Sound(w)
  BY <1>1, SetAppPos, NoPosType, HandledTrans DEF Handled
<1> HIDE DEF w
<1>3. Handled(s, b) /\ Sound(b)
  BY <1>2, StopQuerySound, HandledTrans DEF Handled
<1>4. Handled(s, a) /\ Sound(a)
  BY <1>3, AskSound, HandledTrans DEF Handled
<1>5. op.pos \in Positions
  BY DEF Accepted
<1>6. Seek(s, op) = IF op.pos.off <= 0 \/ op.type = "reseek"
                    THEN NextOffsetHandle(a, op.pos) ELSE OffsetValidate(p)
  BY DEF Seek, w
<1> HIDE DEF a
<1>7. Handled(s, NextOffsetHandle(a, op.pos))
  BY <1>4, <1>5, NextOffsetHandleSound, HandledTrans
<1>8. Handled(s, p) /\ Sound(p)
  <2> DEFINE u == Place(a, op.pos)
  <2>1. Handled(s, u) /\ Sound(u)
    BY <1>4, <1>5, PlaceSound, HandledTrans DEF Handled
  <2>2. p = [u EXCEPT !.state = "VALIDATE_EPOCH_WAIT", !.val_pos = op.pos]
    OBVIOUS
  <2> HIDE DEF u, p
  <2>3. Handled(u, p)
    BY <2>1, <2>2, <1>5
    DEF Handled, Sound, VersionsOK, PlacesOK, BrokersOK, QueuesOK, Fields, FetchStates
  <2>4. QED
    BY <2>1, <2>3, HandledTrans DEF Handled
<1> HIDE DEF p
<1>9. Handled(s, OffsetValidate(p))
  BY <1>8, OffsetValidateSound, HandledTrans
<1>10. QED
  BY <1>6, <1>7, <1>9

LEMMA PauseSound ==
  ASSUME NEW s, Sound(s), NEW op, Accepted(s, op)
  PROVE  Handled(s, Pause(s, op))
<1> DEFINE b == VersionBump(s, op.ver)
           x == IF s.app_pos.off # Invalid THEN s.app_pos ELSE b.next
           q == Purged(b.fetchq, op.ver)
<1>1. Handled(s, b) /\ Sound(b)
  BY VersionBumpSound DEF Accepted, Handled
<1>2. Pause(s, op) = [b EXCEPT !.paused = TRUE, !.next = x, !.fetchq = q]
  BY DEF Pause
<1>3. x \in Positions
  BY <1>1 DEF Sound, PlacesOK
<1>4. q \in Seq(Queued)
  BY <1>1, PurgedSeq DEF Sound, QueuesOK, Accepted
<1> HIDE DEF x, q, b
<1>5. Handled(b, [b EXCEPT !.paused = TRUE, !.next = x, !.fetchq = q])
  BY <1>1, <1>3, <1>4
  DEF Handled, Sound, VersionsOK, PlacesOK, BrokersOK, QueuesOK, Fields
<1>6. QED
  BY <1>1, <1>2, <1>5, HandledTrans

LEMMA ResumeSound ==
  ASSUME NEW s, Sound(s), NEW op, Accepted(s, op)
  PROVE  Handled(s, Resume(s, op))
<1> DEFINE v == VersionBump(s, op.ver)
           b == [v EXCEPT !.paused = FALSE]
<1>1. Handled(s, v) /\ Sound(v)
  BY VersionBumpSound DEF Accepted, Handled
<1> HIDE DEF v
<1>2. Handled(s, b) /\ Sound(b)
  BY <1>1, SetFlags, HandledTrans DEF Handled
<1>3. Resume(s, op) \in {v, NextOffsetHandle(b, s.next), b}
  BY DEF Resume, v
<1> HIDE DEF b
<1>4. Handled(s, NextOffsetHandle(b, s.next))
  BY <1>2, NextOffsetHandleSound, HandledTrans DEF Sound, PlacesOK
<1>5. QED
  BY <1>1, <1>2, <1>3, <1>4

LEMMA ApplySound ==
  ASSUME NEW s, Sound(s), NEW op \in Ops(s.version)
  PROVE  Handled(s, Apply(s, op))
<1>1. /\ op.pos \in Positions /\ op.ver \in Nat /\ op.type \in OpTypes
      /\ op.type \in Commands => op.ver <= s.version
  BY DEF Ops
<1>2. CASE op.type = "list"
  BY <1>1, <1>2, HandleOffsetSound DEF Apply, Commands
<1>3. CASE op.type = "epoch"
  BY <1>1, <1>3, HandleOffsetForLeaderEpochSound DEF Apply, Commands
<1>4. CASE op.type = "reset"
  <2> DEFINE u == [s EXCEPT !.asked = @ \/ op.ver = s.era]
  <2>1. Handled(s, u) /\ Sound(u)
    BY SetFlags DEF Handled
  <2>2. Apply(s, op) = OffsetReset(u, op.pos, TRUE)
    BY <1>4 DEF Apply, Commands
  <2> HIDE DEF u
  <2>3. QED
    BY <1>1, <2>1, <2>2, OffsetResetSound, HandledTrans
<1>5. CASE op.type \in Commands
  <2>1. op.type \notin {"list", "epoch", "reset"}
    BY <1>5 DEF Commands
  <2>2. CASE Result(s, op) # "ok"
    <3>1. Apply(s, op) = s
      BY <1>5, <2>2 DEF Apply
    <3>2. QED
      BY <3>1, HandledSelf
  <2>3. CASE Result(s, op) = "ok"
    <3>1. ~(op.ver < s.op_version)
      BY <2>3 DEF Result
    <3>2. Accepted(s, op)
      BY <1>1, <1>5, <3>1 DEF Accepted, Sound, VersionsOK
    <3>3. Apply(s, op) \in {FetchStart(s, op), FetchStop(s, op), Pause(s, op),
                            Resume(s, op), Seek(s, op)}
      <4>1. CASE op.type = "start"
        BY <2>3, <4>1 DEF Apply
      <4>2. CASE op.type = "stop"
        BY <2>3, <4>2 DEF Apply
      <4>3. CASE op.type = "pause"
        BY <2>3, <4>3 DEF Apply
      <4>4. CASE op.type = "resume"
        BY <2>3, <4>4 DEF Apply
      <4>5. CASE op.type \notin {"start", "stop", "pause", "resume"}
        BY <2>1, <2>3, <4>5 DEF Apply
      <4>6. QED
        BY <4>1, <4>2, <4>3, <4>4, <4>5
    <3>4. QED
      BY <3>2, <3>3, FetchStartSound, FetchStopSound, PauseSound, ResumeSound, SeekSound
  <2>4. QED
    BY <2>2, <2>3
<1>6. QED
  BY <1>1, <1>2, <1>3, <1>4, <1>5 DEF OpTypes

-----------------------------------------------------------------------------
(* The broker thread. *)

\* The broker thread copies the version whose op has been handled.  When it fetches, it
\* has one, and so the Fetch carries it.
LEMMA FetchDecideSound ==
  ASSUME NEW s, Sound(s)
  PROVE  /\ Handled(s, FetchDecide(s))
         /\ Fetchable(FetchDecide(s)) => FetchDecide(s).fetch_version >= 1
<1> DEFINE q == Purged(s.fetchq, s.op_version)
           e == [s EXCEPT !.fetch_pos = s.next, !.last = s.next,
                          !.fetch_version = s.op_version, !.fetchq = q]
           d == IF s.state = "ACTIVE" /\ StartFromNext(s) THEN e ELSE s
           r == [d EXCEPT !.fera = s.era, !.fstart = s.start]
<1>1. q \in Seq(Queued)
  BY PurgedSeq DEF Sound, QueuesOK, VersionsOK
<1>2. FetchDecide(s) = IF d.state = "ACTIVE" /\ d.fetch_pos = d.next THEN r ELSE d
  BY DEF FetchDecide
<1> HIDE DEF q
<1>3. Handled(s, e) /\ e.fetch_version >= 1
  BY <1>1 DEF Handled, Sound, VersionsOK, PlacesOK, BrokersOK, QueuesOK, Fields
<1>5. Handled(s, d) /\ (d.state = "ACTIVE" => d.fetch_version >= 1)
  <2>1. CASE s.state = "ACTIVE" /\ StartFromNext(s)
    BY <2>1, <1>3
  <2>2. CASE s.state = "ACTIVE" /\ ~StartFromNext(s)
    <3>1. ~(s.op_version > s.fetch_version)
      BY <2>2 DEF StartFromNext
    <3>2. d = s /\ s.fetch_version >= 1
      BY <2>2, <3>1 DEF Sound, VersionsOK
    <3>3. QED
      BY <3>2, HandledSelf
  <2>3. CASE s.state # "ACTIVE"
    BY <2>3, HandledSelf
  <2>4. QED
    BY <2>1, <2>2, <2>3
<1> HIDE DEF d
<1>6. Handled(d, r) /\ r.state = d.state
      /\ r.fetch_version = d.fetch_version
  BY <1>5 DEF Handled, Sound, VersionsOK, PlacesOK, BrokersOK, QueuesOK, Fields
<1>7. Handled(s, r)
  BY <1>5, <1>6, HandledTrans
<1> HIDE DEF r
<1>8. QED
  BY <1>2, <1>5, <1>6, <1>7 DEF Fetchable

\* The Fetch that the broker thread sends.
LEMMA SendFetchSound ==
  ASSUME NEW s, Sound(s), s.fetch_version >= 1
  PROVE  Handled(s, [s EXCEPT !.net = Append(@,
           [Request("fetch", s.fetch_version, s.fetch_pos, s) EXCEPT !.to = s.broker])])
<1> DEFINE r == [Request("fetch", s.fetch_version, s.fetch_pos, s) EXCEPT !.to = s.broker]
           n == Append(s.net, r)
<1>1. <<>> \in Seq(Fetched)
  BY EmptySeq
<1>2. r \in Requests
  BY <1>1, NoPosType DEF Request, Requests, Sound, PlacesOK, BrokersOK, VersionsOK
<1> HIDE DEF r
<1>3. n \in Seq(Requests)
  BY <1>2, AppendProperties DEF Sound, QueuesOK
<1>4. [s EXCEPT !.net = Append(@, r)] = [s EXCEPT !.net = n]
  OBVIOUS
<1> HIDE DEF n
<1>5. Handled(s, [s EXCEPT !.net = n])
  BY <1>3 DEF Handled, Sound, VersionsOK, PlacesOK, BrokersOK, QueuesOK, Fields
<1>6. QED
  BY <1>4, <1>5 DEF r

LEMMA ParseSound ==
  ASSUME NEW s, Sound(s), NEW r \in Requests, r.type = "fetch"
  PROVE  Handled(s, Parse(s, r))
<1> DEFINE new == From(r.msgs, s.fetch_pos.off)
           ms == [i \in DOMAIN new |->
                   [err |-> FALSE, ver |-> r.ver, off |-> new[i].off, ep |-> new[i].ep,
                    era |-> r.era, start |-> r.start]]
           o == IF new = <<>> THEN s.fetch_pos.off ELSE Last(new).off + 1
           p == Pos(o, Last(r.msgs).ep)
           q == s.fetchq \o ms
<1>1. CASE r.msgs = <<>>
  BY <1>1, HandledSelf DEF Parse
<1>2. CASE r.msgs # <<>>
  <2>1. r.msgs \in Seq(Fetched) /\ r.ver \in Nat /\ r.ver >= 1 /\ r.era \in Nat
        /\ r.start \in Int
    BY DEF Requests
  <2>2. s.fetch_pos \in Positions /\ s.fetchq \in Seq(Queued)
    BY DEF Sound, PlacesOK, QueuesOK
  <2>3. new \in Seq(Fetched)
    BY <2>1, <2>2, PosFacts, FromSeq
  <2>4. Parse(s, r) = [s EXCEPT !.fetchq = q, !.fetch_pos = p]
    BY <1>2 DEF Parse
  <2> HIDE DEF new
  <2>5. ms \in Seq(Queued)
    <3>1. DOMAIN new = 1 .. Len(new) /\ Len(new) \in Nat
      BY <2>3
    <3>2. ASSUME NEW i \in 1 .. Len(new) PROVE ms[i] \in Queued
      <4>1. new[i] \in Fetched
        BY <2>3, ElementOfSeq
      <4>2. QED
        BY <2>1, <3>1, <4>1 DEF Queued, Message, Fetched
    <3>3. QED
      BY <3>1, <3>2
  <2> HIDE DEF ms
  <2>6. q \in Seq(Queued)
    BY <2>2, <2>5, ConcatProperties
  <2>7. Last(r.msgs) \in Fetched
    BY <1>2, <2>1, ElementOfSeq, LenProperties, EmptySeq DEF Last
  <2>8. o \in Offsets \cup {Invalid, Begin, End}
    <3>1. CASE new = <<>>
      BY <2>2, <3>1, PosFacts
    <3>2. CASE new # <<>>
      <4>1. Last(new) \in Fetched
        BY <2>3, <3>2, ElementOfSeq, LenProperties, EmptySeq DEF Last
      <4>2. QED
        BY <3>2, <4>1, FetcherBounds DEF Fetched, Offsets
    <3>3. QED
      BY <3>1, <3>2
  <2>9. p \in Positions
    BY <2>7, <2>8, PosType DEF Fetched
  <2> HIDE DEF p, q
  <2>10. QED
    BY <2>4, <2>6, <2>9
    DEF Handled, Sound, VersionsOK, PlacesOK, BrokersOK, QueuesOK, Fields
<1>3. QED
  BY <1>1, <1>2

\* An op that is no command, put on the queue of the main thread.
LEMMA ReplySound ==
  ASSUME NEW s, Sound(s), NEW o \in Ops(0), o.type \notin Commands
  PROVE  Append(s.ops, o) \in Seq(Ops(s.version))
<1>1. o \in Ops(s.version)
  BY DEF Ops
<1>2. QED
  BY <1>1, AppendProperties DEF Sound, QueuesOK

LEMMA HandleFetchSound ==
  ASSUME NEW s0, Sound(s0), NEW r \in Requests, r.type = "fetch", r.answer # "none"
  PROVE  Handled(s0, HandleFetch(s0, r))
<1> DEFINE l == r.lo
           s == [s0 EXCEPT !.lo = l]
           o == Op("reset", r.era, s.fetch_pos)
           q == Append(s.ops, o)
<1>1. r.lo \in Offsets \cup {Invalid} /\ r.era \in Nat
      /\ r.answer \in {"none", "ok", "lost", "not_leader", "out_of_range"}
  BY DEF Requests
<1>2. l \in Offsets \cup {Invalid}
  BY <1>1 DEF Sound, PlacesOK
<1>3. HandleFetch(s0, r) = IF r.answer = "lost" THEN s0
                           ELSE IF s.broker # r.to \/ r.ver < s.fetch_version THEN s
                           ELSE IF r.answer = "ok" THEN Parse(s, r)
                           ELSE FetchError(s, r)
  BY DEF HandleFetch
<1> HIDE DEF l
<1>4. Handled(s0, s) /\ Sound(s)
  BY <1>2 DEF Handled, Sound, VersionsOK, PlacesOK, BrokersOK, QueuesOK, Fields
<1> HIDE DEF s
<1>5. Handled(s0, Parse(s, r))
  BY <1>4, ParseSound, HandledTrans
<1>6. ASSUME r.answer = "not_leader" PROVE Handled(s0, FetchError(s, r))
  <2>1. FetchError(s, r) = [s EXCEPT !.backoff = TRUE]
    BY <1>6 DEF FetchError
  <2>2. QED
    BY <1>4, <2>1, SetFlags, HandledTrans
<1>7. ASSUME r.answer = "out_of_range" PROVE Handled(s0, FetchError(s, r))
  <2>1. o \in Ops(0) /\ o.type \notin Commands
    BY <1>1, <1>4, NoPosType DEF Op, Ops, OpTypes, Commands, Sound, PlacesOK
  <2> HIDE DEF o
  <2>2. q \in Seq(Ops(s.version))
    BY <1>4, <2>1, ReplySound
  <2>3. FetchError(s, r) = [s EXCEPT !.fetch_pos = NoPos, !.backoff = TRUE, !.ops = q]
    BY <1>7 DEF FetchError, o
  <2> HIDE DEF q
  <2>4. Handled(s, FetchError(s, r))
    BY <1>4, <2>2, <2>3, NoPosType
    DEF Handled, Sound, VersionsOK, PlacesOK, BrokersOK, QueuesOK, Fields
  <2>5. QED
    BY <1>4, <2>4, HandledTrans
<1>8. QED
  BY <1>1, <1>3, <1>4, <1>5, <1>6, <1>7, HandledSelf

-----------------------------------------------------------------------------
(* The brokers' answers. *)

LEMMA LogFacts ==
  ASSUME LogOK
  PROVE  /\ log.lo \in Offsets /\ LogEnd \in Offsets /\ LogEnd \in Nat /\ LogEnd <= MaxLog
         /\ log.leader \in Epochs /\ log.leader \in Nat
         /\ \A i \in 1 .. LogEnd : log.epochs[i] \in Epochs /\ log.epochs[i] \in Nat
<1>1. LogEnd \in Nat /\ log.lo \in Nat
  BY DEF LogOK, LogEnd
<1>2. \A i \in 1 .. LogEnd : log.epochs[i] \in 1 .. MaxMoves + 1
  BY <1>1, ElementOfSeq DEF LogOK, LogEnd
<1>3. QED
  BY <1>1, <1>2, FetcherBounds DEF LogOK, LogEnd, Offsets, Epochs

LEMMA EpochEndType ==
  ASSUME LogOK, NEW ep \in Epochs
  PROVE  EpochEnd(ep) \in Positions
<1> DEFINE upto == {i \in 1 .. LogEnd : log.epochs[i] <= ep}
<1>1. EpochEnd(ep) = IF ep >= log.leader THEN Pos(LogEnd, ep)
                     ELSE IF upto = {} THEN NoPos
                     ELSE Pos(Max(upto), log.epochs[Max(upto)])
  BY DEF EpochEnd
<1>2. upto \subseteq 0 .. LogEnd /\ upto \subseteq 1 .. LogEnd
  BY LogFacts
<1> HIDE DEF upto
<1>3. Pos(LogEnd, ep) \in Positions /\ NoPos \in Positions
  BY LogFacts, PosType, NoPosType
<1>4. ASSUME upto # {} PROVE Pos(Max(upto), log.epochs[Max(upto)]) \in Positions
  <2>1. Max(upto) \in 1 .. LogEnd
    BY <1>2, <1>4, LogFacts, MaxIn
  <2>2. Max(upto) \in Offsets
    BY <2>1, LogFacts, FetcherBounds DEF Offsets
  <2>3. QED
    BY <2>1, <2>2, LogFacts, PosType
<1>5. QED
  BY <1>1, <1>3, <1>4

LEMMA FetchAnswerType ==
  ASSUME LogOK, NEW r \in Requests, r.type = "fetch"
  PROVE  FetchAnswer(r) \in Requests
<1> DEFINE n == IF LogEnd - r.pos.off < FetchMax THEN LogEnd - r.pos.off ELSE FetchMax
<1>1. r.pos \in Positions /\ r.pos.off \in Int
  BY PosFacts DEF Requests
<1>2. CASE r.to # log.leader
  BY <1>2 DEF FetchAnswer, Requests
<1>3. CASE r.to = log.leader /\ OutOfRange(r.pos)
  BY <1>3, LogFacts DEF FetchAnswer, Requests
<1>4. CASE r.to = log.leader /\ ~OutOfRange(r.pos)
  <2>1. ~(r.pos.off < log.lo) /\ ~(r.pos.off > LogEnd)
    BY <1>4 DEF OutOfRange
  <2>2. r.pos.off \in Nat /\ r.pos.off <= LogEnd
    BY <1>1, <2>1, LogFacts DEF Offsets
  <2>3. n \in Nat /\ r.pos.off + n <= LogEnd
    BY <2>2, LogFacts, FetcherBounds
  <2>4. Available(r) = [i \in 1 .. n |-> MessageAt(r.pos.off + i - 1)]
    BY DEF Available
  <2> HIDE DEF n
  <2>5. ASSUME NEW i \in 1 .. n PROVE MessageAt(r.pos.off + i - 1) \in Fetched
    <3>1. r.pos.off + i - 1 \in Nat /\ r.pos.off + i - 1 < LogEnd
          /\ r.pos.off + i - 1 + 1 \in 1 .. LogEnd
      BY <2>2, <2>3, LogFacts
    <3>2. QED
      BY <3>1, LogFacts, FetcherBounds DEF MessageAt, Fetched, Offsets
  <2>6. Available(r) \in Seq(Fetched)
    BY <2>3, <2>4, <2>5
  <2>7. FetchAnswer(r) = [r EXCEPT !.answer = "ok", !.lo = log.lo, !.msgs = Available(r)]
    BY <1>4 DEF FetchAnswer
  <2>8. QED
    BY <2>6, <2>7, LogFacts DEF Requests
<1>5. QED
  BY <1>2, <1>3, <1>4

LEMMA LookupAnswerType ==
  ASSUME LogOK, NEW r \in Requests, r.type # "fetch",
         NEW res \in {"ok", "temporary", "permanent"}
  PROVE  /\ LookupAnswer(r) \in Ops(0) /\ LookupAnswer(r).type \notin Commands
         /\ [LookupAnswer(r) EXCEPT !.res = res] \in Ops(0)
         /\ [LookupAnswer(r) EXCEPT !.res = res].type \notin Commands
<1> DEFINE ok == IF r.type = "epoch" THEN EpochEnd(r.pos.ep)
                 ELSE Pos(IF r.pos.off = Begin THEN log.lo ELSE LogEnd, 0)
           v == IF r.type = "epoch" THEN r.pos.ep ELSE r.ver
           x == IF r.to = log.leader THEN "ok" ELSE "temporary"
<1>1. r.type \in {"list", "epoch"} /\ r.pos \in Positions /\ r.ver \in Nat /\ r.to \in Epochs
  BY DEF Requests
<1>2. r.pos.ep \in Epochs /\ r.pos.ep \in Nat
  BY <1>1, PosFacts
<1>3. ok \in Positions
  BY <1>2, EpochEndType, LogFacts, NoPosType, PosType
<1>4. v \in Nat
  BY <1>1, <1>2
<1>5. LookupAnswer(r) = [Op(r.type, v, ok) EXCEPT !.from = r.to, !.res = x]
  BY DEF LookupAnswer
<1> HIDE DEF ok, v
<1>6. LookupAnswer(r) = [type |-> r.type, ver |-> v, pos |-> ok, res |-> x, from |-> r.to]
  BY <1>5 DEF Op
<1>7. {"list", "epoch"} \subseteq OpTypes /\ {"list", "epoch"} \cap Commands = {}
  BY DEF OpTypes, Commands
<1>8. QED
  BY <1>1, <1>3, <1>4, <1>6, <1>7 DEF Ops

-----------------------------------------------------------------------------
(* The steps. *)

\* What a step of the library's threads or of a broker's answer may do.
Served == Handled(c, c') /\ UNCHANGED <<log, app>>

LEMMA LeTrans ==
  ASSUME NEW i \in Nat, NEW j \in Nat, NEW k \in Nat, i <= j, j <= k
  PROVE  i <= k
OBVIOUS

LEMMA CallKept ==
  ASSUME CallOK, AppOK, UNCHANGED <<call, app>>,
         c.version \in Nat, c'.version \in Nat, c.version <= c'.version
  PROVE  CallOK' /\ AppOK'
<1>1. call' = call /\ app' = app
  OBVIOUS
<1>2. /\ call.ver \in Nat /\ call.ver <= c.version
      /\ app.barrier \in Nat /\ app.barrier <= c.version
  BY DEF CallOK, CallType, AppOK
<1>3. call.ver <= c'.version /\ app.barrier <= c'.version
  BY <1>2, LeTrans
<1>4. CallOK'
  BY <1>1, <1>3 DEF CallOK, CallType
<1>5. AppOK'
  BY <1>1, <1>3 DEF AppOK
<1>6. QED
  BY <1>4, <1>5

LEMMA ServedInv ==
  ASSUME Inv, Served, call'.ver = call.ver,
         CallType(call'),
         call'.at = "bumped" => call.at = "bumped" /\ call'.op = call.op
  PROVE  Inv'
<1>0. Sound(c)'
  BY DEF Served, Handled, Sound, VersionsOK, PlacesOK, BrokersOK, QueuesOK
<1>1. c.version <= c'.version /\ c'.leader = c.leader
  BY DEF Served, Handled
<1>2. c.version \in Nat /\ c'.version \in Nat
  BY <1>0 DEF Inv, Sound, VersionsOK
<1>3. LogOK'
  BY <1>1 DEF Inv, LogOK, Served
<1>4. CallOK'
  <2>1. call.ver \in Nat /\ call.ver <= c.version
    BY DEF Inv, CallOK, CallType
  <2>2. call'.ver <= c'.version
    BY <1>1, <1>2, <2>1, LeTrans
  <2>3. call'.at = "bumped" => call'.op \in Commands
    BY DEF Inv, CallOK, CallType
  <2>4. QED
    BY <2>2, <2>3 DEF CallOK, CallType
<1>5. AppOK'
  <2>1. app' = app
    BY DEF Served
  <2>2. app.barrier \in Nat /\ app.barrier <= c.version
    BY DEF Inv, AppOK
  <2>3. app.barrier <= c'.version
    BY <1>1, <1>2, <2>2, LeTrans
  <2>4. QED
    BY <2>1, <2>3 DEF Inv, AppOK
<1>6. QED
  BY <1>0, <1>3, <1>4, <1>5 DEF Inv

LEMMA ServedSameCall ==
  ASSUME Inv, Served, UNCHANGED call
  PROVE  Inv'
BY ServedInv DEF Inv, CallOK, CallType

LEMMA HandleOpInv ==
  ASSUME Inv, HandleOp
  PROVE  Inv'
<1> DEFINE op == Head(c.ops)
           s == [c EXCEPT !.ops = Tail(@)]
           mine == call.at = "wait" /\ op.type = call.op /\ op.ver = call.ver
<1>1. Sound(c)
  BY DEF Inv
<1>2. c.ops # <<>> /\ c.ops \in Seq(Ops(c.version))
  BY <1>1 DEF HandleOp, Sound, QueuesOK
<1>3. op \in Ops(c.version) /\ Tail(c.ops) \in Seq(Ops(c.version))
  BY <1>2, HeadTailProperties
<1>4. Handled(c, s) /\ s.version = c.version
  BY <1>1, <1>3 DEF Handled, Sound, VersionsOK, PlacesOK, BrokersOK, QueuesOK, Fields
<1>5. /\ c' = Apply(s, op)
      /\ call' = IF mine THEN [call EXCEPT !.at = Result(s, op)] ELSE call
      /\ UNCHANGED <<log, app>>
  BY DEF HandleOp
<1> HIDE DEF op, s, mine
<1>6. Sound(s)
  BY <1>4 DEF Handled
<1>7. op \in Ops(s.version)
  BY <1>3, <1>4
<1>8. Handled(s, Apply(s, op))
  BY <1>6, <1>7, ApplySound
<1>9. Served
  BY <1>1, <1>4, <1>5, <1>8, HandledTrans DEF Served
<1>10. Result(s, op) \in {"ok", "outdated", "state"}
  BY DEF Result
<1>11. /\ call'.ver = call.ver
       /\ CallType(call')
       /\ call'.at = "bumped" => call.at = "bumped" /\ call'.op = call.op
  BY <1>5, <1>10 DEF Inv, CallOK, CallType
<1>12. QED
  BY <1>9, <1>11, ServedInv

LEMMA QueryTimerInv ==
  ASSUME Inv, QueryTimer
  PROVE  Inv'
<1>1. Served
  BY OffsetRequestSound DEF QueryTimer, Inv, Served
<1>2. QED
  BY <1>1, ServedSameCall DEF QueryTimer

LEMMA ValidateTimerInv ==
  ASSUME Inv, ValidateTimer
  PROVE  Inv'
<1> DEFINE s == [c EXCEPT !.validate_tmr = FALSE]
<1>1. Handled(c, s) /\ Sound(s) /\ Sound(c)
  BY SetFlags DEF Inv, Handled
<1>2. c' = IF s.state = "VALIDATE_EPOCH_WAIT" THEN OffsetValidate(s) ELSE s
  BY DEF ValidateTimer
<1> HIDE DEF s
<1>3. Served
  BY <1>1, <1>2, OffsetValidateSound, HandledTrans DEF ValidateTimer, Served
<1>4. QED
  BY <1>3, ServedSameCall DEF ValidateTimer

\* The leader that metadata names is at most the log's.
LEMMA LeaderUpdateInv ==
  ASSUME Inv, LeaderUpdate
  PROVE  Inv'
<1> DEFINE w == IF c.leader # log.leader /\ c.state = "OFFSET_WAIT" THEN OffsetRetry(c) ELSE c
           u == [w EXCEPT !.leader = log.leader, !.val_pos = FetchFrom(c)]
<1>1. Sound(c) /\ LogOK
  BY DEF Inv
<1>2. Handled(c, w)
  BY <1>1, OffsetRetrySound, HandledSelf
<1>3. FetchFrom(c) \in Positions
  BY <1>1 DEF FetchFrom, Sound, PlacesOK
<1>4. log.leader \in Epochs /\ c.leader <= log.leader
  BY <1>1, LogFacts DEF LogOK
<1>5. c' = OffsetValidate(u) /\ UNCHANGED <<log, call, app>>
  BY DEF LeaderUpdate
<1> HIDE DEF w
<1>6. Sound(u) /\ u.leader = log.leader /\ u.version = w.version
  <2>1. w.broker \in Epochs /\ w.leader \in Epochs /\ w.broker <= w.leader /\ w.leader = c.leader
    BY <1>2 DEF Handled, Sound, BrokersOK
  <2>2. w.broker <= log.leader
    BY <1>4, <2>1, FetcherBounds, LeTrans DEF Epochs
  <2>3. QED
    BY <1>2, <1>3, <1>4, <2>1, <2>2
    DEF Handled, Sound, VersionsOK, PlacesOK, BrokersOK, QueuesOK, Fields
<1> HIDE DEF u
<1>7. Handled(u, c')
  BY <1>5, <1>6, OffsetValidateSound
<1>8. Sound(c)'
  BY <1>7 DEF Handled, Sound, VersionsOK, PlacesOK, BrokersOK, QueuesOK
<1>9. c.version \in Nat /\ c'.version \in Nat /\ c.version <= c'.version
  <2>1. c.version \in Nat /\ u.version \in Nat /\ c'.version \in Nat
    BY <1>1, <1>6, <1>8 DEF Sound, VersionsOK
  <2>2. c.version <= u.version /\ u.version <= c'.version
    BY <1>2, <1>6, <1>7 DEF Handled
  <2>3. QED
    BY <2>1, <2>2, LeTrans
<1>10. LogOK'
  <2>1. c'.leader = log.leader /\ log.leader \in Nat
    BY <1>1, <1>6, <1>7, LogFacts DEF Handled
  <2>2. c'.leader <= log.leader
    BY <2>1
  <2>3. QED
    BY <1>1, <1>5, <2>2 DEF LogOK
<1>11. CallOK' /\ AppOK'
  BY <1>5, <1>9, CallKept DEF Inv
<1>12. QED
  BY <1>8, <1>10, <1>11 DEF Inv

LEMMA MigrateInv ==
  ASSUME Inv, Migrate
  PROVE  Inv'
<1>0. c.leader \in Epochs /\ c.leader <= c.leader
  BY FetcherBounds DEF Inv, Sound, BrokersOK, Epochs
<1>1. Handled(c, [c EXCEPT !.broker = c.leader])
  BY <1>0 DEF Inv, Handled, Sound, VersionsOK, PlacesOK, BrokersOK, QueuesOK, Fields
<1>2. Served
  BY <1>1 DEF Migrate, Served
<1>3. QED
  BY <1>2, ServedSameCall DEF Migrate

LEMMA ConsumerServeInv ==
  ASSUME Inv, ConsumerServe
  PROVE  Inv'
<1> DEFINE s == FetchDecide(c)
           n == [s EXCEPT !.net = Append(@,
                  [Request("fetch", s.fetch_version, s.fetch_pos, s) EXCEPT !.to = s.broker])]
<1>1. Handled(c, s) /\ Sound(s) /\ Sound(c) /\ (Fetchable(s) => s.fetch_version >= 1)
  BY FetchDecideSound DEF Inv, Handled
<1>2. c' = (IF Fetchable(s) /\ ~Fetching(s) THEN n ELSE s) /\ UNCHANGED <<log, call, app>>
  BY DEF ConsumerServe
<1> HIDE DEF s
<1>3. Fetchable(s) => Handled(s, n)
  BY <1>1, SendFetchSound
<1> HIDE DEF n
<1>4. Handled(c, c')
  BY <1>1, <1>2, <1>3, HandledTrans
<1>5. QED
  BY <1>2, <1>4, ServedSameCall DEF Served

LEMMA DropRequest ==
  ASSUME NEW s, Sound(s), NEW i \in DOMAIN s.net
  PROVE  /\ Handled(s, [s EXCEPT !.net = RemoveAt(@, i)])
         /\ s.net[i] \in Requests
<1>1. s.net \in Seq(Requests)
  BY DEF Sound, QueuesOK
<1>2. s.net[i] \in Requests /\ RemoveAt(s.net, i) \in Seq(Requests)
  BY <1>1, RemoveAtSeq, ElementOfSeq, LenProperties
<1>3. QED
  BY <1>2 DEF Handled, Sound, VersionsOK, PlacesOK, BrokersOK, QueuesOK, Fields

LEMMA FetchReplyInv ==
  ASSUME Inv, FetchReply
  PROVE  Inv'
<1>1. PICK i \in DOMAIN c.net :
        /\ c.net[i].type = "fetch" /\ c.net[i].answer # "none"
        /\ c' = HandleFetch([c EXCEPT !.net = RemoveAt(@, i)], c.net[i])
        /\ UNCHANGED <<log, call, app>>
  BY DEF FetchReply
<1> DEFINE s == [c EXCEPT !.net = RemoveAt(@, i)]
<1>2. Sound(c) /\ Handled(c, s) /\ Sound(s) /\ c.net[i] \in Requests
  BY DropRequest DEF Inv, Handled
<1>3. c' = HandleFetch(s, c.net[i])
  BY <1>1
<1> HIDE DEF s
<1>4. Handled(s, c')
  BY <1>1, <1>2, <1>3, HandleFetchSound
<1>5. QED
  BY <1>1, <1>2, <1>4, HandledTrans, ServedSameCall DEF Served

LEMMA BackoffOverInv ==
  ASSUME Inv, BackoffOver
  PROVE  Inv'
<1>1. Served
  BY SetFlags DEF Inv, BackoffOver, Served
<1>2. QED
  BY <1>1, ServedSameCall DEF BackoffOver

LEMMA AnswerRequest ==
  ASSUME NEW s, Sound(s), NEW i \in DOMAIN s.net, NEW r \in Requests
  PROVE  Handled(s, [s EXCEPT !.net[i] = r])
<1>1. [s.net EXCEPT ![i] = r] \in Seq(Requests)
  BY ExceptSeq, LenProperties DEF Sound, QueuesOK
<1>2. QED
  BY <1>1 DEF Handled, Sound, VersionsOK, PlacesOK, BrokersOK, QueuesOK, Fields

LEMMA BrokerFetchInv ==
  ASSUME Inv, BrokerFetch
  PROVE  Inv'
<1>1. PICK i \in DOMAIN c.net :
        /\ c.net[i].type = "fetch"
        /\ c' = [c EXCEPT !.net[i] = FetchAnswer(c.net[i])]
        /\ UNCHANGED <<log, call, app>>
  BY DEF BrokerFetch
<1> DEFINE r == FetchAnswer(c.net[i])
<1>2. Sound(c) /\ LogOK /\ c.net[i] \in Requests
  BY DropRequest DEF Inv
<1>3. r \in Requests
  BY <1>1, <1>2, FetchAnswerType
<1>4. c' = [c EXCEPT !.net[i] = r]
  BY <1>1
<1> HIDE DEF r
<1>5. Handled(c, c')
  BY <1>2, <1>3, <1>4, AnswerRequest
<1>6. QED
  BY <1>1, <1>5, ServedSameCall DEF Served

LEMMA FetchLostInv ==
  ASSUME Inv, FetchLost
  PROVE  Inv'
<1>1. PICK i \in DOMAIN c.net :
        /\ c.net[i].type = "fetch"
        /\ c' = [c EXCEPT !.net[i].answer = "lost"]
        /\ UNCHANGED <<log, call, app>>
  BY DEF FetchLost
<1> DEFINE r == [c.net[i] EXCEPT !.answer = "lost"]
<1>2. Sound(c) /\ c.net[i] \in Requests
  BY DropRequest DEF Inv
<1>3. r \in Requests
  BY <1>1, <1>2 DEF Requests
<1>4. c' = [c EXCEPT !.net[i] = r]
  BY <1>1
<1> HIDE DEF r
<1>5. Handled(c, c')
  BY <1>2, <1>3, <1>4, AnswerRequest
<1>6. QED
  BY <1>1, <1>5, ServedSameCall DEF Served

\* A reply to a look-up moves from the network to the main thread's queue.
LEMMA ReplyMoves ==
  ASSUME NEW s, Sound(s), NEW i \in DOMAIN s.net, NEW o \in Ops(0), o.type \notin Commands
  PROVE  Handled(s, [s EXCEPT !.net = RemoveAt(@, i), !.ops = Append(@, o)])
<1> DEFINE n == RemoveAt(s.net, i)
           q == Append(s.ops, o)
<1>1. n \in Seq(Requests)
  BY RemoveAtSeq DEF Sound, QueuesOK
<1>2. q \in Seq(Ops(s.version))
  BY ReplySound
<1>3. [s EXCEPT !.net = RemoveAt(@, i), !.ops = Append(@, o)] = [s EXCEPT !.net = n, !.ops = q]
  OBVIOUS
<1> HIDE DEF n, q
<1>4. Handled(s, [s EXCEPT !.net = n, !.ops = q])
  BY <1>1, <1>2 DEF Handled, Sound, VersionsOK, PlacesOK, BrokersOK, QueuesOK, Fields
<1>5. QED
  BY <1>3, <1>4

LEMMA BrokerLookupInv ==
  ASSUME Inv, BrokerLookup
  PROVE  Inv'
<1>1. PICK i \in DOMAIN c.net :
        /\ c.net[i].type # "fetch"
        /\ c' = [c EXCEPT !.net = RemoveAt(@, i), !.ops = Append(@, LookupAnswer(c.net[i]))]
        /\ UNCHANGED <<log, call, app>>
  BY DEF BrokerLookup
<1>2. Sound(c) /\ LogOK /\ c.net[i] \in Requests
  BY DropRequest DEF Inv
<1>3. LookupAnswer(c.net[i]) \in Ops(0) /\ LookupAnswer(c.net[i]).type \notin Commands
  BY <1>1, <1>2, LookupAnswerType
<1>4. Handled(c, c')
  BY <1>1, <1>2, <1>3, ReplyMoves
<1>5. QED
  BY <1>1, <1>4, ServedSameCall DEF Served

LEMMA LookupFailsInv ==
  ASSUME Inv, LookupFails
  PROVE  Inv'
<1>1. PICK i \in DOMAIN c.net, f \in {"lookup", "refused"} :
        /\ c.net[i].type = "list" \/ c.net[i].type = "epoch"
        /\ c' = [c EXCEPT !.net = RemoveAt(@, i),
                      !.ops = Append(@, [LookupAnswer(c.net[i]) EXCEPT
                        !.res = IF f = "lookup" THEN "temporary" ELSE "permanent"])]
        /\ UNCHANGED <<log, call, app>>
  BY DEF LookupFails
<1> DEFINE x == IF f = "lookup" THEN "temporary" ELSE "permanent"
           o == [LookupAnswer(c.net[i]) EXCEPT !.res = x]
<1>2. Sound(c) /\ LogOK /\ c.net[i] \in Requests
  BY DropRequest DEF Inv
<1>3. x \in {"ok", "temporary", "permanent"}
  OBVIOUS
<1>4. c' = [c EXCEPT !.net = RemoveAt(@, i), !.ops = Append(@, o)]
  BY <1>1
<1> HIDE DEF x
<1>5. o \in Ops(0) /\ o.type \notin Commands
  BY <1>1, <1>2, <1>3, LookupAnswerType
<1> HIDE DEF o
<1>6. Handled(c, c')
  BY <1>2, <1>4, <1>5, ReplyMoves
<1>7. QED
  BY <1>1, <1>6, ServedSameCall DEF Served

\* The log changes and nothing else does.
LEMMA LogInv ==
  ASSUME Inv, UNCHANGED <<c, call, app>>,
         log' \in [lo : Nat, epochs : Seq(1 .. MaxMoves + 1), leader : 1 .. MaxMoves + 1],
         log'.lo <= Len(log'.epochs), Len(log'.epochs) <= MaxLog, log.leader <= log'.leader
  PROVE  Inv'
<1>1. c.leader \in Nat /\ log.leader \in Nat /\ log'.leader \in Nat /\ c.leader <= log.leader
  BY FetcherBounds DEF Inv, Sound, BrokersOK, LogOK, Epochs
<1>2. c.leader <= log'.leader
  BY <1>1, LeTrans
<1>3. LogOK'
  BY <1>2 DEF LogOK
<1>4. CallOK' /\ AppOK'
  BY DEF Inv, CallOK, CallType, AppOK
<1>5. Sound(c)'
  BY DEF Inv, Sound, VersionsOK, PlacesOK, BrokersOK, QueuesOK
<1>6. QED
  BY <1>3, <1>4, <1>5 DEF Inv

LEMMA BrokerLogInv ==
  ASSUME Inv, Produce \/ Trim \/ Move \/ Truncate
  PROVE  Inv'
<1>1. /\ log \in [lo : Nat, epochs : Seq(1 .. MaxMoves + 1), leader : 1 .. MaxMoves + 1]
      /\ log.lo <= Len(log.epochs) /\ Len(log.epochs) <= MaxLog
      /\ log.leader <= log.leader /\ Len(log.epochs) \in Nat
  BY FetcherBounds DEF Inv, LogOK
<1>2. CASE Produce
  <2>1. log' = [log EXCEPT !.epochs = Append(@, log.leader)] /\ Len(log.epochs) < MaxLog
    BY <1>2 DEF Produce, LogEnd
  <2>2. /\ Append(log.epochs, log.leader) \in Seq(1 .. MaxMoves + 1)
        /\ Len(Append(log.epochs, log.leader)) = Len(log.epochs) + 1
    BY <1>1, AppendProperties
  <2>3. /\ log' \in [lo : Nat, epochs : Seq(1 .. MaxMoves + 1), leader : 1 .. MaxMoves + 1]
        /\ Len(log'.epochs) = Len(log.epochs) + 1 /\ log'.lo = log.lo /\ log'.leader = log.leader
    BY <1>1, <2>1, <2>2
  <2>4. log'.lo <= Len(log'.epochs) /\ Len(log'.epochs) <= MaxLog
    BY <1>1, <2>1, <2>3, FetcherBounds
  <2>5. QED
    BY <1>1, <1>2, <2>3, <2>4, LogInv DEF Produce
<1>3. CASE Trim
  <2>1. log' = [log EXCEPT !.lo = @ + 1] /\ log.lo < Len(log.epochs)
    BY <1>3 DEF Trim, LogEnd
  <2>2. /\ log' \in [lo : Nat, epochs : Seq(1 .. MaxMoves + 1), leader : 1 .. MaxMoves + 1]
        /\ log'.lo <= Len(log'.epochs) /\ Len(log'.epochs) <= MaxLog
        /\ log'.leader = log.leader
    BY <1>1, <2>1
  <2>3. QED
    BY <1>1, <1>3, <2>2, LogInv DEF Trim
<1>4. CASE Move
  <2>1. log' = [log EXCEPT !.leader = @ + 1] /\ log.leader <= MaxMoves
    BY <1>4 DEF Move
  <2>2. /\ log' \in [lo : Nat, epochs : Seq(1 .. MaxMoves + 1), leader : 1 .. MaxMoves + 1]
        /\ log'.lo <= Len(log'.epochs) /\ Len(log'.epochs) <= MaxLog
        /\ log.leader <= log'.leader
    BY <1>1, <2>1, FetcherBounds
  <2>3. QED
    BY <1>1, <1>4, <2>2, LogInv DEF Move
<1>5. CASE Truncate
  <2>1. PICK n \in log.lo .. LogEnd - 1 :
          log' = [log EXCEPT !.leader = @ + 1, !.epochs = SubSeq(@, 1, n)]
    BY <1>5 DEF Truncate
  <2>2. log.leader <= MaxMoves /\ UNCHANGED <<c, call, app>>
    BY <1>5 DEF Truncate
  <2>3. n \in Nat /\ log.lo <= n /\ n < Len(log.epochs)
    BY <1>1 DEF LogEnd
  <2>4. SubSeq(log.epochs, 1, n) \in Seq(1 .. MaxMoves + 1) /\ Len(SubSeq(log.epochs, 1, n)) = n
    <3>1. log.epochs \in Seq(1 .. MaxMoves + 1) /\ n \in 0 .. Len(log.epochs)
      BY <1>1, <2>3
    <3>2. QED
      BY <3>1, PrefixSeq
  <2> DEFINE e == SubSeq(log.epochs, 1, n)
  <2>9. log' = [log EXCEPT !.leader = @ + 1, !.epochs = e]
    BY <2>1
  <2> HIDE DEF e
  <2>5. /\ log' \in [lo : Nat, epochs : Seq(1 .. MaxMoves + 1), leader : 1 .. MaxMoves + 1]
        /\ Len(log'.epochs) = n /\ log'.lo = log.lo /\ log.leader <= log'.leader
    <3>1. e \in Seq(1 .. MaxMoves + 1) /\ Len(e) = n
      BY <2>4 DEF e
    <3>2. log.leader + 1 \in 1 .. MaxMoves + 1 /\ log.leader <= log.leader + 1
      BY <1>1, <2>2, FetcherBounds
    <3>3. QED
      BY <1>1, <2>9, <3>1, <3>2
  <2>6. log'.lo <= Len(log'.epochs) /\ Len(log'.epochs) <= MaxLog
    BY <1>1, <2>3, <2>5, FetcherBounds
  <2>7. QED
    BY <2>2, <2>5, <2>6, LogInv
<1>6. QED
  BY <1>2, <1>3, <1>4, <1>5

\* A call takes a new version; no message can carry it yet.
LEMMA CallInv ==
  ASSUME Inv, NEW op \in Commands, NEW pos \in Positions, NEW async,
         Call(op, pos, async)
  PROVE  Inv'
<1>1. /\ c' = [c EXCEPT !.version = @ + 1]
      /\ call' = [at |-> "bumped", op |-> op, ver |-> c.version + 1, pos |-> pos,
                  async |-> async]
      /\ app' = [app EXCEPT !.barrier = c.version + 1,
                            !.paused = @ /\ op # "resume", !.started = @ /\ op # "stop"]
      /\ log' = log
  BY DEF Call
<1>2. c.version \in Nat /\ Sound(c)
  BY DEF Inv, Sound, VersionsOK
<1>3. c.ops \in Seq(Ops(c.version + 1))
  BY <1>2, OpsGrow DEF Sound, QueuesOK
<1>4. DOMAIN c' = Fields /\ c'.version = c.version + 1 /\ c'.leader = c.leader
  BY <1>1, <1>2 DEF Sound, Fields
<1>5. Sound(c)'
  BY <1>1, <1>2, <1>3 DEF Sound, VersionsOK, PlacesOK, BrokersOK, QueuesOK, Fields
<1>6. LogOK'
  BY <1>1, <1>4 DEF Inv, LogOK
<1>7. CallOK'
  <2>1. /\ call'.ver = c.version + 1 /\ call'.op = op /\ call'.at = "bumped"
        /\ call'.pos = pos /\ DOMAIN call' = {"at", "op", "ver", "pos", "async"}
    BY <1>1
  <2>2. CallType(call')
    <3>1. c.version + 1 \in Nat
      BY <1>2
    <3>2. QED
      BY <2>1, <3>1 DEF CallType
  <2>3. call'.ver <= c'.version
    BY <1>2, <1>4, <2>1
  <2>4. QED
    BY <2>1, <2>2, <2>3 DEF CallOK, CallType
<1>8. AppOK'
  BY <1>1, <1>2, <1>4 DEF Inv, AppOK
<1>9. QED
  BY <1>5, <1>6, <1>7, <1>8 DEF Inv

LEMMA EnqueueInv ==
  ASSUME Inv, Enqueue
  PROVE  Inv'
<1> DEFINE o == Op(call.op, call.ver, call.pos)
           q == Append(c.ops, o)
<1>1. /\ call.at = "bumped" /\ c' = [c EXCEPT !.ops = q]
      /\ call' = [call EXCEPT !.at = IF call.async THEN "idle" ELSE "wait"]
      /\ UNCHANGED <<log, app>>
  BY DEF Enqueue
<1>2. Sound(c) /\ CallOK
  BY DEF Inv
<1>3. o \in Ops(c.version)
  BY <1>1, <1>2, NoPosType DEF CallOK, CallType, Op, Ops, OpTypes
<1> HIDE DEF o
<1>4. q \in Seq(Ops(c.version))
  BY <1>2, <1>3, AppendProperties DEF Sound, QueuesOK
<1> HIDE DEF q
<1>5. Handled(c, [c EXCEPT !.ops = q])
  BY <1>2, <1>4 DEF Handled, Sound, VersionsOK, PlacesOK, BrokersOK, QueuesOK, Fields
<1>6. Served
  BY <1>1, <1>5 DEF Served
<1>7. /\ call'.ver = call.ver
      /\ CallType(call')
      /\ call'.at # "bumped"
  BY <1>1, <1>2 DEF CallOK, CallType
<1>8. QED
  BY <1>6, <1>7, ServedInv

LEMMA ReturnInv ==
  ASSUME Inv, Return
  PROVE  Inv'
<1>1. /\ call' = [call EXCEPT !.at = "idle"] /\ UNCHANGED <<c, log>>
      /\ app' = IF call.at # "ok"
                THEN [app EXCEPT !.started = @ \/ call.op = "stop", !.paused = c.paused]
                ELSE [app EXCEPT !.started = @ \/ call.op = "start",
                                 !.paused = @ \/ call.op = "pause"]
  BY DEF Return
<1>2. AppOK'
  BY <1>1 DEF Inv, AppOK
<1>3. CallOK'
  BY <1>1 DEF Inv, CallOK, CallType
<1>4. LogOK'
  BY <1>1 DEF Inv, LogOK
<1>5. Sound(c)'
  BY <1>1 DEF Inv, Sound, VersionsOK, PlacesOK, BrokersOK, QueuesOK
<1>6. QED
  BY <1>2, <1>3, <1>4, <1>5 DEF Inv

\* The application is handed a message only of the partition's present version, which is
\* that of its last call or a later one.
LEMMA ConsumeInv ==
  ASSUME Inv, Consume
  PROVE  Inv'
<1> DEFINE m == Head(c.fetchq)
           s == [c EXCEPT !.fetchq = Tail(@)]
<1>1. Sound(c) /\ AppOK /\ CallOK /\ LogOK
  BY DEF Inv
<1>2. m \in Queued /\ Tail(c.fetchq) \in Seq(Queued)
  BY <1>1, HeadTailProperties DEF Consume, Sound, QueuesOK
<1>3. Handled(c, s) /\ Sound(s) /\ s.version = c.version
  BY <1>1, <1>2 DEF Handled, Sound, VersionsOK, PlacesOK, BrokersOK, QueuesOK, Fields
<1>4. /\ IF m.err \/ Outdated(c, m)
         THEN c' = s /\ app' = app
         ELSE c' = [s EXCEPT !.app_pos = Pos(m.off + 1, m.ep)] /\ app' = Reads(app, m)
      /\ UNCHANGED <<log, call>>
  BY DEF Consume
<1> HIDE DEF m, s
<1>5. CASE m.err \/ Outdated(c, m)
  <2>1. Served
    BY <1>3, <1>4, <1>5 DEF Served
  <2>2. QED
    BY <1>4, <2>1, ServedSameCall
<1>6. CASE ~(m.err \/ Outdated(c, m))
  <2> DEFINE p == Pos(m.off + 1, m.ep)
  <2>1. m.ver \in Nat /\ m.ver >= 1 /\ m.off \in Offsets /\ m.off < MaxLog /\ m.ep \in Epochs
    BY <1>2, <1>6 DEF Queued, Message
  <2>2. m.off + 1 \in Offsets
    BY <2>1, FetcherBounds DEF Offsets
  <2>3. p \in Positions
    BY <2>1, <2>2, PosType
  <2>4. c' = [s EXCEPT !.app_pos = p] /\ app' = Reads(app, m)
    BY <1>4, <1>6
  <2> HIDE DEF p
  <2>5. Handled(s, c')
    BY <1>3, <2>3, <2>4, SetAppPos
  <2>6. Handled(c, c')
    BY <1>1, <1>3, <2>5, HandledTrans
  <2>7. c.version \in Nat /\ app.barrier \in Nat /\ app.barrier <= c.version
    BY <1>1 DEF Sound, VersionsOK, AppOK
  <2>8. ~(m.ver < c.version)
    BY <1>6, <2>1 DEF Outdated
  <2>9. ~(m.ver < app.barrier)
    BY <2>1, <2>7, <2>8
  <2>10. /\ DOMAIN app' = DOMAIN app /\ app'.barrier = app.barrier
         /\ app'.stale = (app.stale \/ m.ver < app.barrier)
    BY <1>1, <2>4 DEF Reads, AppOK
  <2>11. app'.stale = FALSE
    BY <1>1, <2>9, <2>10 DEF AppOK
  <2>12. c'.version \in Nat /\ c.version <= c'.version /\ c'.leader = c.leader
    BY <2>6 DEF Handled, Sound, VersionsOK
  <2>13. app.barrier <= c'.version
    BY <2>7, <2>12, LeTrans
  <2>14. AppOK'
    BY <1>1, <2>10, <2>11, <2>13 DEF AppOK
  <2>15. CallOK'
    <3>1. call.ver \in Nat /\ call.ver <= c.version
      BY <1>1 DEF CallOK, CallType
    <3>2. call.ver <= c'.version
      BY <2>7, <2>12, <3>1, LeTrans
    <3>3. QED
      BY <1>1, <1>4, <3>2 DEF CallOK, CallType
  <2>16. LogOK'
    BY <1>1, <1>4, <2>12 DEF LogOK
  <2>17. Sound(c)'
    BY <2>6 DEF Handled, Sound, VersionsOK, PlacesOK, BrokersOK, QueuesOK
  <2>18. QED
    BY <2>14, <2>15, <2>16, <2>17 DEF Inv
<1>7. QED
  BY <1>5, <1>6

LEMMA CallsInv ==
  ASSUME Inv, CallStart \/ CallSeek \/ CallStop \/ CallPause \/ CallResume
  PROVE  Inv'
<1>1. CASE CallStart
  <2>1. PICK p \in Starts : Call("start", p, FALSE)
    BY <1>1 DEF CallStart
  <2>2. p \in Positions /\ "start" \in Commands
    BY FetcherFaults DEF Commands
  <2>3. QED
    BY <2>1, <2>2, CallInv
<1>2. CASE CallSeek
  <2>1. PICK p \in Seeks, async \in BOOLEAN : Call("seek", p, async)
    BY <1>2 DEF CallSeek
  <2>2. p \in Positions /\ "seek" \in Commands
    BY FetcherFaults DEF Commands
  <2>3. QED
    BY <2>1, <2>2, CallInv
<1>3. {"stop", "pause", "resume"} \subseteq Commands
  BY DEF Commands
<1>4. CASE CallStop
  BY <1>3, <1>4, NoPosType, CallInv DEF CallStop
<1>5. CASE CallPause
  BY <1>3, <1>5, NoPosType, CallInv DEF CallPause
<1>6. CASE CallResume
  BY <1>3, <1>6, NoPosType, CallInv DEF CallResume
<1>7. QED
  BY <1>1, <1>2, <1>4, <1>5, <1>6

LEMMA InitInv == Init => Inv
<1> SUFFICES ASSUME Init PROVE Inv
  OBVIOUS
<1> DEFINE E == [i \in 1 .. InitLog |-> 1]
<1>1. E \in Seq(1 .. MaxMoves + 1) /\ Len(E) = InitLog
  <2>1. 1 \in 1 .. MaxMoves + 1 /\ InitLog \in Nat
    BY FetcherBounds
  <2>2. QED
    BY <2>1
<1>2. log = [lo |-> 0, epochs |-> E, leader |-> 1]
  BY DEF Init
<1> HIDE DEF E
<1>3. <<>> \in Seq(Ops(1)) /\ <<>> \in Seq(Queued) /\ <<>> \in Seq(Requests)
  BY EmptySeq
<1>4. Sound(c)
  <2>1. c = PartitionInit
    BY DEF Init
  <2>2. /\ DOMAIN c = Fields /\ c.state = "NONE"
        /\ c.version = 1 /\ c.op_version = 1 /\ c.fetch_version = 0
        /\ c.next = NoPos /\ c.last = NoPos /\ c.fetch_pos = NoPos /\ c.app_pos = NoPos
        /\ c.val_pos = NoPos /\ c.query = Invalid /\ c.lo = Invalid
    BY <2>1 DEF PartitionInit, Fields
  <2>3. /\ c.era = 0 /\ c.start = 0 /\ c.fera = 0 /\ c.fstart = 0
        /\ c.leader = 0 /\ c.broker = 0 /\ c.ops = <<>> /\ c.fetchq = <<>> /\ c.net = <<>>
    BY <2>1 DEF PartitionInit
  <2>4. VersionsOK(c) /\ PlacesOK(c) /\ BrokersOK(c)
    BY <2>2, <2>3, NoPosType DEF VersionsOK, PlacesOK, BrokersOK
  <2>5. QueuesOK(c) /\ c.state \in FetchStates
    BY <1>3, <2>2, <2>3 DEF QueuesOK, FetchStates
  <2>6. QED
    BY <2>2, <2>4, <2>5 DEF Sound
<1>5. c.leader = 0 /\ c.version = 1
  BY DEF Init, PartitionInit
<1>6. LogOK
  BY <1>1, <1>2, <1>5, FetcherBounds DEF LogOK
<1>7. CallOK
  <2>1. /\ DOMAIN call = {"at", "op", "ver", "pos", "async"} /\ call.at = "idle"
        /\ call.op = "none" /\ call.ver = 0 /\ call.pos = NoPos
    BY DEF Init
  <2>2. CallType(call)
    BY <2>1, NoPosType DEF CallType
  <2>3. call.ver <= c.version
    BY <1>5, <2>1
  <2>4. call.at # "bumped"
    BY <2>1
  <2>5. QED
    BY <2>2, <2>3, <2>4 DEF CallOK
<1>8. AppOK
  <2>1. /\ DOMAIN app = {"started", "paused", "barrier", "era", "next", "stale", "astray"}
        /\ app.barrier = 0 /\ app.stale = FALSE
    BY DEF Init
  <2>2. QED
    BY <1>5, <2>1 DEF AppOK
<1>9. QED
  BY <1>4, <1>6, <1>7, <1>8 DEF Inv

LEMMA StepInv == Inv /\ [Next]_vars => Inv'
<1> SUFFICES ASSUME Inv, [Next]_vars PROVE Inv'
  OBVIOUS
<1>1. CASE HandleOp
  BY <1>1, HandleOpInv
<1>2. CASE QueryTimer
  BY <1>2, QueryTimerInv
<1>3. CASE ValidateTimer
  BY <1>3, ValidateTimerInv
<1>4. CASE LeaderUpdate
  BY <1>4, LeaderUpdateInv
<1>5. CASE Migrate
  BY <1>5, MigrateInv
<1>6. CASE ConsumerServe
  BY <1>6, ConsumerServeInv
<1>7. CASE FetchReply
  BY <1>7, FetchReplyInv
<1>8. CASE BackoffOver
  BY <1>8, BackoffOverInv
<1>9. CASE BrokerFetch
  BY <1>9, BrokerFetchInv
<1>10. CASE BrokerLookup
  BY <1>10, BrokerLookupInv
<1>11. CASE LookupFails
  BY <1>11, LookupFailsInv
<1>12. CASE FetchLost
  BY <1>12, FetchLostInv
<1>13. CASE Produce \/ Trim \/ Move \/ Truncate
  BY <1>13, BrokerLogInv
<1>14. CASE CallStart \/ CallSeek \/ CallStop \/ CallPause \/ CallResume
  BY <1>14, CallsInv
<1>15. CASE Enqueue
  BY <1>15, EnqueueInv
<1>16. CASE Return
  BY <1>16, ReturnInv
<1>17. CASE Consume
  BY <1>17, ConsumeInv
<1>18. CASE UNCHANGED vars
  <2>1. Served /\ UNCHANGED call
    BY <1>18, HandledSelf DEF vars, Served, Inv
  <2>2. QED
    BY <2>1, ServedSameCall
<1>19. QED
  BY <1>1, <1>2, <1>3, <1>4, <1>5, <1>6, <1>7, <1>8, <1>9, <1>10, <1>11, <1>12, <1>13,
     <1>14, <1>15, <1>16, <1>17, <1>18 DEF Next

LEMMA InvType == Inv => TypeOK
<1> SUFFICES ASSUME Inv PROVE TypeOK
  OBVIOUS
<1>1. \A i \in DOMAIN c.fetchq : c.fetchq[i] \in Message
  BY ElementOfSeq, LenProperties DEF Inv, Sound, QueuesOK, Queued
<1>2. \A i \in DOMAIN c.ops : c.ops[i].type \in Commands \cup {"list", "epoch", "reset"}
  BY ElementOfSeq, LenProperties DEF Inv, Sound, QueuesOK, Ops, OpTypes
<1>3. /\ 0 <= c.fetch_version /\ c.fetch_version <= c.op_version /\ c.op_version <= c.version
      /\ c.state \in FetchStates
  BY DEF Inv, Sound, VersionsOK
<1>4. /\ {c.next, c.last, c.fetch_pos, c.app_pos, c.val_pos} \subseteq Positions
      /\ c.query \in {Invalid, Begin, End} /\ c.lo \in Offsets \cup {Invalid}
  BY DEF Inv, Sound, PlacesOK
<1>5. c.leader \in Epochs /\ c.broker \in Epochs /\ c.broker <= c.leader
  BY DEF Inv, Sound, BrokersOK
<1>6. QED
  BY <1>1, <1>2, <1>3, <1>4, <1>5 DEF Inv, TypeOK, CallOK, CallType

\* The state of the fetcher keeps its types: the three versions of the partition stay in
\* their order, every position lies within the log's bounds or is logical, and the
\* partition is never handed to a broker ahead of its leader.
THEOREM TypeCorrect == Spec => []TypeOK
<1>1. Spec => []Inv
  BY InitInv, StepInv, PTL DEF Spec
<1>2. QED
  BY <1>1, InvType, PTL

\* However the application's calls, the main thread, the broker thread, changes of leader
\* and replies interleave, the application is never handed a message that was fetched
\* under a version older than its last call.
THEOREM BarrierHolds == Spec => []NoStaleDelivery
<1>1. Spec => []Inv
  BY InitInv, StepInv, PTL DEF Spec
<1>2. Inv => NoStaleDelivery
  BY DEF Inv, AppOK, NoStaleDelivery
<1>3. QED
  BY <1>1, <1>2, PTL
=============================================================================
