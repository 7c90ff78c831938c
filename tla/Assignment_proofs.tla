-------------------------- MODULE Assignment_proofs --------------------------
(***************************************************************************)
(* What holds of the assignment for any number of partitions, calls,       *)
(* retries and faults, in any order of handlers: no assertion of           *)
(* rdkafka_assignment.c fails (Sound), the commits that are outstanding    *)
(* are counted (Fit), and no offset gets into the group's committed        *)
(* offsets that was not there to be committed (Fit's parameter F).         *)
(*                                                                         *)
(* The main thread's state is a record that the handlers transform, so the *)
(* invariants are predicates on such a record and there is one lemma per   *)
(* transformation and invariant.  R stands for the list .removed, which is *)
(* empty between two handlers.                                             *)
(***************************************************************************)
EXTENDS Assignment, FiniteSetTheorems, WellFoundedInduction, SequenceTheorems, TLAPS

-----------------------------------------------------------------------------
(* Sets of numbers. *)

\* The relation NatLessThanWellFounded speaks of, as a set of pairs.
LEMMA LessThanRel == OpToRel(<, Nat) = {ss \in Nat \X Nat : ss[1] < ss[2]}
  BY DEF OpToRel

\* A non-empty set of natural numbers has a least element.
LEMMA LeastExists ==
  ASSUME NEW T, T \subseteq Nat, T # {}
  PROVE  \E x \in T : \A y \in T : x <= y
<1> DEFINE R == {ss \in Nat \X Nat : ss[1] < ss[2]}
<1>1. IsWellFoundedOn(R, Nat)
  BY NatLessThanWellFounded, LessThanRel
<1>2. \A x, y \in Nat : x < y => <<x, y>> \in R
  OBVIOUS
<1> HIDE DEF R
<1>3. PICK x \in T : \A y \in T : ~(<<y, x>> \in R)
  BY <1>1, WFMin
<1>4. ASSUME NEW y \in T PROVE x <= y
  <2>1. x \in Nat /\ y \in Nat
    OBVIOUS
  <2>2. y < x => <<y, x>> \in R
    BY <1>2, <2>1
  <2>3. ~(y < x)
    BY <1>3, <2>2
  <2>4. QED
    BY <2>1, <2>3
<1>5. QED
  BY <1>4

\* A bounded set of natural numbers is finite, and so are its subsets.
LEMMA BoundedFinite ==
  ASSUME NEW n \in Nat, NEW T, T \subseteq 0 .. n
  PROVE  IsFiniteSet(T) /\ Cardinality(T) \in Nat
<1>1. IsFiniteSet(0 .. n)
  BY FS_Interval
<1>2. QED
  BY <1>1, FS_Subset, FS_CardinalityType

Fields == {"all", "pending", "queried", "started", "wait_stop", "assigned", "stored",
           "committed_pos", "app_pos", "started_cnt", "wait_stop_cnt",
           "wait_commit_cnt", "version", "stops", "up", "wire", "retry",
           "wait_coord", "ops", "errs", "serve_pending", "done", "asserts"}

\* The lists: what waits for its offset or its start is assigned, and not both.
ListsOK(s) ==
  /\ DOMAIN s.all \subseteq Partitions
  /\ DOMAIN s.pending \subseteq DOMAIN s.all
  /\ s.queried \subseteq DOMAIN s.all
  /\ DOMAIN s.pending \cap s.queried = {}

\* The flags: ASSIGNED is set for what is assigned or being removed; what runs
\* and is not being stopped is one of these, and waits for nothing.
FlagsOK(s, R) ==
  /\ s.assigned = DOMAIN s.all \cup R
  /\ s.started \subseteq Partitions
  /\ s.wait_stop \subseteq s.started
  /\ s.started \ s.wait_stop \subseteq DOMAIN s.all \cup R
  /\ s.started \cap s.queried = {}
  /\ s.started \cap DOMAIN s.pending \subseteq s.wait_stop

\* The counters: one stop is outstanding for each partition being stopped.
CountersOK(s) ==
  /\ s.started_cnt = Cardinality(s.started)
  /\ s.wait_stop_cnt = Cardinality(s.wait_stop)
  /\ s.stops = [p \in Partitions |-> IF p \in s.wait_stop THEN 1 ELSE 0]

Sound(s, R) ==
  /\ DOMAIN s = Fields
  /\ s.asserts = TRUE
  /\ R \subseteq Partitions \ DOMAIN s.all
  /\ ListsOK(s) /\ FlagsOK(s, R) /\ CountersOK(s)

\* What Sound depends on.
Same(s, t) ==
  /\ DOMAIN t = DOMAIN s
  /\ t.asserts = s.asserts
  /\ t.all = s.all /\ t.pending = s.pending /\ t.queried = s.queried
  /\ t.assigned = s.assigned /\ t.started = s.started /\ t.wait_stop = s.wait_stop
  /\ t.started_cnt = s.started_cnt /\ t.wait_stop_cnt = s.wait_stop_cnt
  /\ t.stops = s.stops

LEMMA SameSound ==
  ASSUME NEW s, NEW t, NEW R, Sound(s, R), Same(s, t)
  PROVE  Sound(t, R)
BY DEF Sound, Same, ListsOK, FlagsOK, CountersOK

LEMMA SameTrans ==
  ASSUME NEW s, NEW t, NEW u, Same(s, t), Same(t, u)
  PROVE  Same(s, u)
BY DEF Same

-----------------------------------------------------------------------------
LEMMA OffsetsCommitSame ==
  ASSUME NEW s, DOMAIN s = Fields, NEW offsets
  PROVE  Same(s, OffsetsCommit(s, offsets))
<1>1. CASE ~HasValidOffset(offsets)
  BY <1>1 DEF OffsetsCommit, Same, Fields
<1>2. CASE HasValidOffset(offsets) /\ ~s.up
  BY <1>2 DEF OffsetsCommit, Same, Fields
<1>3. CASE HasValidOffset(offsets) /\ s.up
  BY <1>3 DEF OffsetsCommit, Same, Fields
<1>4. QED
  BY <1>1, <1>2, <1>3

LEMMA CardUnion ==
  ASSUME NEW A, NEW B, A \subseteq Partitions, B \subseteq Partitions, A \cap B = {}
  PROVE  /\ Cardinality(A) \in Nat /\ Cardinality(B) \in Nat
         /\ Cardinality(A \cup B) = Cardinality(A) + Cardinality(B)
<1>1. IsFiniteSet(A) /\ IsFiniteSet(B)
  BY AssignmentPartitions, FS_Subset
<1>2. Cardinality(A) \in Nat /\ Cardinality(B) \in Nat
  BY <1>1, FS_CardinalityType
<1>3. Cardinality(A \cup B) = Cardinality(A) + Cardinality(B) - Cardinality(A \cap B)
  BY <1>1, FS_Union
<1>4. Cardinality(A \cap B) = 0
  BY FS_EmptySet
<1>5. QED
  BY <1>2, <1>3, <1>4

LEMMA CardZero ==
  ASSUME NEW A, A \subseteq Partitions
  PROVE  Cardinality(A) \in Nat /\ (Cardinality(A) = 0 <=> A = {})
<1>1. IsFiniteSet(A)
  BY AssignmentPartitions, FS_Subset
<1>2. QED
  BY <1>1, FS_CardinalityType, FS_EmptySet

\* The partitions of R that run are being stopped afterwards.
LEMMA RequestStopFacts ==
  ASSUME NEW s, NEW R, NEW t, t = RequestStop(s, R),
         DOMAIN s = Fields, s.asserts = TRUE,
         s.started \subseteq Partitions, s.wait_stop \subseteq s.started, CountersOK(s)
  PROVE  /\ DOMAIN t = Fields /\ t.asserts = TRUE
         /\ t.all = s.all /\ t.pending = s.pending /\ t.queried = s.queried
         /\ t.assigned = s.assigned /\ t.started = s.started
         /\ t.wait_stop = s.wait_stop \cup (s.started \cap R)
         /\ CountersOK(t)
<1> DEFINE S == ToStop(s, R)
<1>1. S = (s.started \cap R) \ s.wait_stop
  BY DEF ToStop
<1>2. S # {} => s.started_cnt > 0
  BY <1>1, CardZero DEF CountersOK
<1>3. /\ DOMAIN t = Fields
      /\ t.asserts = (s.asserts /\ (S # {} => s.started_cnt > 0))
      /\ t.all = s.all /\ t.pending = s.pending /\ t.queried = s.queried
      /\ t.assigned = s.assigned /\ t.started = s.started
      /\ t.started_cnt = s.started_cnt
      /\ t.wait_stop = s.wait_stop \cup S
      /\ t.wait_stop_cnt = s.wait_stop_cnt + Cardinality(S)
      /\ t.stops = [p \in Partitions |-> IF p \in S THEN s.stops[p] + 1 ELSE s.stops[p]]
  BY DEF RequestStop, Fields
<1> HIDE DEF S
<1>4. Cardinality(s.wait_stop \cup S) = Cardinality(s.wait_stop) + Cardinality(S)
  BY <1>1, CardUnion
<1>5. t.stops = [p \in Partitions |-> IF p \in t.wait_stop THEN 1 ELSE 0]
  BY <1>1, <1>3 DEF CountersOK
<1>6. CountersOK(t)
  BY <1>3, <1>4, <1>5 DEF CountersOK
<1>7. QED
  BY <1>1, <1>2, <1>3, <1>6

\* What ServeRemovals changes before it commits the final offsets.
LEMMA ServeRemovalsSound ==
  ASSUME NEW s, NEW R, Sound(s, R)
  PROVE  Sound(ServeRemovals(s, R), {}) /\ ServeRemovals(s, R).all = s.all
<1> DEFINE u == [s EXCEPT !.pending = Without(@, R), !.queried = @ \ R]
           t == RequestStop(u, R)
           v == [t EXCEPT
                   !.stored = [p \in Partitions |-> IF p \in R THEN INVALID ELSE @[p]],
                   !.asserts = @ /\ R \subseteq s.assigned,
                   !.assigned = @ \ R]
           final == [p \in R |-> s.stored[p]]
<1>1. /\ DOMAIN u = Fields /\ u.asserts = TRUE
      /\ u.all = s.all /\ DOMAIN u.pending = DOMAIN s.pending \ R
      /\ u.queried = s.queried \ R
      /\ u.assigned = s.assigned /\ u.started = s.started /\ u.wait_stop = s.wait_stop
      /\ u.started_cnt = s.started_cnt /\ u.wait_stop_cnt = s.wait_stop_cnt
      /\ u.stops = s.stops
  BY DEF Sound, Fields, Without
<1> HIDE DEF u
<1>2. CountersOK(u) /\ u.started \subseteq Partitions /\ u.wait_stop \subseteq u.started
  BY <1>1 DEF Sound, CountersOK, FlagsOK
<1>3. /\ DOMAIN t = Fields /\ t.asserts = TRUE
      /\ t.all = u.all /\ t.pending = u.pending /\ t.queried = u.queried
      /\ t.assigned = u.assigned /\ t.started = u.started
      /\ t.wait_stop = u.wait_stop \cup (u.started \cap R)
      /\ CountersOK(t)
  BY <1>1, <1>2, RequestStopFacts
<1> HIDE DEF t
<1>4. /\ DOMAIN v = Fields /\ v.asserts = (t.asserts /\ R \subseteq s.assigned)
      /\ v.all = t.all /\ v.pending = t.pending /\ v.queried = t.queried
      /\ v.assigned = t.assigned \ R /\ v.started = t.started
      /\ v.wait_stop = t.wait_stop /\ v.started_cnt = t.started_cnt
      /\ v.wait_stop_cnt = t.wait_stop_cnt /\ v.stops = t.stops
  BY <1>3 DEF Fields
<1> HIDE DEF v
<1>5. ListsOK(v)
  BY <1>1, <1>3, <1>4 DEF Sound, ListsOK
<1>6. FlagsOK(v, {})
  BY <1>1, <1>3, <1>4 DEF Sound, ListsOK, FlagsOK
<1>7. CountersOK(v)
  BY <1>3, <1>4 DEF CountersOK
<1>8. v.asserts = TRUE
  BY <1>3, <1>4 DEF Sound, FlagsOK
<1>9. Sound(v, {}) /\ v.all = s.all
  BY <1>1, <1>3, <1>4, <1>5, <1>6, <1>7, <1>8 DEF Sound
<1>10. ServeRemovals(s, R) = IF HasValidOffset(final) THEN OffsetsCommit(v, final) ELSE v
  BY DEF ServeRemovals, v, t, u
<1> HIDE DEF final
<1>11. Same(v, OffsetsCommit(v, final))
  BY <1>4, OffsetsCommitSame
<1>12. Sound(OffsetsCommit(v, final), {}) /\ OffsetsCommit(v, final).all = s.all
  BY <1>9, <1>11, SameSound DEF Same
<1>13. QED
  BY <1>9, <1>10, <1>12

\* Partitions start, or are queried, only when none is being stopped.
LEMMA ServePendingSound ==
  ASSUME NEW s, Sound(s, {}), s.wait_stop_cnt = 0
  PROVE  Sound(ServePending(s), {}) /\ ServePending(s).all = s.all
<1> DEFINE ready == {p \in DOMAIN s.pending : Startable(s.pending[p])}
           ask   == IF CanQuery(s) THEN DOMAIN s.pending \ ready ELSE {}
           t     == ServePending(s)
<1>1. s.wait_stop = {}
  BY CardZero DEF Sound, FlagsOK, CountersOK
<1>2. /\ DOMAIN t = Fields
      /\ t.asserts = (s.asserts /\ DOMAIN s.pending \cap (s.started \cup s.wait_stop) = {})
      /\ t.all = s.all
      /\ t.pending = Without(s.pending, ready \cup ask)
      /\ t.queried = s.queried \cup ask
      /\ t.assigned = s.assigned /\ t.started = s.started \cup ready
      /\ t.wait_stop = s.wait_stop
      /\ t.started_cnt = s.started_cnt + Cardinality(ready)
      /\ t.wait_stop_cnt = s.wait_stop_cnt /\ t.stops = s.stops
  BY DEF Sound, ServePending, Fields
<1>3. /\ ready \subseteq DOMAIN s.pending /\ ask \subseteq DOMAIN s.pending
      /\ ready \cap ask = {}
  OBVIOUS
<1> HIDE DEF ready, ask, t
<1>4. DOMAIN t.pending = DOMAIN s.pending \ (ready \cup ask)
  BY <1>2 DEF Without
<1>5. DOMAIN s.pending \cap s.started = {}
  BY <1>1 DEF Sound, FlagsOK
<1>6. ListsOK(t)
  BY <1>2, <1>3, <1>4 DEF Sound, ListsOK
<1>7. FlagsOK(t, {})
  BY <1>1, <1>2, <1>3, <1>4, <1>5 DEF Sound, ListsOK, FlagsOK
<1>8. Cardinality(s.started \cup ready) = Cardinality(s.started) + Cardinality(ready)
  BY <1>3, <1>5, CardUnion DEF Sound, ListsOK, FlagsOK
<1>9. CountersOK(t)
  BY <1>2, <1>8 DEF Sound, CountersOK
<1>10. t.asserts = TRUE
  BY <1>1, <1>2, <1>5 DEF Sound
<1>11. QED
  BY <1>2, <1>6, <1>7, <1>9, <1>10 DEF Sound, t

LEMMA ServeSound ==
  ASSUME NEW s, NEW R, Sound(s, R)
  PROVE  Sound(Serve(s, R), {}) /\ Serve(s, R).all = s.all
<1> DEFINE removed == IF R # {} THEN ServeRemovals(s, R) ELSE s
           served  == IF MayServePending(removed) THEN ServePending(removed) ELSE removed
<1>1. Sound(removed, {}) /\ removed.all = s.all
  BY ServeRemovalsSound
<1> HIDE DEF removed
<1>2. Sound(served, {}) /\ served.all = s.all
  BY <1>1, ServePendingSound DEF MayServePending
<1>3. Serve(s, R) = IF Settled(served) THEN [served EXCEPT !.done = TRUE] ELSE served
  BY DEF Serve, removed
<1> HIDE DEF served
<1>4. Same(served, [served EXCEPT !.done = TRUE])
  BY <1>2 DEF Sound, Same, Fields
<1>5. Sound([served EXCEPT !.done = TRUE], {}) /\ [served EXCEPT !.done = TRUE].all = s.all
  BY <1>2, <1>4, SameSound DEF Same
<1>6. QED
  BY <1>2, <1>3, <1>5

-----------------------------------------------------------------------------
(* Changing the assignment.                                                *)

LEMMA ClearSound ==
  ASSUME NEW s, Sound(s, {})
  PROVE  Sound(Clear(s), DOMAIN s.all) /\ DOMAIN Clear(s).all = {}
<1>1. CASE DOMAIN s.all = {}
  BY <1>1 DEF Clear, Sound
<1>2. CASE DOMAIN s.all # {}
  <2> DEFINE t == Clear(s)
  <2>1. /\ DOMAIN t = Fields /\ t.asserts = s.asserts
        /\ t.all = <<>> /\ t.pending = <<>> /\ t.queried = {}
        /\ t.assigned = s.assigned /\ t.started = s.started /\ t.wait_stop = s.wait_stop
        /\ t.started_cnt = s.started_cnt /\ t.wait_stop_cnt = s.wait_stop_cnt
        /\ t.stops = s.stops
    BY <1>2 DEF Clear, Sound, Fields
  <2> HIDE DEF t
  <2>2. DOMAIN t.all = {} /\ DOMAIN t.pending = {}
    BY <2>1
  <2>3. ListsOK(t)
    BY <2>1, <2>2 DEF ListsOK
  <2>4. FlagsOK(t, DOMAIN s.all)
    BY <2>1, <2>2 DEF Sound, ListsOK, FlagsOK
  <2>5. CountersOK(t)
    BY <2>1 DEF Sound, CountersOK
  <2>6. QED
    BY <2>1, <2>2, <2>3, <2>4, <2>5 DEF Sound, ListsOK, t
<1>3. QED
  BY <1>1, <1>2

LEMMA AddSound ==
  ASSUME NEW s, Sound(s, {}), NEW list, DOMAIN list \subseteq Partitions,
         DOMAIN list \cap DOMAIN s.all = {}
  PROVE  Sound(Add(s, list), {})
<1> DEFINE L     == DOMAIN list
           begin == [p \in L |-> IF list[p] = INVALID THEN STORED ELSE list[p]]
           t     == Add(s, list)
<1>1. /\ DOMAIN t = Fields
      /\ t.asserts = (s.asserts /\ L \cap s.assigned = {})
      /\ t.all = With(s.all, begin) /\ t.pending = With(s.pending, begin)
      /\ t.queried = s.queried
      /\ t.assigned = s.assigned \cup L
      /\ t.started = s.started /\ t.wait_stop = s.wait_stop
      /\ t.started_cnt = s.started_cnt /\ t.wait_stop_cnt = s.wait_stop_cnt
      /\ t.stops = s.stops
  BY DEF Add, Sound, Fields
<1>2. DOMAIN begin = L
  OBVIOUS
<1> HIDE DEF begin, t
<1>3. DOMAIN t.all = DOMAIN s.all \cup L /\ DOMAIN t.pending = DOMAIN s.pending \cup L
  BY <1>1, <1>2 DEF With
<1>4. ListsOK(t)
  BY <1>1, <1>3 DEF Sound, ListsOK
<1>5. FlagsOK(t, {})
  BY <1>1, <1>3 DEF Sound, ListsOK, FlagsOK
<1>6. CountersOK(t)
  BY <1>1 DEF Sound, CountersOK
<1>7. t.asserts = TRUE
  BY <1>1 DEF Sound, FlagsOK
<1>8. QED
  BY <1>1, <1>4, <1>5, <1>6, <1>7 DEF Sound, t

LEMMA SubtractSound ==
  ASSUME NEW s, Sound(s, {}), NEW R, R \subseteq DOMAIN s.all
  PROVE  Sound(Subtract(s, R), R)
<1> DEFINE left == DOMAIN s.all \ R
           off  == [s EXCEPT !.all = Without(@, R),
                             !.pending = Without(@, R \ s.queried),
                             !.queried = @ \ R,
                             !.version = @ + 1]
           t    == Subtract(s, R)
<1>1. /\ DOMAIN off = Fields /\ off.asserts = s.asserts
      /\ off.all = Without(s.all, R) /\ off.pending = Without(s.pending, R \ s.queried)
      /\ off.queried = s.queried \ R
      /\ off.assigned = s.assigned
      /\ off.started = s.started /\ off.wait_stop = s.wait_stop
      /\ off.started_cnt = s.started_cnt /\ off.wait_stop_cnt = s.wait_stop_cnt
      /\ off.stops = s.stops
  BY DEF Sound, Fields
<1>2. t = [off EXCEPT !.asserts =
             @ /\ (left = {} => DOMAIN off.pending = {} /\ off.queried = {})]
  BY DEF Subtract
<1> HIDE DEF off, t
<1>3. DOMAIN off.all = left /\ DOMAIN off.pending = DOMAIN s.pending \ R
  BY <1>1 DEF Without, Sound, ListsOK
<1>4. left = {} => DOMAIN off.pending = {} /\ off.queried = {}
  BY <1>1, <1>3 DEF Sound, ListsOK
<1>5. Same(off, t)
  BY <1>1, <1>2, <1>4 DEF Same, Fields, Sound
<1>6. ListsOK(off)
  BY <1>1, <1>3 DEF Sound, ListsOK
<1>7. FlagsOK(off, R)
  BY <1>1, <1>3 DEF Sound, ListsOK, FlagsOK
<1>8. CountersOK(off)
  BY <1>1 DEF Sound, CountersOK
<1>9. Sound(off, R)
  BY <1>1, <1>3, <1>6, <1>7, <1>8 DEF Sound, ListsOK
<1>10. QED
  BY <1>5, <1>9, SameSound DEF t

-----------------------------------------------------------------------------
(* Replies.                                                                *)

LEMMA ApplyOffsetsSound ==
  ASSUME NEW s, Sound(s, {}), NEW offsets, NEW errors, NEW err
  PROVE  Sound(ApplyOffsets(s, offsets, errors, err), {})
<1> DEFINE hit   == DOMAIN offsets \cap s.queried
           stale == {p \in hit : "STALE_MEMBER_EPOCH" \in {err, errors[p]}}
           open  == {p \in hit \ stale : "UNSTABLE_OFFSET_COMMIT" \in {err, errors[p]}}
           good  == {p \in hit \ (stale \cup open) : errors[p] = "none" /\ err = "none"}
           back  == [p \in stale \cup open \cup good |->
                       IF p \in stale THEN STORED ELSE offsets[p]]
           t     == [s EXCEPT !.queried = @ \ hit, !.pending = With(@, back)]
<1>1. DOMAIN back \subseteq hit
  OBVIOUS
<1>2. ApplyOffsets(s, offsets, errors, err) =
        IF DOMAIN offsets # {} /\ err # "STALE_MEMBER_EPOCH" THEN Serve(t, {}) ELSE t
  BY DEF ApplyOffsets
<1>3. hit \subseteq s.queried
  OBVIOUS
<1> HIDE DEF hit, stale, open, good, back
<1>4. /\ DOMAIN t = Fields /\ t.asserts = s.asserts /\ t.all = s.all
      /\ t.pending = With(s.pending, back) /\ t.queried = s.queried \ hit
      /\ t.assigned = s.assigned /\ t.started = s.started /\ t.wait_stop = s.wait_stop
      /\ t.started_cnt = s.started_cnt /\ t.wait_stop_cnt = s.wait_stop_cnt
      /\ t.stops = s.stops
  BY DEF Sound, Fields
<1> HIDE DEF t
<1>5. DOMAIN t.pending = DOMAIN s.pending \cup DOMAIN back
  BY <1>4 DEF With
<1>6. ListsOK(t)
  BY <1>1, <1>3, <1>4, <1>5 DEF Sound, ListsOK
<1>7. FlagsOK(t, {})
  BY <1>1, <1>3, <1>4, <1>5 DEF Sound, ListsOK, FlagsOK
<1>8. CountersOK(t)
  BY <1>4 DEF Sound, CountersOK
<1>9. Sound(t, {})
  BY <1>4, <1>6, <1>7, <1>8 DEF Sound
<1>10. QED
  BY <1>2, <1>9, ServeSound

LEMMA FetchResultSound ==
  ASSUME NEW s, Sound(s, {}), NEW r
  PROVE  Sound(FetchResult(s, r), {})
<1> DEFINE known == UpdateCommitted(s, r.reply)
           again == [known EXCEPT !.retry = Append(@, [r EXCEPT !.reply = NoReply])]
           later == [known EXCEPT !.serve_pending = @ \/ r.reply.err = "STALE_MEMBER_EPOCH"]
           retry == Retriable(r.reply) /\ r.version = s.version
<1>1. Same(s, known)
  BY DEF UpdateCommitted, Same, Fields, Sound
<1>2. Sound(known, {})
  BY <1>1, SameSound
<1>3. \/ FetchResult(s, r) = again
      \/ FetchResult(s, r) = known
      \/ FetchResult(s, r) =
           ApplyOffsets(later, r.reply.offsets, r.reply.errors, r.reply.err)
  <2>1. CASE retry
    BY <2>1, Zenon DEF FetchResult
  <2>2. CASE ~retry /\ r.reply.err = "TRANSPORT"
    BY <2>2, Zenon DEF FetchResult
  <2>3. CASE ~retry /\ r.reply.err # "TRANSPORT"
    BY <2>3, Zenon DEF FetchResult
  <2>4. QED
    BY <2>1, <2>2, <2>3
<1> HIDE DEF known
<1>4. Same(known, again) /\ Same(known, later)
  BY <1>2 DEF Same, Fields, Sound
<1>5. Sound(again, {}) /\ Sound(later, {})
  BY <1>2, <1>4, SameSound
<1> HIDE DEF again, later
<1>6. QED
  BY <1>2, <1>3, <1>5, ApplyOffsetsSound

LEMMA CommitDoneSound ==
  ASSUME NEW s, Sound(s, {})
  PROVE  Sound(CommitDone(s), {})
<1> DEFINE less == [s EXCEPT !.wait_commit_cnt = @ - 1]
<1>1. Same(s, less)
  BY DEF Same, Fields, Sound
<1>2. Sound(less, {})
  BY <1>1, SameSound
<1>3. CommitDone(s) = IF less.wait_commit_cnt = 0 THEN Serve(less, {}) ELSE less
  BY DEF CommitDone
<1> HIDE DEF less
<1>4. QED
  BY <1>2, <1>3, ServeSound

LEMMA CommitResultSound ==
  ASSUME NEW s, Sound(s, {}), NEW r
  PROVE  Sound(CommitResult(s, r), {})
<1> DEFINE dead  == [s EXCEPT !.up = FALSE]
           ok    == [s EXCEPT !.committed_pos = With(@, r.offsets)]
           again == [dead EXCEPT !.retry =
                       Append(@, [r EXCEPT !.reply = NoReply, !.retries = @ + 1])]
           later == [dead EXCEPT !.wait_coord = Append(@, CommitRequest(r.offsets, TRUE))]
<1>1. CommitResult(s, r) \in {CommitDone(ok), again, later, CommitDone(dead), CommitDone(s)}
  <2> DEFINE e == r.reply.err
  <2>1. CASE e = "none"
    BY <2>1, Zenon DEF CommitResult
  <2>2. CASE e = "TRANSPORT" /\ r.retries < RetriesMax
    BY <2>2, Zenon DEF CommitResult
  <2>3. CASE e = "TRANSPORT" /\ r.retries = RetriesMax /\ ~r.deferred
    BY <2>3, Zenon DEF CommitResult
  <2>4. CASE e = "TRANSPORT" /\ r.retries = RetriesMax /\ r.deferred
    BY <2>4, Zenon DEF CommitResult
  <2>5. CASE /\ e # "none"
             /\ ~(e = "TRANSPORT" /\ r.retries < RetriesMax)
             /\ ~(e = "TRANSPORT" /\ r.retries = RetriesMax /\ ~r.deferred)
             /\ ~(e = "TRANSPORT" /\ r.retries = RetriesMax /\ r.deferred)
    BY <2>5, Zenon DEF CommitResult
  <2>6. QED
    BY <2>1, <2>2, <2>3, <2>4, <2>5
<1>2. Same(s, dead) /\ Same(s, ok)
  BY DEF Same, Fields, Sound
<1>3. Sound(dead, {}) /\ Sound(ok, {})
  BY <1>2, SameSound
<1> HIDE DEF dead, ok
<1>4. Same(dead, again) /\ Same(dead, later)
  BY <1>3 DEF Same, Fields, Sound
<1>5. Sound(again, {}) /\ Sound(later, {})
  BY <1>3, <1>4, SameSound
<1> HIDE DEF again, later
<1>6. QED
  BY <1>1, <1>3, <1>5, CommitDoneSound

-----------------------------------------------------------------------------
(* The actions.                                                            *)

Inv == Sound(c, {})

LEMMA InvInit == Init => Inv
<1> SUFFICES ASSUME Init PROVE Inv
  OBVIOUS
<1>1. DOMAIN ConsumerInit = Fields
  BY DEF ConsumerInit, Fields
<1>2. /\ ConsumerInit.asserts = TRUE
      /\ ConsumerInit.all = <<>> /\ ConsumerInit.pending = <<>>
      /\ ConsumerInit.queried = {} /\ ConsumerInit.assigned = {}
      /\ ConsumerInit.started = {} /\ ConsumerInit.wait_stop = {}
      /\ ConsumerInit.started_cnt = 0 /\ ConsumerInit.wait_stop_cnt = 0
      /\ ConsumerInit.stops = [p \in Partitions |-> 0]
  BY DEF ConsumerInit
<1>3. ListsOK(ConsumerInit)
  BY <1>2 DEF ListsOK
<1>4. FlagsOK(ConsumerInit, {})
  BY <1>2 DEF FlagsOK
<1>5. CountersOK(ConsumerInit)
  BY <1>2, FS_EmptySet DEF CountersOK
<1>6. QED
  BY <1>1, <1>2, <1>3, <1>4, <1>5 DEF Init, Inv, Sound

LEMMA CalledSound ==
  ASSUME Inv PROVE Sound(Called, {}) /\ Called.all = c.all
<1>1. Same(c, Called)
  BY DEF Called, Same, Fields, Inv, Sound
<1>2. QED
  BY <1>1, SameSound DEF Inv, Same

LEMMA ListType == \A list \in AppLists : DOMAIN list \subseteq Partitions
BY DEF AppLists

LEMMA AssignInv ==
  ASSUME Inv, NEW list \in AppLists, Assign(list) PROVE Inv'
<1> DEFINE cleared == Clear(Called)
           removed == IF DOMAIN c.all = {} THEN cleared ELSE Serve(cleared, DOMAIN c.all)
           begun   == [removed EXCEPT !.done = FALSE]
<1>1. Sound(cleared, DOMAIN c.all) /\ DOMAIN cleared.all = {}
  BY CalledSound, ClearSound
<1>2. c' = Serve(Add(begun, list), {})
  BY Zenon DEF Assign, Call
<1> HIDE DEF cleared
<1>3. Sound(removed, {}) /\ DOMAIN removed.all = {}
  <2>1. CASE DOMAIN c.all = {}
    BY <1>1, <2>1
  <2>2. CASE DOMAIN c.all # {}
    BY <1>1, <2>2, ServeSound
  <2>3. QED
    BY <2>1, <2>2
<1> HIDE DEF removed
<1>4. Same(removed, begun)
  BY <1>3 DEF Same, Fields, Sound
<1>5. Sound(begun, {}) /\ DOMAIN begun.all = {}
  BY <1>3, <1>4, SameSound DEF Same
<1> HIDE DEF begun
<1>6. Sound(Add(begun, list), {})
  BY <1>5, AddSound, ListType
<1>7. QED
  BY <1>2, <1>6, ServeSound DEF Inv

LEMMA UnassignInv ==
  ASSUME Inv, Unassign PROVE Inv'
<1>1. Sound(Clear(Called), DOMAIN c.all)
  BY CalledSound, ClearSound
<1>2. c' = Serve(Clear(Called), DOMAIN c.all)
  BY Zenon DEF Unassign, Call
<1>3. QED
  BY <1>1, <1>2, ServeSound DEF Inv

LEMMA IncrementalAssignInv ==
  ASSUME Inv, NEW list \in AppLists, IncrementalAssign(list) PROVE Inv'
<1>1. DOMAIN list \cap DOMAIN c.all = {} /\ c' = Serve(Add(Called, list), {})
  BY Zenon DEF IncrementalAssign, Call
<1>2. Sound(Add(Called, list), {})
  BY <1>1, CalledSound, AddSound, ListType
<1>3. QED
  BY <1>1, <1>2, ServeSound DEF Inv

LEMMA IncrementalUnassignInv ==
  ASSUME Inv, NEW R \in SUBSET Partitions, IncrementalUnassign(R) PROVE Inv'
<1>1. R \subseteq DOMAIN c.all /\ c' = Serve(Subtract(Called, R), R)
  BY Zenon DEF IncrementalUnassign, Call
<1>2. Sound(Subtract(Called, R), R)
  BY <1>1, CalledSound, SubtractSound
<1>3. QED
  BY <1>1, <1>2, ServeSound DEF Inv

LEMMA PartitionStoppedInv ==
  ASSUME Inv, NEW p \in Partitions, PartitionStopped(p) PROVE Inv'
<1> DEFINE s == [c EXCEPT
                   !.asserts = @ /\ c.wait_stop_cnt > 0 /\ c.started_cnt > 0
                                 /\ p \in c.wait_stop /\ p \in c.started,
                   !.stops[p] = @ - 1,
                   !.wait_stop_cnt = @ - 1, !.wait_stop = @ \ {p},
                   !.started_cnt = @ - 1, !.started = @ \ {p},
                   !.app_pos[p] = INVALID]
<1>1. c.stops[p] > 0 /\ c' = IF s.wait_stop_cnt = 0 THEN Serve(s, {}) ELSE s
  BY DEF PartitionStopped
<1>2. p \in c.wait_stop /\ p \in c.started
  BY <1>1 DEF Inv, Sound, CountersOK, FlagsOK
<1>3. /\ DOMAIN s = Fields
      /\ s.asserts = (c.asserts /\ c.wait_stop_cnt > 0 /\ c.started_cnt > 0
                      /\ p \in c.wait_stop /\ p \in c.started)
      /\ s.all = c.all /\ s.pending = c.pending /\ s.queried = c.queried
      /\ s.assigned = c.assigned
      /\ s.started = c.started \ {p} /\ s.wait_stop = c.wait_stop \ {p}
      /\ s.started_cnt = c.started_cnt - 1 /\ s.wait_stop_cnt = c.wait_stop_cnt - 1
      /\ s.stops = [c.stops EXCEPT ![p] = @ - 1]
  BY DEF Inv, Sound, Fields
<1> HIDE DEF s
<1>4. /\ c.wait_stop_cnt > 0 /\ Cardinality(c.wait_stop \ {p}) = c.wait_stop_cnt - 1
      /\ c.started_cnt > 0 /\ Cardinality(c.started \ {p}) = c.started_cnt - 1
  <2>1. IsFiniteSet(c.wait_stop) /\ IsFiniteSet(c.started)
    BY AssignmentPartitions, FS_Subset DEF Inv, Sound, FlagsOK
  <2>2. /\ Cardinality(c.wait_stop \ {p}) = Cardinality(c.wait_stop) - 1
        /\ Cardinality(c.started \ {p}) = Cardinality(c.started) - 1
    BY <1>2, <2>1, FS_RemoveElement
  <2>3. c.wait_stop_cnt > 0 /\ c.started_cnt > 0
    BY <1>2, CardZero DEF Inv, Sound, FlagsOK, CountersOK
  <2>4. QED
    BY <2>2, <2>3 DEF Inv, Sound, CountersOK
<1>5. s.asserts = TRUE
  BY <1>2, <1>3, <1>4 DEF Inv, Sound
<1>6. ListsOK(s)
  BY <1>3 DEF Inv, Sound, ListsOK
<1>7. FlagsOK(s, {})
  BY <1>3 DEF Inv, Sound, FlagsOK
<1>8. s.stops = [q \in Partitions |-> IF q \in s.wait_stop THEN 1 ELSE 0]
  BY <1>2, <1>3 DEF Inv, Sound, CountersOK
<1>9. CountersOK(s)
  BY <1>3, <1>4, <1>8 DEF CountersOK
<1>10. Sound(s, {})
  BY <1>3, <1>5, <1>6, <1>7, <1>9 DEF Inv, Sound
<1>11. QED
  BY <1>1, <1>10, ServeSound DEF Inv

LEMMA HandleReplyInv ==
  ASSUME Inv, HandleReply PROVE Inv'
<1> DEFINE r == Head(c.wire)
           s == [c EXCEPT !.wire = Tail(@)]
<1>1. c' = FetchResult(s, r) \/ c' = CommitResult(s, r)
  BY Zenon DEF HandleReply
<1>2. Same(c, s)
  BY DEF Same, Fields, Inv, Sound
<1>3. Sound(s, {})
  BY <1>2, SameSound DEF Inv
<1> HIDE DEF r, s
<1>4. QED
  BY <1>1, <1>3, FetchResultSound, CommitResultSound DEF Inv

LEMMA CommitEndInv ==
  ASSUME Inv, HandleUnsentCommit \/ ExpireDeferred PROVE Inv'
<1> DEFINE s == [c EXCEPT !.errs = @ - 1]
           t == [c EXCEPT !.wait_coord = Tail(@)]
<1>1. c' = CommitDone(s) \/ c' = CommitDone(t)
  BY Zenon DEF HandleUnsentCommit, ExpireDeferred
<1>2. Same(c, s) /\ Same(c, t)
  BY DEF Same, Fields, Inv, Sound
<1>3. Sound(s, {}) /\ Sound(t, {})
  BY <1>2, SameSound DEF Inv
<1> HIDE DEF s, t
<1>4. QED
  BY <1>1, <1>3, CommitDoneSound DEF Inv

LEMMA ServeInv ==
  ASSUME Inv, CoordUp \/ Heartbeat PROVE Inv'
<1> DEFINE s == [c EXCEPT !.up = TRUE]
           t == Serve(c, {})
           u == [t EXCEPT !.serve_pending = FALSE]
<1>1. c' = Serve(s, {}) \/ c' = u
  BY Zenon DEF CoordUp, Heartbeat
<1>2. Sound(t, {})
  BY ServeSound DEF Inv
<1> HIDE DEF t
<1>3. Same(c, s) /\ Same(t, u)
  BY <1>2 DEF Same, Fields, Inv, Sound
<1>4. Sound(s, {}) /\ Sound(u, {})
  BY <1>2, <1>3, SameSound DEF Inv
<1> HIDE DEF s, u
<1>5. QED
  BY <1>1, <1>4, ServeSound DEF Inv

LEMMA CommitTimerInv ==
  ASSUME Inv, CommitTimer PROVE Inv'
<1>1. c' = OffsetsCommit(c, StoredOffsets(c))
  BY DEF CommitTimer
<1>2. QED
  BY <1>1, OffsetsCommitSame, SameSound DEF Inv, Sound

\* The steps that only move requests, positions and the coordinator's state.
LEMMA OtherInv ==
  ASSUME Inv,
         \/ MoveDeferred \/ Reprocess \/ Coordinator \/ Disconnect \/ CoordDead
         \/ \E i \in DOMAIN c.retry : Resend(i)
         \/ \E p \in Partitions : Consume(p) \/ OtherMember(p)
  PROVE  Inv'
<1> SUFFICES Same(c, c')
  BY SameSound DEF Inv
<1>1. CASE MoveDeferred
  BY <1>1 DEF MoveDeferred, Same, Fields, Inv, Sound
<1>2. CASE Reprocess
  BY <1>2 DEF Reprocess, Same, Fields, Inv, Sound
<1>3. CASE Coordinator
  <2>1. PICK i, reply : Reply(i, reply)
    BY <1>3, Zenon DEF Coordinator, AnswerFetch, AnswerCommit
  <2>2. QED
    BY <2>1 DEF Reply, Same, Fields, Inv, Sound
<1>4. CASE Disconnect
  <2>1. PICK up, wire : c' = [c EXCEPT !.up = up, !.wire = wire]
    BY <1>4, Zenon DEF Disconnect
  <2>2. QED
    BY <2>1 DEF Same, Fields, Inv, Sound
<1>5. CASE CoordDead
  BY <1>5 DEF CoordDead, Same, Fields, Inv, Sound
<1>6. CASE \E i \in DOMAIN c.retry : Resend(i)
  BY <1>6 DEF Resend, Same, Fields, Inv, Sound
<1>7. CASE \E p \in Partitions : Consume(p)
  BY <1>7 DEF Consume, Same, Fields, Inv, Sound
<1>8. CASE \E p \in Partitions : OtherMember(p)
  BY <1>8 DEF OtherMember, Same
<1>9. QED
  BY <1>1, <1>2, <1>3, <1>4, <1>5, <1>6, <1>7, <1>8

LEMMA InvNext == Inv /\ [Next]_vars => Inv'
<1> SUFFICES ASSUME Inv, [Next]_vars PROVE Inv'
  OBVIOUS
<1>1. CASE UNCHANGED vars
  BY <1>1 DEF Inv, vars
<1>2. CASE AppCall
  BY <1>2, AssignInv, UnassignInv, IncrementalAssignInv, IncrementalUnassignInv, Zenon
     DEF AppCall
<1>3. CASE MainThread
  BY <1>3, HandleReplyInv, CommitEndInv, PartitionStoppedInv, ServeInv, OtherInv, Zenon
     DEF MainThread
<1>4. CASE CommitTimer \/ ExpireDeferred
  BY <1>4, CommitTimerInv, CommitEndInv
<1>5. CASE Coordinator \/ Disconnect \/ CoordDead
           \/ \E p \in Partitions : Consume(p) \/ OtherMember(p)
  BY <1>5, OtherInv
<1>6. QED
  BY <1>1, <1>2, <1>3, <1>4, <1>5, Zenon DEF Next

\* Whatever the order of assign calls, replies, stopped fetchers, commits and
\* faults, no rd_assert() of rdkafka_assignment.c fails.
THEOREM AssertsNeverFail == Spec => []AssertsHold
<1>1. Inv => AssertsHold
  BY DEF Inv, Sound, AssertsHold
<1>2. QED
  BY <1>1, InvInit, InvNext, PTL DEF Spec

-----------------------------------------------------------------------------
(* Types, and where offsets come from. *)

\* F[p] are the offsets that may be seen for partition p: all of them, or (for
\* AtLeastOnce) the logical ones and those behind messages that have been consumed.
IsBound(F) ==
  /\ F \in [Partitions -> SUBSET Offsets]
  /\ \A p \in Partitions : STORED \in F[p] /\ INVALID \in F[p]

Lists(F) == {l \in PartitionLists : \A p \in DOMAIN l : l[p] \in F[p]}
Places(F) == {f \in [Partitions -> Offsets] : \A p \in Partitions : f[p] \in F[p]}

ErrorLists == UNION {[S -> Errors] : S \in SUBSET Partitions}
RepliesIn(F) == [err : Errors, offsets : Lists(F), errors : ErrorLists]
Fetches(F) ==
  [kind : {"fetch"}, parts : SUBSET Partitions, version : Nat, reply : RepliesIn(F)]
Commits(F) ==
  [kind : {"commit"}, offsets : Lists(F), deferred : BOOLEAN, retries : 0 .. RetriesMax,
   reply : RepliesIn(F)]
AllRequests(F) == Fetches(F) \cup Commits(F)

QueuesOK(s, F) ==
  /\ s.wire \in Seq(AllRequests(F)) /\ s.retry \in Seq(AllRequests(F))
  /\ s.wait_coord \in Seq(Commits(F)) /\ s.ops \in Seq(Commits(F))

PlacesOK(s, F) ==
  /\ s.all \in Lists(F) /\ s.pending \in Lists(F)
  /\ s.stored \in Places(F) /\ s.committed_pos \in Places(F) /\ s.app_pos \in Places(F)

NumbersOK(s) ==
  /\ s.wait_commit_cnt \in Int /\ s.errs \in Int /\ s.version \in Nat
  /\ s.up \in BOOLEAN /\ s.serve_pending \in BOOLEAN /\ s.done \in BOOLEAN

IsState(s) == s = [f \in Fields |-> s[f]]

\* The commits that are queued somewhere; k more are in the hands of the main thread.
Owed(s) ==
  CommitOps(s.wire) + CommitOps(s.retry) + Len(s.wait_coord) + Len(s.ops) + s.errs
Counted(s, k) == s.wait_commit_cnt = Owed(s) + k

Fit(s, F, k) ==
  /\ IsState(s)
  /\ QueuesOK(s, F) /\ PlacesOK(s, F) /\ NumbersOK(s) /\ Counted(s, k)

LEMMA ListFacts ==
  ASSUME NEW F, IsBound(F), NEW l
  PROVE  l \in Lists(F) <=>
           /\ l = [p \in DOMAIN l |-> l[p]] /\ DOMAIN l \subseteq Partitions
           /\ \A p \in DOMAIN l : l[p] \in F[p]
<1>1. ASSUME l \in Lists(F)
      PROVE  /\ l = [p \in DOMAIN l |-> l[p]] /\ DOMAIN l \subseteq Partitions
             /\ \A p \in DOMAIN l : l[p] \in F[p]
  <2>1. PICK S \in SUBSET Partitions : l \in [S -> Offsets]
    BY <1>1 DEF Lists, PartitionLists
  <2>2. QED
    BY <1>1, <2>1 DEF Lists
<1>2. ASSUME /\ l = [p \in DOMAIN l |-> l[p]] /\ DOMAIN l \subseteq Partitions
             /\ \A p \in DOMAIN l : l[p] \in F[p]
      PROVE  l \in Lists(F)
  <2>1. l \in [DOMAIN l -> Offsets]
    BY <1>2 DEF IsBound
  <2>2. QED
    BY <1>2, <2>1 DEF Lists, PartitionLists
<1>3. QED
  BY <1>1, <1>2

LEMMA EmptyList ==
  ASSUME NEW F, IsBound(F)
  PROVE  <<>> \in Lists(F) /\ <<>> \in ErrorLists
<1>1. <<>> = [p \in {} |-> p]
  OBVIOUS
<1>2. <<>> \in [{} -> Errors]
  BY <1>1
<1>3. <<>> \in ErrorLists
  BY <1>2 DEF ErrorLists
<1>4. <<>> \in Lists(F)
  BY <1>1, ListFacts
<1>5. QED
  BY <1>3, <1>4

LEMMA WithList ==
  ASSUME NEW F, IsBound(F), NEW l \in Lists(F), NEW m \in Lists(F)
  PROVE  With(l, m) \in Lists(F)
<1> DEFINE t == With(l, m)
<1>1. /\ t = [p \in DOMAIN t |-> t[p]] /\ DOMAIN t = DOMAIN l \cup DOMAIN m
      /\ \A p \in DOMAIN t : t[p] = IF p \in DOMAIN m THEN m[p] ELSE l[p]
  BY DEF With
<1> HIDE DEF t
<1>2. /\ DOMAIN l \subseteq Partitions /\ \A p \in DOMAIN l : l[p] \in F[p]
      /\ DOMAIN m \subseteq Partitions /\ \A p \in DOMAIN m : m[p] \in F[p]
  BY ListFacts
<1>3. DOMAIN t \subseteq Partitions /\ \A p \in DOMAIN t : t[p] \in F[p]
  BY <1>1, <1>2
<1>4. t \in Lists(F)
  BY <1>1, <1>3, ListFacts
<1>5. QED
  BY <1>4 DEF t

LEMMA WithPlaces ==
  ASSUME NEW F, IsBound(F), NEW l \in Places(F), NEW m \in Lists(F)
  PROVE  With(l, m) \in Places(F)
<1>1. DOMAIN m \subseteq Partitions /\ \A p \in DOMAIN m : m[p] \in F[p]
  BY ListFacts
<1>2. DOMAIN l = Partitions /\ \A p \in Partitions : l[p] \in F[p]
  BY DEF Places
<1> DEFINE t == With(l, m)
<1>3. t = [p \in Partitions |-> IF p \in DOMAIN m THEN m[p] ELSE l[p]]
  BY <1>1, <1>2 DEF With
<1>4. \A p \in Partitions : t[p] \in F[p] /\ t[p] \in Offsets
  BY <1>1, <1>2, <1>3 DEF IsBound
<1>5. QED
  BY <1>3, <1>4 DEF Places

LEMMA WithoutList ==
  ASSUME NEW F, IsBound(F), NEW l \in Lists(F), NEW S
  PROVE  Without(l, S) \in Lists(F)
<1> DEFINE t == Without(l, S)
<1>1. /\ t = [p \in DOMAIN t |-> t[p]] /\ DOMAIN t \subseteq DOMAIN l
      /\ \A p \in DOMAIN t : t[p] = l[p]
  BY DEF Without
<1> HIDE DEF t
<1>2. DOMAIN l \subseteq Partitions /\ \A p \in DOMAIN l : l[p] \in F[p]
  BY ListFacts
<1>3. t \in Lists(F)
  BY <1>1, <1>2, ListFacts
<1>4. QED
  BY <1>3 DEF t

LEMMA NoReplyType ==
  ASSUME NEW F, IsBound(F)
  PROVE  NoReply \in RepliesIn(F)
BY EmptyList DEF NoReply, RepliesIn, Errors

-----------------------------------------------------------------------------
(* Counting the commits of a queue. *)

CommitsIn(q) == {i \in DOMAIN q : q[i].kind = "commit"}
One(r) == IF r.kind = "commit" THEN 1 ELSE 0

LEMMA CountType ==
  ASSUME NEW S, NEW q \in Seq(S)
  PROVE  /\ IsFiniteSet(CommitsIn(q)) /\ CommitOps(q) = Cardinality(CommitsIn(q))
         /\ CommitOps(q) \in Nat
<1>1. CommitsIn(q) \subseteq 0 .. Len(q) /\ Len(q) \in Nat
  BY LenProperties DEF CommitsIn
<1>2. QED
  BY <1>1, BoundedFinite DEF CommitsIn, CommitOps

LEMMA CountAppend ==
  ASSUME NEW S, NEW q \in Seq(S), NEW r \in S
  PROVE  CommitOps(Append(q, r)) = CommitOps(q) + One(r)
<1> DEFINE z == Append(q, r)
<1>1. z \in Seq(S) /\ Len(z) = Len(q) + 1 /\ Len(q) \in Nat
      /\ DOMAIN q = 1 .. Len(q) /\ DOMAIN z = 1 .. Len(q) + 1
      /\ z[Len(q) + 1] = r /\ \A i \in 1 .. Len(q) : z[i] = q[i]
  BY AppendProperties, LenProperties
<1> HIDE DEF z
<1>2. CommitsIn(z) = CommitsIn(q) \cup (IF r.kind = "commit" THEN {Len(q) + 1} ELSE {})
  BY <1>1 DEF CommitsIn
<1>3. Len(q) + 1 \notin CommitsIn(q)
  BY <1>1 DEF CommitsIn
<1>4. IsFiniteSet(CommitsIn(q))
  BY CountType
<1>5. Cardinality(CommitsIn(q) \cup {Len(q) + 1}) = Cardinality(CommitsIn(q)) + 1
  BY <1>3, <1>4, FS_AddElement
<1>6. CASE r.kind = "commit"
  BY <1>1, <1>2, <1>5, <1>6, CountType DEF One, z
<1>7. CASE r.kind # "commit"
  <2>1. CommitsIn(z) = CommitsIn(q)
    BY <1>2, <1>7
  <2>2. CommitOps(z) = CommitOps(q) /\ CommitOps(q) \in Nat
    BY <1>1, <2>1, CountType
  <2>3. One(r) = 0
    BY <1>7 DEF One
  <2>4. QED
    BY <2>2, <2>3 DEF z
<1>8. QED
  BY <1>6, <1>7

\* The element at i is taken out of q.
Cut(q, i, z) ==
  /\ i \in DOMAIN q /\ DOMAIN z = 1 .. Len(q) - 1
  /\ \A j \in DOMAIN z : z[j] = IF j < i THEN q[j] ELSE q[j + 1]

LEMMA CountCut ==
  ASSUME NEW S, NEW q \in Seq(S), NEW z \in Seq(S), NEW i, Cut(q, i, z)
  PROVE  CommitOps(q) = CommitOps(z) + One(q[i])
<1> DEFINE A == CommitsIn(z)
           B == CommitsIn(q) \ {i}
           f == [j \in A |-> IF j < i THEN j ELSE j + 1]
<1>1. Len(q) \in Nat /\ DOMAIN q = 1 .. Len(q) /\ i \in 1 .. Len(q) /\ DOMAIN z = 1 .. Len(q) - 1
  BY LenProperties DEF Cut
<1>2. A \subseteq 1 .. Len(q) - 1
  BY <1>1 DEF CommitsIn
<1>3. \A j \in A : f[j] \in B
  BY <1>1 DEF CommitsIn, Cut
<1>4. \A j, k \in A : f[j] = f[k] => j = k
  BY <1>1, <1>2
<1>5. \A k \in B : \E j \in A : f[j] = k
  <2> SUFFICES ASSUME NEW k \in B PROVE \E j \in A : f[j] = k
    OBVIOUS
  <2>1. k \in 1 .. Len(q) /\ k # i /\ q[k].kind = "commit"
    BY <1>1 DEF CommitsIn
  <2>2. CASE k < i
    <3>1. k \in A
      BY <1>1, <2>1, <2>2 DEF CommitsIn, Cut
    <3>2. QED
      BY <2>2, <3>1
  <2>3. CASE k > i
    <3>1. k - 1 \in DOMAIN z /\ ~(k - 1 < i) /\ (k - 1) + 1 = k
      BY <1>1, <2>1, <2>3
    <3>2. z[k - 1] = q[k]
      BY <3>1 DEF Cut
    <3>3. k - 1 \in A
      BY <2>1, <3>1, <3>2 DEF CommitsIn
    <3>4. QED
      BY <3>1, <3>3
  <2>4. QED
    BY <1>1, <2>1, <2>2, <2>3
<1>6. f \in Bijection(A, B)
  <2>1. f \in [A -> B]
    BY <1>3
  <2> HIDE DEF f, A, B
  <2>2. QED
    BY <1>4, <1>5, <2>1 DEF Bijection, Injection, Surjection, IsInjective
<1>7. IsFiniteSet(A) /\ IsFiniteSet(CommitsIn(q))
  BY CountType
<1> HIDE DEF f, A, B
<1>8. Cardinality(B) = Cardinality(A)
  BY <1>6, <1>7, FS_Bijection DEF ExistsBijection
<1>9. Cardinality(B) = IF i \in CommitsIn(q) THEN Cardinality(CommitsIn(q)) - 1
                                             ELSE Cardinality(CommitsIn(q))
  BY <1>7, FS_RemoveElement DEF B
<1>10. i \in CommitsIn(q) <=> q[i].kind = "commit"
  BY <1>1 DEF CommitsIn
<1>11. /\ CommitOps(q) = Cardinality(CommitsIn(q)) /\ CommitOps(q) \in Nat
       /\ CommitOps(z) = Cardinality(A) /\ CommitOps(z) \in Nat
  BY CountType DEF A
<1>12. CASE q[i].kind = "commit"
  <2>1. One(q[i]) = 1
    BY <1>12 DEF One
  <2>2. Cardinality(A) = Cardinality(CommitsIn(q)) - 1
    BY <1>8, <1>9, <1>10, <1>12
  <2>3. CommitOps(z) = CommitOps(q) - 1
    BY <1>11, <2>2
  <2>4. QED
    BY <1>11, <2>1, <2>3
<1>13. CASE q[i].kind # "commit"
  <2>1. One(q[i]) = 0
    BY <1>13 DEF One
  <2>2. Cardinality(A) = Cardinality(CommitsIn(q))
    BY <1>8, <1>9, <1>10, <1>13
  <2>3. CommitOps(z) = CommitOps(q)
    BY <1>11, <2>2
  <2>4. QED
    BY <1>11, <2>1, <2>3
<1>14. QED
  BY <1>12, <1>13

LEMMA CountTail ==
  ASSUME NEW S, NEW q \in Seq(S), q # <<>>
  PROVE  /\ Tail(q) \in Seq(S) /\ Head(q) \in S /\ Len(Tail(q)) = Len(q) - 1 /\ Len(q) \in Nat
         /\ CommitOps(q) = CommitOps(Tail(q)) + One(Head(q))
<1> DEFINE z == Tail(q)
<1>1. /\ Head(q) \in S /\ Head(q) = q[1] /\ z \in Seq(S) /\ Len(z) = Len(q) - 1
      /\ \A i \in 1 .. Len(z) : z[i] = q[i + 1]
  BY HeadTailProperties, EmptySeq
<1>2. Len(q) \in Nat /\ DOMAIN q = 1 .. Len(q) /\ DOMAIN z = 1 .. Len(z) /\ Len(q) # 0
  BY <1>1, LenProperties, EmptySeq
<1> HIDE DEF z
<1>3. Cut(q, 1, z)
  BY <1>1, <1>2 DEF Cut
<1>4. CommitOps(q) = CommitOps(z) + One(q[1])
  BY <1>1, <1>3, CountCut
<1>5. QED
  BY <1>1, <1>2, <1>4 DEF z

LEMMA CountRemove ==
  ASSUME NEW S, NEW q \in Seq(S), NEW i \in DOMAIN q
  PROVE  /\ RemoveAt(q, i) \in Seq(S) /\ q[i] \in S
         /\ CommitOps(q) = CommitOps(RemoveAt(q, i)) + One(q[i])
<1> DEFINE a == SubSeq(q, 1, i - 1)
           b == SubSeq(q, i + 1, Len(q))
           z == a \o b
<1>1. Len(q) \in Nat /\ DOMAIN q = 1 .. Len(q) /\ i \in 1 .. Len(q) /\ q[i] \in S
  BY LenProperties, ElementOfSeq
<1>2. /\ a \in Seq(S) /\ Len(a) = i - 1 /\ \A j \in 1 .. i - 1 : a[j] = q[j]
  BY <1>1, SubSeqProperties
<1>3. /\ b \in Seq(S) /\ Len(b) = Len(q) - i /\ \A j \in 1 .. Len(q) - i : b[j] = q[j + i]
  BY <1>1, SubSeqProperties
<1> HIDE DEF a, b
<1>4. /\ z \in Seq(S) /\ Len(z) = Len(q) - 1
      /\ \A j \in 1 .. Len(z) : z[j] = IF j <= i - 1 THEN a[j] ELSE b[j - (i - 1)]
  <2>1. /\ z \in Seq(S) /\ Len(z) = Len(a) + Len(b)
        /\ \A j \in 1 .. Len(a) + Len(b) : z[j] = IF j <= Len(a) THEN a[j] ELSE b[j - Len(a)]
    BY <1>2, <1>3, ConcatProperties
  <2> HIDE DEF z
  <2>2. Len(a) + Len(b) = Len(q) - 1
    BY <1>1, <1>2, <1>3
  <2>3. QED
    BY <1>2, <2>1, <2>2
<1>5. DOMAIN z = 1 .. Len(q) - 1
  BY <1>4, LenProperties
<1> HIDE DEF z
<1>6. ASSUME NEW j \in DOMAIN z PROVE z[j] = IF j < i THEN q[j] ELSE q[j + 1]
  <2>1. j \in 1 .. Len(q) - 1 /\ j \in Int
    BY <1>1, <1>5
  <2>2. CASE j < i
    <3>1. j \in 1 .. i - 1 /\ j \in 1 .. Len(z) /\ j <= i - 1
      BY <1>1, <1>4, <2>1, <2>2
    <3>2. z[j] = a[j] /\ a[j] = q[j]
      BY <1>2, <1>4, <3>1
    <3>3. QED
      BY <2>2, <3>2
  <2>3. CASE ~(j < i)
    <3>1. j - (i - 1) \in 1 .. Len(q) - i /\ (j - (i - 1)) + i = j + 1
      BY <1>1, <2>1, <2>3
    <3>2. b[j - (i - 1)] = q[j + 1]
      BY <1>3, <3>1
    <3>3. QED
      BY <1>1, <1>4, <2>1, <2>3, <3>2
  <2>4. QED
    BY <2>2, <2>3
<1>7. Cut(q, i, z)
  BY <1>5, <1>6 DEF Cut
<1>8. CommitOps(q) = CommitOps(z) + One(q[i])
  BY <1>4, <1>7, CountCut
<1>9. QED
  BY <1>1, <1>4, <1>8 DEF z, a, b, RemoveAt

LEMMA CountSame ==
  ASSUME NEW q, NEW z, DOMAIN z = DOMAIN q, \A i \in DOMAIN q : z[i].kind = q[i].kind
  PROVE  CommitOps(z) = CommitOps(q)
<1>1. {i \in DOMAIN z : z[i].kind = "commit"} = {i \in DOMAIN q : q[i].kind = "commit"}
  OBVIOUS
<1>2. QED
  BY <1>1 DEF CommitOps

LEMMA CountEmpty == CommitOps(<<>>) = 0
<1>1. {i \in DOMAIN <<>> : <<>>[i].kind = "commit"} = {}
  OBVIOUS
<1>2. QED
  BY <1>1, FS_EmptySet DEF CommitOps

-----------------------------------------------------------------------------
(* The transformations of the state record. *)

\* The queues and what counts their commits are left alone.
Kept(s, t) ==
  /\ IsState(t)
  /\ t.wire = s.wire /\ t.retry = s.retry /\ t.wait_coord = s.wait_coord /\ t.ops = s.ops
  /\ t.wait_commit_cnt = s.wait_commit_cnt /\ t.errs = s.errs

LEMMA KeptFit ==
  ASSUME NEW s, NEW t, NEW F, NEW k, Fit(s, F, k), Kept(s, t), PlacesOK(t, F), NumbersOK(t)
  PROVE  Fit(t, F, k)
BY DEF Kept, Fit, QueuesOK, Counted, Owed

LEMMA CommitRequestType ==
  ASSUME NEW F, IsBound(F), NEW offsets \in Lists(F), NEW d \in BOOLEAN
  PROVE  CommitRequest(offsets, d) \in Commits(F) /\ One(CommitRequest(offsets, d)) = 1
<1>1. NoReply \in RepliesIn(F)
  BY NoReplyType
<1>2. 0 \in 0 .. RetriesMax
  BY AssignmentBounds
<1>3. CommitRequest(offsets, d) \in Commits(F)
  BY <1>1, <1>2 DEF CommitRequest, Commits
<1>4. CommitRequest(offsets, d).kind = "commit"
  BY DEF CommitRequest
<1>5. QED
  BY <1>3, <1>4 DEF One

LEMMA ValidOffsetsType ==
  ASSUME NEW F, IsBound(F), NEW offsets \in Lists(F)
  PROVE  ValidOffsets(offsets) \in Lists(F)
<1> DEFINE t == ValidOffsets(offsets)
<1>1. /\ t = [p \in DOMAIN t |-> t[p]] /\ DOMAIN t \subseteq DOMAIN offsets
      /\ \A p \in DOMAIN t : t[p] = offsets[p]
  BY DEF ValidOffsets
<1> HIDE DEF t
<1>2. DOMAIN offsets \subseteq Partitions /\ \A p \in DOMAIN offsets : offsets[p] \in F[p]
  BY ListFacts
<1>3. t \in Lists(F)
  BY <1>1, <1>2, ListFacts
<1>4. QED
  BY <1>3 DEF t

\* A commit is counted and queued somewhere.
LEMMA WireCommit ==
  ASSUME NEW s, NEW F, NEW k \in Int, Fit(s, F, k), NEW r \in Commits(F), One(r) = 1,
         NEW n, n = s.wait_commit_cnt + 1
  PROVE  /\ Fit([s EXCEPT !.wait_commit_cnt = n, !.wire = Append(@, r)], F, k)
         /\ Fit([s EXCEPT !.wait_commit_cnt = n, !.wait_coord = Append(@, r)], F, k)
         /\ Fit([s EXCEPT !.wait_commit_cnt = n, !.errs = @ + 1], F, k)
<1> DEFINE t == [s EXCEPT !.wait_commit_cnt = n, !.wire = Append(@, r)]
           u == [s EXCEPT !.wait_commit_cnt = n, !.wait_coord = Append(@, r)]
           v == [s EXCEPT !.wait_commit_cnt = n, !.errs = @ + 1]
<1>1. /\ s.wait_commit_cnt \in Int /\ s.errs \in Int
      /\ s.wire \in Seq(AllRequests(F)) /\ s.retry \in Seq(AllRequests(F))
      /\ s.wait_coord \in Seq(Commits(F)) /\ s.ops \in Seq(Commits(F))
      /\ Counted(s, k) /\ r \in AllRequests(F)
  BY DEF Fit, QueuesOK, NumbersOK, AllRequests
<1>2. /\ CommitOps(s.wire) \in Nat /\ CommitOps(s.retry) \in Nat
      /\ Len(s.wait_coord) \in Nat /\ Len(s.ops) \in Nat
  BY <1>1, CountType, LenProperties
<1>3. /\ Append(s.wire, r) \in Seq(AllRequests(F))
      /\ CommitOps(Append(s.wire, r)) = CommitOps(s.wire) + 1
  BY <1>1, CountAppend, AppendProperties
<1>4. /\ Append(s.wait_coord, r) \in Seq(Commits(F))
      /\ Len(Append(s.wait_coord, r)) = Len(s.wait_coord) + 1
  BY <1>1, AppendProperties
<1>5. /\ IsState(t) /\ t.wire = Append(s.wire, r) /\ t.retry = s.retry
      /\ t.wait_coord = s.wait_coord /\ t.ops = s.ops
      /\ t.wait_commit_cnt = n /\ t.errs = s.errs
      /\ PlacesOK(t, F)
      /\ t.version = s.version /\ t.up = s.up /\ t.serve_pending = s.serve_pending
      /\ t.done = s.done
  BY DEF Fit, Fields, PlacesOK, IsState
<1>6. /\ IsState(u) /\ u.wire = s.wire /\ u.retry = s.retry
      /\ u.wait_coord = Append(s.wait_coord, r) /\ u.ops = s.ops
      /\ u.wait_commit_cnt = n /\ u.errs = s.errs
      /\ PlacesOK(u, F)
      /\ u.version = s.version /\ u.up = s.up /\ u.serve_pending = s.serve_pending
      /\ u.done = s.done
  BY DEF Fit, Fields, PlacesOK, IsState
<1>7. /\ IsState(v) /\ v.wire = s.wire /\ v.retry = s.retry
      /\ v.wait_coord = s.wait_coord /\ v.ops = s.ops
      /\ v.wait_commit_cnt = n /\ v.errs = s.errs + 1
      /\ PlacesOK(v, F)
      /\ v.version = s.version /\ v.up = s.up /\ v.serve_pending = s.serve_pending
      /\ v.done = s.done
  BY DEF Fit, Fields, PlacesOK, IsState
<1> HIDE DEF t, u, v
<1> DEFINE a == CommitOps(s.wire)
           b == CommitOps(s.retry)
           d == Len(s.wait_coord)
           e == Len(s.ops)
           g == s.errs
           m == s.wait_commit_cnt
<1>12. /\ n = (a + 1) + b + d + e + g + k /\ n = a + b + (d + 1) + e + g + k
       /\ n = a + b + d + e + (g + 1) + k
  <2>1. /\ a \in Int /\ b \in Int /\ d \in Int /\ e \in Int /\ g \in Int /\ m \in Int
        /\ m = a + b + d + e + g + k /\ n = m + 1
    BY <1>1, <1>2 DEF Counted, Owed
  <2> HIDE DEF a, b, d, e, g, m
  <2>2. QED
    BY <2>1
<1>8. Fit(t, F, k)
  <2>1. Counted(t, k)
    BY <1>3, <1>5, <1>12 DEF Counted, Owed
  <2>2. QED
    BY <1>1, <1>3, <1>5, <2>1 DEF Fit, QueuesOK, NumbersOK
<1>9. Fit(u, F, k)
  <2>1. Counted(u, k)
    BY <1>4, <1>6, <1>12 DEF Counted, Owed
  <2>2. QED
    BY <1>1, <1>4, <1>6, <2>1 DEF Fit, QueuesOK, NumbersOK
<1>10. Fit(v, F, k)
  <2>1. Counted(v, k)
    BY <1>7, <1>12 DEF Counted, Owed
  <2>2. QED
    BY <1>1, <1>7, <2>1 DEF Fit, QueuesOK, NumbersOK
<1>11. QED
  BY <1>8, <1>9, <1>10 DEF t, u, v

LEMMA OffsetsCommitFit ==
  ASSUME NEW s, NEW F, IsBound(F), NEW k \in Int, Fit(s, F, k), NEW offsets \in Lists(F)
  PROVE  Fit(OffsetsCommit(s, offsets), F, k)
<1> DEFINE op == CommitRequest(ValidOffsets(offsets), FALSE)
           later == [op EXCEPT !.deferred = TRUE]
           n == s.wait_commit_cnt + 1
<1>1. op \in Commits(F) /\ One(op) = 1
  BY ValidOffsetsType, CommitRequestType
<1>2. \A r \in Commits(F) : /\ [r EXCEPT !.deferred = TRUE] \in Commits(F)
                              /\ [r EXCEPT !.deferred = TRUE].kind = "commit"
  BY DEF Commits
<1>3. later \in Commits(F) /\ One(later) = 1
  BY <1>1, <1>2 DEF One
<1>4. OffsetsCommit(s, offsets) \in
        {[s EXCEPT !.wait_commit_cnt = n, !.wire = Append(@, op)],
         [s EXCEPT !.wait_commit_cnt = n, !.wait_coord = Append(@, later)],
         [s EXCEPT !.wait_commit_cnt = n, !.errs = @ + 1]}
  <2>1. /\ [[s EXCEPT !.wait_commit_cnt = @ + 1] EXCEPT !.wire = Append(@, op)]
             = [s EXCEPT !.wait_commit_cnt = n, !.wire = Append(@, op)]
        /\ [[s EXCEPT !.wait_commit_cnt = @ + 1] EXCEPT !.wait_coord = Append(@, later)]
             = [s EXCEPT !.wait_commit_cnt = n, !.wait_coord = Append(@, later)]
        /\ [[s EXCEPT !.wait_commit_cnt = @ + 1] EXCEPT !.errs = @ + 1]
             = [s EXCEPT !.wait_commit_cnt = n, !.errs = @ + 1]
    OBVIOUS
  <2>2. CASE ~HasValidOffset(offsets)
    BY <2>1, <2>2, Zenon DEF OffsetsCommit
  <2>3. CASE HasValidOffset(offsets) /\ ~s.up
    BY <2>1, <2>3, Zenon DEF OffsetsCommit
  <2>4. CASE HasValidOffset(offsets) /\ s.up
    BY <2>1, <2>4, Zenon DEF OffsetsCommit
  <2>5. QED
    BY <2>2, <2>3, <2>4
<1> HIDE DEF op, later
<1>5. Fit([s EXCEPT !.wait_commit_cnt = n, !.wire = Append(@, op)], F, k)
  BY <1>1, WireCommit
<1>6. Fit([s EXCEPT !.wait_commit_cnt = n, !.wait_coord = Append(@, later)], F, k)
  BY <1>3, WireCommit
<1>7. Fit([s EXCEPT !.wait_commit_cnt = n, !.errs = @ + 1], F, k)
  BY <1>1, WireCommit
<1>8. QED
  BY <1>4, <1>5, <1>6, <1>7

LEMMA ErasedPlaces ==
  ASSUME NEW F, IsBound(F), NEW f \in Places(F), NEW R
  PROVE  [p \in Partitions |-> IF p \in R THEN INVALID ELSE f[p]] \in Places(F)
<1> DEFINE g == [p \in Partitions |-> IF p \in R THEN INVALID ELSE f[p]]
<1>1. \A p \in Partitions : g[p] \in F[p]
  BY DEF Places, IsBound
<1>2. \A p \in Partitions : g[p] \in Offsets
  BY <1>1 DEF IsBound
<1>3. QED
  BY <1>1, <1>2 DEF Places

LEMMA ServeRemovalsFit ==
  ASSUME NEW s, NEW F, IsBound(F), NEW k \in Int, Fit(s, F, k), NEW R, R \subseteq Partitions
  PROVE  Fit(ServeRemovals(s, R), F, k)
<1> DEFINE u == [s EXCEPT !.pending = Without(@, R), !.queried = @ \ R]
           t == RequestStop(u, R)
           E == [p \in Partitions |-> IF p \in R THEN INVALID ELSE t.stored[p]]
           v == [t EXCEPT !.stored = E,
                          !.asserts = @ /\ R \subseteq s.assigned, !.assigned = @ \ R]
           final == [p \in R |-> s.stored[p]]
<1>1. Without(s.pending, R) \in Lists(F)
  BY WithoutList DEF Fit, PlacesOK
<1>2. Fit(u, F, k) /\ u.stored = s.stored
  <2> DEFINE W == Without(s.pending, R)
  <2>1. u = [s EXCEPT !.pending = W, !.queried = @ \ R]
    OBVIOUS
  <2> HIDE DEF W
  <2>2. Kept(s, u) /\ NumbersOK(u) /\ PlacesOK(u, F) /\ u.stored = s.stored
    BY <1>1 DEF Fit, Kept, IsState, Fields, NumbersOK, PlacesOK, W
  <2> HIDE DEF u
  <2>3. QED
    BY <2>2, KeptFit
<1> HIDE DEF u
<1>3. Fit(t, F, k) /\ t.stored = u.stored
  <2>1. Kept(u, t) /\ NumbersOK(t) /\ PlacesOK(t, F) /\ t.stored = u.stored
    BY <1>2 DEF Fit, Kept, IsState, Fields, NumbersOK, PlacesOK, RequestStop
  <2> HIDE DEF t
  <2>2. QED
    BY <1>2, <2>1, KeptFit
<1>4. ServeRemovals(s, R) = IF HasValidOffset(final) THEN OffsetsCommit(v, final) ELSE v
  BY Zenon DEF ServeRemovals, v, t, u
<1> HIDE DEF t
<1>5. E \in Places(F)
  BY <1>3, ErasedPlaces DEF Fit, PlacesOK
<1> HIDE DEF E
<1>6. Fit(v, F, k)
  <2>1. Kept(t, v) /\ NumbersOK(v) /\ PlacesOK(v, F)
    BY <1>3, <1>5 DEF Fit, Kept, IsState, Fields, NumbersOK, PlacesOK
  <2> HIDE DEF v
  <2>2. QED
    BY <1>3, <2>1, KeptFit
<1>7. final \in Lists(F)
  <2>1. \A p \in R : s.stored[p] \in F[p]
    BY DEF Fit, PlacesOK, Places
  <2>2. QED
    BY <2>1, ListFacts
<1> HIDE DEF v, final
<1>8. Fit(OffsetsCommit(v, final), F, k)
  BY <1>6, <1>7, OffsetsCommitFit
<1>9. QED
  BY <1>4, <1>6, <1>8

LEMMA FetchRequestType ==
  ASSUME NEW F, IsBound(F), NEW S \in SUBSET Partitions, NEW n \in Nat
  PROVE  /\ FetchRequest(S, n) \in AllRequests(F) /\ One(FetchRequest(S, n)) = 0
<1>1. NoReply \in RepliesIn(F)
  BY NoReplyType
<1>2. FetchRequest(S, n) \in Fetches(F) /\ FetchRequest(S, n).kind = "fetch"
  BY <1>1 DEF FetchRequest, Fetches
<1>3. QED
  BY <1>2 DEF AllRequests, One

\* A request that is no commit is appended.
LEMMA WireFetch ==
  ASSUME NEW F, NEW q \in Seq(AllRequests(F)), NEW r \in AllRequests(F), One(r) = 0
  PROVE  Append(q, r) \in Seq(AllRequests(F)) /\ CommitOps(Append(q, r)) = CommitOps(q)
<1>1. Append(q, r) \in Seq(AllRequests(F))
  BY AppendProperties
<1>2. CommitOps(Append(q, r)) = CommitOps(q) + 0 /\ CommitOps(q) \in Nat
  BY CountAppend, CountType
<1>3. QED
  BY <1>1, <1>2

LEMMA ServePendingFit ==
  ASSUME NEW s, NEW F, IsBound(F), NEW k \in Int, Fit(s, F, k)
  PROVE  Fit(ServePending(s), F, k)
<1> DEFINE ready == {p \in DOMAIN s.pending : Startable(s.pending[p])}
           ask   == IF CanQuery(s) THEN DOMAIN s.pending \ ready ELSE {}
           A     == [p \in Partitions |-> IF p \in ready THEN s.pending[p] ELSE s.app_pos[p]]
           W     == IF ask # {} THEN Append(s.wire, FetchRequest(ask, s.version)) ELSE s.wire
           P     == Without(s.pending, ready \cup ask)
           t     == ServePending(s)
<1>1. ready \subseteq DOMAIN s.pending /\ ask \subseteq DOMAIN s.pending
  OBVIOUS
<1>2. DOMAIN s.pending \subseteq Partitions /\ \A p \in DOMAIN s.pending : s.pending[p] \in F[p]
  BY ListFacts DEF Fit, PlacesOK
<1>3. /\ IsState(t) /\ t.wire = W /\ t.retry = s.retry /\ t.wait_coord = s.wait_coord
      /\ t.ops = s.ops /\ t.wait_commit_cnt = s.wait_commit_cnt /\ t.errs = s.errs
      /\ t.all = s.all /\ t.pending = P /\ t.stored = s.stored
      /\ t.committed_pos = s.committed_pos /\ t.app_pos = A
      /\ t.version = s.version /\ t.up = s.up /\ t.serve_pending = s.serve_pending
      /\ t.done = s.done
  BY DEF ServePending, Fit, IsState, Fields
<1> HIDE DEF ready, ask, t
<1>4. P \in Lists(F)
  BY WithoutList DEF Fit, PlacesOK
<1>5. A \in Places(F)
  <2>1. \A p \in Partitions : A[p] \in F[p]
    BY <1>1, <1>2 DEF Fit, PlacesOK, Places
  <2>2. \A p \in Partitions : A[p] \in Offsets
    BY <2>1 DEF IsBound
  <2>3. QED
    BY <2>1, <2>2 DEF Places
<1>6. W \in Seq(AllRequests(F)) /\ CommitOps(W) = CommitOps(s.wire)
  <2>1. s.wire \in Seq(AllRequests(F)) /\ s.version \in Nat
    BY DEF Fit, QueuesOK, NumbersOK
  <2>2. FetchRequest(ask, s.version) \in AllRequests(F) /\ One(FetchRequest(ask, s.version)) = 0
    BY <1>1, <1>2, <2>1, FetchRequestType
  <2>3. QED
    BY <2>1, <2>2, WireFetch
<1> HIDE DEF W, A, P
<1>7. QueuesOK(t, F) /\ PlacesOK(t, F) /\ NumbersOK(t) /\ Counted(t, k)
  BY <1>3, <1>4, <1>5, <1>6 DEF Fit, QueuesOK, PlacesOK, NumbersOK, Counted, Owed
<1>8. QED
  BY <1>3, <1>7 DEF Fit, t

LEMMA DoneFit ==
  ASSUME NEW s, NEW F, NEW k, Fit(s, F, k), NEW b \in BOOLEAN
  PROVE  Fit([s EXCEPT !.done = b], F, k) /\ Fit([s EXCEPT !.up = b], F, k)
         /\ Fit([s EXCEPT !.serve_pending = b], F, k)
<1> DEFINE t == [s EXCEPT !.done = b]
           u == [s EXCEPT !.up = b]
           v == [s EXCEPT !.serve_pending = b]
<1>1. Kept(s, t) /\ NumbersOK(t) /\ PlacesOK(t, F)
  BY DEF Fit, Kept, IsState, Fields, NumbersOK, PlacesOK
<1>2. Kept(s, u) /\ NumbersOK(u) /\ PlacesOK(u, F)
  BY DEF Fit, Kept, IsState, Fields, NumbersOK, PlacesOK
<1>3. Kept(s, v) /\ NumbersOK(v) /\ PlacesOK(v, F)
  BY DEF Fit, Kept, IsState, Fields, NumbersOK, PlacesOK
<1> HIDE DEF t, u, v
<1>4. Fit(t, F, k) /\ Fit(u, F, k) /\ Fit(v, F, k)
  BY <1>1, <1>2, <1>3, KeptFit
<1>5. QED
  BY <1>4 DEF t, u, v

LEMMA ServeFit ==
  ASSUME NEW s, NEW F, IsBound(F), NEW k \in Int, Fit(s, F, k), NEW R, R \subseteq Partitions
  PROVE  Fit(Serve(s, R), F, k)
<1> DEFINE removed == IF R # {} THEN ServeRemovals(s, R) ELSE s
           served  == IF MayServePending(removed) THEN ServePending(removed) ELSE removed
           ended   == [served EXCEPT !.done = TRUE]
<1>1. Fit(removed, F, k)
  BY ServeRemovalsFit
<1>2. Serve(s, R) = IF Settled(served) THEN ended ELSE served
  BY Zenon DEF Serve
<1> HIDE DEF removed
<1>3. Fit(served, F, k)
  BY <1>1, ServePendingFit
<1> HIDE DEF served
<1>4. Fit(ended, F, k)
  BY <1>3, DoneFit
<1> HIDE DEF ended
<1>5. QED
  BY <1>2, <1>3, <1>4

LEMMA ClearFit ==
  ASSUME NEW s, NEW F, IsBound(F), NEW k, Fit(s, F, k)
  PROVE  Fit(Clear(s), F, k)
<1> DEFINE e == <<>>
           t == [s EXCEPT !.pending = e, !.queried = {}, !.all = e, !.version = @ + 1]
<1>1. e \in Lists(F)
  BY EmptyList
<1>2. Clear(s) = s \/ Clear(s) = t
  BY DEF Clear
<1> HIDE DEF e
<1>3. Kept(s, t) /\ NumbersOK(t) /\ PlacesOK(t, F)
  <2>1. IsState(t)
    BY DEF Fit, IsState, Fields
  <2>2. /\ t.wire = s.wire /\ t.retry = s.retry /\ t.wait_coord = s.wait_coord
        /\ t.ops = s.ops /\ t.wait_commit_cnt = s.wait_commit_cnt /\ t.errs = s.errs
        /\ t.all = e /\ t.pending = e /\ t.stored = s.stored
        /\ t.committed_pos = s.committed_pos /\ t.app_pos = s.app_pos
        /\ t.version = s.version + 1 /\ t.up = s.up /\ t.serve_pending = s.serve_pending
        /\ t.done = s.done
    BY DEF Fit, IsState, Fields
  <2> HIDE DEF t
  <2>3. QED
    BY <1>1, <2>1, <2>2 DEF Fit, Kept, NumbersOK, PlacesOK
<1> HIDE DEF t
<1>4. QED
  BY <1>2, <1>3, KeptFit

LEMMA AddFit ==
  ASSUME NEW s, NEW F, IsBound(F), NEW k, Fit(s, F, k), NEW list \in Lists(F)
  PROVE  Fit(Add(s, list), F, k)
<1> DEFINE L     == DOMAIN list
           begin == [p \in L |-> IF list[p] = INVALID THEN STORED ELSE list[p]]
           t     == Add(s, list)
           E     == [p \in Partitions |-> IF p \in L THEN INVALID ELSE s.stored[p]]
           A     == With(s.all, begin)
           P     == With(s.pending, begin)
<1>1. begin \in Lists(F)
  <2>1. L \subseteq Partitions /\ \A p \in L : list[p] \in F[p]
    BY ListFacts
  <2>2. \A p \in L : begin[p] \in F[p]
    BY <2>1 DEF IsBound
  <2>3. DOMAIN begin = L /\ begin = [p \in DOMAIN begin |-> begin[p]]
    OBVIOUS
  <2> HIDE DEF begin
  <2>4. QED
    BY <2>1, <2>2, <2>3, ListFacts
<1>2. /\ IsState(t) /\ t.wire = s.wire /\ t.retry = s.retry /\ t.wait_coord = s.wait_coord
      /\ t.ops = s.ops /\ t.wait_commit_cnt = s.wait_commit_cnt /\ t.errs = s.errs
      /\ t.all = A /\ t.pending = P /\ t.stored = E
      /\ t.committed_pos = s.committed_pos /\ t.app_pos = s.app_pos
      /\ t.version = s.version + 1 /\ t.up = s.up /\ t.serve_pending = s.serve_pending
      /\ t.done = s.done
  BY DEF Add, Fit, IsState, Fields
<1> HIDE DEF begin, t
<1>3. A \in Lists(F) /\ P \in Lists(F)
  BY <1>1, WithList DEF Fit, PlacesOK
<1>4. E \in Places(F)
  BY ErasedPlaces DEF Fit, PlacesOK
<1> HIDE DEF A, P, E
<1>5. Kept(s, t) /\ NumbersOK(t) /\ PlacesOK(t, F)
  BY <1>2, <1>3, <1>4 DEF Fit, Kept, NumbersOK, PlacesOK
<1>6. Fit(t, F, k)
  BY <1>5, KeptFit
<1>7. QED
  BY <1>6 DEF t

LEMMA SubtractFit ==
  ASSUME NEW s, NEW F, IsBound(F), NEW k, Fit(s, F, k), NEW R
  PROVE  Fit(Subtract(s, R), F, k)
<1> DEFINE A    == Without(s.all, R)
           P    == Without(s.pending, R \ s.queried)
           off  == [s EXCEPT !.all = Without(@, R),
                             !.pending = Without(@, R \ s.queried),
                             !.queried = @ \ R,
                             !.version = @ + 1]
           left == DOMAIN s.all \ R
           t    == Subtract(s, R)
<1>1. /\ IsState(off) /\ off.wire = s.wire /\ off.retry = s.retry
      /\ off.wait_coord = s.wait_coord
      /\ off.ops = s.ops /\ off.wait_commit_cnt = s.wait_commit_cnt /\ off.errs = s.errs
      /\ off.all = A /\ off.pending = P /\ off.stored = s.stored
      /\ off.committed_pos = s.committed_pos /\ off.app_pos = s.app_pos
      /\ off.version = s.version + 1 /\ off.up = s.up /\ off.serve_pending = s.serve_pending
      /\ off.done = s.done
  BY DEF Fit, IsState, Fields
<1>2. t = [off EXCEPT !.asserts =
             @ /\ (left = {} => DOMAIN off.pending = {} /\ off.queried = {})]
  BY DEF Subtract
<1> HIDE DEF off, t
<1>3. A \in Lists(F) /\ P \in Lists(F)
  BY WithoutList DEF Fit, PlacesOK
<1> HIDE DEF A, P
<1>4. Kept(s, off) /\ NumbersOK(off) /\ PlacesOK(off, F)
  BY <1>1, <1>3 DEF Fit, Kept, NumbersOK, PlacesOK
<1>5. Fit(off, F, k)
  BY <1>4, KeptFit
<1>6. Kept(off, t) /\ NumbersOK(t) /\ PlacesOK(t, F)
  BY <1>1, <1>2, <1>4 DEF Kept, IsState, Fields, NumbersOK, PlacesOK
<1>7. Fit(t, F, k)
  BY <1>5, <1>6, KeptFit
<1>8. QED
  BY <1>7 DEF t

LEMMA ApplyOffsetsFit ==
  ASSUME NEW s, NEW F, IsBound(F), NEW k \in Int, Fit(s, F, k),
         NEW offsets \in Lists(F), NEW errors, NEW err
  PROVE  Fit(ApplyOffsets(s, offsets, errors, err), F, k)
<1> DEFINE hit   == DOMAIN offsets \cap s.queried
           stale == {p \in hit : "STALE_MEMBER_EPOCH" \in {err, errors[p]}}
           open  == {p \in hit \ stale : "UNSTABLE_OFFSET_COMMIT" \in {err, errors[p]}}
           good  == {p \in hit \ (stale \cup open) : errors[p] = "none" /\ err = "none"}
           back  == [p \in stale \cup open \cup good |->
                       IF p \in stale THEN STORED ELSE offsets[p]]
           P     == With(s.pending, back)
           t     == [s EXCEPT !.queried = @ \ hit, !.pending = With(@, back)]
<1>1. /\ DOMAIN back \subseteq DOMAIN offsets /\ back = [p \in DOMAIN back |-> back[p]]
      /\ \A p \in DOMAIN back : back[p] = STORED \/ back[p] = offsets[p]
  OBVIOUS
<1>2. ApplyOffsets(s, offsets, errors, err) =
        IF DOMAIN offsets # {} /\ err # "STALE_MEMBER_EPOCH" THEN Serve(t, {}) ELSE t
  BY DEF ApplyOffsets
<1> HIDE DEF hit, back, stale, open, good
<1>3. back \in Lists(F)
  <2>1. DOMAIN offsets \subseteq Partitions /\ \A p \in DOMAIN offsets : offsets[p] \in F[p]
    BY ListFacts
  <2>2. \A p \in DOMAIN back : back[p] \in F[p]
    BY <1>1, <2>1 DEF IsBound
  <2>3. QED
    BY <1>1, <2>1, <2>2, ListFacts
<1>4. P \in Lists(F)
  BY <1>3, WithList DEF Fit, PlacesOK
<1>5. t = [s EXCEPT !.queried = @ \ hit, !.pending = P]
  OBVIOUS
<1> HIDE DEF P
<1>6. Kept(s, t) /\ NumbersOK(t) /\ PlacesOK(t, F)
  BY <1>4, <1>5 DEF Fit, Kept, IsState, Fields, NumbersOK, PlacesOK
<1> HIDE DEF t
<1>7. Fit(t, F, k)
  BY <1>6, KeptFit
<1>8. QED
  BY <1>2, <1>7, ServeFit

LEMMA UpdateCommittedFit ==
  ASSUME NEW s, NEW F, IsBound(F), NEW k, Fit(s, F, k), NEW reply, reply.offsets \in Lists(F)
  PROVE  Fit(UpdateCommitted(s, reply), F, k)
<1> DEFINE C == [p \in Partitions |->
                   IF p \in DOMAIN reply.offsets /\ reply.errors[p] = "none"
                   THEN reply.offsets[p] ELSE s.committed_pos[p]]
           t == UpdateCommitted(s, reply)
<1>1. C \in Places(F)
  <2>1. \A p \in DOMAIN reply.offsets : reply.offsets[p] \in F[p]
    BY ListFacts
  <2>2. \A p \in Partitions : s.committed_pos[p] \in F[p]
    BY DEF Fit, PlacesOK, Places
  <2>3. \A p \in Partitions : C[p] \in F[p]
    BY <2>1, <2>2
  <2>4. \A p \in Partitions : C[p] \in Offsets
    BY <2>3 DEF IsBound
  <2>5. QED
    BY <2>3, <2>4 DEF Places
<1>2. t = [s EXCEPT !.committed_pos = C]
  BY DEF UpdateCommitted
<1> HIDE DEF C
<1>3. Kept(s, t) /\ NumbersOK(t) /\ PlacesOK(t, F)
  BY <1>1, <1>2 DEF Fit, Kept, IsState, Fields, NumbersOK, PlacesOK
<1>4. QED
  BY <1>3, KeptFit

LEMMA RetryFetchFit ==
  ASSUME NEW s, NEW F, NEW k, Fit(s, F, k), NEW r \in AllRequests(F), One(r) = 0
  PROVE  Fit([s EXCEPT !.retry = Append(@, r)], F, k)
<1> DEFINE Q == Append(s.retry, r)
           t == [s EXCEPT !.retry = Append(@, r)]
<1>1. Q \in Seq(AllRequests(F)) /\ CommitOps(Q) = CommitOps(s.retry)
  BY WireFetch DEF Fit, QueuesOK
<1>2. t = [s EXCEPT !.retry = Q]
  OBVIOUS
<1> HIDE DEF Q
<1>3. /\ IsState(t) /\ t.wire = s.wire /\ t.retry = Q /\ t.wait_coord = s.wait_coord
      /\ t.ops = s.ops /\ t.wait_commit_cnt = s.wait_commit_cnt /\ t.errs = s.errs
      /\ PlacesOK(t, F) /\ NumbersOK(t)
  BY <1>2 DEF Fit, IsState, Fields, PlacesOK, NumbersOK
<1> HIDE DEF t
<1>4. Fit(t, F, k)
  BY <1>1, <1>3 DEF Fit, QueuesOK, Counted, Owed
<1>5. QED
  BY <1>4 DEF t

LEMMA FetchResultFit ==
  ASSUME NEW s, NEW F, IsBound(F), NEW k \in Int, Fit(s, F, k), NEW r \in Fetches(F)
  PROVE  Fit(FetchResult(s, r), F, k)
<1> DEFINE known == UpdateCommitted(s, r.reply)
           x     == [r EXCEPT !.reply = NoReply]
           again == [known EXCEPT !.retry = Append(@, x)]
           later == [known EXCEPT !.serve_pending = @ \/ r.reply.err = "STALE_MEMBER_EPOCH"]
           retry == Retriable(r.reply) /\ r.version = s.version
<1>1. r.reply.offsets \in Lists(F)
  BY DEF Fetches, RepliesIn
<1>2. Fit(known, F, k)
  BY <1>1, UpdateCommittedFit
<1>3. \/ FetchResult(s, r) = again
      \/ FetchResult(s, r) = known
      \/ FetchResult(s, r) =
           ApplyOffsets(later, r.reply.offsets, r.reply.errors, r.reply.err)
  <2>1. CASE retry
    BY <2>1, Zenon DEF FetchResult
  <2>2. CASE ~retry /\ r.reply.err = "TRANSPORT"
    BY <2>2, Zenon DEF FetchResult
  <2>3. CASE ~retry /\ r.reply.err # "TRANSPORT"
    BY <2>3, Zenon DEF FetchResult
  <2>4. QED
    BY <2>1, <2>2, <2>3
<1>4. x \in AllRequests(F) /\ One(x) = 0
  <2>1. NoReply \in RepliesIn(F)
    BY NoReplyType
  <2>2. x \in Fetches(F) /\ x.kind = "fetch"
    BY <2>1 DEF Fetches
  <2>3. QED
    BY <2>2 DEF AllRequests, One
<1> HIDE DEF known, x
<1>5. Fit(again, F, k)
  BY <1>2, <1>4, RetryFetchFit
<1>6. Fit(later, F, k)
  <2> DEFINE b == known.serve_pending \/ r.reply.err = "STALE_MEMBER_EPOCH"
  <2>1. later = [known EXCEPT !.serve_pending = b]
    OBVIOUS
  <2>2. b \in BOOLEAN
    OBVIOUS
  <2> HIDE DEF b
  <2>3. Fit([known EXCEPT !.serve_pending = b], F, k)
    BY <1>2, <2>2, DoneFit
  <2>4. QED
    BY <2>1, <2>3
<1> HIDE DEF again, later
<1>7. Fit(ApplyOffsets(later, r.reply.offsets, r.reply.errors, r.reply.err), F, k)
  BY <1>1, <1>6, ApplyOffsetsFit
<1>8. QED
  BY <1>2, <1>3, <1>5, <1>7

\* The commit in the main thread's hands has its result, or is queued again.
LEMMA CommitDoneFit ==
  ASSUME NEW s, NEW F, IsBound(F), Fit(s, F, 1)
  PROVE  Fit(CommitDone(s), F, 0)
<1> DEFINE t == [s EXCEPT !.wait_commit_cnt = @ - 1]
<1>1. /\ IsState(t) /\ t.wire = s.wire /\ t.retry = s.retry /\ t.wait_coord = s.wait_coord
      /\ t.ops = s.ops /\ t.wait_commit_cnt = s.wait_commit_cnt - 1 /\ t.errs = s.errs
      /\ PlacesOK(t, F)
      /\ t.version = s.version /\ t.up = s.up /\ t.serve_pending = s.serve_pending
      /\ t.done = s.done
  BY DEF Fit, IsState, Fields, PlacesOK
<1>2. CommitDone(s) = IF t.wait_commit_cnt = 0 THEN Serve(t, {}) ELSE t
  BY DEF CommitDone
<1> HIDE DEF t
<1>3. QueuesOK(t, F) /\ NumbersOK(t)
  BY <1>1 DEF Fit, QueuesOK, NumbersOK
<1> DEFINE a == CommitOps(s.wire)
           b == CommitOps(s.retry)
           d == Len(s.wait_coord)
           e == Len(s.ops)
           g == s.errs
           m == s.wait_commit_cnt
<1>4. m - 1 = a + b + d + e + g + 0
  <2>1. /\ a \in Int /\ b \in Int /\ d \in Int /\ e \in Int /\ g \in Int /\ m \in Int
        /\ m = a + b + d + e + g + 1
    BY CountType, LenProperties DEF Fit, QueuesOK, NumbersOK, Counted, Owed
  <2> HIDE DEF a, b, d, e, g, m
  <2>2. QED
    BY <2>1
<1>5. Counted(t, 0)
  BY <1>1, <1>4 DEF Counted, Owed
<1>6. Fit(t, F, 0)
  BY <1>1, <1>3, <1>5 DEF Fit
<1>7. QED
  BY <1>2, <1>6, ServeFit

LEMMA RequeueFit ==
  ASSUME NEW s, NEW F, Fit(s, F, 1), NEW r \in Commits(F), One(r) = 1
  PROVE  /\ Fit([s EXCEPT !.retry = Append(@, r)], F, 0)
         /\ Fit([s EXCEPT !.wait_coord = Append(@, r)], F, 0)
<1> DEFINE Q == Append(s.retry, r)
           t == [s EXCEPT !.retry = Append(@, r)]
           W == Append(s.wait_coord, r)
           u == [s EXCEPT !.wait_coord = Append(@, r)]
           a == CommitOps(s.wire)
           b == CommitOps(s.retry)
           d == Len(s.wait_coord)
           e == Len(s.ops)
           g == s.errs
           m == s.wait_commit_cnt
<1>1. r \in AllRequests(F)
  BY DEF AllRequests
<1>2. Q \in Seq(AllRequests(F)) /\ CommitOps(Q) = b + 1
  BY <1>1, AppendProperties, CountAppend DEF Fit, QueuesOK
<1>3. W \in Seq(Commits(F)) /\ Len(W) = d + 1
  BY AppendProperties DEF Fit, QueuesOK
<1>4. m = a + (b + 1) + d + e + g + 0 /\ m = a + b + (d + 1) + e + g + 0
  <2>1. /\ a \in Int /\ b \in Int /\ d \in Int /\ e \in Int /\ g \in Int /\ m \in Int
        /\ m = a + b + d + e + g + 1
    BY CountType, LenProperties DEF Fit, QueuesOK, NumbersOK, Counted, Owed
  <2> HIDE DEF a, b, d, e, g, m
  <2>2. QED
    BY <2>1
<1>5. t = [s EXCEPT !.retry = Q] /\ u = [s EXCEPT !.wait_coord = W]
  OBVIOUS
<1> HIDE DEF Q, W
<1>6. /\ IsState(t) /\ t.wire = s.wire /\ t.retry = Q /\ t.wait_coord = s.wait_coord
      /\ t.ops = s.ops /\ t.wait_commit_cnt = s.wait_commit_cnt /\ t.errs = s.errs
      /\ PlacesOK(t, F) /\ NumbersOK(t)
  BY <1>5 DEF Fit, IsState, Fields, PlacesOK, NumbersOK
<1>7. /\ IsState(u) /\ u.wire = s.wire /\ u.retry = s.retry /\ u.wait_coord = W
      /\ u.ops = s.ops /\ u.wait_commit_cnt = s.wait_commit_cnt /\ u.errs = s.errs
      /\ PlacesOK(u, F) /\ NumbersOK(u)
  BY <1>5 DEF Fit, IsState, Fields, PlacesOK, NumbersOK
<1> HIDE DEF t, u
<1>8. Counted(t, 0) /\ Counted(u, 0)
  BY <1>2, <1>3, <1>4, <1>6, <1>7 DEF Counted, Owed
<1>9. Fit(t, F, 0)
  BY <1>2, <1>6, <1>8 DEF Fit, QueuesOK
<1>10. Fit(u, F, 0)
  BY <1>3, <1>7, <1>8 DEF Fit, QueuesOK
<1>11. QED
  BY <1>9, <1>10 DEF t, u

LEMMA CommitResultFit ==
  ASSUME NEW s, NEW F, IsBound(F), Fit(s, F, 1), NEW r \in Commits(F)
  PROVE  Fit(CommitResult(s, r), F, 0)
<1> DEFINE dead  == [s EXCEPT !.up = FALSE]
           C     == With(s.committed_pos, r.offsets)
           ok    == [s EXCEPT !.committed_pos = With(@, r.offsets)]
           x     == [r EXCEPT !.reply = NoReply, !.retries = @ + 1]
           y     == CommitRequest(r.offsets, TRUE)
           again == [dead EXCEPT !.retry = Append(@, x)]
           later == [dead EXCEPT !.wait_coord = Append(@, y)]
           e     == r.reply.err
<1>1. r.offsets \in Lists(F) /\ r.retries \in 0 .. RetriesMax
  BY DEF Commits
<1>2. \/ CommitResult(s, r) \in {CommitDone(ok), later, CommitDone(dead), CommitDone(s)}
      \/ CommitResult(s, r) = again /\ r.retries < RetriesMax
  <2>1. CASE e = "none"
    BY <2>1, Zenon DEF CommitResult
  <2>2. CASE e = "TRANSPORT" /\ r.retries < RetriesMax
    <3>1. r.retries # RetriesMax /\ e # "none"
      BY <1>1, <2>2, AssignmentBounds
    <3>2. CommitResult(s, r) = again
      BY <2>2, <3>1, Zenon DEF CommitResult
    <3>3. QED
      BY <2>2, <3>2
  <2>3. CASE e = "TRANSPORT" /\ r.retries = RetriesMax /\ ~r.deferred
    <3>1. ~(r.retries < RetriesMax) /\ e # "none"
      BY <1>1, <2>3, AssignmentBounds
    <3>2. CommitResult(s, r) = later
      BY <2>3, <3>1, Zenon DEF CommitResult
    <3>3. QED
      BY <3>2
  <2>4. CASE e = "TRANSPORT" /\ r.retries = RetriesMax /\ r.deferred
    <3>1. ~(r.retries < RetriesMax) /\ e # "none"
      BY <1>1, <2>4, AssignmentBounds
    <3>2. CommitResult(s, r) = CommitDone(dead)
      BY <2>4, <3>1, Zenon DEF CommitResult
    <3>3. QED
      BY <3>2
  <2>5. CASE /\ e # "none"
             /\ ~(e = "TRANSPORT" /\ r.retries < RetriesMax)
             /\ ~(e = "TRANSPORT" /\ r.retries = RetriesMax /\ ~r.deferred)
             /\ ~(e = "TRANSPORT" /\ r.retries = RetriesMax /\ r.deferred)
    BY <2>5, Zenon DEF CommitResult
  <2>6. QED
    BY <2>1, <2>2, <2>3, <2>4, <2>5
<1>3. Fit(dead, F, 1)
  BY DoneFit
<1>4. C \in Places(F)
  BY <1>1, WithPlaces DEF Fit, PlacesOK
<1>5. Fit(ok, F, 1)
  <2>1. ok = [s EXCEPT !.committed_pos = C]
    OBVIOUS
  <2> HIDE DEF C
  <2>2. Kept(s, ok) /\ NumbersOK(ok) /\ PlacesOK(ok, F)
    BY <1>4, <2>1 DEF Fit, Kept, IsState, Fields, NumbersOK, PlacesOK
  <2> HIDE DEF ok
  <2>3. QED
    BY <2>2, KeptFit
<1>6. y \in Commits(F) /\ One(y) = 1
  BY <1>1, CommitRequestType
<1>7. r.retries < RetriesMax => x \in Commits(F) /\ One(x) = 1
  <2> SUFFICES ASSUME r.retries < RetriesMax PROVE x \in Commits(F) /\ One(x) = 1
    OBVIOUS
  <2>1. NoReply \in RepliesIn(F)
    BY NoReplyType
  <2>2. r.retries + 1 \in 0 .. RetriesMax
    BY <1>1, AssignmentBounds
  <2>3. x \in Commits(F) /\ x.kind = "commit"
    BY <2>1, <2>2 DEF Commits
  <2>4. QED
    BY <2>3 DEF One
<1> HIDE DEF dead, ok, x, y
<1>8. Fit(later, F, 0)
  BY <1>3, <1>6, RequeueFit
<1>9. r.retries < RetriesMax => Fit(again, F, 0)
  BY <1>3, <1>7, RequeueFit
<1>10. Fit(CommitDone(ok), F, 0) /\ Fit(CommitDone(dead), F, 0) /\ Fit(CommitDone(s), F, 0)
  BY <1>3, <1>5, CommitDoneFit
<1> HIDE DEF again, later
<1>11. QED
  BY <1>2, <1>8, <1>9, <1>10

-----------------------------------------------------------------------------
(* The actions, for given F. *)

StartsIn(F) == \A p \in Partitions : StartOffsets \subseteq F[p]

LEMMA AppListType ==
  ASSUME NEW F, IsBound(F), StartsIn(F), NEW list \in AppLists
  PROVE  list \in Lists(F)
<1>1. PICK S \in SUBSET Partitions : list \in [S -> StartOffsets]
  BY DEF AppLists
<1>2. DOMAIN list = S /\ \A p \in S : list[p] \in F[p]
  BY <1>1 DEF StartsIn
<1>3. QED
  BY <1>1, <1>2, ListFacts

LEMMA AssignFit ==
  ASSUME NEW F, IsBound(F), StartsIn(F), Fit(c, F, 0), NEW list \in AppLists, Assign(list)
  PROVE  Fit(c', F, 0)
<1> DEFINE cleared == Clear(Called)
           removed == IF DOMAIN c.all = {} THEN cleared ELSE Serve(cleared, DOMAIN c.all)
           begun   == [removed EXCEPT !.done = FALSE]
<1>1. Fit(Called, F, 0)
  BY DoneFit DEF Called
<1>2. Fit(cleared, F, 0)
  BY <1>1, ClearFit
<1>3. c' = Serve(Add(begun, list), {})
  BY Zenon DEF Assign, Call
<1> HIDE DEF cleared
<1>4. DOMAIN c.all \subseteq Partitions
  BY ListFacts DEF Fit, PlacesOK
<1>5. Fit(removed, F, 0)
  <2>1. Fit(Serve(cleared, DOMAIN c.all), F, 0)
    BY <1>2, <1>4, ServeFit
  <2>2. QED
    BY <1>2, <2>1
<1> HIDE DEF removed
<1>6. Fit(begun, F, 0)
  BY <1>5, DoneFit
<1> HIDE DEF begun
<1>7. Fit(Add(begun, list), F, 0)
  BY <1>6, AddFit, AppListType
<1>8. QED
  BY <1>3, <1>7, ServeFit

LEMMA UnassignFit ==
  ASSUME NEW F, IsBound(F), Fit(c, F, 0), Unassign
  PROVE  Fit(c', F, 0)
<1>1. Fit(Clear(Called), F, 0)
  <2>1. Fit(Called, F, 0)
    BY DoneFit DEF Called
  <2>2. QED
    BY <2>1, ClearFit
<1>2. DOMAIN c.all \subseteq Partitions
  BY ListFacts DEF Fit, PlacesOK
<1>3. c' = Serve(Clear(Called), DOMAIN c.all)
  BY Zenon DEF Unassign, Call
<1>4. QED
  BY <1>1, <1>2, <1>3, ServeFit

LEMMA IncrementalAssignFit ==
  ASSUME NEW F, IsBound(F), StartsIn(F), Fit(c, F, 0), NEW list \in AppLists,
         IncrementalAssign(list)
  PROVE  Fit(c', F, 0)
<1>1. c' = Serve(Add(Called, list), {})
  BY Zenon DEF IncrementalAssign, Call
<1>2. Fit(Called, F, 0)
  BY DoneFit DEF Called
<1>3. Fit(Add(Called, list), F, 0)
  BY <1>2, AddFit, AppListType
<1>4. QED
  BY <1>1, <1>3, ServeFit

LEMMA IncrementalUnassignFit ==
  ASSUME NEW F, IsBound(F), Fit(c, F, 0), NEW R \in SUBSET Partitions, IncrementalUnassign(R)
  PROVE  Fit(c', F, 0)
<1>1. c' = Serve(Subtract(Called, R), R)
  BY Zenon DEF IncrementalUnassign, Call
<1>2. Fit(Called, F, 0)
  BY DoneFit DEF Called
<1>3. Fit(Subtract(Called, R), F, 0)
  BY <1>2, SubtractFit
<1>4. QED
  BY <1>1, <1>3, ServeFit

LEMMA PartitionStoppedFit ==
  ASSUME NEW F, IsBound(F), Fit(c, F, 0), NEW p \in Partitions, PartitionStopped(p)
  PROVE  Fit(c', F, 0)
<1> DEFINE s == [c EXCEPT
                   !.asserts = @ /\ c.wait_stop_cnt > 0 /\ c.started_cnt > 0
                                 /\ p \in c.wait_stop /\ p \in c.started,
                   !.stops[p] = @ - 1,
                   !.wait_stop_cnt = @ - 1, !.wait_stop = @ \ {p},
                   !.started_cnt = @ - 1, !.started = @ \ {p},
                   !.app_pos[p] = INVALID]
           A == [c.app_pos EXCEPT ![p] = INVALID]
<1>1. c' = IF s.wait_stop_cnt = 0 THEN Serve(s, {}) ELSE s
  BY DEF PartitionStopped
<1>2. /\ IsState(s) /\ s.wire = c.wire /\ s.retry = c.retry /\ s.wait_coord = c.wait_coord
      /\ s.ops = c.ops /\ s.wait_commit_cnt = c.wait_commit_cnt /\ s.errs = c.errs
      /\ s.all = c.all /\ s.pending = c.pending /\ s.stored = c.stored
      /\ s.committed_pos = c.committed_pos /\ s.app_pos = A
      /\ s.version = c.version /\ s.up = c.up /\ s.serve_pending = c.serve_pending
      /\ s.done = c.done
  BY DEF Fit, IsState, Fields
<1> HIDE DEF s
<1>3. A \in Places(F)
  BY DEF Fit, PlacesOK, Places, IsBound
<1> HIDE DEF A
<1>4. Kept(c, s) /\ NumbersOK(s) /\ PlacesOK(s, F)
  BY <1>2, <1>3 DEF Fit, Kept, NumbersOK, PlacesOK
<1>5. Fit(s, F, 0)
  BY <1>4, KeptFit
<1>6. QED
  BY <1>1, <1>5, ServeFit

\* New contents of the queues, with j commits in hand instead of k.
LEMMA QueuesFit ==
  ASSUME NEW s, NEW F, NEW k \in Int, NEW j \in Int, Fit(s, F, k), NEW t, IsState(t),
         PlacesOK(t, F), NumbersOK(t), QueuesOK(t, F),
         t.wait_commit_cnt = s.wait_commit_cnt, Owed(t) + j = Owed(s) + k
  PROVE  Fit(t, F, j)
BY DEF Fit, Counted

LEMMA OwedType ==
  ASSUME NEW s, NEW F, QueuesOK(s, F), NumbersOK(s)
  PROVE  /\ CommitOps(s.wire) \in Int /\ CommitOps(s.retry) \in Int
         /\ Len(s.wait_coord) \in Int /\ Len(s.ops) \in Int /\ s.errs \in Int
BY CountType, LenProperties DEF QueuesOK, NumbersOK

LEMMA TakeReplyFit ==
  ASSUME NEW s, NEW F, Fit(s, F, 0), s.wire # <<>>
  PROVE  /\ Head(s.wire) \in AllRequests(F)
         /\ Fit([s EXCEPT !.wire = Tail(@)], F, One(Head(s.wire)))
<1> DEFINE r == Head(s.wire)
           Q == Tail(s.wire)
           t == [s EXCEPT !.wire = Tail(@)]
<1>1. /\ Q \in Seq(AllRequests(F)) /\ r \in AllRequests(F)
      /\ CommitOps(s.wire) = CommitOps(Q) + One(r) /\ CommitOps(Q) \in Nat
  BY CountTail, CountType DEF Fit, QueuesOK
<1>2. t = [s EXCEPT !.wire = Q]
  OBVIOUS
<1>3. One(r) \in Int
  BY DEF One
<1> HIDE DEF Q, r
<1>4. /\ IsState(t) /\ t.wire = Q /\ t.retry = s.retry /\ t.wait_coord = s.wait_coord
      /\ t.ops = s.ops /\ t.wait_commit_cnt = s.wait_commit_cnt /\ t.errs = s.errs
      /\ PlacesOK(t, F) /\ NumbersOK(t)
  BY <1>2 DEF Fit, IsState, Fields, PlacesOK, NumbersOK
<1> HIDE DEF t
<1>5. QueuesOK(t, F)
  BY <1>1, <1>4 DEF Fit, QueuesOK
<1>6. Owed(t) + One(r) = Owed(s) + 0
  <2>1. /\ CommitOps(t.wire) \in Int /\ CommitOps(t.retry) \in Int
        /\ Len(t.wait_coord) \in Int /\ Len(t.ops) \in Int /\ t.errs \in Int
    BY <1>4, <1>5, OwedType
  <2> DEFINE a == CommitOps(Q)
             b == CommitOps(s.retry)
             d == Len(s.wait_coord)
             e == Len(s.ops)
             g == s.errs
             x == One(r)
  <2>2. /\ a \in Int /\ b \in Int /\ d \in Int /\ e \in Int /\ g \in Int /\ x \in Int
        /\ Owed(t) = a + b + d + e + g /\ Owed(s) = (a + x) + b + d + e + g
    BY <1>1, <1>3, <1>4, <2>1 DEF Owed
  <2> HIDE DEF a, b, d, e, g, x
  <2>3. Owed(t) + x = Owed(s) + 0
    BY <2>2
  <2>4. QED
    BY <2>3 DEF x
<1>8. Fit(t, F, One(r))
  BY <1>3, <1>4, <1>5, <1>6, QueuesFit
<1>9. QED
  BY <1>1, <1>8 DEF t, r

LEMMA HandleReplyFit ==
  ASSUME NEW F, IsBound(F), Fit(c, F, 0), HandleReply
  PROVE  Fit(c', F, 0)
<1> DEFINE r == Head(c.wire)
           s == [c EXCEPT !.wire = Tail(@)]
<1>1. /\ c.wire # <<>>
      /\ \/ r.kind = "fetch" /\ c' = FetchResult(s, r)
         \/ r.kind # "fetch" /\ c' = CommitResult(s, r)
  BY Zenon DEF HandleReply
<1>2. r \in AllRequests(F) /\ Fit(s, F, One(r))
  BY <1>1, TakeReplyFit
<1> HIDE DEF r, s
<1>3. CASE r.kind = "fetch"
  <2>1. r \in Fetches(F) /\ One(r) = 0
    BY <1>2, <1>3 DEF AllRequests, Commits, One
  <2>2. Fit(s, F, 0)
    BY <1>2, <2>1
  <2>3. QED
    BY <1>1, <1>3, <2>1, <2>2, FetchResultFit
<1>4. CASE r.kind # "fetch"
  <2>1. r \in Commits(F) /\ r.kind = "commit"
    BY <1>2, <1>4 DEF AllRequests, Fetches, Commits
  <2>2. One(r) = 1
    BY <2>1 DEF One
  <2>3. Fit(s, F, 1)
    BY <1>2, <2>2
  <2>4. QED
    BY <1>1, <1>4, <2>1, <2>3, CommitResultFit
<1>5. QED
  BY <1>3, <1>4

LEMMA CommitEndFit ==
  ASSUME NEW F, IsBound(F), Fit(c, F, 0), HandleUnsentCommit \/ ExpireDeferred
  PROVE  Fit(c', F, 0)
<1> DEFINE s == [c EXCEPT !.errs = @ - 1]
           W == Tail(c.wait_coord)
           t == [c EXCEPT !.wait_coord = Tail(@)]
<1>1. /\ CommitOps(c.wire) \in Nat /\ CommitOps(c.retry) \in Nat
      /\ Len(c.wait_coord) \in Nat /\ Len(c.ops) \in Nat /\ c.errs \in Int
  BY CountType, LenProperties DEF Fit, QueuesOK, NumbersOK
<1>2. CASE HandleUnsentCommit
  <2>1. c' = CommitDone(s)
    BY <1>2 DEF HandleUnsentCommit
  <2>2. /\ IsState(s) /\ s.wire = c.wire /\ s.retry = c.retry /\ s.wait_coord = c.wait_coord
        /\ s.ops = c.ops /\ s.wait_commit_cnt = c.wait_commit_cnt /\ s.errs = c.errs + (-1)
        /\ PlacesOK(s, F) /\ NumbersOK(s)
    BY DEF Fit, IsState, Fields, PlacesOK, NumbersOK
  <2> HIDE DEF s
  <2>3. QueuesOK(s, F)
    BY <2>2 DEF Fit, QueuesOK
  <2>4. Owed(s) + 1 = Owed(c) + 0
    BY <1>1, <2>2 DEF Owed
  <2>6. Fit(s, F, 1)
    BY <2>2, <2>3, <2>4, QueuesFit
  <2>7. QED
    BY <2>1, <2>6, CommitDoneFit
<1>3. CASE ExpireDeferred
  <2>1. c' = CommitDone(t) /\ c.wait_coord # <<>>
    BY <1>3 DEF ExpireDeferred
  <2>2. W \in Seq(Commits(F)) /\ Len(W) = Len(c.wait_coord) - 1
    BY <2>1, CountTail DEF Fit, QueuesOK
  <2>3. t = [c EXCEPT !.wait_coord = W]
    OBVIOUS
  <2> HIDE DEF W
  <2>4. /\ IsState(t) /\ t.wire = c.wire /\ t.retry = c.retry /\ t.wait_coord = W
        /\ t.ops = c.ops /\ t.wait_commit_cnt = c.wait_commit_cnt /\ t.errs = c.errs
        /\ PlacesOK(t, F) /\ NumbersOK(t)
    BY <2>3 DEF Fit, IsState, Fields, PlacesOK, NumbersOK
  <2> HIDE DEF t
  <2>5. QueuesOK(t, F)
    BY <2>2, <2>4 DEF Fit, QueuesOK
  <2>6. Owed(t) + 1 = Owed(c) + 0
    BY <1>1, <2>2, <2>4 DEF Owed
  <2>8. Fit(t, F, 1)
    BY <2>4, <2>5, <2>6, QueuesFit
  <2>9. QED
    BY <2>1, <2>8, CommitDoneFit
<1>4. QED
  BY <1>2, <1>3

LEMMA StoredOffsetsType ==
  ASSUME NEW s, NEW F, IsBound(F), NEW k, Fit(s, F, k)
  PROVE  StoredOffsets(s) \in Lists(F)
<1> DEFINE l == StoredOffsets(s)
<1>1. DOMAIN s.all \subseteq Partitions
  BY ListFacts DEF Fit, PlacesOK
<1>2. /\ l = [p \in DOMAIN l |-> l[p]] /\ DOMAIN l = DOMAIN s.all
      /\ \A p \in DOMAIN l : l[p] = s.stored[p] \/ l[p] = INVALID
  BY DEF StoredOffsets
<1> HIDE DEF l
<1>3. \A p \in DOMAIN l : l[p] \in F[p]
  BY <1>1, <1>2 DEF Fit, PlacesOK, Places, IsBound
<1>4. l \in Lists(F)
  BY <1>1, <1>2, <1>3, ListFacts
<1>5. QED
  BY <1>4 DEF l

LEMMA TimersFit ==
  ASSUME NEW F, IsBound(F), Fit(c, F, 0), CommitTimer \/ CoordUp \/ Heartbeat \/ CoordDead
  PROVE  Fit(c', F, 0)
<1> DEFINE s == [c EXCEPT !.up = TRUE]
           t == Serve(c, {})
           u == [t EXCEPT !.serve_pending = FALSE]
           v == [c EXCEPT !.up = FALSE]
           o == StoredOffsets(c)
<1>1. c' = OffsetsCommit(c, o) \/ c' = Serve(s, {}) \/ c' = u \/ c' = v
  BY Zenon DEF CommitTimer, CoordUp, Heartbeat, CoordDead
<1>2. o \in Lists(F)
  BY StoredOffsetsType
<1>3. Fit(s, F, 0) /\ Fit(v, F, 0)
  BY DoneFit
<1>4. Fit(t, F, 0)
  BY ServeFit
<1> HIDE DEF s, t, v, o
<1>5. Fit(u, F, 0)
  BY <1>4, DoneFit
<1> HIDE DEF u
<1>6. Fit(OffsetsCommit(c, o), F, 0) /\ Fit(Serve(s, {}), F, 0)
  BY <1>2, <1>3, OffsetsCommitFit, ServeFit
<1>7. QED
  BY <1>1, <1>3, <1>5, <1>6

LEMMA ResendFit ==
  ASSUME NEW F, IsBound(F), Fit(c, F, 0), NEW i \in DOMAIN c.retry, Resend(i)
  PROVE  Fit(c', F, 0)
<1> DEFINE r == c.retry[i]
           W == Append(c.wire, r)
           Q == RemoveAt(c.retry, i)
           t == [c EXCEPT !.wire = W, !.retry = Q]
<1>1. c' = t
  BY DEF Resend
<1>2. c.wire \in Seq(AllRequests(F)) /\ c.retry \in Seq(AllRequests(F))
  BY DEF Fit, QueuesOK
<1>3. /\ Q \in Seq(AllRequests(F)) /\ r \in AllRequests(F)
      /\ CommitOps(c.retry) = CommitOps(Q) + One(r)
  BY <1>2, CountRemove
<1>4. W \in Seq(AllRequests(F)) /\ CommitOps(W) = CommitOps(c.wire) + One(r)
  BY <1>2, <1>3, AppendProperties, CountAppend
<1>5. One(r) \in Int
  BY DEF One
<1> HIDE DEF r, W, Q
<1>6. /\ IsState(t) /\ t.wire = W /\ t.retry = Q /\ t.wait_coord = c.wait_coord
      /\ t.ops = c.ops /\ t.wait_commit_cnt = c.wait_commit_cnt /\ t.errs = c.errs
      /\ PlacesOK(t, F) /\ NumbersOK(t)
  BY DEF Fit, IsState, Fields, PlacesOK, NumbersOK
<1> HIDE DEF t
<1>7. QueuesOK(t, F)
  BY <1>3, <1>4, <1>6 DEF Fit, QueuesOK
<1>8. Owed(t) + 0 = Owed(c) + 0
  <2> DEFINE a == CommitOps(c.wire)
             b == CommitOps(Q)
             d == Len(c.wait_coord)
             e == Len(c.ops)
             g == c.errs
             x == One(r)
  <2>1. a \in Int /\ d \in Int /\ e \in Int /\ g \in Int
    BY OwedType DEF Fit
  <2>2. b \in Int
    BY <1>3, CountType
  <2>3. Owed(t) = (a + x) + b + d + e + g /\ Owed(c) = a + (b + x) + d + e + g
    BY <1>3, <1>4, <1>6 DEF Owed
  <2>4. x \in Int
    BY <1>5
  <2> HIDE DEF a, b, d, e, g, x
  <2>5. QED
    BY <2>1, <2>2, <2>3, <2>4
<1>9. QED
  BY <1>1, <1>6, <1>7, <1>8, QueuesFit

LEMMA MoveDeferredFit ==
  ASSUME NEW F, IsBound(F), Fit(c, F, 0), MoveDeferred
  PROVE  Fit(c', F, 0)
<1> DEFINE Q == c.ops \o c.wait_coord
           E == <<>>
           t == [c EXCEPT !.ops = Q, !.wait_coord = E]
<1>1. c' = t
  BY DEF MoveDeferred
<1>2. c.ops \in Seq(Commits(F)) /\ c.wait_coord \in Seq(Commits(F))
  BY DEF Fit, QueuesOK
<1>3. Q \in Seq(Commits(F)) /\ Len(Q) = Len(c.ops) + Len(c.wait_coord)
  BY <1>2, ConcatProperties
<1>4. E \in Seq(Commits(F)) /\ Len(E) = 0
  BY EmptySeq
<1> HIDE DEF Q, E
<1>5. /\ IsState(t) /\ t.wire = c.wire /\ t.retry = c.retry /\ t.wait_coord = E
      /\ t.ops = Q /\ t.wait_commit_cnt = c.wait_commit_cnt /\ t.errs = c.errs
      /\ PlacesOK(t, F) /\ NumbersOK(t)
  BY DEF Fit, IsState, Fields, PlacesOK, NumbersOK
<1> HIDE DEF t
<1>6. QueuesOK(t, F)
  BY <1>3, <1>4, <1>5 DEF Fit, QueuesOK
<1>7. Owed(t) + 0 = Owed(c) + 0
  <2> DEFINE a == CommitOps(c.wire)
             b == CommitOps(c.retry)
             d == Len(c.wait_coord)
             e == Len(c.ops)
             g == c.errs
  <2>1. a \in Int /\ b \in Int /\ d \in Int /\ e \in Int /\ g \in Int
    BY OwedType DEF Fit
  <2>2. Owed(t) = a + b + 0 + (e + d) + g /\ Owed(c) = a + b + d + e + g
    BY <1>3, <1>4, <1>5 DEF Owed
  <2> HIDE DEF a, b, d, e, g
  <2>3. QED
    BY <2>1, <2>2
<1>8. QED
  BY <1>1, <1>5, <1>6, <1>7, QueuesFit

LEMMA ReprocessFit ==
  ASSUME NEW F, IsBound(F), Fit(c, F, 0), Reprocess
  PROVE  Fit(c', F, 0)
<1> DEFINE r == Head(c.ops)
           Q == Tail(c.ops)
           W == Append(c.wire, r)
           t == [c EXCEPT !.ops = Q, !.wire = W]
           u == [c EXCEPT !.ops = Q, !.errs = @ + 1]
           a == CommitOps(c.wire)
           b == CommitOps(c.retry)
           d == Len(c.wait_coord)
           e == Len(c.ops)
           g == c.errs
<1>1. c.ops # <<>> /\ (c' = t \/ c' = u)
  BY DEF Reprocess
<1>2. c.ops \in Seq(Commits(F)) /\ c.wire \in Seq(AllRequests(F))
  BY DEF Fit, QueuesOK
<1>3. Q \in Seq(Commits(F)) /\ Len(Q) = e - 1 /\ r \in Commits(F)
  BY <1>1, <1>2, CountTail
<1>4. r \in AllRequests(F) /\ One(r) = 1
  BY <1>3 DEF AllRequests, Commits, One
<1>5. W \in Seq(AllRequests(F)) /\ CommitOps(W) = a + 1
  BY <1>2, <1>4, AppendProperties, CountAppend
<1>6. a \in Int /\ b \in Int /\ d \in Int /\ e \in Int /\ g \in Int
  BY OwedType DEF Fit
<1> HIDE DEF r, W, Q
<1>7. /\ IsState(t) /\ t.wire = W /\ t.retry = c.retry /\ t.wait_coord = c.wait_coord
      /\ t.ops = Q /\ t.wait_commit_cnt = c.wait_commit_cnt /\ t.errs = c.errs
      /\ PlacesOK(t, F) /\ NumbersOK(t)
  BY DEF Fit, IsState, Fields, PlacesOK, NumbersOK
<1>8. /\ IsState(u) /\ u.wire = c.wire /\ u.retry = c.retry /\ u.wait_coord = c.wait_coord
      /\ u.ops = Q /\ u.wait_commit_cnt = c.wait_commit_cnt /\ u.errs = c.errs + 1
      /\ PlacesOK(u, F) /\ NumbersOK(u)
  <2> DEFINE h == c.errs + 1
  <2>1. u = [c EXCEPT !.ops = Q, !.errs = h] /\ h \in Int
    BY DEF Fit, NumbersOK
  <2> HIDE DEF h
  <2>2. /\ IsState(u) /\ u.wire = c.wire /\ u.retry = c.retry /\ u.wait_coord = c.wait_coord
        /\ u.ops = Q /\ u.wait_commit_cnt = c.wait_commit_cnt /\ u.errs = h
        /\ PlacesOK(u, F) /\ NumbersOK(u)
    BY <2>1 DEF Fit, IsState, Fields, PlacesOK, NumbersOK
  <2>3. QED
    BY <2>2 DEF h
<1> HIDE DEF t, u
<1>9. QueuesOK(t, F) /\ QueuesOK(u, F)
  BY <1>3, <1>5, <1>7, <1>8 DEF Fit, QueuesOK
<1>10. /\ Owed(t) = (a + 1) + b + d + (e - 1) + g /\ Owed(u) = a + b + d + (e - 1) + (g + 1)
       /\ Owed(c) = a + b + d + e + g
  BY <1>3, <1>5, <1>7, <1>8 DEF Owed
<1> HIDE DEF a, b, d, e, g
<1>11. Owed(t) + 0 = Owed(c) + 0 /\ Owed(u) + 0 = Owed(c) + 0
  BY <1>6, <1>10
<1>12. Fit(t, F, 0)
  BY <1>7, <1>9, <1>11, QueuesFit
<1>13. Fit(u, F, 0)
  BY <1>8, <1>9, <1>11, QueuesFit
<1>14. QED
  BY <1>1, <1>12, <1>13

\* The same requests with other replies.
LEMMA RepliedFit ==
  ASSUME NEW F, IsBound(F), Fit(c, F, 0), NEW W, DOMAIN W = DOMAIN c.wire,
         W = [i \in DOMAIN W |-> W[i]],
         \A i \in DOMAIN W : \/ W[i] = c.wire[i]
                             \/ \E x \in RepliesIn(F) : W[i] = [c.wire[i] EXCEPT !.reply = x],
         NEW b \in BOOLEAN, c' = [c EXCEPT !.up = b, !.wire = W]
  PROVE  Fit(c', F, 0)
<1> DEFINE t == [c EXCEPT !.up = b, !.wire = W]
<1>1. c.wire \in Seq(AllRequests(F)) /\ Len(c.wire) \in Nat /\ DOMAIN c.wire = 1 .. Len(c.wire)
  BY LenProperties DEF Fit, QueuesOK
<1>2. \A r \in AllRequests(F), x \in RepliesIn(F) :
        /\ [r EXCEPT !.reply = x] \in AllRequests(F)
        /\ [r EXCEPT !.reply = x].kind = r.kind
  BY DEF AllRequests, Fetches, Commits
<1>3. \A i \in DOMAIN W : W[i] \in AllRequests(F) /\ W[i].kind = c.wire[i].kind
  <2> SUFFICES ASSUME NEW i \in DOMAIN W
               PROVE  W[i] \in AllRequests(F) /\ W[i].kind = c.wire[i].kind
    OBVIOUS
  <2>1. c.wire[i] \in AllRequests(F)
    BY <1>1, ElementOfSeq
  <2>2. CASE W[i] = c.wire[i]
    BY <2>1, <2>2
  <2>3. CASE \E x \in RepliesIn(F) : W[i] = [c.wire[i] EXCEPT !.reply = x]
    BY <1>2, <2>1, <2>3
  <2>4. QED
    BY <2>2, <2>3
<1>4. W \in Seq(AllRequests(F))
  <2> DEFINE S == AllRequests(F)
             n == Len(c.wire)
  <2>1. n \in Nat /\ DOMAIN W = 1 .. n /\ \A i \in 1 .. n : W[i] \in S
    BY <1>1, <1>3
  <2> HIDE DEF S, n
  <2>2. W \in [1 .. n -> S]
    BY <2>1
  <2>3. QED
    BY <2>1, <2>2 DEF S
<1>5. CommitOps(W) = CommitOps(c.wire)
  BY <1>3, CountSame
<1>6. /\ IsState(t) /\ t.wire = W /\ t.retry = c.retry /\ t.wait_coord = c.wait_coord
      /\ t.ops = c.ops /\ t.wait_commit_cnt = c.wait_commit_cnt /\ t.errs = c.errs
      /\ PlacesOK(t, F) /\ NumbersOK(t)
  BY DEF Fit, IsState, Fields, PlacesOK, NumbersOK
<1>7. c' = t
  OBVIOUS
<1> HIDE DEF t
<1>8. QueuesOK(t, F)
  BY <1>4, <1>6 DEF Fit, QueuesOK
<1>9. Counted(t, 0)
  BY <1>5, <1>6 DEF Fit, Counted, Owed
<1>10. QED
  BY <1>6, <1>7, <1>8, <1>9 DEF Fit

LEMMA ReplyFit ==
  ASSUME NEW F, IsBound(F), Fit(c, F, 0), NEW i \in DOMAIN c.wire, NEW reply \in RepliesIn(F),
         Reply(i, reply)
  PROVE  Fit(c', F, 0)
<1> DEFINE W == [c.wire EXCEPT ![i].reply = reply]
<1>1. c.up \in BOOLEAN
  BY DEF Fit, NumbersOK
<1>2. c' = [c EXCEPT !.up = c.up, !.wire = W]
  <2>1. c' = [c EXCEPT !.wire = W]
    BY DEF Reply
  <2>2. [c EXCEPT !.wire = W] = [c EXCEPT !.up = c.up, !.wire = W]
    BY DEF Fit, IsState, Fields
  <2>3. QED
    BY <2>1, <2>2
<1>3. /\ DOMAIN W = DOMAIN c.wire /\ W = [j \in DOMAIN W |-> W[j]]
      /\ \A j \in DOMAIN W : \/ W[j] = c.wire[j]
                             \/ W[j] = [c.wire[j] EXCEPT !.reply = reply]
  OBVIOUS
<1> HIDE DEF W
<1>4. QED
  BY <1>1, <1>2, <1>3, RepliedFit

LEMMA NextRequest ==
  ASSUME NEW F, Fit(c, F, 0), Unanswered # {}
  PROVE  Next1 \in DOMAIN c.wire /\ c.wire[Next1] \in AllRequests(F)
<1>1. c.wire \in Seq(AllRequests(F)) /\ DOMAIN c.wire = 1 .. Len(c.wire)
  BY LenProperties DEF Fit, QueuesOK
<1>2. Unanswered \subseteq Nat
  BY <1>1 DEF Unanswered
<1>3. \E i \in Unanswered : \A j \in Unanswered : i <= j
  BY <1>2, LeastExists
<1>4. Next1 \in Unanswered
  BY <1>3 DEF Next1
<1>5. QED
  BY <1>1, <1>4, ElementOfSeq DEF Unanswered

LEMMA FetchReplyType ==
  ASSUME NEW F, IsBound(F), committed \in Places(F), NEW parts \in SUBSET Partitions,
         NEW bad, NEW e \in Errors
  PROVE  /\ FetchReply(parts, bad, e) \in RepliesIn(F)
         /\ FetchError(parts, e) \in RepliesIn(F)
<1> DEFINE o == [p \in parts |-> IF p \in bad THEN INVALID ELSE committed[p]]
           f == [p \in parts |-> IF p \in bad THEN e ELSE "none"]
           i == [p \in parts |-> INVALID]
           g == [p \in parts |-> e]
<1>1. o \in Lists(F)
  <2>1. \A p \in parts : o[p] \in F[p]
    BY DEF Places, IsBound
  <2>2. o = [p \in DOMAIN o |-> o[p]] /\ DOMAIN o = parts
    OBVIOUS
  <2> HIDE DEF o
  <2>3. QED
    BY <2>1, <2>2, ListFacts
<1>2. i \in Lists(F)
  <2>1. \A p \in parts : i[p] \in F[p]
    BY DEF IsBound
  <2>2. i = [p \in DOMAIN i |-> i[p]] /\ DOMAIN i = parts
    OBVIOUS
  <2> HIDE DEF i
  <2>3. QED
    BY <2>1, <2>2, ListFacts
<1>3. f \in ErrorLists /\ g \in ErrorLists
  <2>1. f \in [parts -> Errors] /\ g \in [parts -> Errors]
    BY DEF Errors
  <2> HIDE DEF f, g
  <2>2. QED
    BY <2>1 DEF ErrorLists
<1>4. "none" \in Errors
  BY DEF Errors
<1> HIDE DEF o, f, i, g
<1>5. [err |-> "none", offsets |-> o, errors |-> f] \in RepliesIn(F)
  BY <1>1, <1>3, <1>4 DEF RepliesIn
<1>6. [err |-> e, offsets |-> i, errors |-> g] \in RepliesIn(F)
  BY <1>2, <1>3 DEF RepliesIn
<1>7. QED
  BY <1>5, <1>6 DEF FetchReply, FetchError, o, f, i, g

LEMMA CommitReplyType ==
  ASSUME NEW F, IsBound(F), NEW e \in Errors
  PROVE  CommitReply(e) \in RepliesIn(F)
BY EmptyList DEF CommitReply, RepliesIn

LEMMA AnswerFetchFit ==
  ASSUME NEW F, IsBound(F), Fit(c, F, 0), committed \in Places(F), AnswerFetch
  PROVE  Fit(c', F, 0)
<1>1. Unanswered # {} /\ c.wire[Next1].kind = "fetch"
  BY DEF AnswerFetch
<1>2. Next1 \in DOMAIN c.wire /\ c.wire[Next1] \in AllRequests(F)
  BY <1>1, NextRequest
<1> DEFINE parts == c.wire[Next1].parts
<1>3. parts \in SUBSET Partitions
  BY <1>1, <1>2 DEF AllRequests, Fetches, Commits
<1>4. \/ \E bad : \E e \in Errors : Reply(Next1, FetchReply(parts, bad, e))
      \/ \E listed \in SUBSET Partitions, e \in Errors : Reply(Next1, FetchError(listed, e))
  <2>1. /\ "none" \in Errors /\ "UNSTABLE_OFFSET_COMMIT" \in Errors /\ "ERROR" \in Errors
        /\ "STALE_MEMBER_EPOCH" \in Errors
    BY DEF Errors
  <2>2. \A listed \in {{}, parts} : listed \in SUBSET Partitions
    BY <1>3
  <2>3. \/ Reply(Next1, FetchReply(parts, {}, "none"))
        \/ \E bad : Reply(Next1, FetchReply(parts, bad, "UNSTABLE_OFFSET_COMMIT"))
        \/ \E bad : Reply(Next1, FetchReply(parts, bad, "ERROR"))
        \/ \E listed \in {{}, parts} : Reply(Next1, FetchError(listed, "ERROR"))
        \/ \E listed \in {{}, parts} : Reply(Next1, FetchError(listed, "STALE_MEMBER_EPOCH"))
    BY Zenon DEF AnswerFetch
  <2> HIDE DEF parts
  <2>4. QED
    BY <2>1, <2>2, <2>3, Zenon
<1> HIDE DEF parts
<1>5. QED
  BY <1>2, <1>3, <1>4, FetchReplyType, ReplyFit

LEMMA AnswerCommitFit ==
  ASSUME NEW F, IsBound(F), Fit(c, F, 0), committed \in Places(F), AnswerCommit
  PROVE  Fit(c', F, 0) /\ committed' \in Places(F)
<1>1. Unanswered # {} /\ c.wire[Next1].kind = "commit"
  BY DEF AnswerCommit
<1>2. Next1 \in DOMAIN c.wire /\ c.wire[Next1] \in AllRequests(F)
  BY <1>1, NextRequest
<1> DEFINE o == c.wire[Next1].offsets
<1>3. o \in Lists(F)
  BY <1>1, <1>2 DEF AllRequests, Fetches, Commits
<1>4. \/ Reply(Next1, CommitReply("none")) /\ committed' = With(committed, o)
      \/ Reply(Next1, CommitReply("ERROR")) /\ committed' = committed
  BY Zenon DEF AnswerCommit
<1> HIDE DEF o
<1>5. "none" \in Errors /\ "ERROR" \in Errors
  BY DEF Errors
<1>6. CommitReply("none") \in RepliesIn(F) /\ CommitReply("ERROR") \in RepliesIn(F)
  BY <1>5, CommitReplyType
<1>7. Fit(c', F, 0)
  BY <1>2, <1>4, <1>6, ReplyFit
<1>8. With(committed, o) \in Places(F)
  BY <1>3, WithPlaces
<1>9. QED
  BY <1>4, <1>7, <1>8

LEMMA DisconnectFit ==
  ASSUME NEW F, IsBound(F), Fit(c, F, 0), Disconnect
  PROVE  Fit(c', F, 0)
<1> DEFINE x == CommitReply("TRANSPORT")
           W(k) == [i \in DOMAIN c.wire |->
                      IF i <= k THEN c.wire[i] ELSE [c.wire[i] EXCEPT !.reply = x]]
<1>1. PICK k, up : up \in {c.up, FALSE} /\ c' = [c EXCEPT !.up = up, !.wire = W(k)]
  BY Zenon DEF Disconnect
<1>2. up \in BOOLEAN
  BY <1>1 DEF Fit, NumbersOK
<1>3. x \in RepliesIn(F)
  <2>1. "TRANSPORT" \in Errors
    BY DEF Errors
  <2>2. QED
    BY <2>1, CommitReplyType
<1> HIDE DEF x
<1> DEFINE V == W(k)
<1>4. /\ DOMAIN V = DOMAIN c.wire /\ V = [j \in DOMAIN V |-> V[j]]
      /\ \A j \in DOMAIN V : V[j] = c.wire[j] \/ V[j] = [c.wire[j] EXCEPT !.reply = x]
  OBVIOUS
<1>5. c' = [c EXCEPT !.up = up, !.wire = V]
  BY <1>1
<1> HIDE DEF V
<1>6. QED
  BY <1>2, <1>3, <1>4, <1>5, RepliedFit

LEMMA StepFit ==
  ASSUME NEW F, IsBound(F), StartsIn(F), Fit(c, F, 0), committed \in Places(F), Next
  PROVE  \/ Fit(c', F, 0) /\ committed' \in Places(F) /\ delivered' = delivered
         \/ \E p \in Partitions : Consume(p) \/ OtherMember(p)
<1>1. CASE AppCall
  <2>1. Fit(c', F, 0)
    BY <1>1, AssignFit, UnassignFit, IncrementalAssignFit, IncrementalUnassignFit DEF AppCall
  <2>2. committed' = committed /\ delivered' = delivered
    BY <1>1, Zenon DEF AppCall, Assign, Unassign, IncrementalAssign, IncrementalUnassign, Call
  <2>3. QED
    BY <2>1, <2>2
<1>2. CASE MainThread
  <2>1. Fit(c', F, 0)
    BY <1>2, HandleReplyFit, CommitEndFit, PartitionStoppedFit, ResendFit, TimersFit,
       MoveDeferredFit, ReprocessFit DEF MainThread
  <2>2. committed' = committed /\ delivered' = delivered
    BY <1>2, Zenon DEF MainThread, HandleReply, HandleUnsentCommit, PartitionStopped, Resend,
       CoordUp, MoveDeferred, Reprocess, Heartbeat
  <2>3. QED
    BY <2>1, <2>2
<1>3. CASE AnswerFetch
  <2>1. committed' = committed /\ delivered' = delivered
    BY <1>3, Zenon DEF AnswerFetch
  <2>2. QED
    BY <1>3, <2>1, AnswerFetchFit
<1>4. CASE AnswerCommit
  <2>1. delivered' = delivered
    BY <1>4, Zenon DEF AnswerCommit
  <2>2. QED
    BY <1>4, <2>1, AnswerCommitFit
<1>5. CASE CommitTimer \/ CoordDead \/ ExpireDeferred \/ Disconnect
  <2>1. Fit(c', F, 0)
    BY <1>5, TimersFit, CommitEndFit, DisconnectFit
  <2>2. committed' = committed /\ delivered' = delivered
    BY <1>5, Zenon DEF CommitTimer, CoordDead, ExpireDeferred, Disconnect
  <2>3. QED
    BY <2>1, <2>2
<1>6. CASE \E p \in Partitions : Consume(p) \/ OtherMember(p)
  BY <1>6
<1>7. QED
  BY <1>1, <1>2, <1>3, <1>4, <1>5, <1>6, Zenon DEF Next, Coordinator

-----------------------------------------------------------------------------
(* Consuming: F grows to G. *)

LEMMA GrowLists ==
  ASSUME NEW F, NEW G, IsBound(F), IsBound(G), \A p \in Partitions : F[p] \subseteq G[p]
  PROVE  Lists(F) \subseteq Lists(G) /\ Places(F) \subseteq Places(G)
<1>1. ASSUME NEW l \in Lists(F) PROVE l \in Lists(G)
  <2>1. /\ l = [p \in DOMAIN l |-> l[p]] /\ DOMAIN l \subseteq Partitions
        /\ \A p \in DOMAIN l : l[p] \in F[p]
    BY ListFacts
  <2>2. \A p \in DOMAIN l : l[p] \in G[p]
    BY <2>1
  <2>3. QED
    BY <2>1, <2>2, ListFacts
<1>2. Places(F) \subseteq Places(G)
  BY DEF Places
<1>3. QED
  BY <1>1, <1>2

LEMMA GrowFit ==
  ASSUME NEW F, NEW G, IsBound(F), IsBound(G), \A p \in Partitions : F[p] \subseteq G[p],
         NEW s, NEW k, Fit(s, F, k)
  PROVE  Fit(s, G, k)
<1>1. Lists(F) \subseteq Lists(G) /\ Places(F) \subseteq Places(G)
  BY GrowLists
<1>2. RepliesIn(F) \subseteq RepliesIn(G)
  BY <1>1 DEF RepliesIn
<1>3. Fetches(F) \subseteq Fetches(G)
  BY <1>2 DEF Fetches
<1>4. Commits(F) \subseteq Commits(G)
  BY <1>1, <1>2 DEF Commits
<1>5. AllRequests(F) \subseteq AllRequests(G)
  BY <1>3, <1>4 DEF AllRequests
<1>6. Seq(Commits(F)) \subseteq Seq(Commits(G)) /\ Seq(AllRequests(F)) \subseteq Seq(AllRequests(G))
  BY <1>4, <1>5, SeqMonotonic
<1>7. QueuesOK(s, G)
  BY <1>6 DEF Fit, QueuesOK
<1>8. PlacesOK(s, G)
  BY <1>1 DEF Fit, PlacesOK
<1>9. QED
  BY <1>7, <1>8 DEF Fit

LEMMA ConsumeFit ==
  ASSUME NEW F, IsBound(F), NEW k, Fit(c, F, k), NEW p \in Partitions, NEW o \in F[p],
         c' = [c EXCEPT !.app_pos[p] = o, !.stored[p] = o]
  PROVE  Fit(c', F, k)
<1> DEFINE A == [c.app_pos EXCEPT ![p] = o]
           S == [c.stored EXCEPT ![p] = o]
           t == [c EXCEPT !.app_pos = A, !.stored = S]
<1>1. c' = t
  BY DEF Fit, IsState, Fields
<1>2. o \in Offsets
  BY DEF IsBound
<1>3. A \in Places(F) /\ S \in Places(F)
  BY <1>2 DEF Fit, PlacesOK, Places
<1> HIDE DEF A, S
<1>4. Kept(c, t) /\ NumbersOK(t) /\ PlacesOK(t, F)
  BY <1>3 DEF Fit, Kept, IsState, Fields, NumbersOK, PlacesOK
<1> HIDE DEF t
<1>5. Fit(t, F, k)
  BY <1>4, KeptFit
<1>6. QED
  BY <1>1, <1>5

-----------------------------------------------------------------------------
(* Types. *)

AnyOffset == [p \in Partitions |-> Offsets]

HistoryOK ==
  /\ delivered \in [Partitions -> SUBSET (0 .. LogEnd)]
  /\ acked \in [Partitions -> Offsets]
  /\ bound \in [calls : 0 .. MaxCalls, commits : 0 .. MaxCommits, faults : 0 .. MaxFaults]

TypeInv == Fit(c, AnyOffset, 0) /\ committed \in Places(AnyOffset) /\ HistoryOK

LEMMA AnyOffsetBound == IsBound(AnyOffset) /\ StartsIn(AnyOffset)
<1>1. STORED \in Offsets /\ INVALID \in Offsets
  BY DEF Offsets
<1>2. QED
  BY <1>1, AssignmentStartOffsets DEF IsBound, StartsIn, AnyOffset

LEMMA InitFit ==
  ASSUME NEW F, IsBound(F), Init
  PROVE  Fit(c, F, 0) /\ committed \in Places(F)
<1> DEFINE N == [p \in Partitions |-> INVALID]
           e == <<>>
<1>1. /\ c = ConsumerInit /\ committed = N
  BY DEF Init
<1>2. N \in Places(F)
  <2>1. \A p \in Partitions : INVALID \in F[p] /\ INVALID \in Offsets
    BY DEF IsBound
  <2>2. QED
    BY <2>1 DEF Places
<1>3. /\ e \in Lists(F) /\ e \in Seq(AllRequests(F)) /\ e \in Seq(Commits(F))
      /\ Len(e) = 0 /\ CommitOps(e) = 0
  BY EmptyList, EmptySeq, CountEmpty
<1>4. /\ c.wire = e /\ c.retry = e /\ c.wait_coord = e /\ c.ops = e
      /\ c.all = e /\ c.pending = e
      /\ c.stored = N /\ c.committed_pos = N /\ c.app_pos = N
      /\ c.wait_commit_cnt = 0 /\ c.errs = 0 /\ c.version = 0
      /\ c.up = TRUE /\ c.serve_pending = FALSE /\ c.done = TRUE
  BY <1>1 DEF ConsumerInit
<1>5. IsState(c)
  BY <1>1 DEF ConsumerInit, IsState, Fields
<1> HIDE DEF e, N
<1>6. QueuesOK(c, F)
  BY <1>3, <1>4 DEF QueuesOK
<1>7. PlacesOK(c, F)
  BY <1>2, <1>3, <1>4 DEF PlacesOK
<1>8. NumbersOK(c)
  <2>1. c.wait_commit_cnt \in Int /\ c.errs \in Int /\ c.version \in Nat
    BY <1>4
  <2>2. c.up \in BOOLEAN /\ c.serve_pending \in BOOLEAN /\ c.done \in BOOLEAN
    BY <1>4, Zenon
  <2>3. QED
    BY <2>1, <2>2, Zenon DEF NumbersOK
<1>9. Counted(c, 0)
  BY <1>3, <1>4 DEF Counted, Owed
<1>10. QED
  BY <1>1, <1>2, <1>5, <1>6, <1>7, <1>8, <1>9 DEF Fit

LEMMA InitTypes == Init => TypeInv
<1> SUFFICES ASSUME Init PROVE TypeInv
  OBVIOUS
<1>1. Fit(c, AnyOffset, 0) /\ committed \in Places(AnyOffset)
  BY InitFit, AnyOffsetBound
<1>2. INVALID \in Offsets
  BY DEF Offsets
<1>3. HistoryOK
  BY <1>2, AssignmentBounds DEF Init, HistoryOK
<1>4. QED
  BY <1>1, <1>3 DEF TypeInv

LEMMA HandleReplyAcked ==
  ASSUME NEW F, IsBound(F), Fit(c, F, 0), acked \in [Partitions -> Offsets], HandleReply
  PROVE  acked' \in [Partitions -> Offsets]
<1> DEFINE r == Head(c.wire)
<1>1. /\ c.wire # <<>>
      /\ \/ r.kind = "fetch" /\ acked' = acked
         \/ /\ r.kind # "fetch"
            /\ acked' = [p \in Partitions |->
                           IF r.reply.err = "none" /\ p \in DOMAIN r.offsets
                              /\ r.offsets[p] > acked[p]
                           THEN r.offsets[p] ELSE acked[p]]
  BY DEF HandleReply
<1>2. r \in AllRequests(F)
  BY <1>1, TakeReplyFit
<1> HIDE DEF r
<1>3. CASE r.kind # "fetch"
  <2>1. r.offsets \in Lists(F)
    BY <1>2, <1>3 DEF AllRequests, Fetches, Commits
  <2>2. DOMAIN r.offsets \subseteq Partitions /\ \A p \in DOMAIN r.offsets : r.offsets[p] \in F[p]
    BY <2>1, ListFacts
  <2>3. \A p \in DOMAIN r.offsets : r.offsets[p] \in Offsets
    BY <2>2 DEF IsBound
  <2>4. QED
    BY <1>1, <1>3, <2>3
<1>4. QED
  BY <1>1, <1>3

LEMMA NextHistory ==
  ASSUME TypeInv, Next
  PROVE  HistoryOK'
<1>1. /\ delivered \in [Partitions -> SUBSET (0 .. LogEnd)] /\ acked \in [Partitions -> Offsets]
      /\ bound \in [calls : 0 .. MaxCalls, commits : 0 .. MaxCommits, faults : 0 .. MaxFaults]
  BY DEF TypeInv, HistoryOK
<1> DEFINE Bounds == [calls : 0 .. MaxCalls, commits : 0 .. MaxCommits, faults : 0 .. MaxFaults]
<1>2. bound' \in Bounds
  <2>1. CASE bound' = bound
    BY <1>1, <2>1
  <2>2. CASE bound.calls < MaxCalls /\ bound' = [bound EXCEPT !.calls = @ + 1]
    BY <1>1, <2>2, AssignmentBounds
  <2>3. CASE bound.commits < MaxCommits /\ bound' = [bound EXCEPT !.commits = @ + 1]
    BY <1>1, <2>3, AssignmentBounds
  <2>4. CASE bound.faults < MaxFaults /\ bound' = [bound EXCEPT !.faults = @ + 1]
    BY <1>1, <2>4, AssignmentBounds
  <2>5. \/ bound' = bound
        \/ bound.calls < MaxCalls /\ bound' = [bound EXCEPT !.calls = @ + 1]
        \/ bound.commits < MaxCommits /\ bound' = [bound EXCEPT !.commits = @ + 1]
        \/ bound.faults < MaxFaults /\ bound' = [bound EXCEPT !.faults = @ + 1]
    <3>1. CASE AppCall
      BY <3>1, Zenon DEF AppCall, Assign, Unassign, IncrementalAssign, IncrementalUnassign, Call
    <3>2. CASE MainThread
      BY <3>2, Zenon DEF MainThread, HandleReply, HandleUnsentCommit, PartitionStopped, Resend,
         CoordUp, MoveDeferred, Reprocess, Heartbeat
    <3>3. CASE Coordinator
      BY <3>3, Zenon DEF Coordinator, AnswerFetch, AnswerCommit, Fault
    <3>4. CASE CommitTimer \/ CoordDead \/ ExpireDeferred \/ Disconnect
      BY <3>4, Zenon DEF CommitTimer, CoordDead, ExpireDeferred, Disconnect, Fault
    <3>5. CASE \E p \in Partitions : Consume(p) \/ OtherMember(p)
      BY <3>5, Zenon DEF Consume, OtherMember
    <3>6. QED
      BY <3>1, <3>2, <3>3, <3>4, <3>5, Zenon DEF Next
  <2>6. QED
    BY <2>1, <2>2, <2>3, <2>4, <2>5
<1>3. acked' \in [Partitions -> Offsets]
  <2>1. CASE HandleReply
    BY <1>1, <2>1, AnyOffsetBound, HandleReplyAcked DEF TypeInv
  <2>2. CASE ~HandleReply
    <3>1. acked' = acked
      <4>1. CASE AppCall
        BY <4>1, Zenon DEF AppCall, Assign, Unassign, IncrementalAssign, IncrementalUnassign,
           Call
      <4>2. CASE MainThread
        BY <2>2, <4>2, Zenon DEF MainThread, HandleUnsentCommit, PartitionStopped, Resend,
           CoordUp, MoveDeferred, Reprocess, Heartbeat
      <4>3. CASE Coordinator
        BY <4>3, Zenon DEF Coordinator, AnswerFetch, AnswerCommit
      <4>4. CASE CommitTimer \/ CoordDead \/ ExpireDeferred \/ Disconnect
        BY <4>4, Zenon DEF CommitTimer, CoordDead, ExpireDeferred, Disconnect
      <4>5. CASE \E p \in Partitions : Consume(p) \/ OtherMember(p)
        BY <4>5, Zenon DEF Consume, OtherMember
      <4>6. QED
        BY <4>1, <4>2, <4>3, <4>4, <4>5, Zenon DEF Next
    <3>2. QED
      BY <1>1, <3>1
  <2>3. QED
    BY <2>1, <2>2
<1>4. delivered' \in [Partitions -> SUBSET (0 .. LogEnd)]
  <2>1. CASE delivered' = delivered
    BY <1>1, <2>1
  <2>2. CASE \E p \in Partitions : Consume(p) \/ OtherMember(p)
    <3>1. PICK p \in Partitions : Consume(p) \/ OtherMember(p)
      BY <2>2
    <3>2. committed[p] \in Int /\ c.app_pos[p] \in Int
      BY AssignmentBounds DEF TypeInv, Fit, PlacesOK, Places, Offsets, BEGINNING, END, STORED,
         INVALID
    <3>3. \E o \in 0 .. LogEnd : delivered' = [delivered EXCEPT ![p] = @ \cup {o}]
      BY <3>1, <3>2, AssignmentBounds DEF Consume, OtherMember, IsLogical
    <3>4. QED
      BY <1>1, <3>3
  <2>3. QED
    BY <2>1, <2>2, StepFit, AnyOffsetBound DEF TypeInv
<1>5. QED
  BY <1>2, <1>3, <1>4 DEF HistoryOK

\* The offset a fetcher without a position starts at: auto.offset.reset is "earliest".
From(x) == IF IsLogical(x) THEN 0 ELSE x

LEMMA ConsumeFacts ==
  ASSUME NEW F, IsBound(F), Fit(c, F, 0), committed \in Places(F),
         NEW p \in Partitions, Consume(p) \/ OtherMember(p)
  PROVE  \E x \in F[p] :
           /\ From(x) < LogEnd
           /\ delivered' = [delivered EXCEPT ![p] = @ \cup {From(x)}]
           /\ \/ /\ c' = [c EXCEPT !.app_pos[p] = From(x) + 1, !.stored[p] = From(x) + 1]
                 /\ committed' = committed
              \/ c' = c /\ committed' = [committed EXCEPT ![p] = From(x) + 1]
<1>1. c.app_pos[p] \in F[p] /\ committed[p] \in F[p]
  BY DEF Fit, PlacesOK, Places
<1>2. CASE Consume(p)
  BY <1>1, <1>2 DEF Consume, From
<1>3. CASE OtherMember(p)
  BY <1>1, <1>3 DEF OtherMember, From
<1>4. QED
  BY <1>2, <1>3

LEMMA MoveFit ==
  ASSUME NEW F, NEW G, IsBound(F), IsBound(G), \A p \in Partitions : F[p] \subseteq G[p],
         Fit(c, F, 0), committed \in Places(F), NEW p \in Partitions, NEW o \in G[p],
         \/ c' = [c EXCEPT !.app_pos[p] = o, !.stored[p] = o] /\ committed' = committed
         \/ c' = c /\ committed' = [committed EXCEPT ![p] = o]
  PROVE  Fit(c', G, 0) /\ committed' \in Places(G)
<1>1. Fit(c, G, 0)
  BY GrowFit
<1>2. committed \in Places(G)
  BY GrowLists
<1>3. CASE c' = [c EXCEPT !.app_pos[p] = o, !.stored[p] = o] /\ committed' = committed
  BY <1>1, <1>2, <1>3, ConsumeFit
<1>4. CASE c' = c /\ committed' = [committed EXCEPT ![p] = o]
  <2>1. o \in Offsets
    BY DEF IsBound
  <2>2. committed' \in Places(G)
    BY <1>2, <1>4, <2>1 DEF Places
  <2>3. QED
    BY <1>1, <1>4, <2>2
<1>5. QED
  BY <1>3, <1>4

LEMMA FromRange ==
  ASSUME NEW x \in Offsets, From(x) < LogEnd
  PROVE  From(x) \in 0 .. LogEnd /\ From(x) + 1 \in 0 .. LogEnd
BY AssignmentBounds DEF Offsets, From, IsLogical, BEGINNING, END, STORED, INVALID

LEMMA NextTypes == TypeInv /\ [Next]_vars => TypeInv'
<1> SUFFICES ASSUME TypeInv, [Next]_vars PROVE TypeInv'
  OBVIOUS
<1> DEFINE A == AnyOffset
<1>1. Fit(c, A, 0) /\ committed \in Places(A) /\ IsBound(A) /\ StartsIn(A)
  BY AnyOffsetBound DEF TypeInv
<1>2. CASE UNCHANGED vars
  BY <1>2 DEF TypeInv, vars, HistoryOK
<1>3. CASE Next
  <2>1. HistoryOK'
    BY <1>3, NextHistory
  <2>2. Fit(c', A, 0) /\ committed' \in Places(A)
    <3>1. CASE \E p \in Partitions : Consume(p) \/ OtherMember(p)
      <4>1. PICK p \in Partitions : Consume(p) \/ OtherMember(p)
        BY <3>1
      <4>2. PICK x \in A[p] :
              /\ From(x) < LogEnd
              /\ delivered' = [delivered EXCEPT ![p] = @ \cup {From(x)}]
              /\ \/ /\ c' = [c EXCEPT !.app_pos[p] = From(x) + 1, !.stored[p] = From(x) + 1]
                    /\ committed' = committed
                 \/ c' = c /\ committed' = [committed EXCEPT ![p] = From(x) + 1]
        <5> HIDE DEF A
        <5>1. QED
          BY <1>1, <4>1, ConsumeFacts, Zenon
      <4>3. From(x) + 1 \in A[p]
        BY <4>2, FromRange DEF AnyOffset, Offsets
      <4> HIDE DEF A
      <4>4. QED
        BY <1>1, <4>2, <4>3, MoveFit
    <3>2. CASE ~ \E p \in Partitions : Consume(p) \/ OtherMember(p)
      <4> HIDE DEF A
      <4>1. QED
        BY <1>1, <1>3, <3>2, StepFit
    <3>3. QED
      BY <3>1, <3>2
  <2>3. AnyOffset' = AnyOffset
    BY DEF AnyOffset, Offsets
  <2>4. QED
    BY <2>1, <2>2, <2>3 DEF TypeInv
<1>4. QED
  BY <1>2, <1>3

LEMMA AnyRequests ==
  /\ Lists(AnyOffset) \subseteq PartitionLists /\ Places(AnyOffset) \subseteq [Partitions -> Offsets]
  /\ Seq(AllRequests(AnyOffset)) \subseteq Seq(Requests)
  /\ Seq(Commits(AnyOffset)) \subseteq Seq(Requests)
<1> DEFINE A == AnyOffset
<1>1. Lists(A) \subseteq PartitionLists /\ Places(A) \subseteq [Partitions -> Offsets]
  BY DEF Lists, Places
<1> HIDE DEF A
<1>2. RepliesIn(A) \subseteq Replies
  BY <1>1 DEF RepliesIn, Replies, ErrorLists
<1>3. Fetches(A) \subseteq Requests
  BY <1>2 DEF Fetches, Requests
<1>4. Commits(A) \subseteq Requests
  BY <1>1, <1>2 DEF Commits, Requests
<1>5. AllRequests(A) \subseteq Requests
  BY <1>3, <1>4 DEF AllRequests
<1>6. Seq(Commits(A)) \subseteq Seq(Requests) /\ Seq(AllRequests(A)) \subseteq Seq(Requests)
  BY <1>4, <1>5, SeqMonotonic
<1>7. QED
  BY <1>1, <1>6 DEF A

LEMMA TypesFromInv == TypeInv /\ Inv => TypeOK
<1> SUFFICES ASSUME TypeInv, Inv PROVE TypeOK
  OBVIOUS
<1> DEFINE A == AnyOffset
<1>1. Fit(c, A, 0) /\ committed \in Places(A) /\ HistoryOK /\ Sound(c, {})
  BY DEF TypeInv, Inv
<1>2. /\ Lists(A) \subseteq PartitionLists /\ Places(A) \subseteq [Partitions -> Offsets]
      /\ Seq(AllRequests(A)) \subseteq Seq(Requests) /\ Seq(Commits(A)) \subseteq Seq(Requests)
  BY AnyRequests
<1> HIDE DEF A
<1>3. /\ c.wire \in Seq(Requests) /\ c.retry \in Seq(Requests)
      /\ c.wait_coord \in Seq(Requests) /\ c.ops \in Seq(Requests)
  BY <1>1, <1>2 DEF Fit, QueuesOK
<1>4. /\ c.all \in PartitionLists /\ c.pending \in PartitionLists
      /\ c.stored \in [Partitions -> Offsets] /\ c.committed_pos \in [Partitions -> Offsets]
      /\ c.app_pos \in [Partitions -> Offsets]
  BY <1>1, <1>2 DEF Fit, PlacesOK
<1>5. /\ c.wait_commit_cnt \in Int /\ c.errs \in Int /\ c.version \in Nat
      /\ c.up \in BOOLEAN /\ c.serve_pending \in BOOLEAN /\ c.done \in BOOLEAN
  BY <1>1 DEF Fit, NumbersOK
<1>6. /\ c.queried \in SUBSET Partitions /\ c.started \in SUBSET Partitions
      /\ c.wait_stop \in SUBSET Partitions /\ c.assigned \in SUBSET Partitions
  BY <1>1 DEF Sound, ListsOK, FlagsOK
<1>7. c.started_cnt \in Int /\ c.wait_stop_cnt \in Int
  <2>1. IsFiniteSet(c.started) /\ IsFiniteSet(c.wait_stop)
    BY <1>6, AssignmentPartitions, FS_Subset
  <2>2. Cardinality(c.started) \in Nat /\ Cardinality(c.wait_stop) \in Nat
    BY <2>1, FS_CardinalityType
  <2>3. QED
    BY <1>1, <2>2 DEF Sound, CountersOK
<1>8. c.stops \in [Partitions -> Int]
  BY <1>1 DEF Sound, CountersOK
<1>9. c.asserts \in BOOLEAN
  BY <1>1, Zenon DEF Sound
<1>10. c = [f \in Fields |-> c[f]]
  BY <1>1 DEF Fit, IsState
<1>11. c \in ConsumerState
  BY <1>3, <1>4, <1>5, <1>6, <1>7, <1>8, <1>9, <1>10 DEF ConsumerState, Fields
<1>12. QED
  BY <1>1, <1>2, <1>11 DEF TypeOK, HistoryOK

\* Every variable holds values of its type: what the handlers, the coordinator
\* and the other members leave in the assignment, its queues of requests and the
\* group's offsets, for any number of partitions, calls and faults.
THEOREM TypeCorrect == Spec => []TypeOK
<1>1. QED
  BY InvInit, InvNext, InitTypes, NextTypes, TypesFromInv, PTL DEF Spec

\* wait_commit_cnt is at all times the number of commits that still get a result,
\* wherever each of them waits: no path of a commit (refused as empty, deferred,
\* retried, reprocessed, expired) forgets one or counts one twice.
THEOREM CommitsCounted == Spec => []CommitAccounting
<1>1. TypeInv => CommitAccounting
  <2>1. SUFFICES ASSUME TypeInv PROVE CommitAccounting
    OBVIOUS
  <2>2. Counted(c, 0) /\ QueuesOK(c, AnyOffset) /\ c.errs \in Int
    BY <2>1 DEF TypeInv, Fit, NumbersOK
  <2>3. /\ CommitOps(c.wire) \in Nat /\ CommitOps(c.retry) \in Nat
        /\ Len(c.wait_coord) \in Nat /\ Len(c.ops) \in Nat
    BY <2>2, CountType DEF QueuesOK
  <2>4. QED
    BY <2>2, <2>3 DEF Counted, Owed, CommitAccounting
<1>2. QED
  BY <1>1, InitTypes, NextTypes, PTL DEF Spec

-----------------------------------------------------------------------------
(* At least once. *)

\* The offsets below which everything is in d, the messages consumed.
Covered(d) == [p \in Partitions |-> {o \in Offsets : \A k \in 0 .. (o - 1) : k \in d[p]}]

\* Every offset that the consumer, its requests and replies, and the coordinator
\* hold for a partition is behind messages that have been consumed.
ReadInv == Fit(c, Covered(delivered), 0) /\ committed \in Places(Covered(delivered))

LEMMA LogicalOffsets ==
  ASSUME NEW o \in Offsets, o \notin Nat
  PROVE  0 .. (o - 1) = {}
<1>1. o \in Int /\ o < 0
  BY AssignmentBounds DEF Offsets, BEGINNING, END, STORED, INVALID
<1>2. QED
  BY <1>1

LEMMA CoveredBound == ASSUME NEW d PROVE IsBound(Covered(d))
<1>1. STORED \in Offsets /\ INVALID \in Offsets /\ STORED \notin Nat /\ INVALID \notin Nat
  BY DEF Offsets, STORED, INVALID
<1>2. QED
  BY <1>1, LogicalOffsets DEF IsBound, Covered

LEMMA CoveredStarts ==
  ASSUME NEW d, StartOffsets \cap Nat = {}
  PROVE  StartsIn(Covered(d))
BY LogicalOffsets, AssignmentStartOffsets DEF StartsIn, Covered

LEMMA ReadInit == Init => ReadInv
BY InitFit, CoveredBound DEF ReadInv

\* What is consumed at a covered offset covers the next one.
LEMMA CoveredGrows ==
  ASSUME NEW d, NEW e, NEW p \in Partitions, NEW x \in Covered(d)[p], From(x) < LogEnd,
         d \in [Partitions -> SUBSET (0 .. LogEnd)], e = [d EXCEPT ![p] = @ \cup {From(x)}]
  PROVE  /\ \A q \in Partitions : Covered(d)[q] \subseteq Covered(e)[q]
         /\ From(x) + 1 \in Covered(e)[p]
<1>1. x \in Offsets /\ \A k \in 0 .. (x - 1) : k \in d[p]
  BY DEF Covered
<1>2. From(x) \in 0 .. LogEnd /\ From(x) + 1 \in 0 .. LogEnd
  BY <1>1, FromRange
<1>3. \A k \in 0 .. (From(x) - 1) : k \in d[p]
  BY <1>1 DEF From, IsLogical
<1>4. From(x) \in e[p] /\ \A q \in Partitions : d[q] \subseteq e[q]
  OBVIOUS
<1> DEFINE y == From(x)
           z == y + 1
<1>5. \A k \in 0 .. y : k \in e[p]
  BY <1>2, <1>3, <1>4
<1>6. z \in Offsets /\ z - 1 = y
  BY <1>2 DEF Offsets
<1> HIDE DEF y, z
<1>7. z \in Covered(e)[p]
  BY <1>5, <1>6 DEF Covered
<1>8. \A q \in Partitions : Covered(d)[q] \subseteq Covered(e)[q]
  BY <1>4 DEF Covered
<1>9. QED
  BY <1>7, <1>8 DEF y, z

LEMMA ReadNext ==
  StartOffsets \cap Nat = {} => (ReadInv /\ TypeInv /\ [Next]_vars => ReadInv')
<1> SUFFICES ASSUME StartOffsets \cap Nat = {}, ReadInv, TypeInv, [Next]_vars PROVE ReadInv'
  OBVIOUS
<1>1. /\ Fit(c, Covered(delivered), 0) /\ committed \in Places(Covered(delivered))
      /\ IsBound(Covered(delivered)) /\ StartsIn(Covered(delivered))
  BY CoveredBound, CoveredStarts DEF ReadInv
<1>2. IsBound(Covered(delivered'))
  BY CoveredBound
<1>3. delivered \in [Partitions -> SUBSET (0 .. LogEnd)]
  BY DEF TypeInv, HistoryOK
<1>4. PICK F : F = Covered(delivered)
  OBVIOUS
<1>5. PICK G : G = Covered(delivered')
  OBVIOUS
<1>6. Fit(c, F, 0) /\ committed \in Places(F) /\ IsBound(F) /\ StartsIn(F) /\ IsBound(G)
  BY <1>1, <1>2, <1>4, <1>5
<1>7. CASE UNCHANGED vars
  BY <1>7 DEF ReadInv, Covered, Offsets, vars
<1>8. CASE Next
  <2>1. CASE \E p \in Partitions : Consume(p) \/ OtherMember(p)
    <3>1. PICK p \in Partitions : Consume(p) \/ OtherMember(p)
      BY <2>1
    <3>2. PICK x \in F[p] :
            /\ From(x) < LogEnd
            /\ delivered' = [delivered EXCEPT ![p] = @ \cup {From(x)}]
            /\ \/ /\ c' = [c EXCEPT !.app_pos[p] = From(x) + 1, !.stored[p] = From(x) + 1]
                  /\ committed' = committed
               \/ c' = c /\ committed' = [committed EXCEPT ![p] = From(x) + 1]
      BY <1>6, <3>1, ConsumeFacts, Zenon
    <3>3. /\ \A q \in Partitions : F[q] \subseteq G[q]
          /\ From(x) + 1 \in G[p]
      <4>1. x \in Covered(delivered)[p] /\ From(x) < LogEnd
        BY <1>4, <3>2
      <4>2. delivered' = [delivered EXCEPT ![p] = @ \cup {From(x)}]
        BY <3>2
      <4>3. /\ \A q \in Partitions : Covered(delivered)[q] \subseteq Covered(delivered')[q]
            /\ From(x) + 1 \in Covered(delivered')[p]
        BY <1>3, <4>1, <4>2, CoveredGrows
      <4>4. QED
        BY <1>4, <1>5, <4>3
    <3>4. Fit(c', G, 0) /\ committed' \in Places(G)
      BY <1>6, <3>2, <3>3, MoveFit
    <3>5. QED
      BY <1>5, <3>4 DEF ReadInv, Covered, Offsets
  <2>2. CASE ~ \E p \in Partitions : Consume(p) \/ OtherMember(p)
    <3>1. Fit(c', F, 0) /\ committed' \in Places(F) /\ delivered' = delivered
      BY <1>6, <1>8, <2>2, StepFit
    <3>2. F = Covered(delivered')
      BY <1>4, <3>1
    <3>3. QED
      BY <3>1, <3>2 DEF ReadInv, Covered, Offsets
  <2>3. QED
    BY <2>1, <2>2
<1>9. QED
  BY <1>7, <1>8

LEMMA ReadOnce == ReadInv => AtLeastOnce
BY DEF ReadInv, Places, Covered, AtLeastOnce

\* At least once: the group never commits past a message nobody consumed, with
\* any number of members, commits lost, deferred and retried, and partitions given
\* up and assigned again.  The application starts partitions at logical offsets
\* only: one that starts at an offset of its own choice skips what is before it.
THEOREM NothingSkipped ==
  ASSUME StartOffsets \cap Nat = {}
  PROVE  Spec => []AtLeastOnce
<1>1. ReadInv /\ TypeInv /\ [Next]_vars => ReadInv'
  BY ReadNext
<1>2. QED
  BY <1>1, ReadInit, InitTypes, NextTypes, ReadOnce, PTL DEF Spec
=============================================================================
