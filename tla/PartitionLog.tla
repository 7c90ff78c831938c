---------------------------- MODULE PartitionLog ----------------------------
(***************************************************************************)
(* The partition leader as the producer relies on it: a log, and for the   *)
(* producer writing to it the epoch and the last few batches, which the    *)
(* broker uses to tell a retry from a gap.  The broker is not part of this *)
(* repository; the operators below state what the Produce response handler *)
(* (rdkafka_request.c, rd_kafka_handle_idempotent_Produce_error and        *)
(* _success) expects of it, the five-request de-duplication window of      *)
(* rdkafka_idempotence.h included.                                         *)
(*                                                                         *)
(* A batch is a record with fields pid (the producer epoch), first_seq     *)
(* (base sequence) and msgs (the set of message ids, written in order).    *)
(***************************************************************************)
EXTENDS Integers, Sequences, FiniteSets, SequencesExt

CONSTANTS
  SeqSpace,   \* sequence numbers wrap at this value: 2^31 in the protocol
  Window      \* batches the broker remembers per producer: 5 in Apache Kafka

ASSUME SeqSpaceAssumption == SeqSpace \in Nat \ {0}
ASSUME WindowAssumption == Window \in Nat \ {0}

NoPid == -1   \* an invalid producer epoch: rd_kafka_pid_valid() is false

\* rd_kafka_seq_wrap(): sequence numbers are 31 bits wide and never negative.
SeqWrap(n) == n % SeqSpace

\* A partition nobody has produced to yet.
EmptyLog == [epoch |-> NoPid, window |-> <<>>, log |-> <<>>]

\* The messages of a batch in the order in which they are written.
InOrder(msgs) ==
  [i \in 1 .. Cardinality(msgs) |->
     CHOOSE m \in msgs : Cardinality({n \in msgs : n < m}) = i - 1]

Batch(r) == [first_seq |-> r.first_seq, cnt |-> Cardinality(r.msgs)]

\* The broker already holds this very batch.
IsDuplicate(k, r) == k.epoch = r.pid /\ Batch(r) \in Range(k.window)

\* The sequence number that continues the producer's series.  A new epoch,
\* and a producer the broker does not know, start over at 0.
ExpectedSeq(k, r) ==
  IF k.epoch # r.pid \/ k.window = <<>>
  THEN 0
  ELSE LET hi == k.window[Len(k.window)] IN SeqWrap(hi.first_seq + hi.cnt)

\* The partition after batch r has been appended to it.
Appended(k, r) ==
  LET win == Append(IF k.epoch = r.pid THEN k.window ELSE <<>>, Batch(r))
      ids == InOrder(r.msgs)
  IN [epoch  |-> r.pid,
      window |-> IF Len(win) > Window THEN Tail(win) ELSE win,
      log    |-> k.log \o [i \in 1 .. Len(ids) |->
                             [id |-> ids[i], epoch |-> r.pid]]]

(***************************************************************************)
(* The replies the leader may give to batch r, each with the state it      *)
(* leaves the partition in.  A duplicate is never written again; it is     *)
(* acknowledged, or refused with DUPLICATE_SEQUENCE_NUMBER.                *)
(***************************************************************************)
Replies(k, r) ==
  IF r.pid < k.epoch THEN
    { [resp |-> "INVALID_PRODUCER_EPOCH", k |-> k] }
  ELSE IF IsDuplicate(k, r) THEN
    { [resp |-> "OK", k |-> k], [resp |-> "DUPLICATE_SEQUENCE_NUMBER", k |-> k] }
  ELSE IF r.first_seq = ExpectedSeq(k, r) THEN
    { [resp |-> "OK", k |-> Appended(k, r)] }
  ELSE IF k.epoch = NoPid /\ k.log # <<>> THEN
    { [resp |-> "UNKNOWN_PRODUCER_ID", k |-> k] }
  ELSE
    { [resp |-> "OUT_OF_ORDER_SEQUENCE_NUMBER", k |-> k] }

\* Retention removed the producer's state together with its last records.
Forgotten(k) == [k EXCEPT !.epoch = NoPid, !.window = <<>>]
=============================================================================
