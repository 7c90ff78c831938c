--------------------------- MODULE ExactlyOnceLog ---------------------------
(***************************************************************************)
(* What the idempotent producer promises the application, without queues,  *)
(* requests, retries or epochs: the messages of a partition are appended   *)
(* to its log in the order they were produced, each at most once, and the  *)
(* delivery report of a message tells the truth about the log              *)
(* (INTRODUCTION.md, "Guarantees" and "Message persistence status").       *)
(***************************************************************************)
EXTENDS Integers, Sequences

CONSTANTS
  Partitions,   \* the partitions the application produces to
  MaxMsgs       \* bound: messages produced per partition

MsgIds == 1 .. MaxMsgs

VARIABLES
  produced,   \* per partition: id of the last message produced
  log,        \* per partition: the ids in the log
  report      \* per partition and message: its delivery report

vars == <<produced, log, report>>

Reports == {"none",            \* not reported yet
            "persisted",       \* delivered
            "not_persisted",   \* failed, and the application may produce it again
            "unknown"}         \* failed, and may be in the log all the same

InLog(p, m) == \E i \in DOMAIN log[p] : log[p][i] = m

Increasing(s) == \A i, j \in DOMAIN s : i < j => s[i] < s[j]

Runs == UNION {[1 .. k -> MsgIds] : k \in 1 .. MaxMsgs}

Init ==
  /\ produced = [p \in Partitions |-> 0]
  /\ log = [p \in Partitions |-> <<>>]
  /\ report = [p \in Partitions |-> [m \in MsgIds |-> "none"]]

Produce(p) ==
  /\ produced[p] < MaxMsgs
  /\ produced' = [produced EXCEPT ![p] = @ + 1]
  /\ UNCHANGED <<log, report>>

\* A run of produced messages is appended: later than all that are in the log,
\* and none of which the application was told that it is not persisted.
Write(p) ==
  \E s \in Runs :
    /\ Increasing(s)
    /\ \A i \in DOMAIN s :
         /\ s[i] <= produced[p]
         /\ report[p][s[i]] # "not_persisted"
         /\ \A j \in DOMAIN log[p] : log[p][j] < s[i]
    /\ log' = [log EXCEPT ![p] = @ \o s]
    /\ UNCHANGED <<produced, report>>

\* Some of the messages are reported, once; a purge reports several partitions.
Report ==
  /\ report' \in [Partitions -> [MsgIds -> Reports]]
  /\ \A p \in Partitions : \A m \in MsgIds : report'[p][m] # report[p][m] =>
       /\ m <= produced[p] /\ report[p][m] = "none"
       /\ report'[p][m] = "persisted" => InLog(p, m)
       /\ report'[p][m] = "not_persisted" => ~InLog(p, m)
  /\ UNCHANGED <<produced, log>>

Next == Report \/ \E p \in Partitions : Produce(p) \/ Write(p)

Spec == Init /\ [][Next]_vars

-----------------------------------------------------------------------------
(* What the specification above amounts to.                                *)

\* "Exactly-once - a message is only written to the log once", and "Ordered":
\* the ids in the log are strictly increasing.
OnceInOrder == \A p \in Partitions : Increasing(log[p])

\* The delivery reports tell the truth, also of what is written later.
HonestReports ==
  \A p \in Partitions : \A m \in MsgIds :
    /\ report[p][m] = "persisted" => InLog(p, m)
    /\ report[p][m] = "not_persisted" => ~InLog(p, m)
=============================================================================
