------------------------ MODULE ExactlyOnceLog_proofs ------------------------
(***************************************************************************)
(* The abstract specification gives the guarantees it is named after.      *)
(***************************************************************************)
EXTENDS ExactlyOnceLog, SequenceTheorems, TLAPS

TypeInv ==
  /\ log \in [Partitions -> Seq(MsgIds)]
  /\ report \in [Partitions -> [MsgIds -> Reports]]

Inv == TypeInv /\ OnceInOrder /\ HonestReports

\* A run that is increasing and later than an increasing log extends it.
LEMMA IncreasingConcat ==
  ASSUME NEW s \in Seq(MsgIds), NEW t \in Seq(MsgIds), Increasing(s), Increasing(t),
         \A i \in DOMAIN t : \A j \in DOMAIN s : s[j] < t[i]
  PROVE  Increasing(s \o t)
<1>1. /\ DOMAIN s = 1 .. Len(s) /\ DOMAIN t = 1 .. Len(t)
      /\ Len(s) \in Nat /\ Len(t) \in Nat
  BY LenProperties
<1>2. s \o t \in Seq(MsgIds) /\ Len(s \o t) = Len(s) + Len(t)
      /\ \A i \in 1 .. Len(s) + Len(t) :
           (s \o t)[i] = IF i <= Len(s) THEN s[i] ELSE t[i - Len(s)]
  BY ConcatProperties
<1>3. DOMAIN (s \o t) = 1 .. Len(s) + Len(t)
  BY <1>2, LenProperties
<1>4. ASSUME NEW i \in 1 .. Len(s) + Len(t), NEW j \in 1 .. Len(s) + Len(t), i < j
      PROVE  (s \o t)[i] < (s \o t)[j]
  <2>1. CASE j <= Len(s)
    BY <1>1, <1>2, <1>4, <2>1 DEF Increasing
  <2>2. CASE i <= Len(s) /\ ~(j <= Len(s))
    <3>1. i \in DOMAIN s /\ j - Len(s) \in DOMAIN t
      BY <1>1, <2>2
    <3>2. QED
      BY <1>2, <2>2, <3>1
  <2>3. CASE ~(i <= Len(s))
    <3>1. /\ i - Len(s) \in DOMAIN t /\ j - Len(s) \in DOMAIN t
          /\ i - Len(s) < j - Len(s) /\ ~(j <= Len(s))
      BY <1>1, <1>4, <2>3
    <3>2. QED
      BY <1>2, <2>3, <3>1 DEF Increasing
  <2>4. QED
    BY <2>1, <2>2, <2>3, <1>1
<1>5. QED
  BY <1>3, <1>4 DEF Increasing

\* The ids of a concatenation are those of its parts.
LEMMA InConcat ==
  ASSUME NEW s \in Seq(MsgIds), NEW t \in Seq(MsgIds), NEW m
  PROVE  (\E i \in DOMAIN (s \o t) : (s \o t)[i] = m)
           <=> (\E i \in DOMAIN s : s[i] = m) \/ (\E i \in DOMAIN t : t[i] = m)
<1>1. /\ DOMAIN s = 1 .. Len(s) /\ DOMAIN t = 1 .. Len(t)
      /\ Len(s) \in Nat /\ Len(t) \in Nat
  BY LenProperties
<1>2. s \o t \in Seq(MsgIds) /\ Len(s \o t) = Len(s) + Len(t)
      /\ \A i \in 1 .. Len(s) + Len(t) :
           (s \o t)[i] = IF i <= Len(s) THEN s[i] ELSE t[i - Len(s)]
  BY ConcatProperties
<1>3. DOMAIN (s \o t) = 1 .. Len(s) + Len(t)
  BY <1>2, LenProperties
<1>4. ASSUME NEW i \in DOMAIN s PROVE i \in DOMAIN (s \o t) /\ (s \o t)[i] = s[i]
  BY <1>1, <1>2, <1>3
<1>5. ASSUME NEW i \in DOMAIN t
      PROVE  i + Len(s) \in DOMAIN (s \o t) /\ (s \o t)[i + Len(s)] = t[i]
  <2>1. i + Len(s) \in 1 .. Len(s) + Len(t) /\ ~(i + Len(s) <= Len(s)) /\ i + Len(s) - Len(s) = i
    BY <1>1
  <2>2. QED
    BY <1>2, <1>3, <2>1
<1>6. ASSUME NEW i \in DOMAIN (s \o t)
      PROVE  \/ i \in DOMAIN s /\ (s \o t)[i] = s[i]
             \/ i - Len(s) \in DOMAIN t /\ (s \o t)[i] = t[i - Len(s)]
  BY <1>1, <1>2, <1>3
<1>7. QED
  BY <1>4, <1>5, <1>6

LEMMA InvInit == Init => Inv
<1> SUFFICES ASSUME Init PROVE Inv
  OBVIOUS
<1>1. TypeInv
  BY DEF Init, TypeInv, Reports
<1>2. \A p \in Partitions : log[p] = <<>>
  BY DEF Init
<1>3. OnceInOrder
  BY <1>2 DEF OnceInOrder, Increasing
<1>4. HonestReports
  BY DEF Init, HonestReports
<1>5. QED
  BY <1>1, <1>3, <1>4 DEF Inv

LEMMA InvWrite == ASSUME Inv, NEW p \in Partitions, Write(p) PROVE Inv'
<1>1. PICK s \in Runs :
        /\ Increasing(s)
        /\ \A i \in DOMAIN s : /\ report[p][s[i]] # "not_persisted"
                               /\ \A j \in DOMAIN log[p] : log[p][j] < s[i]
        /\ log' = [log EXCEPT ![p] = log[p] \o s]
        /\ UNCHANGED report
  BY DEF Write
<1>2. s \in Seq(MsgIds)
  <2>1. PICK k \in 1 .. MaxMsgs : s \in [1 .. k -> MsgIds]
    BY DEF Runs
  <2>2. k \in Nat
    OBVIOUS
  <2>3. QED
    BY <2>1, <2>2, SeqDef
<1>3. log[p] \in Seq(MsgIds) /\ Increasing(log[p])
  BY DEF Inv, TypeInv, OnceInOrder
<1>4. log[p] \o s \in Seq(MsgIds)
  BY <1>2, <1>3, ConcatProperties
<1>5. Increasing(log[p] \o s)
  BY <1>1, <1>2, <1>3, IncreasingConcat
<1>6. TypeInv'
  BY <1>1, <1>4 DEF Inv, TypeInv
<1>7. /\ log'[p] = log[p] \o s
      /\ \A q \in Partitions : q # p => log'[q] = log[q]
  BY <1>1 DEF Inv, TypeInv
<1>8. OnceInOrder'
  BY <1>5, <1>7 DEF Inv, OnceInOrder
<1>9. HonestReports'
  <2>1. \A q \in Partitions : q # p => (\A m : InLog(q, m)' <=> InLog(q, m))
    BY <1>7 DEF InLog
  <2>2. \A m : InLog(p, m)' <=> InLog(p, m) \/ \E i \in DOMAIN s : s[i] = m
    <3> SUFFICES ASSUME NEW m
                 PROVE  InLog(p, m)' <=> InLog(p, m) \/ \E i \in DOMAIN s : s[i] = m
      OBVIOUS
    <3>1. InLog(p, m)' <=> \E i \in DOMAIN (log[p] \o s) : (log[p] \o s)[i] = m
      BY <1>7 DEF InLog
    <3>2. InLog(p, m) <=> \E i \in DOMAIN log[p] : log[p][i] = m
      BY DEF InLog
    <3> DEFINE l == log[p]
    <3> HIDE DEF l
    <3>3. l \in Seq(MsgIds)
      BY <1>3 DEF l
    <3>4. (\E i \in DOMAIN (l \o s) : (l \o s)[i] = m)
            <=> (\E i \in DOMAIN l : l[i] = m) \/ (\E i \in DOMAIN s : s[i] = m)
      BY Zenon, <1>2, <3>3, InConcat
    <3>5. QED
      BY <3>1, <3>2, <3>4 DEF l
  <2>3. \A m \in MsgIds : report[p][m] = "not_persisted" => ~InLog(p, m)'
    BY <1>1, <2>2 DEF Inv, HonestReports
  <2>4. \A m \in MsgIds : report[p][m] = "persisted" => InLog(p, m)'
    BY <2>2 DEF Inv, HonestReports
  <2>5. QED
    BY <1>1, <2>1, <2>3, <2>4 DEF Inv, HonestReports
<1>10. QED
  BY <1>6, <1>8, <1>9 DEF Inv

LEMMA InvReport == ASSUME Inv, Report PROVE Inv'
<1>1. TypeInv'
  BY DEF Inv, TypeInv, Report
<1>2. OnceInOrder'
  BY DEF Inv, OnceInOrder, Report
<1>3. \A q \in Partitions, m \in MsgIds : InLog(q, m)' <=> InLog(q, m)
  BY DEF InLog, Report
<1>4. HonestReports'
  BY <1>3 DEF Inv, HonestReports, Report
<1>5. QED
  BY <1>1, <1>2, <1>4 DEF Inv

LEMMA InvNext == Inv /\ [Next]_vars => Inv'
<1> SUFFICES ASSUME Inv, [Next]_vars PROVE Inv'
  OBVIOUS
<1>1. ASSUME UNCHANGED <<log, report>> PROVE Inv'
  BY <1>1 DEF Inv, TypeInv, OnceInOrder, HonestReports, InLog
<1>2. QED
  BY <1>1, InvWrite, InvReport, Zenon DEF Next, Produce, vars

\* A producer that implements ExactlyOnceLog writes every message at most once
\* and in order, and its delivery reports can be relied on.
THEOREM Guarantees == Spec => [](OnceInOrder /\ HonestReports)
<1>1. Inv => OnceInOrder /\ HonestReports
  BY DEF Inv
<1>2. QED
  BY <1>1, InvInit, InvNext, PTL DEF Spec
=============================================================================
