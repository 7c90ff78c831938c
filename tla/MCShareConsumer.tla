--------------------------- MODULE MCShareConsumer ---------------------------
\* Instances of ShareConsumer for TLC.
EXTENDS ShareConsumer, TLC

CONSTANTS b1, b2, p1, p2

\* Two records of one partition, or one of each of two with leaders of their own.
MCStarts ==
  { [leader |-> (p1 :> b1 @@ p2 :> b1), supply |-> (p1 :> 2 @@ p2 :> 0)],
    [leader |-> (p1 :> b1 @@ p2 :> b2), supply |-> (p1 :> 1 @@ p2 :> 1)] }
=============================================================================
