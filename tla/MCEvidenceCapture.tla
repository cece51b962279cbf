--------------------------- MODULE MCEvidenceCapture ---------------------------
EXTENDS EvidenceCapture, TLC

TwoRows == 1 .. 2

\* Two alarms of one second, the first of camera 10 and the second of camera 1, with
\* whose stem the name of the first one's file begins.
Nested == [f \in TwoRows |-> IF f = 1 THEN {1} ELSE TwoRows]

Together ==
    {{"upload", "reject"}, {"upload", "store"}, {"quick", "reject"}, {"db", "reject"},
     {"db", "store"}, {"error"}, {"expiry"}, {"crash", "store", "reject"}}
===============================================================================
