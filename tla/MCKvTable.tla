----------------------------- MODULE MCKvTable -----------------------------
(* Small instances of KvTable for TLC. *)
EXTENDS KvTable

CONSTANTS t1, t2, k1, k2, k3, v1, v2

MCThreads == {t1, t2}
OneWriter == {t1}
TwoWriters == {t1, t2}
OneWatcher == {t2}
MCKeys == {k1, k2, k3}
MCVals == {v1, v2}
\* Two keys that collide and one that does not.
MCBucket == [k \in MCKeys |-> IF k = k3 THEN 2 ELSE 1]
=============================================================================
