------------------------------- MODULE KvMap -------------------------------
(***************************************************************************)
(* What a table of the key-value store (nos_kv.c) promises: a map of at    *)
(* most Capacity keys.  A put of a key the map has not is refused only     *)
(* when the map is full; a read returns the value of the last put that was *)
(* not followed by a delete.  Buckets, entries and the free stack do not   *)
(* appear: KvTable implements this specification with them.                *)
(***************************************************************************)
EXTENDS Naturals, FiniteSets

CONSTANTS
    Keys, Vals,
    Capacity,  \* how many keys the map holds
    None       \* no value

VARIABLES
    dict,      \* the map: a value or None for each key
    answer     \* what the last call was told: a value, None, "ok" or "busy"

mvars == <<dict, answer>>

MInit ==
    /\ dict = [k \in Keys |-> None]
    /\ answer = "ok"

Stored == {k \in Keys : dict[k] # None}

Store(k, v) ==
    /\ k \in Stored \/ Cardinality(Stored) < Capacity
    /\ dict' = [dict EXCEPT ![k] = v]
    /\ answer' = "ok"

Refuse ==
    /\ Cardinality(Stored) = Capacity
    /\ answer' = "busy"
    /\ UNCHANGED dict

Remove(k) ==
    /\ k \in Stored
    /\ dict' = [dict EXCEPT ![k] = None]
    /\ answer' = "ok"

Read(k) ==
    /\ answer' = dict[k]
    /\ UNCHANGED dict

MNext ==
    \/ \E k \in Keys : Read(k) \/ Remove(k) \/ \E v \in Vals : Store(k, v)
    \/ Refuse

MSpec == MInit /\ [][MNext]_mvars
=============================================================================
