---------------------------- MODULE KvTableProofs ----------------------------
(***************************************************************************)
(* What holds of KvTable for every hash, capacity, set of keys and number  *)
(* of readers, as long as one thread at a time puts and deletes: entries   *)
(* are conserved, pointers handed out stay good, subscribers are told what *)
(* is stored, and the table implements the bounded map.  At the end, what  *)
(* the buckets' locks give any number of writers.                          *)
(***************************************************************************)
EXTENDS KvTable, FiniteSetTheorems, SequenceTheorems, TLAPS

\* The callers' discipline that the table's free stack needs (run kv_writers
\* shows what happens without it).
OneWriter == \A t, u \in Writers : t = u

\* the places of a put or a delete that holds its bucket's lock
Changing == {"take", "link", "counted up", "give", "given", "counted down"}

OnlyWriters == \A t \in Threads : pc[t] # "idle" => t \in Writers

\* A put or a delete in progress has its bucket locked, and a bucket is locked
\* by a writer or by readers.
Locked ==
    /\ \A t \in Threads : pc[t] \in Changing =>
          job[t].key \in Keys /\ wlock[Bucket[job[t].key]] = t
    /\ \A b \in Buckets : wlock[b] = None \/ rlock[b] = {}
    /\ \A t \in Threads : handle[t] # None => t \in rlock[Bucket[handle[t].key]]

\* A chain holds entries of its bucket, one for each key.
ChainKeys ==
    /\ \A b \in Buckets, e \in Entries : InChain(b, e) =>
          record[e].key \in Keys /\ Bucket[record[e].key] = b /\ record[e].val \in Vals
    /\ \A b \in Buckets, d, e \in Entries :
          InChain(b, d) /\ InChain(b, e) /\ record[d].key = record[e].key => d = e

\* What a thread in the middle of a put or a delete knows.
Progress ==
    \A t \in Threads :
        /\ pc[t] = "take" => seen[t] = free_top /\ free_top >= 0
        /\ pc[t] \in {"take", "link"} => Missing(job[t].key) /\ job[t].val \in Vals
        /\ pc[t] \in {"link", "give"} => idx[t] \in Entries
        /\ pc[t] = "give" => seen[t] = free_top
        /\ pc[t] \in {"counted up", "counted down"} => seen[t] = used_count
        /\ pc[t] = "notify" =>
              job[t].key \in Keys /\ job[t].val \in Vals /\ job[t].val = Value(job[t].key)

\* used_count and free_top add up to the capacity, but for the entry that a put
\* or a delete has not counted yet.
Counted ==
    /\ (\A t \in Threads : pc[t] \notin {"link", "counted up", "given", "counted down"}) =>
          used_count + free_top = Capacity - 1
    /\ \A t \in Threads :
          /\ pc[t] \in {"link", "counted up"} => used_count + free_top = Capacity - 2
          /\ pc[t] \in {"given", "counted down"} => used_count + free_top = Capacity

\* the three parts of EntryInOnePlace
OnePlace ==
    \A e \in Entries :
        /\ InSomeChain(e) \/ OnStack(e) \/ Carried(e)
        /\ ~(InSomeChain(e) /\ OnStack(e)) /\ ~(OnStack(e) /\ Carried(e))
        /\ ~(Carried(e) /\ InSomeChain(e))
StackOnce == \A i, j \in 0 .. free_top : free_stack[i] = free_stack[j] => i = j
ChainOnce ==
    \A b, c \in Buckets : \A i \in DOMAIN chain[b], j \in DOMAIN chain[c] :
        chain[b][i] = chain[c][j] => b = c /\ i = j

\* Who was told something of a key, and not of its end, is a subscriber.
ToldSubscribed ==
    \A s \in Watchers, k \in Keys : told[s][k] # None => Subscribed(s, k)

IInv ==
    /\ TypeOK /\ OnlyWriters /\ Locked /\ ChainKeys /\ Progress /\ Counted
    /\ OnePlace /\ StackOnce /\ ChainOnce
    /\ PointerStable /\ ToldSubscribed /\ ToldLatest
-----------------------------------------------------------------------------
(* Lemmas about the model's operators. *)

\* The walk of a bucket's chain: a key's entry is in its bucket, holds a value,
\* and is the only one.
LEMMA FoundFacts ==
    ASSUME TypeOK, ChainKeys, NEW k \in Keys
    PROVE  /\ Bucket[k] \in Buckets
           /\ \A e \in Found(k) :
                 /\ e \in Entries /\ InChain(Bucket[k], e)
                 /\ record[e].key = k /\ record[e].val \in Vals
                 /\ Found(k) = {e} /\ Value(k) = record[e].val
           /\ Missing(k) <=> Value(k) = None
           /\ Value(k) \in Vals \cup {None}
<1>1. Bucket[k] \in Buckets
    BY DEF Buckets
<1>2. ASSUME NEW e \in Found(k)
      PROVE  /\ e \in Entries /\ InChain(Bucket[k], e)
             /\ record[e].key = k /\ record[e].val \in Vals
             /\ Found(k) = {e} /\ Value(k) = record[e].val
  <2>1. e \in Entries /\ InChain(Bucket[k], e) /\ record[e].key = k
    BY DEF Found, InChain
  <2>2. record[e].val \in Vals
    BY <1>1, <2>1 DEF ChainKeys
  <2>3. \A d \in Found(k) : d = e
    BY <1>1, <2>1 DEF ChainKeys, Found, InChain
  <2>4. Found(k) = {e}
    BY <2>3
  <2>5. Value(k) = record[e].val
    BY <2>4 DEF Value, Missing
  <2> QED
    BY <2>1, <2>2, <2>4, <2>5
<1>3. CASE Missing(k)
    BY <1>1, <1>2, <1>3 DEF Missing, Value
<1>4. CASE ~Missing(k)
  <2>1. PICK e \in Found(k) : TRUE
    BY <1>4 DEF Missing
  <2>2. Value(k) \in Vals /\ None \notin Vals
    BY <1>2, <2>1, TableAssumption
  <2> QED
    BY <1>1, <1>2, <1>4, <2>2
<1> QED
    BY <1>3, <1>4

\* A handle keeps its bucket's read lock.
LEMMA HandleFacts ==
    ASSUME TypeOK, Locked, NEW t \in Threads, handle[t] # None
    PROVE  /\ handle[t].key \in Keys /\ handle[t].entry \in Entries
           /\ Bucket[handle[t].key] \in Buckets
           /\ t \in rlock[Bucket[handle[t].key]]
<1>1. handle[t] \in [key : Keys, entry : Entries, val : Vals]
    BY DEF TypeOK
<1>2. handle[t].key \in Keys /\ handle[t].entry \in Entries
    BY <1>1
<1> QED
    BY <1>2 DEF Locked, Buckets

\* What the table's size says of its counters.
LEMMA Bounds ==
    ASSUME TypeOK
    PROVE  /\ Capacity \in Int /\ Capacity > 0
           /\ free_top \in Int /\ -1 <= free_top /\ free_top <= Capacity - 1
           /\ used_count \in Int /\ 0 <= used_count /\ used_count <= Capacity
           /\ \A e \in Entries : e \in Int
<1>1. free_top \in -1 .. Capacity - 1 /\ used_count \in 0 .. Capacity
    BY DEF TypeOK
<1> QED
    BY <1>1, TableAssumption DEF Entries

\* With one writer, a put or a delete in progress is alone.
LEMMA Alone ==
    ASSUME OneWriter, OnlyWriters, NEW t \in Threads, t \in Writers
    PROVE  \A u \in Threads : u # t => pc[u] = "idle"
BY DEF OneWriter, OnlyWriters

\* The contents of the table are its chains and records.
LEMMA StoreFrame ==
    ASSUME UNCHANGED <<chain, record>>
    PROVE  /\ \A b, e : InChain(b, e)' <=> InChain(b, e)
           /\ \A k : Found(k)' = Found(k)
           /\ \A k : Missing(k)' <=> Missing(k)
           /\ \A k : Value(k)' = Value(k)
           /\ ChainKeys => ChainKeys'
           /\ ChainOnce => ChainOnce'
<1>1. \A k : Found(k)' = Found(k)
    BY DEF Found
<1>2. ASSUME NEW k
      PROVE  (Missing(k)' <=> Missing(k)) /\ Value(k)' = Value(k)
  <2>1. record' = record /\ Found(k)' = Found(k)
    BY <1>1
  <2>2. Missing(k)' <=> Missing(k)
    BY <2>1 DEF Missing
  <2> QED
    BY <2>1, <2>2 DEF Value
<1>3. \A b, e : InChain(b, e)' <=> InChain(b, e)
    BY DEF InChain
<1> QED
    BY <1>1, <1>2, <1>3 DEF ChainKeys, ChainOnce

\* A removed entry leaves the others of its chain in their order.
LEMMA WithoutFacts ==
    ASSUME NEW S, NEW s \in Seq(S), NEW n \in DOMAIN s,
           \A i, j \in DOMAIN s : s[i] = s[j] => i = j
    PROVE  LET r == Without(s, s[n])
           IN  /\ r \in Seq(S) /\ DOMAIN r = 1 .. Len(s) - 1
               /\ \A i \in DOMAIN r : r[i] = IF i < n THEN s[i] ELSE s[i + 1]
<1>1. Len(s) \in Nat /\ DOMAIN s = 1 .. Len(s) /\ n \in 1 .. Len(s)
    BY LenProperties
<1>2. Without(s, s[n]) = [j \in 1 .. Len(s) - 1 |-> IF j < n THEN s[j] ELSE s[j + 1]]
  <2>1. n = CHOOSE j \in DOMAIN s : s[j] = s[n]
    OBVIOUS
  <2> QED
    BY <2>1 DEF Without
<1>3. Without(s, s[n]) \in [1 .. Len(s) - 1 -> S]
    BY <1>1, <1>2
<1>4. Without(s, s[n]) \in Seq(S)
    BY <1>1, <1>3, SeqDef
<1> QED
    BY <1>2, <1>4

\* A put entry comes first in its chain.
LEMMA LinkFacts ==
    ASSUME NEW S, NEW x \in S, NEW s \in Seq(S)
    PROVE  LET r == <<x>> \o s
           IN  /\ r \in Seq(S) /\ DOMAIN r = 1 .. Len(s) + 1
               /\ \A i \in DOMAIN r : r[i] = IF i = 1 THEN x ELSE s[i - 1]
OBVIOUS
-----------------------------------------------------------------------------
(* The invariant is inductive. *)

\* nos_kv_table_create sets up a table with every entry on the free stack.
LEMMA InitIInv == Init => IInv
<1> SUFFICES ASSUME Init PROVE IInv
    OBVIOUS
<1> USE TableAssumption DEF Init
<1>0. \A b \in Buckets : \A e : ~InChain(b, e)
    BY DEF InChain
<1>1. \A k \in Keys : Bucket[k] \in Buckets /\ Missing(k) /\ Value(k) = None
    BY <1>0 DEF Buckets, Missing, Value, Found, InChain
<1>2. TypeOK
    BY DEF TypeOK, Entries, Job, NoJob
<1>3. OnlyWriters /\ Locked /\ Progress /\ Counted
    BY DEF OnlyWriters, Locked, Progress, Counted, Changing
<1>4. ChainKeys /\ ChainOnce
    BY <1>0 DEF ChainKeys, ChainOnce
<1>5. OnePlace /\ StackOnce
    BY <1>0 DEF OnePlace, StackOnce, InSomeChain, OnStack, Carried, Entries
<1>6. PointerStable /\ ToldSubscribed /\ ToldLatest
    BY DEF PointerStable, ToldSubscribed, ToldLatest
<1> QED
    BY <1>2, <1>3, <1>4, <1>5, <1>6 DEF IInv

\* A call that only answers.
LEMMA AnswerStep ==
    ASSUME IInv, UNCHANGED <<locks, store, pool, locals, handle, told>>,
           answer' \in Vals \cup {None, "ok", "busy"}
    PROVE  IInv'
<1> USE DEF IInv, locks, store, pool, locals
<1>1. /\ UNCHANGED <<chain, record>> /\ UNCHANGED <<rlock, wlock, sub_list>>
      /\ UNCHANGED <<free_stack, free_top, used_count>>
      /\ UNCHANGED <<pc, job, idx, seen, notes>>
    OBVIOUS
<1>2. TypeOK'
    BY <1>1 DEF TypeOK
<1>3. OnlyWriters' /\ Locked' /\ Counted' /\ StackOnce'
    BY <1>1 DEF OnlyWriters, Locked, Counted, StackOnce
<1>4. ChainKeys' /\ ChainOnce' /\ Progress'
    BY <1>1, StoreFrame DEF Progress
<1>5. OnePlace'
    BY <1>1, StoreFrame DEF OnePlace, InSomeChain, OnStack, Carried
<1>6. PointerStable'
    BY <1>1, StoreFrame DEF PointerStable
<1>7. ToldSubscribed' /\ ToldLatest'
    BY <1>1, StoreFrame DEF ToldSubscribed, ToldLatest, Subscribed
<1> QED
    BY <1>2, <1>3, <1>4, <1>5, <1>6, <1>7

\* nos_kv_get_ptr and nos_kv_release_ptr: the pointer given out is to an entry
\* that the read lock now protects.
LEMMA PointerStep ==
    ASSUME IInv, NEW t \in Threads,
           (\E k \in Keys : GetPtr(t, k)) \/ ReleasePtr(t)
    PROVE  IInv'
<1> USE DEF IInv, store, pool, locals, results
<1>1. /\ UNCHANGED <<chain, record>> /\ UNCHANGED <<wlock, sub_list>>
      /\ UNCHANGED <<free_stack, free_top, used_count>>
      /\ UNCHANGED <<pc, job, idx, seen, notes, answer, told>>
    BY DEF GetPtr, ReleasePtr
<1>2. OnlyWriters' /\ Counted' /\ StackOnce'
    BY <1>1 DEF OnlyWriters, Counted, StackOnce
<1>3. ChainKeys' /\ ChainOnce' /\ Progress'
    BY <1>1, StoreFrame DEF Progress
<1>4. OnePlace'
    BY <1>1, StoreFrame DEF OnePlace, InSomeChain, OnStack, Carried
<1>5. ToldSubscribed' /\ ToldLatest'
    BY <1>1, StoreFrame DEF ToldSubscribed, ToldLatest, Subscribed
<1>6. TypeOK' /\ Locked' /\ PointerStable'
  <2>1. ASSUME NEW k \in Keys, GetPtr(t, k)
        PROVE  TypeOK' /\ Locked' /\ PointerStable'
    <3>1. PICK e \in Found(k) :
            handle' = [handle EXCEPT ![t] = [key |-> k, entry |-> e, val |-> record[e].val]]
      BY <2>1 DEF GetPtr
    <3>2. /\ rlock' = [rlock EXCEPT ![Bucket[k]] = @ \cup {t}]
          /\ wlock[Bucket[k]] = None /\ handle[t] = None
      BY <2>1 DEF GetPtr, CanRead
    <3>3. /\ Bucket[k] \in Buckets /\ e \in Entries /\ InChain(Bucket[k], e)
          /\ record[e].key = k /\ record[e].val \in Vals
      BY FoundFacts
    <3>4. TypeOK'
      <4>1. rlock' \in [Buckets -> SUBSET Threads]
        BY <3>2, <3>3 DEF TypeOK
      <4>2. handle' \in [Threads -> [key : Keys, entry : Entries, val : Vals] \cup {None}]
        BY <3>1, <3>3 DEF TypeOK
      <4> QED
        BY <1>1, <4>1, <4>2 DEF TypeOK
    <3>5. Locked'
      <4>1. \A u \in Threads : handle'[u] # None => u \in rlock'[Bucket[handle'[u].key]]
        <5>1. handle'[t].key = k /\ t \in rlock'[Bucket[k]]
          BY <3>1, <3>2, <3>3 DEF TypeOK
        <5>2. ASSUME NEW u \in Threads, u # t, handle'[u] # None
              PROVE  u \in rlock'[Bucket[handle'[u].key]]
          <6>1. handle'[u] = handle[u]
            BY <3>1, <5>2 DEF TypeOK
          <6>2. Bucket[handle[u].key] \in Buckets /\ u \in rlock[Bucket[handle[u].key]]
            BY <5>2, <6>1, HandleFacts
          <6> QED
            BY <3>2, <6>1, <6>2 DEF TypeOK
        <5> QED
          BY <5>1, <5>2
      <4>2. \A b \in Buckets : wlock[b] = None \/ rlock'[b] = {}
        BY <3>1, <3>2, <3>3 DEF Locked, TypeOK
      <4> QED
        BY <1>1, <4>1, <4>2 DEF Locked
    <3>6. record[e] = [key |-> k, val |-> record[e].val]
      BY <3>3 DEF TypeOK, Job
    <3>7. PointerStable'
      BY <1>1, <3>1, <3>3, <3>6, StoreFrame DEF PointerStable, TypeOK
    <3> QED
      BY <3>4, <3>5, <3>7
  <2>2. ASSUME ReleasePtr(t)
        PROVE  TypeOK' /\ Locked' /\ PointerStable'
    <3>1. /\ rlock' = [rlock EXCEPT ![Bucket[handle[t].key]] = @ \ {t}]
          /\ handle' = [handle EXCEPT ![t] = None] /\ handle[t] # None
      BY <2>2 DEF ReleasePtr
    <3>2. TypeOK'
      BY <1>1, <3>1 DEF TypeOK
    <3>3. Locked'
      <4>1. \A u \in Threads : handle'[u] # None => u \in rlock'[Bucket[handle'[u].key]]
        <5>1. ASSUME NEW u \in Threads, handle'[u] # None
              PROVE  u \in rlock'[Bucket[handle'[u].key]]
          <6>1. handle'[u] = handle[u] /\ u # t
            BY <3>1, <5>1 DEF TypeOK
          <6>2. Bucket[handle[u].key] \in Buckets /\ u \in rlock[Bucket[handle[u].key]]
            BY <5>1, <6>1, HandleFacts
          <6> QED
            BY <3>1, <6>1, <6>2 DEF TypeOK
        <5> QED
          BY <5>1
      <4>2. \A b \in Buckets : wlock[b] = None \/ rlock'[b] = {}
        BY <3>1 DEF Locked, TypeOK, Buckets
      <4> QED
        BY <1>1, <4>1, <4>2 DEF Locked
    <3>4. PointerStable'
      BY <1>1, <3>1, StoreFrame DEF PointerStable, TypeOK
    <3> QED
      BY <3>2, <3>3, <3>4
  <2> QED
    BY <2>1, <2>2
<1> QED
    BY <1>2, <1>3, <1>4, <1>5, <1>6

\* nos_kv_subscribe and nos_kv_unsubscribe.
LEMMA SubscribeStep ==
    ASSUME IInv, NEW t \in Threads, NEW k \in Keys,
           Subscribe(t, k) \/ Unsubscribe(t, k)
    PROVE  IInv'
<1> USE DEF IInv, locks, pool, locals
<1>1. /\ UNCHANGED <<chain, record>> /\ UNCHANGED <<rlock, wlock>>
      /\ UNCHANGED <<free_stack, free_top, used_count>>
      /\ UNCHANGED <<pc, job, idx, seen, notes, handle, answer>>
      /\ t \in Watchers
    BY DEF Subscribe, Unsubscribe, results
<1>2. OnlyWriters' /\ Locked' /\ Counted' /\ StackOnce'
    BY <1>1 DEF OnlyWriters, Locked, Counted, StackOnce
<1>3. ChainKeys' /\ ChainOnce' /\ Progress'
    BY <1>1, StoreFrame DEF Progress
<1>4. OnePlace'
    BY <1>1, StoreFrame DEF OnePlace, InSomeChain, OnStack, Carried
<1>5. PointerStable'
    BY <1>1, StoreFrame DEF PointerStable
<1>6. PICK e \in Found(k) :
        \/ Subscribe(t, k) /\ sub_list' = [sub_list EXCEPT ![e] = @ \cup {t}]
        \/ Unsubscribe(t, k) /\ sub_list' = [sub_list EXCEPT ![e] = @ \ {t}]
    BY DEF Subscribe, Unsubscribe
<1>7. e \in Entries /\ record[e].key = k
    BY FoundFacts
<1>8. /\ told' \in [Watchers -> [Keys -> Vals \cup {None}]]
      /\ sub_list' \in [Entries -> SUBSET Threads]
      /\ \A s \in Watchers, j \in Keys :
            \/ told'[s][j] = told[s][j]
            \/ Unsubscribe(t, k) /\ s = t /\ j = k /\ told'[s][j] = None
      /\ \A s \in Watchers, d \in Entries : s \in sub_list[d] =>
            s \in sub_list'[d] \/ (Unsubscribe(t, k) /\ s = t /\ d = e)
  <2>1. CASE Subscribe(t, k) /\ sub_list' = [sub_list EXCEPT ![e] = @ \cup {t}]
    <3>1. told' = told
      BY <2>1 DEF Subscribe, results
    <3> QED
      BY <1>7, <2>1, <3>1 DEF TypeOK
  <2>2. CASE Unsubscribe(t, k) /\ sub_list' = [sub_list EXCEPT ![e] = @ \ {t}]
    <3>1. told' = [told EXCEPT ![t][k] = None]
      BY <2>2 DEF Unsubscribe
    <3> QED
      BY <1>1, <1>7, <2>2, <3>1 DEF TypeOK
  <2> QED
    BY <1>6, <2>1, <2>2
<1>9. TypeOK' /\ ToldSubscribed'
  <2>2. TypeOK'
    BY <1>1, <1>8 DEF TypeOK
  <2>3. ASSUME NEW s \in Watchers, NEW j \in Keys, told'[s][j] # None
        PROVE  \E d \in Found(j) : s \in sub_list'[d]
    <3>1. told[s][j] # None /\ ~(Unsubscribe(t, k) /\ s = t /\ j = k)
      <4>1. ASSUME Unsubscribe(t, k), s = t, j = k PROVE told'[s][j] = None
        BY <1>1, <4>1 DEF Unsubscribe, TypeOK
      <4> QED
        BY <1>8, <2>3, <4>1
    <3>2. PICK d \in Found(j) : s \in sub_list[d]
      BY <3>1 DEF ToldSubscribed, Subscribed
    <3>3. d \in Entries /\ record[d].key = j
      BY FoundFacts
    <3>4. s \in sub_list'[d]
      BY <1>7, <1>8, <3>1, <3>2, <3>3
    <3> QED
      BY <3>4
  <2>4. ToldSubscribed'
    BY <1>1, <2>3, StoreFrame DEF ToldSubscribed, Subscribed
  <2> QED
    BY <2>2, <2>4
<1>10. ToldLatest'
    BY <1>1, <1>8, StoreFrame DEF ToldLatest
<1> QED
    BY <1>2, <1>3, <1>4, <1>5, <1>9, <1>10

\* nos_kv_put of a key that is there: nobody holds a pointer to the entry, and
\* who was told the old value is about to be told the new one.
LEMMA UpdateStep ==
    ASSUME OneWriter, IInv, NEW t \in Threads, NEW k \in Keys, NEW v \in Vals,
           PutUpdate(t, k, v)
    PROVE  IInv' /\ \A j \in Keys : Value(j)' = IF j = k THEN v ELSE Value(j)
<1> USE DEF IInv
<1>1. /\ UNCHANGED <<rlock, wlock, chain, sub_list, handle, told>>
      /\ UNCHANGED <<free_stack, free_top, used_count>> /\ answer' = "ok"
      /\ t \in Writers /\ wlock[Bucket[k]] = None /\ rlock[Bucket[k]] = {}
    BY DEF PutUpdate, MayWrite, CanWrite, locks, pool
<1>2. PICK e \in Found(k) :
        /\ record' = [record EXCEPT ![e].val = v]
        /\ \/ sub_list[e] = {} /\ UNCHANGED locals
           \/ /\ sub_list[e] # {}
              /\ pc' = [pc EXCEPT ![t] = "notify"]
              /\ notes' = [notes EXCEPT ![t] = sub_list[e]]
              /\ job' = [job EXCEPT ![t] = [key |-> k, val |-> v]]
              /\ UNCHANGED <<idx, seen>>
    BY DEF PutUpdate, Goto
<1>3. /\ e \in Entries /\ InChain(Bucket[k], e) /\ record[e].key = k
      /\ Found(k) = {e} /\ Bucket[k] \in Buckets
    BY FoundFacts
<1>4. \A u \in Threads : pc[u] = "idle"
  <2>1. pc[t] = "idle"
    BY DEF PutUpdate, MayWrite
  <2> QED
    BY <1>1, <2>1, Alone
<1>5. /\ record' \in [Entries -> Job]
      /\ \A d \in Entries : /\ record'[d].key = record[d].key
                            /\ d # e => record'[d] = record[d]
      /\ record'[e].val = v
  <2> DEFINE r == [record[e] EXCEPT !.val = v]
  <2>1. record[e] \in [key : Keys \cup {None}, val : Vals \cup {None}]
    BY <1>3 DEF TypeOK, Job
  <2>2. r \in Job /\ r.key = record[e].key /\ r.val = v
    BY <2>1 DEF Job
  <2>3. record' = [record EXCEPT ![e] = r]
    BY <1>2
  <2> HIDE DEF r
  <2> QED
    BY <1>3, <2>2, <2>3 DEF TypeOK
<1>6. /\ \A b, d : InChain(b, d)' <=> InChain(b, d)
      /\ \A j \in Keys : Found(j)' = Found(j)
  <2>1. \A b, d : InChain(b, d)' <=> InChain(b, d)
    BY <1>1 DEF InChain
  <2>2. \A j \in Keys : Found(j)' = Found(j)
    BY <1>1, <1>5 DEF Found
  <2> QED
    BY <2>1, <2>2
<1>7. ChainKeys' /\ ChainOnce'
  <2>1. ChainKeys'
    <3>1. \A d \in Entries : record'[d].val \in {record[d].val, v}
      BY <1>5
    <3> QED
      BY <1>5, <1>6, <3>1 DEF ChainKeys
  <2>2. ChainOnce'
    BY <1>1 DEF ChainOnce
  <2> QED
    BY <2>1, <2>2
<1>8. TypeOK'
  <2>1. sub_list[e] \subseteq Threads
    BY <1>3 DEF TypeOK
  <2>2. [key |-> k, val |-> v] \in Job
    BY DEF Job
  <2>3. /\ pc' \in [Threads -> {"idle", "notify", "take", "link", "counted up",
                                 "give", "given", "counted down"}]
        /\ job' \in [Threads -> Job] /\ notes' \in [Threads -> SUBSET Threads]
        /\ UNCHANGED <<idx, seen>>
    <3>1. CASE UNCHANGED locals
      BY <3>1 DEF TypeOK, locals
    <3>2. CASE ~UNCHANGED locals
      <4>1. /\ pc' = [pc EXCEPT ![t] = "notify"]
            /\ notes' = [notes EXCEPT ![t] = sub_list[e]]
            /\ job' = [job EXCEPT ![t] = [key |-> k, val |-> v]]
            /\ UNCHANGED <<idx, seen>>
        BY <1>2, <3>2
      <4>2. pc' \in [Threads -> {"idle", "notify", "take", "link", "counted up",
                                 "give", "given", "counted down"}]
        BY <4>1 DEF TypeOK
      <4>3. job' \in [Threads -> Job]
        BY <4>1, <2>2 DEF TypeOK
      <4>4. notes' \in [Threads -> SUBSET Threads]
        BY <4>1, <2>1 DEF TypeOK
      <4> QED
        BY <4>1, <4>2, <4>3, <4>4
    <3> QED
      BY <3>1, <3>2
  <2> QED
    BY <1>1, <1>5, <2>3 DEF TypeOK
<1>9. \A j \in Keys : Value(j)' = IF j = k THEN v ELSE Value(j)
  <2>1. Value(k)' = v
    <3>1. TypeOK' /\ ChainKeys' /\ e \in Found(k)'
      BY <1>3, <1>6, <1>7, <1>8
    <3>2. (CHOOSE d \in Found(k)' : TRUE) = e /\ ~Missing(k)'
      BY <1>3, <1>6 DEF Missing
    <3> QED
      BY <1>5, <3>2 DEF Value
  <2>2. ASSUME NEW j \in Keys, j # k
        PROVE  Value(j)' = Value(j)
    <3>1. Missing(j)' <=> Missing(j)
      BY <1>6 DEF Missing
    <3>2. CASE Missing(j)
      BY <3>1, <3>2 DEF Value
    <3>3. CASE ~Missing(j)
      <4>1. PICK d \in Found(j) : Found(j) = {d} /\ Value(j) = record[d].val
        BY <3>3, FoundFacts DEF Missing
      <4>2. d \in Entries /\ d # e
        BY <1>3, <2>2, <4>1 DEF Found
      <4>3. (CHOOSE x \in Found(j)' : TRUE) = d
        BY <1>6, <4>1
      <4> QED
        BY <1>5, <3>1, <3>3, <4>1, <4>2, <4>3 DEF Value
    <3> QED
      BY <3>2, <3>3
  <2> QED
    BY <2>1, <2>2
<1>10. \A u \in Threads : pc'[u] = "idle" \/ (u = t /\ pc'[u] = "notify" /\ job'[u] = [key |-> k, val |-> v])
    BY <1>2, <1>4 DEF TypeOK, locals
<1>11. OnlyWriters' /\ Locked' /\ Counted'
    BY <1>1, <1>4, <1>10 DEF OnlyWriters, Locked, Counted, Changing
<1>12. Progress'
  <2>1. [key |-> k, val |-> v].key = k /\ [key |-> k, val |-> v].val = v
    OBVIOUS
  <2>2. Value(k)' = v
    BY <1>9
  <2>3. ASSUME NEW u \in Threads, pc'[u] = "notify"
        PROVE  job'[u].key \in Keys /\ job'[u].val \in Vals /\ job'[u].val = Value(job[u].key)'
    <3>1. job'[u].key = k /\ job'[u].val = v
      BY <1>10, <2>1, <2>3
    <3>2. Value(job[u].key)' = Value(k)'
      BY <3>1 DEF Value, Found, Missing
    <3> QED
      BY <2>2, <3>1, <3>2
  <2> QED
    BY <1>10, <2>3 DEF Progress
<1>13. OnePlace' /\ StackOnce'
    BY <1>1, <1>4, <1>6, <1>10
       DEF OnePlace, StackOnce, InSomeChain, OnStack, Carried
<1>14. PointerStable'
  <2>1. ASSUME NEW u \in Threads, handle[u] # None
        PROVE  handle[u].entry # e /\ handle[u].entry \in Entries
    <3>1. handle[u].entry \in Entries /\ u \in rlock[Bucket[handle[u].key]]
      BY <2>1, HandleFacts
    <3>2. record[handle[u].entry].key = handle[u].key
      <4>1. record[handle[u].entry] = [key |-> handle[u].key, val |-> handle[u].val]
        BY <2>1 DEF PointerStable
      <4> QED
        BY <4>1
    <3> QED
      BY <1>1, <1>3, <3>1, <3>2
  <2> QED
    BY <1>1, <1>5, <1>6, <2>1 DEF PointerStable
<1>15. ToldSubscribed'
    BY <1>1, <1>6 DEF ToldSubscribed, Subscribed
<1>16. ToldLatest'
  <2>1. ASSUME NEW s \in Watchers
        PROVE  \/ told[s][k] = None
               \/ pc'[t] = "notify" /\ job'[t].key = k /\ s \in notes'[t]
    <3>1. CASE told[s][k] # None
      <4>1. s \in sub_list[e]
        BY <1>3, <3>1 DEF ToldSubscribed, Subscribed
      <4>2. /\ pc' = [pc EXCEPT ![t] = "notify"]
            /\ notes' = [notes EXCEPT ![t] = sub_list[e]]
            /\ job' = [job EXCEPT ![t] = [key |-> k, val |-> v]]
        BY <1>2, <4>1
      <4> QED
        BY <4>1, <4>2 DEF TypeOK
    <3> QED
      BY <3>1
  <2>2. \A s \in Watchers, j \in Keys : told[s][j] \in {None, Value(j)}
    BY <1>4 DEF ToldLatest
  <2> QED
    BY <1>1, <1>9, <2>1, <2>2 DEF ToldLatest
<1> QED
    BY <1>7, <1>8, <1>9, <1>11, <1>12, <1>13, <1>14, <1>15, <1>16

\* A notification, outside the lock: the value it brings is still the latest.
LEMMA NotifyStep ==
    ASSUME OneWriter, IInv, NEW t \in Threads, NEW s \in Threads, Notify(t, s)
    PROVE  IInv'
<1> USE DEF IInv, locks, store, pool
<1>1. /\ UNCHANGED <<chain, record>> /\ UNCHANGED <<rlock, wlock, sub_list>>
      /\ UNCHANGED <<free_stack, free_top, used_count>> /\ UNCHANGED <<handle, answer>>
      /\ pc[t] = "notify" /\ s \in notes[t]
      /\ notes' = [notes EXCEPT ![t] = @ \ {s}]
      /\ told' = IF Subscribed(s, job[t].key)
                 THEN [told EXCEPT ![s][job[t].key] = job[t].val] ELSE told
    BY DEF Notify
<1>2. \/ /\ notes[t] = {s} /\ pc' = [pc EXCEPT ![t] = "idle"]
         /\ job' = [job EXCEPT ![t] = NoJob]
         /\ idx' = [idx EXCEPT ![t] = None] /\ seen' = [seen EXCEPT ![t] = None]
      \/ notes[t] # {s} /\ UNCHANGED <<pc, job, idx, seen>>
    BY DEF Notify, Return, Goto
<1>3. \A u \in Threads : u # t => pc[u] = "idle"
    BY <1>1, Alone DEF OnlyWriters
<1>4. /\ job[t].key \in Keys /\ job[t].val \in Vals /\ job[t].val = Value(job[t].key)
    BY <1>1 DEF Progress
<1> DEFINE k == job[t].key
<1>5. /\ told' \in [Watchers -> [Keys -> Vals \cup {None}]]
      /\ \A w \in Watchers, j \in Keys :
            told'[w][j] = IF Subscribed(s, k) /\ w = s /\ j = k THEN Value(k) ELSE told[w][j]
    BY <1>1, <1>4 DEF TypeOK
<1>6. /\ \A u \in Threads : u # t => /\ pc'[u] = "idle" /\ notes'[u] = notes[u]
      /\ pc'[t] \in {"idle", "notify"}
      /\ pc'[t] = "notify" => job'[t] = job[t]
      /\ pc'[t] = "idle" => notes[t] = {s}
      /\ notes'[t] = notes[t] \ {s}
    BY <1>1, <1>2, <1>3 DEF TypeOK
<1>7. TypeOK'
  <2>1. NoJob \in Job
    BY DEF NoJob, Job
  <2>2. notes' \in [Threads -> SUBSET Threads]
    BY <1>1 DEF TypeOK
  <2>3. /\ pc' \in [Threads -> {"idle", "notify", "take", "link", "counted up",
                                 "give", "given", "counted down"}]
        /\ job' \in [Threads -> Job] /\ idx' \in [Threads -> Entries \cup {None}]
        /\ seen' \in [Threads -> (-1 .. Capacity) \cup {None}]
    <3>1. CASE notes[t] = {s}
      <4>1. pc' \in [Threads -> {"idle", "notify", "take", "link", "counted up",
                                 "give", "given", "counted down"}]
        BY <1>2, <3>1 DEF TypeOK
      <4>2. job' \in [Threads -> Job]
        BY <1>2, <2>1, <3>1 DEF TypeOK
      <4>3. idx' \in [Threads -> Entries \cup {None}]
        BY <1>2, <3>1 DEF TypeOK
      <4>4. seen' \in [Threads -> (-1 .. Capacity) \cup {None}]
        BY <1>2, <3>1 DEF TypeOK
      <4> QED
        BY <4>1, <4>2, <4>3, <4>4
    <3>2. CASE notes[t] # {s}
      BY <1>2, <3>2 DEF TypeOK
    <3> QED
      BY <3>1, <3>2
  <2> QED
    BY <1>1, <1>5, <2>2, <2>3 DEF TypeOK
<1>8. OnlyWriters' /\ Locked' /\ Counted' /\ StackOnce'
  <2>1. OnlyWriters' /\ StackOnce'
    BY <1>1, <1>6 DEF OnlyWriters, StackOnce
  <2>2. Locked'
    BY <1>1, <1>6 DEF Locked, Changing
  <2>3. Counted'
    BY <1>1, <1>3, <1>6 DEF Counted
  <2> QED
    BY <2>1, <2>2, <2>3
<1>9. ChainKeys' /\ ChainOnce' /\ Progress'
  <2>1. ChainKeys' /\ ChainOnce'
    BY <1>1, StoreFrame
  <2>2. ASSUME NEW u \in Threads, pc'[u] = "notify"
        PROVE  job'[u].key \in Keys /\ job'[u].val \in Vals /\ job'[u].val = Value(job[u].key)'
    <3>1. job'[u] = job[t]
      BY <1>6, <2>2
    <3>2. Value(job[u].key)' = Value(k)
      BY <1>1, <3>1 DEF Value, Found, Missing
    <3> QED
      BY <1>4, <3>1, <3>2
  <2> QED
    BY <1>6, <2>1, <2>2 DEF Progress
<1>10. OnePlace'
    BY <1>1, <1>3, <1>6, StoreFrame DEF OnePlace, InSomeChain, OnStack, Carried
<1>11. PointerStable'
    BY <1>1, StoreFrame DEF PointerStable
<1>12. ToldSubscribed'
    BY <1>1, <1>5, StoreFrame DEF ToldSubscribed, Subscribed
<1>13. ToldLatest'
  <2>1. ASSUME NEW w \in Watchers, NEW j \in Keys
        PROVE  \/ told'[w][j] \in {None, Value(j)}
               \/ pc'[t] = "notify" /\ job'[t].key = j /\ w \in notes'[t]
    <3>1. CASE w = s /\ j = k
      <4>1. ~Subscribed(s, k) => told[w][j] = None
        BY <3>1, <1>4 DEF ToldSubscribed
      <4> QED
        BY <1>5, <3>1, <4>1
    <3>2. CASE ~(w = s /\ j = k)
      <4>1. told'[w][j] = told[w][j]
        BY <1>5, <3>2
      <4>2. \/ told[w][j] \in {None, Value(j)}
            \/ k = j /\ w \in notes[t]
        BY <1>3 DEF ToldLatest
      <4> QED
        BY <1>6, <3>2, <4>1, <4>2
    <3> QED
      BY <3>1, <3>2
  <2> QED
    BY <1>1, <2>1, StoreFrame DEF ToldLatest
<1> QED
    BY <1>7, <1>8, <1>9, <1>10, <1>11, <1>12, <1>13

\* A call that returns is idle again, and the other threads stay where they are.
LEMMA ReturnFacts ==
    ASSUME TypeOK, NEW t \in Threads, NEW from, Return(t, from)
    PROVE  /\ pc[t] = from /\ pc'[t] = "idle"
           /\ \A u \in Threads : u # t =>
                 pc'[u] = pc[u] /\ job'[u] = job[u] /\ idx'[u] = idx[u] /\ seen'[u] = seen[u]
           /\ pc' \in [Threads -> {"idle", "notify", "take", "link", "counted up",
                                   "give", "given", "counted down"}]
           /\ job' \in [Threads -> Job] /\ idx' \in [Threads -> Entries \cup {None}]
           /\ seen' \in [Threads -> (-1 .. Capacity) \cup {None}]
<1>1. /\ pc[t] = from /\ pc' = [pc EXCEPT ![t] = "idle"]
      /\ job' = [job EXCEPT ![t] = NoJob]
      /\ idx' = [idx EXCEPT ![t] = None] /\ seen' = [seen EXCEPT ![t] = None]
    BY DEF Return, Goto
<1>2. NoJob \in Job
    BY DEF NoJob, Job
<1>3. pc' \in [Threads -> {"idle", "notify", "take", "link", "counted up",
                           "give", "given", "counted down"}]
    BY <1>1 DEF TypeOK
<1>4. job' \in [Threads -> Job]
    BY <1>1, <1>2 DEF TypeOK
<1>5. idx' \in [Threads -> Entries \cup {None}]
    BY <1>1 DEF TypeOK
<1>6. seen' \in [Threads -> (-1 .. Capacity) \cup {None}]
    BY <1>1 DEF TypeOK
<1>7. pc[t] = from /\ pc'[t] = "idle"
    BY <1>1 DEF TypeOK
<1>8. \A u \in Threads : u # t =>
         pc'[u] = pc[u] /\ job'[u] = job[u] /\ idx'[u] = idx[u] /\ seen'[u] = seen[u]
    BY <1>1 DEF TypeOK
<1> QED
    BY <1>3, <1>4, <1>5, <1>6, <1>7, <1>8

\* nos_kv_put of a new key, up to the read of the stack's top: the bucket is
\* locked and had no reader.
LEMMA NewStep ==
    ASSUME OneWriter, IInv, NEW t \in Threads, NEW k \in Keys, NEW v \in Vals,
           PutNew(t, k, v)
    PROVE  IInv'
<1> USE DEF IInv, store, pool, results
<1>1. /\ UNCHANGED <<chain, record>> /\ UNCHANGED <<rlock, sub_list>>
      /\ UNCHANGED <<free_stack, free_top, used_count>>
      /\ UNCHANGED <<idx, notes, handle, answer, told>>
      /\ t \in Writers /\ rlock[Bucket[k]] = {} /\ Missing(k) /\ free_top >= 0
      /\ pc[t] = "idle" /\ pc' = [pc EXCEPT ![t] = "take"]
      /\ wlock' = [wlock EXCEPT ![Bucket[k]] = t]
      /\ job' = [job EXCEPT ![t] = [key |-> k, val |-> v]]
      /\ seen' = [seen EXCEPT ![t] = free_top]
    BY DEF PutNew, MayWrite, CanWrite, Goto
<1>2. \A u \in Threads : pc[u] = "idle"
    BY <1>1, Alone
<1>3. Bucket[k] \in Buckets
    BY DEF Buckets
<1>4. /\ \A u \in Threads : u # t => pc'[u] = "idle"
      /\ pc'[t] = "take" /\ job'[t].key = k /\ job'[t].val = v /\ seen'[t] = free_top
    BY <1>1, <1>2 DEF TypeOK
<1>5. TypeOK'
  <2>1. wlock' \in [Buckets -> Threads \cup {None}]
    BY <1>1, <1>3 DEF TypeOK
  <2>2. pc' \in [Threads -> {"idle", "notify", "take", "link", "counted up",
                             "give", "given", "counted down"}]
    BY <1>1 DEF TypeOK
  <2>3. job' \in [Threads -> Job]
    BY <1>1 DEF TypeOK, Job
  <2>4. seen' \in [Threads -> (-1 .. Capacity) \cup {None}]
    <3>1. free_top \in (-1 .. Capacity) \cup {None}
      BY Bounds
    <3> QED
      BY <1>1, <3>1 DEF TypeOK
  <2> QED
    BY <1>1, <2>1, <2>2, <2>3, <2>4 DEF TypeOK
<1>6. OnlyWriters' /\ Counted' /\ StackOnce'
    BY <1>1, <1>2, <1>4 DEF OnlyWriters, Counted, StackOnce
<1>7. Locked'
  <2>1. wlock'[Bucket[k]] = t /\ \A b \in Buckets : b # Bucket[k] => wlock'[b] = wlock[b]
    BY <1>1, <1>3 DEF TypeOK
  <2>2. \A u \in Threads : pc'[u] \in Changing =>
           job'[u].key \in Keys /\ wlock'[Bucket[job'[u].key]] = u
    BY <1>4, <2>1 DEF Changing
  <2>3. \A b \in Buckets : wlock'[b] = None \/ rlock'[b] = {}
    BY <1>1, <2>1 DEF Locked
  <2>4. \A u \in Threads : handle'[u] # None => u \in rlock'[Bucket[handle'[u].key]]
    BY <1>1 DEF Locked
  <2> QED
    BY <2>2, <2>3, <2>4 DEF Locked
<1>8. ChainKeys' /\ ChainOnce'
    BY <1>1, StoreFrame
<1>9. Progress'
  <2>1. Missing(job[t].key)'
    BY <1>1, <1>4 DEF Missing, Found
  <2> QED
    BY <1>1, <1>4, <2>1 DEF Progress
<1>10. OnePlace'
    BY <1>1, <1>2, <1>4, StoreFrame DEF OnePlace, InSomeChain, OnStack, Carried
<1>11. PointerStable'
    BY <1>1, StoreFrame DEF PointerStable
<1>12. ToldSubscribed'
    BY <1>1, StoreFrame DEF ToldSubscribed, Subscribed
<1>13. ToldLatest'
    BY <1>1, <1>2, StoreFrame DEF ToldLatest
<1> QED
    BY <1>5, <1>6, <1>7, <1>8, <1>9, <1>10, <1>11, <1>12, <1>13

\* The pop: the entry taken was on the stack, and once.
LEMMA TakeStep ==
    ASSUME OneWriter, IInv, NEW t \in Threads, PutTake(t)
    PROVE  IInv'
<1> USE DEF IInv, locks, store, results
<1>1. /\ UNCHANGED <<chain, record>> /\ UNCHANGED <<rlock, wlock, sub_list>>
      /\ UNCHANGED <<free_stack, used_count>>
      /\ UNCHANGED <<job, seen, notes, handle, answer, told>>
      /\ pc[t] = "take" /\ pc' = [pc EXCEPT ![t] = "link"]
      /\ idx' = [idx EXCEPT ![t] = free_stack[seen[t]]]
      /\ free_top' = seen[t] - 1
    BY DEF PutTake, Goto
<1>2. \A u \in Threads : u # t => pc[u] = "idle"
    BY <1>1, Alone DEF OnlyWriters
<1>3. /\ seen[t] = free_top /\ free_top \in 0 .. Capacity - 1
      /\ Missing(job[t].key) /\ job[t].val \in Vals
  <2>1. seen[t] = free_top /\ free_top >= 0
    BY <1>1 DEF Progress
  <2>2. Missing(job[t].key) /\ job[t].val \in Vals
    BY <1>1 DEF Progress
  <2>3. free_top \in 0 .. Capacity - 1
    BY <2>1, Bounds
  <2> QED
    BY <2>1, <2>2, <2>3
<1> DEFINE e == free_stack[free_top]
<1>4. e \in Entries
    BY <1>3 DEF TypeOK, Entries
<1>5. /\ \A u \in Threads : u # t => pc'[u] = "idle"
      /\ pc'[t] = "link" /\ idx'[t] = e
    BY <1>1, <1>2, <1>3 DEF TypeOK
<1>6. TypeOK'
  <2>1. free_top' \in -1 .. Capacity - 1
    BY <1>1, <1>3, TableAssumption
  <2>2. pc' \in [Threads -> {"idle", "notify", "take", "link", "counted up",
                             "give", "given", "counted down"}]
    BY <1>1 DEF TypeOK
  <2>3. idx' \in [Threads -> Entries \cup {None}]
    BY <1>1, <1>3, <1>4 DEF TypeOK
  <2> QED
    BY <1>1, <2>1, <2>2, <2>3 DEF TypeOK
<1>7. OnlyWriters' /\ Locked'
    BY <1>1, <1>5 DEF OnlyWriters, Locked, Changing
<1>8. Counted'
  <2>1. used_count + free_top = Capacity - 1
    BY <1>1, <1>2 DEF Counted
  <2>2. used_count' + free_top' = Capacity - 2
    <3>1. used_count' = used_count /\ free_top' = free_top - 1
      BY <1>1, <1>3
    <3>2. used_count \in Int /\ free_top \in Int /\ Capacity \in Int
      BY Bounds
    <3> QED
      BY <2>1, <3>1, <3>2
  <2> QED
    BY <1>5, <2>2 DEF Counted
<1>9. StackOnce'
    BY <1>1, <1>3 DEF StackOnce
<1>10. ChainKeys' /\ ChainOnce'
    BY <1>1, StoreFrame
<1>11. Progress'
  <2>1. Missing(job[t].key)'
    BY <1>1, <1>3 DEF Missing, Found
  <2> QED
    BY <1>1, <1>3, <1>4, <1>5, <2>1 DEF Progress
<1>12. OnePlace'
  <2>1. \A d \in Entries : InSomeChain(d)' <=> InSomeChain(d)
    BY <1>1, StoreFrame DEF InSomeChain
  <2>2. \A d \in Entries : OnStack(d)' <=> OnStack(d) /\ d # e
    BY <1>1, <1>3 DEF OnStack, StackOnce
  <2>3. \A d \in Entries : ~Carried(d) /\ (Carried(d)' <=> d = e)
    BY <1>1, <1>2, <1>5 DEF Carried
  <2>4. OnStack(e)
    BY <1>3 DEF OnStack
  <2> QED
    BY <1>4, <2>1, <2>2, <2>3, <2>4 DEF OnePlace
<1>13. PointerStable'
    BY <1>1, StoreFrame DEF PointerStable
<1>14. ToldSubscribed'
    BY <1>1, StoreFrame DEF ToldSubscribed, Subscribed
<1>15. ToldLatest'
    BY <1>1, <1>2, StoreFrame DEF ToldLatest
<1> QED
    BY <1>6, <1>7, <1>8, <1>9, <1>10, <1>11, <1>12, <1>13, <1>14, <1>15

\* The entry taken is filled and put in its bucket's chain, where the key was
\* missing.
LEMMA LinkStep ==
    ASSUME OneWriter, IInv, NEW t \in Threads, PutLink(t)
    PROVE  /\ IInv'
           /\ \A j \in Keys : Value(j)' = IF j = job[t].key THEN job[t].val ELSE Value(j)
<1> USE DEF IInv, locks, pool
<1>0. PICK k \in Keys, b \in Buckets, x \in Entries :
         k = job[t].key /\ b = Bucket[k] /\ x = idx[t]
  <2>1. pc[t] = "link"
    BY DEF PutLink, Goto
  <2>2. idx[t] \in Entries
    BY <2>1 DEF Progress
  <2>3. job[t].key \in Keys
    BY <2>1 DEF Locked, Changing
  <2> QED
    BY <2>2, <2>3 DEF Buckets
<1>1. /\ UNCHANGED <<rlock, wlock>> /\ UNCHANGED <<free_stack, free_top, used_count>>
      /\ UNCHANGED <<job, idx, notes, handle, told>> /\ answer' = "ok"
      /\ pc[t] = "link" /\ pc' = [pc EXCEPT ![t] = "counted up"]
      /\ record' = [record EXCEPT ![x] = job[t]]
      /\ sub_list' = [sub_list EXCEPT ![x] = {}]
      /\ chain' = [chain EXCEPT ![b] = <<x>> \o @]
      /\ seen' = [seen EXCEPT ![t] = used_count]
    BY <1>0 DEF PutLink, Goto
<1>2. \A u \in Threads : u # t => pc[u] = "idle"
    BY <1>1, Alone DEF OnlyWriters
<1>3. Missing(k) /\ job[t].val \in Vals
    BY <1>0, <1>1 DEF Progress
<1>4. wlock[b] = t
    BY <1>0, <1>1 DEF Locked, Changing
<1>5. Carried(x) /\ ~InSomeChain(x) /\ ~OnStack(x)
    BY <1>0, <1>1 DEF Carried, OnePlace
<1>6. /\ \A u \in Threads : u # t => pc'[u] = "idle"
      /\ pc'[t] = "counted up" /\ seen'[t] = used_count
    BY <1>1, <1>2 DEF TypeOK
<1>7. /\ chain' \in [Buckets -> Seq(Entries)]
      /\ DOMAIN chain'[b] = 1 .. Len(chain[b]) + 1
      /\ DOMAIN chain[b] = 1 .. Len(chain[b]) /\ Len(chain[b]) \in Nat
      /\ \A i \in DOMAIN chain'[b] : chain'[b][i] = IF i = 1 THEN x ELSE chain[b][i - 1]
      /\ \A c \in Buckets : c # b => chain'[c] = chain[c]
  <2>1. chain \in [Buckets -> Seq(Entries)]
    BY DEF TypeOK
  <2>2. chain[b] \in Seq(Entries) /\ chain'[b] = <<x>> \o chain[b]
    BY <1>1, <1>4, <2>1
  <2>3. chain'[b] \in Seq(Entries)
    BY <1>3, <2>2, LinkFacts
  <2>4. chain' \in [Buckets -> Seq(Entries)] /\ \A c \in Buckets : c # b => chain'[c] = chain[c]
    BY <1>1, <1>4, <2>1, <2>2, <2>3
  <2>5. DOMAIN chain[b] = 1 .. Len(chain[b]) /\ Len(chain[b]) \in Nat
    BY <2>2, LenProperties
  <2>6. /\ DOMAIN chain'[b] = 1 .. Len(chain[b]) + 1
        /\ \A i \in DOMAIN chain'[b] : chain'[b][i] = IF i = 1 THEN x ELSE chain[b][i - 1]
    BY <1>3, <2>2, LinkFacts
  <2> QED
    BY <2>4, <2>5, <2>6
<1>8. /\ record'[x] = job[t] /\ sub_list'[x] = {}
      /\ \A d \in Entries : d # x => record'[d] = record[d] /\ sub_list'[d] = sub_list[d]
    BY <1>1, <1>3 DEF TypeOK
<1>9. \A c \in Buckets, d \in Entries : InChain(c, d)' <=> InChain(c, d) \/ (c = b /\ d = x)
  <2>1. \A c \in Buckets, d \in Entries : c # b => (InChain(c, d)' <=> InChain(c, d))
    BY <1>7 DEF InChain
  <2>2. ASSUME NEW d \in Entries
        PROVE  InChain(b, d)' <=> InChain(b, d) \/ d = x
    <3>1. ASSUME InChain(b, d)'
          PROVE  InChain(b, d) \/ d = x
      <4>1. PICK i \in DOMAIN chain'[b] : chain'[b][i] = d
        BY <3>1 DEF InChain
      <4>2. CASE i = 1
        BY <1>7, <4>1, <4>2
      <4>3. CASE i # 1
        <5>1. i - 1 \in DOMAIN chain[b] /\ chain[b][i - 1] = d
          BY <1>7, <4>1, <4>3
        <5> QED
          BY <5>1 DEF InChain
      <4> QED
        BY <4>2, <4>3
    <3>2. ASSUME InChain(b, d)
          PROVE  InChain(b, d)'
      <4>1. PICK i \in DOMAIN chain[b] : chain[b][i] = d
        BY <3>2 DEF InChain
      <4>2. i + 1 \in DOMAIN chain'[b] /\ chain'[b][i + 1] = d
        BY <1>7, <4>1
      <4> QED
        BY <4>2 DEF InChain
    <3>3. 1 \in DOMAIN chain'[b] /\ chain'[b][1] = x
      BY <1>7
    <3> QED
      BY <3>1, <3>2, <3>3 DEF InChain
  <2> QED
    BY <2>1, <2>2
<1>10. \A c \in Buckets : ~InChain(c, x)
    BY <1>5 DEF InSomeChain
<1>11. Found(k)' = {x} /\ \A j \in Keys : j # k => Found(j)' = Found(j)
  <2>1. \A j \in Keys : Bucket[j] \in Buckets
    BY DEF Buckets
  <2>2. \A j \in Keys, d \in Entries :
           /\ d \in Found(j) <=> InChain(Bucket[j], d) /\ record[d].key = j
           /\ d \in Found(j)' <=> InChain(Bucket[j], d)' /\ record'[d].key = j
    BY DEF Found, InChain
  <2>3. \A d \in Entries : d \in Found(k)' <=> d = x
    BY <1>0, <1>3, <1>8, <1>9, <2>1, <2>2 DEF Missing
  <2>4. ASSUME NEW j \in Keys, j # k, NEW d \in Entries
        PROVE  d \in Found(j)' <=> d \in Found(j)
    BY <1>0, <1>8, <1>9, <1>10, <2>1, <2>2, <2>4
  <2>5. \A j : Found(j) \subseteq Entries /\ Found(j)' \subseteq Entries
    BY DEF Found
  <2> QED
    BY <1>3, <1>4, <2>3, <2>4, <2>5
<1>12. /\ Value(k)' = job[t].val /\ ~Missing(k)'
       /\ \A j \in Keys : j # k => Value(j)' = Value(j) /\ (Missing(j)' <=> Missing(j))
  <2>1. (CHOOSE d \in Found(k)' : TRUE) = x
    BY <1>11
  <2>2. Value(k)' = job[t].val /\ ~Missing(k)'
    BY <1>8, <1>11, <2>1 DEF Value, Missing
  <2>3. ASSUME NEW j \in Keys, j # k
        PROVE  Value(j)' = Value(j) /\ (Missing(j)' <=> Missing(j))
    <3>1. Found(j)' = Found(j)
      BY <1>11, <2>3
    <3>2. Missing(j)' <=> Missing(j)
      BY <3>1 DEF Missing
    <3>3. CASE Missing(j)
      BY <3>2, <3>3 DEF Value
    <3>4. CASE ~Missing(j)
      <4>1. PICK d \in Entries : InChain(Bucket[j], d) /\ Found(j) = {d}
        BY <3>4, FoundFacts DEF Missing
      <4>2. d # x /\ (CHOOSE e \in Found(j) : TRUE) = d
        BY <1>10, <4>1 DEF Buckets
      <4>3. Value(j) = record[d].val
        BY <3>4, <4>2 DEF Value
      <4>4. Value(j)' = record'[d].val
        BY <3>1, <3>2, <3>4, <4>2 DEF Value
      <4> QED
        BY <1>8, <3>2, <4>2, <4>3, <4>4
    <3> QED
      BY <3>2, <3>3, <3>4
  <2> QED
    BY <2>2, <2>3
<1>13. TypeOK'
  <2>1. record' \in [Entries -> Job] /\ sub_list' \in [Entries -> SUBSET Threads]
    BY <1>1, <1>3 DEF TypeOK
  <2>2. pc' \in [Threads -> {"idle", "notify", "take", "link", "counted up",
                             "give", "given", "counted down"}]
    BY <1>1 DEF TypeOK
  <2>3. seen' \in [Threads -> (-1 .. Capacity) \cup {None}]
    <3>1. used_count \in (-1 .. Capacity) \cup {None}
      BY Bounds
    <3> QED
      BY <1>1, <3>1 DEF TypeOK
  <2> QED
    BY <1>1, <1>7, <2>1, <2>2, <2>3 DEF TypeOK
<1>14. OnlyWriters' /\ StackOnce'
    BY <1>1, <1>6 DEF OnlyWriters, StackOnce
<1>15. Locked'
    BY <1>1, <1>6 DEF Locked, Changing
<1>16. Progress'
    BY <1>1, <1>6 DEF Progress
<1>17. Counted'
    BY <1>1, <1>6 DEF Counted
<1>18. ChainKeys'
  <2>1. ASSUME NEW c \in Buckets, NEW d \in Entries, InChain(c, d)'
        PROVE  record'[d].key \in Keys /\ Bucket[record'[d].key] = c /\ record'[d].val \in Vals
    <3>1. CASE InChain(c, d)
      BY <1>8, <1>10, <3>1 DEF ChainKeys
    <3>2. CASE c = b /\ d = x
      BY <1>0, <1>3, <1>8, <3>2
    <3> QED
      BY <1>9, <2>1, <3>1, <3>2
  <2>2. ASSUME NEW c \in Buckets, NEW d \in Entries, NEW e \in Entries,
               InChain(c, d)', InChain(c, e)', record'[d].key = record'[e].key
        PROVE  d = e
    <3>1. \A y \in Entries : InChain(b, y) => record[y].key # k
      BY <1>0, <1>3 DEF Missing, Found, InChain
    <3>2. CASE InChain(c, d) /\ InChain(c, e)
      BY <1>8, <1>10, <2>2, <3>2 DEF ChainKeys
    <3>3. CASE d = x \/ e = x
      BY <1>0, <1>8, <1>9, <1>10, <2>2, <3>1, <3>3
    <3> QED
      BY <1>9, <2>2, <3>2, <3>3
  <2> QED
    BY <2>1, <2>2 DEF ChainKeys
<1>19. ChainOnce'
  <2>1. ASSUME NEW c \in Buckets, NEW i \in DOMAIN chain'[c]
        PROVE  \/ c = b /\ i = 1 /\ chain'[c][i] = x
               \/ c = b /\ i - 1 \in DOMAIN chain[c] /\ chain'[c][i] = chain[c][i - 1]
               \/ c # b /\ i \in DOMAIN chain[c] /\ chain'[c][i] = chain[c][i]
    BY <1>7
  <2>2. \A c \in Buckets : \A i \in DOMAIN chain[c] : chain[c][i] # x
    BY <1>10 DEF InChain
  <2>3. ASSUME NEW c \in Buckets, NEW d \in Buckets,
               NEW i \in DOMAIN chain'[c], NEW j \in DOMAIN chain'[d],
               chain'[c][i] = chain'[d][j]
        PROVE  c = d /\ i = j
    <3>1. CASE c = b /\ i = 1 /\ chain'[c][i] = x
      BY <2>1, <2>2, <2>3, <3>1
    <3>2. CASE d = b /\ j = 1 /\ chain'[d][j] = x
      BY <2>1, <2>2, <2>3, <3>2
    <3>3. CASE c = b /\ i - 1 \in DOMAIN chain[c] /\ chain'[c][i] = chain[c][i - 1]
      <4>1. CASE d = b /\ j - 1 \in DOMAIN chain[d] /\ chain'[d][j] = chain[d][j - 1]
        <5>1. i - 1 = j - 1
          BY <2>3, <3>3, <4>1 DEF ChainOnce
        <5> QED
          BY <1>7, <3>3, <4>1, <5>1
      <4>2. CASE d # b /\ j \in DOMAIN chain[d] /\ chain'[d][j] = chain[d][j]
        BY <2>3, <3>3, <4>2 DEF ChainOnce
      <4> QED
        BY <2>1, <3>2, <4>1, <4>2
    <3>4. CASE c # b /\ i \in DOMAIN chain[c] /\ chain'[c][i] = chain[c][i]
      <4>1. CASE d = b /\ j - 1 \in DOMAIN chain[d] /\ chain'[d][j] = chain[d][j - 1]
        <5>1. chain[c][i] = chain[d][j - 1]
          BY <2>3, <3>4, <4>1
        <5>2. c = d
          BY <3>4, <4>1, <5>1 DEF ChainOnce
        <5> QED
          BY <3>4, <4>1, <5>2
      <4>2. CASE d # b /\ j \in DOMAIN chain[d] /\ chain'[d][j] = chain[d][j]
        <5>1. chain[c][i] = chain[d][j]
          BY <2>3, <3>4, <4>2
        <5> QED
          BY <3>4, <4>2, <5>1 DEF ChainOnce
      <4> QED
        BY <2>1, <3>2, <4>1, <4>2
    <3> QED
      BY <2>1, <3>1, <3>3, <3>4
  <2> QED
    BY <2>3 DEF ChainOnce
<1>20. OnePlace'
  <2>1. \A d \in Entries : InSomeChain(d)' <=> InSomeChain(d) \/ d = x
    BY <1>4, <1>9 DEF InSomeChain
  <2>2. \A d \in Entries : OnStack(d)' <=> OnStack(d)
    BY <1>1 DEF OnStack
  <2>3. \A d \in Entries : (Carried(d) <=> d = x) /\ ~Carried(d)'
    BY <1>0, <1>1, <1>2, <1>6 DEF Carried
  <2> QED
    BY <1>3, <1>5, <2>1, <2>2, <2>3 DEF OnePlace
<1>21. PointerStable'
  <2>1. ASSUME NEW u \in Threads, handle[u] # None
        PROVE  /\ record'[handle[u].entry] = [key |-> handle[u].key, val |-> handle[u].val]
               /\ InChain(Bucket[handle[u].key], handle[u].entry)'
    <3>1. /\ handle[u].entry \in Entries /\ Bucket[handle[u].key] \in Buckets
          /\ InChain(Bucket[handle[u].key], handle[u].entry)
          /\ record[handle[u].entry] = [key |-> handle[u].key, val |-> handle[u].val]
      BY <2>1, HandleFacts DEF PointerStable
    <3>2. handle[u].entry # x
      BY <1>10, <3>1
    <3>3. record'[handle[u].entry] = record[handle[u].entry]
      BY <1>8, <3>1, <3>2
    <3>4. InChain(Bucket[handle[u].key], handle[u].entry)'
      BY <1>1, <1>9, <3>1
    <3> QED
      BY <3>1, <3>3, <3>4
  <2> QED
    BY <1>1, <2>1 DEF PointerStable
<1>22. ToldSubscribed'
  <2>1. ASSUME NEW s \in Watchers, NEW j \in Keys, told[s][j] # None
        PROVE  \E d \in Found(j)' : s \in sub_list'[d]
    <3>1. PICK d \in Found(j) : s \in sub_list[d]
      BY <2>1 DEF ToldSubscribed, Subscribed
    <3>2. j # k /\ d \in Entries /\ InChain(Bucket[j], d) /\ Bucket[j] \in Buckets
      BY <1>3, <3>1, FoundFacts DEF Missing
    <3>3. d # x /\ d \in Found(j)'
      BY <1>10, <1>11, <3>1, <3>2
    <3> QED
      BY <1>8, <3>1, <3>2, <3>3
  <2> QED
    BY <1>1, <2>1 DEF ToldSubscribed, Subscribed
<1>23. ToldLatest'
  <2>1. \A s \in Watchers : told[s][k] = None
    BY <1>3, <1>4 DEF ToldSubscribed, Subscribed, Missing
  <2>2. \A s \in Watchers, j \in Keys : told[s][j] \in {None, Value(j)}
    BY <1>1, <1>2 DEF ToldLatest
  <2>3. \A s \in Watchers, j \in Keys : told'[s][j] \in {None, Value(j)'}
    BY <1>1, <1>12, <2>1, <2>2
  <2> QED
    BY <2>3 DEF ToldLatest
<1>24. \A j \in Keys : Value(j)' = IF j = job[t].key THEN job[t].val ELSE Value(j)
    BY <1>0, <1>12
<1> QED
    BY <1>13, <1>14, <1>15, <1>16, <1>17, <1>18, <1>19, <1>20, <1>21, <1>22, <1>23, <1>24

\* A step of a put or a delete on the free stack or on used_count alone: it
\* disturbs nothing that readers or subscribers see.
LEMMA PoolStep ==
    ASSUME IInv, NEW t \in Threads, pc[t] # "notify",
           UNCHANGED <<chain, record>>, UNCHANGED <<sub_list, handle, told>>,
           \A u \in Threads : u # t => pc[u] = "idle"
    PROVE  ChainKeys' /\ ChainOnce' /\ PointerStable' /\ ToldSubscribed' /\ ToldLatest'
<1> USE DEF IInv
<1>1. ChainKeys' /\ ChainOnce'
    BY StoreFrame
<1>2. PointerStable'
    BY StoreFrame DEF PointerStable
<1>3. ToldSubscribed'
    BY StoreFrame DEF ToldSubscribed, Subscribed
<1>4. \A s \in Watchers, k \in Keys : told[s][k] \in {None, Value(k)}
    BY DEF ToldLatest
<1>5. ToldLatest'
    BY <1>4, StoreFrame DEF ToldLatest
<1> QED
    BY <1>1, <1>2, <1>3, <1>5

\* The last step of nos_kv_put: the entry is counted and the bucket unlocked.
LEMMA CountUpStep ==
    ASSUME OneWriter, IInv, NEW t \in Threads, CountUp(t)
    PROVE  IInv'
<1> USE DEF IInv, store, results
<1>1. /\ UNCHANGED <<chain, record>> /\ UNCHANGED <<rlock, sub_list>>
      /\ UNCHANGED <<free_stack, free_top>>
      /\ UNCHANGED <<notes, handle, answer, told>>
      /\ Return(t, "counted up") /\ pc[t] = "counted up"
      /\ used_count' = seen[t] + 1
      /\ wlock' = [wlock EXCEPT ![Bucket[job[t].key]] = None]
    BY DEF CountUp, Return, Goto
<1>2. \A u \in Threads : u # t => pc[u] = "idle"
    BY <1>1, Alone DEF OnlyWriters
<1>3. \A u \in Threads : pc'[u] = "idle"
    BY <1>1, <1>2, ReturnFacts
<1>4. seen[t] = used_count /\ used_count + free_top = Capacity - 2
  <2>1. seen[t] = used_count
    BY <1>1 DEF Progress
  <2>2. used_count + free_top = Capacity - 2
    BY <1>1 DEF Counted
  <2> QED
    BY <2>1, <2>2
<1>5. used_count' = used_count + 1 /\ used_count' \in 0 .. Capacity
  <2>1. used_count' = used_count + 1
    BY <1>1, <1>4
  <2> QED
    BY <1>4, <2>1, Bounds
<1>6. TypeOK'
  <2>1. wlock' \in [Buckets -> Threads \cup {None}]
    BY <1>1 DEF TypeOK
  <2>2. /\ pc' \in [Threads -> {"idle", "notify", "take", "link", "counted up",
                                "give", "given", "counted down"}]
        /\ job' \in [Threads -> Job] /\ idx' \in [Threads -> Entries \cup {None}]
        /\ seen' \in [Threads -> (-1 .. Capacity) \cup {None}]
    BY <1>1, ReturnFacts
  <2> QED
    BY <1>1, <1>5, <2>1, <2>2 DEF TypeOK
<1>7. OnlyWriters' /\ StackOnce' /\ Progress'
    BY <1>1, <1>3 DEF OnlyWriters, StackOnce, Progress
<1>8. Locked'
    BY <1>1, <1>3 DEF Locked, Changing, TypeOK
<1>9. Counted'
  <2>1. used_count' + free_top' = Capacity - 1
    <3>1. free_top' = free_top
      BY <1>1
    <3> QED
      BY <1>4, <1>5, <3>1, Bounds
  <2> QED
    BY <1>3, <2>1 DEF Counted
<1>10. OnePlace'
  <2>1. \A d : ~Carried(d) /\ ~Carried(d)'
    BY <1>1, <1>2, <1>3 DEF Carried
  <2>2. \A d : (InSomeChain(d)' <=> InSomeChain(d)) /\ (OnStack(d)' <=> OnStack(d))
    BY <1>1, StoreFrame DEF InSomeChain, OnStack
  <2> QED
    BY <2>1, <2>2 DEF OnePlace
<1> QED
    BY <1>1, <1>2, <1>6, <1>7, <1>8, <1>9, <1>10, PoolStep

\* nos_kv_del up to the read of the stack's top: the bucket had no reader, and
\* the entry leaves its chain without its subscribers.
LEMMA UnlinkStep ==
    ASSUME OneWriter, IInv, NEW t \in Threads, NEW k \in Keys, DelUnlink(t, k)
    PROVE  IInv' /\ \A j \in Keys : Value(j)' = IF j = k THEN None ELSE Value(j)
<1> USE DEF IInv, pool
<1>0. PICK b \in Buckets : b = Bucket[k]
    BY DEF Buckets
<1>1. PICK e \in Found(k) :
        /\ chain' = [chain EXCEPT ![b] = Without(@, e)]
        /\ record' = [record EXCEPT ![e] = NoJob]
        /\ sub_list' = [sub_list EXCEPT ![e] = {}]
        /\ told' = [s \in Watchers |-> [told[s] EXCEPT ![k] = None]]
        /\ idx' = [idx EXCEPT ![t] = e]
    BY <1>0 DEF DelUnlink
<1>2. /\ UNCHANGED <<free_stack, free_top, used_count>> /\ UNCHANGED <<rlock, notes, handle>>
      /\ t \in Writers /\ rlock[b] = {}
      /\ pc[t] = "idle" /\ pc' = [pc EXCEPT ![t] = "give"]
      /\ wlock' = [wlock EXCEPT ![b] = t]
      /\ job' = [job EXCEPT ![t] = [key |-> k, val |-> None]]
      /\ seen' = [seen EXCEPT ![t] = free_top] /\ answer' = "ok"
    BY <1>0 DEF DelUnlink, MayWrite, CanWrite, Goto
<1>3. \A u \in Threads : pc[u] = "idle"
    BY <1>2, Alone
<1>4. /\ e \in Entries /\ InChain(b, e) /\ record[e].key = k
      /\ Found(k) = {e}
    BY <1>0, FoundFacts
<1>5. /\ \A u \in Threads : u # t => pc'[u] = "idle"
      /\ pc'[t] = "give" /\ job'[t].key = k /\ seen'[t] = free_top /\ idx'[t] = e
    BY <1>1, <1>2, <1>3 DEF TypeOK
<1>6. PICK n \in DOMAIN chain[b] : chain[b][n] = e
    BY <1>4 DEF InChain
<1>7. /\ chain' \in [Buckets -> Seq(Entries)]
      /\ DOMAIN chain[b] = 1 .. Len(chain[b]) /\ Len(chain[b]) \in Nat
      /\ DOMAIN chain'[b] = 1 .. Len(chain[b]) - 1
      /\ \A i \in DOMAIN chain'[b] :
            chain'[b][i] = IF i < n THEN chain[b][i] ELSE chain[b][i + 1]
      /\ \A c \in Buckets : c # b => chain'[c] = chain[c]
  <2>1. chain \in [Buckets -> Seq(Entries)]
    BY DEF TypeOK
  <2>2. chain[b] \in Seq(Entries) /\ chain'[b] = Without(chain[b], chain[b][n])
    BY <1>1, <1>6, <2>1
  <2>3. \A i, j \in DOMAIN chain[b] : chain[b][i] = chain[b][j] => i = j
    BY DEF ChainOnce
  <2>4. /\ chain'[b] \in Seq(Entries) /\ DOMAIN chain'[b] = 1 .. Len(chain[b]) - 1
        /\ \A i \in DOMAIN chain'[b] :
              chain'[b][i] = IF i < n THEN chain[b][i] ELSE chain[b][i + 1]
    BY <2>2, <2>3, WithoutFacts
  <2>5. chain' \in [Buckets -> Seq(Entries)] /\ \A c \in Buckets : c # b => chain'[c] = chain[c]
    BY <1>1, <2>1, <2>2, <2>4
  <2>6. DOMAIN chain[b] = 1 .. Len(chain[b]) /\ Len(chain[b]) \in Nat
    BY <2>2, LenProperties
  <2> QED
    BY <2>4, <2>5, <2>6
<1>8. \A d \in Entries : d # e => record'[d] = record[d] /\ sub_list'[d] = sub_list[d]
    BY <1>1, <1>4 DEF TypeOK
\* where an entry of the new chain was in the old one
<1>9. ASSUME NEW c \in Buckets, NEW i \in DOMAIN chain'[c]
      PROVE  \/ c = b /\ i < n /\ i \in DOMAIN chain[c] /\ chain'[c][i] = chain[c][i]
             \/ c = b /\ i >= n /\ i + 1 \in DOMAIN chain[c] /\ chain'[c][i] = chain[c][i + 1]
             \/ c # b /\ i \in DOMAIN chain[c] /\ chain'[c][i] = chain[c][i]
  <2>1. CASE c # b
    BY <1>7, <2>1
  <2>2. CASE c = b
    <3>1. i \in 1 .. Len(chain[b]) - 1 /\ n \in 1 .. Len(chain[b])
      BY <1>6, <1>7, <2>2
    <3>2. CASE i < n
      <4>1. i \in DOMAIN chain[b] /\ chain'[b][i] = chain[b][i]
        BY <1>7, <2>2, <3>1, <3>2
      <4> QED
        BY <2>2, <3>2, <4>1
    <3>3. CASE i >= n
      <4>1. i + 1 \in DOMAIN chain[b] /\ chain'[b][i] = chain[b][i + 1]
        BY <1>7, <2>2, <3>1, <3>3
      <4> QED
        BY <2>2, <3>3, <4>1
    <3> QED
      BY <3>1, <3>2, <3>3
  <2> QED
    BY <2>1, <2>2
<1>10. \A c \in Buckets, d \in Entries : InChain(c, d)' <=> InChain(c, d) /\ d # e
  <2>1. ASSUME NEW c \in Buckets, NEW d \in Entries, InChain(c, d)'
        PROVE  InChain(c, d) /\ d # e
    <3>1. PICK i \in DOMAIN chain'[c] : chain'[c][i] = d
      BY <2>1 DEF InChain
    <3>2. PICK j \in DOMAIN chain[c] : chain[c][j] = d /\ (c # b \/ j # n)
      BY <1>6, <1>7, <1>9, <3>1
    <3>3. d # e
      BY <1>6, <3>2 DEF ChainOnce
    <3> QED
      BY <3>2, <3>3 DEF InChain
  <2>2. ASSUME NEW c \in Buckets, NEW d \in Entries, InChain(c, d), d # e
        PROVE  InChain(c, d)'
    <3>1. PICK i \in DOMAIN chain[c] : chain[c][i] = d
      BY <2>2 DEF InChain
    <3>2. CASE c # b
      BY <1>7, <3>1, <3>2 DEF InChain
    <3>3. CASE c = b /\ i < n
      <4>1. i \in DOMAIN chain'[c] /\ chain'[c][i] = d
        BY <1>6, <1>7, <3>1, <3>3
      <4> QED
        BY <4>1 DEF InChain
    <3>4. CASE c = b /\ i > n
      <4>1. i - 1 \in DOMAIN chain'[c] /\ chain'[c][i - 1] = d
        BY <1>6, <1>7, <3>1, <3>4
      <4> QED
        BY <4>1 DEF InChain
    <3>5. c = b => i < n \/ i > n
      BY <1>6, <1>7, <2>2, <3>1
    <3> QED
      BY <3>2, <3>3, <3>4, <3>5
  <2> QED
    BY <2>1, <2>2
<1>11. Found(k)' = {} /\ \A j \in Keys : j # k => Found(j)' = Found(j)
  <2>1. \A j \in Keys : Bucket[j] \in Buckets
    BY DEF Buckets
  <2>2. \A j \in Keys, d \in Entries :
           /\ d \in Found(j) <=> InChain(Bucket[j], d) /\ record[d].key = j
           /\ d \in Found(j)' <=> InChain(Bucket[j], d)' /\ record'[d].key = j
    BY DEF Found, InChain
  <2>3. \A d \in Entries : d \notin Found(k)'
    BY <1>4, <1>8, <1>10, <2>1, <2>2
  <2>4. ASSUME NEW j \in Keys, j # k, NEW d \in Entries
        PROVE  d \in Found(j)' <=> d \in Found(j)
    BY <1>4, <1>8, <1>10, <2>1, <2>2, <2>4
  <2>5. \A j : Found(j) \subseteq Entries /\ Found(j)' \subseteq Entries
    BY DEF Found
  <2> QED
    BY <2>3, <2>4, <2>5
<1>12. /\ Value(k)' = None
       /\ \A j \in Keys : j # k => Value(j)' = Value(j)
  <2>1. Value(k)' = None
    BY <1>11 DEF Value, Missing
  <2>2. ASSUME NEW j \in Keys, j # k
        PROVE  Value(j)' = Value(j)
    <3>1. Found(j)' = Found(j)
      BY <1>11, <2>2
    <3>2. Missing(j)' <=> Missing(j)
      BY <3>1 DEF Missing
    <3>3. CASE Missing(j)
      BY <3>2, <3>3 DEF Value
    <3>4. CASE ~Missing(j)
      <4>1. PICK d \in Entries : record[d].key = j /\ Found(j) = {d}
        BY <3>4, FoundFacts DEF Missing
      <4>2. d # e /\ (CHOOSE x \in Found(j) : TRUE) = d
        BY <1>4, <2>2, <4>1
      <4>3. Value(j) = record[d].val
        BY <3>4, <4>2 DEF Value
      <4>4. Value(j)' = record'[d].val
        BY <3>1, <3>2, <3>4, <4>2 DEF Value
      <4> QED
        BY <1>8, <4>2, <4>3, <4>4
    <3> QED
      BY <3>3, <3>4
  <2> QED
    BY <2>1, <2>2
<1>13. /\ told' \in [Watchers -> [Keys -> Vals \cup {None}]]
       /\ \A s \in Watchers, j \in Keys : told'[s][j] = IF j = k THEN None ELSE told[s][j]
    BY <1>1 DEF TypeOK
<1>14. TypeOK'
  <2>1. record' \in [Entries -> Job] /\ sub_list' \in [Entries -> SUBSET Threads]
    <3>1. NoJob \in Job
      BY DEF NoJob, Job
    <3> QED
      BY <1>1, <1>4, <3>1 DEF TypeOK
  <2>2. pc' \in [Threads -> {"idle", "notify", "take", "link", "counted up",
                             "give", "given", "counted down"}]
    BY <1>2 DEF TypeOK
  <2>3. seen' \in [Threads -> (-1 .. Capacity) \cup {None}]
    <3>1. free_top \in (-1 .. Capacity) \cup {None}
      BY Bounds
    <3> QED
      BY <1>2, <3>1 DEF TypeOK
  <2>4. wlock' \in [Buckets -> Threads \cup {None}]
    BY <1>2 DEF TypeOK
  <2>5. job' \in [Threads -> Job]
    BY <1>2 DEF TypeOK, Job
  <2>6. idx' \in [Threads -> Entries \cup {None}]
    BY <1>1, <1>4 DEF TypeOK
  <2> QED
    BY <1>2, <1>7, <1>13, <2>1, <2>2, <2>3, <2>4, <2>5, <2>6 DEF TypeOK
<1>15. OnlyWriters' /\ StackOnce' /\ Counted' /\ Progress'
  <2>1. OnlyWriters' /\ StackOnce'
    BY <1>2, <1>5 DEF OnlyWriters, StackOnce
  <2>2. Counted'
    BY <1>2, <1>3, <1>5 DEF Counted
  <2>3. Progress'
    BY <1>2, <1>4, <1>5 DEF Progress
  <2> QED
    BY <2>1, <2>2, <2>3
<1>16. Locked'
  <2>1. wlock'[b] = t /\ \A c \in Buckets : c # b => wlock'[c] = wlock[c]
    BY <1>2 DEF TypeOK
  <2>2. \A u \in Threads : pc'[u] \in Changing =>
           job'[u].key \in Keys /\ wlock'[Bucket[job'[u].key]] = u
    BY <1>0, <1>5, <2>1 DEF Changing
  <2>3. \A c \in Buckets : wlock'[c] = None \/ rlock'[c] = {}
    BY <1>2, <2>1 DEF Locked
  <2>4. \A u \in Threads : handle'[u] # None => u \in rlock'[Bucket[handle'[u].key]]
    BY <1>2 DEF Locked
  <2> QED
    BY <2>2, <2>3, <2>4 DEF Locked
<1>17. ChainKeys'
    BY <1>8, <1>10 DEF ChainKeys
<1>18. ChainOnce'
  <2>1. ASSUME NEW c \in Buckets, NEW d \in Buckets,
               NEW i \in DOMAIN chain'[c], NEW j \in DOMAIN chain'[d],
               chain'[c][i] = chain'[d][j]
        PROVE  c = d /\ i = j
    <3>1. PICK p \in DOMAIN chain[c] :
             /\ chain'[c][i] = chain[c][p]
             /\ IF c = b /\ i >= n THEN p = i + 1 ELSE p = i
      <4>1. CASE c # b
        BY <1>7, <4>1
      <4>2. CASE c = b
        <5>1. i \in Int /\ n \in Int
          BY <1>6, <1>7, <4>2
        <5> QED
          BY <1>9, <4>2, <5>1
      <4> QED
        BY <4>1, <4>2
    <3>2. PICK q \in DOMAIN chain[d] :
             /\ chain'[d][j] = chain[d][q]
             /\ IF d = b /\ j >= n THEN q = j + 1 ELSE q = j
      <4>1. CASE d # b
        BY <1>7, <4>1
      <4>2. CASE d = b
        <5>1. j \in Int /\ n \in Int
          BY <1>6, <1>7, <4>2
        <5> QED
          BY <1>9, <4>2, <5>1
      <4> QED
        BY <4>1, <4>2
    <3>3. c = d /\ p = q
      <4>1. chain[c][p] = chain[d][q]
        BY <2>1, <3>1, <3>2
      <4> QED
        BY <4>1 DEF ChainOnce
    <3>4. CASE c # b
      BY <3>1, <3>2, <3>3, <3>4
    <3>5. CASE c = b
      <4>1. i \in Int /\ j \in Int /\ n \in Int
        BY <1>6, <1>7, <3>3, <3>5
      <4> QED
        BY <3>1, <3>2, <3>3, <3>5, <4>1
    <3> QED
      BY <3>4, <3>5
  <2> QED
    BY <2>1 DEF ChainOnce
<1>19. OnePlace'
  <2>1. \A d \in Entries : InSomeChain(d)' <=> InSomeChain(d) /\ d # e
    BY <1>10 DEF InSomeChain
  <2>2. \A d \in Entries : OnStack(d)' <=> OnStack(d)
    BY <1>2 DEF OnStack
  <2>3. \A d \in Entries : ~Carried(d) /\ (Carried(d)' <=> d = e)
    BY <1>3, <1>5 DEF Carried
  <2>4. InSomeChain(e)
    BY <1>4 DEF InSomeChain
  <2> QED
    BY <1>4, <2>1, <2>2, <2>3, <2>4 DEF OnePlace
<1>20. PointerStable'
  <2>1. ASSUME NEW u \in Threads, handle[u] # None
        PROVE  /\ record'[handle[u].entry] = [key |-> handle[u].key, val |-> handle[u].val]
               /\ InChain(Bucket[handle[u].key], handle[u].entry)'
    <3>1. /\ handle[u].entry \in Entries /\ Bucket[handle[u].key] \in Buckets
          /\ u \in rlock[Bucket[handle[u].key]]
          /\ InChain(Bucket[handle[u].key], handle[u].entry)
          /\ record[handle[u].entry] = [key |-> handle[u].key, val |-> handle[u].val]
      BY <2>1, HandleFacts DEF PointerStable
    <3>2. handle[u].entry # e
      <4>1. record[handle[u].entry].key = handle[u].key
        BY <3>1
      <4> QED
        BY <1>0, <1>2, <1>4, <3>1, <4>1
    <3>3. record'[handle[u].entry] = record[handle[u].entry]
      BY <1>8, <3>1, <3>2
    <3>4. InChain(Bucket[handle[u].key], handle[u].entry)'
      BY <1>2, <1>10, <3>1, <3>2
    <3> QED
      BY <3>1, <3>3, <3>4
  <2> QED
    BY <1>2, <2>1 DEF PointerStable
<1>21. ToldSubscribed'
  <2>1. ASSUME NEW s \in Watchers, NEW j \in Keys, told'[s][j] # None
        PROVE  \E d \in Found(j)' : s \in sub_list'[d]
    <3>1. j # k /\ told[s][j] # None
      BY <1>13, <2>1
    <3>2. PICK d \in Found(j) : s \in sub_list[d]
      BY <3>1 DEF ToldSubscribed, Subscribed
    <3>3. d \in Entries /\ d # e /\ d \in Found(j)'
      BY <1>4, <1>11, <3>1, <3>2, FoundFacts
    <3> QED
      BY <1>8, <3>2, <3>3
  <2> QED
    BY <2>1 DEF ToldSubscribed, Subscribed
<1>22. ToldLatest'
  <2>1. \A s \in Watchers, j \in Keys : told[s][j] \in {None, Value(j)}
    BY <1>3 DEF ToldLatest
  <2>2. \A s \in Watchers, j \in Keys : told'[s][j] \in {None, Value(j)'}
    BY <1>12, <1>13, <2>1
  <2> QED
    BY <2>2 DEF ToldLatest
<1> QED
    BY <1>12, <1>14, <1>15, <1>16, <1>17, <1>18, <1>19, <1>20, <1>21, <1>22

\* The entry unlinked goes back on the stack: there is room for it, because the
\* entries on the stack are distinct and it is none of them.
LEMMA GiveStep ==
    ASSUME OneWriter, IInv, NEW t \in Threads, DelGive(t)
    PROVE  IInv'
<1> USE DEF IInv, locks, store, results
<1>1. /\ UNCHANGED <<chain, record>> /\ UNCHANGED <<rlock, wlock, sub_list>>
      /\ UNCHANGED used_count
      /\ UNCHANGED <<job, idx, seen, notes, handle, answer, told>>
      /\ pc[t] = "give" /\ pc' = [pc EXCEPT ![t] = "given"]
      /\ free_top' = seen[t] + 1
      /\ free_stack' = [free_stack EXCEPT ![seen[t] + 1] = idx[t]]
    BY DEF DelGive, Goto
<1>2. \A u \in Threads : u # t => pc[u] = "idle"
    BY <1>1, Alone DEF OnlyWriters
<1>3. PICK x \in Entries : x = idx[t]
    BY <1>1 DEF Progress
<1>4. seen[t] = free_top
    BY <1>1 DEF Progress
<1>5. /\ \A u \in Threads : u # t => pc'[u] = "idle"
      /\ pc'[t] = "given"
    BY <1>1, <1>2 DEF TypeOK
<1>6. Carried(x) /\ ~InSomeChain(x) /\ ~OnStack(x)
    BY <1>1, <1>3 DEF Carried, OnePlace
<1>7. free_stack \in [Entries -> Entries]
    BY DEF TypeOK
<1>8. free_top' = free_top + 1 /\ free_top' \in 0 .. Capacity - 1
  <2>1. free_top' = free_top + 1
    BY <1>1, <1>4
  <2>2. SUFFICES ASSUME free_top = Capacity - 1 PROVE FALSE
    BY <2>1, Bounds
  <2>3. PICK i \in Entries : free_stack[i] = x
    <3>1. free_stack \in Injection(Entries, Entries)
      BY <1>7, <2>2 DEF StackOnce, Injection, IsInjective, Entries
    <3>2. IsFiniteSet(Entries)
      BY Bounds, FS_Interval DEF Entries
    <3>3. free_stack \in Surjection(Entries, Entries)
      BY <3>1, <3>2, FS_Injection
    <3> QED
      BY <3>3 DEF Surjection
  <2> QED
    BY <1>6, <2>2, <2>3 DEF OnStack, Entries
<1>9. /\ free_top' \in Entries /\ free_stack'[free_top'] = x
      /\ \A i \in 0 .. free_top : i \in Entries /\ i # free_top' /\ free_stack'[i] = free_stack[i]
      /\ free_stack' \in [Entries -> Entries]
  <2>1. free_top' \in Entries /\ \A i \in 0 .. free_top : i \in Entries /\ i # free_top'
    BY <1>8, Bounds DEF Entries
  <2>2. free_stack' = [free_stack EXCEPT ![free_top'] = x]
    BY <1>1, <1>3
  <2> QED
    BY <1>7, <2>1, <2>2
<1>10. \A i : i \in 0 .. free_top' <=> i \in 0 .. free_top \/ i = free_top'
    BY <1>8, Bounds
<1>11. TypeOK'
  <2>1. pc' \in [Threads -> {"idle", "notify", "take", "link", "counted up",
                             "give", "given", "counted down"}]
    BY <1>1 DEF TypeOK
  <2>2. free_top' \in -1 .. Capacity - 1
    BY <1>8, Bounds
  <2> QED
    BY <1>1, <1>9, <2>1, <2>2 DEF TypeOK
<1>12. OnlyWriters' /\ Locked' /\ Progress'
  <2>1. OnlyWriters' /\ Locked'
    BY <1>1, <1>5 DEF OnlyWriters, Locked, Changing
  <2>2. Progress'
    BY <1>5 DEF Progress
  <2> QED
    BY <2>1, <2>2
<1>13. Counted'
  <2>1. used_count + free_top = Capacity - 1
    BY <1>1, <1>2 DEF Counted
  <2>2. used_count' + free_top' = Capacity
    <3>1. used_count' = used_count
      BY <1>1
    <3> QED
      BY <1>8, <2>1, <3>1, Bounds
  <2> QED
    BY <1>5, <2>2 DEF Counted
<1>14. \A d \in Entries : OnStack(d)' <=> OnStack(d) \/ d = x
    BY <1>9, <1>10 DEF OnStack
<1>15. StackOnce'
  <2>1. \A i \in 0 .. free_top : free_stack[i] # x
    BY <1>6 DEF OnStack
  <2> QED
    BY <1>9, <1>10, <2>1 DEF StackOnce
<1>16. OnePlace'
  <2>1. \A d : InSomeChain(d)' <=> InSomeChain(d)
    BY <1>1, StoreFrame DEF InSomeChain
  <2>2. \A d \in Entries : (Carried(d) <=> d = x) /\ ~Carried(d)'
    BY <1>1, <1>2, <1>3, <1>5 DEF Carried
  <2> QED
    BY <1>6, <1>14, <2>1, <2>2 DEF OnePlace
<1> QED
    BY <1>1, <1>2, <1>11, <1>12, <1>13, <1>15, <1>16, PoolStep

\* used_count is read, to be written back less one.
LEMMA CountStep ==
    ASSUME OneWriter, IInv, NEW t \in Threads, DelCount(t)
    PROVE  IInv'
<1> USE DEF IInv, locks, store, pool, results
<1>1. /\ UNCHANGED <<chain, record>> /\ UNCHANGED <<rlock, wlock, sub_list>>
      /\ UNCHANGED <<free_stack, free_top, used_count>>
      /\ UNCHANGED <<job, idx, notes, handle, answer, told>>
      /\ pc[t] = "given" /\ pc' = [pc EXCEPT ![t] = "counted down"]
      /\ seen' = [seen EXCEPT ![t] = used_count]
    BY DEF DelCount, Goto
<1>2. \A u \in Threads : u # t => pc[u] = "idle"
    BY <1>1, Alone DEF OnlyWriters
<1>3. /\ \A u \in Threads : u # t => pc'[u] = "idle"
      /\ pc'[t] = "counted down" /\ seen'[t] = used_count
    BY <1>1, <1>2 DEF TypeOK
<1>4. TypeOK'
  <2>1. pc' \in [Threads -> {"idle", "notify", "take", "link", "counted up",
                             "give", "given", "counted down"}]
    BY <1>1 DEF TypeOK
  <2>2. seen' \in [Threads -> (-1 .. Capacity) \cup {None}]
    <3>1. used_count \in (-1 .. Capacity) \cup {None}
      BY Bounds
    <3> QED
      BY <1>1, <3>1 DEF TypeOK
  <2> QED
    BY <1>1, <2>1, <2>2 DEF TypeOK
<1>5. OnlyWriters' /\ Locked' /\ Progress'
  <2>1. OnlyWriters' /\ Locked'
    BY <1>1, <1>3 DEF OnlyWriters, Locked, Changing
  <2>2. Progress'
    BY <1>1, <1>3 DEF Progress
  <2> QED
    BY <2>1, <2>2
<1>6. Counted' /\ StackOnce'
  <2>1. used_count + free_top = Capacity
    BY <1>1 DEF Counted
  <2> QED
    BY <1>1, <1>3, <2>1 DEF Counted, StackOnce
<1>7. OnePlace'
  <2>1. \A d : ~Carried(d) /\ ~Carried(d)'
    BY <1>1, <1>2, <1>3 DEF Carried
  <2>2. \A d : (InSomeChain(d)' <=> InSomeChain(d)) /\ (OnStack(d)' <=> OnStack(d))
    BY <1>1, StoreFrame DEF InSomeChain, OnStack
  <2> QED
    BY <2>1, <2>2 DEF OnePlace
<1> QED
    BY <1>1, <1>2, <1>4, <1>5, <1>6, <1>7, PoolStep

\* The last step of nos_kv_del: the bucket is unlocked.
LEMMA CountDownStep ==
    ASSUME OneWriter, IInv, NEW t \in Threads, CountDown(t)
    PROVE  IInv'
<1> USE DEF IInv, store, results
<1>1. /\ UNCHANGED <<chain, record>> /\ UNCHANGED <<rlock, sub_list>>
      /\ UNCHANGED <<free_stack, free_top>>
      /\ UNCHANGED <<notes, handle, answer, told>>
      /\ Return(t, "counted down") /\ pc[t] = "counted down"
      /\ used_count' = seen[t] - 1
      /\ wlock' = [wlock EXCEPT ![Bucket[job[t].key]] = None]
    BY DEF CountDown, Return, Goto
<1>2. \A u \in Threads : u # t => pc[u] = "idle"
    BY <1>1, Alone DEF OnlyWriters
<1>3. \A u \in Threads : pc'[u] = "idle"
    BY <1>1, <1>2, ReturnFacts
<1>4. seen[t] = used_count /\ used_count + free_top = Capacity
  <2>1. seen[t] = used_count
    BY <1>1 DEF Progress
  <2>2. used_count + free_top = Capacity
    BY <1>1 DEF Counted
  <2> QED
    BY <2>1, <2>2
<1>5. used_count' = used_count - 1 /\ used_count' \in 0 .. Capacity
  <2>1. used_count' = used_count - 1
    BY <1>1, <1>4
  <2> QED
    BY <1>4, <2>1, Bounds
<1>6. TypeOK'
  <2>1. wlock' \in [Buckets -> Threads \cup {None}]
    BY <1>1 DEF TypeOK
  <2>2. /\ pc' \in [Threads -> {"idle", "notify", "take", "link", "counted up",
                                "give", "given", "counted down"}]
        /\ job' \in [Threads -> Job] /\ idx' \in [Threads -> Entries \cup {None}]
        /\ seen' \in [Threads -> (-1 .. Capacity) \cup {None}]
    BY <1>1, ReturnFacts
  <2> QED
    BY <1>1, <1>5, <2>1, <2>2 DEF TypeOK
<1>7. OnlyWriters' /\ StackOnce' /\ Progress'
    BY <1>1, <1>3 DEF OnlyWriters, StackOnce, Progress
<1>8. Locked'
    BY <1>1, <1>3 DEF Locked, Changing, TypeOK
<1>9. Counted'
  <2>1. used_count' + free_top' = Capacity - 1
    <3>1. free_top' = free_top
      BY <1>1
    <3> QED
      BY <1>4, <1>5, <3>1, Bounds
  <2> QED
    BY <1>3, <2>1 DEF Counted
<1>10. OnePlace'
  <2>1. \A d : ~Carried(d) /\ ~Carried(d)'
    BY <1>1, <1>2, <1>3 DEF Carried
  <2>2. \A d : (InSomeChain(d)' <=> InSomeChain(d)) /\ (OnStack(d)' <=> OnStack(d))
    BY <1>1, StoreFrame DEF InSomeChain, OnStack
  <2> QED
    BY <2>1, <2>2 DEF OnePlace
<1> QED
    BY <1>1, <1>2, <1>6, <1>7, <1>8, <1>9, <1>10, PoolStep

\* Every step of one writer and its readers keeps the invariant.
LEMMA NextIInv == OneWriter /\ IInv /\ [Next]_vars => IInv'
<1> SUFFICES ASSUME OneWriter, IInv, [Next]_vars PROVE IInv'
    OBVIOUS
<1>1. CASE UNCHANGED vars
  <2>1. UNCHANGED <<locks, store, pool, locals, handle, told>> /\ answer' = answer
    BY <1>1 DEF vars, results
  <2>2. answer \in Vals \cup {None, "ok", "busy"}
    BY DEF IInv, TypeOK
  <2> QED
    BY <2>1, <2>2, AnswerStep
<1>2. CASE Next
  <2>1. PICK t \in Threads : Put(t) \/ Del(t) \/ Use(t)
    BY <1>2 DEF Next
  <2>2. ASSUME NEW k \in Keys, PutFull(t, k) \/ DelMissing(t, k) \/ Get(t, k)
        PROVE  IInv'
    <3>1. UNCHANGED <<locks, store, pool, locals, handle, told>>
      BY <2>2 DEF PutFull, DelMissing, Get
    <3>2. answer' \in Vals \cup {None, "ok", "busy"}
      <4>1. Value(k) \in Vals \cup {None}
        BY FoundFacts DEF IInv
      <4> QED
        BY <2>2, <4>1 DEF PutFull, DelMissing, Get
    <3> QED
      BY <3>1, <3>2, AnswerStep
  <2>3. CASE Put(t)
    BY <2>2, <2>3, UpdateStep, NewStep, NotifyStep, TakeStep, LinkStep, CountUpStep DEF Put
  <2>4. CASE Del(t)
    BY <2>2, <2>4, UnlinkStep, GiveStep, CountStep, CountDownStep DEF Del
  <2>5. CASE Use(t)
    BY <2>2, <2>5, PointerStep, SubscribeStep DEF Use
  <2> QED
    BY <2>1, <2>3, <2>4, <2>5
<1> QED
    BY <1>1, <1>2
-----------------------------------------------------------------------------
(* What follows for the table. *)

\* The invariant the safety theorems rest on.
LEMMA Invariant == OneWriter => (Spec => []IInv)
<1> SUFFICES ASSUME OneWriter PROVE Spec => []IInv
    OBVIOUS
<1>1. IInv /\ [Next]_vars => IInv'
    BY NextIInv
<1> QED
    BY InitIInv, <1>1, PTL DEF Spec

\* With one writer the counters stay within the table: free_top never leaves
\* the free stack and used_count never goes below zero or above the capacity.
THEOREM TypesHold == OneWriter => (Spec => []TypeOK)
<1>1. IInv => TypeOK
    BY DEF IInv
<1> QED
    BY Invariant, <1>1, PTL

\* With one writer no entry of nos_kv_put and nos_kv_del is lost or handed out
\* twice: it is on the free stack, in one chain, or carried between the two.
THEOREM EntriesConserved == OneWriter => (Spec => []EntryInOnePlace)
<1>1. IInv => EntryInOnePlace
    BY DEF IInv, EntryInOnePlace, OnePlace, StackOnce, ChainOnce
<1> QED
    BY Invariant, <1>1, PTL

\* The value that nos_kv_get_ptr points to stays as it was read until
\* nos_kv_release_ptr.
THEOREM PointersStable == OneWriter => (Spec => []PointerStable)
<1>1. IInv => PointerStable
    BY DEF IInv
<1> QED
    BY Invariant, <1>1, PTL

\* With one writer the callbacks of nos_kv_put, called outside the lock, leave
\* every subscriber with the value that is stored.
THEOREM SubscribersUpToDate == OneWriter => (Spec => []ToldLatest)
<1>1. IInv => ToldLatest
    BY DEF IInv
<1> QED
    BY Invariant, <1>1, PTL
-----------------------------------------------------------------------------
(* The table implements the bounded map. *)

\* The keys the table has, as KvMap sees them.
StoredKeys == {k \in Keys : Value(k) # None}

EntryOf == [k \in StoredKeys |-> CHOOSE e \in Found(k) : TRUE]

\* Each stored key has an entry of its own.
LEMMA EntryOfFacts ==
    ASSUME IInv
    PROVE  /\ EntryOf \in Injection(StoredKeys, Entries)
           /\ \A k \in StoredKeys : InSomeChain(EntryOf[k])
           /\ \A e \in Entries : InSomeChain(e) => \E k \in StoredKeys : EntryOf[k] = e
<1>0. TypeOK /\ ChainKeys
    BY DEF IInv
<1>1. ASSUME NEW k \in StoredKeys
      PROVE  /\ EntryOf[k] \in Entries /\ record[EntryOf[k]].key = k
             /\ InSomeChain(EntryOf[k])
  <2>1. k \in Keys /\ ~Missing(k)
    BY <1>0, FoundFacts DEF StoredKeys
  <2>2. EntryOf[k] \in Found(k)
    BY <2>1 DEF EntryOf, Missing
  <2> QED
    BY <1>0, <2>1, <2>2, FoundFacts DEF InSomeChain
<1>2. EntryOf \in Injection(StoredKeys, Entries)
  <2>1. EntryOf \in [StoredKeys -> Entries]
    BY <1>1 DEF EntryOf
  <2> QED
    BY <1>1, <2>1 DEF Injection, IsInjective
<1>3. ASSUME NEW e \in Entries, InSomeChain(e)
      PROVE  \E k \in StoredKeys : EntryOf[k] = e
  <2>1. PICK b \in Buckets : InChain(b, e)
    BY <1>3 DEF InSomeChain
  <2>2. PICK k \in Keys : k = record[e].key /\ Bucket[k] = b
    BY <1>0, <2>1 DEF ChainKeys
  <2>3. e \in Found(k)
    BY <2>1, <2>2 DEF Found, InChain
  <2>4. Found(k) = {e} /\ k \in StoredKeys
    BY <1>0, <2>3, FoundFacts, TableAssumption DEF StoredKeys
  <2> QED
    BY <2>4 DEF EntryOf
<1> QED
    BY <1>1, <1>2, <1>3

\* How many entries there are.
LEMMA EntriesFinite == IsFiniteSet(Entries) /\ Cardinality(Entries) = Capacity
<1>1. Capacity \in Int /\ Capacity > 0
    BY TableAssumption
<1> QED
    BY <1>1, FS_Interval DEF Entries

\* The table is full when every entry is in a chain.
LEMMA FullTable ==
    ASSUME IInv, \A e \in Entries : InSomeChain(e)
    PROVE  Cardinality(StoredKeys) = Capacity
<1>1. EntryOf \in Surjection(StoredKeys, Entries)
    BY EntryOfFacts DEF Surjection, Injection
<1> QED
    BY <1>1, EntryOfFacts, EntriesFinite, FS_Injection

\* There is room in the map while an entry is in no chain.
LEMMA RoomInTable ==
    ASSUME IInv, NEW x \in Entries, ~InSomeChain(x)
    PROVE  Cardinality(StoredKeys) < Capacity
<1>1. EntryOf \notin Surjection(StoredKeys, Entries)
    BY EntryOfFacts DEF Surjection
<1>2. /\ IsFiniteSet(StoredKeys) /\ Cardinality(StoredKeys) <= Capacity
      /\ Cardinality(StoredKeys) # Capacity
    BY <1>1, EntryOfFacts, EntriesFinite, FS_Injection
<1>3. Cardinality(StoredKeys) \in Int /\ Capacity \in Int
    BY <1>2, FS_CardinalityType, TableAssumption
<1> QED
    BY <1>2, <1>3

\* The map that a step leaves, from the values it leaves.
LEMMA DictStep ==
    ASSUME NEW k \in Keys, NEW v, \A j \in Keys : Value(j)' = IF j = k THEN v ELSE Value(j)
    PROVE  [j \in Keys |-> Value(j)]' = [[j \in Keys |-> Value(j)] EXCEPT ![k] = v]
OBVIOUS

\* A step that leaves the values and the answer alone is invisible.
LEMMA MapStutters ==
    ASSUME \A j \in Keys : Value(j)' = Value(j), answer' = answer
    PROVE  UNCHANGED Map!mvars
<1>1. [j \in Keys |-> Value(j)]' = [j \in Keys |-> Value(j)]
    OBVIOUS
<1> QED
    BY <1>1 DEF Map!mvars

\* Each call's effect happens in one of its steps: the update or the link of
\* nos_kv_put, the unlink of nos_kv_del; the steps on the free stack and on
\* used_count do not show.
LEMMA MapStep ==
    ASSUME OneWriter, IInv, [Next]_vars
    PROVE  [Map!MNext]_Map!mvars
<1>0. Map!Stored = StoredKeys /\ Map!Cardinality(Map!Stored) = Cardinality(StoredKeys)
  <2>1. Map!Stored = StoredKeys
    BY DEF Map!Stored, StoredKeys
  <2>2. Map!Cardinality(StoredKeys) = Cardinality(StoredKeys)
    BY DEF Map!Cardinality, Cardinality
  <2> QED
    BY <2>1, <2>2
<1>1. ASSUME UNCHANGED <<chain, record>>, answer' = answer
      PROVE  UNCHANGED Map!mvars
    BY <1>1, StoreFrame, MapStutters
<1>2. CASE UNCHANGED vars
    BY <1>1, <1>2 DEF vars, store, results
<1>3. CASE Next
  <2>1. PICK t \in Threads : Put(t) \/ Del(t) \/ Use(t)
    BY <1>3 DEF Next
  <2>2. ASSUME NEW k \in Keys, PutFull(t, k)
        PROVE  Map!Refuse
    <3>1. t \in Writers /\ pc[t] = "idle" /\ free_top < 0 /\ answer' = "busy"
          /\ UNCHANGED <<chain, record>>
      BY <2>2 DEF PutFull, MayWrite, store
    <3>2. \A u \in Threads : pc[u] = "idle"
      BY <3>1, Alone DEF IInv
    <3>3. \A e \in Entries : ~Carried(e) /\ ~OnStack(e)
      BY <3>1, <3>2, Bounds DEF Carried, OnStack, IInv
    <3>4. Cardinality(StoredKeys) = Capacity
      BY <3>3, FullTable DEF IInv, OnePlace
    <3>5. [j \in Keys |-> Value(j)]' = [j \in Keys |-> Value(j)]
      BY <3>1, StoreFrame
    <3> QED
      BY <1>0, <3>1, <3>4, <3>5 DEF Map!Refuse
  <2>3. ASSUME NEW k \in Keys, NEW v \in Vals, PutUpdate(t, k, v)
        PROVE  Map!Store(k, v)
    <3>1. k \in StoredKeys
      <4>1. PICK e \in Found(k) : TRUE
        BY <2>3 DEF PutUpdate
      <4>2. Value(k) \in Vals
        BY <4>1, FoundFacts DEF IInv
      <4> QED
        BY <4>2, TableAssumption DEF StoredKeys
    <3>2. [j \in Keys |-> Value(j)]' = [[j \in Keys |-> Value(j)] EXCEPT ![k] = v]
      BY <2>3, UpdateStep, DictStep
    <3>3. answer' = "ok"
      BY <2>3 DEF PutUpdate
    <3> QED
      BY <1>0, <3>1, <3>2, <3>3 DEF Map!Store
  <2>4. ASSUME PutLink(t)
        PROVE  \E k \in Keys, v \in Vals : Map!Store(k, v)
    <3>1. pc[t] = "link" /\ answer' = "ok"
      BY <2>4 DEF PutLink, Goto
    <3>2. PICK x \in Entries : x = idx[t]
      BY <3>1 DEF IInv, Progress
    <3>3. PICK k \in Keys, v \in Vals : k = job[t].key /\ v = job[t].val
      <4>1. job[t].key \in Keys
        BY <3>1 DEF IInv, Locked, Changing
      <4>2. job[t].val \in Vals
        BY <3>1 DEF IInv, Progress
      <4> QED
        BY <4>1, <4>2
    <3>4. ~InSomeChain(x)
      BY <3>1, <3>2 DEF IInv, OnePlace, Carried
    <3>5. Cardinality(StoredKeys) < Capacity
      BY <3>4, RoomInTable
    <3>6. [j \in Keys |-> Value(j)]' = [[j \in Keys |-> Value(j)] EXCEPT ![k] = v]
      BY <2>4, <3>3, LinkStep, DictStep
    <3>7. Map!Store(k, v)
      BY <1>0, <3>1, <3>5, <3>6 DEF Map!Store
    <3> QED
      BY <3>7
  <2>5. ASSUME NEW k \in Keys, DelUnlink(t, k)
        PROVE  Map!Remove(k)
    <3>1. k \in StoredKeys
      <4>1. PICK e \in Found(k) : TRUE
        BY <2>5 DEF DelUnlink
      <4>2. Value(k) \in Vals
        BY <4>1, FoundFacts DEF IInv
      <4> QED
        BY <4>2, TableAssumption DEF StoredKeys
    <3>2. [j \in Keys |-> Value(j)]' = [[j \in Keys |-> Value(j)] EXCEPT ![k] = None]
      BY <2>5, UnlinkStep, DictStep
    <3>3. answer' = "ok"
      BY <2>5 DEF DelUnlink
    <3> QED
      BY <1>0, <3>1, <3>2, <3>3 DEF Map!Remove
  <2>6. ASSUME NEW k \in Keys, DelMissing(t, k) \/ Get(t, k)
        PROVE  Map!Read(k)
    <3>1. UNCHANGED <<chain, record>> /\ answer' = Value(k)
      BY <2>6 DEF DelMissing, Get, store, Value
    <3>2. [j \in Keys |-> Value(j)]' = [j \in Keys |-> Value(j)]
      BY <3>1, StoreFrame
    <3> QED
      BY <3>1, <3>2 DEF Map!Read
  <2>7. ASSUME \/ \E k \in Keys, v \in Vals : PutNew(t, k, v)
               \/ \E s \in Threads : Notify(t, s)
               \/ PutTake(t) \/ CountUp(t)
               \/ DelGive(t) \/ DelCount(t) \/ CountDown(t)
               \/ \E k \in Keys : GetPtr(t, k) \/ Subscribe(t, k) \/ Unsubscribe(t, k)
               \/ ReleasePtr(t)
        PROVE  UNCHANGED Map!mvars
    <3>1. UNCHANGED <<chain, record>> /\ answer' = answer
      BY <2>7 DEF PutNew, Notify, PutTake, CountUp, DelGive, DelCount, CountDown,
                  GetPtr, Subscribe, Unsubscribe, ReleasePtr, store, results
    <3> QED
      BY <1>1, <3>1
  <2>8. CASE Put(t)
    BY <2>2, <2>3, <2>4, <2>7, <2>8 DEF Put, Map!MNext
  <2>9. CASE Del(t)
    BY <2>5, <2>6, <2>7, <2>9 DEF Del, Map!MNext
  <2>10. CASE Use(t)
    BY <2>6, <2>7, <2>10 DEF Use, Map!MNext
  <2> QED
    BY <2>1, <2>8, <2>9, <2>10
<1> QED
    BY <1>2, <1>3

\* A new table is an empty map.
LEMMA MapInit == Init => Map!MInit
<1> SUFFICES ASSUME Init PROVE Map!MInit
    OBVIOUS
<1>1. \A b \in Buckets : \A e : ~InChain(b, e)
    BY DEF Init, InChain
<1>2. \A k \in Keys : Value(k) = None
    BY <1>1 DEF Buckets, Missing, Value, Found, InChain
<1> QED
    BY <1>2 DEF Init, Map!MInit

\* With one writer and any number of readers, nos_kv_put, nos_kv_get and
\* nos_kv_del implement a map of Capacity keys: a put is refused only when the
\* map is full, and a read returns the last value put and not deleted.
THEOREM TableIsMap == OneWriter => (Spec => ImplementsMap)
<1> SUFFICES ASSUME OneWriter PROVE Spec => ImplementsMap
    OBVIOUS
<1>1. IInv /\ [Next]_vars => [Map!MNext]_Map!mvars
    BY MapStep
<1> QED
    BY Invariant, MapInit, <1>1, PTL DEF Spec, ImplementsMap, Map!MSpec
-----------------------------------------------------------------------------
(* With any number of writers.                                              *)

\* Whoever is in the middle of a put or a delete is alone in its bucket: no
\* reader holds a pointer into it and no other put or delete changes it.
BucketExclusive ==
    \A t \in Threads : pc[t] \in Changing =>
        /\ rlock[Bucket[job[t].key]] = {}
        /\ \A u \in Threads \ {t} :
              /\ pc[u] \in Changing => Bucket[job[u].key] # Bucket[job[t].key]
              /\ handle[u] # None => Bucket[handle[u].key] # Bucket[job[t].key]

\* The types the locks depend on.  Those of the free stack and its counters do
\* not survive a second writer (run kv_writers).
Places == {"idle", "notify"} \cup Changing
LockTypes ==
    /\ rlock \in [Buckets -> SUBSET Threads]
    /\ wlock \in [Buckets -> Threads \cup {None}]
    /\ record \in [Entries -> Job]
    /\ pc \in [Threads -> Places] /\ job \in [Threads -> Job]
    /\ handle \in [Threads -> [key : Keys, entry : Entries, val : Vals \cup {None}] \cup {None}]

LockInv == LockTypes /\ Locked

LEMMA InitLockInv == Init => LockInv
BY TableAssumption
   DEF Init, LockInv, LockTypes, Locked, Places, Changing, Job, NoJob, Buckets, Entries

\* A step of a thread that takes and gives back no lock, and is in the middle
\* of a put or a delete after it only if it was before.
LEMMA NoLockStep ==
    ASSUME LockInv, NEW t \in Threads, UNCHANGED <<locks, handle>>,
           record' \in [Entries -> Job], job' \in [Threads -> Job],
           NEW p \in Places, pc' = [pc EXCEPT ![t] = p],
           \A u \in Threads \ {t} : job'[u] = job[u],
           p \in Changing => pc[t] \in Changing /\ job'[t] = job[t]
    PROVE  LockInv'
<1>1. LockTypes'
    BY DEF LockInv, LockTypes, locks
<1>2. \A u \in Threads : pc'[u] \in Changing => pc[u] \in Changing /\ job'[u] = job[u]
    BY DEF LockInv, LockTypes
<1>3. Locked'
    BY <1>2 DEF LockInv, Locked, locks
<1> QED
    BY <1>1, <1>3 DEF LockInv

\* The types of what a put or a delete leaves behind when it returns.
LEMMA ReturnTypes ==
    ASSUME LockInv, NEW t \in Threads, NEW from, Return(t, from)
    PROVE  /\ pc[t] = from /\ pc' = [pc EXCEPT ![t] = "idle"]
           /\ job' \in [Threads -> Job] /\ \A u \in Threads \ {t} : job'[u] = job[u]
<1>1. NoJob \in Job
    BY DEF NoJob, Job
<1> QED
    BY <1>1 DEF Return, Goto, LockInv, LockTypes

\* Put and delete lock a bucket that nobody has.
LEMMA AcquireStep ==
    ASSUME LockInv, NEW t \in Threads, NEW k \in Keys, NEW v \in Vals \cup {None},
           CanWrite(k), NEW p \in Changing, pc[t] = "idle",
           pc' = [pc EXCEPT ![t] = p], job' = [job EXCEPT ![t] = [key |-> k, val |-> v]],
           wlock' = [wlock EXCEPT ![Bucket[k]] = t],
           record' \in [Entries -> Job], UNCHANGED <<rlock, handle>>
    PROVE  LockInv'
<1>1. Bucket[k] \in Buckets /\ wlock[Bucket[k]] = None /\ rlock[Bucket[k]] = {}
    BY DEF Buckets, CanWrite
<1>2. [key |-> k, val |-> v] \in Job
    BY DEF Job
<1>3. LockTypes'
  <2>1. wlock' \in [Buckets -> Threads \cup {None}]
    BY <1>1 DEF LockInv, LockTypes
  <2>2. pc' \in [Threads -> Places] /\ job' \in [Threads -> Job]
    BY <1>2 DEF LockInv, LockTypes, Places
  <2> QED
    BY <2>1, <2>2 DEF LockInv, LockTypes
<1>4. /\ wlock'[Bucket[k]] = t /\ \A b \in Buckets : b # Bucket[k] => wlock'[b] = wlock[b]
      /\ pc'[t] = p /\ job'[t].key = k
      /\ \A u \in Threads \ {t} : pc'[u] = pc[u] /\ job'[u] = job[u]
    BY <1>1 DEF LockInv, LockTypes
<1>5. ASSUME NEW u \in Threads, pc'[u] \in Changing
      PROVE  job'[u].key \in Keys /\ wlock'[Bucket[job'[u].key]] = u
  <2>1. CASE u = t
    BY <1>4, <2>1
  <2>2. CASE u # t
    <3>1. job[u].key \in Keys /\ wlock[Bucket[job[u].key]] = u
      BY <1>4, <1>5, <2>2 DEF LockInv, Locked
    <3>2. Bucket[job[u].key] \in Buckets /\ Bucket[job[u].key] # Bucket[k]
      BY <1>1, <3>1, TableAssumption DEF Buckets
    <3> QED
      BY <1>4, <2>2, <3>1, <3>2
  <2> QED
    BY <2>1, <2>2
<1>6. Locked'
  <2>1. \A b \in Buckets : wlock'[b] = None \/ rlock'[b] = {}
    BY <1>1, <1>4 DEF LockInv, Locked
  <2>2. \A u \in Threads : handle'[u] # None => u \in rlock'[Bucket[handle'[u].key]]
    BY DEF LockInv, Locked
  <2> QED
    BY <1>5, <2>1, <2>2 DEF Locked
<1> QED
    BY <1>3, <1>6 DEF LockInv

\* At their end they give it back.
LEMMA GiveBackStep ==
    ASSUME LockInv, NEW t \in Threads, NEW from \in Changing, Return(t, from),
           wlock' = [wlock EXCEPT ![Bucket[job[t].key]] = None],
           UNCHANGED <<rlock, handle, record>>
    PROVE  LockInv'
<1>1. /\ pc[t] = from /\ pc' = [pc EXCEPT ![t] = "idle"]
      /\ job' \in [Threads -> Job] /\ \A u \in Threads \ {t} : job'[u] = job[u]
    BY ReturnTypes
<1>2. PICK b \in Buckets : b = Bucket[job[t].key] /\ wlock[b] = t
    BY <1>1 DEF LockInv, Locked, Buckets
<1>3. LockTypes'
    BY <1>1, <1>2 DEF LockInv, LockTypes, Places
<1>4. \A u \in Threads : pc'[u] \in Changing => u # t /\ pc[u] \in Changing /\ job'[u] = job[u]
    BY <1>1 DEF LockInv, LockTypes, Changing
<1>5. wlock'[b] = None /\ \A c \in Buckets : c # b => wlock'[c] = wlock[c]
    BY <1>2 DEF LockInv, LockTypes
<1>6. ASSUME NEW u \in Threads, pc'[u] \in Changing
      PROVE  job'[u].key \in Keys /\ wlock'[Bucket[job'[u].key]] = u
  <2>1. u # t /\ job'[u] = job[u] /\ job[u].key \in Keys /\ wlock[Bucket[job[u].key]] = u
    BY <1>4, <1>6 DEF LockInv, Locked
  <2>2. Bucket[job[u].key] \in Buckets /\ Bucket[job[u].key] # b
    BY <1>2, <2>1 DEF Buckets
  <2> QED
    BY <1>5, <2>1, <2>2
<1>7. Locked'
    BY <1>5, <1>6 DEF LockInv, Locked
<1> QED
    BY <1>3, <1>7 DEF LockInv

\* A reader takes a bucket that is not being changed; it lets go of its own.
LEMMA ReaderStep ==
    ASSUME LockInv, NEW t \in Threads, (\E k \in Keys : GetPtr(t, k)) \/ ReleasePtr(t)
    PROVE  LockInv'
<1>1. UNCHANGED <<wlock, record, pc, job>>
    BY DEF GetPtr, ReleasePtr, store, locals
<1>2. ASSUME NEW k \in Keys, GetPtr(t, k) PROVE LockInv'
  <2>1. PICK e \in Found(k) :
           handle' = [handle EXCEPT ![t] = [key |-> k, entry |-> e, val |-> record[e].val]]
    BY <1>2 DEF GetPtr
  <2>2. Bucket[k] \in Buckets /\ wlock[Bucket[k]] = None
        /\ rlock' = [rlock EXCEPT ![Bucket[k]] = @ \cup {t}]
    BY <1>2 DEF GetPtr, CanRead, Buckets
  <2>3. e \in Entries /\ record[e].val \in Vals \cup {None}
    BY DEF Found, LockInv, LockTypes, Job
  <2>4. LockTypes'
    BY <1>1, <2>1, <2>2, <2>3 DEF LockInv, LockTypes
  <2>5. /\ rlock'[Bucket[k]] = rlock[Bucket[k]] \cup {t}
        /\ \A b \in Buckets : b # Bucket[k] => rlock'[b] = rlock[b]
    BY <2>2 DEF LockInv, LockTypes
  <2>6. /\ handle'[t] # None => handle'[t].key = k
        /\ \A u \in Threads \ {t} : handle'[u] = handle[u]
    BY <2>1 DEF LockInv, LockTypes
  <2>7. ASSUME NEW u \in Threads, handle'[u] # None
        PROVE  u \in rlock'[Bucket[handle'[u].key]]
    <3>1. CASE u = t
      BY <2>5, <2>6, <2>7, <3>1
    <3>2. CASE u # t
      <4>1. u \in rlock[Bucket[handle[u].key]] /\ handle'[u] = handle[u] /\ handle[u].key \in Keys
        BY <2>6, <2>7, <3>2 DEF LockInv, Locked, LockTypes
      <4>2. Bucket[handle[u].key] \in Buckets
        BY <4>1 DEF Buckets
      <4> QED
        BY <2>5, <4>1, <4>2
    <3> QED
      BY <3>1, <3>2
  <2>8. \A b \in Buckets : wlock'[b] = None \/ rlock'[b] = {}
    BY <1>1, <2>2, <2>5 DEF LockInv, Locked
  <2>9. Locked'
    BY <1>1, <2>7, <2>8 DEF LockInv, Locked
  <2> QED
    BY <2>4, <2>9 DEF LockInv
<1>3. CASE ReleasePtr(t)
  <2>1. handle[t] # None /\ handle' = [handle EXCEPT ![t] = None]
        /\ rlock' = [rlock EXCEPT ![Bucket[handle[t].key]] = @ \ {t}]
    BY <1>3 DEF ReleasePtr
  <2>2. PICK b \in Buckets : b = Bucket[handle[t].key]
    BY <2>1 DEF LockInv, LockTypes, Buckets
  <2>3. LockTypes'
    BY <1>1, <2>1, <2>2 DEF LockInv, LockTypes
  <2>4. rlock'[b] = rlock[b] \ {t} /\ \A c \in Buckets : c # b => rlock'[c] = rlock[c]
    BY <2>1, <2>2 DEF LockInv, LockTypes
  <2>5. \A u \in Threads : handle'[u] # None => u # t /\ handle'[u] = handle[u]
    BY <2>1 DEF LockInv, LockTypes
  <2>6. ASSUME NEW u \in Threads, handle'[u] # None
        PROVE  u \in rlock'[Bucket[handle'[u].key]]
    <3>1. u # t /\ u \in rlock[Bucket[handle[u].key]] /\ handle'[u] = handle[u]
          /\ handle[u].key \in Keys
      BY <2>5, <2>6 DEF LockInv, Locked, LockTypes
    <3>2. Bucket[handle[u].key] \in Buckets
      BY <3>1 DEF Buckets
    <3> QED
      BY <2>4, <3>1, <3>2
  <2>7. \A c \in Buckets : wlock'[c] = None \/ rlock'[c] = {}
    BY <1>1, <2>4 DEF LockInv, Locked
  <2>8. Locked'
    BY <1>1, <2>6, <2>7 DEF LockInv, Locked
  <2> QED
    BY <2>3, <2>8 DEF LockInv
<1> QED
    BY <1>2, <1>3

\* Every step keeps it, whoever takes it.
LEMMA NextLockInv == LockInv /\ [Next]_vars => LockInv'
<1> SUFFICES ASSUME LockInv, [Next]_vars PROVE LockInv'
    OBVIOUS
<1> USE DEF LockInv
<1>1. record \in [Entries -> Job] /\ job \in [Threads -> Job] /\ pc \in [Threads -> Places]
    BY DEF LockTypes
<1>2. CASE UNCHANGED <<locks, record, pc, job, handle>>
    BY <1>2 DEF LockTypes, Locked, locks
<1>3. ASSUME NEW t \in Threads, NEW k \in Keys, NEW v \in Vals,
             PutUpdate(t, k, v) \/ PutNew(t, k, v)
      PROVE  LockInv'
  <2>1. CASE PutNew(t, k, v)
    <3>1. /\ CanWrite(k) /\ pc[t] = "idle"
          /\ pc' = [pc EXCEPT ![t] = "take"] /\ job' = [job EXCEPT ![t] = [key |-> k, val |-> v]]
          /\ wlock' = [wlock EXCEPT ![Bucket[k]] = t] /\ UNCHANGED <<rlock, handle, record>>
      BY <2>1 DEF PutNew, MayWrite, Goto, store
    <3> QED
      BY <1>1, <3>1, AcquireStep DEF Changing
  <2>2. CASE PutUpdate(t, k, v)
    <3>1. /\ UNCHANGED <<locks, handle>> /\ pc[t] = "idle"
          /\ \E e \in Found(k) : record' = [record EXCEPT ![e].val = v]
      BY <2>2 DEF PutUpdate
    <3>2. record' \in [Entries -> Job]
      <4>1. PICK e \in Found(k) : record' = [record EXCEPT ![e].val = v]
        BY <3>1
      <4>2. e \in Entries /\ record[e] \in Job
        BY <1>1 DEF Found
      <4>3. [record[e] EXCEPT !.val = v] \in Job
        BY <4>2 DEF Job
      <4>4. record' = [record EXCEPT ![e] = [record[e] EXCEPT !.val = v]]
        BY <4>1
      <4> QED
        BY <1>1, <4>3, <4>4
    <3>3. CASE UNCHANGED locals
      <4>1. pc' = [pc EXCEPT ![t] = "idle"] /\ job' = job
        BY <1>1, <3>1, <3>3 DEF locals
      <4> QED
        BY <1>1, <3>1, <3>2, <4>1, NoLockStep DEF Places, Changing
    <3>4. CASE pc' = [pc EXCEPT ![t] = "notify"]
               /\ job' = [job EXCEPT ![t] = [key |-> k, val |-> v]]
      <4>1. job' \in [Threads -> Job] /\ \A u \in Threads \ {t} : job'[u] = job[u]
        BY <1>1, <3>4 DEF Job
      <4> QED
        BY <3>1, <3>2, <3>4, <4>1, NoLockStep DEF Places, Changing
    <3> QED
      BY <2>2, <3>3, <3>4 DEF PutUpdate, Goto
  <2> QED
    BY <1>3, <2>1, <2>2
<1>4. ASSUME NEW t \in Threads, \E s \in Threads : Notify(t, s) PROVE LockInv'
  <2>1. PICK s \in Threads : Notify(t, s)
    BY <1>4
  <2>2. UNCHANGED <<locks, handle, record>> /\ pc[t] = "notify"
    BY <2>1 DEF Notify, store
  <2>3. CASE UNCHANGED <<pc, job>>
    BY <1>2, <2>2, <2>3
  <2>4. CASE Return(t, "notify")
    <3>1. /\ pc' = [pc EXCEPT ![t] = "idle"]
          /\ job' \in [Threads -> Job] /\ \A u \in Threads \ {t} : job'[u] = job[u]
      BY <2>4, ReturnTypes
    <3> QED
      BY <1>1, <2>2, <3>1, NoLockStep DEF Places, Changing
  <2> QED
    BY <2>1, <2>3, <2>4 DEF Notify
<1>5. ASSUME NEW t \in Threads, PutTake(t) \/ PutLink(t) \/ DelGive(t) \/ DelCount(t)
      PROVE  LockInv'
  <2>1. PICK p \in Changing : pc' = [pc EXCEPT ![t] = p]
    BY <1>5 DEF PutTake, PutLink, DelGive, DelCount, Goto, Changing
  <2>2. pc[t] \in Changing /\ UNCHANGED <<locks, handle, job>>
    BY <1>5 DEF PutTake, PutLink, DelGive, DelCount, Goto, Changing
  <2>3. record' \in [Entries -> Job]
    BY <1>1, <1>5 DEF PutTake, PutLink, DelGive, DelCount, store
  <2> QED
    BY <1>1, <2>1, <2>2, <2>3, NoLockStep DEF Places
<1>6. ASSUME NEW t \in Threads, CountUp(t) \/ CountDown(t) PROVE LockInv'
    BY <1>6, GiveBackStep DEF CountUp, CountDown, Changing, store
<1>7. ASSUME NEW t \in Threads, NEW k \in Keys, DelUnlink(t, k) PROVE LockInv'
  <2>1. /\ CanWrite(k) /\ pc[t] = "idle"
        /\ pc' = [pc EXCEPT ![t] = "give"]
        /\ job' = [job EXCEPT ![t] = [key |-> k, val |-> None]]
        /\ wlock' = [wlock EXCEPT ![Bucket[k]] = t] /\ UNCHANGED <<rlock, handle>>
    BY <1>7 DEF DelUnlink, MayWrite, Goto
  <2>2. record' \in [Entries -> Job]
    <3>1. NoJob \in Job
      BY DEF NoJob, Job
    <3>2. PICK e \in Found(k) : record' = [record EXCEPT ![e] = NoJob]
      BY <1>7 DEF DelUnlink
    <3> QED
      BY <1>1, <3>1, <3>2
  <2> QED
    BY <2>1, <2>2, AcquireStep DEF Changing
<1>8. ASSUME NEW t \in Threads, NEW k \in Keys,
             PutFull(t, k) \/ DelMissing(t, k) \/ Get(t, k) \/ Subscribe(t, k) \/ Unsubscribe(t, k)
      PROVE  LockInv'
  <2>1. UNCHANGED <<locks, record, pc, job, handle>>
    BY <1>8 DEF PutFull, DelMissing, Get, Subscribe, Unsubscribe, store, locals
  <2> QED
    BY <1>2, <2>1
<1>9. CASE UNCHANGED vars
    BY <1>2, <1>9 DEF vars, store, locals
<1>10. CASE Next
  <2>1. PICK t \in Threads : Put(t) \/ Del(t) \/ Use(t)
    BY <1>10 DEF Next
  <2>2. CASE Put(t)
    BY <2>2, <1>3, <1>4, <1>5, <1>6, <1>8 DEF Put
  <2>3. CASE Del(t)
    BY <2>3, <1>5, <1>6, <1>7, <1>8 DEF Del
  <2>4. CASE Use(t)
    BY <2>4, <1>8, ReaderStep DEF Use
  <2> QED
    BY <2>1, <2>2, <2>3, <2>4
<1> QED
    BY <1>9, <1>10

\* The bucket locks of nos_kv.c do their part for any number of writers: what
\* run kv_writers shows is the free stack's fault alone.
THEOREM BucketsExclusive == Spec => []BucketExclusive
<1>1. LockInv => BucketExclusive
  <2> SUFFICES ASSUME LockInv, NEW t \in Threads, pc[t] \in Changing
               PROVE  /\ rlock[Bucket[job[t].key]] = {}
                      /\ \A u \in Threads \ {t} :
                            /\ pc[u] \in Changing => Bucket[job[u].key] # Bucket[job[t].key]
                            /\ handle[u] # None => Bucket[handle[u].key] # Bucket[job[t].key]
    BY DEF BucketExclusive
  <2>1. PICK b \in Buckets : b = Bucket[job[t].key] /\ wlock[b] = t
    BY DEF LockInv, Locked, Buckets
  <2>2. rlock[b] = {}
    BY <2>1, TableAssumption DEF LockInv, Locked
  <2> QED
    BY <2>1, <2>2 DEF LockInv, Locked
<1> QED
    BY <1>1, InitLockInv, NextLockInv, PTL DEF Spec
=============================================================================
