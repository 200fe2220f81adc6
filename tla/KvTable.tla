------------------------------ MODULE KvTable ------------------------------
(***************************************************************************)
(* One table of the key-value store of a node (nos_kv.c): buckets with a   *)
(* reader-writer lock each, the entries of a bucket linked in a chain, and *)
(* one stack of free entries for the whole table.  A put or a delete works *)
(* under the write lock of its bucket; the free stack and used_count have  *)
(* no lock of their own, so each access to them is a step.  Subscribers    *)
(* are collected under the lock and called after it is released.           *)
(*                                                                         *)
(* A chain (first_idx and the entries' next_idx) is the sequence of its    *)
(* entries, and a sub_list the set of its subscribers: both are walked     *)
(* only under the bucket's lock, by the last step before they are used.    *)
(***************************************************************************)
EXTENDS Integers, Sequences, FiniteSets

CONSTANTS
    Threads,    \* the threads that use the table
    Writers,    \* those of them that put and delete
    Watchers,   \* those of them that subscribe
    Keys, Vals,
    Bucket,     \* the bucket each key hashes to
    Capacity,   \* the entries of the table
    None        \* no thread, no value, no pointer

Entries == 0 .. Capacity - 1
Buckets == {Bucket[k] : k \in Keys}

ASSUME TableAssumption ==
    /\ Capacity \in Nat \ {0}
    /\ Writers \subseteq Threads /\ Watchers \subseteq Threads
    /\ DOMAIN Bucket = Keys
    /\ None \notin Threads \cup Keys \cup Vals

VARIABLES
    rlock,        \* per bucket, who holds the read lock through a handle
    wlock,        \* per bucket, who holds the write lock
    chain,        \* per bucket, its entries in order
    record,       \* per entry, its key and value
    sub_list,     \* per entry, its subscribers
    free_stack, free_top, used_count,
    pc,           \* where each thread is
    job,          \* its key and value
    idx, seen,    \* its entry, and what it read of free_top or used_count
    notes,        \* the subscribers it still has to notify
    handle,       \* what it got from nos_kv_get_ptr: key, entry and value
    answer,       \* what the last put, get or delete returns
    told          \* history: per subscriber and key, the last value it was
                  \* notified of while it has been subscribed

locks == <<rlock, wlock>>
store == <<chain, record, sub_list>>
pool == <<free_stack, free_top, used_count>>
locals == <<pc, job, idx, seen, notes>>
results == <<answer, told>>
vars == <<locks, store, pool, locals, handle, results>>

NoJob == [key |-> None, val |-> None]

\* nos_kv_table_create
Init ==
    /\ rlock = [b \in Buckets |-> {}] /\ wlock = [b \in Buckets |-> None]
    /\ chain = [b \in Buckets |-> <<>>]
    /\ record = [e \in Entries |-> NoJob]
    /\ sub_list = [e \in Entries |-> {}]
    /\ free_stack = [e \in Entries |-> e] /\ free_top = Capacity - 1 /\ used_count = 0
    /\ pc = [t \in Threads |-> "idle"]
    /\ job = [t \in Threads |-> NoJob]
    /\ idx = [t \in Threads |-> None] /\ seen = [t \in Threads |-> None]
    /\ notes = [t \in Threads |-> {}]
    /\ handle = [t \in Threads |-> None]
    /\ answer = "ok"
    /\ told = [t \in Watchers |-> [k \in Keys |-> None]]

Goto(t, from, to) == pc[t] = from /\ pc' = [pc EXCEPT ![t] = to]

\* Returning forgets the locals.
Return(t, from) ==
    /\ Goto(t, from, "idle")
    /\ job' = [job EXCEPT ![t] = NoJob]
    /\ idx' = [idx EXCEPT ![t] = None]
    /\ seen' = [seen EXCEPT ![t] = None]

\* A lock call that does not have to wait.
CanWrite(k) == wlock[Bucket[k]] = None /\ rlock[Bucket[k]] = {}
CanRead(k) == wlock[Bucket[k]] = None

\* The walk along the bucket's chain: the entries that hold the key.
Found(k) == {e \in Entries :
    /\ \E i \in DOMAIN chain[Bucket[k]] : chain[Bucket[k]][i] = e
    /\ record[e].key = k}

Missing(k) == Found(k) = {}

Subscribed(s, k) == \E e \in Found(k) : s \in sub_list[e]

Value(k) == IF Missing(k) THEN None ELSE record[CHOOSE e \in Found(k) : TRUE].val

\* The caller of put or del may hold a handle of another bucket; with one of the
\* same bucket it waits for itself, and the call is not made.
MayWrite(t, k) == t \in Writers /\ CanWrite(k)
-----------------------------------------------------------------------------
(* nos_kv_put *)

PutUpdateTellsOld(t, k, v) ==   \* faulty variant: the value before the update is told
    /\ MayWrite(t, k) /\ pc[t] = "idle"
    /\ \E e \in Found(k) :
        /\ record' = [record EXCEPT ![e].val = v]
        /\ IF sub_list[e] = {} THEN UNCHANGED locals
           ELSE /\ Goto(t, "idle", "notify")
                /\ notes' = [notes EXCEPT ![t] = sub_list[e]]
                /\ job' = [job EXCEPT ![t] = record[e]]
                /\ UNCHANGED <<idx, seen>>
    /\ answer' = "ok"
    /\ UNCHANGED <<locks, chain, sub_list, pool, handle, told>>

\* The key is there: one critical section, with the subscribers copied.
PutUpdate(t, k, v) ==
    /\ MayWrite(t, k) /\ pc[t] = "idle"
    /\ \E e \in Found(k) :
        /\ record' = [record EXCEPT ![e].val = v]
        /\ IF sub_list[e] = {} THEN UNCHANGED locals
           ELSE /\ Goto(t, "idle", "notify")
                /\ notes' = [notes EXCEPT ![t] = sub_list[e]]
                /\ job' = [job EXCEPT ![t] = [key |-> k, val |-> v]]
                /\ UNCHANGED <<idx, seen>>
    /\ answer' = "ok"
    /\ UNCHANGED <<locks, chain, sub_list, pool, handle, told>>

\* Outside the lock, one subscriber after the other.  A subscription freed in
\* between is still called: its memory may be anything by then, and told leaves
\* that call out.
Notify(t, s) ==
    /\ pc[t] = "notify" /\ s \in notes[t]
    /\ notes' = [notes EXCEPT ![t] = @ \ {s}]
    /\ told' = IF Subscribed(s, job[t].key)
               THEN [told EXCEPT ![s][job[t].key] = job[t].val] ELSE told
    /\ IF notes[t] = {s} THEN Return(t, "notify") ELSE UNCHANGED <<pc, job, idx, seen>>
    /\ UNCHANGED <<locks, store, pool, handle, answer>>

PutFullEarly(t, k) ==   \* faulty variant: the last free entry is never used
    /\ MayWrite(t, k) /\ pc[t] = "idle"
    /\ Missing(k) /\ free_top < 1
    /\ answer' = "busy"
    /\ UNCHANGED <<locks, store, pool, locals, handle, told>>

PutFull(t, k) ==
    /\ MayWrite(t, k) /\ pc[t] = "idle"
    /\ Missing(k) /\ free_top < 0
    /\ answer' = "busy"
    /\ UNCHANGED <<locks, store, pool, locals, handle, told>>

\* free_stack[free_top--]: the stack's top is read, once for the test and the
\* pop as no call stands between them...
PutNew(t, k, v) ==
    /\ MayWrite(t, k) /\ Goto(t, "idle", "take")
    /\ Missing(k) /\ free_top >= 0
    /\ wlock' = [wlock EXCEPT ![Bucket[k]] = t]
    /\ job' = [job EXCEPT ![t] = [key |-> k, val |-> v]]
    /\ seen' = [seen EXCEPT ![t] = free_top]
    /\ UNCHANGED <<rlock, store, pool, idx, notes, handle, results>>

\* ... and written back, less one.
PutTake(t) ==
    /\ Goto(t, "take", "link")
    /\ idx' = [idx EXCEPT ![t] = free_stack[seen[t]]]
    /\ free_top' = seen[t] - 1
    /\ UNCHANGED <<locks, store, free_stack, used_count, job, seen, notes, handle, results>>

\* The entry is filled and put at the head of the chain; used_count is read.
PutLink(t) ==
    LET b == Bucket[job[t].key] IN
    /\ Goto(t, "link", "counted up")
    /\ record' = [record EXCEPT ![idx[t]] = job[t]]
    /\ sub_list' = [sub_list EXCEPT ![idx[t]] = {}]
    /\ chain' = [chain EXCEPT ![b] = <<idx[t]>> \o @]
    /\ seen' = [seen EXCEPT ![t] = used_count]
    /\ answer' = "ok"
    /\ UNCHANGED <<locks, pool, job, idx, notes, handle, told>>

CountUpForgotten(t) ==   \* faulty variant: a new entry is not counted
    /\ Return(t, "counted up")
    /\ wlock' = [wlock EXCEPT ![Bucket[job[t].key]] = None]
    /\ UNCHANGED <<rlock, store, pool, notes, handle, results>>

CountUp(t) ==
    /\ Return(t, "counted up")
    /\ used_count' = seen[t] + 1
    /\ wlock' = [wlock EXCEPT ![Bucket[job[t].key]] = None]
    /\ UNCHANGED <<rlock, store, free_stack, free_top, notes, handle, results>>
-----------------------------------------------------------------------------
(* nos_kv_del *)

DelMissing(t, k) ==
    /\ MayWrite(t, k) /\ pc[t] = "idle"
    /\ Missing(k)
    /\ answer' = None
    /\ UNCHANGED <<locks, store, pool, locals, handle, told>>

\* The walk found e behind what comes before it; e is unlinked.
Without(s, e) ==
    LET i == CHOOSE j \in DOMAIN s : s[j] = e
    IN  [j \in 1 .. Len(s) - 1 |-> IF j < i THEN s[j] ELSE s[j + 1]]

\* The entry leaves the chain and loses its subscribers (what it still holds
\* is not read again); then free_stack[++free_top] reads the stack's top...
DelUnlink(t, k) ==
    /\ MayWrite(t, k) /\ Goto(t, "idle", "give")
    /\ \E e \in Found(k) :
        /\ chain' = [chain EXCEPT ![Bucket[k]] = Without(@, e)]
        /\ record' = [record EXCEPT ![e] = NoJob]
        /\ sub_list' = [sub_list EXCEPT ![e] = {}]
        /\ told' = [s \in Watchers |-> [told[s] EXCEPT ![k] = None]]
        /\ idx' = [idx EXCEPT ![t] = e]
    /\ wlock' = [wlock EXCEPT ![Bucket[k]] = t]
    /\ job' = [job EXCEPT ![t] = [key |-> k, val |-> None]]
    /\ seen' = [seen EXCEPT ![t] = free_top]
    /\ answer' = "ok"
    /\ UNCHANGED <<rlock, pool, notes, handle>>

DelGiveBelow(t) ==   \* faulty variant: the entry goes below the new top
    /\ Goto(t, "give", "given")
    /\ free_top' = seen[t] + 1
    /\ free_stack' = [free_stack EXCEPT ![IF seen[t] < 0 THEN 0 ELSE seen[t]] = idx[t]]
    /\ UNCHANGED <<locks, store, used_count, job, idx, seen, notes, handle, results>>

\* ... and writes it back, plus one.
DelGive(t) ==
    /\ Goto(t, "give", "given")
    /\ free_top' = seen[t] + 1
    /\ free_stack' = [free_stack EXCEPT ![seen[t] + 1] = idx[t]]
    /\ UNCHANGED <<locks, store, used_count, job, idx, seen, notes, handle, results>>

DelCount(t) ==
    /\ Goto(t, "given", "counted down")
    /\ seen' = [seen EXCEPT ![t] = used_count]
    /\ UNCHANGED <<locks, store, pool, job, idx, notes, handle, results>>

CountDown(t) ==
    /\ Return(t, "counted down")
    /\ used_count' = seen[t] - 1
    /\ wlock' = [wlock EXCEPT ![Bucket[job[t].key]] = None]
    /\ UNCHANGED <<rlock, store, free_stack, free_top, notes, handle, results>>
-----------------------------------------------------------------------------
(* Reads and subscriptions.  Each is one critical section of the bucket's   *)
(* lock and touches nothing else, so it is one step.                        *)

Get(t, k) ==
    /\ pc[t] = "idle" /\ CanRead(k)
    /\ answer' = Value(k)
    /\ UNCHANGED <<locks, store, pool, locals, handle, told>>

GetPtrUnlocked(t, k) ==   \* faulty variant: the read lock is given back at once
    /\ pc[t] = "idle" /\ handle[t] = None /\ CanRead(k)
    /\ \E e \in Found(k) :
        handle' = [handle EXCEPT ![t] = [key |-> k, entry |-> e, val |-> record[e].val]]
    /\ UNCHANGED <<locks, store, pool, locals, results>>

\* nos_kv_get_ptr returns with the read lock held; the handle remembers it.
GetPtr(t, k) ==
    /\ pc[t] = "idle" /\ handle[t] = None /\ CanRead(k)
    /\ \E e \in Found(k) :
        handle' = [handle EXCEPT ![t] = [key |-> k, entry |-> e, val |-> record[e].val]]
    /\ rlock' = [rlock EXCEPT ![Bucket[k]] = @ \cup {t}]
    /\ UNCHANGED <<wlock, store, pool, locals, results>>

ReleasePtr(t) ==
    /\ pc[t] = "idle" /\ handle[t] # None
    /\ rlock' = [rlock EXCEPT ![Bucket[handle[t].key]] = @ \ {t}]
    /\ handle' = [handle EXCEPT ![t] = None]
    /\ UNCHANGED <<wlock, store, pool, locals, results>>

\* A thread subscribes with one callback and itself as its argument: a second
\* time changes nothing.
Subscribe(t, k) ==
    /\ t \in Watchers /\ pc[t] = "idle" /\ CanWrite(k)
    /\ \E e \in Found(k) : sub_list' = [sub_list EXCEPT ![e] = @ \cup {t}]
    /\ UNCHANGED <<locks, chain, record, pool, locals, handle, results>>

Unsubscribe(t, k) ==
    /\ t \in Watchers /\ pc[t] = "idle" /\ CanWrite(k)
    /\ \E e \in Found(k) :
        /\ t \in sub_list[e]
        /\ sub_list' = [sub_list EXCEPT ![e] = @ \ {t}]
    /\ told' = [told EXCEPT ![t][k] = None]
    /\ UNCHANGED <<locks, chain, record, pool, locals, handle, answer>>
-----------------------------------------------------------------------------
Put(t) ==
    \/ \E k \in Keys : PutFull(t, k) \/ \E v \in Vals : PutUpdate(t, k, v) \/ PutNew(t, k, v)
    \/ \E s \in Threads : Notify(t, s)
    \/ PutTake(t) \/ PutLink(t) \/ CountUp(t)

Del(t) ==
    \/ \E k \in Keys : DelMissing(t, k) \/ DelUnlink(t, k)
    \/ DelGive(t) \/ DelCount(t) \/ CountDown(t)

Use(t) ==
    \/ \E k \in Keys : Get(t, k) \/ GetPtr(t, k) \/ Subscribe(t, k) \/ Unsubscribe(t, k)
    \/ ReleasePtr(t)

Next == \E t \in Threads : Put(t) \/ Del(t) \/ Use(t)

Spec == Init /\ [][Next]_vars
-----------------------------------------------------------------------------
(* Properties. *)

Job == [key : Keys \cup {None}, val : Vals \cup {None}]

\* Types of the table's fields and of the callers' locals.
TypeOK ==
    /\ rlock \in [Buckets -> SUBSET Threads]
    /\ wlock \in [Buckets -> Threads \cup {None}]
    /\ chain \in [Buckets -> Seq(Entries)]
    /\ record \in [Entries -> Job] /\ sub_list \in [Entries -> SUBSET Threads]
    /\ free_stack \in [Entries -> Entries]
    /\ free_top \in -1 .. Capacity - 1 /\ used_count \in 0 .. Capacity
    /\ pc \in [Threads -> {"idle", "notify", "take", "link", "counted up",
                           "give", "given", "counted down"}]
    /\ job \in [Threads -> Job] /\ idx \in [Threads -> Entries \cup {None}]
    /\ seen \in [Threads -> (-1 .. Capacity) \cup {None}]
    /\ notes \in [Threads -> SUBSET Threads]
    /\ handle \in [Threads -> [key : Keys, entry : Entries, val : Vals] \cup {None}]
    /\ answer \in Vals \cup {None, "ok", "busy"}
    /\ told \in [Watchers -> [Keys -> Vals \cup {None}]]

InChain(b, e) == \E i \in DOMAIN chain[b] : chain[b][i] = e
InSomeChain(e) == \E b \in Buckets : InChain(b, e)
OnStack(e) == \E i \in 0 .. free_top : free_stack[i] = e
\* In the hands of a put or a delete, off the stack and in no chain.
Carried(e) == \E t \in Threads : idx[t] = e /\ pc[t] \in {"link", "give"}

\* An entry is in a chain, on the free stack, or carried from one to the
\* other, and only once: none is lost, none is handed out twice.  free_stack
\* has no lock of its own, so it takes more than the buckets' locks.
EntryInOnePlace ==
    /\ \A e \in Entries :
          /\ InSomeChain(e) \/ OnStack(e) \/ Carried(e)
          /\ ~(InSomeChain(e) /\ OnStack(e)) /\ ~(OnStack(e) /\ Carried(e))
          /\ ~(Carried(e) /\ InSomeChain(e))
    /\ \A i, j \in 0 .. free_top : free_stack[i] = free_stack[j] => i = j
    /\ \A b, c \in Buckets : \A i \in DOMAIN chain[b], j \in DOMAIN chain[c] :
          chain[b][i] = chain[c][j] => b = c /\ i = j

\* What a reader was given a pointer to does not change under it, and is not
\* deleted, until it releases the handle.
PointerStable ==
    \A t \in Threads : handle[t] # None =>
        /\ record[handle[t].entry] = [key |-> handle[t].key, val |-> handle[t].val]
        /\ InChain(Bucket[handle[t].key], handle[t].entry)

\* The notifications of a put are sent after its lock is released, but once
\* all are sent a subscriber has been told the value that is stored.
ToldLatest ==
    \A s \in Watchers, k \in Keys :
        \/ told[s][k] \in {None, Value(k)}
        \/ \E t \in Threads : pc[t] = "notify" /\ job[t].key = k /\ s \in notes[t]

Map == INSTANCE KvMap WITH dict <- [k \in Keys |-> Value(k)]

\* Put, get and delete implement a map of Capacity keys.
ImplementsMap == Map!MSpec

\* The services "must support concurrent calls of several threads" (GEMINI.md
\* rule 13): two puts never walk away with the same entry.
NoEntryTakenTwice ==
    \A t, u \in Threads :
        (t # u /\ pc[t] = "link" /\ pc[u] = "link") => idx[t] # idx[u]
=============================================================================
