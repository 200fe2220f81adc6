----------------------------- MODULE BufferPool -----------------------------
(***************************************************************************)
(* The pool of message buffers of a node (nos_buffer.c): bins of           *)
(* equal-sized chunks, a stack of free chunks per bin, and a reference     *)
(* count per buffer.  Allocation and the return of a buffer are critical   *)
(* sections of g_buffer_lock; the counts move by atomic operations outside *)
(* it, so between the decrement that finds the last reference and the      *)
(* push on the free stack other threads run.                               *)
(*                                                                         *)
(* A holder is whatever owns one reference: a thread's local variable or a *)
(* slot of a queue.  The pool does not know its holders: holders[b] is     *)
(* what the callers are entitled to, against which the counts are checked. *)
(***************************************************************************)
EXTENDS Integers, Sequences, FiniteSets

CONSTANTS
    NumBins,     \* the bins of the manifest's buffer_pools, in its order
    ChunkSize,   \* chunk_size of each bin, rounded up to the cache line
    ChunkCount,  \* chunk_count of each bin
    Holders,     \* who may own a reference
    Sizes,       \* the sizes (and headrooms) the callers ask for
    Steps        \* the sizes they push and pull

Bins == 1 .. NumBins

ASSUME BinsAssumption ==
    /\ NumBins \in Nat
    /\ ChunkSize \in [Bins -> Nat]
    /\ ChunkCount \in [Bins -> Nat]

\* size + headroom is a uint32_t sum; the callers' sizes are far from its
\* bound (a message header and at most 64 KiB), so it does not wrap here.
ASSUME SizesAssumption == Sizes \subseteq Nat /\ Steps \subseteq Nat

\* <<bin_idx, pool_idx>> of every buffer.
Buffers == UNION {{i} \X (0 .. ChunkCount[i] - 1) : i \in Bins}

BinOf(b) == b[1]
Capacity(b) == ChunkSize[BinOf(b)]

VARIABLES
    bin_count,   \* g_bin_count: NumBins, and 0 once the pool is torn down
    free_stack,  \* per bin, the free chunks, the top of the stack last
    used_count, peak_count,   \* the statistics of each bin
    ref_cnt,     \* per buffer, the atomic reference count
    layout,      \* per buffer, headroom, len and tailroom
    holders,     \* per buffer, who owns a reference
    limbo        \* buffers whose last holder has not yet got g_buffer_lock

stats == <<used_count, peak_count>>
vars == <<bin_count, free_stack, stats, ref_cnt, layout, holders, limbo>>

\* nos_buffer_init_pool, called before any thread runs.
Unused(b) == [headroom |-> 0, len |-> 0, tailroom |-> Capacity(b)]

Init ==
    /\ bin_count = NumBins
    /\ free_stack = [i \in Bins |-> [k \in 1 .. ChunkCount[i] |-> <<i, k - 1>>]]
    /\ used_count = [i \in Bins |-> 0] /\ peak_count = [i \in Bins |-> 0]
    /\ ref_cnt = [b \in Buffers |-> 0]
    /\ layout = [b \in Buffers |-> Unused(b)]
    /\ holders = [b \in Buffers |-> {}]
    /\ limbo = {}
-----------------------------------------------------------------------------
(* nos_buffer_alloc *)

Fits(i, need) == i <= bin_count /\ ChunkSize[i] >= need /\ free_stack[i] # <<>>

FirstFit(i, need) == Fits(i, need) /\ \A j \in 1 .. i - 1 : ~Fits(j, need)

Top(i) == free_stack[i][Len(free_stack[i])]

Pop(s) == SubSeq(s, 1, Len(s) - 1)

AllocUncounted(h, size, room) ==   \* faulty variant: used_count is not raised
    \E i \in Bins :
        LET b == Top(i) IN
        /\ FirstFit(i, size + room)
        /\ free_stack' = [free_stack EXCEPT ![i] = Pop(@)]
        /\ ref_cnt' = [ref_cnt EXCEPT ![b] = 1]
        /\ holders' = [holders EXCEPT ![b] = {h}]
        /\ layout' = [layout EXCEPT ![b] =
              [headroom |-> room, len |-> size, tailroom |-> Capacity(b) - room - size]]
        /\ UNCHANGED <<bin_count, stats, limbo>>

Alloc(h, size, room) ==
    \E i \in Bins :
        LET b == Top(i)
            used == used_count[i] + 1
        IN
        /\ FirstFit(i, size + room)
        /\ free_stack' = [free_stack EXCEPT ![i] = Pop(@)]
        /\ ref_cnt' = [ref_cnt EXCEPT ![b] = 1]
        /\ holders' = [holders EXCEPT ![b] = {h}]
        /\ layout' = [layout EXCEPT ![b] =
              [headroom |-> room, len |-> size, tailroom |-> Capacity(b) - room - size]]
        /\ used_count' = [used_count EXCEPT ![i] = used]
        /\ peak_count' = [peak_count EXCEPT ![i] = IF used > @ THEN used ELSE @]
        /\ UNCHANGED <<bin_count, limbo>>

\* When no bin fits, it returns NULL and nothing changes.
-----------------------------------------------------------------------------
(* nos_buffer_retain and nos_buffer_release *)

\* A holder of b takes a reference for g.
Retain(b, g) ==
    /\ holders[b] # {} /\ g \notin holders[b]
    /\ ref_cnt' = [ref_cnt EXCEPT ![b] = @ + 1]
    /\ holders' = [holders EXCEPT ![b] = @ \cup {g}]
    /\ UNCHANGED <<bin_count, free_stack, stats, layout, limbo>>

\* A holder hands its reference on; the pool sees nothing of it.
Transfer(b, h, g) ==
    /\ h \in holders[b] /\ g \notin holders[b]
    /\ holders' = [holders EXCEPT ![b] = (@ \ {h}) \cup {g}]
    /\ UNCHANGED <<bin_count, free_stack, stats, ref_cnt, layout, limbo>>

ReleaseEager(b, h) ==   \* faulty variant: any release returns the buffer
    /\ h \in holders[b]
    /\ ref_cnt' = [ref_cnt EXCEPT ![b] = @ - 1]
    /\ holders' = [holders EXCEPT ![b] = @ \ {h}]
    /\ limbo' = limbo \cup {b}
    /\ UNCHANGED <<bin_count, free_stack, stats, layout>>

ReleaseNever(b, h) ==   \* faulty variant: the last reference is tested as 0
    /\ h \in holders[b]
    /\ ref_cnt' = [ref_cnt EXCEPT ![b] = @ - 1]
    /\ holders' = [holders EXCEPT ![b] = @ \ {h}]
    /\ limbo' = IF ref_cnt[b] = 0 THEN limbo \cup {b} ELSE limbo
    /\ UNCHANGED <<bin_count, free_stack, stats, layout>>

\* The atomic_fetch_sub: it tells the caller whether this was the last one...
Release(b, h) ==
    /\ h \in holders[b]
    /\ ref_cnt' = [ref_cnt EXCEPT ![b] = @ - 1]
    /\ holders' = [holders EXCEPT ![b] = @ \ {h}]
    /\ limbo' = IF ref_cnt[b] = 1 THEN limbo \cup {b} ELSE limbo
    /\ UNCHANGED <<bin_count, free_stack, stats, layout>>

ReturnTwice(b) ==   \* faulty variant: the chunk is pushed and stays to be pushed
    /\ b \in limbo
    /\ free_stack' = [free_stack EXCEPT ![BinOf(b)] = Append(@, b)]
    /\ used_count' = [used_count EXCEPT ![BinOf(b)] = @ - 1]
    /\ layout' = [layout EXCEPT ![b] = Unused(b)]
    /\ UNCHANGED <<bin_count, peak_count, ref_cnt, holders, limbo>>

\* ... who then pushes the chunk on the free stack under the lock.
Return(b) ==
    /\ b \in limbo
    /\ limbo' = limbo \ {b}
    /\ free_stack' = [free_stack EXCEPT ![BinOf(b)] = Append(@, b)]
    /\ used_count' = [used_count EXCEPT ![BinOf(b)] = @ - 1]
    /\ layout' = [layout EXCEPT ![b] = Unused(b)]
    /\ UNCHANGED <<bin_count, peak_count, ref_cnt, holders>>
-----------------------------------------------------------------------------
(* nos_buffer_push and nos_buffer_pull change the layout without a lock:     *)
(* only the one holder of a buffer may call them.                            *)

Alone(b) == Cardinality(holders[b]) = 1

Push(b, n) ==
    /\ Alone(b) /\ n <= layout[b].headroom
    /\ layout' = [layout EXCEPT ![b] =
          [headroom |-> @.headroom - n, len |-> @.len + n, tailroom |-> @.tailroom]]
    /\ UNCHANGED <<bin_count, free_stack, stats, ref_cnt, holders, limbo>>

PullOnlyMoves(b, n) ==   \* faulty variant: len is not shortened
    /\ Alone(b) /\ n <= layout[b].len
    /\ layout' = [layout EXCEPT ![b].headroom = @ + n]
    /\ UNCHANGED <<bin_count, free_stack, stats, ref_cnt, holders, limbo>>

Pull(b, n) ==
    /\ Alone(b) /\ n <= layout[b].len
    /\ layout' = [layout EXCEPT ![b] =
          [headroom |-> @.headroom + n, len |-> @.len - n, tailroom |-> @.tailroom]]
    /\ UNCHANGED <<bin_count, free_stack, stats, ref_cnt, holders, limbo>>

\* nos_buffer_deinit_pool frees every bin whoever still holds a buffer.  The
\* main thread calls it when every other thread has been joined: nobody is in
\* the middle of a release, and nobody uses a buffer afterwards.
DeinitPool ==
    /\ bin_count # 0 /\ limbo = {}
    /\ bin_count' = 0
    /\ free_stack' = [i \in Bins |-> <<>>]
    /\ used_count' = [i \in Bins |-> 0] /\ peak_count' = [i \in Bins |-> 0]
    /\ UNCHANGED <<ref_cnt, layout, holders, limbo>>

TornDown == bin_count = 0 /\ UNCHANGED vars

Use(b) == \/ \E g \in Holders : Retain(b, g)
          \/ \E h, g \in Holders : Transfer(b, h, g)
          \/ \E h \in Holders : Release(b, h)
          \/ Return(b)
          \/ \E n \in Steps : Push(b, n) \/ Pull(b, n)

Next ==
    \/ \E h \in Holders : \E size, room \in Sizes : Alloc(h, size, room)
    \/ bin_count # 0 /\ \E b \in Buffers : Use(b)
    \/ DeinitPool \/ TornDown

Spec == Init /\ [][Next]_vars
-----------------------------------------------------------------------------
(* Properties. *)

\* Types of the pool's fields.
TypeOK ==
    /\ bin_count \in {0, NumBins}
    /\ free_stack \in [Bins -> Seq(Buffers)]
    /\ used_count \in [Bins -> Nat] /\ peak_count \in [Bins -> Nat]
    /\ ref_cnt \in [Buffers -> Nat]
    /\ layout \in [Buffers -> [headroom : Nat, len : Nat, tailroom : Nat]]
    /\ holders \in [Buffers -> SUBSET Holders]
    /\ limbo \subseteq Buffers

Free(b) == \E k \in DOMAIN free_stack[BinOf(b)] : free_stack[BinOf(b)][k] = b

\* A buffer somebody holds is neither free nor about to be freed, so it can
\* not be handed out a second time: nos_buffer_release frees only on the last
\* reference, however the releases of several holders interleave.
NoUseAfterFree ==
    \A b \in Buffers : holders[b] # {} => ~Free(b) /\ b \notin limbo

\* No chunk is on a free stack twice, or there and on its way there, and each
\* is on the stack of its own bin.
NoDoubleFree ==
    \A i \in Bins : \A k \in DOMAIN free_stack[i] :
        /\ BinOf(free_stack[i][k]) = i
        /\ free_stack[i][k] \notin limbo
        /\ \A l \in DOMAIN free_stack[i] : free_stack[i][l] = free_stack[i][k] => l = k

\* The pool loses nothing: a buffer nobody holds is free, or its last holder
\* is on the way to freeing it.
NothingLost ==
    bin_count # 0 =>
        \A b \in Buffers : holders[b] = {} => Free(b) \/ b \in limbo

\* Headroom, data and tailroom always fill the chunk exactly.
LayoutFillsChunk ==
    \A b \in Buffers :
        layout[b].headroom + layout[b].len + layout[b].tailroom = Capacity(b)

=============================================================================
