-------------------------- MODULE BufferPoolProofs --------------------------
(***************************************************************************)
(* What holds of BufferPool for every configuration of bins, every set of  *)
(* holders and every request size: reference counts match the holders, a   *)
(* held buffer is never free, no chunk is free twice, none is lost, the    *)
(* statistics add up (and so used_count, unsigned in the code, never wraps *)
(* below zero), and the layout always fills the chunk.                     *)
(***************************************************************************)
EXTENDS BufferPool, FiniteSetTheorems, SequenceTheorems, TLAPS

\* A free stack filled by nos_buffer_init_pool is a sequence of its length.
LEMMA FunctionIsSeq ==
    ASSUME NEW S, NEW n \in Nat, NEW s \in [1 .. n -> S]
    PROVE  s \in Seq(S) /\ Len(s) = n
OBVIOUS

\* Popping a free stack leaves its other elements where they were.
LEMMA PopFacts ==
    ASSUME NEW S, NEW s \in Seq(S), s # <<>>
    PROVE  /\ s[Len(s)] \in S /\ Len(s) \in DOMAIN s
           /\ Pop(s) \in Seq(S) /\ Len(Pop(s)) = Len(s) - 1
           /\ DOMAIN Pop(s) = 1 .. Len(s) - 1
           /\ \A k \in 1 .. Len(s) - 1 : Pop(s)[k] = s[k]
<1>1. Len(s) \in Nat \ {0} /\ DOMAIN s = 1 .. Len(s) /\ \A k \in 1 .. Len(s) : s[k] \in S
    BY EmptySeq, LenProperties, ElementOfSeq
<1>2. /\ Pop(s) \in Seq(S) /\ Len(Pop(s)) = Len(s) - 1
      /\ \A k \in 1 .. Len(s) - 1 : Pop(s)[k] = s[k]
    BY <1>1, SubSeqProperties DEF Pop
<1> QED
    BY <1>1, <1>2, LenProperties

\* Pushing on a free stack adds one element on top.
LEMMA AppendFacts ==
    ASSUME NEW S, NEW s \in Seq(S), NEW x \in S
    PROVE  /\ Append(s, x) \in Seq(S) /\ Len(Append(s, x)) = Len(s) + 1
           /\ DOMAIN Append(s, x) = 1 .. Len(s) + 1
           /\ \A k \in 1 .. Len(s) : Append(s, x)[k] = s[k]
           /\ Append(s, x)[Len(s) + 1] = x
OBVIOUS

\* bin_idx names a bin of the pool.
LEMMA BufferBin ==
    ASSUME NEW b \in Buffers
    PROVE  BinOf(b) \in Bins /\ Capacity(b) \in Nat
BY BinsAssumption DEF Buffers, BinOf, Capacity

\* The buffers of a bin that are handed out or on their way back.
InUse(i) == {b \in Buffers : BinOf(b) = i /\ (holders[b] # {} \/ b \in limbo)}

\* A bin has finitely many buffers in use, as it has finitely many chunks.
LEMMA InUseFinite ==
    ASSUME NEW i \in Bins
    PROVE  /\ IsFiniteSet(InUse(i)) /\ Cardinality(InUse(i)) \in Nat
           /\ InUse(i) # {} => Cardinality(InUse(i)) # 0
<1> DEFINE all == {i} \X (0 .. ChunkCount[i] - 1)
<1>1. IsFiniteSet(all)
  <2>1. IsFiniteSet({i})
      BY FS_Singleton
  <2>2. IsFiniteSet(0 .. ChunkCount[i] - 1)
      BY FS_Interval, BinsAssumption
  <2> QED
      BY <2>1, <2>2, FS_Product
<1>2. InUse(i) \subseteq all
    BY DEF InUse, Buffers, BinOf
<1>3. IsFiniteSet(InUse(i))
    BY <1>1, <1>2, FS_Subset
<1> QED
    BY <1>3, FS_CardinalityType, FS_EmptySet

\* The reference counts are the numbers of holders; a buffer in limbo has none.
Counted ==
    \A b \in Buffers :
        /\ IsFiniteSet(holders[b])
        /\ ref_cnt[b] = Cardinality(holders[b])
        /\ b \in limbo => holders[b] = {}

\* What is on a free stack has no holder.
FreeUnheld ==
    \A i \in Bins : \A k \in DOMAIN free_stack[i] : holders[free_stack[i][k]] = {}

\* The statistics add up: what is not on the free stack is counted as used,
\* and the peak is never below it.
Accounted ==
    bin_count # 0 =>
        \A i \in Bins : /\ used_count[i] + Len(free_stack[i]) = ChunkCount[i]
                        /\ used_count[i] <= peak_count[i]

UsedCounted ==
    bin_count # 0 => \A i \in Bins : used_count[i] = Cardinality(InUse(i))

IInv == /\ TypeOK /\ Counted /\ FreeUnheld /\ NoDoubleFree /\ NothingLost
        /\ UsedCounted /\ Accounted /\ LayoutFillsChunk

-----------------------------------------------------------------------------
\* What nos_buffer_init_pool sets up satisfies the invariant.
LEMMA InitIInv == Init => IInv
<1> SUFFICES ASSUME Init PROVE IInv
    OBVIOUS
<1> USE DEF Init
<1>1. \A b \in Buffers : BinOf(b) \in Bins /\ Capacity(b) \in Nat
    BY BufferBin
<1>2. ASSUME NEW i \in Bins
      PROVE  /\ free_stack[i] \in Seq(Buffers) /\ Len(free_stack[i]) = ChunkCount[i]
             /\ DOMAIN free_stack[i] = 1 .. ChunkCount[i]
             /\ \A k \in 1 .. ChunkCount[i] :
                  free_stack[i][k] = <<i, k - 1>> /\ <<i, k - 1>> \in Buffers
  <2>1. ChunkCount[i] \in Nat
      BY BinsAssumption
  <2>2. free_stack[i] = [k \in 1 .. ChunkCount[i] |-> <<i, k - 1>>]
      OBVIOUS
  <2>3. \A k \in 1 .. ChunkCount[i] : <<i, k - 1>> \in Buffers
      BY <2>1 DEF Buffers
  <2>4. free_stack[i] \in [1 .. ChunkCount[i] -> Buffers]
      BY <2>2, <2>3
  <2>5. free_stack[i] \in Seq(Buffers) /\ Len(free_stack[i]) = ChunkCount[i]
      BY <2>1, <2>4, FunctionIsSeq
  <2> QED
      BY <2>2, <2>3, <2>4, <2>5
<1>3. TypeOK
    BY <1>1, <1>2, BinsAssumption DEF TypeOK, Unused
<1>4. Counted
    BY FS_EmptySet DEF Counted
<1>5. FreeUnheld
    BY <1>2 DEF FreeUnheld
<1>6. NoDoubleFree
    BY <1>2, BinsAssumption DEF NoDoubleFree, BinOf
<1>7. NothingLost
  <2>1. ASSUME NEW b \in Buffers PROVE Free(b)
    <3>1. BinOf(b) \in Bins /\ b = <<BinOf(b), b[2]>> /\ b[2] \in 0 .. ChunkCount[BinOf(b)] - 1
        BY DEF Buffers, BinOf
    <3>2. b[2] + 1 \in 1 .. ChunkCount[BinOf(b)] /\ b[2] + 1 - 1 = b[2]
        BY <3>1, BinsAssumption
    <3> QED
        BY <1>2, <3>1, <3>2 DEF Free
  <2> QED
    BY <2>1 DEF NothingLost
<1>8. UsedCounted
    BY FS_EmptySet DEF UsedCounted, InUse
<1>9. Accounted
    BY <1>2, BinsAssumption DEF Accounted
<1>10. LayoutFillsChunk
    BY <1>1 DEF LayoutFillsChunk, Unused
<1> QED
    BY <1>3, <1>4, <1>5, <1>6, <1>7, <1>8, <1>9, <1>10 DEF IInv
-----------------------------------------------------------------------------
\* nos_buffer_alloc: the popped chunk was free, so nobody else holds it.
LEMMA AllocStep ==
    ASSUME IInv, NEW h \in Holders, NEW size \in Sizes, NEW room \in Sizes,
           Alloc(h, size, room)
    PROVE  IInv'
<1> USE DEF IInv
<1>1. PICK i \in Bins :
        /\ FirstFit(i, size + room)
        /\ free_stack' = [free_stack EXCEPT ![i] = Pop(@)]
        /\ ref_cnt' = [ref_cnt EXCEPT ![Top(i)] = 1]
        /\ holders' = [holders EXCEPT ![Top(i)] = {h}]
        /\ layout' = [layout EXCEPT ![Top(i)] =
              [headroom |-> room, len |-> size,
               tailroom |-> Capacity(Top(i)) - room - size]]
        /\ used_count' = [used_count EXCEPT ![i] = used_count[i] + 1]
        /\ peak_count' = [peak_count EXCEPT ![i] =
              IF used_count[i] + 1 > @ THEN used_count[i] + 1 ELSE @]
        /\ UNCHANGED <<bin_count, limbo>>
    BY DEF Alloc
<1> DEFINE b == Top(i)
           s == free_stack[i]
<1>2. /\ i <= bin_count /\ ChunkSize[i] >= size + room /\ s # <<>>
      /\ s \in Seq(Buffers) /\ bin_count # 0
    BY <1>1, BinsAssumption DEF FirstFit, Fits, TypeOK, Bins
<1>3. /\ b \in Buffers /\ Len(s) \in DOMAIN s /\ b = s[Len(s)]
      /\ DOMAIN s = 1 .. Len(s) /\ Len(s) \in Nat \ {0}
      /\ Pop(s) \in Seq(Buffers) /\ Len(Pop(s)) = Len(s) - 1
      /\ DOMAIN Pop(s) = 1 .. Len(s) - 1
      /\ \A k \in 1 .. Len(s) - 1 : Pop(s)[k] = s[k]
    BY <1>2, PopFacts, EmptySeq, LenProperties DEF Top
<1>4. /\ BinOf(b) = i /\ holders[b] = {} /\ b \notin limbo
      /\ \A k \in 1 .. Len(s) - 1 : s[k] # b
  <2>1. Len(s) \in DOMAIN free_stack[i] /\ b = free_stack[i][Len(s)]
      BY <1>3
  <2>2. BinOf(b) = i /\ b \notin limbo /\ \A k \in DOMAIN s : s[k] = b => k = Len(s)
      BY <2>1 DEF NoDoubleFree
  <2>3. holders[b] = {}
      BY <2>1 DEF FreeUnheld
  <2> QED
      BY <1>3, <2>2, <2>3
<1>5. Capacity(b) = ChunkSize[i] /\ size \in Nat /\ room \in Nat /\ ChunkSize[i] \in Nat
    BY <1>4, BinsAssumption, SizesAssumption DEF Capacity
<1>6. \A j \in Bins : free_stack'[j] = IF j = i THEN Pop(s) ELSE free_stack[j]
    BY <1>1 DEF TypeOK
<1>7. \A c \in Buffers : holders'[c] = IF c = b THEN {h} ELSE holders[c]
    BY <1>1, <1>3 DEF TypeOK
<1>8. \A j \in Bins : j # i => \A k \in DOMAIN free_stack[j] : free_stack[j][k] # b
    BY <1>4 DEF NoDoubleFree
<1>9. TypeOK'
  <2>1. free_stack' \in [Bins -> Seq(Buffers)]
      BY <1>1, <1>3 DEF TypeOK
  <2>2. used_count' \in [Bins -> Nat] /\ peak_count' \in [Bins -> Nat]
      BY <1>1 DEF TypeOK
  <2>3. ref_cnt' \in [Buffers -> Nat] /\ holders' \in [Buffers -> SUBSET Holders]
      BY <1>1, <1>3 DEF TypeOK
  <2>4. Capacity(b) - room - size \in Nat
      BY <1>2, <1>5
  <2>5. layout' \in [Buffers -> [headroom : Nat, len : Nat, tailroom : Nat]]
      BY <1>1, <1>3, <1>5, <2>4 DEF TypeOK
  <2> QED
      BY <1>1, <2>1, <2>2, <2>3, <2>5 DEF TypeOK
<1>10. Counted'
  <2>1. IsFiniteSet({h}) /\ Cardinality({h}) = 1
      BY FS_Singleton
  <2> QED
      BY <1>1, <1>3, <1>4, <1>7, <2>1 DEF Counted, TypeOK
<1>11. FreeUnheld'
  <2> SUFFICES ASSUME NEW j \in Bins, NEW k \in DOMAIN free_stack'[j]
               PROVE  holders'[free_stack'[j][k]] = {}
      BY DEF FreeUnheld
  <2>1. CASE j = i
    <3>1. k \in 1 .. Len(s) - 1 /\ free_stack'[j][k] = s[k] /\ s[k] # b /\ k \in DOMAIN s
        BY <2>1, <1>3, <1>4, <1>6
    <3>2. s[k] \in Buffers /\ holders[s[k]] = {}
        BY <3>1, <1>2, ElementOfSeq, <1>3 DEF FreeUnheld
    <3> QED
        BY <3>1, <3>2, <1>7
  <2>2. CASE j # i
    <3>1. free_stack'[j][k] = free_stack[j][k] /\ k \in DOMAIN free_stack[j]
        BY <2>2, <1>6
    <3>2. free_stack[j][k] \in Buffers
        BY <3>1, ElementOfSeq, LenProperties DEF TypeOK
    <3> QED
        BY <3>1, <3>2, <2>2, <1>7, <1>8 DEF FreeUnheld
  <2> QED
      BY <2>1, <2>2
<1>12. NoDoubleFree'
    BY <1>1, <1>3, <1>6 DEF NoDoubleFree
<1>13. NothingLost'
  <2> SUFFICES ASSUME NEW c \in Buffers, holders'[c] = {}, c \notin limbo
               PROVE  Free(c)'
      BY <1>1 DEF NothingLost
  <2>1. c # b /\ holders[c] = {}
      BY <1>7
  <2>2. PICK k \in DOMAIN free_stack[BinOf(c)] : free_stack[BinOf(c)][k] = c
      BY <2>1, <1>2 DEF NothingLost, Free
  <2>3. BinOf(c) \in Bins
      BY BufferBin
  <2>4. CASE BinOf(c) = i
    <3>1. k \in 1 .. Len(s) - 1
        BY <2>1, <2>2, <2>4, <1>3
    <3> QED
        BY <3>1, <2>2, <2>3, <2>4, <1>3, <1>6 DEF Free
  <2>5. CASE BinOf(c) # i
      BY <2>2, <2>3, <2>5, <1>6 DEF Free
  <2> QED
      BY <2>4, <2>5
<1>14. UsedCounted'
  <2>1. InUse(i)' = InUse(i) \cup {b} /\ b \notin InUse(i)
    <3>1. limbo' = limbo /\ {h} # {}
        BY <1>1
    <3>2. holders'[b] # {} /\ \A c \in Buffers : c # b => holders'[c] = holders[c]
        BY <1>3, <1>7, <3>1
    <3> HIDE DEF b
    <3>3. InUse(i)' \subseteq InUse(i) \cup {b}
        BY <3>1, <3>2 DEF InUse
    <3>4. InUse(i) \cup {b} \subseteq InUse(i)' /\ b \notin InUse(i)
        BY <3>1, <3>2, <1>3, <1>4 DEF InUse
    <3> QED
        BY <3>3, <3>4
  <2>2. Cardinality(InUse(i)') = Cardinality(InUse(i)) + 1
      BY <2>1, InUseFinite, FS_AddElement
  <2>3. \A j \in Bins : j # i => InUse(j)' = InUse(j)
      BY <1>1, <1>4, <1>7 DEF InUse
  <2> QED
      BY <1>1, <1>2, <2>2, <2>3 DEF UsedCounted, TypeOK
<1>15. Accounted'
  <2> SUFFICES ASSUME NEW j \in Bins
               PROVE  /\ used_count'[j] + Len(free_stack'[j]) = ChunkCount[j]
                      /\ used_count'[j] <= peak_count'[j]
      BY DEF Accounted
  <2>1. /\ used_count[j] + Len(free_stack[j]) = ChunkCount[j]
        /\ used_count[j] <= peak_count[j]
        /\ used_count[j] \in Nat /\ peak_count[j] \in Nat /\ ChunkCount[j] \in Nat
      BY <1>2, BinsAssumption DEF Accounted, TypeOK
  <2>2. CASE j # i
      BY <1>1, <1>6, <2>1, <2>2 DEF TypeOK
  <2>3. CASE j = i
    <3>1. used_count'[j] = used_count[j] + 1 /\ Len(free_stack'[j]) = Len(free_stack[j]) - 1
        BY <1>1, <1>3, <1>6, <2>3 DEF TypeOK
    <3>2. used_count'[j] <= peak_count'[j]
        BY <1>1, <2>1, <2>3 DEF TypeOK
    <3> QED
        BY <2>1, <2>3, <3>1, <3>2, <1>3
  <2> QED
      BY <2>2, <2>3
<1>16. LayoutFillsChunk'
  <2>1. layout'[b] = [headroom |-> room, len |-> size, tailroom |-> Capacity(b) - room - size]
      BY <1>1, <1>3 DEF TypeOK
  <2>2. \A c \in Buffers : c # b => layout'[c] = layout[c]
      BY <1>1, <1>3 DEF TypeOK
  <2>3. room + size + (Capacity(b) - room - size) = Capacity(b)
      BY <1>5
  <2> QED
      BY <2>1, <2>2, <2>3 DEF LayoutFillsChunk
<1> QED
    BY <1>9, <1>10, <1>11, <1>12, <1>13, <1>14, <1>15, <1>16
-----------------------------------------------------------------------------
\* A buffer that somebody holds stays in use when its holders change: either
\* some are left, or it goes to limbo.
LEMMA StaysInUse ==
    ASSUME IInv, NEW b \in Buffers, holders[b] # {}, NEW H \in SUBSET Holders,
           holders' = [holders EXCEPT ![b] = H],
           limbo' = IF H = {} THEN limbo \cup {b} ELSE limbo,
           UNCHANGED <<bin_count, free_stack, stats, layout>>
    PROVE  /\ FreeUnheld' /\ NoDoubleFree' /\ NothingLost'
           /\ UsedCounted' /\ Accounted' /\ LayoutFillsChunk'
<1> USE DEF IInv
<1>1. /\ holders'[b] = H /\ \A c \in Buffers : c # b => holders'[c] = holders[c]
      /\ bin_count' = bin_count /\ free_stack' = free_stack
      /\ used_count' = used_count /\ peak_count' = peak_count /\ layout' = layout
    BY DEF TypeOK, stats
<1>2. \A i \in Bins : \A k \in DOMAIN free_stack[i] :
          free_stack[i][k] \in Buffers /\ free_stack[i][k] # b
  <2> SUFFICES ASSUME NEW i \in Bins, NEW k \in DOMAIN free_stack[i]
               PROVE  free_stack[i][k] \in Buffers /\ free_stack[i][k] # b
      OBVIOUS
  <2>1. free_stack[i] \in Seq(Buffers)
      BY DEF TypeOK
  <2>2. free_stack[i][k] \in Buffers
      BY <2>1, ElementOfSeq, LenProperties
  <2> QED
      BY <2>2 DEF FreeUnheld
<1>3. FreeUnheld'
    BY <1>1, <1>2 DEF FreeUnheld
<1>4. NoDoubleFree'
  <2>1. \A i \in Bins : \A k \in DOMAIN free_stack[i] : free_stack[i][k] \notin limbo'
      BY <1>2 DEF NoDoubleFree
  <2> QED
      BY <1>1, <2>1 DEF NoDoubleFree
<1>5. NothingLost'
    BY <1>1 DEF NothingLost, Free
<1>6. \A i \in Bins : InUse(i)' = InUse(i)
    BY <1>1 DEF InUse
<1>7. UsedCounted'
    BY <1>1, <1>6 DEF UsedCounted
<1>8. Accounted'
    BY <1>1 DEF Accounted
<1>9. LayoutFillsChunk'
    BY <1>1 DEF LayoutFillsChunk
<1> QED
    BY <1>3, <1>4, <1>5, <1>7, <1>8, <1>9

\* The typing of what Retain, Transfer and Release change, and their counts.
LEMMA HoldersChange ==
    ASSUME TypeOK, Counted, NEW b \in Buffers, NEW H \in SUBSET Holders,
           IsFiniteSet(H),
           holders' = [holders EXCEPT ![b] = H],
           limbo' = IF H = {} THEN limbo \cup {b} ELSE limbo,
           ref_cnt' = [ref_cnt EXCEPT ![b] = Cardinality(H)],
           holders[b] # {},
           UNCHANGED <<bin_count, free_stack, stats, layout>>
    PROVE  TypeOK' /\ Counted'
<1>1. Cardinality(H) \in Nat
    BY FS_CardinalityType
<1>2. TypeOK'
    BY <1>1 DEF TypeOK, stats
<1>3. Counted'
    BY <1>1 DEF Counted, TypeOK
<1> QED
    BY <1>2, <1>3

\* nos_buffer_retain counts the new holder.
LEMMA RetainStep ==
    ASSUME IInv, NEW b \in Buffers, NEW g \in Holders, Retain(b, g)
    PROVE  IInv'
<1> DEFINE H == holders[b] \cup {g}
<1>1. /\ IsFiniteSet(holders[b]) /\ ref_cnt[b] = Cardinality(holders[b])
      /\ holders[b] \in SUBSET Holders /\ b \in Buffers
    BY DEF IInv, Counted, TypeOK
<1>2. IsFiniteSet(H) /\ Cardinality(H) = ref_cnt[b] + 1
    BY <1>1, FS_AddElement DEF Retain
<1>3. /\ ref_cnt' = [ref_cnt EXCEPT ![b] = Cardinality(H)]
      /\ holders' = [holders EXCEPT ![b] = H]
      /\ limbo' = IF H = {} THEN limbo \cup {b} ELSE limbo
      /\ holders[b] # {}
      /\ UNCHANGED <<bin_count, free_stack, stats, layout>>
    BY <1>2 DEF Retain
<1> HIDE DEF H
<1>4. H \in SUBSET Holders
    BY <1>1 DEF H
<1> QED
    BY <1>2, <1>3, <1>4, StaysInUse, HoldersChange DEF IInv

\* Handing a reference on, through a queue for instance, keeps every count.
LEMMA TransferStep ==
    ASSUME IInv, NEW b \in Buffers, NEW h \in Holders, NEW g \in Holders,
           Transfer(b, h, g)
    PROVE  IInv'
<1> DEFINE H == (holders[b] \ {h}) \cup {g}
<1>1. /\ IsFiniteSet(holders[b]) /\ ref_cnt[b] = Cardinality(holders[b])
      /\ holders[b] \in SUBSET Holders /\ ref_cnt[b] \in Nat
    BY DEF IInv, Counted, TypeOK
<1>2. IsFiniteSet(holders[b] \ {h}) /\ Cardinality(holders[b] \ {h}) = ref_cnt[b] - 1
    BY <1>1, FS_RemoveElement DEF Transfer
<1>3. IsFiniteSet(H) /\ Cardinality(H) = ref_cnt[b]
    BY <1>1, <1>2, FS_AddElement DEF Transfer
<1>4. /\ ref_cnt' = [ref_cnt EXCEPT ![b] = Cardinality(H)]
      /\ holders' = [holders EXCEPT ![b] = H]
      /\ limbo' = IF H = {} THEN limbo \cup {b} ELSE limbo
      /\ holders[b] # {}
      /\ UNCHANGED <<bin_count, free_stack, stats, layout>>
    BY <1>3 DEF Transfer, IInv, TypeOK
<1> HIDE DEF H
<1>5. H \in SUBSET Holders
    BY <1>1 DEF H
<1> QED
    BY <1>3, <1>4, <1>5, StaysInUse, HoldersChange DEF IInv

\* nos_buffer_release: only the last holder sends the buffer on its way back.
LEMMA ReleaseStep ==
    ASSUME IInv, NEW b \in Buffers, NEW h \in Holders, Release(b, h)
    PROVE  IInv'
<1> DEFINE H == holders[b] \ {h}
<1>1. /\ IsFiniteSet(holders[b]) /\ ref_cnt[b] = Cardinality(holders[b])
      /\ holders[b] \in SUBSET Holders /\ ref_cnt[b] \in Nat
    BY DEF IInv, Counted, TypeOK
<1>2. IsFiniteSet(H) /\ Cardinality(H) = ref_cnt[b] - 1
    BY <1>1, FS_RemoveElement DEF Release
<1>3. H = {} <=> ref_cnt[b] = 1
    BY <1>1, <1>2, FS_EmptySet
<1>4. /\ ref_cnt' = [ref_cnt EXCEPT ![b] = Cardinality(H)]
      /\ holders' = [holders EXCEPT ![b] = H]
      /\ limbo' = IF H = {} THEN limbo \cup {b} ELSE limbo
      /\ holders[b] # {}
      /\ UNCHANGED <<bin_count, free_stack, stats, layout>>
    BY <1>2, <1>3 DEF Release
<1> HIDE DEF H
<1>5. H \in SUBSET Holders
    BY <1>1 DEF H
<1> QED
    BY <1>2, <1>4, <1>5, StaysInUse, HoldersChange DEF IInv
-----------------------------------------------------------------------------
\* The push under g_buffer_lock: the chunk leaves limbo for its own free
\* stack.
LEMMA ReturnStep ==
    ASSUME IInv, bin_count # 0, NEW b \in Buffers, Return(b)
    PROVE  IInv'
<1> USE DEF IInv
<1> DEFINE i == BinOf(b)
           s == free_stack[i]
           t == Append(s, b)
<1>1. i \in Bins /\ Capacity(b) \in Nat
    BY BufferBin
<1>2. /\ b \in limbo /\ limbo' = limbo \ {b} /\ holders' = holders
      /\ bin_count' = bin_count /\ peak_count' = peak_count /\ ref_cnt' = ref_cnt
      /\ holders[b] = {}
    BY DEF Return, Counted
<1>3. /\ s \in Seq(Buffers) /\ Len(s) \in Nat /\ DOMAIN s = 1 .. Len(s)
      /\ t \in Seq(Buffers) /\ Len(t) = Len(s) + 1 /\ DOMAIN t = 1 .. Len(s) + 1
      /\ \A k \in 1 .. Len(s) : t[k] = s[k]
      /\ t[Len(s) + 1] = b
    BY <1>1, AppendFacts, LenProperties DEF TypeOK
<1>4. \A j \in Bins : free_stack'[j] = IF j = i THEN t ELSE free_stack[j]
    BY <1>1 DEF Return, TypeOK
<1>5. \A j \in Bins : used_count'[j] = IF j = i THEN used_count[j] - 1 ELSE used_count[j]
    BY <1>1 DEF Return, TypeOK
<1>6. \A k \in DOMAIN s : s[k] # b
    BY <1>1, <1>2 DEF NoDoubleFree
<1>7. /\ InUse(i)' = InUse(i) \ {b} /\ b \in InUse(i)
      /\ \A j \in Bins : j # i => InUse(j)' = InUse(j)
  <2>1. \A j \in Bins : InUse(j)' = InUse(j) \ {b}
      BY <1>2 DEF InUse
  <2>2. \A j \in Bins : b \in InUse(j) <=> j = i
      BY <1>1, <1>2 DEF InUse
  <2> QED
      BY <1>1, <2>1, <2>2
<1>8. used_count[i] = Cardinality(InUse(i)) /\ used_count[i] - 1 \in Nat
    BY <1>1, <1>7, InUseFinite DEF UsedCounted
<1>9. TypeOK'
  <2>1. free_stack' \in [Bins -> Seq(Buffers)]
      BY <1>1, <1>3 DEF Return, TypeOK
  <2>2. used_count' \in [Bins -> Nat]
      BY <1>1, <1>8 DEF Return, TypeOK
  <2>3. layout' \in [Buffers -> [headroom : Nat, len : Nat, tailroom : Nat]]
      BY <1>1 DEF Return, TypeOK, Unused
  <2> QED
      BY <1>2, <2>1, <2>2, <2>3 DEF TypeOK
<1>10. Counted'
    BY <1>2 DEF Counted
<1> HIDE DEF t
<1>17. s = free_stack[i] /\ i = BinOf(b) /\ free_stack'[i] = t
    BY <1>1, <1>4
<1> HIDE DEF i, s
<1>11. FreeUnheld'
  <2> SUFFICES ASSUME NEW j \in Bins, NEW k \in DOMAIN free_stack'[j]
               PROVE  holders[free_stack'[j][k]] = {}
      BY <1>2 DEF FreeUnheld
  <2>1. CASE j # i
      BY <2>1, <1>4, <1>17 DEF FreeUnheld
  <2>2. CASE j = i /\ k \in 1 .. Len(s)
      BY <2>2, <1>3, <1>17 DEF FreeUnheld
  <2>3. CASE j = i /\ k = Len(s) + 1
      BY <2>3, <1>2, <1>3, <1>17
  <2> QED
      BY <2>1, <2>2, <2>3, <1>3, <1>17
<1>12. NoDoubleFree'
  <2> SUFFICES ASSUME NEW j \in Bins, NEW k \in DOMAIN free_stack'[j]
               PROVE  /\ BinOf(free_stack'[j][k]) = j
                      /\ free_stack'[j][k] \notin limbo'
                      /\ \A l \in DOMAIN free_stack'[j] :
                            free_stack'[j][l] = free_stack'[j][k] => l = k
      BY DEF NoDoubleFree
  <2>1. CASE j # i
      BY <2>1, <1>2, <1>4, <1>17 DEF NoDoubleFree
  <2>2. CASE j = i /\ k \in 1 .. Len(s)
    <3>1. free_stack'[j][k] = s[k] /\ BinOf(s[k]) = i /\ s[k] \notin limbo /\ s[k] # b
        BY <2>2, <1>1, <1>3, <1>4, <1>17, <1>6 DEF NoDoubleFree
    <3>2. ASSUME NEW l \in 1 .. Len(s) + 1, free_stack'[j][l] = s[k]
          PROVE  l = k
        BY <2>2, <3>1, <3>2, <1>1, <1>3, <1>4, <1>17 DEF NoDoubleFree
    <3> QED
        BY <2>2, <3>1, <3>2, <1>2, <1>3, <1>4, <1>17
  <2>3. CASE j = i /\ k = Len(s) + 1
    <3>1. free_stack'[j][k] = b
        BY <2>3, <1>3, <1>4, <1>17
    <3>2. ASSUME NEW l \in 1 .. Len(s) + 1, free_stack'[j][l] = b
          PROVE  l = k
        BY <2>3, <3>2, <1>3, <1>4, <1>17, <1>6
    <3> QED
        BY <2>3, <3>1, <3>2, <1>2, <1>3, <1>4, <1>17
  <2> QED
      BY <2>1, <2>2, <2>3, <1>3, <1>4, <1>17
<1>13. NothingLost'
  <2> SUFFICES ASSUME NEW c \in Buffers, holders[c] = {}, c \notin limbo'
               PROVE  Free(c)'
      BY <1>2 DEF NothingLost
  <2>1. BinOf(c) \in Bins
      BY BufferBin
  <2>2. CASE c = b
    <3>1. Len(s) + 1 \in DOMAIN free_stack'[BinOf(c)] /\ free_stack'[BinOf(c)][Len(s) + 1] = c
        BY <2>2, <1>1, <1>3, <1>4, <1>17
    <3> QED
        BY <3>1 DEF Free
  <2>3. CASE c # b
    <3>1. PICK k \in DOMAIN free_stack[BinOf(c)] : free_stack[BinOf(c)][k] = c
        BY <2>3, <1>2 DEF NothingLost, Free
    <3>2. k \in DOMAIN free_stack'[BinOf(c)] /\ free_stack'[BinOf(c)][k] = c
        BY <2>1, <3>1, <1>3, <1>4, <1>17
    <3> QED
        BY <3>2 DEF Free
  <2> QED
      BY <2>2, <2>3
<1>14. UsedCounted'
  <2>1. Cardinality(InUse(i)') = Cardinality(InUse(i)) - 1
      BY <1>1, <1>7, InUseFinite, FS_RemoveElement
  <2> QED
      BY <1>2, <1>5, <1>7, <1>8, <2>1 DEF UsedCounted
<1>15. Accounted'
  <2> SUFFICES ASSUME NEW j \in Bins
               PROVE  /\ used_count'[j] + Len(free_stack'[j]) = ChunkCount[j]
                      /\ used_count'[j] <= peak_count'[j]
      BY DEF Accounted
  <2>1. /\ used_count[j] + Len(free_stack[j]) = ChunkCount[j]
        /\ used_count[j] <= peak_count[j]
        /\ used_count[j] \in Nat /\ peak_count[j] \in Nat
      BY DEF Accounted, TypeOK
  <2>2. CASE j = i
    <3>1. used_count'[j] = used_count[j] - 1 /\ Len(free_stack'[j]) = Len(free_stack[j]) + 1
        BY <2>2, <1>3, <1>5, <1>17
    <3>2. Len(free_stack[j]) \in Nat
        BY <2>2, <1>3, <1>17
    <3> QED
        BY <2>1, <3>1, <3>2, <1>2
  <2>3. CASE j # i
      BY <2>1, <2>3, <1>2, <1>4, <1>5
  <2> QED
      BY <2>2, <2>3
<1>16. LayoutFillsChunk'
  <2>1. layout'[b] = Unused(b) /\ \A c \in Buffers : c # b => layout'[c] = layout[c]
      BY DEF Return, TypeOK
  <2> QED
      BY <2>1, <1>1 DEF LayoutFillsChunk, Unused
<1> QED
    BY <1>9, <1>10, <1>11, <1>12, <1>13, <1>14, <1>15, <1>16

\* A step that changes one layout, and keeps its sum.
LEMMA LayoutStep ==
    ASSUME IInv, NEW b \in Buffers, NEW v \in [headroom : Nat, len : Nat, tailroom : Nat],
           layout' = [layout EXCEPT ![b] = v],
           v.headroom + v.len + v.tailroom = Capacity(b),
           UNCHANGED <<bin_count, free_stack, stats, ref_cnt, holders, limbo>>
    PROVE  IInv'
<1> USE DEF IInv, stats
<1>1. TypeOK'
    BY DEF TypeOK
<1>2. LayoutFillsChunk'
    BY DEF LayoutFillsChunk, TypeOK
<1>3. Counted' /\ FreeUnheld' /\ NoDoubleFree' /\ NothingLost'
    BY DEF Counted, FreeUnheld, NoDoubleFree, NothingLost, Free
<1>4. UsedCounted' /\ Accounted'
    BY DEF UsedCounted, InUse, Accounted
<1> QED
    BY <1>1, <1>2, <1>3, <1>4

\* nos_buffer_push moves bytes from the headroom to the data.
LEMMA PushStep ==
    ASSUME IInv, NEW b \in Buffers, NEW n \in Steps, Push(b, n)
    PROVE  IInv'
<1> DEFINE v == [headroom |-> layout[b].headroom - n, len |-> layout[b].len + n,
                 tailroom |-> layout[b].tailroom]
<1>1. /\ layout[b] \in [headroom : Nat, len : Nat, tailroom : Nat] /\ n \in Nat
      /\ layout[b].headroom + layout[b].len + layout[b].tailroom = Capacity(b)
    BY SizesAssumption DEF IInv, TypeOK, LayoutFillsChunk
<1>2. layout' = [layout EXCEPT ![b] = v] /\ n <= layout[b].headroom
    BY DEF Push, IInv, TypeOK
<1>3. /\ v \in [headroom : Nat, len : Nat, tailroom : Nat]
      /\ v.headroom + v.len + v.tailroom = Capacity(b)
    BY <1>1, <1>2
<1> HIDE DEF v
<1> QED
    BY <1>2, <1>3, LayoutStep DEF Push

\* nos_buffer_pull moves bytes from the data to the headroom.
LEMMA PullStep ==
    ASSUME IInv, NEW b \in Buffers, NEW n \in Steps, Pull(b, n)
    PROVE  IInv'
<1> DEFINE v == [headroom |-> layout[b].headroom + n, len |-> layout[b].len - n,
                 tailroom |-> layout[b].tailroom]
<1>1. /\ layout[b] \in [headroom : Nat, len : Nat, tailroom : Nat] /\ n \in Nat
      /\ layout[b].headroom + layout[b].len + layout[b].tailroom = Capacity(b)
    BY SizesAssumption DEF IInv, TypeOK, LayoutFillsChunk
<1>2. layout' = [layout EXCEPT ![b] = v] /\ n <= layout[b].len
    BY DEF Pull, IInv, TypeOK
<1>3. /\ v \in [headroom : Nat, len : Nat, tailroom : Nat]
      /\ v.headroom + v.len + v.tailroom = Capacity(b)
    BY <1>1, <1>2
<1> HIDE DEF v
<1> QED
    BY <1>2, <1>3, LayoutStep DEF Pull

\* nos_buffer_deinit_pool leaves no free stack behind.
LEMMA DeinitStep ==
    ASSUME IInv, DeinitPool
    PROVE  IInv'
<1> USE DEF IInv, DeinitPool
<1>1. TypeOK'
    BY DEF TypeOK
<1>2. Counted' /\ LayoutFillsChunk'
    BY DEF Counted, LayoutFillsChunk
<1>3. \A i \in Bins : DOMAIN free_stack'[i] = {}
    OBVIOUS
<1>4. FreeUnheld' /\ NoDoubleFree'
    BY <1>3 DEF FreeUnheld, NoDoubleFree
<1>5. NothingLost' /\ UsedCounted' /\ Accounted'
    BY DEF NothingLost, UsedCounted, Accounted
<1> QED
    BY <1>1, <1>2, <1>4, <1>5

\* A step that changes nothing keeps the invariant.
LEMMA StutterStep ==
    ASSUME IInv, UNCHANGED vars
    PROVE  IInv'
<1> USE DEF IInv, vars, stats
<1>1. TypeOK' /\ LayoutFillsChunk' /\ Counted' /\ FreeUnheld' /\ NoDoubleFree'
    BY DEF TypeOK, LayoutFillsChunk, Counted, FreeUnheld, NoDoubleFree
<1>2. NothingLost' /\ UsedCounted' /\ Accounted'
    BY DEF NothingLost, Free, UsedCounted, InUse, Accounted
<1> QED
    BY <1>1, <1>2

\* Every step of the pool keeps the invariant.
LEMMA NextStep ==
    ASSUME IInv, [Next]_vars
    PROVE  IInv'
<1>1. ASSUME bin_count # 0, NEW b \in Buffers, Use(b)
      PROVE  IInv'
    BY <1>1, RetainStep, TransferStep, ReleaseStep, ReturnStep, PushStep, PullStep DEF Use
<1> QED
    BY <1>1, AllocStep, DeinitStep, StutterStep DEF Next, TornDown

-----------------------------------------------------------------------------
\* IInv is inductive.
THEOREM PoolInvariance == Spec => []IInv
<1>1. IInv /\ [Next]_vars => IInv'
    BY NextStep
<1> QED
    BY InitIInv, <1>1, PTL DEF Spec

\* The fields keep their types; in particular used_count never wraps below 0.
THEOREM PoolTypeCorrect == Spec => []TypeOK
<1>1. IInv => TypeOK
    BY DEF IInv
<1> QED
    BY PoolInvariance, <1>1, PTL

\* Whatever the interleaving of retains, hand-overs and releases, a held
\* buffer is neither free nor about to be freed.
THEOREM HeldIsNeverFree == Spec => []NoUseAfterFree
<1>1. IInv => NoUseAfterFree
  <2> SUFFICES ASSUME IInv, NEW b \in Buffers, holders[b] # {}
               PROVE  ~Free(b) /\ b \notin limbo
      BY DEF NoUseAfterFree
  <2>1. b \notin limbo
      BY DEF IInv, Counted
  <2>2. BinOf(b) \in Bins
      BY BufferBin
  <2> QED
      BY <2>1, <2>2 DEF IInv, FreeUnheld, Free
<1> QED
    BY PoolInvariance, <1>1, PTL

\* No chunk is ever on a free stack twice.
THEOREM NeverFreedTwice == Spec => []NoDoubleFree
<1>1. IInv => NoDoubleFree
    BY DEF IInv
<1> QED
    BY PoolInvariance, <1>1, PTL

\* No chunk is ever lost by the pool, and its statistics add up.
THEOREM PoolConserves == Spec => [](NothingLost /\ Accounted)
<1>1. IInv => NothingLost /\ Accounted
    BY DEF IInv
<1> QED
    BY PoolInvariance, <1>1, PTL

\* The layout of every buffer fills its chunk, whatever is pushed and pulled.
THEOREM LayoutAlwaysFills == Spec => []LayoutFillsChunk
<1>1. IInv => LayoutFillsChunk
    BY DEF IInv
<1> QED
    BY PoolInvariance, <1>1, PTL
=============================================================================
