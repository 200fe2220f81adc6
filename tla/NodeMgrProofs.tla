--------------------------- MODULE NodeMgrProofs ---------------------------
(***************************************************************************)
(* What holds of NodeMgr for any manifest, any sizes and any sequence of   *)
(* loads, unloads and reloads: its types, that between commands the tables *)
(* agree on what is loaded, and that each instance is freed once.          *)
(***************************************************************************)
EXTENDS NodeMgr, FiniteSetTheorems, SequenceTheorems, WellFoundedInduction, TLAPS

Indices == 1 .. Len(inst)
Loaded == ToSet(loaded)
Hosted == ToSet(components)

\* what the registry has for a service, and what it should have
Bound(s) == {registry[i].provider : i \in {j \in 1 .. count : registry[j].service = s}}
Providing(s) == {i \in Loaded : inst[i].comp = ProviderOf[s]}

InstType ==
    /\ inst \in Seq([comp : Comps, status : {"inited", "active", "refused"}, freed : Nat])
    /\ Len(inst) <= MaxInst

\* No component is loaded twice, and none is hosted twice.
ListType ==
    /\ loaded \in Seq(Indices) /\ IsInjective(loaded)
    /\ \A i, j \in Loaded : inst[i].comp = inst[j].comp => i = j
    /\ components \in Seq(Indices) /\ IsInjective(components)

RegType ==
    /\ registry \in [1 .. RegSize -> [service : Services \cup {"none"}, provider : 0 .. MaxInst]]
    /\ count \in 0 .. RegSize
    /\ \A i \in 1 .. count : registry[i].service \in Services
    /\ \A i, j \in 1 .. count : registry[i].service = registry[j].service => i = j

WorkerType ==
    /\ wpc \in {"start", "starting", "loop", "drain", "find", "found", "running", "exited"}
    /\ at \in Nat \ {0} /\ cur \in 0 .. MaxInst /\ msg \in Services \cup {"none"}
    /\ wpc = "starting" => cur \in Indices
    /\ wpc = "found" => at \in 1 .. RegSize
    /\ msg_queue \in Seq(Services)

Busy == {"unroute", "load", "rehost", "rebind"}

\* What the CLI has in hand in the middle of a command.
CliType ==
    /\ cpc \in {"idle", "reading", "exited"} \cup Busy
    /\ target \in 0 .. Len(inst) /\ again \in BOOLEAN
    /\ cpc \in Busy => target \in Indices
    /\ cpc = "load" \/ (cpc = "unroute" /\ again) => Len(inst) < MaxInst
    /\ todo \in Seq(Services) /\ IsInjective(todo)
    /\ cpc \in Busy => \A s \in ToSet(todo) : ProviderOf[s] = inst[target].comp

\* main frees what the CLI, which has ended, can free no more.
MainType ==
    /\ mpc \in {"up", "join_worker", "join_cli", "clean", "done"} /\ left \in Nat
    /\ mpc \in {"clean", "done"} => cpc = "exited"
    /\ mpc = "clean" => left <= Len(loaded)
    /\ mpc = "done" => left = 0
    /\ keep_running \in BOOLEAN /\ stop_requested \in BOOLEAN /\ posted \in 0 .. MaxPosts

\* The instance of a command is loaded, but for the time between the two halves
\* of a reload; its thread has it when its routes are being made.
Hosting ==
    /\ cpc \in Busy \ {"load"} => target \in Loaded
    /\ cpc = "load" => \A i \in Loaded : inst[i].comp # inst[target].comp
    /\ Hosted = IF cpc \in {"unroute", "rehost"} THEN Loaded \ {target} ELSE Loaded

\* A service that the command in progress has left without a provider.
Hole(s) ==
    /\ cpc \in Busy /\ ProviderOf[s] = inst[target].comp
    /\ \/ cpc = "unroute" /\ s \notin ToSet(todo)
       \/ cpc = "rehost"
       \/ cpc = "rebind" /\ s \in ToSet(todo)

Routed ==
    \A s \in Services :
        Bound(s) = IF ProviderOf[s] = Elsewhere THEN {NoInst}
                   ELSE IF Hole(s) THEN {} ELSE Providing(s)

\* main has come down the list to the instance
Cleaned(i) == mpc \in {"clean", "done"} /\ \E k \in DOMAIN loaded : k > left /\ loaded[k] = i

Freeing ==
    \A i \in Indices : inst[i].freed = IF i \notin Loaded \/ Cleaned(i) THEN 1 ELSE 0

IInv ==
    /\ InstType /\ ListType /\ RegType /\ WorkerType /\ CliType /\ MainType
    /\ Hosting /\ Routed /\ Freeing
-----------------------------------------------------------------------------
(* Positions in order, and parts of lists. *)

LEMMA LeastNatural ==
    ASSUME NEW T, T \subseteq Nat, T # {}
    PROVE  \E m \in T : \A l \in T : m <= l
  <1>1. PICK m \in T : \A l \in T : ~(<<l, m>> \in OpToRel(<, Nat))
    BY NatLessThanWellFounded, WFMin, Zenon
  <1>2. \A l \in T : ~(<<l, m>> \in {ss \in Nat \X Nat : ss[1] < ss[2]})
    BY <1>1, Zenon DEF OpToRel
  <1>3. \A l \in T : ~(l < m)
    BY <1>2
  <1> QED
    BY <1>3

\* A set of positions has a last one.
LEMMA LastPosition ==
    ASSUME NEW n \in Nat, NEW S \in SUBSET (1 .. n), S # {}
    PROVE  \E m \in S : \A k \in S : k <= m
  <1> DEFINE D == {n - i : i \in S}
  <1>1. D \subseteq Nat /\ D # {}
    <2>1. \A i \in S : n - i \in Nat
      OBVIOUS
    <2> QED
      BY <2>1
  <1>2. PICK d \in D : \A k \in D : d <= k
    BY <1>1, LeastNatural
  <1>3. PICK m \in S : d = n - m
    BY <1>2
  <1>4. \A k \in S : k <= m
    <2> TAKE k \in S
    <2>1. n - k \in D
      OBVIOUS
    <2>2. n - m <= n - k
      BY <2>1, <1>2, <1>3
    <2> QED
      BY <2>2
  <1> QED
    BY <1>4

Ordering(f, D) ==
    /\ f \in [1 .. Cardinality(D) -> D]
    /\ \A i, j \in 1 .. Cardinality(D) : i < j => f[i] < f[j]

\* Any set of positions can be put in order: the least set that could not
\* would leave a smaller one without its last position.
LEMMA OrderExists ==
    ASSUME NEW N \in Nat, NEW D \in SUBSET (1 .. N)
    PROVE  \E f : Ordering(f, D)
  <1> DEFINE Bad(n) == \E E \in SUBSET (1 .. N) : Cardinality(E) = n /\ ~\E f : Ordering(f, E)
             T == {n \in Nat : Bad(n)}
  <1>1. \A E \in SUBSET (1 .. N) : IsFiniteSet(E) /\ Cardinality(E) \in Nat
    <2> TAKE E \in SUBSET (1 .. N)
    <2>1. IsFiniteSet(1 .. N)
      BY FS_Interval
    <2> QED
      BY <2>1, FS_Subset, FS_CardinalityType
  <1> SUFFICES ASSUME ~\E f : Ordering(f, D) PROVE FALSE
    OBVIOUS
  <1>2. T \subseteq Nat /\ T # {}
    BY <1>1
  <1>3. PICK m \in T : \A l \in T : m <= l
    BY <1>2, LeastNatural
  <1>4. PICK E \in SUBSET (1 .. N) : Cardinality(E) = m /\ ~\E f : Ordering(f, E)
    BY <1>3
  <1>5. m \in Nat
    BY <1>3
  <1>6. CASE m = 0
    <2>1. E = {}
      BY <1>1, <1>4, <1>6, FS_EmptySet
    <2>2. Ordering([k \in {} |-> 0], E)
      BY <1>4, <1>6, <2>1 DEF Ordering
    <2> QED
      BY <1>4, <2>2
  <1>7. CASE m # 0
    <2>1. E # {}
      BY <1>4, <1>7, FS_EmptySet
    <2>2. PICK g \in E : \A k \in E : k <= g
      BY <2>1, LastPosition
    <2> DEFINE R == E \ {g}
    <2>3. R \in SUBSET (1 .. N) /\ Cardinality(R) = m - 1
      BY <1>1, <1>4, <2>2, FS_RemoveElement
    <2>4. m - 1 \in Nat /\ m - 1 \notin T
      BY <1>3, <1>5, <1>7
    <2>5. \E h : Ordering(h, R)
      <3> HIDE DEF R
      <3> QED
        BY <2>3, <2>4
    <2>6. PICK h : Ordering(h, R)
      BY <2>5
    <2>7. h \in [1 .. m - 1 -> R] /\ \A i, j \in 1 .. m - 1 : i < j => h[i] < h[j]
      <3> HIDE DEF R
      <3> QED
        BY <2>3, <2>6 DEF Ordering
    <2> DEFINE f == [k \in 1 .. m |-> IF k = m THEN g ELSE h[k]]
    <2>8. \A k \in 1 .. m : k = m \/ k \in 1 .. m - 1
      BY <1>5
    <2>9. f \in [1 .. m -> E]
      BY <2>2, <2>7, <2>8
    <2>10. ASSUME NEW i \in 1 .. m, NEW j \in 1 .. m, i < j
           PROVE  f[i] < f[j]
      <3>1. i \in 1 .. m - 1 /\ h[i] \in E /\ h[i] # g
        BY <2>7, <2>8, <2>10
      <3>2. CASE j = m
        <4>1. h[i] <= g /\ h[i] \in Nat /\ g \in Nat
          <5>1. E \subseteq Nat
            OBVIOUS
          <5> HIDE DEF f
          <5> QED
            BY <2>2, <3>1, <5>1
        <4> QED
          BY <4>1, <3>1, <3>2
      <3>3. CASE j # m
        BY <3>1, <3>3, <2>7, <2>8, <2>10
      <3> QED
        BY <3>2, <3>3
    <2>11. Ordering(f, E)
      <3> HIDE DEF f
      <3> QED
        BY <1>4, <2>9, <2>10 DEF Ordering
    <2> QED
      BY <1>4, <2>11
  <1> QED
    BY <1>6, <1>7

LEMMA InOrderIs ==
    ASSUME NEW N \in Nat, NEW D \in SUBSET (1 .. N)
    PROVE  /\ Cardinality(D) \in Nat /\ Cardinality(D) <= N
           /\ InOrder(D) \in [1 .. Cardinality(D) -> D]
           /\ \A i, j \in 1 .. Cardinality(D) : i < j => InOrder(D)[i] < InOrder(D)[j]
           /\ \A d \in D : \E i \in 1 .. Cardinality(D) : InOrder(D)[i] = d
  <1>1. IsFiniteSet(1 .. N) /\ Cardinality(1 .. N) = N
    BY FS_Interval
  <1>2. IsFiniteSet(D) /\ Cardinality(D) \in Nat /\ Cardinality(D) <= N
    BY <1>1, FS_Subset, FS_CardinalityType
  <1> DEFINE n == Cardinality(D)
             f == InOrder(D)
  <1>3. f \in [1 .. n -> D] /\ \A i, j \in 1 .. n : i < j => f[i] < f[j]
    <2>1. PICK g : Ordering(g, D)
      BY OrderExists
    <2>2. g \in [1 .. n -> D] /\ \A i, j \in DOMAIN g : i < j => g[i] < g[j]
      BY <2>1 DEF Ordering
    <2>3. f \in [1 .. n -> D] /\ \A i, j \in DOMAIN f : i < j => f[i] < f[j]
      BY <2>2 DEF InOrder
    <2> HIDE DEF f, n
    <2> QED
      BY <2>3
  <1> HIDE DEF f
  <1>4. f \in Injection(1 .. n, D)
    <2>1. \A i, j \in 1 .. n : f[i] = f[j] => i = j
      <3> TAKE i, j \in 1 .. n
      <3>1. f[i] \in Nat /\ f[j] \in Nat /\ i \in Nat /\ j \in Nat
        <4>1. D \subseteq Nat
          OBVIOUS
        <4>2. n \in Nat
          BY <1>2
        <4>3. f \in [1 .. n -> D]
          BY <1>3
        <4> HIDE DEF n
        <4>4. f[i] \in D /\ f[j] \in D
          BY <4>3
        <4>5. i \in Nat /\ j \in Nat
          BY <4>2
        <4> QED
          BY <4>1, <4>4, <4>5
      <3> QED
        BY <3>1, <1>3
    <2> QED
      BY <1>3, <2>1 DEF Injection, IsInjective
  <1>5. Cardinality(1 .. n) = n
    BY <1>2, FS_Interval
  <1>6. f \in Surjection(1 .. n, D)
    BY <1>2, <1>4, <1>5, FS_Injection
  <1> QED
    BY <1>2, <1>3, <1>6 DEF Surjection, f

\* What Only keeps of a list.
LEMMA OnlyIs ==
    ASSUME NEW T, NEW list \in Seq(T), NEW S
    PROVE  /\ Only(list, S) \in Seq(T)
           /\ Len(Only(list, S)) <= Len(list)
           /\ ToSet(Only(list, S)) = ToSet(list) \cap S
           /\ IsInjective(list) => IsInjective(Only(list, S))
  <1> DEFINE D == {i \in DOMAIN list : list[i] \in S}
             n == Cardinality(D)
             f == InOrder(D)
             o == Only(list, S)
  <1>1. Len(list) \in Nat /\ DOMAIN list = 1 .. Len(list)
    OBVIOUS
  <1>2. D \in SUBSET (1 .. Len(list))
    BY <1>1
  <1>3. /\ n \in Nat /\ n <= Len(list) /\ f \in [1 .. n -> D]
        /\ \A i, j \in 1 .. n : i < j => f[i] < f[j]
        /\ \A d \in D : \E i \in 1 .. n : f[i] = d
    <2> HIDE DEF D
    <2> QED
      BY <1>1, <1>2, InOrderIs
  <1>4. o = [k \in 1 .. n |-> list[f[k]]]
    <2>1. DOMAIN f = 1 .. n
      BY <1>3
    <2> QED
      BY <2>1 DEF Only
  <1> HIDE DEF f, n, o
  <1>5. \A k \in 1 .. n : f[k] \in 1 .. Len(list) /\ list[f[k]] \in S /\ list[f[k]] \in T
    BY <1>1, <1>3
  <1>6. o \in Seq(T) /\ Len(o) = n /\ \A k \in 1 .. n : o[k] = list[f[k]]
    BY <1>3, <1>4, <1>5
  <1>7. ToSet(o) = ToSet(list) \cap S
    <2>1. ASSUME NEW x \in ToSet(o)
          PROVE  x \in ToSet(list) \cap S
      <3>1. PICK k \in 1 .. n : x = o[k]
        BY <1>6 DEF ToSet
      <3> QED
        BY <3>1, <1>1, <1>5, <1>6 DEF ToSet
    <2>2. ASSUME NEW x \in ToSet(list) \cap S
          PROVE  x \in ToSet(o)
      <3>1. PICK i \in DOMAIN list : x = list[i]
        BY DEF ToSet
      <3>2. i \in D
        BY <3>1
      <3>3. PICK k \in 1 .. n : f[k] = i
        BY <3>2, <1>3
      <3>4. k \in DOMAIN o /\ o[k] = x
        BY <3>1, <3>3, <1>6
      <3> QED
        BY <3>4 DEF ToSet
    <2> QED
      BY <2>1, <2>2
  <1>8. ASSUME IsInjective(list)
        PROVE  IsInjective(o)
    <2>1. ASSUME NEW a \in 1 .. n, NEW b \in 1 .. n, o[a] = o[b]
          PROVE  a = b
      <3>1. f[a] = f[b]
        BY <1>1, <1>5, <1>6, <1>8, <2>1 DEF IsInjective
      <3>2. f[a] \in Nat /\ f[b] \in Nat /\ a \in Nat /\ b \in Nat
        BY <1>3, <1>5
      <3>3. (a < b => f[a] < f[b]) /\ (b < a => f[b] < f[a])
        BY <1>3
      <3> QED
        BY <3>1, <3>2, <3>3
    <2> QED
      BY <2>1, <1>6 DEF IsInjective
  <1> QED
    BY <1>3, <1>6, <1>7, <1>8 DEF o

LEMMA WiderList ==
    ASSUME NEW S, NEW T, S \subseteq T, NEW s \in Seq(S)
    PROVE  s \in Seq(T)
  <1>1. Len(s) \in Nat /\ s \in [1 .. Len(s) -> S]
    BY LenProperties
  <1>2. s \in [1 .. Len(s) -> T]
    BY <1>1
  <1> QED
    BY <1>1, <1>2, SeqDef

\* A list without its head, with another end, and without one of its members
\* by the swap with the last one.
LEMMA TailIs ==
    ASSUME NEW T, NEW s \in Seq(T), s # <<>>, IsInjective(s)
    PROVE  /\ Head(s) \in ToSet(s) /\ Head(s) \in T
           /\ Tail(s) \in Seq(T) /\ IsInjective(Tail(s))
           /\ ToSet(Tail(s)) = ToSet(s) \ {Head(s)}
  <1>1. /\ Len(s) \in Nat /\ Len(s) >= 1 /\ DOMAIN s = 1 .. Len(s) /\ Head(s) = s[1]
        /\ Tail(s) \in Seq(T) /\ Len(Tail(s)) = Len(s) - 1
        /\ \A i \in 1 .. Len(s) - 1 : Tail(s)[i] = s[i + 1]
    BY HeadTailProperties, EmptySeq
  <1>2. PICK t : t = Tail(s)
    OBVIOUS
  <1>3. DOMAIN t = 1 .. Len(s) - 1
    BY <1>1, <1>2
  <1>4. \A a, b \in DOMAIN s : s[a] = s[b] => a = b
    BY DEF IsInjective
  <1>5. IsInjective(t)
    <2>1. ASSUME NEW a \in DOMAIN t, NEW b \in DOMAIN t, t[a] = t[b]
          PROVE  a = b
      <3>1. a + 1 \in DOMAIN s /\ b + 1 \in DOMAIN s /\ a \in Nat /\ b \in Nat
        BY <1>1, <1>3
      <3>2. s[a + 1] = s[b + 1]
        BY <1>1, <1>2, <1>3, <2>1
      <3> QED
        BY <3>1, <3>2, <1>4
    <2> QED
      BY <2>1 DEF IsInjective
  <1>6. \A x : x \in ToSet(t) => x \in ToSet(s) \ {Head(s)}
    <2> TAKE x
    <2> SUFFICES ASSUME x \in ToSet(t) PROVE x \in ToSet(s) \ {Head(s)}
      OBVIOUS
    <2>1. PICK i \in DOMAIN t : x = t[i]
      BY DEF ToSet
    <2>2. i + 1 \in DOMAIN s /\ 1 \in DOMAIN s /\ i + 1 # 1 /\ x = s[i + 1]
      BY <1>1, <1>2, <1>3, <2>1
    <2>3. s[i + 1] # s[1]
      BY <2>2, <1>4
    <2> QED
      BY <2>2, <2>3, <1>1 DEF ToSet
  <1>7. \A x \in ToSet(s) \ {Head(s)} : x \in ToSet(t)
    <2> TAKE x \in ToSet(s) \ {Head(s)}
    <2>1. PICK i \in DOMAIN s : x = s[i]
      BY DEF ToSet
    <2>2. i # 1
      BY <2>1, <1>1
    <2>3. i - 1 \in DOMAIN t /\ t[i - 1] = s[i]
      <3>1. i - 1 \in 1 .. Len(s) - 1 /\ (i - 1) + 1 = i
        BY <1>1, <2>2
      <3> QED
        BY <3>1, <1>1, <1>2, <1>3
    <2> QED
      BY <2>1, <2>3 DEF ToSet
  <1>8. Head(s) \in ToSet(s) /\ Head(s) \in T
    BY <1>1 DEF ToSet
  <1> QED
    BY <1>1, <1>2, <1>5, <1>6, <1>7, <1>8

LEMMA AppendIs ==
    ASSUME NEW T, NEW s \in Seq(T), NEW x \in T
    PROVE  /\ Append(s, x) \in Seq(T)
           /\ ToSet(Append(s, x)) = ToSet(s) \cup {x}
           /\ IsInjective(s) /\ x \notin ToSet(s) => IsInjective(Append(s, x))
  <1> DEFINE n == Len(s)
  <1>1. PICK t : t = Append(s, x)
    OBVIOUS
  <1>2. /\ n \in Nat /\ DOMAIN s = 1 .. n /\ t \in Seq(T) /\ DOMAIN t = 1 .. n + 1
        /\ t[n + 1] = x /\ \A i \in 1 .. n : t[i] = s[i]
    BY <1>1, AppendProperties
  <1>3. \A i \in 1 .. n + 1 : i = n + 1 \/ i \in 1 .. n
    BY <1>2
  <1>4. ToSet(t) = ToSet(s) \cup {x}
    BY <1>2, <1>3 DEF ToSet
  <1>5. ASSUME IsInjective(s), x \notin ToSet(s)
        PROVE  IsInjective(t)
    <2>1. \A i \in 1 .. n : s[i] # x
      BY <1>2, <1>5 DEF ToSet
    <2>2. \A a, b \in 1 .. n : s[a] = s[b] => a = b
      BY <1>2, <1>5 DEF IsInjective
    <2>3. \A a, b \in 1 .. n + 1 : t[a] = t[b] => a = b
      BY <2>1, <2>2, <1>2, <1>3
    <2> QED
      BY <2>3, <1>2 DEF IsInjective
  <1> QED
    BY <1>1, <1>2, <1>4, <1>5

LEMMA SwapRemoveIs ==
    ASSUME NEW T, NEW s \in Seq(T), IsInjective(s), NEW k \in DOMAIN s
    PROVE  LET r == Front([s EXCEPT ![k] = Last(s)])
           IN  r \in Seq(T) /\ IsInjective(r) /\ ToSet(r) = ToSet(s) \ {s[k]}
  <1> DEFINE n == Len(s)
  <1>1. n \in Nat /\ DOMAIN s = 1 .. n /\ k \in 1 .. n /\ n \in 1 .. n
    OBVIOUS
  <1>2. PICK e : e = [s EXCEPT ![k] = Last(s)]
    OBVIOUS
  <1>3. /\ e \in Seq(T) /\ Len(e) = n
        /\ \A i \in 1 .. n : e[i] = IF i = k THEN s[n] ELSE s[i]
    <2>1. s[n] \in T
      BY <1>1
    <2>2. e = [s EXCEPT ![k] = s[n]]
      BY <1>2 DEF Last
    <2> QED
      BY <1>1, <2>1, <2>2, ExceptSeq
  <1>4. PICK r : r = Front(e)
    OBVIOUS
  <1>5. r \in Seq(T) /\ Len(r) = n - 1 /\ DOMAIN r = 1 .. n - 1 /\ \A i \in 1 .. n - 1 : r[i] = e[i]
    <2>1. r = SubSeq(e, 1, n - 1)
      BY <1>3, <1>4 DEF Front
    <2>2. \A i \in 1 .. n - 1 : e[i] \in T
      BY <1>1, <1>3, ElementOfSeq
    <2>3. /\ r \in Seq(T) /\ Len(r) = IF 1 <= n - 1 THEN (n - 1) - 1 + 1 ELSE 0
          /\ \A i \in 1 .. (n - 1) - 1 + 1 : r[i] = e[1 + i - 1]
      <3>1. 1 \in Int /\ n - 1 \in Int
        BY <1>1
      <3> QED
        BY <2>1, <2>2, <3>1, SubSeqProperties
    <2> HIDE DEF n
    <2>4. Len(r) = n - 1
      BY <2>3, <1>1
    <2>5. \A i \in 1 .. n - 1 : r[i] = e[i]
      <3> TAKE i \in 1 .. n - 1
      <3>1. i \in 1 .. (n - 1) - 1 + 1 /\ 1 + i - 1 = i
        BY <1>1
      <3> QED
        BY <2>3, <3>1
    <2>6. DOMAIN r = 1 .. n - 1
      BY <2>3, <2>4, LenProperties
    <2> QED
      BY <2>3, <2>4, <2>5, <2>6
  <1>6. \A i \in 1 .. n - 1 : i \in 1 .. n /\ i # n /\ r[i] = IF i = k THEN s[n] ELSE s[i]
    <2> TAKE i \in 1 .. n - 1
    <2>1. i \in 1 .. n /\ i # n
      <3> HIDE DEF n
      <3> QED
        BY <1>1
    <2>2. r[i] = e[i]
      BY <1>5
    <2> QED
      BY <1>3, <2>1, <2>2
  <1>7. \A a, b \in 1 .. n : s[a] = s[b] => a = b
    BY <1>1 DEF IsInjective
  <1>8. IsInjective(r)
    <2>1. \A a, b \in 1 .. n - 1 : r[a] = r[b] => a = b
      BY <1>1, <1>6, <1>7
    <2> QED
      BY <2>1, <1>5 DEF IsInjective
  <1>9. \A x \in ToSet(r) : x \in ToSet(s) \ {s[k]}
    <2> TAKE x \in ToSet(r)
    <2>1. PICK i \in 1 .. n - 1 : x = r[i]
      BY <1>5 DEF ToSet
    <2>2. PICK j \in 1 .. n : x = s[j] /\ j # k
      BY <2>1, <1>1, <1>6
    <2>3. s[j] # s[k]
      BY <2>2, <1>1, <1>7
    <2> QED
      BY <2>2, <2>3, <1>1 DEF ToSet
  <1>10. \A x \in ToSet(s) \ {s[k]} : x \in ToSet(r)
    <2> TAKE x \in ToSet(s) \ {s[k]}
    <2>1. PICK j \in 1 .. n : x = s[j] /\ j # k
      BY <1>1 DEF ToSet
    <2>2. CASE j = n
      <3>1. k \in 1 .. n - 1 /\ r[k] = x
        BY <2>1, <2>2, <1>1, <1>6
      <3> QED
        BY <3>1, <1>5 DEF ToSet
    <2>3. CASE j # n
      <3>1. j \in 1 .. n - 1
        <4> HIDE DEF n
        <4> QED
          BY <2>1, <2>3, <1>1
      <3>2. r[j] = x
        BY <3>1, <2>1, <1>6
      <3> QED
        BY <3>1, <3>2, <1>5 DEF ToSet
    <2> QED
      BY <2>2, <2>3
  <1> QED
    BY <1>2, <1>4, <1>5, <1>8, <1>9, <1>10
-----------------------------------------------------------------------------
(* The registry. *)

\* find_service_entry finds the one entry of a service, if there is one.
LEMMA EntryOfIs ==
    ASSUME RegType, NEW s
    PROVE  \/ EntryOf(s) = 0 /\ Bound(s) = {} /\ \A j \in 1 .. count : registry[j].service # s
           \/ /\ EntryOf(s) \in 1 .. count /\ registry[EntryOf(s)].service = s
              /\ Bound(s) = {registry[EntryOf(s)].provider}
              /\ \A j \in 1 .. count : registry[j].service = s => j = EntryOf(s)
  <1> DEFINE found == {i \in 1 .. count : registry[i].service = s}
  <1>1. count \in Nat
    BY ManifestAssumption DEF RegType
  <1>2. CASE found = {}
    BY <1>2 DEF EntryOf, Bound
  <1>3. CASE found # {}
    <2>1. found \subseteq Nat
      BY <1>1
    <2>2. PICK i : i = CHOOSE l \in found : \A j \in found : l <= j
      OBVIOUS
    <2>3. i \in found
      <3> HIDE DEF found
      <3>1. \E m \in found : \A l \in found : m <= l
        BY <1>3, <2>1, LeastNatural
      <3> QED
        BY <2>2, <3>1
    <2>4. EntryOf(s) = i
      BY <1>3, <2>2 DEF EntryOf
    <2>5. \A j \in 1 .. count : registry[j].service = s => j = i
      BY <2>3 DEF RegType
    <2>6. Bound(s) = {registry[i].provider}
      BY <2>3, <2>5 DEF Bound
    <2> QED
      BY <2>3, <2>4, <2>5, <2>6
  <1> QED
    BY <1>2, <1>3

\* The last entry takes the place of the removed one: no other service loses
\* its provider.
LEMMA UnbindIs ==
    ASSUME RegType, NEW s, NEW i, i = EntryOf(s), i # 0,
           registry' = [registry EXCEPT ![i] = registry[count]], count' = count - 1
    PROVE  RegType' /\ \A t : Bound(t)' = IF t = s THEN {} ELSE Bound(t)
  <1>1. /\ count \in Nat /\ count \in 1 .. RegSize /\ RegSize \in Nat
        /\ i \in 1 .. count /\ registry[i].service = s
        /\ \A j \in 1 .. count : registry[j].service = s => j = i
    <2>1. /\ i \in 1 .. count /\ registry[i].service = s
          /\ \A j \in 1 .. count : registry[j].service = s => j = i
      BY EntryOfIs
    <2>2. count \in 0 .. RegSize /\ RegSize \in Nat
      BY ManifestAssumption DEF RegType
    <2> QED
      BY <2>1, <2>2
  <1> DEFINE n == count
             m == count - 1
             new(k) == IF k = i THEN n ELSE k
  <1>2. /\ \A k \in 1 .. m : new(k) \in 1 .. n /\ new(k) # i /\ registry'[k] = registry[new(k)]
        /\ \A k, l \in 1 .. m : new(k) = new(l) => k = l
        /\ \A j \in 1 .. n : j # i => \E k \in 1 .. m : new(k) = j
    <2>1. \A k \in 1 .. m : k \in 1 .. RegSize /\ k \in 1 .. n /\ k # n
      BY <1>1
    <2>2. \A k \in 1 .. m : registry'[k] = registry[new(k)]
      BY <2>1, <1>1 DEF RegType
    <2>3. \A k \in 1 .. m : new(k) \in 1 .. n /\ new(k) # i
      BY <2>1, <1>1
    <2>4. \A k, l \in 1 .. m : new(k) = new(l) => k = l
      BY <2>1
    <2>5. \A j \in 1 .. n : j # i => \E k \in 1 .. m : new(k) = j
      <3> TAKE j \in 1 .. n
      <3> SUFFICES ASSUME j # i PROVE \E k \in 1 .. m : new(k) = j
        OBVIOUS
      <3>1. CASE j = n
        <4>1. i \in 1 .. m /\ new(i) = j
          BY <1>1, <3>1
        <4> QED
          BY <4>1
      <3>2. CASE j # n
        <4>1. j \in 1 .. m /\ new(j) = j
          BY <1>1, <3>2
        <4> QED
          BY <4>1
      <3> QED
        BY <3>1, <3>2
    <2> QED
      BY <2>2, <2>3, <2>4, <2>5
  <1> HIDE DEF new
  <1>3. RegType'
    <2>1. registry' \in [1 .. RegSize -> [service : Services \cup {"none"}, provider : 0 .. MaxInst]]
      BY <1>1 DEF RegType
    <2>2. count' \in 0 .. RegSize
      BY <1>1
    <2>3. \A k \in 1 .. m : registry'[k].service \in Services
      BY <1>2 DEF RegType
    <2>4. \A k, l \in 1 .. m : registry'[k].service = registry'[l].service => k = l
      BY <1>2 DEF RegType
    <2> QED
      BY <2>1, <2>2, <2>3, <2>4 DEF RegType
  <1>4. ASSUME NEW t
        PROVE  Bound(t)' = IF t = s THEN {} ELSE Bound(t)
    <2>1. Bound(t)' = {registry'[k].provider : k \in {l \in 1 .. m : registry'[l].service = t}}
      BY DEF Bound
    <2>2. Bound(t) = {registry[k].provider : k \in {l \in 1 .. n : registry[l].service = t}}
      BY DEF Bound
    <2>3. CASE t = s
      <3>1. \A k \in 1 .. m : registry'[k].service # s
        BY <1>1, <1>2
      <3> QED
        BY <2>1, <2>3, <3>1
    <2>4. CASE t # s
      <3>1. \A x \in Bound(t)' : x \in Bound(t)
        BY <2>1, <2>2, <1>2
      <3>2. ASSUME NEW x \in Bound(t)
            PROVE  x \in Bound(t)'
        <4>1. PICK j \in 1 .. n : registry[j].service = t /\ x = registry[j].provider
          BY <2>2
        <4>2. j # i
          BY <1>1, <2>4, <4>1
        <4>3. PICK k \in 1 .. m : new(k) = j
          BY <4>2, <1>2
        <4>4. registry'[k] = registry[j]
          BY <4>3, <1>2
        <4> QED
          BY <2>1, <4>1, <4>4
      <3> QED
        BY <2>4, <3>1, <3>2
    <2> QED
      BY <2>3, <2>4
  <1> QED
    BY <1>3, <1>4

LEMMA BindIs ==
    ASSUME RegType, NEW s \in Services, EntryOf(s) = 0, count < RegSize, NEW p \in 0 .. MaxInst,
           registry' = [registry EXCEPT ![count + 1] = Entry(s, p)], count' = count + 1
    PROVE  RegType' /\ \A t : Bound(t)' = IF t = s THEN {p} ELSE Bound(t)
  <1> DEFINE n == count + 1
  <1>1. /\ count \in Nat /\ n \in 1 .. RegSize /\ n \notin 1 .. count
        /\ \A k \in 1 .. n : k = n \/ k \in 1 .. count
        /\ \A k \in 1 .. count : k \in 1 .. n /\ k # n /\ k \in 1 .. RegSize
    BY ManifestAssumption DEF RegType
  <1>2. \A j \in 1 .. count : registry[j].service # s
    <2>1. 0 \notin 1 .. count
      BY <1>1
    <2> QED
      BY <2>1, EntryOfIs
  <1>3. registry'[n] = Entry(s, p) /\ \A k \in 1 .. count : registry'[k] = registry[k]
    BY <1>1 DEF RegType
  <1>4. Entry(s, p).service = s /\ Entry(s, p).provider = p
    BY DEF Entry
  <1>5. RegType'
    <2>1. registry' \in [1 .. RegSize -> [service : Services \cup {"none"}, provider : 0 .. MaxInst]]
      BY <1>1 DEF RegType, Entry
    <2>2. count' \in 0 .. RegSize
      BY <1>1
    <2>3. \A k \in 1 .. n : registry'[k].service \in Services
      BY <1>1, <1>3, <1>4 DEF RegType
    <2>4. \A k, l \in 1 .. n : registry'[k].service = registry'[l].service => k = l
      BY <1>1, <1>2, <1>3, <1>4 DEF RegType
    <2> QED
      BY <2>1, <2>2, <2>3, <2>4 DEF RegType
  <1>6. ASSUME NEW t
        PROVE  Bound(t)' = IF t = s THEN {p} ELSE Bound(t)
    <2>1. Bound(t)' = {registry'[k].provider : k \in {l \in 1 .. n : registry'[l].service = t}}
      BY DEF Bound
    <2>2. Bound(t) = {registry[k].provider : k \in {l \in 1 .. count : registry[l].service = t}}
      BY DEF Bound
    <2>3. CASE t = s
      <3>1. \A k \in 1 .. n : registry'[k].service = s <=> k = n
        BY <1>1, <1>2, <1>3, <1>4
      <3>2. n \in 1 .. n
        BY <1>1
      <3> QED
        BY <2>1, <2>3, <3>1, <3>2, <1>3, <1>4
    <2>4. CASE t # s
      <3>1. {l \in 1 .. n : registry'[l].service = t} = {l \in 1 .. count : registry[l].service = t}
        BY <1>1, <1>3, <1>4, <2>4
      <3> QED
        BY <2>1, <2>2, <2>4, <3>1, <1>3
    <2> QED
      BY <2>3, <2>4
  <1> QED
    BY <1>5, <1>6

\* The registry has room for a service that it does not have.
LEMMA RoomLeft ==
    ASSUME RegType, NEW s \in Services, EntryOf(s) = 0
    PROVE  count < RegSize
  <1>1. /\ Len(ServiceList) \in Nat /\ Len(ServiceList) <= RegSize /\ RegSize \in Nat
        /\ count \in Nat
    BY ManifestAssumption DEF RegType
  <1>2. ServiceList \in Surjection(1 .. Len(ServiceList), Services)
    <2>1. ServiceList \in [1 .. Len(ServiceList) -> Services] /\ DOMAIN ServiceList = 1 .. Len(ServiceList)
      BY ManifestAssumption, LenProperties
    <2>2. \A x \in Services : \E i \in DOMAIN ServiceList : ServiceList[i] = x
      BY DEF Services, ToSet
    <2> QED
      BY <2>1, <2>2 DEF Surjection
  <1>3. IsFiniteSet(1 .. Len(ServiceList)) /\ Cardinality(1 .. Len(ServiceList)) = Len(ServiceList)
    <2>1. PICK l \in Nat : l = Len(ServiceList)
      BY <1>1
    <2>2. IsFiniteSet(1 .. l) /\ Cardinality(1 .. l) = l
      BY FS_Interval
    <2> QED
      BY <2>1, <2>2
  <1>4. IsFiniteSet(Services) /\ Cardinality(Services) <= Len(ServiceList)
    BY <1>2, <1>3, FS_Surjection
  <1> DEFINE R == Services \ {s}
  <1>5. IsFiniteSet(R) /\ Cardinality(R) = Cardinality(Services) - 1 /\ Cardinality(Services) \in Nat
    BY <1>4, FS_RemoveElement, FS_CardinalityType
  <1> DEFINE f == [k \in 1 .. count |-> registry[k].service]
  <1>6. f \in Injection(1 .. count, R)
    <2>1. \A k \in 1 .. count : registry[k].service \in R
      <3>1. 0 \notin 1 .. count
        BY <1>1
      <3> QED
        BY <3>1, EntryOfIs DEF RegType
    <2> QED
      BY <2>1 DEF RegType, Injection, IsInjective
  <1> HIDE DEF R, f
  <1>7. Cardinality(1 .. count) <= Cardinality(R)
    BY <1>5, <1>6, FS_Injection
  <1>8. Cardinality(1 .. count) = count
    BY <1>1, FS_Interval
  <1> QED
    BY <1>1, <1>4, <1>5, <1>7, <1>8
-----------------------------------------------------------------------------
(* The invariant at the start. *)

InstRec == [comp : Comps, status : {"inited", "active", "refused"}, freed : Nat]

LEMMA InstanceTyped ==
    ASSUME NEW c \in Comps
    PROVE  /\ Instance(c) \in InstRec
           /\ Instance(c).comp = c /\ Instance(c).freed = 0
  BY DEF Instance, InstRec

LEMMA InitHolds == Init => IInv
  <1> SUFFICES ASSUME Init PROVE IInv
    OBVIOUS
  <1>1. PICK ok \in SUBSET Comps :
            LET names == Only(Manifest, ok)
                routed == Only(ServiceList, {s \in Services : ProviderOf[s] \in ok \cup {Elsewhere}})
                ProviderAt(s) == IF ProviderOf[s] = Elsewhere THEN NoInst
                                 ELSE CHOOSE i \in DOMAIN names : names[i] = ProviderOf[s]
            IN  /\ inst = [i \in DOMAIN names |-> Instance(names[i])]
                /\ loaded = [i \in DOMAIN names |-> i]
                /\ registry = [i \in 1 .. RegSize |->
                                  IF i <= Len(routed) THEN Entry(routed[i], ProviderAt(routed[i]))
                                  ELSE Entry("none", NoInst)]
                /\ count = Len(routed)
    BY DEF Init
  <1> DEFINE Wanted == {s \in Services : ProviderOf[s] \in ok \cup {Elsewhere}}
             ProviderAt(s) == IF ProviderOf[s] = Elsewhere THEN NoInst
                              ELSE CHOOSE i \in DOMAIN Only(Manifest, ok) :
                                       Only(Manifest, ok)[i] = ProviderOf[s]
  <1>2. PICK names : names = Only(Manifest, ok)
    OBVIOUS
  <1>3. PICK routed : routed = Only(ServiceList, Wanted)
    OBVIOUS
  <1>4. /\ components = loaded /\ msg_queue = <<>>
        /\ wpc = "start" /\ at = 1 /\ cur = NoInst /\ msg = "none"
        /\ cpc = "idle" /\ target = NoInst /\ again = FALSE /\ todo = <<>>
        /\ mpc = "up" /\ left = 0
        /\ keep_running = TRUE /\ stop_requested = FALSE /\ posted = 0
    BY DEF Init
  <1>5. /\ names \in Seq(Comps) /\ Len(names) <= Len(Manifest) /\ IsInjective(names)
        /\ ToSet(names) = ok /\ Len(names) \in Nat /\ DOMAIN names = 1 .. Len(names)
    <2>1. ToSet(Manifest) = Comps /\ Manifest \in Seq(Comps) /\ IsInjective(Manifest)
      BY ManifestAssumption DEF Comps
    <2>2. /\ names \in Seq(Comps) /\ Len(names) <= Len(Manifest) /\ IsInjective(names)
          /\ ToSet(names) = Comps \cap ok
      BY <1>2, <2>1, OnlyIs
    <2> QED
      BY <2>2, LenProperties
  <1>6. /\ routed \in Seq(Services) /\ Len(routed) <= Len(ServiceList) /\ IsInjective(routed)
        /\ ToSet(routed) = Wanted /\ Len(routed) \in Nat /\ DOMAIN routed = 1 .. Len(routed)
    <2>1. ToSet(ServiceList) = Services /\ ServiceList \in Seq(Services) /\ IsInjective(ServiceList)
      BY ManifestAssumption DEF Services
    <2>2. /\ routed \in Seq(Services) /\ Len(routed) <= Len(ServiceList) /\ IsInjective(routed)
          /\ ToSet(routed) = Services \cap Wanted
      BY <1>3, <2>1, OnlyIs
    <2>3. Services \cap Wanted = Wanted
      OBVIOUS
    <2> QED
      BY <2>2, <2>3, LenProperties
  <1> DEFINE n == Len(names)
             r == Len(routed)
  <1>7. n \in 0 .. MaxInst /\ r \in 0 .. RegSize /\ RegSize \in Nat /\ MaxInst \in Nat
    <2>1. Len(Manifest) \in Nat /\ Len(ServiceList) \in Nat
      BY ManifestAssumption
    <2> HIDE DEF n, r
    <2> QED
      BY <2>1, <1>5, <1>6, ManifestAssumption DEF n, r
  <1>8. /\ inst = [i \in 1 .. n |-> Instance(names[i])] /\ loaded = [i \in 1 .. n |-> i]
        /\ count = r
        /\ registry = [i \in 1 .. RegSize |->
                          IF i <= r THEN Entry(routed[i], ProviderAt(routed[i]))
                          ELSE Entry("none", NoInst)]
    BY <1>1, <1>2, <1>3, <1>5
  <1>9. \A i \in 1 .. n : names[i] \in Comps
    BY <1>5
  <1>10. /\ inst \in Seq(InstRec) /\ Len(inst) = n /\ DOMAIN inst = 1 .. n
         /\ \A i \in 1 .. n : inst[i].comp = names[i] /\ inst[i].freed = 0
    <2>1. \A i \in 1 .. n : Instance(names[i]) \in InstRec
      BY <1>9, InstanceTyped
    <2>2. inst \in [1 .. n -> InstRec] /\ n \in Nat
      BY <1>5, <1>8, <2>1
    <2>3. inst \in Seq(InstRec) /\ Len(inst) = n /\ DOMAIN inst = 1 .. n
      <3> HIDE DEF n
      <3> QED
        BY <2>2
    <2>4. \A i \in 1 .. n : inst[i].comp = names[i] /\ inst[i].freed = 0
      BY <1>8, <1>9, InstanceTyped
    <2> QED
      BY <2>3, <2>4
  <1>11. loaded \in Seq(1 .. n) /\ IsInjective(loaded) /\ ToSet(loaded) = 1 .. n
    <2>1. loaded \in Seq(1 .. n)
      BY <1>5, <1>8
    <2>2. DOMAIN loaded = 1 .. n /\ \A i \in 1 .. n : loaded[i] = i
      BY <1>8
    <2> QED
      BY <2>1, <2>2 DEF ToSet, IsInjective
  <1>12. \A i, j \in 1 .. n : names[i] = names[j] => i = j
    BY <1>5 DEF IsInjective
  <1>13. Loaded = 1 .. n /\ Indices = 1 .. n /\ Hosted = 1 .. n
    BY <1>4, <1>10, <1>11 DEF Loaded, Indices, Hosted
  <1>14. \A s \in Services : /\ ProviderOf[s] = Elsewhere => ProviderAt(s) = NoInst
                             /\ ProviderOf[s] \in ok => /\ ProviderAt(s) \in 1 .. n
                                                        /\ names[ProviderAt(s)] = ProviderOf[s]
    <2> TAKE s \in Services
    <2>1. ASSUME ProviderOf[s] \in ok
          PROVE  ProviderAt(s) \in 1 .. n /\ names[ProviderAt(s)] = ProviderOf[s]
      <3>1. ProviderOf[s] # Elsewhere
        BY <2>1, ManifestAssumption
      <3>2. \E i \in DOMAIN names : names[i] = ProviderOf[s]
        BY <2>1, <1>5 DEF ToSet
      <3> QED
        BY <3>1, <3>2, <1>2, <1>5
    <2> QED
      BY <2>1
  <1> HIDE DEF ProviderAt
  <1>15. \A i \in 1 .. r : /\ routed[i] \in Wanted /\ routed[i] \in Services
                           /\ i \in 1 .. RegSize
                           /\ registry[i].service = routed[i]
                           /\ registry[i].provider = ProviderAt(routed[i])
                           /\ ProviderAt(routed[i]) \in 0 .. MaxInst
    <2> TAKE i \in 1 .. r
    <2>1. routed[i] \in Wanted /\ i \in 1 .. RegSize /\ i <= r
      BY <1>6, <1>7 DEF ToSet
    <2>2. registry[i] = Entry(routed[i], ProviderAt(routed[i]))
      BY <2>1, <1>8
    <2>3. ProviderAt(routed[i]) \in 0 .. MaxInst
      BY <2>1, <1>7, <1>14 DEF NoInst
    <2> QED
      BY <2>1, <2>2, <2>3 DEF Entry
  <1>16. RegType
    <2>1. ASSUME NEW i \in 1 .. RegSize
          PROVE  registry[i] \in [service : Services \cup {"none"}, provider : 0 .. MaxInst]
      <3>1. CASE i <= r
        <4>1. i \in 1 .. r
          BY <3>1, <1>7
        <4>2. registry[i] = Entry(routed[i], ProviderAt(routed[i]))
          BY <3>1, <1>8
        <4> QED
          BY <4>1, <4>2, <1>15 DEF Entry
      <3>2. CASE ~(i <= r)
        BY <3>2, <1>7, <1>8 DEF Entry, NoInst
      <3> QED
        BY <3>1, <3>2
    <2>2. registry \in [1 .. RegSize -> [service : Services \cup {"none"}, provider : 0 .. MaxInst]]
      BY <2>1, <1>8
    <2>3. \A i, j \in 1 .. r : registry[i].service = registry[j].service => i = j
      BY <1>6, <1>15 DEF IsInjective
    <2> QED
      BY <2>2, <2>3, <1>7, <1>8, <1>15 DEF RegType
  <1>17. Routed
    <2> SUFFICES ASSUME NEW s \in Services
                 PROVE  Bound(s) = IF ProviderOf[s] = Elsewhere THEN {NoInst}
                                   ELSE IF Hole(s) THEN {} ELSE Providing(s)
      BY DEF Routed
    <2>1. ~Hole(s)
      BY <1>4 DEF Hole, Busy
    <2>2. Bound(s) = {registry[i].provider : i \in {j \in 1 .. r : registry[j].service = s}}
      BY <1>8 DEF Bound
    <2>3. Providing(s) = {i \in 1 .. n : names[i] = ProviderOf[s]}
      BY <1>10, <1>13 DEF Providing
    <2>4. CASE s \in Wanted
      <3>1. PICK k \in 1 .. r : routed[k] = s
        BY <2>4, <1>6 DEF ToSet
      <3>2. \A j \in 1 .. r : registry[j].service = s => j = k
        BY <3>1, <1>6, <1>15 DEF IsInjective
      <3>3. Bound(s) = {ProviderAt(s)}
        BY <2>2, <3>1, <3>2, <1>15
      <3>4. CASE ProviderOf[s] = Elsewhere
        BY <3>3, <3>4, <1>14
      <3>5. CASE ProviderOf[s] # Elsewhere
        <4>1. ProviderAt(s) \in 1 .. n /\ names[ProviderAt(s)] = ProviderOf[s]
          BY <2>4, <3>5, <1>14
        <4>2. Providing(s) = {ProviderAt(s)}
          BY <4>1, <2>3, <1>12
        <4> QED
          BY <3>3, <3>5, <4>2, <2>1
      <3> QED
        BY <3>4, <3>5
    <2>5. CASE s \notin Wanted
      <3>1. \A j \in 1 .. r : registry[j].service # s
        BY <2>5, <1>15
      <3>2. Bound(s) = {}
        BY <2>2, <3>1
      <3>3. ProviderOf[s] # Elsewhere /\ ProviderOf[s] \notin ok
        BY <2>5
      <3>4. \A i \in 1 .. n : names[i] \in ok
        BY <1>5 DEF ToSet
      <3>5. Providing(s) = {}
        BY <2>3, <3>3, <3>4
      <3> QED
        BY <3>2, <3>3, <3>5, <2>1
    <2> QED
      BY <2>4, <2>5
  <1>18. InstType
    BY <1>7, <1>10 DEF InstType, InstRec
  <1>19. ListType
    BY <1>4, <1>10, <1>11, <1>12, <1>13 DEF ListType
  <1>20. WorkerType
    BY <1>4, <1>7, EmptySeq DEF WorkerType, NoInst
  <1>21. CliType
    <2>1. IsInjective(<<>>)
      BY DEF IsInjective
    <2>2. Len(inst) \in Nat
      BY <1>7, <1>10
    <2>3. cpc \notin Busy /\ cpc = "idle"
      BY <1>4 DEF Busy
    <2>4. <<>> \in Seq(Services) /\ IsInjective(todo)
      BY <1>4, <2>1, EmptySeq
    <2>5. target \in 0 .. Len(inst) /\ again \in BOOLEAN
      <3>1. PICK k \in Nat : k = Len(inst)
        BY <2>2
      <3>2. target = 0 /\ again = FALSE
        BY <1>4 DEF NoInst
      <3>3. 0 \in 0 .. k
        BY <3>1
      <3> QED
        BY <3>1, <3>2, <3>3
    <2> QED
      BY <1>4, <2>3, <2>4, <2>5 DEF CliType
  <1>22. MainType
    <2>1. MaxPosts \in Nat
      BY ManifestAssumption
    <2>2. posted \in 0 .. MaxPosts /\ left \in Nat
      BY <1>4, <2>1
    <2> QED
      BY <1>4, <2>2 DEF MainType
  <1>23. Hosting
    BY <1>4, <1>13 DEF Hosting, Busy
  <1>24. Freeing
    BY <1>4, <1>10, <1>13 DEF Freeing, Cleaned
  <1> QED
    BY <1>16, <1>17, <1>18, <1>19, <1>20, <1>21, <1>22, <1>23, <1>24 DEF IInv
-----------------------------------------------------------------------------
(* What a step that leaves a part alone keeps of it. *)

\* the instances and their components stay; what changes is the status or the
\* times freed
SameInstances ==
    Len(inst') = Len(inst) /\ \A i \in Indices : inst'[i].comp = inst[i].comp

LEMMA Basics ==
    ASSUME IInv
    PROVE  /\ Len(inst) \in Nat /\ DOMAIN inst = Indices /\ Indices \subseteq Nat
           /\ \A i \in Indices : inst[i] \in InstRec
           /\ Loaded \subseteq Indices /\ Hosted \subseteq Indices
           /\ MaxInst \in Nat /\ RegSize \in Nat /\ count \in Nat
           /\ Len(loaded) \in Nat /\ DOMAIN loaded = 1 .. Len(loaded)
  <1>1. inst \in Seq(InstRec)
    BY DEF IInv, InstType, InstRec
  <1>2. Len(inst) \in Nat /\ DOMAIN inst = Indices /\ \A i \in Indices : inst[i] \in InstRec
    BY <1>1 DEF Indices
  <1>3. Indices \subseteq Nat
    <2>1. PICK k \in Nat : k = Len(inst)
      BY <1>2
    <2> QED
      BY <2>1 DEF Indices
  <1>4. Loaded \subseteq Indices /\ Hosted \subseteq Indices
    BY DEF IInv, ListType, Loaded, Hosted, ToSet
  <1>5. Len(loaded) \in Nat /\ DOMAIN loaded = 1 .. Len(loaded)
    BY DEF IInv, ListType
  <1>6. MaxInst \in Nat /\ RegSize \in Nat
    BY ManifestAssumption
  <1>7. count \in Nat
    BY <1>6 DEF IInv, RegType
  <1> QED
    BY <1>2, <1>3, <1>4, <1>5, <1>6, <1>7

LEMMA UntouchedKeeps ==
    ASSUME IInv
    PROVE  /\ UNCHANGED inst => SameInstances /\ InstType'
           /\ UNCHANGED routing => RegType'
           /\ UNCHANGED <<loaded, cpc, main, ending, posted>> => MainType'
           /\ UNCHANGED <<inst, loaded, main>> => Freeing'
  <1>1. UNCHANGED inst => SameInstances /\ InstType'
    BY DEF IInv, InstType, SameInstances
  <1>2. UNCHANGED routing => RegType'
    BY DEF IInv, RegType, routing
  <1>3. UNCHANGED <<loaded, cpc, main, ending, posted>> => MainType'
    BY DEF IInv, MainType, main, ending
  <1>4. UNCHANGED <<inst, loaded, main>> => Freeing'
    BY DEF IInv, Freeing, Cleaned, Indices, Loaded, main
  <1> QED
    BY <1>1, <1>2, <1>3, <1>4

LEMMA SameInstancesKeep ==
    ASSUME IInv, SameInstances
    PROVE  /\ Indices' = Indices
           /\ UNCHANGED <<loaded, components>> => ListType'
           /\ UNCHANGED <<msg_queue, worker>> => WorkerType'
           /\ UNCHANGED cli => CliType'
           /\ UNCHANGED <<loaded, components, cpc, target>> => Hosting'
           /\ UNCHANGED <<loaded, routing, cli>> => Routed'
  <1>1. Indices' = Indices
    BY DEF SameInstances, Indices
  <1>2. UNCHANGED <<loaded, components>> => ListType'
    <2> SUFFICES ASSUME UNCHANGED <<loaded, components>> PROVE ListType'
      OBVIOUS
    <2>1. Loaded' = Loaded /\ Loaded \subseteq Indices
      BY Basics DEF Loaded
    <2>2. \A i, j \in Loaded : inst'[i].comp = inst'[j].comp => i = j
      BY <2>1 DEF SameInstances, IInv, ListType
    <2> QED
      BY <1>1, <2>1, <2>2 DEF IInv, ListType
  <1>3. UNCHANGED <<msg_queue, worker>> => WorkerType'
    BY <1>1 DEF IInv, WorkerType, worker
  <1>4. \A i \in Indices : inst'[i].comp = inst[i].comp
    BY DEF SameInstances
  <1>5. UNCHANGED cli => CliType'
    <2> SUFFICES ASSUME UNCHANGED cli PROVE CliType'
      OBVIOUS
    <2>1. Len(inst') = Len(inst) /\ cpc' = cpc /\ target' = target /\ again' = again /\ todo' = todo
      BY DEF SameInstances, cli
    <2>2. cpc \in Busy => target \in Indices
      BY DEF IInv, CliType
    <2> QED
      BY <1>1, <1>4, <2>1, <2>2 DEF IInv, CliType
  <1>6. UNCHANGED <<loaded, components, cpc, target>> => Hosting'
    <2> SUFFICES ASSUME UNCHANGED <<loaded, components, cpc, target>> PROVE Hosting'
      OBVIOUS
    <2>1. Loaded' = Loaded /\ Loaded \subseteq Indices /\ Hosted' = Hosted
      BY Basics DEF Loaded, Hosted
    <2>2. cpc = "load" => target \in Indices
      BY DEF IInv, CliType, Busy
    <2> QED
      BY <1>4, <2>1, <2>2 DEF IInv, Hosting
  <1>7. UNCHANGED <<loaded, routing, cli>> => Routed'
    <2> SUFFICES ASSUME UNCHANGED <<loaded, routing, cli>>, NEW s \in Services
                 PROVE  Bound(s)' = IF ProviderOf[s] = Elsewhere THEN {NoInst}
                                    ELSE IF Hole(s)' THEN {} ELSE Providing(s)'
      BY DEF Routed
    <2>1. Loaded' = Loaded /\ Loaded \subseteq Indices /\ Bound(s)' = Bound(s)
      BY Basics DEF Loaded, Bound, routing
    <2>2. Providing(s)' = Providing(s)
      BY <1>4, <2>1 DEF Providing
    <2>3. cpc' = cpc /\ target' = target /\ todo' = todo
      BY DEF cli
    <2>4. cpc \in Busy => target \in Indices
      BY DEF IInv, CliType
    <2>5. Hole(s)' = Hole(s)
      BY <1>4, <2>3, <2>4 DEF Hole
    <2> QED
      BY <2>1, <2>2, <2>5 DEF IInv, Routed
  <1> QED
    BY <1>1, <1>2, <1>3, <1>5, <1>6, <1>7

\* A step of the worker, or of a poster, that leaves the instances alone.
LEMMA WorkerOnly ==
    ASSUME IInv, UNCHANGED <<inst, loaded, components, routing, cli, main, ending>>,
           WorkerType', posted' \in 0 .. MaxPosts
    PROVE  IInv'
  <1>1. SameInstances /\ InstType' /\ RegType' /\ Freeing'
    BY UntouchedKeeps
  <1>2. ListType' /\ CliType' /\ Hosting' /\ Routed'
    BY <1>1, SameInstancesKeep DEF cli
  <1>3. MainType'
    BY DEF IInv, MainType, main, ending, cli
  <1> QED
    BY <1>1, <1>2, <1>3 DEF IInv

\* One instance's record changes, but for its component.
LEMMA InstanceChanges ==
    ASSUME IInv, NEW i \in Indices, NEW r \in InstRec, r.comp = inst[i].comp,
           inst' = [inst EXCEPT ![i] = r]
    PROVE  /\ SameInstances /\ InstType' /\ inst'[i] = r
           /\ \A j \in Indices : j # i => inst'[j] = inst[j]
  <1>1. inst \in Seq(InstRec) /\ Len(inst) <= MaxInst
    BY DEF IInv, InstType, InstRec
  <1>2. /\ inst' \in Seq(InstRec) /\ Len(inst') = Len(inst) /\ inst'[i] = r
        /\ \A j \in Indices : j # i => inst'[j] = inst[j]
    BY <1>1 DEF Indices
  <1>3. SameInstances
    BY <1>2 DEF SameInstances
  <1>4. InstType'
    BY <1>1, <1>2 DEF InstType, InstRec
  <1> QED
    BY <1>2, <1>3, <1>4
-----------------------------------------------------------------------------
(* The worker and the posters. *)

LEMMA StartNextKeeps ==
    ASSUME IInv, StartNext
    PROVE  IInv'
  <1>1. /\ UNCHANGED <<inst, loaded, components, routing, cli, main, ending, posted>>
        /\ UNCHANGED <<msg_queue, msg>> /\ wpc' \in {"start", "starting", "loop"}
        /\ at' \in {at, at + 1}
        /\ \/ wpc' # "starting" /\ cur' = cur
           \/ cur' = components[at] /\ ~(at > Len(components))
    BY DEF StartNext, InLoop
  <1>2. at \in Nat \ {0} /\ cur \in 0 .. MaxInst /\ components \in Seq(Indices)
    BY DEF IInv, WorkerType, ListType
  <1>3. (wpc' # "starting" /\ cur' = cur) \/ cur' \in Indices
    <2>1. ASSUME ~(at > Len(components))
          PROVE  components[at] \in Indices
      BY <2>1, <1>2
    <2> QED
      BY <1>1, <2>1
  <1>4. Indices \subseteq 0 .. MaxInst
    <2>1. PICK k \in Nat : k = Len(inst)
      BY Basics
    <2> QED
      BY <2>1, ManifestAssumption DEF Indices, IInv, InstType
  <1>5. WorkerType'
    <2>1. Indices' = Indices
      BY <1>1 DEF Indices
    <2>2. at' \in Nat \ {0}
      BY <1>1, <1>2
    <2>3. cur' \in 0 .. MaxInst /\ (wpc' = "starting" => cur' \in Indices)
      BY <1>2, <1>3, <1>4
    <2> QED
      BY <1>1, <2>1, <2>2, <2>3 DEF IInv, WorkerType
  <1>6. posted' \in 0 .. MaxPosts
    BY <1>1 DEF IInv, MainType
  <1> QED
    BY <1>1, <1>5, <1>6, WorkerOnly

LEMMA StartedKeeps ==
    ASSUME IInv, Started
    PROVE  IInv'
  <1>0. PICK outcome \in {"active", "refused"} : inst' = [inst EXCEPT ![cur].status = outcome]
    BY DEF Started
  <1>1. /\ inst' = [inst EXCEPT ![cur].status = outcome] /\ wpc = "starting" /\ wpc' = "start"
        /\ at' = at + 1
        /\ UNCHANGED <<cur, msg, msg_queue, loaded, components, routing, cli, main, ending, posted>>
    BY <1>0 DEF Started, InLoop
  <1>2. cur \in Indices
    BY <1>1 DEF IInv, WorkerType
  <1>3. inst[cur] \in InstRec
    BY <1>2, Basics
  <1>4. PICK r : r = [inst[cur] EXCEPT !.status = outcome]
    OBVIOUS
  <1>5. r \in InstRec /\ r.comp = inst[cur].comp /\ r.freed = inst[cur].freed
    BY <1>3, <1>4 DEF InstRec
  <1>6. inst' = [inst EXCEPT ![cur] = r]
    BY <1>1, <1>4
  <1>7. /\ SameInstances /\ InstType' /\ inst'[cur] = r
        /\ \A j \in Indices : j # cur => inst'[j] = inst[j]
    BY <1>2, <1>5, <1>6, InstanceChanges
  <1>8. ListType' /\ CliType' /\ Hosting' /\ Routed' /\ Indices' = Indices
    BY <1>1, <1>7, SameInstancesKeep DEF cli
  <1>9. RegType' /\ MainType'
    BY <1>1, UntouchedKeeps DEF cli
  <1>10. WorkerType'
    BY <1>1 DEF IInv, WorkerType
  <1>11. Freeing'
    <2>1. \A i \in Indices : inst'[i].freed = inst[i].freed
      BY <1>5, <1>7
    <2>2. Loaded' = Loaded /\ \A i : Cleaned(i)' = Cleaned(i)
      BY <1>1 DEF Loaded, Cleaned, main
    <2> QED
      BY <1>8, <2>1, <2>2 DEF IInv, Freeing
  <1> QED
    BY <1>7, <1>8, <1>9, <1>10, <1>11 DEF IInv

\* The steps of the loop and of the dispatch.
LEMMA DispatchKeeps ==
    ASSUME IInv, LoopEnds \/ LoopTurns \/ Take \/ Find \/ Call \/ Return
    PROVE  IInv'
  <1>1. UNCHANGED <<inst, loaded, components, routing, cli, main, ending, posted>>
    BY DEF LoopEnds, LoopTurns, Take, Find, Call, Return, InLoop
  <1>2. Indices' = Indices
    BY <1>1 DEF Indices
  <1>3. /\ at \in Nat \ {0} /\ cur \in 0 .. MaxInst /\ msg \in Services \cup {"none"}
        /\ msg_queue \in Seq(Services) /\ (wpc = "found" => at \in 1 .. RegSize)
    BY DEF IInv, WorkerType
  <1>4. CASE LoopEnds \/ LoopTurns \/ Return
    <2>1. /\ wpc' \in {"exited", "drain"} /\ UNCHANGED <<at, cur, msg, msg_queue>>
      BY <1>4 DEF LoopEnds, LoopTurns, Return
    <2>2. WorkerType'
      BY <1>3, <2>1 DEF WorkerType
    <2> QED
      BY <1>1, <2>2, WorkerOnly DEF IInv, MainType
  <1>5. CASE Take
    <2>1. /\ wpc' \in {"loop", "find"} /\ cur' = cur
          /\ \/ UNCHANGED <<msg_queue, at, msg>>
             \/ /\ msg_queue # <<>> /\ at' = 1
                /\ msg' = Head(msg_queue) /\ msg_queue' = Tail(msg_queue)
      BY <1>5 DEF Take
    <2>2. msg_queue' \in Seq(Services) /\ msg' \in Services \cup {"none"} /\ at' \in Nat \ {0}
      BY <1>3, <2>1, HeadTailProperties
    <2>3. WorkerType'
      BY <1>3, <2>1, <2>2 DEF WorkerType
    <2> QED
      BY <1>1, <2>3, WorkerOnly DEF IInv, MainType
  <1>6. CASE Find
    <2>1. /\ UNCHANGED <<msg_queue, cur, msg>> /\ at' \in {at, at + 1}
          /\ \/ wpc' \in {"drain", "find"}
             \/ wpc' = "found" /\ ~(at > count) /\ at' = at
      BY <1>6 DEF Find
    <2>2. at' \in Nat \ {0} /\ (wpc' = "found" => at' \in 1 .. RegSize)
      <3>1. count \in 0 .. RegSize /\ RegSize \in Nat
        BY Basics DEF IInv, RegType
      <3> QED
        BY <1>3, <2>1, <3>1
    <2>3. WorkerType'
      BY <1>3, <2>1, <2>2 DEF WorkerType
    <2> QED
      BY <1>1, <2>3, WorkerOnly DEF IInv, MainType
  <1>7. CASE Call
    <2>1. /\ UNCHANGED <<msg_queue, at, msg>> /\ wpc = "found" /\ wpc' \in {"drain", "running"}
          /\ cur' \in {cur, registry[at].provider}
      BY <1>7 DEF Call
    <2>2. cur' \in 0 .. MaxInst
      BY <1>3, <2>1 DEF IInv, RegType
    <2>3. WorkerType'
      BY <1>3, <2>1, <2>2 DEF WorkerType
    <2> QED
      BY <1>1, <2>3, WorkerOnly DEF IInv, MainType
  <1> QED
    BY <1>4, <1>5, <1>6, <1>7

LEMMA PostKeeps ==
    ASSUME IInv, NEW s \in Services, Post(s)
    PROVE  IInv'
  <1>1. /\ posted < MaxPosts /\ posted' = posted + 1 /\ msg_queue' = Append(msg_queue, s)
        /\ UNCHANGED <<inst, loaded, components, routing, worker, cli, main, ending>>
    BY DEF Post
  <1>2. posted' \in 0 .. MaxPosts
    BY <1>1, ManifestAssumption DEF IInv, MainType
  <1>3. msg_queue' \in Seq(Services)
    BY <1>1, AppendProperties DEF IInv, WorkerType
  <1>4. WorkerType'
    BY <1>1, <1>3 DEF IInv, WorkerType, worker, Indices
  <1> QED
    BY <1>1, <1>2, <1>4, WorkerOnly

LEMMA WorkerKeeps ==
    ASSUME IInv, Worker
    PROVE  IInv'
  BY StartNextKeeps, StartedKeeps, DispatchKeeps DEF Worker
-----------------------------------------------------------------------------
(* The prompt, the end of the node and main's clean-up. *)

LEMMA PromptKeeps ==
    ASSUME IInv, ReadLine \/ OtherCommand \/ Quit
    PROVE  IInv'
  <1>1. /\ cpc \in {"idle", "reading"} /\ cpc' \in {"idle", "reading", "exited"}
        /\ again' = again /\ keep_running' \in {keep_running, FALSE}
        /\ UNCHANGED <<inst, loaded, components, routing, msg_queue, worker,
                       target, todo, main, stop_requested, posted>>
    BY DEF ReadLine, OtherCommand, Quit, AtPrompt
  <1>2. cpc \notin Busy /\ cpc' \notin Busy /\ cpc # "exited"
    BY <1>1 DEF Busy
  <1>3. SameInstances /\ InstType' /\ RegType' /\ Freeing'
    BY <1>1, UntouchedKeeps
  <1>4. ListType' /\ WorkerType' /\ Indices' = Indices
    BY <1>1, <1>3, SameInstancesKeep
  <1>5. CliType'
    BY <1>1, <1>2, <1>4 DEF IInv, CliType, Busy
  <1>6. MainType'
    BY <1>1, <1>2 DEF IInv, MainType, main
  <1>7. Hosting'
    <2>1. Hosted' = Hosted /\ Loaded' = Loaded
      BY <1>1 DEF Hosted, Loaded
    <2> QED
      BY <1>2, <2>1 DEF IInv, Hosting, Busy
  <1>8. Routed'
    <2> SUFFICES ASSUME NEW s \in Services
                 PROVE  Bound(s)' = IF ProviderOf[s] = Elsewhere THEN {NoInst}
                                    ELSE IF Hole(s)' THEN {} ELSE Providing(s)'
      BY DEF Routed
    <2>1. ~Hole(s) /\ ~Hole(s)'
      BY <1>2 DEF Hole
    <2>2. Bound(s)' = Bound(s) /\ Providing(s)' = Providing(s)
      BY <1>1 DEF Bound, Providing, Loaded, routing
    <2> QED
      BY <2>1, <2>2 DEF IInv, Routed
  <1> QED
    BY <1>3, <1>4, <1>5, <1>6, <1>7, <1>8 DEF IInv

\* A step of main that leaves the instances alone.
LEMMA MainOnly ==
    ASSUME IInv, UNCHANGED <<inst, loaded, components, routing, worker, cli, posted>>,
           msg_queue' \in {msg_queue, <<>>}, MainType', Freeing'
    PROVE  IInv'
  <1>1. SameInstances /\ InstType' /\ RegType'
    BY UntouchedKeeps
  <1>2. ListType' /\ CliType' /\ Hosting' /\ Routed' /\ Indices' = Indices
    BY <1>1, SameInstancesKeep DEF cli
  <1>3. WorkerType'
    <2>1. msg_queue' \in Seq(Services)
      BY EmptySeq DEF IInv, WorkerType
    <2> QED
      BY <1>2, <2>1 DEF IInv, WorkerType, worker
  <1> QED
    BY <1>1, <1>2, <1>3 DEF IInv

LEMMA EndingKeeps ==
    ASSUME IInv, Signal \/ StopAll \/ JoinWorker
    PROVE  IInv'
  <1>1. /\ UNCHANGED <<inst, loaded, components, routing, msg_queue, worker, cli, left, posted>>
        /\ keep_running' \in BOOLEAN /\ stop_requested' \in BOOLEAN
        /\ \/ mpc' = mpc
           \/ mpc \in {"up", "join_worker"} /\ mpc' \in {"join_worker", "join_cli"}
    BY DEF Signal, StopAll, JoinWorker, IInv, MainType, main, ending
  <1>2. MainType'
    BY <1>1 DEF IInv, MainType, cli
  <1>3. Freeing'
    <2>1. \A i : Cleaned(i)' <=> Cleaned(i)
      BY <1>1 DEF Cleaned
    <2> QED
      BY <1>1, <2>1 DEF IInv, Freeing, Indices, Loaded
  <1> QED
    BY <1>1, <1>2, <1>3, MainOnly

LEMMA JoinCliKeeps ==
    ASSUME IInv, JoinCli
    PROVE  IInv'
  <1>1. /\ mpc = "join_cli" /\ cpc = "exited" /\ mpc' = "clean" /\ left' = Len(loaded)
        /\ UNCHANGED <<inst, loaded, components, routing, msg_queue, worker, cli, ending, posted>>
    BY DEF JoinCli
  <1>2. Len(loaded) \in Nat /\ DOMAIN loaded = 1 .. Len(loaded)
    BY Basics
  <1>3. MainType'
    BY <1>1, <1>2 DEF IInv, MainType, cli, ending
  <1>4. Freeing'
    <2>1. \A i : ~Cleaned(i)
      BY <1>1 DEF Cleaned
    <2>2. \A i : ~Cleaned(i)'
      BY <1>1, <1>2 DEF Cleaned
    <2> QED
      BY <1>1, <2>1, <2>2 DEF IInv, Freeing, Indices, Loaded
  <1> QED
    BY <1>1, <1>3, <1>4, MainOnly

LEMMA CleanNextKeeps ==
    ASSUME IInv, CleanNext
    PROVE  IInv'
  <1>1. /\ mpc = "clean" /\ left > 0 /\ left' = left - 1
        /\ inst' = [inst EXCEPT ![loaded[left]].freed = @ + 1]
        /\ UNCHANGED <<loaded, components, routing, msg_queue, worker, cli, mpc, ending, posted>>
    BY DEF CleanNext, FreeInst
  <1>2. left \in 1 .. Len(loaded) /\ Len(loaded) \in Nat /\ DOMAIN loaded = 1 .. Len(loaded)
    <2>1. left \in Nat /\ left <= Len(loaded) /\ Len(loaded) \in Nat /\ DOMAIN loaded = 1 .. Len(loaded)
      BY <1>1, Basics DEF IInv, MainType
    <2> QED
      BY <1>1, <2>1
  <1>3. PICK t : t = loaded[left]
    OBVIOUS
  <1>4. t \in Loaded /\ t \in Indices /\ inst[t] \in InstRec
    <2>1. t \in Loaded
      BY <1>2, <1>3 DEF Loaded, ToSet
    <2> QED
      BY <2>1, Basics
  <1>5. PICK r : r = [inst[t] EXCEPT !.freed = @ + 1]
    OBVIOUS
  <1>6. r \in InstRec /\ r.comp = inst[t].comp /\ r.freed = inst[t].freed + 1
    BY <1>4, <1>5 DEF InstRec
  <1>7. inst' = [inst EXCEPT ![t] = r]
    BY <1>1, <1>3, <1>5
  <1>8. /\ SameInstances /\ InstType' /\ inst'[t] = r
        /\ \A j \in Indices : j # t => inst'[j] = inst[j]
    BY <1>4, <1>6, <1>7, InstanceChanges
  <1>9. ListType' /\ WorkerType' /\ CliType' /\ Hosting' /\ Routed' /\ Indices' = Indices
    BY <1>1, <1>8, SameInstancesKeep DEF cli
  <1>10. RegType'
    BY <1>1, UntouchedKeeps
  <1>11. MainType'
    BY <1>1, <1>2 DEF IInv, MainType, cli, ending
  <1>12. \A i : Cleaned(i)' <=> i = t \/ Cleaned(i)
    <2>1. \A k \in 1 .. Len(loaded) : k > left - 1 <=> k = left \/ k > left
      BY <1>2
    <2> QED
      BY <1>1, <1>2, <1>3, <2>1 DEF Cleaned
  <1>13. ~Cleaned(t)
    <2> SUFFICES ASSUME NEW k \in 1 .. Len(loaded), k > left, loaded[k] = t PROVE FALSE
      BY <1>2 DEF Cleaned
    <2>1. k = left
      BY <1>2, <1>3 DEF IInv, ListType, IsInjective
    <2> QED
      BY <1>2, <2>1
  <1>14. Freeing'
    <2> SUFFICES ASSUME NEW i \in Indices
                 PROVE  inst'[i].freed = IF i \notin Loaded \/ Cleaned(i)' THEN 1 ELSE 0
      BY <1>1, <1>9 DEF Freeing, Loaded
    <2>1. inst[i].freed = IF i \notin Loaded \/ Cleaned(i) THEN 1 ELSE 0
      BY DEF IInv, Freeing
    <2>2. CASE i = t
      BY <2>1, <2>2, <1>4, <1>6, <1>8, <1>12, <1>13
    <2>3. CASE i # t
      BY <2>1, <2>3, <1>8, <1>12
    <2> QED
      BY <2>2, <2>3
  <1> QED
    BY <1>8, <1>9, <1>10, <1>11, <1>14 DEF IInv

LEMMA DeinitKeeps ==
    ASSUME IInv, Deinit
    PROVE  IInv'
  <1>1. /\ mpc = "clean" /\ left = 0 /\ mpc' = "done" /\ msg_queue' = <<>>
        /\ UNCHANGED <<inst, loaded, components, routing, worker, cli, left, ending, posted>>
    BY DEF Deinit
  <1>2. MainType'
    BY <1>1 DEF IInv, MainType, cli, ending
  <1>3. Freeing'
    <2>1. \A i : Cleaned(i)' <=> Cleaned(i)
      BY <1>1 DEF Cleaned
    <2> QED
      BY <1>1, <2>1 DEF IInv, Freeing, Indices, Loaded
  <1> QED
    BY <1>1, <1>2, <1>3, MainOnly
-----------------------------------------------------------------------------
(* The commands that change the tables. *)

LEMMA ServicesOfIs ==
    ASSUME NEW c
    PROVE  /\ ServicesOf(c) \in Seq(Services) /\ IsInjective(ServicesOf(c))
           /\ ToSet(ServicesOf(c)) = {s \in Services : ProviderOf[s] = c}
  <1>1. ToSet(ServiceList) = Services /\ ServiceList \in Seq(Services) /\ IsInjective(ServiceList)
    BY ManifestAssumption DEF Services
  <1> QED
    BY <1>1, OnlyIs DEF ServicesOf

\* While a command runs, main has not come to its clean-up.
LEMMA BusyBeforeClean ==
    ASSUME IInv, cpc # "exited", UNCHANGED <<main, ending, posted>>
    PROVE  /\ MainType'
           /\ \A i : ~Cleaned(i) /\ ~Cleaned(i)'
           /\ \A i \in Indices : inst[i].freed = IF i \in Loaded THEN 0 ELSE 1
  <1>1. mpc \notin {"clean", "done"} /\ mpc' = mpc /\ left' = left
    BY DEF IInv, MainType, main
  <1>2. MainType'
    BY <1>1 DEF IInv, MainType, ending
  <1>3. \A i : ~Cleaned(i) /\ ~Cleaned(i)'
    BY <1>1 DEF Cleaned
  <1> QED
    BY <1>2, <1>3 DEF IInv, Freeing

LEMMA UnloadKeeps ==
    ASSUME IInv, NEW c \in Comps, Unload(c)
    PROVE  IInv'
  <1>1. /\ cpc = "reading" /\ cpc' = "unroute" /\ todo' = ServicesOf(c)
        /\ again' \in BOOLEAN /\ (again' => Len(inst) < MaxInst)
        /\ UNCHANGED <<inst, loaded, routing, msg_queue, worker, main, ending, posted>>
    BY DEF Unload
  <1>2. PICK i \in Loaded : inst[i].comp = c /\ target' = i
    BY DEF Unload, Loaded
  <1>3. Hosted = Loaded /\ i \in Hosted /\ i \in Indices
    BY <1>1, <1>2, Basics DEF IInv, Hosting
  <1>4. components' \in Seq(Indices) /\ IsInjective(components') /\ Hosted' = Hosted \ {i}
    <2> DEFINE here == {k \in DOMAIN components : components[k] = target'}
    <2>1. here # {}
      BY <1>2, <1>3 DEF Hosted, ToSet
    <2>2. PICK k : k = CHOOSE l \in here : TRUE
      OBVIOUS
    <2>3. k \in DOMAIN components /\ components[k] = i
      BY <2>1, <2>2, <1>2
    <2>4. components' = Front([components EXCEPT ![k] = Last(components)])
      BY <2>1, <2>2 DEF Unload
    <2>5. components \in Seq(Indices) /\ IsInjective(components)
      BY DEF IInv, ListType
    <2> QED
      BY <2>3, <2>4, <2>5, SwapRemoveIs DEF Hosted
  <1>5. SameInstances /\ InstType' /\ RegType' /\ Freeing'
    BY <1>1, UntouchedKeeps
  <1>6. WorkerType' /\ Indices' = Indices /\ Loaded' = Loaded
    BY <1>1, <1>5, SameInstancesKeep DEF Loaded
  <1>7. ListType'
    BY <1>1, <1>4, <1>6 DEF IInv, ListType, Loaded
  <1>8. MainType'
    BY <1>1, BusyBeforeClean
  <1>9. todo' \in Seq(Services) /\ IsInjective(todo') /\ ToSet(todo') = {s \in Services : ProviderOf[s] = c}
    BY <1>1, ServicesOfIs
  <1>10. CliType'
    <2>1. target' \in 0 .. Len(inst')
      <3>1. PICK k \in Nat : k = Len(inst)
        BY Basics
      <3> QED
        BY <3>1, <1>1, <1>2, <1>3 DEF Indices
    <2> QED
      BY <1>1, <1>2, <1>3, <1>6, <1>9, <2>1 DEF CliType, Busy
  <1>11. Hosting'
    BY <1>1, <1>2, <1>3, <1>4, <1>6 DEF Hosting, Busy
  <1>12. Routed'
    <2> SUFFICES ASSUME NEW s \in Services
                 PROVE  Bound(s)' = IF ProviderOf[s] = Elsewhere THEN {NoInst}
                                    ELSE IF Hole(s)' THEN {} ELSE Providing(s)'
      BY DEF Routed
    <2>1. ~Hole(s)
      BY <1>1 DEF Hole, Busy
    <2>2. ~Hole(s)'
      <3>1. inst'[target'].comp = c
        BY <1>1, <1>2
      <3> QED
        BY <1>1, <1>9, <3>1 DEF Hole
    <2>3. Bound(s)' = Bound(s) /\ Providing(s)' = Providing(s)
      BY <1>1 DEF Bound, Providing, Loaded, routing
    <2> QED
      BY <2>1, <2>2, <2>3 DEF IInv, Routed
  <1> QED
    BY <1>5, <1>6, <1>7, <1>8, <1>10, <1>11, <1>12 DEF IInv

\* A step of a command that changes routes alone: the parts that must still be
\* shown for it.
LEMMA RouteStep ==
    ASSUME IInv, UNCHANGED <<inst, loaded, components, msg_queue, worker, target, again,
                             main, ending, posted>>,
           RegType', Routed',
           cpc \in {"unroute", "rebind"}, cpc' = cpc \/ (cpc = "rebind" /\ cpc' = "idle"),
           todo' \in Seq(Services), IsInjective(todo'), ToSet(todo') \subseteq ToSet(todo)
    PROVE  IInv'
  <1>1. SameInstances /\ InstType' /\ Freeing'
    BY UntouchedKeeps
  <1>2. ListType' /\ WorkerType' /\ Indices' = Indices
    BY <1>1, SameInstancesKeep
  <1>3. MainType'
    BY BusyBeforeClean
  <1>4. CliType'
    <2>1. cpc' \in Busy => cpc' = cpc
      BY DEF Busy
    <2>2. CASE cpc' = cpc
      BY <1>2, <2>2 DEF IInv, CliType
    <2>3. CASE cpc' = "idle"
      BY <1>2, <2>3 DEF IInv, CliType, Busy
    <2> QED
      BY <2>2, <2>3
  <1>5. Hosting'
    <2>1. Hosted' = Hosted /\ Loaded' = Loaded
      BY DEF Hosted, Loaded
    <2>2. CASE cpc' = cpc
      BY <2>1, <2>2 DEF IInv, Hosting
    <2>3. CASE cpc = "rebind" /\ cpc' = "idle"
      BY <2>1, <2>3 DEF IInv, Hosting, Busy
    <2> QED
      BY <2>2, <2>3
  <1> QED
    BY <1>1, <1>2, <1>3, <1>4, <1>5 DEF IInv

LEMMA UnrouteKeeps ==
    ASSUME IInv, Unroute
    PROVE  IInv'
  <1>1. /\ cpc = "unroute" /\ cpc' = cpc /\ todo # <<>> /\ todo' = Tail(todo)
        /\ UNCHANGED <<inst, loaded, components, msg_queue, worker, target, again,
                       main, ending, posted>>
    BY DEF Unroute
  <1>2. PICK h : h = Head(todo)
    OBVIOUS
  <1>3. todo \in Seq(Services) /\ IsInjective(todo)
    BY DEF IInv, CliType
  <1>4. /\ h \in ToSet(todo) /\ h \in Services
        /\ todo' \in Seq(Services) /\ IsInjective(todo') /\ ToSet(todo') = ToSet(todo) \ {h}
    BY <1>1, <1>2, <1>3, TailIs
  <1>5. ProviderOf[h] = inst[target].comp /\ target \in Indices
    BY <1>1, <1>4 DEF IInv, CliType, Busy
  <1>6. ProviderOf[h] # Elsewhere
    BY <1>5, Basics, ManifestAssumption DEF InstRec
  <1>7. RegType' /\ \A t : Bound(t)' = IF t = h THEN {} ELSE Bound(t)
    <2>1. RegType
      BY DEF IInv
    <2>2. CASE EntryOf(h) = 0
      <3>1. UNCHANGED routing
        BY <1>2, <2>2 DEF Unroute
      <3>2. 0 \notin 1 .. count /\ RegType'
        BY <3>1, Basics, UntouchedKeeps
      <3>3. Bound(h) = {}
        BY <2>1, <2>2, <3>2, EntryOfIs
      <3> QED
        BY <3>1, <3>2, <3>3 DEF Bound, routing
    <2>3. CASE EntryOf(h) # 0
      <3>1. PICK i : i = EntryOf(h)
        OBVIOUS
      <3>2. registry' = [registry EXCEPT ![i] = registry[count]] /\ count' = count - 1
        BY <1>2, <2>3, <3>1 DEF Unroute
      <3> QED
        BY <2>1, <2>3, <3>1, <3>2, UnbindIs
    <2> QED
      BY <2>2, <2>3
  <1>8. Routed'
    <2> SUFFICES ASSUME NEW s \in Services
                 PROVE  Bound(s)' = IF ProviderOf[s] = Elsewhere THEN {NoInst}
                                    ELSE IF Hole(s)' THEN {} ELSE Providing(s)'
      BY DEF Routed
    <2>1. Providing(s)' = Providing(s)
      BY <1>1 DEF Providing, Loaded
    <2>2. Hole(s)' <=> Hole(s) \/ s = h
      BY <1>1, <1>4, <1>5 DEF Hole, Busy
    <2>3. Bound(s) = IF ProviderOf[s] = Elsewhere THEN {NoInst}
                     ELSE IF Hole(s) THEN {} ELSE Providing(s)
      BY DEF IInv, Routed
    <2> QED
      BY <2>1, <2>2, <2>3, <1>6, <1>7
  <1> QED
    BY <1>1, <1>4, <1>7, <1>8, RouteStep

LEMMA RebindKeeps ==
    ASSUME IInv, Rebind
    PROVE  IInv'
  <1>1. /\ cpc = "rebind"
        /\ UNCHANGED <<inst, loaded, components, msg_queue, worker, target, again,
                       main, ending, posted>>
    BY DEF Rebind
  <1>2. /\ todo \in Seq(Services) /\ IsInjective(todo) /\ target \in Indices
        /\ \A s \in ToSet(todo) : ProviderOf[s] = inst[target].comp
    BY <1>1 DEF IInv, CliType, Busy
  <1>3. \A s : Providing(s)' = Providing(s)
    BY <1>1 DEF Providing, Loaded
  <1>4. CASE todo = <<>>
    <2>1. cpc' = "idle" /\ UNCHANGED <<routing, todo>>
      BY <1>4 DEF Rebind
    <2>2. RegType'
      BY <2>1, UntouchedKeeps
    <2>3. ToSet(todo) = {}
      BY <1>4 DEF ToSet
    <2>4. Routed'
      <3>1. \A s : ~Hole(s) /\ ~Hole(s)'
        BY <1>1, <2>1, <2>3 DEF Hole, Busy
      <3>2. \A s : Bound(s)' = Bound(s)
        BY <2>1 DEF Bound, routing
      <3> QED
        BY <1>3, <3>1, <3>2 DEF IInv, Routed
    <2> QED
      BY <1>1, <1>2, <2>1, <2>2, <2>4, RouteStep
  <1>5. CASE todo # <<>>
    <2>1. PICK h : h = Head(todo)
      OBVIOUS
    <2>2. todo' = Tail(todo) /\ cpc' = cpc
      BY <1>5 DEF Rebind
    <2>3. /\ h \in ToSet(todo) /\ h \in Services
          /\ todo' \in Seq(Services) /\ IsInjective(todo') /\ ToSet(todo') = ToSet(todo) \ {h}
      BY <1>2, <1>5, <2>1, <2>2, TailIs
    <2>4. ProviderOf[h] = inst[target].comp /\ ProviderOf[h] # Elsewhere
      BY <1>2, <2>3, Basics, ManifestAssumption DEF InstRec
    <2>5. Bound(h) = {} /\ RegType
      <3>1. Hole(h)
        BY <1>1, <2>3, <2>4 DEF Hole, Busy
      <3> QED
        BY <2>3, <2>4, <3>1 DEF IInv, Routed
    <2>6. EntryOf(h) = 0 /\ count < RegSize
      <3>1. EntryOf(h) = 0
        <4>1. \A x : {x} # {}
          OBVIOUS
        <4> QED
          BY <2>5, <4>1, EntryOfIs
      <3> QED
        BY <2>3, <2>5, <3>1, RoomLeft
    <2>7. registry' = [registry EXCEPT ![count + 1] = Entry(h, target)] /\ count' = count + 1
      <3>1. count \in Nat /\ RegSize \in Nat
        BY Basics
      <3>2. ~(EntryOf(h) = 0 /\ count >= RegSize)
        BY <2>6, <3>1
      <3> QED
        BY <1>5, <2>1, <2>6, <3>2 DEF Rebind
    <2>8. target \in 0 .. MaxInst
      <3>1. PICK k \in Nat : k = Len(inst)
        BY Basics
      <3> QED
        BY <1>2, <3>1, Basics DEF Indices, IInv, InstType
    <2>9. RegType' /\ \A t : Bound(t)' = IF t = h THEN {target} ELSE Bound(t)
      BY <2>3, <2>5, <2>6, <2>7, <2>8, BindIs
    <2>10. Providing(h) = {target}
      <3>1. target \in Loaded
        BY <1>1 DEF IInv, Hosting, Busy
      <3> QED
        BY <2>4, <3>1 DEF IInv, ListType, Providing
    <2>11. Routed'
      <3> SUFFICES ASSUME NEW s \in Services
                   PROVE  Bound(s)' = IF ProviderOf[s] = Elsewhere THEN {NoInst}
                                      ELSE IF Hole(s)' THEN {} ELSE Providing(s)'
        BY DEF Routed
      <3>1. Hole(s)' <=> Hole(s) /\ s # h
        BY <1>1, <2>2, <2>3 DEF Hole, Busy
      <3>2. Bound(s) = IF ProviderOf[s] = Elsewhere THEN {NoInst}
                       ELSE IF Hole(s) THEN {} ELSE Providing(s)
        BY DEF IInv, Routed
      <3> QED
        BY <1>3, <2>4, <2>9, <2>10, <3>1, <3>2
    <2> QED
      BY <1>1, <2>2, <2>3, <2>9, <2>11, RouteStep
  <1> QED
    BY <1>4, <1>5

LEMMA FreeKeeps ==
    ASSUME IInv, Free
    PROVE  IInv'
  <1>1. /\ cpc = "unroute" /\ todo = <<>> /\ cpc' = IF again THEN "load" ELSE "idle"
        /\ inst' = [inst EXCEPT ![target].freed = @ + 1]
        /\ loaded' = Only(loaded, Loaded \ {target})
        /\ UNCHANGED <<components, routing, msg_queue, worker, target, again, todo,
                       main, ending, posted>>
    BY DEF Free, FreeInst, Loaded
  <1>2. target \in Loaded /\ target \in Indices /\ inst[target] \in InstRec
    BY <1>1, Basics DEF IInv, Hosting, Busy
  <1>3. PICK r : r = [inst[target] EXCEPT !.freed = @ + 1]
    OBVIOUS
  <1>4. r \in InstRec /\ r.comp = inst[target].comp /\ r.freed = inst[target].freed + 1
    BY <1>2, <1>3 DEF InstRec
  <1>5. inst' = [inst EXCEPT ![target] = r]
    BY <1>1, <1>3
  <1>6. /\ SameInstances /\ InstType' /\ inst'[target] = r
        /\ \A j \in Indices : j # target => inst'[j] = inst[j]
    BY <1>2, <1>4, <1>5, InstanceChanges
  <1>7. WorkerType' /\ Indices' = Indices /\ Len(inst') = Len(inst)
    BY <1>1, <1>6, SameInstancesKeep DEF SameInstances
  <1>8. \A i \in Indices : inst'[i].comp = inst[i].comp
    BY <1>6 DEF SameInstances
  <1>9. RegType'
    BY <1>1, UntouchedKeeps
  <1>10. /\ MainType' /\ \A i : ~Cleaned(i) /\ ~Cleaned(i)'
         /\ \A i \in Indices : inst[i].freed = IF i \in Loaded THEN 0 ELSE 1
    <2>1. mpc \notin {"clean", "done"} /\ mpc' = mpc /\ left' = left
      BY <1>1 DEF IInv, MainType, main
    <2>2. \A i : ~Cleaned(i) /\ ~Cleaned(i)'
      BY <2>1 DEF Cleaned
    <2>3. MainType'
      BY <1>1, <2>1 DEF IInv, MainType, ending
    <2> QED
      BY <2>2, <2>3 DEF IInv, Freeing
  <1>11. loaded' \in Seq(Indices) /\ IsInjective(loaded') /\ Loaded' = Loaded \ {target}
    <2>1. loaded \in Seq(Indices) /\ IsInjective(loaded)
      BY DEF IInv, ListType
    <2>2. /\ loaded' \in Seq(Indices) /\ IsInjective(loaded')
          /\ ToSet(loaded') = ToSet(loaded) \cap (Loaded \ {target})
      BY <1>1, <2>1, OnlyIs
    <2> QED
      BY <2>2 DEF Loaded
  <1>12. ListType'
    <2>1. Loaded \subseteq Indices
      BY Basics
    <2>2. \A i, j \in Loaded' : inst'[i].comp = inst'[j].comp => i = j
      BY <1>8, <1>11, <2>1 DEF IInv, ListType
    <2> QED
      BY <1>1, <1>7, <1>11, <2>2 DEF IInv, ListType
  <1>13. CliType'
    <2>1. again => Len(inst) < MaxInst
      BY <1>1 DEF IInv, CliType
    <2>2. (cpc' = "load" /\ again) \/ cpc' = "idle"
      BY <1>1
    <2>3. ToSet(todo) = {}
      BY <1>1 DEF ToSet
    <2>4. target' \in 0 .. Len(inst') /\ again' \in BOOLEAN /\ todo' \in Seq(Services) /\ IsInjective(todo')
      BY <1>1, <1>7 DEF IInv, CliType
    <2>5. ToSet(todo') = {} /\ target' \in Indices'
      BY <1>1, <1>2, <1>7, <2>3
    <2>6. cpc' = "load" \/ (cpc' = "unroute" /\ again') => Len(inst') < MaxInst
      BY <1>7, <2>1, <2>2
    <2> QED
      BY <2>2, <2>4, <2>5, <2>6 DEF CliType, Busy
  <1>14. Hosting'
    <2>1. Hosted' = Loaded \ {target}
      BY <1>1 DEF IInv, Hosting, Hosted
    <2>2. cpc' \in {"load", "idle"}
      BY <1>1
    <2>3. \A i \in Loaded' : inst'[i].comp # inst'[target'].comp
      <3>1. Loaded \subseteq Indices
        BY Basics
      <3> QED
        BY <1>1, <1>2, <1>8, <1>11, <3>1 DEF IInv, ListType
    <2> QED
      BY <1>11, <2>1, <2>2, <2>3 DEF Hosting, Busy
  <1>15. Routed'
    <2> SUFFICES ASSUME NEW s \in Services
                 PROVE  Bound(s)' = IF ProviderOf[s] = Elsewhere THEN {NoInst}
                                    ELSE IF Hole(s)' THEN {} ELSE Providing(s)'
      BY DEF Routed
    <2>1. Bound(s)' = Bound(s)
      BY <1>1 DEF Bound, routing
    <2>2. ~Hole(s)'
      BY <1>1 DEF Hole
    <2>3. s \notin ToSet(todo)
      BY <1>1 DEF ToSet
    <2>4. Hole(s) <=> ProviderOf[s] = inst[target].comp
      BY <1>1, <2>3 DEF Hole, Busy
    <2>5. Providing(s)' = Providing(s) \ {target}
      <3>1. Loaded \subseteq Indices
        BY Basics
      <3> QED
        BY <1>8, <1>11, <3>1 DEF Providing
    <2>6. CASE Hole(s)
      <3>1. Providing(s) = {target}
        BY <1>2, <2>4, <2>6 DEF Providing, IInv, ListType
      <3> QED
        BY <2>1, <2>2, <2>5, <2>6, <3>1 DEF IInv, Routed
    <2>7. CASE ~Hole(s)
      <3>1. target \notin Providing(s)
        BY <2>4, <2>7 DEF Providing
      <3> QED
        BY <2>1, <2>2, <2>5, <2>7, <3>1 DEF IInv, Routed
    <2> QED
      BY <2>6, <2>7
  <1>16. Freeing'
    <2> SUFFICES ASSUME NEW i \in Indices
                 PROVE  inst'[i].freed = IF i \notin Loaded' \/ Cleaned(i)' THEN 1 ELSE 0
      BY <1>7 DEF Freeing
    <2>1. inst[i].freed = IF i \in Loaded THEN 0 ELSE 1
      BY <1>10
    <2>2. CASE i = target
      BY <2>1, <2>2, <1>2, <1>4, <1>6, <1>11
    <2>3. CASE i # target
      BY <2>1, <2>3, <1>6, <1>10, <1>11
    <2> QED
      BY <2>2, <2>3
  <1> QED
    BY <1>6, <1>7, <1>9, <1>10, <1>12, <1>13, <1>14, <1>15, <1>16 DEF IInv

LEMMA LoadFailsKeeps ==
    ASSUME IInv, cpc = "load", cpc' = "idle",
           UNCHANGED <<inst, loaded, components, routing, msg_queue, worker, target, again,
                       todo, main, ending, posted>>
    PROVE  IInv'
  <1>1. SameInstances /\ InstType' /\ RegType' /\ Freeing'
    BY UntouchedKeeps
  <1>2. ListType' /\ WorkerType' /\ Indices' = Indices
    BY <1>1, SameInstancesKeep
  <1>3. MainType'
    BY BusyBeforeClean
  <1>4. CliType'
    BY <1>2 DEF IInv, CliType, Busy
  <1>5. Hosting'
    BY DEF IInv, Hosting, Busy, Hosted, Loaded
  <1>6. Routed'
    <2>1. \A s : ~Hole(s) /\ ~Hole(s)' /\ Bound(s)' = Bound(s) /\ Providing(s)' = Providing(s)
      BY DEF Hole, Busy, Bound, Providing, Loaded, routing
    <2> QED
      BY <2>1 DEF IInv, Routed
  <1> QED
    BY <1>1, <1>2, <1>3, <1>4, <1>5, <1>6 DEF IInv

LEMMA LoadKeeps ==
    ASSUME IInv, Load
    PROVE  IInv'
  <1>1. CASE cpc' = "idle"
    BY <1>1, LoadFailsKeeps DEF Load
  <1>2. CASE cpc' # "idle"
    <2> DEFINE c == inst[target].comp
    <2>1. /\ cpc = "load" /\ cpc' = "rehost" /\ target' = Len(inst) + 1
          /\ inst' = Append(inst, Instance(c)) /\ loaded' = Append(loaded, target')
          /\ UNCHANGED <<components, routing, msg_queue, worker, again, todo,
                         main, ending, posted>>
      BY <1>2 DEF Load
    <2>2. PICK n \in Nat : n = Len(inst)
      BY Basics
    <2>3. PICK t \in Nat : t = n + 1
      BY <2>2
    <2>4. Len(inst) < MaxInst /\ target \in Indices /\ inst[target] \in InstRec
      BY <2>1, Basics DEF IInv, CliType, Busy
    <2>5. c \in Comps /\ Instance(c) \in InstRec /\ Instance(c).comp = c /\ Instance(c).freed = 0
      BY <2>4, InstanceTyped DEF InstRec
    <2> HIDE DEF c
    <2>6. inst \in Seq(InstRec)
      BY DEF IInv, InstType, InstRec
    <2>7. /\ inst' \in Seq(InstRec) /\ Len(inst') = t /\ inst'[t] = Instance(c)
          /\ \A i \in 1 .. n : inst'[i] = inst[i]
      BY <2>1, <2>2, <2>3, <2>5, <2>6, AppendProperties
    <2>8. Indices = 1 .. n /\ Indices' = Indices \cup {t} /\ t \notin Indices
      BY <2>2, <2>3, <2>7 DEF Indices
    <2>9. target' = t /\ Loaded \subseteq Indices /\ Hosted \subseteq Indices
      BY <2>1, <2>2, <2>3, Basics
    <2>10. loaded' \in Seq(Indices') /\ IsInjective(loaded') /\ Loaded' = Loaded \cup {t}
      <3>1. loaded \in Seq(Indices') /\ IsInjective(loaded)
        BY <2>8, WiderList DEF IInv, ListType
      <3>2. t \in Indices' /\ t \notin ToSet(loaded)
        BY <2>8, <2>9 DEF Loaded
      <3>3. loaded' = Append(loaded, t)
        BY <2>1, <2>9
      <3>4. /\ loaded' \in Seq(Indices') /\ IsInjective(loaded')
            /\ ToSet(loaded') = ToSet(loaded) \cup {t}
        BY <3>1, <3>2, <3>3, AppendIs
      <3> QED
        BY <3>4 DEF Loaded
    <2>11. \A i \in Loaded : i \in Indices /\ i # t /\ inst'[i] = inst[i] /\ inst[i].comp # c
      <3>1. \A i \in Loaded : inst[i].comp # c
        BY <2>1 DEF IInv, Hosting, c
      <3> QED
        BY <2>7, <2>8, <2>9, <3>1
    <2>12. InstType'
      BY <2>2, <2>3, <2>4, <2>7, ManifestAssumption DEF InstType, InstRec
    <2>13. ListType'
      <3>1. inst'[t].comp = c /\ \A i \in Loaded : inst'[i].comp = inst[i].comp /\ inst'[i].comp # c
        BY <2>5, <2>7, <2>11
      <3>3. \A i, j \in Loaded : inst[i].comp = inst[j].comp => i = j
        BY DEF IInv, ListType
      <3>4. \A i, j \in Loaded' : inst'[i].comp = inst'[j].comp => i = j
        BY <2>10, <3>1, <3>3
      <3>2. components' \in Seq(Indices') /\ IsInjective(components')
        <4>1. components \in Seq(Indices) /\ IsInjective(components)
          BY DEF IInv, ListType
        <4> QED
          BY <4>1, <2>1, <2>8, WiderList
      <3> QED
        BY <2>10, <3>2, <3>4 DEF ListType
    <2>14. RegType'
      BY <2>1, UntouchedKeeps
    <2>15. WorkerType'
      BY <2>1, <2>8 DEF IInv, WorkerType, worker
    <2>16. MainType'
      <3>1. mpc \notin {"clean", "done"}
        BY <2>1 DEF IInv, MainType
      <3> QED
        BY <2>1, <3>1 DEF IInv, MainType, main, ending
    <2>17. CliType'
      <3>1. \A s \in ToSet(todo) : ProviderOf[s] = c
        BY <2>1 DEF IInv, CliType, Busy, c
      <3>2. target' \in 0 .. Len(inst') /\ target' \in Indices' /\ inst'[target'].comp = c
        BY <2>3, <2>5, <2>7, <2>8, <2>9
      <3> QED
        BY <2>1, <3>1, <3>2 DEF IInv, CliType, Busy
    <2>18. Hosting'
      <3>1. Hosted' = Hosted /\ Hosted = Loaded
        BY <2>1 DEF IInv, Hosting, Hosted
      <3>2. Hosted' = Loaded' \ {t}
        BY <2>10, <2>11, <3>1
      <3> QED
        BY <2>1, <2>9, <2>10, <3>2 DEF Hosting, Busy
    <2>19. Routed'
      <3> SUFFICES ASSUME NEW s \in Services
                   PROVE  Bound(s)' = IF ProviderOf[s] = Elsewhere THEN {NoInst}
                                      ELSE IF Hole(s)' THEN {} ELSE Providing(s)'
        BY DEF Routed
      <3>1. Bound(s)' = Bound(s) /\ ~Hole(s)
        BY <2>1 DEF Bound, routing, Hole
      <3>2. inst'[target'].comp = c
        BY <2>5, <2>7, <2>9
      <3>3. Hole(s)' <=> ProviderOf[s] = c
        BY <2>1, <3>2 DEF Hole, Busy
      <3>4. Bound(s) = IF ProviderOf[s] = Elsewhere THEN {NoInst} ELSE Providing(s)
        BY <3>1 DEF IInv, Routed
      <3>5. CASE ProviderOf[s] = c
        <4>1. Providing(s) = {}
          BY <2>11, <3>5 DEF Providing
        <4>2. ProviderOf[s] # Elsewhere
          BY <2>5, <3>5, ManifestAssumption
        <4> QED
          BY <3>1, <3>3, <3>4, <3>5, <4>1, <4>2
      <3>6. CASE ProviderOf[s] # c
        <4>1. Providing(s)' = Providing(s)
          BY <2>5, <2>7, <2>10, <2>11, <3>6 DEF Providing
        <4> QED
          BY <3>1, <3>3, <3>4, <3>6, <4>1
      <3> QED
        BY <3>5, <3>6
    <2>20. Freeing'
      <3>1. \A i : ~Cleaned(i) /\ ~Cleaned(i)'
        BY <2>1 DEF IInv, MainType, Cleaned, main
      <3> SUFFICES ASSUME NEW i \in Indices'
                   PROVE  inst'[i].freed = IF i \notin Loaded' \/ Cleaned(i)' THEN 1 ELSE 0
        BY DEF Freeing
      <3>2. CASE i = t
        BY <2>5, <2>7, <2>10, <3>1, <3>2
      <3>3. CASE i # t
        <4>1. i \in Indices /\ inst'[i] = inst[i]
          BY <2>7, <2>8, <3>3
        <4>2. inst[i].freed = IF i \notin Loaded \/ Cleaned(i) THEN 1 ELSE 0
          BY <4>1 DEF IInv, Freeing
        <4> QED
          BY <2>10, <3>1, <3>3, <4>1, <4>2
      <3> QED
        BY <3>2, <3>3
    <2> QED
      BY <2>12, <2>13, <2>14, <2>15, <2>16, <2>17, <2>18, <2>19, <2>20 DEF IInv
  <1> QED
    BY <1>1, <1>2

LEMMA RehostKeeps ==
    ASSUME IInv, Rehost
    PROVE  IInv'
  <1>1. /\ cpc = "rehost" /\ cpc' = "rebind" /\ components' = Append(components, target)
        /\ todo' = ServicesOf(inst[target].comp)
        /\ UNCHANGED <<inst, loaded, routing, msg_queue, worker, target, again,
                       main, ending, posted>>
    BY DEF Rehost
  <1>2. target \in Indices /\ target \in Loaded /\ Hosted = Loaded \ {target}
    BY <1>1, Basics DEF IInv, Hosting, Busy
  <1>3. SameInstances /\ InstType' /\ RegType' /\ Freeing'
    BY <1>1, UntouchedKeeps
  <1>4. WorkerType' /\ Indices' = Indices /\ Loaded' = Loaded
    BY <1>1, <1>3, SameInstancesKeep DEF Loaded
  <1>5. components' \in Seq(Indices) /\ IsInjective(components') /\ Hosted' = Loaded
    <2>1. components \in Seq(Indices) /\ IsInjective(components) /\ target \notin ToSet(components)
      BY <1>2 DEF IInv, ListType, Hosted
    <2>2. /\ components' \in Seq(Indices) /\ IsInjective(components')
          /\ ToSet(components') = ToSet(components) \cup {target}
      BY <1>1, <1>2, <2>1, AppendIs
    <2> QED
      BY <1>2, <2>2 DEF Hosted
  <1>6. ListType'
    BY <1>1, <1>4, <1>5 DEF IInv, ListType
  <1>7. MainType'
    BY <1>1, BusyBeforeClean
  <1>8. /\ todo' \in Seq(Services) /\ IsInjective(todo')
        /\ ToSet(todo') = {s \in Services : ProviderOf[s] = inst[target].comp}
    BY <1>1, ServicesOfIs
  <1>9. CliType'
    BY <1>1, <1>2, <1>4, <1>8 DEF IInv, CliType, Busy
  <1>10. Hosting'
    BY <1>1, <1>2, <1>4, <1>5 DEF Hosting, Busy
  <1>11. Routed'
    <2> SUFFICES ASSUME NEW s \in Services
                 PROVE  Bound(s)' = IF ProviderOf[s] = Elsewhere THEN {NoInst}
                                    ELSE IF Hole(s)' THEN {} ELSE Providing(s)'
      BY DEF Routed
    <2>1. Bound(s)' = Bound(s) /\ Providing(s)' = Providing(s)
      BY <1>1 DEF Bound, Providing, Loaded, routing
    <2>2. Hole(s)' <=> Hole(s)
      BY <1>1, <1>8 DEF Hole, Busy
    <2> QED
      BY <2>1, <2>2 DEF IInv, Routed
  <1> QED
    BY <1>3, <1>4, <1>6, <1>7, <1>9, <1>10, <1>11 DEF IInv
-----------------------------------------------------------------------------
LEMMA NextKeeps == IInv /\ [Next]_vars => IInv'
  <1> SUFFICES ASSUME IInv, [Next]_vars PROVE IInv'
    OBVIOUS
  <1>1. CASE Worker \/ \E s \in Services : Post(s)
    BY <1>1, WorkerKeeps, PostKeeps
  <1>2. CASE ReadLine \/ Operator
    BY <1>2, PromptKeeps, UnloadKeeps DEF Operator
  <1>3. CASE Command
    BY <1>3, UnrouteKeeps, FreeKeeps, LoadKeeps, RehostKeeps, RebindKeeps DEF Command
  <1>4. CASE Signal \/ Main
    BY <1>4, EndingKeeps, JoinCliKeeps, CleanNextKeeps, DeinitKeeps DEF Main
  <1>5. CASE UNCHANGED vars
    <2>1. UNCHANGED <<inst, loaded, components, routing, msg_queue, worker, cli, main, ending, posted>>
      BY <1>5 DEF vars
    <2>2. WorkerType'
      BY <2>1 DEF IInv, WorkerType, worker, Indices
    <2>3. posted' \in 0 .. MaxPosts
      BY <2>1 DEF IInv, MainType
    <2> QED
      BY <2>1, <2>2, <2>3, WorkerOnly
  <1> QED
    BY <1>1, <1>2, <1>3, <1>4, <1>5 DEF Next

LEMMA Invariant == Spec => []IInv
  <1>1. Init => IInv
    BY InitHolds
  <1>2. IInv /\ [Next]_vars => IInv'
    BY NextKeeps
  <1> QED
    BY <1>1, <1>2, PTL DEF Spec

\* The node context, the registry, the ring and the places of the three threads
\* keep their types, whatever the operator does.
THEOREM TypesHold == Spec => []TypeOK
  <1>1. ASSUME IInv PROVE TypeOK
    <2>1. Indices \subseteq 1 .. MaxInst
      <3>1. PICK k \in Nat : k = Len(inst)
        BY <1>1, Basics
      <3>2. k <= MaxInst
        BY <1>1, <3>1 DEF IInv, InstType
      <3> QED
        BY <3>1, <3>2, ManifestAssumption DEF Indices
    <2>2. loaded \in Seq(1 .. MaxInst) /\ components \in Seq(1 .. MaxInst)
      <3>1. loaded \in Seq(Indices) /\ components \in Seq(Indices)
        BY <1>1 DEF IInv, ListType
      <3> QED
        BY <2>1, <3>1, WiderList
    <2>3. target \in 0 .. MaxInst
      <3>1. PICK k \in Nat : k = Len(inst)
        BY <1>1, Basics
      <3>2. k <= MaxInst /\ target \in 0 .. k
        BY <1>1, <3>1 DEF IInv, InstType, CliType
      <3> QED
        BY <3>1, <3>2, ManifestAssumption
    <2>4. /\ inst \in Seq([comp : Comps, status : {"inited", "active", "refused"}, freed : Nat])
          /\ registry \in [1 .. RegSize -> [service : Services \cup {"none"}, provider : 0 .. MaxInst]]
          /\ count \in 0 .. RegSize
      BY <1>1 DEF IInv, InstType, RegType
    <2>5. /\ msg_queue \in Seq(Services)
          /\ wpc \in {"start", "starting", "loop", "drain", "find", "found", "running", "exited"}
          /\ at \in Nat /\ cur \in 0 .. MaxInst /\ msg \in Services \cup {"none"}
      BY <1>1 DEF IInv, WorkerType
    <2>6. /\ cpc \in {"idle", "reading", "unroute", "load", "rehost", "rebind", "exited"}
          /\ again \in BOOLEAN /\ todo \in Seq(Services)
      BY <1>1 DEF IInv, CliType, Busy
    <2>7. /\ mpc \in {"up", "join_worker", "join_cli", "clean", "done"} /\ left \in Nat
          /\ keep_running \in BOOLEAN /\ stop_requested \in BOOLEAN /\ posted \in 0 .. MaxPosts
      BY <1>1 DEF IInv, MainType
    <2> QED
      BY <2>2, <2>3, <2>4, <2>5, <2>6, <2>7 DEF TypeOK
  <1> QED
    BY <1>1, Invariant, PTL

\* Between two commands the loaded instances, the thread's list and the registry
\* agree, after any sequence of unloads and reloads, failed ones too
\* (node_unload_component, node_reload_component).
THEOREM TablesAgree == Spec => []RoutesMatchLoaded
  <1>1. ASSUME IInv PROVE RoutesMatchLoaded
    <2> SUFFICES ASSUME AtRest PROVE RoutesMatchLoaded
      BY DEF RoutesMatchLoaded
    <2>1. cpc \notin Busy
      BY DEF AtRest, Busy
    <2>2. ToSet(components) = ToSet(loaded) /\ IsInjective(components)
      BY <1>1, <2>1 DEF IInv, Hosting, ListType, Hosted, Loaded, Busy
    <2>3. \A i, j \in 1 .. count : registry[i].service = registry[j].service => i = j
      BY <1>1 DEF IInv, RegType
    <2>4. ASSUME NEW s \in Services
          PROVE  IF ProviderOf[s] = Elsewhere
                 THEN EntryOf(s) # 0 /\ registry[EntryOf(s)].provider = NoInst
                 ELSE {i \in ToSet(loaded) : inst[i].comp = ProviderOf[s]} =
                      {registry[i].provider : i \in {j \in 1 .. count : registry[j].service = s}}
      <3>1. Bound(s) = IF ProviderOf[s] = Elsewhere THEN {NoInst} ELSE Providing(s)
        BY <1>1, <2>1 DEF IInv, Routed, Hole
      <3>2. CASE ProviderOf[s] = Elsewhere
        <4>1. count \in Nat /\ RegType
          BY <1>1, Basics DEF IInv
        <4>2. Bound(s) = {NoInst}
          BY <3>1, <3>2
        <4>3. EntryOf(s) \in 1 .. count /\ Bound(s) = {registry[EntryOf(s)].provider}
          BY <4>1, <4>2, EntryOfIs
        <4> QED
          BY <3>2, <4>1, <4>2, <4>3
      <3>3. CASE ProviderOf[s] # Elsewhere
        BY <3>1, <3>3 DEF Bound, Providing, Loaded
      <3> QED
        BY <3>2, <3>3
    <2> QED
      BY <2>2, <2>3, <2>4 DEF RoutesMatchLoaded
  <1> QED
    BY <1>1, Invariant, PTL

\* node_unload_component and the clean-up at the end give each instance's memory
\* back once, all of it by the end, and none while a running thread lists it.
THEOREM MemoryFreedOnce == Spec => []FreedOnce
  <1>1. ASSUME IInv PROVE FreedOnce
    <2> SUFFICES ASSUME NEW i \in DOMAIN inst
                 PROVE  /\ inst[i].freed <= 1
                        /\ mpc = "done" => inst[i].freed = 1
                        /\ inst[i].freed = 1 => i \notin ToSet(components) \/ mpc \in {"clean", "done"}
      BY DEF FreedOnce
    <2>1. i \in Indices
      BY <1>1, Basics
    <2>2. inst[i].freed = IF i \notin Loaded \/ Cleaned(i) THEN 1 ELSE 0
      BY <1>1, <2>1 DEF IInv, Freeing
    <2>3. mpc = "done" => i \notin Loaded \/ Cleaned(i)
      <3> SUFFICES ASSUME mpc = "done", i \in Loaded PROVE Cleaned(i)
        OBVIOUS
      <3>1. PICK k \in DOMAIN loaded : loaded[k] = i
        BY DEF Loaded, ToSet
      <3>2. left = 0 /\ k > left
        BY <1>1, <3>1, Basics DEF IInv, MainType
      <3> QED
        BY <3>1, <3>2 DEF Cleaned
    <2>4. Hosted \subseteq Loaded
      BY <1>1 DEF IInv, Hosting
    <2>5. inst[i].freed = 1 => i \notin ToSet(components) \/ mpc \in {"clean", "done"}
      BY <2>2, <2>4 DEF Hosted, Cleaned
    <2> QED
      BY <2>2, <2>3, <2>5
  <1> QED
    BY <1>1, Invariant, PTL
=============================================================================
