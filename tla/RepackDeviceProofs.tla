-------------------------- MODULE RepackDeviceProofs --------------------------
(***************************************************************************)
(* The properties of RepackDevice, for every number of workers, slots,     *)
(* dma-bufs and sizes.  A call is a function of the state it locks, so     *)
(* what it preserves is stated of such a state (Good, Waits), and each of  *)
(* the functions the calls are made of is shown to preserve it.            *)
(***************************************************************************)
EXTENDS RepackDevice, FiniteSetTheorems, WellFoundedInduction, TLAPS

Buffers == [ino : Inodes, gen : Nat, size : Nat]
Keys == [ino : Inodes, size : Nat]
Sources == [key : Keys \cup {None}, image : Buffers \cup {None}]
Destinations == [size : Nat, submitted : BOOLEAN]
Pools == [attached : BOOLEAN, source : [Slots -> Sources], lru : Seq(Slots),
          dest : [Slots -> Destinations], leased : SUBSET Slots, reserved : SUBSET Slots]
Copies == [by : Workers, to : Slots, sent : Buffers, read : Buffers \cup {None}]
Devices == [up : BOOLEAN, attached : Nat]
Locks == [who : Workers, dev : Devices, p : Pools, gpu : Seq(Copies)]

Types ==
    /\ device \in Devices
    /\ pool \in [Workers -> Pools]
    /\ gpu \in Seq(Copies)
    /\ dmabuf \in [Inodes -> Nat]

\* A cached import is the buffer its key says, which is still the one with that
\* inode number: the import holds it.  An occupied slot has its place in the
\* order of use.
Covers(l, P) == \A h \in P : \E j \in DOMAIN l : l[j] = h

CacheOk(p) ==
    /\ \A i \in Slots :
          IF p.source[i].key = None THEN p.source[i].image = None
          ELSE /\ p.source[i].image # None
               /\ p.source[i].key = source_key(p.source[i].image)
               /\ p.source[i].image.gen = dmabuf[p.source[i].image.ino]
    /\ Covers(p.lru, Occupied(p))

\* A pool that is not attached has made nothing.
Clean(p) == \A i \in Slots : p.source[i].image = None /\ p.dest[i] = NoDestination

Inv ==
    /\ Types
    /\ \A w \in Workers : CacheOk(pool[w]) /\ (pool[w].attached \/ Clean(pool[w]))
    /\ CopiesWhatWasSent
    /\ DeviceSpansPools
    /\ CopiesKeepDestination
-----------------------------------------------------------------------------
(* The same of a state S that a call has locked, the pools of the other    *)
(* workers being as they were.                                             *)
PoolIn(S, w) == IF w = S.who THEN S.p ELSE pool[w]

AttachedIn(S) == {w \in Workers : PoolIn(S, w).attached}

DeviceOk(S) ==
    /\ S.dev.attached = Cardinality(AttachedIn(S))
    /\ S.dev.up = (AttachedIn(S) # {})
    /\ ~S.p.attached => Clean(S.p)

Good(S) ==
    /\ S \in Locks
    /\ CacheOk(S.p)
    /\ \A k \in DOMAIN S.gpu : S.gpu[k].read = S.gpu[k].sent
    /\ DeviceOk(S)

Mine(S, d, k) == S.gpu[k].by = S.who /\ S.gpu[k].to = d

\* No copy into destination d of the worker is under way.
Idle(S, d) == \A k \in DOMAIN S.gpu : ~Mine(S, d, k)

Waits(S) ==
    \A k \in DOMAIN S.gpu :
        /\ PoolIn(S, S.gpu[k].by).dest[S.gpu[k].to].submitted
        /\ \A l \in DOMAIN S.gpu :
              S.gpu[l].by = S.gpu[k].by /\ S.gpu[l].to = S.gpu[k].to => l = k

\* From S to T the cache stays, the pool stays attached, and the copies are
\* waited for unless the GPU hangs.
SameSources(S, T) ==
    /\ T.who = S.who /\ T.p.attached = S.p.attached
    /\ T.p.source = S.p.source /\ T.p.lru = S.p.lru

Keeps(S, T, hung) ==
    /\ Good(T) /\ SameSources(S, T)
    /\ ~hung /\ Waits(S) => Waits(T)
-----------------------------------------------------------------------------
(* Min of a set of slots, and Max of a set of positions.                   *)
LEMMA MinIn ==
    ASSUME NEW M \in SUBSET Slots, M # {}
    PROVE  Min(M) \in M
<1>1. M \subseteq Nat
  BY DEF Slots
<1>2. PICK m \in M : \A r \in M : ~(<<r, m>> \in OpToRel(<, Nat))
  BY <1>1, WFMin, NatLessThanWellFounded, Zenon
<1>3. \A r \in M : ~(r < m)
  BY <1>1, <1>2, Zenon DEF OpToRel
<1>4. \A r \in M : m =< r
  BY <1>1, <1>3
<1> QED
  BY <1>4, Zenon DEF Min

LEMMA MaxIn ==
    ASSUME NEW n \in Nat, NEW M \in SUBSET (1..n)
    PROVE  /\ Max({0} \cup M) \in 0..n
           /\ \A r \in M : r <= Max({0} \cup M)
<1> DEFINE N == {0} \cup M
           U == {u \in 0..n : \A r \in N : r <= u}
<1>1. n \in U /\ U \subseteq Nat
  OBVIOUS
<1>2. PICK m \in U : \A r \in U : ~(<<r, m>> \in OpToRel(<, Nat))
  BY <1>1, WFMin, NatLessThanWellFounded, Zenon
<1>3. \A r \in U : ~(r < m)
  BY <1>1, <1>2, Zenon DEF OpToRel
<1>4. m \in N
  <2>1. SUFFICES ASSUME m \notin N PROVE FALSE
    OBVIOUS
  <2>2. m - 1 \in U
    BY <2>1
  <2> QED
    BY <1>3, <2>2
<1>5. \E x \in N : \A r \in N : x >= r
  BY <1>4
<1>6. Max(N) \in N /\ \A r \in N : Max(N) >= r
  BY <1>5, Zenon DEF Max
<1>7. N \subseteq 0..n /\ M \subseteq N
  OBVIOUS
<1> HIDE DEF N
<1>8. Max(N) \in 0..n /\ \A r \in M : r <= Max(N)
  BY <1>6, <1>7
<1> QED
  BY <1>8 DEF N

\* The tail of a queue of copies.
LEMMA SuffixIs ==
    ASSUME NEW C, NEW q \in Seq(C), NEW m \in 0..Len(q)
    PROVE  /\ SubSeq(q, m + 1, Len(q)) \in Seq(C)
           /\ Len(SubSeq(q, m + 1, Len(q))) = Len(q) - m
           /\ \A k \in 1..(Len(q) - m) : SubSeq(q, m + 1, Len(q))[k] = q[m + k]
  OBVIOUS

LEMMA ConcatIs ==
    ASSUME NEW C, NEW a \in Seq(C), NEW b \in Seq(C)
    PROVE  a \o b \in Seq(C) /\ Len(a \o b) = Len(a) + Len(b)
  OBVIOUS

LEMMA DropAtIs ==
    ASSUME NEW C, NEW q \in Seq(C), NEW m \in 1..Len(q)
    PROVE  /\ DropAt(q, m) \in Seq(C)
           /\ Len(DropAt(q, m)) = Len(q) - 1
           /\ \A i \in 1..Len(q) : i < m => DropAt(q, m)[i] = q[i]
           /\ \A i \in 1..Len(q) : i > m => DropAt(q, m)[i - 1] = q[i]
<1> DEFINE a == SubSeq(q, 1, m - 1)
           b == SubSeq(q, m + 1, Len(q))
<1>1. a \in Seq(C) /\ Len(a) = m - 1 /\ \A i \in 1..(m - 1) : a[i] = q[i]
  OBVIOUS
<1>2. /\ b \in Seq(C) /\ Len(b) = Len(q) - m
      /\ \A k \in 1..(Len(q) - m) : b[k] = q[m + k]
  BY SuffixIs
<1>3. DropAt(q, m) = a \o b
  BY DEF DropAt
<1> HIDE DEF a, b
<1>0. Len(q) \in Nat /\ m \in Nat /\ m >= 1 /\ m <= Len(q)
  OBVIOUS
<1>4. a \o b \in Seq(C) /\ Len(a \o b) = Len(q) - 1
  <2>1. a \o b \in Seq(C) /\ Len(a \o b) = Len(a) + Len(b)
    BY <1>1, <1>2, ConcatIs, Zenon
  <2> QED
    BY <1>0, <1>1, <1>2, <2>1
<1>5. \A i \in 1..Len(q) : i < m => (a \o b)[i] = q[i]
  BY <1>1, <1>2
<1>6. ASSUME NEW i \in 1..Len(q), i > m PROVE (a \o b)[i - 1] = q[i]
  <2>1. i - m \in 1..(Len(q) - m) /\ i - 1 = Len(a) + (i - m) /\ m + (i - m) = i
    <3>1. Len(a) = m - 1 /\ i \in Nat /\ i > m /\ i <= Len(q)
      BY <1>0, <1>1, <1>6
    <3> QED
      BY <1>0, <3>1
  <2>2. (a \o b)[Len(a) + (i - m)] = b[i - m]
    BY <1>1, <1>2, <2>1
  <2> QED
    BY <1>2, <2>1, <2>2
<1> QED
  BY <1>3, <1>4, <1>5, <1>6

LEMMA DropIs ==
    ASSUME NEW C, NEW q \in Seq(C), NEW e
    PROVE  /\ Drop(q, e) \in Seq(C)
           /\ \A i \in DOMAIN q : q[i] # e =>
                 \E j \in DOMAIN Drop(q, e) : Drop(q, e)[j] = q[i]
<1> DEFINE I == {i \in 1..Len(q) : q[i] = e}
<1>1. CASE I = {}
  BY <1>1 DEF Drop
<1>2. CASE I # {}
  <2>1. PICK m \in 1..Len(q) : Drop(q, e) = DropAt(q, m) /\ q[m] = e
    <3>1. I \subseteq Nat
      OBVIOUS
    <3>2. PICK m \in I : \A r \in I : ~(<<r, m>> \in OpToRel(<, Nat))
      BY <1>2, <3>1, WFMin, NatLessThanWellFounded, Zenon
    <3>3. \A r \in I : ~(r < m)
      BY <3>1, <3>2, Zenon DEF OpToRel
    <3>4. \A r \in I : m =< r
      BY <3>1, <3>3
    <3>5. Min(I) \in I
      BY <3>4, Zenon DEF Min
    <3>6. Drop(q, e) = DropAt(q, Min(I))
      BY <1>2, Zenon DEF Drop
    <3> QED
      BY <3>5, <3>6, Zenon
  <2>2. /\ DropAt(q, m) \in Seq(C) /\ Len(DropAt(q, m)) = Len(q) - 1
        /\ \A i \in 1..Len(q) : i < m => DropAt(q, m)[i] = q[i]
        /\ \A i \in 1..Len(q) : i > m => DropAt(q, m)[i - 1] = q[i]
    BY DropAtIs, Zenon
  <2>5. ASSUME NEW i \in 1..Len(q), q[i] # e
        PROVE  \E j \in 1..(Len(q) - 1) : DropAt(q, m)[j] = q[i]
    <3>1. CASE i < m
      BY <3>1, <2>1, <2>2
    <3>2. CASE i > m
      BY <3>2, <2>1, <2>2
    <3> QED
      BY <3>1, <3>2, <2>5, <2>1
  <2>6. DOMAIN q = 1..Len(q) /\ DOMAIN DropAt(q, m) = 1..(Len(q) - 1)
    BY <2>2
  <2> QED
    BY <2>1, <2>2, <2>5, <2>6, Zenon
<1> QED
  BY <1>1, <1>2

LEMMA CodedNat == \A size \in Nat : Coded(size) \in Nat
<1> SUFFICES ASSUME NEW size \in Nat PROVE Coded(size) \in Nat
  OBVIOUS
<1>1. Align \in Nat \ {0}
  BY DeviceAssumption
<1>2. (size + Align - 1) \div Align \in Nat
  BY <1>1
<1> QED
  BY <1>1, <1>2 DEF Coded

-----------------------------------------------------------------------------
(* What a function of the locked state leaves alone.  r is what is left of *)
(* the queue q once the GPU has finished some of its oldest copies.        *)
Later(q, r) ==
    \E m \in 0..Len(q) :
        Len(r) = Len(q) - m /\ \A k \in 1..Len(r) : r[k] = q[m + k]

LEMMA CopyIs ==
    ASSUME NEW q \in Seq(Copies), NEW k \in DOMAIN q
    PROVE  q[k].by \in Workers /\ q[k].to \in Slots
<1>1. q[k] \in Copies
  OBVIOUS
<1> QED
  BY <1>1, Zenon DEF Copies

LEMMA LaterFrom ==
    ASSUME NEW q \in Seq(Copies), NEW r \in Seq(Copies), Later(q, r)
    PROVE  \E m \in Nat : \A k \in DOMAIN r : m + k \in DOMAIN q /\ r[k] = q[m + k]
<1>1. PICK m \in 0..Len(q) : Len(r) = Len(q) - m /\ \A k \in 1..Len(r) : r[k] = q[m + k]
  BY Zenon DEF Later
<1>2. Len(q) \in Nat /\ DOMAIN q = 1..Len(q) /\ DOMAIN r = 1..Len(r)
  OBVIOUS
<1>3. ASSUME NEW k \in 1..Len(r) PROVE m + k \in 1..Len(q) /\ r[k] = q[m + k]
  BY <1>1, <1>2
<1>4. m \in Nat
  BY <1>2
<1> QED
  BY <1>2, <1>3, <1>4, Zenon

LEMMA LaterSame ==
    ASSUME NEW q \in Seq(Copies)
    PROVE  Later(q, q)
<1>1. 0 \in 0..Len(q) /\ Len(q) = Len(q) - 0 /\ \A k \in 1..Len(q) : q[k] = q[0 + k]
  OBVIOUS
<1> QED
  BY <1>1, Zenon DEF Later

LEMMA GoodBy ==
    ASSUME NEW S, NEW T \in Locks, Good(S), SameSources(S, T), T.dev = S.dev,
           Later(S.gpu, T.gpu),
           S.p.attached \/ \A i \in Slots : T.p.dest[i] \in {NoDestination, S.p.dest[i]}
    PROVE  Good(T)
<1>1. S \in Locks /\ CacheOk(S.p) /\ DeviceOk(S)
  BY Zenon DEF Good
<1>2. CacheOk(T.p)
  <2>1. T.p.source = S.p.source /\ T.p.lru = S.p.lru
    BY Zenon DEF SameSources
  <2>2. Occupied(T.p) = Occupied(S.p)
    BY <2>1, Zenon DEF Occupied
  <2>3. Covers(T.p.lru, Occupied(T.p))
    BY <1>1, <2>1, <2>2, Zenon DEF CacheOk
  <2> QED
    BY <1>1, <2>1, <2>3 DEF CacheOk
<1>3. AttachedIn(T) = AttachedIn(S)
  BY Zenon DEF AttachedIn, PoolIn, SameSources
<1>4. DeviceOk(T)
  <2>1. ~T.p.attached => Clean(T.p)
    BY <1>1 DEF DeviceOk, Clean, SameSources
  <2> QED
    BY <1>1, <1>3, <2>1, Zenon DEF DeviceOk
<1>5. \A k \in DOMAIN T.gpu : T.gpu[k].read = T.gpu[k].sent
  <2>1. S.gpu \in Seq(Copies) /\ T.gpu \in Seq(Copies)
    BY <1>1, Zenon DEF Locks
  <2> QED
    <3>1. PICK m \in Nat : \A k \in DOMAIN T.gpu :
            m + k \in DOMAIN S.gpu /\ T.gpu[k] = S.gpu[m + k]
      BY <2>1, LaterFrom, Zenon
    <3>2. \A k \in DOMAIN S.gpu : S.gpu[k].read = S.gpu[k].sent
      BY Zenon DEF Good
    <3> QED
      BY <3>1, <3>2, Zenon
<1> QED
  BY <1>2, <1>4, <1>5, Zenon DEF Good

LEMMA WaitsBy ==
    ASSUME NEW S \in Locks, NEW T \in Locks, Waits(S), T.who = S.who, Later(S.gpu, T.gpu),
           \A d \in Slots : S.p.dest[d].submitted => T.p.dest[d].submitted \/ Idle(T, d)
    PROVE  Waits(T)
<1>1. S.gpu \in Seq(Copies) /\ T.gpu \in Seq(Copies)
  BY Zenon DEF Locks
<1>2. PICK m \in Nat : \A k \in DOMAIN T.gpu :
        m + k \in DOMAIN S.gpu /\ T.gpu[k] = S.gpu[m + k]
  BY <1>1, LaterFrom, Zenon
<1>3. ASSUME NEW k \in DOMAIN T.gpu
      PROVE  PoolIn(T, T.gpu[k].by).dest[T.gpu[k].to].submitted
  <2>0. T.gpu[k] \in Copies
    BY <1>1, <1>3
  <2>1. T.gpu[k].to \in Slots
    BY <2>0, Zenon DEF Copies
  <2>2. PoolIn(S, T.gpu[k].by).dest[T.gpu[k].to].submitted
    BY <1>2, <1>3, Zenon DEF Waits
  <2> QED
    BY <1>3, <2>1, <2>2, Zenon DEF PoolIn, Idle, Mine
<1>4. ASSUME NEW k \in DOMAIN T.gpu, NEW l \in DOMAIN T.gpu,
             T.gpu[l].by = T.gpu[k].by, T.gpu[l].to = T.gpu[k].to
      PROVE  l = k
  <2>0. /\ m + k \in DOMAIN S.gpu /\ m + l \in DOMAIN S.gpu
        /\ S.gpu[m + l].by = S.gpu[m + k].by /\ S.gpu[m + l].to = S.gpu[m + k].to
    BY <1>2, <1>4, Zenon
  <2>1. m + l = m + k
    BY <2>0, Zenon DEF Waits
  <2>2. l \in Nat /\ k \in Nat
    BY <1>1
  <2> QED
    BY <2>1, <2>2
<1> QED
  BY <1>3, <1>4, Zenon DEF Waits

LEMMA KeepsTrans ==
    ASSUME NEW S, NEW T, NEW U, NEW hung, Keeps(S, T, hung), Keeps(T, U, hung)
    PROVE  Keeps(S, U, hung)
  BY Zenon DEF Keeps, SameSources

LEMMA KeepsSame ==
    ASSUME NEW S, NEW hung, Good(S)
    PROVE  Keeps(S, S, hung)
  BY Zenon DEF Keeps, SameSources
-----------------------------------------------------------------------------
(* vkWaitForFences ends with no copy into D under way.                     *)
LEMMA WaitIs ==
    ASSUME NEW S \in Locks, NEW D \in SUBSET Slots
    PROVE  LET T == vkWaitForFences(S, D)
           IN  /\ T \in Locks
               /\ T.who = S.who /\ T.dev = S.dev /\ T.p = S.p
               /\ Later(S.gpu, T.gpu)
               /\ \A d \in D : Idle(T, d)
<1> DEFINE q == S.gpu
           mine == {i \in DOMAIN q : q[i].by = S.who /\ q[i].to \in D}
           m == Max({0} \cup mine)
           r == SubSeq(q, m + 1, Len(q))
           T == vkWaitForFences(S, D)
<1>1. q \in Seq(Copies) /\ Len(q) \in Nat /\ DOMAIN q = 1..Len(q)
  BY DEF Locks
<1>2. m \in 0..Len(q) /\ \A i \in mine : i <= m
  <2>1. mine \in SUBSET (1..Len(q))
    BY <1>1
  <2> QED
    BY <1>1, <2>1, MaxIn, Zenon
<1>3. T = [S EXCEPT !.gpu = r]
  BY Zenon DEF vkWaitForFences
<1> HIDE DEF m
<1>4. /\ r \in Seq(Copies) /\ Len(r) = Len(q) - m
      /\ \A k \in 1..(Len(q) - m) : r[k] = q[m + k]
  BY <1>1, <1>2, SuffixIs, Zenon
<1> HIDE DEF r, q, T
<1>5. T \in Locks /\ T.who = S.who /\ T.dev = S.dev /\ T.p = S.p /\ T.gpu = r
  BY <1>3, <1>4, Zenon DEF Locks
<1>6. Later(q, r)
  BY <1>2, <1>4 DEF Later
<1>7. ASSUME NEW d \in D PROVE Idle(T, d)
  <2>1. SUFFICES ASSUME NEW k \in DOMAIN r, r[k].by = S.who, r[k].to = d PROVE FALSE
    BY <1>5, Zenon DEF Idle, Mine
  <2>2. k \in 1..(Len(q) - m) /\ DOMAIN r = 1..Len(r)
    BY <1>4, <2>1
  <2>3. m + k \in DOMAIN q /\ m + k > m
    BY <1>1, <1>2, <2>2
  <2>4. m + k \in mine
    BY <1>4, <2>1, <2>2, <2>3, <1>7, Zenon
  <2> QED
    BY <1>1, <1>2, <2>2, <2>3, <2>4
<1> QED
  BY <1>5, <1>6, <1>7, Zenon DEF q, T

-----------------------------------------------------------------------------
(* The device and the cache.  What these calls leave alone is the queue    *)
(* and everything about destinations.                                      *)
SameDestinations(S, T) ==
    /\ T.who = S.who /\ T.gpu = S.gpu /\ T.p.dest = S.p.dest
    /\ T.p.leased = S.p.leased /\ T.p.reserved = S.p.reserved

LEMMA WaitsSame ==
    ASSUME NEW S, NEW T, SameDestinations(S, T), Waits(S)
    PROVE  Waits(T)
  BY DEF SameDestinations, Waits, PoolIn

\* What a pool and a lock are after one of their fields changed.
LEMMA PoolAttached ==
    ASSUME NEW p \in Pools, NEW q, q = [p EXCEPT !.attached = TRUE]
    PROVE  /\ q \in Pools /\ q.attached /\ q.source = p.source /\ q.lru = p.lru
           /\ q.dest = p.dest /\ q.leased = p.leased /\ q.reserved = p.reserved
  BY Zenon DEF Pools

LEMMA PoolCached ==
    ASSUME NEW p \in Pools, NEW i \in Slots, NEW x \in Sources, NEW l \in Seq(Slots)
    PROVE  LET q == PutSource(p, i, x, l)
           IN  /\ q \in Pools /\ q.attached = p.attached /\ q.lru = l
               /\ q.source = [p.source EXCEPT ![i] = x]
               /\ q.dest = p.dest /\ q.leased = p.leased /\ q.reserved = p.reserved
<1> DEFINE src == [p.source EXCEPT ![i] = x]
<1>1. src \in [Slots -> Sources]
  BY DEF Pools
<1>2. PutSource(p, i, x, l) = [p EXCEPT !.source = src, !.lru = l]
  BY Zenon DEF PutSource
<1> HIDE DEF src
<1>3. LET q == [p EXCEPT !.source = src, !.lru = l]
      IN  /\ q \in Pools /\ q.attached = p.attached /\ q.lru = l /\ q.source = src
          /\ q.dest = p.dest /\ q.leased = p.leased /\ q.reserved = p.reserved
  BY <1>1 DEF Pools
<1> QED
  BY <1>2, <1>3, Zenon DEF src

LEMMA WithPoolIs ==
    ASSUME NEW S \in Locks, NEW p \in Pools
    PROVE  LET T == WithPool(S, p)
           IN  T \in Locks /\ T.who = S.who /\ T.dev = S.dev /\ T.p = p /\ T.gpu = S.gpu
  BY DEF Locks, WithPool

LEMMA TwoFields ==
    ASSUME NEW S \in Locks, NEW p \in Pools, NEW v \in Devices
    PROVE  LET T == [S EXCEPT !.dev = v, !.p = p]
           IN  T \in Locks /\ T.who = S.who /\ T.dev = v /\ T.p = p /\ T.gpu = S.gpu
  BY DEF Locks

LEMMA AttachIs ==
    ASSUME NEW S, NEW fault, Good(S)
    PROVE  LET r == attach_repack_pool_locked(S, fault)
           IN  /\ Good(r.S) /\ SameDestinations(S, r.S)
               /\ r.ok => r.S.p.attached
<1> DEFINE r == attach_repack_pool_locked(S, fault)
           T == [S EXCEPT !.dev = [up |-> TRUE, attached |-> S.dev.attached + 1],
                          !.p = [S.p EXCEPT !.attached = TRUE]]
<1>1. CASE S.p.attached
  <2>1. r = Done(S)
    BY <1>1, Zenon DEF attach_repack_pool_locked
  <2> QED
    BY <1>1, <2>1 DEF Done, SameDestinations
<1>2. CASE ~S.p.attached /\ ~S.dev.up /\ ~initialize_repack_shared(fault)
  <2>1. r = Failed(S)
    BY <1>2, Zenon DEF attach_repack_pool_locked
  <2> QED
    BY <1>2, <2>1 DEF Failed, SameDestinations
<1>3. CASE ~S.p.attached /\ ~(~S.dev.up /\ ~initialize_repack_shared(fault))
  <2> DEFINE v == [up |-> TRUE, attached |-> S.dev.attached + 1]
             q == [S.p EXCEPT !.attached = TRUE]
  <2>1. r = Done(T)
    BY <1>3 DEF attach_repack_pool_locked
  <2>2. S \in Locks /\ S.p \in Pools /\ S.dev \in Devices /\ S.who \in Workers
        /\ S.gpu \in Seq(Copies)
    BY Zenon DEF Good, Locks
  <2>3. v \in Devices /\ v.up = TRUE /\ v.attached = S.dev.attached + 1
    BY <2>2 DEF Devices
  <2>4. T = [S EXCEPT !.dev = v, !.p = q]
    OBVIOUS
  <2>5. /\ q \in Pools /\ q.attached /\ q.source = S.p.source /\ q.lru = S.p.lru
        /\ q.dest = S.p.dest /\ q.leased = S.p.leased /\ q.reserved = S.p.reserved
    BY <2>2, PoolAttached, Zenon
  <2> HIDE DEF T, v, q
  <2>6. T \in Locks /\ T.who = S.who /\ T.dev = v /\ T.p = q /\ T.gpu = S.gpu
    BY <2>3, <2>4, <2>5, <2>2, TwoFields, Zenon
  <2>7. CacheOk(q)
    <3>1. Occupied(q) = Occupied(S.p)
      BY <2>5, Zenon DEF Occupied
    <3> QED
      BY <2>5, <3>1 DEF Good, CacheOk
  <2>8. DeviceOk(T)
    <3>1. AttachedIn(T) = AttachedIn(S) \cup {S.who} /\ S.who \notin AttachedIn(S)
      BY <1>3, <2>2, <2>5, <2>6, Zenon DEF AttachedIn, PoolIn
    <3>2. IsFiniteSet(AttachedIn(S))
      BY DeviceAssumption, FS_Subset, Zenon DEF AttachedIn
    <3>3. Cardinality(AttachedIn(T)) = Cardinality(AttachedIn(S)) + 1
      BY <3>1, <3>2, FS_AddElement, Zenon
    <3>4. AttachedIn(T) # {} /\ S.dev.attached = Cardinality(AttachedIn(S))
      BY <3>1, Zenon DEF DeviceOk, Good
    <3> QED
      BY <2>3, <2>5, <2>6, <3>3, <3>4 DEF DeviceOk
  <2>9. Good(T)
    BY <2>6, <2>7, <2>8 DEF Good
  <2>10. r.ok /\ r.S = T
    BY <2>1 DEF Done
  <2> QED
    BY <2>5, <2>6, <2>9, <2>10, Zenon DEF SameDestinations
<1> QED
  BY <1>1, <1>2, <1>3, Zenon

LEMMA SourceSlot ==
    ASSUME NEW S, NEW sent, Good(S)
    PROVE  source_key_select(S.p, sent) \in Slots
<1>1. Occupied(S.p) \subseteq Slots
  BY Zenon DEF Occupied
<1>2. exact_match(S.p, sent) \subseteq Slots /\ same_identity(S.p, sent) \subseteq Slots
  BY <1>1, Zenon DEF exact_match, same_identity
<1>3. CASE exact_match(S.p, sent) # {}
  <2>1. Min(exact_match(S.p, sent)) \in Slots
    BY <1>2, <1>3, MinIn, Zenon
  <2> QED
    BY <1>3, <2>1 DEF source_key_select
<1>4. CASE exact_match(S.p, sent) = {} /\ same_identity(S.p, sent) # {}
  <2>1. Min(same_identity(S.p, sent)) \in Slots
    BY <1>2, <1>4, MinIn, Zenon
  <2> QED
    BY <1>4, <2>1 DEF source_key_select
<1>5. CASE exact_match(S.p, sent) = {} /\ same_identity(S.p, sent) = {} /\ Occupied(S.p) # Slots
  <2>1. Slots \ Occupied(S.p) # {}
    BY <1>1, <1>5, Zenon
  <2> QED
    BY <1>5, <2>1, MinIn DEF source_key_select
<1>6. CASE exact_match(S.p, sent) = {} /\ same_identity(S.p, sent) = {} /\ Occupied(S.p) = Slots
  <2>1. S.p.lru \in Seq(Slots)
    BY Zenon DEF Good, Locks, Pools
  <2>2. 1 \in Slots
    BY DeviceAssumption DEF Slots
  <2>3. \E j \in DOMAIN S.p.lru : S.p.lru[j] = 1
    BY <1>6, <2>2, Zenon DEF Good, CacheOk, Covers
  <2>4. Head(S.p.lru) \in Slots
    BY <2>1, <2>3
  <2> QED
    BY <1>6, <2>4 DEF source_key_select
<1> QED
  BY <1>3, <1>4, <1>5, <1>6, Zenon

\* T is S with the import x, or none, in slot i of the cache.
Cached(S, T, i, x, l) ==
    /\ T \in Locks /\ SameDestinations(S, T) /\ T.dev = S.dev
    /\ T.p.attached = S.p.attached
    /\ T.p.lru = l /\ T.p.source = [S.p.source EXCEPT ![i] = x]

LEMMA CachedIs ==
    ASSUME NEW S \in Locks, NEW i \in Slots, NEW x \in Sources, NEW l \in Seq(Slots)
    PROVE  Cached(S, WithPool(S, PutSource(S.p, i, x, l)), i, x, l)
<1> DEFINE q == PutSource(S.p, i, x, l)
           T == WithPool(S, q)
<1>1. S.p \in Pools
  BY Zenon DEF Locks
<1>2. /\ q \in Pools /\ q.attached = S.p.attached /\ q.lru = l
      /\ q.source = [S.p.source EXCEPT ![i] = x]
      /\ q.dest = S.p.dest /\ q.leased = S.p.leased /\ q.reserved = S.p.reserved
  BY <1>1, PoolCached
<1>3. T \in Locks /\ T.who = S.who /\ T.dev = S.dev /\ T.p = q /\ T.gpu = S.gpu
  BY <1>2, WithPoolIs, Zenon
<1> HIDE DEF T, q
<1>4. Cached(S, T, i, x, l)
  BY <1>2, <1>3, Zenon DEF Cached, SameDestinations
<1> QED
  BY <1>4, Zenon DEF T, q

ImportOk(x) ==
    IF x.key = None THEN x.image = None
    ELSE /\ x.image # None /\ x.key = source_key(x.image)
         /\ x.image.gen = dmabuf[x.image.ino]

LEMMA PutSourceGood ==
    ASSUME NEW S, NEW T, NEW i \in Slots, NEW x \in Sources, NEW l \in Seq(Slots),
           Good(S), S.p.attached, ImportOk(x),
           Covers(l, Occupied(S.p) \ {i}), x.key = None \/ Covers(l, {i}),
           Cached(S, T, i, x, l)
    PROVE  Good(T) /\ SameDestinations(S, T) /\ T.p.attached
<1>1. S \in Locks /\ S.p.source \in [Slots -> Sources]
  BY Zenon DEF Good, Locks, Pools
<1>2. T.p.source[i] = x /\ \A h \in Slots \ {i} : T.p.source[h] = S.p.source[h]
  BY <1>1 DEF Cached
<1>3. CacheOk(T.p)
  <2>1. Covers(T.p.lru, Occupied(T.p))
    BY <1>2 DEF Occupied, Cached, Covers
  <2>2. \A h \in Slots : ImportOk(T.p.source[h])
    BY <1>2 DEF Good, CacheOk, ImportOk
  <2> QED
    BY <2>1, <2>2, Zenon DEF CacheOk, ImportOk
<1>4. DeviceOk(T)
  <2>1. AttachedIn(T) = AttachedIn(S)
    BY Zenon DEF AttachedIn, PoolIn, Cached, SameDestinations
  <2> QED
    BY <2>1 DEF DeviceOk, Good, Cached
<1>5. \A k \in DOMAIN T.gpu : T.gpu[k].read = T.gpu[k].sent
  BY DEF Good, Cached, SameDestinations
<1> QED
  BY <1>3, <1>4, <1>5, Zenon DEF Good, Cached

\* The buffer the broker sent is the one its inode number means now.
Fresh(b) == b \in Buffers /\ b.gen = dmabuf[b.ino]

LEMMA SentFresh ==
    ASSUME dmabuf \in [Inodes -> Nat], NEW sent \in Sent
    PROVE  Fresh(sent)
<1>1. PICK i \in Inodes, v \in Sizes : sent = [ino |-> i, gen |-> dmabuf[i], size |-> Coded(v)]
  BY DEF Sent
<1>2. v \in Nat
  BY DeviceAssumption
<1>3. Coded(v) \in Nat
  BY <1>2, CodedNat, Zenon
<1> QED
  BY <1>1, <1>3 DEF Fresh, Buffers

\* The order of use, once slot i is taken out of it or moved to its end.
LEMMA OrderKept ==
    ASSUME NEW q \in Seq(Slots), NEW i \in Slots, NEW P \in SUBSET Slots, Covers(q, P)
    PROVE  /\ Drop(q, i) \in Seq(Slots)
           /\ Covers(Drop(q, i), P \ {i})
           /\ Append(Drop(q, i), i) \in Seq(Slots)
           /\ Covers(Append(Drop(q, i), i), P \ {i})
           /\ Covers(Append(Drop(q, i), i), {i})
<1> DEFINE cut == Drop(q, i)
           new == Append(cut, i)
<1>1. /\ cut \in Seq(Slots)
      /\ \A m \in DOMAIN q : q[m] # i => \E j \in DOMAIN cut : cut[j] = q[m]
  BY DropIs
<1> HIDE DEF cut
<1>2. /\ new \in Seq(Slots) /\ DOMAIN cut \subseteq DOMAIN new
      /\ \A j \in DOMAIN cut : new[j] = cut[j]
      /\ Len(cut) + 1 \in DOMAIN new /\ new[Len(cut) + 1] = i
  BY <1>1
<1> HIDE DEF new
<1>3. Covers(cut, P \ {i})
  <2>1. SUFFICES ASSUME NEW h \in P \ {i} PROVE \E j \in DOMAIN cut : cut[j] = h
    BY Zenon DEF Covers
  <2>2. PICK m \in DOMAIN q : q[m] = h
    BY <2>1, Zenon DEF Covers
  <2> QED
    BY <1>1, <2>1, <2>2, Zenon
<1>4. Covers(new, P \ {i}) /\ Covers(new, {i})
  BY <1>2, <1>3 DEF Covers
<1> QED
  BY <1>1, <1>2, <1>3, <1>4, Zenon DEF cut, new

LEMMA ExactIs ==
    ASSUME NEW p, NEW sent, exact_match(p, sent) # {}
    PROVE  /\ source_key_select(p, sent) \in exact_match(p, sent)
           /\ source_key_select(p, sent) \in Slots
<1>1. exact_match(p, sent) \subseteq Slots
  BY Zenon DEF exact_match, Occupied
<1>2. Min(exact_match(p, sent)) \in exact_match(p, sent)
  BY <1>1, MinIn, Zenon
<1> QED
  BY <1>1, <1>2, Zenon DEF source_key_select

\* What becomes of the cache: the import is there, or its slot is empty.
LEMMA SourceReadyIs ==
    ASSUME NEW S, NEW sent, NEW fault, Good(S), S.p.attached, Fresh(sent)
    PROVE  LET r == SourceReady(S, sent, fault)
           IN  /\ Good(r.S) /\ SameDestinations(S, r.S) /\ r.S.p.attached
               /\ r.ok => exact_match(r.S.p, sent) # {}
<1> DEFINE r == SourceReady(S, sent, fault)
           i == source_key_select(S.p, sent)
           cut == Drop(S.p.lru, i)
           new == Append(cut, i)
           made == [key |-> source_key(sent), image |-> sent]
           out == exact_match(S.p, sent) = {} /\ ~create_repack_source_locked(fault)
           Put(x, l) == WithPool(S, PutSource(S.p, i, x, l))
<1>1. i \in Slots /\ S \in Locks /\ S.p.source \in [Slots -> Sources] /\ S.p.lru \in Seq(Slots)
  <2>1. i \in Slots
    BY SourceSlot, Zenon
  <2> QED
    BY <2>1, Zenon DEF Good, Locks, Pools
<1>2. /\ cut \in Seq(Slots) /\ Covers(cut, Occupied(S.p) \ {i})
      /\ new \in Seq(Slots) /\ Covers(new, Occupied(S.p) \ {i}) /\ Covers(new, {i})
  <2>1. Covers(S.p.lru, Occupied(S.p)) /\ Occupied(S.p) \in SUBSET Slots
    BY Zenon DEF Good, CacheOk, Occupied
  <2> HIDE DEF i
  <2> QED
    BY <1>1, <2>1, OrderKept, Zenon
<1>3. /\ out => r = Failed(Put(NoSource, cut))
      /\ exact_match(S.p, sent) # {} => r = Done(Put(S.p.source[i], new))
      /\ ~out /\ exact_match(S.p, sent) = {} => r = Done(Put(made, new))
  BY DEF SourceReady
<1> HIDE DEF r, i, cut, new
<1>4. CASE out
  <2>1. NoSource \in Sources /\ ImportOk(NoSource) /\ NoSource.key = None
    BY DEF NoSource, Sources, ImportOk
  <2>2. Cached(S, Put(NoSource, cut), i, NoSource, cut)
    BY <1>1, <1>2, <2>1, CachedIs, Zenon
  <2>3. ~r.ok /\ r.S = Put(NoSource, cut)
    BY <1>3, <1>4 DEF Failed
  <2> HIDE DEF Put, out
  <2>4. Good(r.S) /\ SameDestinations(S, r.S) /\ r.S.p.attached
    BY <1>1, <1>2, <2>1, <2>2, <2>3, PutSourceGood
  <2> QED
    BY <2>3, <2>4, Zenon DEF r
<1>5. CASE exact_match(S.p, sent) # {}
  <2> DEFINE x == S.p.source[i]
  <2>1. i \in exact_match(S.p, sent)
    BY <1>5, ExactIs, Zenon DEF i
  <2>2. x \in Sources /\ ImportOk(x) /\ i \in Occupied(S.p) /\ x.key = source_key(sent)
    BY <1>1, <2>1, Zenon DEF Good, CacheOk, ImportOk, exact_match, Occupied
  <2>3. Cached(S, Put(x, new), i, x, new)
    BY <1>1, <1>2, <2>2, CachedIs, Zenon
  <2>4. r.ok /\ r.S = Put(x, new)
    BY <1>3, <1>5 DEF Done
  <2> HIDE DEF Put, out, x
  <2>5. Good(r.S) /\ SameDestinations(S, r.S) /\ r.S.p.attached
    BY <1>1, <1>2, <2>2, <2>3, <2>4, PutSourceGood
  <2>6. r.S.p.source[i] = x
    BY <1>1, <2>3, <2>4 DEF Cached
  <2>7. i \in exact_match(r.S.p, sent)
    BY <1>1, <2>1, <2>2, <2>6, Zenon DEF exact_match, Occupied, x
  <2> QED
    BY <2>4, <2>5, <2>7, Zenon DEF r
<1>6. CASE ~out /\ exact_match(S.p, sent) = {}
  <2>1. /\ made \in Sources /\ ImportOk(made) /\ made.key = source_key(sent)
        /\ made.key # None
    <3>1. sent \in Buffers /\ sent.gen = dmabuf[sent.ino]
      BY Zenon DEF Fresh
    <3>2. source_key(sent) \in Keys
      BY <3>1 DEF source_key, Buffers, Keys
    <3>3. None \notin Keys /\ None \notin Buffers
      BY DeviceAssumption DEF Keys, Buffers
    <3>4. made.key = source_key(sent) /\ made.image = sent /\ made \in Sources
      BY <3>1, <3>2 DEF Sources
    <3> QED
      BY <3>1, <3>2, <3>3, <3>4, Zenon DEF ImportOk
  <2>2. Cached(S, Put(made, new), i, made, new)
    BY <1>1, <1>2, <2>1, CachedIs, Zenon
  <2>3. r.ok /\ r.S = Put(made, new)
    BY <1>3, <1>6 DEF Done
  <2> HIDE DEF Put, out, made
  <2>4. Good(r.S) /\ SameDestinations(S, r.S) /\ r.S.p.attached
    BY <1>1, <1>2, <2>1, <2>2, <2>3, PutSourceGood
  <2>5. r.S.p.source[i] = made
    BY <1>1, <2>2, <2>3 DEF Cached
  <2>6. i \in exact_match(r.S.p, sent)
    BY <1>1, <2>1, <2>5, Zenon DEF exact_match, Occupied
  <2> QED
    BY <2>3, <2>4, <2>6, Zenon DEF r
<1> QED
  BY <1>4, <1>5, <1>6, Zenon DEF r
-----------------------------------------------------------------------------
(* Destinations.                                                           *)
LEMMA SetDestination ==
    ASSUME NEW S \in Locks, NEW d \in Slots, NEW x \in Destinations
    PROVE  LET T == WithDestination(S, d, x)
           IN  /\ T \in Locks /\ SameSources(S, T) /\ T.dev = S.dev /\ T.gpu = S.gpu
               /\ T.p.dest[d] = x /\ \A e \in Slots \ {d} : T.p.dest[e] = S.p.dest[e]
<1> DEFINE q == [S.p EXCEPT !.dest[d] = x]
           T == WithDestination(S, d, x)
<1>1. S.p \in Pools
  BY Zenon DEF Locks
<1>2. /\ q \in Pools /\ q.attached = S.p.attached /\ q.source = S.p.source
      /\ q.lru = S.p.lru /\ q.dest = [S.p.dest EXCEPT ![d] = x]
  BY <1>1 DEF Pools
<1>3. q.dest[d] = x /\ \A e \in Slots \ {d} : q.dest[e] = S.p.dest[e]
  BY <1>1, <1>2 DEF Pools
<1>4. T = WithPool(S, q)
  BY Zenon DEF WithDestination
<1> HIDE DEF q, T
<1>5. T \in Locks /\ T.who = S.who /\ T.dev = S.dev /\ T.p = q /\ T.gpu = S.gpu
  BY <1>2, <1>4, WithPoolIs, Zenon
<1> QED
  BY <1>2, <1>3, <1>5, Zenon DEF SameSources, T

\* Only the leases of the pool change.
LEMMA SetLeases ==
    ASSUME NEW S, NEW hung, NEW L \in SUBSET Slots, NEW R \in SUBSET Slots, Good(S)
    PROVE  LET T == WithPool(S, [S.p EXCEPT !.leased = L, !.reserved = R])
           IN  Keeps(S, T, hung) /\ T.p.dest = S.p.dest
<1> DEFINE q == [S.p EXCEPT !.leased = L, !.reserved = R]
           T == WithPool(S, q)
<1>1. S \in Locks /\ S.p \in Pools /\ S.gpu \in Seq(Copies)
  BY Zenon DEF Good, Locks
<1>2. /\ q \in Pools /\ q.attached = S.p.attached /\ q.source = S.p.source
      /\ q.lru = S.p.lru /\ q.dest = S.p.dest
  BY <1>1 DEF Pools
<1> HIDE DEF q
<1>3. T \in Locks /\ T.who = S.who /\ T.dev = S.dev /\ T.p = q /\ T.gpu = S.gpu
  BY <1>1, <1>2, WithPoolIs, Zenon
<1> HIDE DEF T
<1>4. SameSources(S, T) /\ Later(S.gpu, T.gpu) /\ T.p.dest = S.p.dest
  BY <1>1, <1>2, <1>3, LaterSame, Zenon DEF SameSources
<1>5. Good(T)
  BY <1>3, <1>4, GoodBy
<1>6. Waits(S) => Waits(T)
  BY <1>1, <1>3, <1>4, WaitsBy
<1> QED
  BY <1>4, <1>5, <1>6, Zenon DEF Keeps, T, q

LEMMA LeaseCleared ==
    ASSUME NEW S, NEW d, NEW hung, Good(S)
    PROVE  Keeps(S, lease_clear(S, d), hung)
<1>1. S.p.leased \ {d} \in SUBSET Slots /\ S.p.reserved \ {d} \in SUBSET Slots
  BY Zenon DEF Good, Locks, Pools
<1> QED
  BY <1>1, SetLeases, Zenon DEF lease_clear

LEMMA OneOfTheLeases ==
    ASSUME NEW p \in Pools, NEW L
    PROVE  /\ [p EXCEPT !.leased = L] = [p EXCEPT !.leased = L, !.reserved = p.reserved]
           /\ [p EXCEPT !.reserved = L] = [p EXCEPT !.leased = p.leased, !.reserved = L]
  BY DEF Pools

LEMMA Leased ==
    ASSUME NEW S, NEW d \in Slots, NEW hung, Good(S)
    PROVE  Keeps(S, Lease(S, d), hung) /\ Lease(S, d).p.dest = S.p.dest
<1>1. S.p \in Pools /\ S.p.leased \cup {d} \in SUBSET Slots /\ S.p.reserved \in SUBSET Slots
  BY DEF Good, Locks, Pools
<1>2. Lease(S, d) = WithPool(S, [S.p EXCEPT !.leased = S.p.leased \cup {d}, !.reserved = S.p.reserved])
  BY <1>1, OneOfTheLeases, Zenon DEF Lease
<1> DEFINE L == S.p.leased \cup {d}
<1> HIDE DEF L
<1>3. LET T == WithPool(S, [S.p EXCEPT !.leased = L, !.reserved = S.p.reserved])
      IN  Keeps(S, T, hung) /\ T.p.dest = S.p.dest
  BY <1>1, SetLeases, Zenon DEF L
<1> QED
  BY <1>2, <1>3, Zenon DEF L

LEMMA Reserved ==
    ASSUME NEW S, NEW R \in SUBSET Slots, NEW hung, Good(S)
    PROVE  Keeps(S, WithPool(S, [S.p EXCEPT !.reserved = R]), hung)
<1>1. S.p \in Pools /\ S.p.leased \in SUBSET Slots
  BY DEF Good, Locks, Pools
<1>2. WithPool(S, [S.p EXCEPT !.reserved = R])
        = WithPool(S, [S.p EXCEPT !.leased = S.p.leased, !.reserved = R])
  BY <1>1, OneOfTheLeases, Zenon
<1> QED
  BY <1>1, <1>2, SetLeases, Zenon

\* A destination on which no copy waits is given, or changed.
LEMMA DestinationKept ==
    ASSUME NEW S, NEW W, NEW d \in Slots, NEW x \in Destinations, NEW hung,
           Good(S), W \in Locks, SameSources(S, W), W.p.dest = S.p.dest, W.dev = S.dev,
           Later(S.gpu, W.gpu),
           S.p.attached \/ x \in {NoDestination, S.p.dest[d]},
           hung \/ (Waits(S) => x.submitted \/ Idle(W, d))
    PROVE  Keeps(S, WithDestination(W, d, x), hung)
<1> DEFINE T == WithDestination(W, d, x)
<1>1. /\ T \in Locks /\ SameSources(W, T) /\ T.dev = W.dev /\ T.gpu = W.gpu
      /\ T.p.dest[d] = x /\ \A e \in Slots \ {d} : T.p.dest[e] = W.p.dest[e]
  BY SetDestination, Zenon
<1> HIDE DEF T
<1>2. SameSources(S, T) /\ T.dev = S.dev /\ Later(S.gpu, T.gpu) /\ T.who = S.who
  BY <1>1 DEF SameSources
<1>3. Good(T)
  <2>1. S.p.attached \/ \A i \in Slots : T.p.dest[i] \in {NoDestination, S.p.dest[i]}
    BY <1>1
  <2> QED
    BY <1>1, <1>2, <2>1, GoodBy, Zenon
<1>4. ASSUME ~hung, Waits(S) PROVE Waits(T)
  <2>1. S \in Locks
    BY Zenon DEF Good
  <2>2. Idle(W, d) => Idle(T, d)
    BY <1>1, Zenon DEF Idle, Mine, SameSources
  <2>3. \A e \in Slots : S.p.dest[e].submitted => T.p.dest[e].submitted \/ Idle(T, e)
    BY <1>1, <1>4, <2>2
  <2> QED
    BY <1>1, <1>2, <1>4, <2>1, <2>3, WaitsBy, Zenon
<1> QED
  BY <1>2, <1>3, <1>4, Zenon DEF Keeps, T

\* A copy into a destination that is not submitted is not under way.
LEMMA NotSubmitted ==
    ASSUME NEW S, NEW d, Good(S), Waits(S), ~S.p.dest[d].submitted
    PROVE  Idle(S, d)
  BY DEF Waits, Idle, Mine, PoolIn

LEMMA NoDestinationIs ==
    /\ NoDestination \in Destinations /\ ~NoDestination.submitted
    /\ \A size \in Nat : /\ [NoDestination EXCEPT !.size = size] \in Destinations
                         /\ ~[NoDestination EXCEPT !.size = size].submitted
  BY DEF NoDestination, Destinations

LEMMA Destroyed ==
    ASSUME NEW S, NEW d \in Slots, NEW hung \in BOOLEAN, Good(S)
    PROVE  LET T == destroy_repack_destination_locked(S, d, hung)
           IN  Keeps(S, T, hung) /\ ~T.p.dest[d].submitted
<1> DEFINE W == IF S.p.dest[d].submitted /\ ~hung THEN vkWaitForFences(S, {d}) ELSE S
           T == WithDestination(W, d, NoDestination)
<1>1. S \in Locks /\ {d} \in SUBSET Slots /\ S.gpu \in Seq(Copies)
  BY DEF Good, Locks
<1>2. /\ W \in Locks /\ SameSources(S, W) /\ W.p.dest = S.p.dest /\ W.dev = S.dev
      /\ Later(S.gpu, W.gpu)
      /\ hung \/ (Waits(S) => Idle(W, d))
  <2>1. CASE S.p.dest[d].submitted /\ ~hung
    <3>1. LET V == vkWaitForFences(S, {d})
          IN  /\ V \in Locks /\ V.who = S.who /\ V.dev = S.dev /\ V.p = S.p
              /\ Later(S.gpu, V.gpu) /\ \A e \in {d} : Idle(V, e)
      BY <1>1, WaitIs, Zenon
    <3>2. W = vkWaitForFences(S, {d})
      BY <2>1, Zenon
    <3> HIDE DEF W
    <3> QED
      BY <3>1, <3>2, Zenon DEF SameSources
  <2>2. CASE ~(S.p.dest[d].submitted /\ ~hung)
    <3>1. W = S
      BY <2>2, Zenon
    <3> HIDE DEF W
    <3>2. hung \/ (Waits(S) => Idle(S, d))
      BY <2>2, NotSubmitted, Zenon
    <3> QED
      BY <1>1, <3>1, <3>2, LaterSame, Zenon DEF SameSources
  <2> QED
    BY <2>1, <2>2, Zenon
<1>3. destroy_repack_destination_locked(S, d, hung) = T
  BY Zenon DEF destroy_repack_destination_locked
<1> HIDE DEF W
<1>4. Keeps(S, T, hung)
  BY <1>2, NoDestinationIs, DestinationKept
<1>5. T.p.dest[d] = NoDestination
  BY <1>2, NoDestinationIs, SetDestination
<1> QED
  BY <1>3, <1>4, <1>5, NoDestinationIs, Zenon

LEMMA Created ==
    ASSUME NEW S, NEW d \in Slots, NEW size \in Nat, NEW fault, NEW hung,
           Good(S), S.p.attached, ~S.p.dest[d].submitted
    PROVE  Keeps(S, create_repack_destination_locked(S, d, size, fault).S, hung)
<1> DEFINE x == [NoDestination EXCEPT !.size = size]
           r == create_repack_destination_locked(S, d, size, fault)
<1>1. S \in Locks /\ S.gpu \in Seq(Copies) /\ x \in Destinations
  BY NoDestinationIs, Zenon DEF Good, Locks
<1>2. r.S = S \/ r.S = WithDestination(S, d, x)
  BY DEF create_repack_destination_locked, Done, Failed
<1> HIDE DEF x, r
<1>3. Keeps(S, WithDestination(S, d, x), hung)
  <2>1. hung \/ (Waits(S) => x.submitted \/ Idle(S, d))
    BY NotSubmitted, Zenon
  <2>2. SameSources(S, S) /\ Later(S.gpu, S.gpu)
    BY <1>1, LaterSame, Zenon DEF SameSources
  <2> QED
    BY <1>1, <2>1, <2>2, DestinationKept
<1> QED
  BY <1>2, <1>3, KeepsSame, Zenon DEF r

LEMMA ResizedKeeps ==
    ASSUME NEW S, NEW d \in Slots, NEW size \in Nat, NEW wanted, NEW fault,
           Good(S), S.p.attached
    PROVE  Keeps(S, Resized(S, d, size, wanted, fault).S, fault = "hang")
<1> DEFINE T == destroy_repack_destination_locked(S, d, fault = "hang")
           U == create_repack_destination_locked(T, d, size, fault).S
           r == Resized(S, d, size, wanted, fault)
           hung == fault = "hang"
<1>1. r.S = S \/ r.S = U
  BY DEF Resized, Done
<1>2. Keeps(S, T, hung) /\ ~T.p.dest[d].submitted
  BY Destroyed
<1> HIDE DEF T, hung, r
<1>3. Good(T) /\ T.p.attached
  BY <1>2, Zenon DEF Keeps, SameSources
<1>4. Keeps(T, U, hung)
  BY <1>2, <1>3, Created, Zenon
<1> HIDE DEF U
<1>5. Keeps(S, r.S, hung)
  BY <1>1, <1>2, <1>4, KeepsTrans, KeepsSame, Zenon
<1> QED
  BY <1>5, Zenon DEF r, hung

LEMMA GivenUp ==
    ASSUME NEW S, NEW d \in Slots, NEW hung \in BOOLEAN, Good(S)
    PROVE  Keeps(S, GiveUp(S, d, hung), hung)
<1> DEFINE T == destroy_repack_destination_locked(S, d, hung)
<1>1. Keeps(S, T, hung)
  BY Destroyed, Zenon
<1> HIDE DEF T
<1>2. Good(T)
  BY <1>1, Zenon DEF Keeps
<1>3. Keeps(T, lease_clear(T, d), hung)
  BY <1>2, LeaseCleared, Zenon
<1> QED
  BY <1>1, <1>3, KeepsTrans, Zenon DEF GiveUp, T
-----------------------------------------------------------------------------
(* The copy.                                                               *)
LEMMA WaitedKeeps ==
    ASSUME NEW S, NEW d \in Slots, NEW fault, Good(S)
    PROVE  LET r == Waited(S, d, fault)
           IN  /\ Keeps(S, r.S, fault = "hang")
               /\ r.ok => ~r.S.p.dest[d].submitted
<1> DEFINE r == Waited(S, d, fault)
           hung == fault = "hang"
           W == vkWaitForFences(S, {d})
           x == [S.p.dest[d] EXCEPT !.submitted = FALSE]
           T == WithDestination(W, d, x)
<1>1. \/ ~S.p.dest[d].submitted /\ r.S = S
      \/ ~r.ok /\ r.S = S
      \/ S.p.dest[d].submitted /\ r.S = T
  BY DEF Waited, Done, Failed
<1>2. S \in Locks /\ {d} \in SUBSET Slots /\ S.p.dest \in [Slots -> Destinations]
  BY DEF Good, Locks, Pools
<1>3. x \in Destinations /\ ~x.submitted
  BY <1>2 DEF Destinations
<1>4. /\ W \in Locks /\ W.who = S.who /\ W.dev = S.dev /\ W.p = S.p
      /\ Later(S.gpu, W.gpu) /\ \A e \in {d} : Idle(W, e)
  BY <1>2, WaitIs, Zenon
<1> HIDE DEF r, hung, W, x
<1>5. CASE S.p.dest[d].submitted /\ r.S = T
  <2>1. S.p.attached
    BY <1>5, NoDestinationIs DEF Good, DeviceOk, Clean
  <2>2. SameSources(S, W) /\ Idle(W, d)
    BY <1>4, Zenon DEF SameSources
  <2>3. Keeps(S, T, hung)
    BY <1>3, <1>4, <2>1, <2>2, DestinationKept
  <2>4. T.p.dest[d] = x
    BY <1>3, <1>4, SetDestination, Zenon
  <2> QED
    BY <1>3, <1>5, <2>3, <2>4, Zenon DEF r, hung
<1>6. CASE ~(S.p.dest[d].submitted /\ r.S = T)
  BY <1>1, <1>6, KeepsSame, Zenon DEF r, hung
<1> QED
  BY <1>5, <1>6, Zenon

\* The import a copy uses is the buffer that was sent: the inode numbers are
\* equal, and an import keeps its inode number from being given away.
LEMMA ReadsWhatWasSent ==
    ASSUME NEW S, NEW sent, Good(S), Fresh(sent), exact_match(S.p, sent) # {}
    PROVE  S.p.source[source_key_select(S.p, sent)].image = sent
<1> DEFINE i == source_key_select(S.p, sent)
           x == S.p.source[i]
<1>1. i \in exact_match(S.p, sent) /\ i \in Slots
  BY ExactIs, Zenon
<1> HIDE DEF i
<1>2. x \in Sources /\ ImportOk(x) /\ x.key = source_key(sent) /\ x.key # None
  BY <1>1 DEF Good, Locks, Pools, CacheOk, ImportOk, exact_match, Occupied
<1> HIDE DEF x
<1>3. /\ x.image \in Buffers /\ source_key(x.image) = source_key(sent)
      /\ x.image.gen = dmabuf[x.image.ino] /\ sent.gen = dmabuf[sent.ino] /\ sent \in Buffers
  BY <1>2, Zenon DEF Sources, ImportOk, Fresh
<1>4. x.image.ino = sent.ino /\ x.image.size = sent.size
  BY <1>3, Zenon DEF source_key
<1>5. x.image = sent
  BY <1>3, <1>4 DEF Buffers
<1> QED
  BY <1>5, Zenon DEF x, i

LEMMA QueueSubmit ==
    ASSUME NEW S, NEW d \in Slots, NEW sent, NEW hung, Good(S), S.p.attached, Fresh(sent),
           exact_match(S.p, sent) # {}, ~S.p.dest[d].submitted
    PROVE  Keeps(S, vkQueueSubmit(S, d, sent), hung)
<1> DEFINE x == [S.p.dest[d] EXCEPT !.submitted = TRUE]
           W == WithDestination(S, d, x)
           c == [by |-> S.who, to |-> d, sent |-> sent, read |-> sent]
           T == vkQueueSubmit(S, d, sent)
           n == Len(S.gpu)
<1>1. /\ S \in Locks /\ S.p.dest \in [Slots -> Destinations] /\ S.gpu \in Seq(Copies)
      /\ S.who \in Workers
  BY Zenon DEF Good, Locks, Pools
<1>2. x \in Destinations /\ x.submitted
  BY <1>1 DEF Destinations
<1>3. c \in Copies /\ c.by = S.who /\ c.to = d /\ c.read = c.sent
  BY <1>1 DEF Copies, Fresh
<1>4. T = [W EXCEPT !.gpu = Append(W.gpu, c)]
  BY ReadsWhatWasSent, Zenon DEF vkQueueSubmit
<1> HIDE DEF T, c, x
<1>5. /\ W \in Locks /\ SameSources(S, W) /\ W.dev = S.dev /\ W.gpu = S.gpu
      /\ W.p.dest[d] = x /\ \A e \in Slots \ {d} : W.p.dest[e] = S.p.dest[e]
  BY <1>1, <1>2, SetDestination
<1> HIDE DEF W
<1>6. /\ n \in Nat /\ Append(W.gpu, c) \in Seq(Copies)
      /\ DOMAIN S.gpu = 1..n /\ DOMAIN Append(W.gpu, c) = 1..(n + 1)
      /\ \A k \in 1..n : Append(W.gpu, c)[k] = S.gpu[k]
      /\ Append(W.gpu, c)[n + 1] = c
  BY <1>1, <1>3, <1>5
<1>7. /\ T \in Locks /\ T.who = S.who /\ T.p = W.p /\ T.dev = S.dev
      /\ T.gpu = Append(W.gpu, c)
  BY <1>4, <1>5, <1>6 DEF Locks, SameSources
<1>8. Good(W)
  BY <1>1, <1>5, LaterSame, GoodBy
<1>9. SameSources(S, T)
  BY <1>5, <1>7, Zenon DEF SameSources
<1>10. Good(T)
  <2>1. AttachedIn(T) = AttachedIn(W) /\ T.dev = W.dev
    BY <1>5, <1>7 DEF AttachedIn, PoolIn, SameSources
  <2>2. DeviceOk(T)
    BY <1>7, <1>8, <2>1, Zenon DEF DeviceOk, Good
  <2>3. ASSUME NEW k \in DOMAIN T.gpu PROVE T.gpu[k].read = T.gpu[k].sent
    <3>1. CASE k = n + 1
      BY <1>3, <1>6, <1>7, <3>1, Zenon
    <3>2. CASE k \in 1..n
      BY <1>6, <1>7, <3>2, Zenon DEF Good
    <3> QED
      BY <1>6, <1>7, <2>3, <3>1, <3>2
  <2> QED
    BY <1>7, <1>8, <2>2, <2>3, Zenon DEF Good
<1>11. ASSUME Waits(S) PROVE Waits(T)
  <2>1. ASSUME NEW k \in 1..n
        PROVE  /\ T.gpu[k] = S.gpu[k]
               /\ ~(T.gpu[k].by = S.who /\ T.gpu[k].to = d)
               /\ PoolIn(T, T.gpu[k].by).dest[T.gpu[k].to].submitted
               /\ \A l \in 1..n : T.gpu[l].by = T.gpu[k].by /\ T.gpu[l].to = T.gpu[k].to
                                    => l = k
    <3>1. T.gpu[k] = S.gpu[k] /\ \A l \in 1..n : T.gpu[l] = S.gpu[l]
      BY <1>6, <1>7, Zenon
    <3>2. Idle(S, d)
      BY <1>11, NotSubmitted, Zenon
    <3>3. ~(S.gpu[k].by = S.who /\ S.gpu[k].to = d)
      BY <1>6, <3>2, Zenon DEF Idle, Mine
    <3>a. S.gpu[k] \in Copies
      BY <1>1, <1>6
    <3>4. S.gpu[k].to \in Slots
      BY <3>a, Zenon DEF Copies
    <3>5. PoolIn(S, S.gpu[k].by).dest[S.gpu[k].to].submitted
      BY <1>6, <1>11, Zenon DEF Waits
    <3>6. PoolIn(T, S.gpu[k].by).dest[S.gpu[k].to].submitted
      BY <1>5, <1>7, <3>3, <3>4, <3>5 DEF PoolIn
    <3>7. \A l \in 1..n : S.gpu[l].by = S.gpu[k].by /\ S.gpu[l].to = S.gpu[k].to => l = k
      BY <1>6, <1>11, Zenon DEF Waits
    <3> QED
      BY <3>1, <3>3, <3>6, <3>7
  <2>2. T.gpu[n + 1] = c /\ PoolIn(T, c.by).dest[c.to].submitted
    BY <1>2, <1>3, <1>5, <1>6, <1>7, Zenon DEF PoolIn
  <2>3. \A k \in DOMAIN T.gpu : k \in 1..n \/ k = n + 1
    BY <1>6, <1>7
  <2> QED
    BY <1>3, <2>1, <2>2, <2>3 DEF Waits
<1> QED
  BY <1>9, <1>10, <1>11, Zenon DEF Keeps, T

LEMMA WaitIdle ==
    ASSUME NEW S, NEW hung, Good(S)
    PROVE  Keeps(S, vkDeviceWaitIdle(S), hung)
<1> DEFINE T == vkDeviceWaitIdle(S)
<1>1. S \in Locks /\ S.gpu \in Seq(Copies)
  BY Zenon DEF Good, Locks
<1>2. <<>> \in Seq(Copies) /\ Later(S.gpu, <<>>) /\ DOMAIN <<>> = {}
  BY <1>1 DEF Later
<1>3. T \in Locks /\ T.who = S.who /\ T.dev = S.dev /\ T.p = S.p /\ T.gpu = <<>>
  BY <1>1, <1>2 DEF vkDeviceWaitIdle, Locks
<1> HIDE DEF T
<1>4. Good(T) /\ SameSources(S, T)
  BY <1>2, <1>3, GoodBy DEF SameSources
<1>5. Waits(T)
  BY <1>2, <1>3 DEF Waits
<1> QED
  BY <1>4, <1>5, Zenon DEF Keeps, T

LEMMA MatchKept ==
    ASSUME NEW S, NEW T, NEW sent, SameSources(S, T), exact_match(S.p, sent) # {}
    PROVE  exact_match(T.p, sent) # {}
  BY Zenon DEF SameSources, exact_match, Occupied

LEMMA SubmittedKeeps ==
    ASSUME NEW S, NEW d \in Slots, NEW sent, NEW fault, NEW hung, Good(S), S.p.attached,
           Fresh(sent), exact_match(S.p, sent) # {}, ~S.p.dest[d].submitted
    PROVE  Keeps(S, Submitted(S, d, sent, fault).S, hung)
<1> DEFINE T == vkQueueSubmit(S, d, sent)
           U == vkDeviceWaitIdle(T)
           r == Submitted(S, d, sent, fault)
<1>1. r.S = S \/ r.S = U \/ r.S = T
  BY DEF Submitted, Done, Failed
<1>2. Keeps(S, T, hung)
  BY QueueSubmit, Zenon
<1> HIDE DEF T, r
<1>3. Keeps(T, U, hung)
  BY <1>2, WaitIdle, Zenon DEF Keeps
<1> QED
  BY <1>1, <1>2, <1>3, KeepsSame, KeepsTrans, Zenon DEF r

LEMMA CopiedKeeps ==
    ASSUME NEW S, NEW d \in Slots, NEW sent, NEW fault, Good(S), S.p.attached,
           Fresh(sent), exact_match(S.p, sent) # {}
    PROVE  Keeps(S, Copied(S, d, sent, fault).S, fault = "hang")
<1> DEFINE hung == fault = "hang"
           w == Waited(S, d, fault)
           T == w.S
           r == Copied(S, d, sent, fault)
           U == Submitted(T, d, sent, fault).S
<1>1. Keeps(S, T, hung) /\ (w.ok => ~T.p.dest[d].submitted)
  BY WaitedKeeps
<1>2. Recorded(T, fault).S = T
  BY DEF Recorded, Done, Failed
<1>3. r.S = S \/ r.S = T \/ (w.ok /\ r.S = U)
  BY <1>2 DEF Copied, Failed
<1> HIDE DEF T, r, w, hung
<1>4. Good(T) /\ T.p.attached /\ SameSources(S, T)
  BY <1>1, Zenon DEF Keeps, SameSources
<1>5. w.ok => Keeps(T, U, hung)
  BY <1>1, <1>4, MatchKept, SubmittedKeeps, Zenon
<1> HIDE DEF U
<1>6. Keeps(S, r.S, hung)
  BY <1>1, <1>3, <1>5, KeepsSame, KeepsTrans, Zenon
<1> QED
  BY <1>6, Zenon DEF r, hung

LEMMA IntoKeeps ==
    ASSUME NEW S, NEW d \in Slots, NEW sent, NEW ready, NEW fault, Good(ready.S),
           ready.S.p.attached, Fresh(sent), exact_match(ready.S.p, sent) # {}
    PROVE  Keeps(ready.S, Into(S, d, sent, ready, fault), fault = "hang")
<1> DEFINE hung == fault = "hang"
           R == ready.S
           copied == Copied(R, d, sent, fault)
           T == copied.S
           U == GiveUp(T, d, hung)
           V == WithPool(T, [T.p EXCEPT !.reserved = @ \ {d}])
           r == Into(S, d, sent, ready, fault)
<1>1. r = GiveUp(R, d, hung) \/ r = U \/ r = V
  BY DEF Into
<1>2. Keeps(R, T, hung)
  BY CopiedKeeps
<1>3. hung \in BOOLEAN
  BY Zenon
<1> HIDE DEF T, r, hung
<1>4. Good(T)
  BY <1>2, Zenon DEF Keeps
<1>5. Keeps(T, U, hung) /\ Keeps(R, GiveUp(R, d, hung), hung)
  BY <1>3, <1>4, GivenUp, Zenon
<1>6. Keeps(T, V, hung)
  <2>1. T.p.reserved \ {d} \in SUBSET Slots
    BY <1>4, Zenon DEF Good, Locks, Pools
  <2> QED
    BY <1>4, <2>1, Reserved, Zenon
<1> HIDE DEF U, V
<1>7. Keeps(R, r, hung)
  BY <1>1, <1>2, <1>5, <1>6, KeepsTrans, Zenon
<1> QED
  BY <1>7, Zenon DEF r, hung
-----------------------------------------------------------------------------
(* The pool's calls: what they leave behind when they unlock.              *)
Call(S, T, hung) ==
    /\ Good(T) /\ T.who = S.who
    /\ ~hung /\ Waits(S) => Waits(T)

LEMMA CallSame ==
    ASSUME NEW S, NEW T, NEW hung, Good(T), SameDestinations(S, T)
    PROVE  Call(S, T, hung)
<1>1. Waits(S) => Waits(T)
  BY WaitsSame, Zenon
<1> QED
  BY <1>1, Zenon DEF Call, SameDestinations

LEMMA CallKeeps ==
    ASSUME NEW S, NEW T, NEW U, NEW hung, Call(S, T, hung), Keeps(T, U, hung)
    PROVE  Call(S, U, hung)
  BY Zenon DEF Call, Keeps, SameSources

LEMMA FreeSlot ==
    ASSUME NEW p, FreeSlots(p) # {}
    PROVE  Min(FreeSlots(p)) \in Slots
<1>1. FreeSlots(p) \in SUBSET Slots
  BY Zenon DEF FreeSlots
<1> QED
  BY <1>1, MinIn, Zenon

LEMMA ReserveIs ==
    ASSUME NEW S, NEW size \in Nat, NEW fault, Good(S)
    PROVE  Call(S, pool_reserve(S, size, fault), fault = "hang")
<1> DEFINE attach == attach_repack_pool_locked(S, fault)
           A == attach.S
           d == Min(FreeSlots(S.p))
           L == Lease(A, d)
           M == Resized(L, d, Coded(size), size, fault).S
           N == WithPool(M, [M.p EXCEPT !.reserved = @ \cup {d}])
           hung == fault = "hang"
           r == pool_reserve(S, size, fault)
<1>1. Good(A) /\ SameDestinations(S, A) /\ (attach.ok => A.p.attached)
  BY AttachIs
<1>2. \/ r = A
      \/ attach.ok /\ FreeSlots(S.p) # {} /\ r \in {N, GiveUp(M, d, hung)}
  BY DEF pool_reserve
<1> HIDE DEF r, attach, A, d, hung
<1>3. Call(S, A, hung)
  BY <1>1, CallSame, Zenon
<1>4. CASE r = A
  BY <1>3, <1>4, Zenon DEF r, hung
<1>5. CASE attach.ok /\ FreeSlots(S.p) # {} /\ r \in {N, GiveUp(M, d, hung)}
  <2>1. d \in Slots /\ Coded(size) \in Nat /\ hung \in BOOLEAN
    BY <1>5, FreeSlot, CodedNat, Zenon DEF d, hung
  <2>2. Keeps(A, L, hung)
    BY <1>1, <2>1, Leased, Zenon
  <2> HIDE DEF L
  <2>3. Good(L) /\ L.p.attached
    BY <1>1, <1>5, <2>2, Zenon DEF Keeps, SameSources
  <2>4. Keeps(L, M, hung)
    BY <2>1, <2>3, ResizedKeeps, Zenon DEF hung
  <2> HIDE DEF M
  <2>5. Good(M)
    BY <2>4, Zenon DEF Keeps
  <2>6. Keeps(M, N, hung)
    <3>1. M.p.reserved \cup {d} \in SUBSET Slots
      BY <2>1, <2>5 DEF Good, Locks, Pools
    <3> QED
      BY <2>5, <3>1, Reserved, Zenon
  <2>7. Keeps(M, GiveUp(M, d, hung), hung)
    BY <2>1, <2>5, GivenUp, Zenon
  <2> HIDE DEF N
  <2>8. Keeps(M, r, hung)
    BY <1>5, <2>6, <2>7, Zenon
  <2>9. Call(S, r, hung)
    BY <1>3, <2>2, <2>4, <2>8, CallKeeps, Zenon
  <2> QED
    BY <2>9, Zenon DEF r, hung
<1> QED
  BY <1>2, <1>4, <1>5, Zenon

LEMMA PooledIs ==
    ASSUME NEW S, NEW sent, NEW fault, Good(S), Fresh(sent)
    PROVE  Call(S, prime_repack_linear_pooled(S, sent, fault), fault = "hang")
<1> DEFINE attach == attach_repack_pool_locked(S, fault)
           A == attach.S
           source == SourceReady(A, sent, fault)
           B == source.S
           d == Min(FreeSlots(S.p))
           L == Lease(B, d)
           ready == Resized(L, d, sent.size, sent.size, fault)
           M == ready.S
           hung == fault = "hang"
           r == prime_repack_linear_pooled(S, sent, fault)
<1>1. Good(A) /\ SameDestinations(S, A) /\ (attach.ok => A.p.attached)
  BY AttachIs
<1>2. \/ r = A
      \/ attach.ok /\ r = B
      \/ attach.ok /\ source.ok /\ FreeSlots(S.p) # {} /\ r = Into(L, d, sent, ready, fault)
  BY DEF prime_repack_linear_pooled
<1> HIDE DEF r, attach, A, d, hung
<1>3. Call(S, A, hung)
  BY <1>1, CallSame, Zenon
<1>4. attach.ok => Good(B) /\ SameDestinations(A, B) /\ B.p.attached
                   /\ (source.ok => exact_match(B.p, sent) # {})
  BY <1>1, SourceReadyIs
<1> HIDE DEF B, source
<1>5. attach.ok => Call(S, B, hung)
  <2>1. attach.ok => SameDestinations(S, B)
    BY <1>1, <1>4, Zenon DEF SameDestinations
  <2> QED
    BY <1>4, <2>1, CallSame, Zenon
<1>6. CASE r = A \/ (attach.ok /\ r = B)
  BY <1>3, <1>5, <1>6, Zenon DEF r, hung
<1>7. CASE attach.ok /\ source.ok /\ FreeSlots(S.p) # {} /\ r = Into(L, d, sent, ready, fault)
  <2>1. d \in Slots /\ sent.size \in Nat
    BY <1>7, FreeSlot, Zenon DEF d, Fresh, Buffers
  <2>2. Keeps(B, L, hung)
    BY <1>4, <1>7, <2>1, Leased, Zenon
  <2> HIDE DEF L
  <2>3. Good(L) /\ L.p.attached /\ exact_match(L.p, sent) # {}
    BY <1>4, <1>7, <2>2, MatchKept, Zenon DEF Keeps, SameSources
  <2>4. Keeps(L, M, hung)
    BY <2>1, <2>3, ResizedKeeps, Zenon DEF hung
  <2> HIDE DEF ready
  <2>5. Good(M) /\ M.p.attached /\ exact_match(M.p, sent) # {}
    BY <2>3, <2>4, MatchKept, Zenon DEF Keeps, SameSources
  <2>6. Keeps(M, r, hung)
    BY <1>7, <2>1, <2>5, IntoKeeps, Zenon DEF hung
  <2>7. Call(S, r, hung)
    BY <1>5, <1>7, <2>2, <2>4, <2>6, CallKeeps, Zenon
  <2> QED
    BY <2>7, Zenon DEF r, hung
<1> QED
  BY <1>2, <1>6, <1>7, Zenon

LEMMA ReservedIs ==
    ASSUME NEW S, NEW d \in Slots, NEW sent, NEW fault, Good(S), Fresh(sent)
    PROVE  Call(S, prime_repack_linear_reserved(S, d, sent, fault), fault = "hang")
<1> DEFINE attach == attach_repack_pool_locked(S, fault)
           A == attach.S
           source == SourceReady(A, sent, fault)
           B == source.S
           ready == [ok |-> B.p.dest[d].size >= sent.size, S |-> B]
           hung == fault = "hang"
           r == prime_repack_linear_reserved(S, d, sent, fault)
<1>1. Good(A) /\ SameDestinations(S, A) /\ (attach.ok => A.p.attached)
  BY AttachIs
<1>2. \/ r = A
      \/ attach.ok /\ r = B
      \/ attach.ok /\ source.ok /\ r = Into(B, d, sent, ready, fault)
  BY DEF prime_repack_linear_reserved
<1> HIDE DEF r, attach, A, hung
<1>3. Call(S, A, hung)
  BY <1>1, CallSame, Zenon
<1>4. attach.ok => Good(B) /\ SameDestinations(A, B) /\ B.p.attached
                   /\ (source.ok => exact_match(B.p, sent) # {})
  BY <1>1, SourceReadyIs
<1>a. ready.S = B
  BY Zenon
<1> HIDE DEF B, source, ready
<1>5. attach.ok => Call(S, B, hung)
  <2>1. attach.ok => SameDestinations(S, B)
    BY <1>1, <1>4, Zenon DEF SameDestinations
  <2> QED
    BY <1>4, <2>1, CallSame, Zenon
<1>6. CASE r = A \/ (attach.ok /\ r = B)
  BY <1>3, <1>5, <1>6, Zenon DEF r, hung
<1>7. CASE attach.ok /\ source.ok /\ r = Into(B, d, sent, ready, fault)
  <2>1. Keeps(B, r, hung)
    BY <1>a, <1>4, <1>7, IntoKeeps DEF hung
  <2> QED
    BY <1>5, <1>7, <2>1, CallKeeps, Zenon DEF r, hung
<1> QED
  BY <1>2, <1>6, <1>7, Zenon

LEMMA NoPoolIs ==
    /\ NoPool \in Pools /\ ~NoPool.attached /\ Clean(NoPool) /\ CacheOk(NoPool)
<1>1. NoSource \in Sources /\ NoSource.key = None /\ NoSource.image = None
  BY DEF NoSource, Sources
<1>2. NoPool \in Pools /\ ~NoPool.attached
  BY <1>1, NoDestinationIs DEF NoPool, Pools
<1>3. \A i \in Slots : NoPool.source[i] = NoSource /\ NoPool.dest[i] = NoDestination
  BY DEF NoPool
<1>4. Occupied(NoPool) = {}
  BY <1>1, <1>3 DEF Occupied
<1>5. Clean(NoPool)
  BY <1>1, <1>3 DEF Clean
<1>6. CacheOk(NoPool)
  BY <1>1, <1>3, <1>4 DEF CacheOk, Covers
<1> QED
  BY <1>2, <1>5, <1>6

LEMMA SetDevice ==
    ASSUME NEW S \in Locks, NEW n \in Nat
    PROVE  /\ LET T == [S EXCEPT !.dev.attached = n]
              IN  /\ T \in Locks /\ T.who = S.who /\ T.p = S.p /\ T.gpu = S.gpu
                  /\ T.dev.up = S.dev.up /\ T.dev.attached = n
           /\ LET T == [S EXCEPT !.dev.up = FALSE]
              IN  /\ T \in Locks /\ T.who = S.who /\ T.p = S.p /\ T.gpu = S.gpu
                  /\ T.dev.up = FALSE /\ T.dev.attached = S.dev.attached
  BY DEF Locks, Devices

LEMMA SetQueue ==
    ASSUME NEW S \in Locks
    PROVE  LET T == vkDeviceWaitIdle(S)
           IN  T \in Locks /\ T.who = S.who /\ T.dev = S.dev /\ T.p = S.p /\ T.gpu = <<>>
<1>1. <<>> \in Seq(Copies)
  OBVIOUS
<1> QED
  BY <1>1 DEF vkDeviceWaitIdle, Locks

\* A pool leaves: whoever is attached is one less, and the device goes with
\* the last.
LEMMA DetachedIs ==
    ASSUME NEW S \in Locks, S.dev.attached # 0
    PROVE  LET T == Detached(S)
           IN  /\ T \in Locks /\ T.who = S.who /\ T.p = S.p
               /\ T.dev.attached = S.dev.attached - 1
               /\ T.dev.up = (S.dev.up /\ S.dev.attached # 1)
               /\ T.gpu = S.gpu \/ T.gpu = <<>>
<1> DEFINE n == S.dev.attached - 1
           left == [S EXCEPT !.dev.attached = n]
           idle == vkDeviceWaitIdle(left)
           down == [idle EXCEPT !.dev.up = FALSE]
           T == Detached(S)
<1>1. S.dev.attached \in Nat /\ n \in Nat /\ S.dev.up \in BOOLEAN
  BY DEF Locks, Devices
<1>2. /\ left \in Locks /\ left.who = S.who /\ left.p = S.p /\ left.gpu = S.gpu
      /\ left.dev.up = S.dev.up /\ left.dev.attached = n
  BY <1>1, SetDevice
<1>3. T = IF left.dev.attached = 0 THEN (IF left.dev.up THEN down ELSE left) ELSE left
  BY DEF Detached, destroy_repack_shared_locked
<1> HIDE DEF left, T
<1>4. /\ idle \in Locks /\ idle.who = S.who /\ idle.p = S.p /\ idle.gpu = <<>>
      /\ idle.dev = left.dev
  BY <1>2, SetQueue
<1> HIDE DEF idle
<1>5. /\ down \in Locks /\ down.who = S.who /\ down.p = S.p /\ down.gpu = <<>>
      /\ down.dev.up = FALSE /\ down.dev.attached = n
  BY <1>1, <1>2, <1>4, SetDevice
<1> HIDE DEF down
<1>6. n = 0 <=> S.dev.attached = 1
  BY <1>1
<1>7. left.dev.up \in BOOLEAN
  BY <1>1, <1>2
<1> HIDE DEF n
<1>8. CASE n # 0
  BY <1>1, <1>2, <1>3, <1>6, <1>8, Zenon DEF T, n
<1>9. CASE n = 0 /\ S.dev.up
  BY <1>1, <1>2, <1>3, <1>5, <1>6, <1>9, Zenon DEF T, n
<1>10. CASE n = 0 /\ ~S.dev.up
  BY <1>1, <1>2, <1>3, <1>6, <1>10, Zenon DEF T, n
<1> QED
  BY <1>8, <1>9, <1>10, Zenon

LEMMA DestroyIs ==
    ASSUME NEW S, NEW fault, Good(S)
    PROVE  Call(S, pool_destroy(S, fault), fault = "hang")
<1> DEFINE hung == fault = "hang"
           D == {d \in Slots : S.p.dest[d].submitted}
           E == IF fault = "hang" THEN S ELSE vkWaitForFences(S, D)
           T == pool_destroy(S, fault)
<1>1. /\ S \in Locks /\ S.who \in Workers /\ S.gpu \in Seq(Copies) /\ DeviceOk(S)
      /\ S.dev \in Devices
  BY Zenon DEF Good, Locks
<1>2. /\ S.p.attached => T = Detached(WithPool(E, NoPool))
      /\ ~S.p.attached => T = WithPool(S, NoPool)
  BY DEF pool_destroy
<1>3. /\ E \in Locks /\ E.who = S.who /\ E.dev = S.dev /\ Later(S.gpu, E.gpu)
      /\ hung \/ \A d \in D : Idle(E, d)
  <2>1. CASE fault = "hang"
    BY <1>1, <2>1, LaterSame
  <2>2. CASE fault # "hang"
    <3>1. D \in SUBSET Slots /\ E = vkWaitForFences(S, D)
      BY <2>2
    <3> HIDE DEF D, E
    <3> QED
      BY <1>1, <3>1, WaitIs
  <2> QED
    BY <2>1, <2>2, Zenon
<1> HIDE DEF E, hung, T
<1>4. ASSUME NEW P, P \in Locks, P.who = S.who, P.p = NoPool, P.dev \in Devices,
             Later(S.gpu, P.gpu),
             P.dev.attached = Cardinality(AttachedIn(S) \ {S.who}),
             P.dev.up = ((AttachedIn(S) \ {S.who}) # {}),
             hung \/ \A d \in D : Idle(P, d)
      PROVE  Call(S, P, hung)
  <2>1. CacheOk(P.p)
    BY <1>4, NoPoolIs, Zenon
  <2>2. AttachedIn(P) = AttachedIn(S) \ {S.who}
    BY <1>4, NoPoolIs DEF AttachedIn, PoolIn
  <2>3. DeviceOk(P)
    BY <1>4, <2>2, NoPoolIs, Zenon DEF DeviceOk
  <2>4. \A k \in DOMAIN P.gpu : P.gpu[k].read = P.gpu[k].sent
    <3>1. P.gpu \in Seq(Copies)
      BY <1>4, Zenon DEF Locks
    <3>2. PICK m \in Nat : \A k \in DOMAIN P.gpu :
            m + k \in DOMAIN S.gpu /\ P.gpu[k] = S.gpu[m + k]
      BY <1>1, <1>4, <3>1, LaterFrom, Zenon
    <3>3. \A k \in DOMAIN S.gpu : S.gpu[k].read = S.gpu[k].sent
      BY Zenon DEF Good
    <3> QED
      BY <3>2, <3>3, Zenon
  <2>5. Good(P)
    BY <1>4, <2>1, <2>3, <2>4, Zenon DEF Good
  <2>6. ~hung /\ Waits(S) => Waits(P)
    BY <1>1, <1>4, WaitsBy
  <2> QED
    BY <1>4, <2>5, <2>6, Zenon DEF Call
<1>5. CASE ~S.p.attached
  <2>1. T \in Locks /\ T.who = S.who /\ T.dev = S.dev /\ T.p = NoPool /\ T.gpu = S.gpu
    BY <1>1, <1>2, <1>5, WithPoolIs, NoPoolIs
  <2>2. AttachedIn(S) \ {S.who} = AttachedIn(S)
    BY <1>5 DEF AttachedIn, PoolIn
  <2>3. D = {}
    BY <1>1, <1>5, NoDestinationIs DEF DeviceOk, Clean
  <2>4. Call(S, T, hung)
    BY <1>1, <1>4, <2>1, <2>2, <2>3, LaterSame DEF DeviceOk
  <2> QED
    BY <2>4, Zenon DEF T, hung
<1>6. CASE S.p.attached
  <2> DEFINE P == WithPool(E, NoPool)
  <2>1. P \in Locks /\ P.who = S.who /\ P.dev = S.dev /\ P.p = NoPool /\ P.gpu = E.gpu
    BY <1>3, WithPoolIs, NoPoolIs
  <2>2. T = Detached(P)
    BY <1>2, <1>6, Zenon
  <2> HIDE DEF P
  <2>3. S.who \in AttachedIn(S) /\ IsFiniteSet(AttachedIn(S))
    <3>1. AttachedIn(S) \subseteq Workers
      BY Zenon DEF AttachedIn
    <3>2. IsFiniteSet(AttachedIn(S))
      BY <3>1, DeviceAssumption, FS_Subset
    <3> QED
      BY <1>1, <1>6, <3>2, Zenon DEF AttachedIn, PoolIn
  <2> DEFINE O == AttachedIn(S) \ {S.who}
  <2>4. /\ S.dev.attached \in Nat /\ S.dev.attached # 0 /\ S.dev.up
        /\ Cardinality(O) = S.dev.attached - 1 /\ (O # {}) = (S.dev.attached # 1)
    <3>1. IsFiniteSet(O) /\ Cardinality(O) = Cardinality(AttachedIn(S)) - 1
      BY <2>3, FS_RemoveElement
    <3>2. Cardinality(O) \in Nat /\ (Cardinality(O) = 0 <=> O = {})
      BY <3>1, FS_CardinalityType, FS_EmptySet
    <3>3. S.dev.attached = Cardinality(AttachedIn(S)) /\ S.dev.attached \in Nat
      BY <1>1, Zenon DEF DeviceOk, Devices
    <3>4. S.dev.up = TRUE
      BY <1>1, <2>3 DEF DeviceOk
    <3> QED
      BY <3>1, <3>2, <3>3, <3>4
  <2>5. /\ T \in Locks /\ T.who = S.who /\ T.p = NoPool
        /\ T.dev.attached = S.dev.attached - 1
        /\ T.dev.up = (S.dev.up /\ S.dev.attached # 1)
        /\ T.gpu = E.gpu \/ T.gpu = <<>>
    BY <2>1, <2>2, <2>4, DetachedIs
  <2>6. Later(S.gpu, T.gpu) /\ (hung \/ \A d \in D : Idle(T, d))
    <3>1. Later(S.gpu, <<>>) /\ DOMAIN <<>> = {}
      BY <1>1 DEF Later
    <3> HIDE DEF D
    <3>2. CASE T.gpu = E.gpu
      BY <1>3, <2>5, <3>2 DEF Idle, Mine
    <3>3. CASE T.gpu = <<>>
      BY <3>1, <3>3 DEF Idle
    <3> QED
      BY <2>5, <3>2, <3>3, Zenon
  <2>7. T.dev \in Devices
    BY <2>5, Zenon DEF Locks
  <2>8. T.dev.up = (O # {}) /\ T.dev.attached = Cardinality(O)
    <3>1. T.dev.attached = Cardinality(O)
      BY <2>4, <2>5, Zenon
    <3>2. T.dev.up = (O # {})
      BY <2>4, <2>5, Zenon
    <3> QED
      BY <3>1, <3>2, Zenon
  <2> HIDE DEF D
  <2>9. Call(S, T, hung)
    BY <1>4, <2>5, <2>6, <2>7, <2>8, Zenon
  <2> QED
    BY <2>9, Zenon DEF T, hung
<1> QED
  BY <1>5, <1>6, Zenon
-----------------------------------------------------------------------------
(* The steps.                                                              *)
LEMMA LockedGood ==
    ASSUME Inv, NEW w \in Workers
    PROVE  /\ Good(Locked(w)) /\ Locked(w).who = w
           /\ history.hung \/ Waits(Locked(w))
<1> DEFINE S == Locked(w)
<1>1. /\ device \in Devices /\ pool \in [Workers -> Pools] /\ gpu \in Seq(Copies)
  BY Zenon DEF Inv, Types
<1>2. S \in Locks /\ S.who = w /\ S.dev = device /\ S.p = pool[w] /\ S.gpu = gpu
  BY <1>1 DEF Locked, Locks
<1> HIDE DEF S
<1>3. \A v \in Workers : PoolIn(S, v) = pool[v]
  BY <1>2, Zenon DEF PoolIn
<1>4. AttachedIn(S) = {v \in Workers : pool[v].attached}
  BY <1>3, Zenon DEF AttachedIn
<1>5. DeviceOk(S)
  <2>1. /\ device.attached = Cardinality({v \in Workers : pool[v].attached})
        /\ device.up = ({v \in Workers : pool[v].attached} # {})
    BY Zenon DEF Inv, DeviceSpansPools
  <2>2. pool[w].attached \/ Clean(pool[w])
    BY Zenon DEF Inv
  <2> QED
    BY <1>2, <1>4, <2>1, <2>2, Zenon DEF DeviceOk
<1>6. Good(S)
  BY <1>2, <1>5, Zenon DEF Good, Inv, CopiesWhatWasSent
<1>7. history.hung \/ Waits(S)
  <2>1. \A k \in DOMAIN gpu : gpu[k].by \in Workers
    BY <1>1, CopyIs, Zenon
  <2>2. \A k \in DOMAIN gpu : PoolIn(S, gpu[k].by) = pool[gpu[k].by]
    BY <1>3, <2>1, Zenon
  <2> QED
    BY <1>2, <2>2 DEF Inv, CopiesKeepDestination, Waits
<1> QED
  BY <1>2, <1>6, <1>7, Zenon DEF S

LEMMA UnlockedInv ==
    ASSUME Inv, NEW w \in Workers, NEW T, NEW hung, Call(Locked(w), T, hung), Unlock(T),
           dmabuf' = dmabuf, history'.hung \/ (~history.hung /\ ~hung)
    PROVE  Inv'
<1>1. T \in Locks /\ Good(T) /\ T.who = w
  BY LockedGood, Zenon DEF Call, Good
<1>2. /\ device' = T.dev /\ pool' = [pool EXCEPT ![w] = T.p] /\ gpu' = T.gpu
      /\ pool \in [Workers -> Pools] /\ dmabuf \in [Inodes -> Nat]
  BY <1>1, Zenon DEF Unlock, Inv, Types
<1>3. Types'
  BY <1>1, <1>2 DEF Types, Locks
<1>4. \A v \in Workers : pool'[v] = PoolIn(T, v)
  BY <1>1, <1>2 DEF PoolIn
<1>5. AttachedIn(T) = {v \in Workers : pool'[v].attached}
  BY <1>4, Zenon DEF AttachedIn
<1>6. \A v \in Workers : CacheOk(pool'[v]) /\ (pool'[v].attached \/ Clean(pool'[v]))
  BY <1>1, <1>4, Zenon DEF Inv, Good, DeviceOk, PoolIn
<1>7. \A v \in Workers : CacheOk(pool[v])' /\ (pool[v].attached \/ Clean(pool[v]))'
  BY <1>6, Zenon DEF CacheOk, Clean
<1>8. CopiesWhatWasSent'
  BY <1>1, <1>2, Zenon DEF CopiesWhatWasSent, Good
<1>9. DeviceSpansPools'
  <2>1. /\ device'.attached = Cardinality(AttachedIn(T))
        /\ device'.up = (AttachedIn(T) # {})
    BY <1>1, <1>2, Zenon DEF Good, DeviceOk
  <2>2. \A v \in Workers \ {u \in Workers : pool'[u].attached} : Clean(pool'[v])
    BY <1>6, Zenon
  <2>3. \A v \in Workers \ {u \in Workers : pool'[u].attached} :
          \A i \in Slots : pool'[v].source[i].image = None /\ pool'[v].dest[i].size = 0
    BY <2>2 DEF Clean, NoDestination
  <2> QED
    BY <1>5, <2>1, <2>3, Zenon DEF DeviceSpansPools
<1>10. CopiesKeepDestination'
  <2>1. CASE history'.hung
    BY <2>1, Zenon DEF CopiesKeepDestination
  <2>2. CASE ~history.hung /\ ~hung
    <3>1. Waits(T)
      BY <2>2, LockedGood, Zenon DEF Call
    <3>2. \A k \in DOMAIN T.gpu : T.gpu[k].by \in Workers
      BY <1>1, CopyIs, Zenon DEF Locks
    <3>3. \A k \in DOMAIN T.gpu : PoolIn(T, T.gpu[k].by) = pool'[T.gpu[k].by]
      BY <1>4, <3>2, Zenon
    <3> QED
      BY <1>2, <3>1, <3>3 DEF CopiesKeepDestination, Waits
  <2> QED
    BY <2>1, <2>2, Zenon
<1> QED
  BY <1>3, <1>7, <1>8, <1>9, <1>10, Zenon DEF Inv

LEMMA CountedHung ==
    ASSUME NEW fault, NEW n, Counted(fault, n)
    PROVE  history'.hung \/ (~history.hung /\ fault # "hang")
  BY DEF Counted

LEMMA StillInv ==
    ASSUME Inv, UNCHANGED <<device, pool, gpu, dmabuf>>, history.hung => history'.hung
    PROVE  Inv'
<1>1. Types' /\ CopiesWhatWasSent' /\ DeviceSpansPools' /\ CopiesKeepDestination'
  BY DEF Inv, Types, CopiesWhatWasSent, DeviceSpansPools, CopiesKeepDestination
<1>2. \A w \in Workers : CacheOk(pool[w])' /\ (pool[w].attached \/ Clean(pool[w]))'
  BY DEF Inv, CacheOk, Occupied, Covers, Clean
<1> QED
  BY <1>1, <1>2, Zenon DEF Inv

LEMMA InitInv == Init => Inv
<1> SUFFICES ASSUME Init PROVE Inv
  OBVIOUS
<1>1. \A w \in Workers : pool[w] = NoPool
  BY DEF Init
<1>2. Types
  BY NoPoolIs DEF Init, Types, Devices, NoDevice
<1>3. gpu = <<>> /\ DOMAIN gpu = {}
  BY DEF Init
<1>4. CopiesWhatWasSent /\ CopiesKeepDestination
  BY <1>3 DEF CopiesWhatWasSent, CopiesKeepDestination
<1>5. DeviceSpansPools
  <2>1. {w \in Workers : pool[w].attached} = {}
    BY <1>1, NoPoolIs
  <2>2. Cardinality({}) = 0
    BY FS_EmptySet
  <2>3. \A w \in Workers : Clean(pool[w])
    BY <1>1, NoPoolIs, Zenon
  <2>4. \A w \in Workers : \A i \in Slots :
          pool[w].source[i].image = None /\ pool[w].dest[i].size = 0
    BY <2>3 DEF Clean, NoDestination
  <2>5. device.attached = 0 /\ device.up = FALSE
    BY DEF Init, NoDevice
  <2> QED
    BY <2>1, <2>2, <2>4, <2>5 DEF DeviceSpansPools
<1> QED
  BY <1>1, <1>2, <1>4, <1>5, NoPoolIs, Zenon DEF Inv

\* The process is gone: all is as it was at the start.
LEMMA SignalInv ==
    ASSUME Inv, handle_signal
    PROVE  Inv'
<1>1. /\ device' = NoDevice /\ pool' = [w \in Workers |-> NoPool] /\ gpu' = <<>>
      /\ dmabuf' = dmabuf /\ \A w \in Workers : pool'[w] = NoPool
  BY DEF handle_signal
<1>2. Types'
  BY <1>1, NoPoolIs DEF Inv, Types, Devices, NoDevice
<1>3. CopiesWhatWasSent' /\ CopiesKeepDestination'
  BY <1>1 DEF CopiesWhatWasSent, CopiesKeepDestination
<1>4. DeviceSpansPools'
  <2>1. {w \in Workers : pool'[w].attached} = {}
    BY <1>1, NoPoolIs
  <2>2. Cardinality({}) = 0
    BY FS_EmptySet
  <2>3. \A w \in Workers : Clean(pool'[w])
    BY <1>1, NoPoolIs, Zenon
  <2>4. \A w \in Workers : \A i \in Slots :
          pool'[w].source[i].image = None /\ pool'[w].dest[i].size = 0
    BY <2>3 DEF Clean, NoDestination
  <2>5. device'.attached = 0 /\ device'.up = FALSE
    BY <1>1 DEF NoDevice
  <2> QED
    BY <2>1, <2>2, <2>4, <2>5 DEF DeviceSpansPools
<1>5. \A w \in Workers : CacheOk(pool[w])' /\ (pool[w].attached \/ Clean(pool[w]))'
  <2>1. \A w \in Workers : CacheOk(pool'[w]) /\ Clean(pool'[w])
    BY <1>1, NoPoolIs, Zenon
  <2> QED
    BY <1>1, <2>1, Zenon DEF CacheOk, Clean
<1> QED
  BY <1>2, <1>3, <1>4, <1>5, Zenon DEF Inv

LEMMA GpuFinishesInv ==
    ASSUME Inv, GpuFinishes
    PROVE  Inv'
<1>1. /\ gpu \in Seq(Copies) /\ gpu # <<>> /\ gpu' = Tail(gpu)
      /\ UNCHANGED <<device, pool, dmabuf, history>>
  BY Zenon DEF GpuFinishes, Inv, Types
<1>2. /\ gpu' \in Seq(Copies)
      /\ \A k \in DOMAIN gpu' : k \in Nat /\ k + 1 \in DOMAIN gpu /\ gpu'[k] = gpu[k + 1]
  BY <1>1
<1>3. Types'
  BY <1>1, <1>2, Zenon DEF Inv, Types
<1>4. CopiesWhatWasSent'
  BY <1>2, Zenon DEF Inv, CopiesWhatWasSent
<1>5. DeviceSpansPools'
  BY <1>1 DEF Inv, DeviceSpansPools
<1>6. CopiesKeepDestination'
  <2>1. SUFFICES ASSUME ~history.hung, NEW k \in DOMAIN gpu'
                 PROVE  /\ pool[gpu'[k].by].dest[gpu'[k].to].submitted
                        /\ \A l \in DOMAIN gpu' :
                              gpu'[l].by = gpu'[k].by /\ gpu'[l].to = gpu'[k].to => l = k
    BY <1>1 DEF CopiesKeepDestination
  <2>2. pool[gpu'[k].by].dest[gpu'[k].to].submitted
    BY <1>2, <2>1, Zenon DEF Inv, CopiesKeepDestination
  <2>3. ASSUME NEW l \in DOMAIN gpu', gpu'[l].by = gpu'[k].by, gpu'[l].to = gpu'[k].to
        PROVE  l = k
    <3>0. /\ k + 1 \in DOMAIN gpu /\ l + 1 \in DOMAIN gpu
          /\ gpu[l + 1].by = gpu[k + 1].by /\ gpu[l + 1].to = gpu[k + 1].to
      BY <1>2, <2>1, <2>3
    <3>1. l + 1 = k + 1
      BY <2>1, <3>0, Zenon DEF Inv, CopiesKeepDestination
    <3> QED
      BY <1>2, <2>1, <2>3, <3>1
  <2> QED
    BY <2>2, <2>3, Zenon
<1>7. \A w \in Workers : CacheOk(pool[w])' /\ (pool[w].attached \/ Clean(pool[w]))'
  BY <1>1 DEF Inv, CacheOk, Occupied, Covers, Clean
<1> QED
  BY <1>3, <1>4, <1>5, <1>6, <1>7, Zenon DEF Inv

\* The inode number of a buffer that an import holds is not given away.
LEMMA InodeReusedInv ==
    ASSUME Inv, NEW i \in Inodes, InodeReused(i)
    PROVE  Inv'
<1>1. /\ dmabuf \in [Inodes -> Nat] /\ dmabuf' = [dmabuf EXCEPT ![i] = dmabuf[i] + 1]
      /\ pool \in [Workers -> Pools] /\ UNCHANGED <<device, pool, gpu, history>>
  BY DEF InodeReused, Inv, Types
<1>2. Types' /\ CopiesWhatWasSent' /\ DeviceSpansPools' /\ CopiesKeepDestination'
  <2>1. Types'
    BY <1>1 DEF Inv, Types
  <2> QED
    BY <1>1, <2>1 DEF Inv, CopiesWhatWasSent, DeviceSpansPools, CopiesKeepDestination
<1>3. ASSUME NEW w \in Workers PROVE CacheOk(pool[w])' /\ (pool[w].attached \/ Clean(pool[w]))'
  <2>1. CacheOk(pool[w]) /\ (pool[w].attached \/ Clean(pool[w]))
    BY <1>3, Zenon DEF Inv
  <2>2. ASSUME NEW s \in Slots, pool[w].source[s].image # None
        PROVE  dmabuf'[pool[w].source[s].image.ino] = dmabuf[pool[w].source[s].image.ino]
    <3>1. pool[w].source[s] \in Sources
      BY <1>1, <1>3, <2>2 DEF Pools
    <3>2. pool[w].source[s].image.ino \in Inodes
      BY <2>2, <3>1 DEF Sources, Buffers
    <3>3. pool[w].source[s].image.ino # i
      BY <1>3, <2>2, Zenon DEF InodeReused
    <3> QED
      BY <1>1, <3>2, <3>3
  <2>3. (pool[w].attached \/ Clean(pool[w]))'
    BY <1>1, <2>1 DEF Clean
  <2>4. CacheOk(pool[w])'
    <3>1. Covers(pool[w].lru, Occupied(pool[w]))'
      BY <1>1, <2>1 DEF CacheOk, Covers, Occupied
    <3>2. ASSUME NEW s \in Slots
          PROVE  IF pool[w].source[s].key = None THEN pool[w].source[s].image = None
                 ELSE /\ pool[w].source[s].image # None
                      /\ pool[w].source[s].key = source_key(pool[w].source[s].image)
                      /\ pool[w].source[s].image.gen = dmabuf'[pool[w].source[s].image.ino]
      BY <2>1, <2>2, <3>2 DEF CacheOk
    <3> QED
      BY <1>1, <3>1, <3>2 DEF CacheOk, source_key
  <2> QED
    BY <2>3, <2>4, Zenon
<1> QED
  BY <1>2, <1>3, Zenon DEF Inv

LEMMA CallsInv ==
    ASSUME Inv, NEW w \in Workers,
           Reserve(w) \/ RepackPooled(w) \/ RepackReserved(w)
              \/ Release(w) \/ Discard(w) \/ clear_client(w)
    PROVE  Inv'
<1> DEFINE S == Locked(w)
<1>1. Good(S) /\ S.p.leased \subseteq Slots /\ S.p.reserved \subseteq Slots /\ S.p = pool[w]
  <2>1. Good(S) /\ S.p = pool[w]
    BY LockedGood, Zenon DEF Locked
  <2> HIDE DEF S
  <2> QED
    BY <2>1 DEF Good, Locks, Pools
<1>2. dmabuf \in [Inodes -> Nat]
  BY Zenon DEF Inv, Types
<1>3. CASE Reserve(w)
  <2>1. PICK size \in Sizes, fault \in MayFail(SetupStages \cup MakeStages) :
          Counted(fault, 1) /\ Unlock(pool_reserve(S, size, fault)) /\ dmabuf' = dmabuf
    BY <1>3, Zenon DEF Reserve
  <2>2. size \in Nat
    BY DeviceAssumption
  <2> HIDE DEF S
  <2>3. Call(S, pool_reserve(S, size, fault), fault = "hang")
    BY <1>1, <2>2, ReserveIs, Zenon
  <2> QED
    BY <2>1, <2>3, CountedHung, UnlockedInv DEF S
<1>4. CASE RepackPooled(w)
  <2>1. PICK sent \in Sent,
             fault \in MayFail(SetupStages \cup MakeStages \cup CopyStages) :
          /\ Counted(fault, 1) /\ Unlock(prime_repack_linear_pooled(S, sent, fault))
          /\ dmabuf' = dmabuf
    BY <1>4, Zenon DEF RepackPooled
  <2>2. Fresh(sent)
    BY <1>2, <2>1, SentFresh, Zenon
  <2> HIDE DEF S
  <2>3. Call(S, prime_repack_linear_pooled(S, sent, fault), fault = "hang")
    BY <1>1, <2>2, PooledIs, Zenon
  <2> QED
    BY <2>1, <2>3, CountedHung, UnlockedInv DEF S
<1>5. CASE RepackReserved(w)
  <2>1. PICK sent \in Sent, d \in pool[w].reserved,
             fault \in MayFail({"export", "hang"} \cup CopyStages) :
          /\ Counted(fault, 1) /\ Unlock(prime_repack_linear_reserved(S, d, sent, fault))
          /\ dmabuf' = dmabuf
    BY <1>5, Zenon DEF RepackReserved
  <2>2. Fresh(sent)
    BY <1>2, <2>1, SentFresh, Zenon
  <2> HIDE DEF S
  <2>3. d \in Slots
    BY <1>1, <2>1
  <2>4. Call(S, prime_repack_linear_reserved(S, d, sent, fault), fault = "hang")
    BY <1>1, <2>2, <2>3, ReservedIs, Zenon
  <2> QED
    BY <2>1, <2>4, CountedHung, UnlockedInv DEF S
<1>6. CASE Release(w)
  <2>1. PICK d \in pool[w].leased :
          Unlock(lease_clear(S, d)) /\ dmabuf' = dmabuf /\ history' = history
    BY <1>6, Zenon DEF Release, pool_release
  <2> HIDE DEF S
  <2>2. Call(S, lease_clear(S, d), FALSE)
    BY <1>1, LeaseCleared, Zenon DEF Call, Keeps, SameSources
  <2> QED
    BY <2>1, <2>2, UnlockedInv DEF S
<1>7. CASE Discard(w)
  <2>1. PICK d \in pool[w].leased, fault \in MayFail({"hang"}) :
          /\ Counted(fault, 0) /\ Unlock(GiveUp(S, d, fault = "hang"))
          /\ dmabuf' = dmabuf
    BY <1>7, Zenon DEF Discard, pool_discard
  <2> HIDE DEF S
  <2>2. d \in Slots /\ (fault = "hang") \in BOOLEAN
    BY <1>1, <2>1
  <2>3. Call(S, GiveUp(S, d, fault = "hang"), fault = "hang")
    BY <1>1, <2>2, GivenUp, Zenon DEF Call, Keeps, SameSources
  <2> QED
    BY <2>1, <2>3, CountedHung, UnlockedInv DEF S
<1>8. CASE clear_client(w)
  <2>1. PICK fault \in MayFail({"hang"}) :
          /\ Counted(fault, 0) /\ Unlock(pool_destroy(S, fault)) /\ dmabuf' = dmabuf
    BY <1>8, Zenon DEF clear_client
  <2> HIDE DEF S
  <2>2. Call(S, pool_destroy(S, fault), fault = "hang")
    BY <1>1, DestroyIs, Zenon
  <2> QED
    BY <2>1, <2>2, CountedHung, UnlockedInv DEF S
<1> QED
  BY <1>3, <1>4, <1>5, <1>6, <1>7, <1>8, Zenon

LEMMA NextInv ==
    ASSUME Inv, [Next]_vars
    PROVE  Inv'
<1>1. CASE UNCHANGED vars
  BY <1>1, StillInv DEF vars
<1>2. ASSUME NEW w \in Workers, accept_client(w) \/ client_worker(w) \/ worker_returns(w)
      PROVE  Inv'
  <2>1. CASE accept_client(w) \/ worker_returns(w)
    BY <2>1, StillInv DEF accept_client, worker_returns
  <2>2. CASE client_worker(w)
    <3>1. PICK fault : Counted(fault, 0) /\ UNCHANGED <<device, pool, gpu, dmabuf>>
      BY <2>2 DEF client_worker
    <3> QED
      BY <3>1, CountedHung, StillInv
  <2> QED
    BY <1>2, <2>1, <2>2, Zenon
<1>3. CASE handle_signal
  BY <1>3, SignalInv
<1>4. CASE GpuFinishes
  BY <1>4, GpuFinishesInv
<1>5. ASSUME NEW i \in Inodes, InodeReused(i) PROVE Inv'
  BY <1>5, InodeReusedInv
<1> QED
  BY <1>1, <1>2, <1>3, <1>4, <1>5, CallsInv, Zenon DEF Next

LEMMA InvAlways == Spec => []Inv
<1>1. Init => Inv
  BY InitInv
<1>2. Inv /\ [Next]_vars => Inv'
  BY NextInv
<1> QED
  BY <1>1, <1>2, PTL DEF Spec

(* Every copy the GPU has queued reads the buffer that was sent with its   *)
(* frame, in every reachable state: the import cache of                    *)
(* advc_turnip_prime_repack_linear_pooled never answers with another       *)
(* buffer, although inode numbers are used again.                          *)
THEOREM CopiesWhatWasSentCorrect == Spec => []CopiesWhatWasSent
<1>1. Inv => CopiesWhatWasSent
  BY Zenon DEF Inv
<1> QED
  BY <1>1, InvAlways, PTL

(* The shared device is initialized exactly while some pool is attached,   *)
(* attached_pools counts the attached pools, and a pool that is not        *)
(* attached has no image, whatever fails and whoever leaves first.         *)
THEOREM DeviceSpansPoolsCorrect == Spec => []DeviceSpansPools
<1>1. Inv => DeviceSpansPools
  BY Zenon DEF Inv
<1> QED
  BY <1>1, InvAlways, PTL

(* A destination is neither destroyed nor written again while a copy into  *)
(* it is under way, unless a wait for the GPU has timed out.               *)
THEOREM CopiesKeepDestinationCorrect == Spec => []CopiesKeepDestination
<1>1. Inv => CopiesKeepDestination
  BY Zenon DEF Inv
<1> QED
  BY <1>1, InvAlways, PTL
=============================================================================
