-------------------------- MODULE RepackGatewayProofs --------------------------
(***************************************************************************)
(* The invariants of RepackGateway, for every number of slots, sessions,   *)
(* frames and ids, also when tokens and reservation ids wrap.  The         *)
(* inductive invariant says how the table and the leases of the pool go    *)
(* together (LeasesOk) and how the table and the ids the client and the    *)
(* broker have go together (IdsOk).                                        *)
(***************************************************************************)
EXTENDS RepackGateway, FiniteSetTheorems, WellFoundedInduction, TLAPS

Entries == [used : BOOLEAN, released : BOOLEAN, resv : BOOLEAN,
            sess : Sessions \cup {0}, id : Nat, pts : Nat, token : Nat]
Tables == [Slots -> Entries]
Destinations == [made : BOOLEAN, fenced : BOOLEAN, dropped : BOOLEAN]
Tokens == 1..(TokenLimit - 1)
Pools == [lease : [Slots -> Nat], dest : [Slots -> Destinations],
          last : 0..(TokenLimit - 1)]
Given == Sessions \X Nat

UsedIn(O) == {i \in Slots : O[i].used}

Key(e) == <<e.sess, e.id>>

\* The leases of the pool are those of the entries, one each.
LeasesOk(O, L) ==
    /\ \A i, k \in Slots : L[i] # 0 /\ L[i] = L[k] => i = k
    /\ \A i \in Slots : L[i] # 0 => \E j \in UsedIn(O) : O[j].token = L[i]
    /\ \A j \in UsedIn(O) :
          IF O[j].released THEN O[j].token # 0 /\ \E k \in Slots : L[k] = O[j].token
          ELSE O[j].token = 0
    /\ \A i, j \in UsedIn(O) : O[i].token # 0 /\ O[i].token = O[j].token => i = j

\* The entries have ids of their own, which the client was given.  Those of
\* reservations are above the broker's, whose next is n.
EntryOk(e, out, given, n) ==
    /\ Key(e) \in given
    /\ e.released = (Key(e) \notin out)
    /\ IF e.resv THEN e.id >= FirstResv ELSE e.id < n

IdsOk(O, out, given, n) ==
    /\ out \subseteq given
    /\ \A x \in given : x \in out \/ \E i \in UsedIn(O) : Key(O[i]) = x
    /\ \A x \in out : x[2] < n
    /\ \A i \in UsedIn(O) : EntryOk(O[i], out, given, n)
    /\ \A i, j \in UsedIn(O) : Key(O[i]) = Key(O[j]) => i = j
    /\ \A i, j \in UsedIn(O) :
          O[i].resv /\ O[j].resv /\ O[i].sess = O[j].sess /\ O[i].pts = O[j].pts => i = j

Types ==
    /\ outputs \in Tables
    /\ pool \in Pools
    /\ nextResv \in FirstResv..LastResv
    /\ nextId \in 1..(MaxId + 1)
    /\ upstream \in BOOLEAN
    /\ connects = IF upstream THEN 1 ELSE 0
    /\ frames \in [Sessions -> SUBSET Pts]
    /\ lent \subseteq Given
    /\ told \subseteq Given

Inv ==
    /\ Types
    /\ LeasesOk(outputs, pool.lease)
    /\ IdsOk(outputs, lent, told, nextId)
-----------------------------------------------------------------------------
(* Allocation.                                                             *)
LEMMA FirstOfIn ==
    ASSUME NEW M \in SUBSET Nat, M # {}
    PROVE  FirstOf(M) \in M
<1>1. PICK m \in M : \A r \in M : ~(<<r, m>> \in OpToRel(<, Nat))
  BY WFMin, NatLessThanWellFounded, Zenon
<1>2. \A r \in M : ~(r < m)
  BY <1>1, Zenon DEF OpToRel
<1>3. \A r \in M : m <= r
  BY <1>2
<1> QED
  BY <1>3, Zenon DEF FirstOf

\* There is a number among n + 1 that none of n slots has.
LEMMA OneIsFree ==
    ASSUME NEW N, IsFiniteSet(N), Cardinality(N) > MaxSlots,
           NEW h \in [N -> Nat], NEW L \in [Slots -> Nat],
           \A j, k \in N : h[j] = h[k] => j = k
    PROVE  \E k \in N : \A i \in Slots : L[i] # h[k]
<1> SUFFICES ASSUME \A k \in N : \E i \in Slots : L[i] = h[k]
             PROVE  FALSE
  OBVIOUS
<1> DEFINE f == [k \in N |-> CHOOSE i \in Slots : L[i] = h[k]]
<1>1. f \in [N -> Slots] /\ \A k \in N : L[f[k]] = h[k]
  OBVIOUS
<1> HIDE DEF f
<1>2. MaxSlots \in Nat /\ Cardinality(N) \in Nat
  BY GatewayAssumption, FS_CardinalityType
<1>3. IsFiniteSet(Slots) /\ Cardinality(Slots) = MaxSlots
  BY <1>2, FS_Interval DEF Slots
<1>4. Cardinality(Slots) < Cardinality(N)
  BY <1>2, <1>3
<1>5. \E j, k \in N : j # k /\ f[j] = f[k]
  BY <1>1, <1>3, <1>4, FS_PigeonHole
<1> QED
  BY <1>1, <1>5

LEMMA TokenNew ==
    ASSUME NEW p \in Pools
    PROVE  /\ allocate_token(p) \in Tokens
           /\ \A i \in Slots : p.lease[i] # allocate_token(p)
<1> DEFINE last == p.last
           h == [k \in 1..(MaxSlots + 1) |-> TokenAfter(last, k)]
           free == {k \in 1..(MaxSlots + 1) : \A i \in Slots : p.lease[i] # TokenAfter(last, k)}
<1>1. /\ MaxSlots \in Nat /\ TokenLimit \in Nat /\ TokenLimit > MaxSlots + 1
      /\ last \in 0..(TokenLimit - 1) /\ p.lease \in [Slots -> Nat]
  BY GatewayAssumption DEF Pools
<1> HIDE DEF last
<1>2. \A k \in 1..(MaxSlots + 1) : TokenAfter(last, k) \in Tokens
  BY <1>1 DEF TokenAfter, Tokens
<1>3. \A j, k \in 1..(MaxSlots + 1) : TokenAfter(last, j) = TokenAfter(last, k) => j = k
  BY <1>1 DEF TokenAfter
<1>4. /\ h \in [1..(MaxSlots + 1) -> Nat]
      /\ \A j, k \in 1..(MaxSlots + 1) : h[j] = h[k] => j = k
  BY <1>2, <1>3 DEF Tokens
<1>5. IsFiniteSet(1..(MaxSlots + 1)) /\ Cardinality(1..(MaxSlots + 1)) > MaxSlots
  BY <1>1, FS_Interval
<1> HIDE DEF h
<1>6. \E k \in 1..(MaxSlots + 1) : \A i \in Slots : p.lease[i] # h[k]
  BY <1>1, <1>4, <1>5, OneIsFree
<1>a. free # {} /\ free \in SUBSET Nat
  BY <1>6 DEF h
<1>7. FirstOf(free) \in free
  BY <1>a, FirstOfIn, Zenon
<1>8. allocate_token(p) = TokenAfter(last, FirstOf(free))
  BY Zenon DEF allocate_token, last
<1> QED
  BY <1>2, <1>7, <1>8

LEMMA ResvNew ==
    ASSUME NEW s, outputs \in Tables, nextResv \in FirstResv..LastResv
    PROVE  /\ allocate_reservation_id(s) \in FirstResv..LastResv
           /\ find_output(s, allocate_reservation_id(s)) = {}
           /\ ResvAfter(allocate_reservation_id(s), 1) \in FirstResv..LastResv
<1> DEFINE N == 0..(ResvIds - 1)
           h == [k \in N |-> ResvAfter(nextResv, k)]
           L == [i \in Slots |-> outputs[i].id]
           free == {k \in N : find_output(s, ResvAfter(nextResv, k)) = {}}
           id == allocate_reservation_id(s)
<1>1. /\ MaxSlots \in Nat /\ MaxId \in Nat /\ ResvIds \in Nat /\ ResvIds > MaxSlots
      /\ FirstResv = MaxId + 1 /\ LastResv = MaxId + ResvIds
  BY GatewayAssumption DEF FirstResv, LastResv
<1>2. \A k \in N : ResvAfter(nextResv, k) \in FirstResv..LastResv
  BY <1>1 DEF ResvAfter
<1>3. \A j, k \in N : ResvAfter(nextResv, j) = ResvAfter(nextResv, k) => j = k
  BY <1>1 DEF ResvAfter
<1>4. h \in [N -> Nat] /\ L \in [Slots -> Nat] /\ 0 \in Nat /\ ResvIds - 1 \in Nat
  BY <1>1, <1>2 DEF Tables, Entries
<1>5. \A j, k \in N : h[j] = h[k] => j = k
  BY <1>3
<1> HIDE DEF h
<1>a. IsFiniteSet(N) /\ Cardinality(N) > MaxSlots
  <2>1. 0 \in Int /\ ResvIds - 1 \in Int /\ ~(0 > ResvIds - 1)
    BY <1>1
  <2>2. IsFiniteSet(0..(ResvIds - 1)) /\ Cardinality(0..(ResvIds - 1)) = (ResvIds - 1) - 0 + 1
    BY <2>1, FS_Interval
  <2> QED
    BY <1>1, <2>2
<1> HIDE DEF L, N
<1>6. \E k \in N : \A i \in Slots : L[i] # h[k]
  BY <1>4, <1>5, <1>a, OneIsFree
<1>7. free # {} /\ free \in SUBSET Nat
  BY <1>6 DEF N, h, L, find_output, Used
<1>8. FirstOf(free) \in free
  BY <1>7, FirstOfIn, Zenon
<1>9. id = ResvAfter(nextResv, FirstOf(free))
  BY Zenon DEF allocate_reservation_id, N
<1>10. id \in FirstResv..LastResv /\ find_output(s, id) = {}
  BY <1>2, <1>8, <1>9
<1> HIDE DEF id
<1>11. ResvAfter(id, 1) \in FirstResv..LastResv
  BY <1>1, <1>10 DEF ResvAfter
<1> QED
  BY <1>10, <1>11, Zenon DEF id
-----------------------------------------------------------------------------
(* Leases.                                                                 *)
LEMMA AcquireIs ==
    ASSUME NEW p \in Pools, FreeSlot(p) # {}
    PROVE  LET q == lease_acquire(p)
               i == FirstOf(FreeSlot(p))
               t == allocate_token(p)
           IN  /\ q \in Pools /\ i \in Slots /\ p.lease[i] = 0 /\ t \in Tokens
               /\ q.lease = [p.lease EXCEPT ![i] = t] /\ q.last = t /\ q.dest = p.dest
               /\ q.lease[i] = t
               /\ \A k \in Slots : p.lease[k] # t
<1> DEFINE q == lease_acquire(p)
           i == FirstOf(FreeSlot(p))
           t == allocate_token(p)
           l == [p.lease EXCEPT ![i] = t]
<1>1. t \in Tokens /\ \A k \in Slots : p.lease[k] # t
  BY TokenNew, Zenon
<1>2. FreeSlot(p) \in SUBSET Nat
  BY DEF FreeSlot, Slots
<1>3. i \in FreeSlot(p)
  BY <1>2, FirstOfIn, Zenon
<1>4. i \in Slots /\ p.lease[i] = 0
  BY <1>3, Zenon DEF FreeSlot
<1>5. q = [p EXCEPT !.lease = l, !.last = t]
  BY Zenon DEF lease_acquire
<1> HIDE DEF i, t, q
<1>6. l \in [Slots -> Nat] /\ l[i] = t /\ t \in 0..(TokenLimit - 1)
  BY <1>1, <1>4, GatewayAssumption DEF Pools, Tokens
<1> HIDE DEF l
<1>7. q \in Pools /\ q.lease = l /\ q.last = t /\ q.dest = p.dest
  BY <1>5, <1>6 DEF Pools
<1> QED
  BY <1>1, <1>4, <1>6, <1>7, Zenon DEF i, t, q, l

LEMMA LeaseFound ==
    ASSUME NEW p \in Pools, NEW t \in Nat \ {0}, NEW i \in Slots, p.lease[i] = t,
           \A k \in Slots : p.lease[k] = t => k = i
    PROVE  lease_find(p, t) = i
<1>1. {k \in Slots : p.lease[k] = t} = {i}
  OBVIOUS
<1>2. {i} \in SUBSET Nat
  BY DEF Slots
<1>3. FirstOf({i}) = i
  BY <1>2, FirstOfIn
<1> QED
  BY <1>1, <1>3 DEF lease_find

LEMMA UnleasedIs ==
    ASSUME NEW p \in Pools, NEW i \in Slots, NEW d \in Destinations
    PROVE  /\ Unleased(p, i, d) \in Pools
           /\ Unleased(p, i, d).lease = [p.lease EXCEPT ![i] = 0]
<1> DEFINE l == [p.lease EXCEPT ![i] = 0]
           e == [p.dest EXCEPT ![i] = d]
<1>1. l \in [Slots -> Nat] /\ e \in [Slots -> Destinations]
  BY DEF Pools
<1>2. Unleased(p, i, d) = [p EXCEPT !.lease = l, !.dest = e]
  BY Zenon DEF Unleased
<1> HIDE DEF l, e
<1>3. LET q == [p EXCEPT !.lease = l, !.dest = e] IN q \in Pools /\ q.lease = l
  BY <1>1 DEF Pools
<1> QED
  BY <1>2, <1>3, Zenon DEF l

LEMMA DestinationTypes ==
    NoDestination \in Destinations /\ NewDestination \in Destinations
  BY DEF NoDestination, NewDestination, Destinations

\* A lease that is taken and given up at once leaves the leases as they were.
LEMMA AcquireDiscard ==
    ASSUME NEW p \in Pools, FreeSlot(p) # {}
    PROVE  LET q == pool_discard(lease_acquire(p), lease_acquire(p).last)
           IN  q \in Pools /\ q.lease = p.lease
<1> DEFINE a == lease_acquire(p)
           t == allocate_token(p)
           i == FirstOf(FreeSlot(p))
           q == pool_discard(a, a.last)
<1>1. /\ a \in Pools /\ i \in Slots /\ p.lease[i] = 0 /\ t \in Tokens
      /\ a.lease = [p.lease EXCEPT ![i] = t] /\ a.last = t /\ a.lease[i] = t
      /\ \A k \in Slots : p.lease[k] # t
  BY AcquireIs
<1> HIDE DEF a, t, i
<1>2. t \in Nat \ {0} /\ p.lease \in [Slots -> Nat] /\ i # 0
  BY <1>1, GatewayAssumption DEF Tokens, Pools, Slots
<1>3. \A k \in Slots : a.lease[k] = t => k = i
  BY <1>1, <1>2
<1>4. lease_find(a, t) = i
  BY <1>1, <1>2, <1>3, LeaseFound
<1>5. q = Unleased(a, i, NoDestination)
  BY <1>1, <1>2, <1>4 DEF pool_discard
<1>6. q \in Pools /\ q.lease = [a.lease EXCEPT ![i] = 0]
  BY <1>1, <1>5, UnleasedIs, DestinationTypes
<1>7. [a.lease EXCEPT ![i] = 0] = p.lease
  BY <1>1, <1>2
<1> QED
  BY <1>6, <1>7 DEF a, t, i
-----------------------------------------------------------------------------
(* The table and the leases: an entry comes, with a lease or without one,  *)
(* entries go, an entry changes its id.                                    *)
LEMMA LeaseAdded ==
    ASSUME NEW O \in Tables, NEW L \in [Slots -> Nat], LeasesOk(O, L),
           NEW o \in Slots \ UsedIn(O), NEW e \in Entries, e.used, e.released,
           NEW i \in Slots, L[i] = 0, e.token # 0, \A k \in Slots : L[k] # e.token
    PROVE  LeasesOk([O EXCEPT ![o] = e], [L EXCEPT ![i] = e.token])
<1> DEFINE P == [O EXCEPT ![o] = e]
           M == [L EXCEPT ![i] = e.token]
<1>1. P[o] = e /\ \A j \in Slots \ {o} : P[j] = O[j]
  BY DEF Tables
<1>2. M[i] = e.token /\ \A k \in Slots \ {i} : M[k] = L[k]
  OBVIOUS
<1> HIDE DEF P, M
<1>3. UsedIn(P) = UsedIn(O) \cup {o} /\ \A j \in UsedIn(O) : j # o /\ P[j] = O[j]
  BY <1>1 DEF UsedIn
<1>4. \A k, l \in Slots : M[k] # 0 /\ M[k] = M[l] => k = l
  BY <1>2 DEF LeasesOk
<1>5. \A k \in Slots : M[k] # 0 => \E j \in UsedIn(P) : P[j].token = M[k]
  BY <1>1, <1>2, <1>3 DEF LeasesOk
<1>6. ASSUME NEW j \in UsedIn(P)
      PROVE  IF P[j].released THEN P[j].token # 0 /\ \E k \in Slots : M[k] = P[j].token
             ELSE P[j].token = 0
  <2>1. CASE j = o
    BY <1>1, <1>2, <2>1
  <2>2. CASE j \in UsedIn(O)
    BY <1>2, <1>3, <2>2 DEF LeasesOk
  <2> QED
    BY <1>3, <1>6, <2>1, <2>2, Zenon
<1>7. \A j \in UsedIn(O) : O[j].token # e.token
  BY DEF LeasesOk
<1>8. \A j, k \in UsedIn(P) : P[j].token # 0 /\ P[j].token = P[k].token => j = k
  BY <1>1, <1>3, <1>7 DEF LeasesOk
<1> QED
  BY <1>4, <1>5, <1>6, <1>8, Zenon DEF LeasesOk, P, M

LEMMA DirectAdded ==
    ASSUME NEW O \in Tables, NEW L \in [Slots -> Nat], LeasesOk(O, L),
           NEW o \in Slots \ UsedIn(O), NEW e \in Entries, e.used, ~e.released,
           e.token = 0
    PROVE  LeasesOk([O EXCEPT ![o] = e], L)
<1> DEFINE P == [O EXCEPT ![o] = e]
<1>1. P[o] = e /\ \A j \in Slots \ {o} : P[j] = O[j]
  BY DEF Tables
<1> HIDE DEF P
<1>2. UsedIn(P) = UsedIn(O) \cup {o} /\ \A j \in UsedIn(O) : j # o /\ P[j] = O[j]
  BY <1>1 DEF UsedIn
<1>3. LeasesOk(P, L)
  BY <1>1, <1>2 DEF LeasesOk
<1> QED
  BY <1>3, Zenon DEF P

LEMMA LeasesSame ==
    ASSUME NEW O, NEW P, NEW L, LeasesOk(O, L),
           \A j \in Slots : /\ P[j].used = O[j].used /\ P[j].released = O[j].released
                            /\ P[j].token = O[j].token
    PROVE  LeasesOk(P, L)
<1>1. UsedIn(P) = UsedIn(O) /\ UsedIn(O) \subseteq Slots
  BY DEF UsedIn
<1> QED
  BY <1>1 DEF LeasesOk

\* The table without the entries of S.
Without(O, S) == [i \in Slots |-> IF i \in S THEN FreeOutput ELSE O[i]]

LEMMA WithoutIs ==
    ASSUME NEW O \in Tables, NEW S \in SUBSET UsedIn(O)
    PROVE  /\ Without(O, S) \in Tables
           /\ UsedIn(Without(O, S)) = UsedIn(O) \ S
           /\ \A j \in UsedIn(O) \ S : Without(O, S)[j] = O[j]
<1>1. FreeOutput \in Entries /\ ~FreeOutput.used
  BY DEF FreeOutput, Entries
<1>2. Without(O, S) \in Tables
  BY <1>1 DEF Without, Tables
<1>3. \A j \in Slots : Without(O, S)[j] = IF j \in S THEN FreeOutput ELSE O[j]
  BY DEF Without
<1> QED
  BY <1>1, <1>2, <1>3 DEF UsedIn

\* What PoolWithout leaves of the leases.
LeasesWithout(O, L, S) ==
    [k \in Slots |-> IF L[k] # 0 /\ L[k] \in {O[i].token : i \in S} THEN 0 ELSE L[k]]

LEMMA LeaseRemoved ==
    ASSUME NEW O \in Tables, NEW L \in [Slots -> Nat], LeasesOk(O, L),
           NEW S \in SUBSET UsedIn(O)
    PROVE  LeasesOk(Without(O, S), LeasesWithout(O, L, S))
<1> DEFINE P == Without(O, S)
           M == LeasesWithout(O, L, S)
           T == {O[i].token : i \in S}
<1>1. UsedIn(P) = UsedIn(O) \ S /\ \A j \in UsedIn(O) \ S : P[j] = O[j]
  BY WithoutIs
<1>2. \A k \in Slots : M[k] = IF L[k] # 0 /\ L[k] \in T THEN 0 ELSE L[k]
  BY DEF LeasesWithout
<1>3. \A j \in UsedIn(O) \ S : O[j].token # 0 => O[j].token \notin T
  BY DEF LeasesOk
<1>4. \A j \in UsedIn(O) : O[j].token \notin T => j \notin S
  OBVIOUS
<1> HIDE DEF P, M, T
<1>5. \A k, l \in Slots : M[k] # 0 /\ M[k] = M[l] => k = l
  BY <1>2 DEF LeasesOk
<1>6. \A k \in Slots : M[k] # 0 => \E j \in UsedIn(P) : P[j].token = M[k]
  BY <1>1, <1>2, <1>4 DEF LeasesOk
<1>7. \A j \in UsedIn(P) :
        IF P[j].released THEN P[j].token # 0 /\ \E k \in Slots : M[k] = P[j].token
        ELSE P[j].token = 0
  BY <1>1, <1>2, <1>3 DEF LeasesOk
<1>8. \A j, k \in UsedIn(P) : P[j].token # 0 /\ P[j].token = P[k].token => j = k
  BY <1>1 DEF LeasesOk
<1> QED
  BY <1>5, <1>6, <1>7, <1>8, Zenon DEF LeasesOk, P, M
-----------------------------------------------------------------------------
(* The table and the ids.  The broker's ids never reach the reservations'. *)
LEMMA EntryStays ==
    ASSUME NEW e \in Entries, NEW out, NEW given, NEW n \in Nat,
           NEW out2, NEW given2, NEW m \in Nat, m >= n, EntryOk(e, out, given, n),
           Key(e) \in given2, (Key(e) \in out2) = (Key(e) \in out)
    PROVE  EntryOk(e, out2, given2, m)
<1>1. e.id \in Nat
  BY DEF Entries
<1> QED
  BY <1>1 DEF EntryOk

LEMMA IdAdded ==
    ASSUME NEW O \in Tables, NEW out \in SUBSET Given, NEW given \in SUBSET Given,
           NEW n \in Nat, NEW m \in Nat, m >= n, IdsOk(O, out, given, n),
           NEW o \in Slots \ UsedIn(O), NEW e \in Entries, e.used,
           NEW out2, out \subseteq out2, out2 \subseteq out \cup {Key(e)}, \A x \in out2 : x[2] < m,
           EntryOk(e, out2, given \cup {Key(e)}, m),
           \A j \in UsedIn(O) : Key(O[j]) # Key(e),
           \A j \in UsedIn(O) : ~(e.resv /\ O[j].resv /\ O[j].sess = e.sess /\ O[j].pts = e.pts)
    PROVE  IdsOk([O EXCEPT ![o] = e], out2, given \cup {Key(e)}, m)
<1> DEFINE P == [O EXCEPT ![o] = e]
           given2 == given \cup {Key(e)}
<1>1. P[o] = e /\ \A j \in Slots \ {o} : P[j] = O[j]
  BY DEF Tables
<1> HIDE DEF P
<1>2. UsedIn(P) = UsedIn(O) \cup {o} /\ \A j \in UsedIn(O) : j # o /\ P[j] = O[j]
  BY <1>1 DEF UsedIn
<1>3. out2 \subseteq given2
  BY DEF IdsOk
<1>4. \A x \in given2 : x \in out2 \/ \E i \in UsedIn(P) : Key(P[i]) = x
  BY <1>1, <1>2 DEF IdsOk
<1>5. ASSUME NEW j \in UsedIn(P) PROVE EntryOk(P[j], out2, given2, m)
  <2>1. CASE j = o
    BY <1>1, <2>1, Zenon
  <2>2. CASE j \in UsedIn(O)
    <3>1. EntryOk(O[j], out, given, n) /\ O[j] \in Entries /\ Key(O[j]) # Key(e)
      BY <2>2 DEF IdsOk, Tables, UsedIn
    <3>2. Key(O[j]) \in given2 /\ (Key(O[j]) \in out2) = (Key(O[j]) \in out)
      BY <3>1 DEF EntryOk
    <3>3. EntryOk(O[j], out2, given2, m)
      BY <3>1, <3>2, EntryStays, Zenon
    <3> QED
      BY <1>2, <2>2, <3>3, Zenon
  <2> QED
    BY <1>2, <1>5, <2>1, <2>2, Zenon
<1>6. \A i, j \in UsedIn(P) : Key(P[i]) = Key(P[j]) => i = j
  BY <1>1, <1>2 DEF IdsOk
<1>7. \A i, j \in UsedIn(P) :
        P[i].resv /\ P[j].resv /\ P[i].sess = P[j].sess /\ P[i].pts = P[j].pts => i = j
  BY <1>1, <1>2 DEF IdsOk
<1> QED
  BY <1>3, <1>4, <1>5, <1>6, <1>7, Zenon DEF IdsOk, P

LEMMA IdRemoved ==
    ASSUME NEW O \in Tables, NEW out \in SUBSET Given, NEW given \in SUBSET Given,
           NEW n \in Nat, NEW m \in Nat, m >= n, IdsOk(O, out, given, n),
           NEW S \in SUBSET UsedIn(O), NEW X,
           \A i \in UsedIn(O) : (Key(O[i]) \in X) = (i \in S)
    PROVE  IdsOk(Without(O, S), out \ X, given \ X, m)
<1> DEFINE P == Without(O, S)
<1>1. UsedIn(P) = UsedIn(O) \ S /\ \A j \in UsedIn(O) \ S : P[j] = O[j]
  BY WithoutIs
<1> HIDE DEF P
<1>2. out \ X \subseteq given \ X
  BY DEF IdsOk
<1>3. \A x \in given \ X : x \in out \ X \/ \E i \in UsedIn(P) : Key(P[i]) = x
  BY <1>1 DEF IdsOk
<1>4. \A x \in out \ X : x[2] < m
  BY DEF IdsOk, Given
<1>5. ASSUME NEW j \in UsedIn(P) PROVE EntryOk(P[j], out \ X, given \ X, m)
  <2>1. j \in UsedIn(O) /\ P[j] = O[j] /\ j \notin S
    BY <1>1, <1>5
  <2>2. EntryOk(O[j], out, given, n) /\ O[j] \in Entries /\ Key(O[j]) \notin X
    BY <2>1 DEF IdsOk, Tables, UsedIn
  <2>3. Key(O[j]) \in given \ X /\ (Key(O[j]) \in out \ X) = (Key(O[j]) \in out)
    BY <2>2 DEF EntryOk
  <2> QED
    BY <2>1, <2>2, <2>3, EntryStays, Zenon
<1>6. \A i, j \in UsedIn(P) : Key(P[i]) = Key(P[j]) => i = j
  BY <1>1 DEF IdsOk
<1>7. \A i, j \in UsedIn(P) :
        P[i].resv /\ P[j].resv /\ P[i].sess = P[j].sess /\ P[i].pts = P[j].pts => i = j
  BY <1>1 DEF IdsOk
<1> QED
  BY <1>2, <1>3, <1>4, <1>5, <1>6, <1>7, Zenon DEF IdsOk, P

\* The next id of the broker is not that of an entry, nor out.
LEMMA NextIsNew ==
    ASSUME NEW O \in Tables, NEW out \in SUBSET Given, NEW given, NEW n \in 1..MaxId,
           IdsOk(O, out, given, n), NEW s
    PROVE  /\ \A j \in UsedIn(O) : Key(O[j]) # <<s, n>>
           /\ <<s, n>> \notin out
<1>0. MaxId \in Nat /\ n \in Nat /\ n <= MaxId
  BY GatewayAssumption
<1>1. ASSUME NEW j \in UsedIn(O) PROVE Key(O[j]) # <<s, n>>
  <2>1. O[j] \in Entries /\ EntryOk(O[j], out, given, n)
    BY <1>1 DEF IdsOk, UsedIn, Tables
  <2>2. O[j].id # n
    BY <1>0, <2>1 DEF EntryOk, Entries, FirstResv
  <2> QED
    BY <2>2 DEF Key
<1>2. <<s, n>> \notin out
  <2>1. SUFFICES ASSUME <<s, n>> \in out PROVE FALSE
    OBVIOUS
  <2>2. <<s, n>>[2] < n
    BY <2>1, Zenon DEF IdsOk
  <2> QED
    BY <1>0, <2>2
<1> QED
  BY <1>1, <1>2
-----------------------------------------------------------------------------
(* The steps.                                                              *)
LEMMA DestinationSet ==
    ASSUME NEW p \in Pools, NEW i \in Slots, NEW d \in Destinations
    PROVE  [p EXCEPT !.dest[i] = d] \in Pools /\ [p EXCEPT !.dest[i] = d].lease = p.lease
  BY DEF Pools

LEMMA PreparedIs ==
    ASSUME NEW p \in Pools, NEW i \in Slots, NEW anew
    PROVE  /\ Prepared(p, i, anew) \in Pools /\ Prepared(p, i, anew).lease = p.lease
           /\ Copied(p, i) \in Pools /\ Copied(p, i).lease = p.lease
  BY DestinationSet, DestinationTypes, Zenon DEF Prepared, Copied

LEMMA InvFacts ==
    ASSUME Inv
    PROVE  /\ outputs \in Tables /\ pool \in Pools /\ pool.lease \in [Slots -> Nat]
           /\ Used = UsedIn(outputs) /\ Unused = Slots \ UsedIn(outputs)
           /\ Unused # {} => FirstOf(Unused) \in Slots \ UsedIn(outputs)
           /\ nextId \in Nat /\ nextId >= 1 /\ nextId <= FirstResv /\ FirstResv \in Nat
           /\ lent \in SUBSET Given /\ told \in SUBSET Given
           /\ \A x \in lent : x[2] < nextId
<1>1. outputs \in Tables /\ pool \in Pools /\ lent \in SUBSET Given /\ told \in SUBSET Given
  BY DEF Inv, Types
<1>2. pool.lease \in [Slots -> Nat]
  BY <1>1 DEF Pools
<1>3. Used = UsedIn(outputs) /\ Unused = Slots \ UsedIn(outputs)
  BY DEF Used, Unused, UsedIn
<1>4. Unused # {} => FirstOf(Unused) \in Slots \ UsedIn(outputs)
  <2>1. Unused \in SUBSET Nat
    BY <1>3 DEF Slots
  <2> QED
    BY <1>3, <2>1, FirstOfIn, Zenon
<1>5. nextId \in Nat /\ nextId >= 1 /\ nextId <= FirstResv /\ FirstResv \in Nat
  BY GatewayAssumption DEF Inv, Types, FirstResv
<1>6. \A x \in lent : x[2] < nextId
  BY Zenon DEF Inv, IdsOk
<1> QED
  BY <1>1, <1>2, <1>3, <1>4, <1>5, <1>6, Zenon

LEMMA ReserveOkInv ==
    ASSUME Inv, NEW s \in Sessions, NEW p \in Pts, NEW anew \in BOOLEAN,
           find_reservation(s, p) = {}, ReserveOk(s, p, anew)
    PROVE  Inv'
<1> DEFINE leased == lease_acquire(pool)
           i == FirstOf(FreeSlot(pool))
           t == allocate_token(pool)
           id == allocate_reservation_id(s)
           o == FirstOf(Unused)
           e == [used |-> TRUE, released |-> TRUE, resv |-> TRUE, sess |-> s,
                 id |-> id, pts |-> p, token |-> t]
<1>1. /\ outputs \in Tables /\ pool \in Pools /\ pool.lease \in [Slots -> Nat]
      /\ Used = UsedIn(outputs) /\ o \in Slots \ UsedIn(outputs)
      /\ nextId \in Nat /\ nextId <= FirstResv /\ FirstResv \in Nat
      /\ lent \in SUBSET Given /\ told \in SUBSET Given
      /\ \A x \in lent : x[2] < nextId
  BY InvFacts DEF ReserveOk
<1>2. /\ leased \in Pools /\ i \in Slots /\ pool.lease[i] = 0 /\ t \in Tokens
      /\ leased.lease = [pool.lease EXCEPT ![i] = t] /\ leased.lease[i] = t
      /\ \A k \in Slots : pool.lease[k] # t
  BY <1>1, AcquireIs DEF ReserveOk
<1>3. /\ id \in FirstResv..LastResv /\ find_output(s, id) = {}
      /\ ResvAfter(id, 1) \in FirstResv..LastResv
  BY ResvNew DEF Inv, Types
<1>4. /\ pool' = Prepared(leased, i, anew)
      /\ outputs' = [outputs EXCEPT ![o] = e]
      /\ nextResv' = ResvAfter(id, 1) /\ told' = told \cup {<<s, id>>}
      /\ UNCHANGED <<upstream, connects, frames, nextId, lent>>
  BY <1>2 DEF ReserveOk
<1> HIDE DEF leased, i, t, id, o
<1>5. t \in Nat /\ t # 0 /\ id \in Nat /\ id >= FirstResv /\ p \in Nat
  BY <1>1, <1>2, <1>3, GatewayAssumption DEF Tokens, Pts, LastResv
<1>6. /\ e \in Entries /\ e.used /\ e.released = TRUE /\ e.resv /\ e.token = t /\ e.id = id
      /\ e.sess = s /\ e.pts = p /\ Key(e) = <<s, id>>
  BY <1>5 DEF Entries, Key
<1> HIDE DEF e
<1>7. pool' \in Pools /\ pool'.lease = [pool.lease EXCEPT ![i] = e.token]
  BY <1>2, <1>4, <1>6, PreparedIs
<1>8. LeasesOk(outputs', pool'.lease)
  <2>1. LeasesOk(outputs, pool.lease)
    BY Zenon DEF Inv
  <2>2. e.released /\ e.token # 0 /\ \A k \in Slots : pool.lease[k] # e.token
    BY <1>2, <1>5, <1>6, Zenon
  <2>3. LeasesOk([outputs EXCEPT ![o] = e], [pool.lease EXCEPT ![i] = e.token])
    BY <1>1, <1>2, <1>6, <2>1, <2>2, LeaseAdded
  <2> QED
    BY <1>4, <1>7, <2>3, Zenon
<1>9. IdsOk(outputs', lent, told', nextId)
  <2>1. Key(e) \notin lent
    <3>1. SUFFICES ASSUME <<s, id>> \in lent PROVE FALSE
      BY <1>6
    <3>2. <<s, id>>[2] < nextId
      BY <1>1, <3>1, Zenon
    <3> QED
      BY <1>1, <1>5, <3>2
  <2>2. EntryOk(e, lent, told \cup {Key(e)}, nextId)
    BY <1>5, <1>6, <2>1 DEF EntryOk
  <2>3. \A j \in UsedIn(outputs) : Key(outputs[j]) # Key(e)
    BY <1>1, <1>3, <1>6 DEF find_output, Key
  <2>4. \A j \in UsedIn(outputs) :
          ~(e.resv /\ outputs[j].resv /\ outputs[j].sess = e.sess /\ outputs[j].pts = e.pts)
    BY <1>1, <1>6 DEF find_reservation
  <2>5. IdsOk(outputs, lent, told, nextId) /\ nextId >= nextId
    BY <1>1 DEF Inv
  <2>6. IdsOk([outputs EXCEPT ![o] = e], lent, told \cup {Key(e)}, nextId)
    BY <1>1, <1>6, <2>2, <2>3, <2>4, <2>5, IdAdded
  <2> QED
    BY <1>4, <1>6, <2>6, Zenon
<1>10. Types'
  <2>1. outputs' \in Tables
    BY <1>1, <1>4, <1>6 DEF Tables
  <2>2. told' \subseteq Given
    BY <1>1, <1>4, <1>5 DEF Given
  <2> QED
    BY <1>3, <1>4, <1>7, <2>1, <2>2 DEF Inv, Types
<1> QED
  BY <1>4, <1>8, <1>9, <1>10, Zenon DEF Inv

LEMMA ReserveFailsInv ==
    ASSUME Inv, NEW s \in Sessions, ReserveFails(s)
    PROVE  Inv'
<1>1. pool \in Pools /\ FreeSlot(pool) # {}
  BY InvFacts DEF ReserveFails
<1>2. pool' \in Pools /\ pool'.lease = pool.lease
  BY <1>1, AcquireDiscard DEF ReserveFails
<1>3. nextResv' \in FirstResv..LastResv
  BY ResvNew DEF ReserveFails, Inv, Types
<1>4. UNCHANGED <<outputs, upstream, connects, frames, nextId, lent, told>>
  BY Zenon DEF ReserveFails
<1>5. Types'
  BY <1>2, <1>3, <1>4 DEF Inv, Types
<1> QED
  BY <1>2, <1>4, <1>5 DEF Inv

\* What the broker lends moves its ids, the frames and the connection.
LEMMA LendTypes ==
    ASSUME Inv, NEW s \in Sessions, nextId <= MaxId,
           frames' \in [Sessions -> SUBSET Pts],
           nextId' = nextId + 1, Connected, nextResv' = nextResv,
           outputs' \in Tables, pool' \in Pools, lent' \subseteq Given, told' \subseteq Given
    PROVE  Types'
<1>1. upstream' = TRUE /\ connects' = 1
  BY DEF Connected, Inv, Types
<1>2. nextId' \in 1..(MaxId + 1)
  BY GatewayAssumption DEF Inv, Types
<1>3. frames' \in [Sessions -> SUBSET Pts] /\ nextResv' \in FirstResv..LastResv
  BY DEF Inv, Types
<1> QED
  BY <1>1, <1>2, <1>3 DEF Types

LEMMA LendFrames ==
    ASSUME Inv, NEW s \in Sessions, NEW p, Lend(s, p)
    PROVE  /\ frames' \in [Sessions -> SUBSET Pts] /\ nextId' = nextId + 1
           /\ Connected /\ nextResv' = nextResv
  BY DEF Inv, Types, Lend

LEMMA DequeueBytesInv ==
    ASSUME Inv, NEW s \in Sessions, DequeueBytes(s)
    PROVE  Inv'
<1> DEFINE x == <<s, nextId>>
<1>1. /\ outputs \in Tables /\ pool \in Pools /\ nextId \in Nat /\ nextId \in 1..MaxId
      /\ lent \in SUBSET Given /\ told \in SUBSET Given /\ x \in Given
  BY InvFacts, GatewayAssumption DEF DequeueBytes, Given
<1>2. /\ outputs' = outputs /\ pool' = pool /\ frames' = frames /\ nextResv' = nextResv
      /\ lent' = lent \cup {x} /\ told' = told \cup {x} /\ nextId' = nextId + 1 /\ Connected
  BY Zenon DEF DequeueBytes
<1>3. IdsOk(outputs, lent, told, nextId)
  BY Zenon DEF Inv
<1>4. \A j \in UsedIn(outputs) : Key(outputs[j]) # x
  BY <1>1, <1>3, NextIsNew, Zenon
<1>5. \A y \in lent' : y[2] < nextId + 1
  BY <1>1, <1>2, <1>3 DEF IdsOk, Given
<1>6. ASSUME NEW j \in UsedIn(outputs) PROVE EntryOk(outputs[j], lent', told', nextId + 1)
  <2>1. EntryOk(outputs[j], lent, told, nextId) /\ outputs[j] \in Entries
    BY <1>1, <1>3, <1>6 DEF IdsOk, UsedIn, Tables
  <2>2. /\ Key(outputs[j]) \in told'
        /\ (Key(outputs[j]) \in lent') = (Key(outputs[j]) \in lent)
    BY <1>2, <1>4, <1>6, <2>1 DEF EntryOk
  <2>3. nextId + 1 \in Nat /\ nextId + 1 >= nextId
    BY <1>1
  <2> QED
    BY <1>1, <2>1, <2>2, <2>3, EntryStays, Zenon
<1> HIDE DEF x
<1>7. IdsOk(outputs, lent', told', nextId + 1)
  <2>1. lent' \subseteq told'
    BY <1>2, <1>3 DEF IdsOk
  <2>2. \A y \in told' : y \in lent' \/ \E i \in UsedIn(outputs) : Key(outputs[i]) = y
    BY <1>2, <1>3 DEF IdsOk
  <2> QED
    BY <1>3, <1>5, <1>6, <2>1, <2>2, Zenon DEF IdsOk
<1>8. Types'
  <2>1. frames' \in [Sessions -> SUBSET Pts] /\ lent' \subseteq Given /\ told' \subseteq Given
    BY <1>1, <1>2 DEF Inv, Types
  <2>2. nextId <= MaxId
    BY <1>1
  <2> QED
    BY <1>1, <1>2, <2>1, <2>2, LendTypes, Zenon
<1> QED
  BY <1>2, <1>7, <1>8, Zenon DEF Inv

LEMMA CacheDirectInv ==
    ASSUME Inv, NEW s \in Sessions, NEW p, nextId <= MaxId, CacheDirect(s, p)
    PROVE  Inv'
<1> DEFINE o == FirstOf(Unused)
           e == [used |-> TRUE, released |-> FALSE, resv |-> FALSE, sess |-> s,
                 id |-> nextId, pts |-> 0, token |-> 0]
<1>1. /\ outputs \in Tables /\ pool \in Pools /\ pool.lease \in [Slots -> Nat]
      /\ o \in Slots \ UsedIn(outputs) /\ nextId \in Nat /\ nextId \in 1..MaxId
      /\ lent \in SUBSET Given /\ told \in SUBSET Given
      /\ \A x \in lent : x[2] < nextId
  BY InvFacts, GatewayAssumption DEF CacheDirect
<1>2. /\ outputs' = [outputs EXCEPT ![o] = e] /\ pool' = pool /\ Lend(s, p)
      /\ lent' = lent \cup {<<s, nextId>>} /\ told' = told \cup {<<s, nextId>>}
  BY Zenon DEF CacheDirect
<1>3. /\ e \in Entries /\ e.used /\ e.released = FALSE /\ e.resv = FALSE /\ e.token = 0
      /\ e.id = nextId /\ Key(e) = <<s, nextId>>
  BY <1>1 DEF Entries, Key
<1> HIDE DEF e, o
<1>4. LeasesOk(outputs, pool.lease) /\ IdsOk(outputs, lent, told, nextId)
  BY Zenon DEF Inv
<1>5. LeasesOk(outputs', pool'.lease)
  BY <1>1, <1>2, <1>3, <1>4, DirectAdded
<1>6. /\ frames' \in [Sessions -> SUBSET Pts] /\ nextId' = nextId + 1
      /\ Connected /\ nextResv' = nextResv
  BY <1>2, LendFrames, Zenon
<1>7. IdsOk(outputs', lent', told', nextId')
  <2>1. \A j \in UsedIn(outputs) : Key(outputs[j]) # Key(e)
    BY <1>1, <1>3, <1>4, NextIsNew, Zenon
  <2>2. EntryOk(e, lent', told \cup {Key(e)}, nextId + 1)
    <3>1. Key(e) \in lent'
      BY <1>2, <1>3
    <3>2. e.released = (Key(e) \notin lent')
      BY <1>3, <3>1, Zenon
    <3>3. IF e.resv THEN e.id >= FirstResv ELSE e.id < nextId + 1
      BY <1>1, <1>3
    <3> QED
      BY <3>2, <3>3 DEF EntryOk
  <2>3. \A x \in lent' : x[2] < nextId + 1
    BY <1>1, <1>2 DEF Given
  <2>4. nextId + 1 \in Nat /\ nextId + 1 >= nextId 
    BY <1>1, <1>2, <1>3
  <2>5. \A j \in UsedIn(outputs) :
          ~(e.resv /\ outputs[j].resv /\ outputs[j].sess = e.sess /\ outputs[j].pts = e.pts)
    BY <1>3, Zenon
  <2> DEFINE out == lent \cup {Key(e)}
             m == nextId + 1
  <2> HIDE DEF out, m
  <2>6. /\ EntryOk(e, out, told \cup {Key(e)}, m) /\ \A x \in out : x[2] < m
        /\ lent \subseteq out /\ out \subseteq lent \cup {Key(e)} /\ m \in Nat /\ m >= nextId
    BY <1>2, <1>3, <2>2, <2>3, <2>4 DEF out, m
  <2>7. IdsOk([outputs EXCEPT ![o] = e], out, told \cup {Key(e)}, m)
    BY <1>1, <1>3, <1>4, <2>1, <2>5, <2>6, IdAdded
  <2> QED
    BY <1>2, <1>3, <1>6, <2>7, Zenon DEF out, m
<1>8. Types'
  <2>1. outputs' \in Tables /\ pool' \in Pools
    BY <1>1, <1>2, <1>3 DEF Tables
  <2>2. lent' \subseteq Given /\ told' \subseteq Given
    BY <1>1, <1>2 DEF Given
  <2> QED
    BY <1>6, <2>1, <2>2, LendTypes, Zenon
<1> QED
  BY <1>5, <1>7, <1>8, Zenon DEF Inv

LEMMA RepackPooledInv ==
    ASSUME Inv, NEW s \in Sessions, NEW p, nextId <= MaxId, RepackPooled(s, p)
    PROVE  Inv'
<1> DEFINE leased == lease_acquire(pool)
           i == FirstOf(FreeSlot(pool))
           t == allocate_token(pool)
           o == FirstOf(Unused)
           e == [used |-> TRUE, released |-> TRUE, resv |-> FALSE, sess |-> s,
                 id |-> nextId, pts |-> 0, token |-> t]
<1>1. /\ outputs \in Tables /\ pool \in Pools /\ pool.lease \in [Slots -> Nat]
      /\ o \in Slots \ UsedIn(outputs) /\ nextId \in Nat /\ nextId \in 1..MaxId
      /\ lent \in SUBSET Given /\ told \in SUBSET Given
      /\ \A x \in lent : x[2] < nextId
  BY InvFacts, GatewayAssumption DEF RepackPooled
<1>2. /\ leased \in Pools /\ i \in Slots /\ pool.lease[i] = 0 /\ t \in Tokens
      /\ leased.lease = [pool.lease EXCEPT ![i] = t] /\ leased.lease[i] = t
      /\ \A k \in Slots : pool.lease[k] # t
  BY <1>1, AcquireIs DEF RepackPooled
<1>3. PICK anew \in BOOLEAN :
      /\ pool' = Copied(Prepared(leased, i, anew), i)
      /\ outputs' = [outputs EXCEPT ![o] = e]
      /\ told' = told \cup {<<s, nextId>>} /\ lent' = lent /\ Lend(s, p)
  BY <1>2 DEF RepackPooled
<1> HIDE DEF leased, i, t, o
<1>4. t \in Nat /\ t # 0
  BY <1>2, GatewayAssumption DEF Tokens
<1>5. /\ e \in Entries /\ e.used /\ e.released = TRUE /\ e.resv = FALSE /\ e.token = t
      /\ e.id = nextId /\ Key(e) = <<s, nextId>>
  BY <1>1, <1>4 DEF Entries, Key
<1> HIDE DEF e
<1>6. pool' \in Pools /\ pool'.lease = [pool.lease EXCEPT ![i] = e.token]
  <2>1. Prepared(leased, i, anew) \in Pools /\ Prepared(leased, i, anew).lease = leased.lease
    BY <1>2, PreparedIs, Zenon
  <2> QED
    BY <1>2, <1>3, <1>5, <2>1, PreparedIs
<1>7. LeasesOk(outputs, pool.lease) /\ IdsOk(outputs, lent, told, nextId)
  BY Zenon DEF Inv
<1>8. LeasesOk(outputs', pool'.lease)
  <2>1. e.released /\ e.token # 0 /\ \A k \in Slots : pool.lease[k] # e.token
    BY <1>2, <1>4, <1>5, Zenon
  <2>2. LeasesOk([outputs EXCEPT ![o] = e], [pool.lease EXCEPT ![i] = e.token])
    BY <1>1, <1>2, <1>5, <1>7, <2>1, LeaseAdded
  <2> QED
    BY <1>3, <1>6, <2>2, Zenon
<1>9. /\ frames' \in [Sessions -> SUBSET Pts] /\ nextId' = nextId + 1
      /\ Connected /\ nextResv' = nextResv
  BY <1>3, LendFrames, Zenon
<1>10. IdsOk(outputs', lent', told', nextId')
  <2>1. (\A j \in UsedIn(outputs) : Key(outputs[j]) # Key(e)) /\ Key(e) \notin lent
    BY <1>1, <1>5, <1>7, NextIsNew, Zenon
  <2>2. EntryOk(e, lent, told \cup {Key(e)}, nextId + 1)
    <3>1. e.released = (Key(e) \notin lent)
      BY <1>5, <2>1, Zenon
    <3>2. IF e.resv THEN e.id >= FirstResv ELSE e.id < nextId + 1
      BY <1>1, <1>5
    <3> QED
      BY <3>1, <3>2 DEF EntryOk
  <2>3. \A x \in lent : x[2] < nextId + 1
    BY <1>1 DEF Given
  <2>4. nextId + 1 \in Nat /\ nextId + 1 >= nextId /\ lent \subseteq lent \cup {Key(e)}
    BY <1>1
  <2>5. \A j \in UsedIn(outputs) :
          ~(e.resv /\ outputs[j].resv /\ outputs[j].sess = e.sess /\ outputs[j].pts = e.pts)
    BY <1>5, Zenon
  <2>6. IdsOk([outputs EXCEPT ![o] = e], lent, told \cup {Key(e)}, nextId + 1)
    BY <1>1, <1>5, <1>7, <2>1, <2>2, <2>3, <2>4, <2>5, IdAdded
  <2> QED
    BY <1>3, <1>5, <1>9, <2>6, Zenon
<1>11. Types'
  <2>1. outputs' \in Tables
    BY <1>1, <1>3, <1>5 DEF Tables
  <2>2. lent' \subseteq Given /\ told' \subseteq Given
    BY <1>1, <1>3 DEF Given
  <2> QED
    BY <1>6, <1>9, <2>1, <2>2, LendTypes, Zenon
<1> QED
  BY <1>8, <1>10, <1>11, Zenon DEF Inv

LEMMA FindIn ==
    ASSUME NEW p, NEW t, lease_find(p, t) # 0
    PROVE  t # 0 /\ lease_find(p, t) \in Slots /\ p.lease[lease_find(p, t)] = t
<1> DEFINE M == {i \in Slots : p.lease[i] = t}
<1>1. t # 0 /\ M # {} /\ lease_find(p, t) = FirstOf(M)
  BY DEF lease_find
<1>2. M \in SUBSET Nat
  BY DEF Slots
<1> HIDE DEF M
<1>3. FirstOf(M) \in M
  BY <1>1, <1>2, FirstOfIn
<1> QED
  BY <1>1, <1>3 DEF M

\* A reservation's id is not the broker's.
LEMMA ReservedIs ==
    ASSUME Inv, NEW o \in UsedIn(outputs), outputs[o].resv
    PROVE  /\ outputs[o] \in Entries /\ outputs[o].released = TRUE
           /\ Key(outputs[o]) \notin lent
<1>1. outputs[o] \in Entries /\ EntryOk(outputs[o], lent, told, nextId)
  BY InvFacts DEF Inv, IdsOk, UsedIn, Tables
<1>2. outputs[o].id >= nextId /\ outputs[o].id \in Nat /\ nextId \in Nat
  BY <1>1, InvFacts DEF EntryOk, Entries
<1>3. Key(outputs[o]) \notin lent
  <2>1. SUFFICES ASSUME Key(outputs[o]) \in lent PROVE FALSE
    OBVIOUS
  <2>2. Key(outputs[o])[2] < nextId
    BY <2>1, InvFacts, Zenon
  <2>3. Key(outputs[o])[2] = outputs[o].id
    BY DEF Key
  <2> QED
    BY <1>2, <2>2, <2>3
<1>4. outputs[o].released = TRUE
  BY <1>1, <1>3, Zenon DEF EntryOk
<1> QED
  BY <1>1, <1>3, <1>4, Zenon

LEMMA RepackReservedInv ==
    ASSUME Inv, NEW s \in Sessions, NEW p, nextId <= MaxId, find_reservation(s, p) # {},
           RepackReserved(s, p)
    PROVE  Inv'
<1> DEFINE o == FirstOf(find_reservation(s, p))
           i == lease_find(pool, outputs[o].token)
           e == [outputs[o] EXCEPT !.id = nextId, !.resv = FALSE, !.pts = 0]
           X == {Key(outputs[o])}
           O == Without(outputs, {o})
<1>1. /\ outputs \in Tables /\ pool \in Pools /\ Used = UsedIn(outputs)
      /\ nextId \in Nat /\ nextId \in 1..MaxId
      /\ lent \in SUBSET Given /\ told \in SUBSET Given
      /\ \A x \in lent : x[2] < nextId
  BY InvFacts, GatewayAssumption
<1>2. o \in UsedIn(outputs) /\ outputs[o].resv /\ outputs[o].sess = s
  <2>1. find_reservation(s, p) \in SUBSET Nat
    BY DEF find_reservation, Used, Slots
  <2>2. o \in find_reservation(s, p)
    BY <2>1, FirstOfIn, Zenon
  <2> HIDE DEF o
  <2> QED
    BY <1>1, <2>2 DEF find_reservation
<1>3. /\ i # 0 /\ pool' = Copied(pool, i) /\ outputs' = [outputs EXCEPT ![o] = e]
      /\ told' = (told \ {<<s, outputs[o].id>>}) \cup {<<s, nextId>>}
      /\ lent' = lent /\ Lend(s, p)
  BY Zenon DEF RepackReserved
<1>4. i \in Slots
  BY <1>3, FindIn, Zenon
<1> HIDE DEF o, i
<1>5. /\ outputs[o] \in Entries /\ outputs[o].used /\ outputs[o].released = TRUE
      /\ Key(outputs[o]) \notin lent /\ Key(outputs[o]) = <<s, outputs[o].id>>
  BY <1>2, ReservedIs DEF UsedIn, Key
<1>6. /\ e \in Entries /\ e.used /\ e.released = TRUE /\ e.resv = FALSE
      /\ e.token = outputs[o].token /\ e.id = nextId /\ Key(e) = <<s, nextId>>
  BY <1>1, <1>2, <1>5 DEF Entries, Key
<1> HIDE DEF e
<1>7. pool' \in Pools /\ pool'.lease = pool.lease
  BY <1>1, <1>3, <1>4, PreparedIs
<1>8. outputs' \in Tables /\ outputs'[o] = e /\ \A j \in Slots \ {o} : outputs'[j] = outputs[j]
  BY <1>1, <1>2, <1>3, <1>6 DEF Tables, UsedIn
<1>9. LeasesOk(outputs', pool'.lease)
  <2>1. \A j \in Slots : /\ outputs'[j].used = outputs[j].used
                         /\ outputs'[j].released = outputs[j].released
                         /\ outputs'[j].token = outputs[j].token
    <3>1. outputs[o].used = TRUE /\ e.used = TRUE
      BY <1>5, <1>6 DEF Entries
    <3> QED
      BY <1>5, <1>6, <1>8, <3>1, Zenon
  <2> QED
    BY <1>7, <2>1, LeasesSame DEF Inv
<1>10. IdsOk(outputs', lent, told', nextId + 1)
  <2>1. O \in Tables /\ UsedIn(O) = UsedIn(outputs) \ {o} /\ {o} \in SUBSET UsedIn(outputs)
    BY <1>1, <1>2, WithoutIs
  <2>2. IdsOk(outputs, lent, told, nextId) /\ nextId >= nextId
    BY <1>1 DEF Inv
  <2>3. \A j \in UsedIn(outputs) : (Key(outputs[j]) \in X) = (j \in {o})
    BY <1>2, <2>2 DEF IdsOk
  <2>4. IdsOk(O, lent \ X, told \ X, nextId)
    BY <1>1, <2>1, <2>2, <2>3, IdRemoved
  <2>5. lent \ X = lent
    BY <1>5
  <2> DEFINE m == nextId + 1
             given == told \ X
  <2>6. /\ m \in Nat /\ m >= nextId /\ given \in SUBSET Given /\ o \in Slots \ UsedIn(O)
        /\ lent \subseteq lent \cup {Key(e)}
    <3>1. o \in Slots
      BY <1>2 DEF UsedIn
    <3> HIDE DEF O, X
    <3> QED
      BY <1>1, <2>1, <3>1
  <2>7. \A x \in lent : x[2] < m
    BY <1>1 DEF Given
  <2>8. (\A j \in UsedIn(O) : Key(O[j]) # Key(e)) /\ Key(e) \notin lent
    <3>1. IdsOk(O, lent, told \ X, nextId)
      BY <2>4, <2>5, Zenon
    <3> HIDE DEF O, X
    <3>2. (\A j \in UsedIn(O) : Key(O[j]) # <<s, nextId>>) /\ <<s, nextId>> \notin lent
      BY <1>1, <2>1, <3>1, NextIsNew
    <3> QED
      BY <1>6, <3>2, Zenon
  <2>9. EntryOk(e, lent, given \cup {Key(e)}, m)
    <3>1. e.released = (Key(e) \notin lent)
      BY <1>6, <2>8, Zenon
    <3>2. IF e.resv THEN e.id >= FirstResv ELSE e.id < m
      BY <1>1, <1>6
    <3> QED
      BY <3>1, <3>2 DEF EntryOk
  <2>10. \A j \in UsedIn(O) :
          ~(e.resv /\ O[j].resv /\ O[j].sess = e.sess /\ O[j].pts = e.pts)
    BY <1>6, Zenon
  <2>11. IdsOk(O, lent, given, nextId)
    BY <2>4, <2>5, Zenon
  <2>12. [O EXCEPT ![o] = e] = outputs'
    BY <1>1, <1>2, <1>3 DEF Without, Tables
  <2> HIDE DEF m, given, O
  <2>13. IdsOk([O EXCEPT ![o] = e], lent, given \cup {Key(e)}, m)
    BY <1>1, <1>6, <2>1, <2>6, <2>7, <2>8, <2>9, <2>10, <2>11, IdAdded
  <2> QED
    BY <1>3, <1>5, <1>6, <2>12, <2>13, Zenon DEF m, given
<1>11. /\ frames' \in [Sessions -> SUBSET Pts] /\ nextId' = nextId + 1
       /\ Connected /\ nextResv' = nextResv
  BY <1>3, LendFrames, Zenon
<1>12. lent' \subseteq Given /\ told' \subseteq Given
  BY <1>1, <1>3 DEF Given
<1>13. Types'
  BY <1>7, <1>8, <1>11, <1>12, LendTypes, Zenon
<1> QED
  BY <1>3, <1>9, <1>10, <1>11, <1>13, Zenon DEF Inv

\* The worker forgets the entries of S, whose ids are those of X, with
\* their leases.
LEMMA RemovedInv ==
    ASSUME Inv, NEW S \in SUBSET UsedIn(outputs), NEW X,
           \A i \in UsedIn(outputs) : (Key(outputs[i]) \in X) = (i \in S),
           outputs' = Without(outputs, S), pool' \in Pools,
           pool'.lease = LeasesWithout(outputs, pool.lease, S),
           lent' = lent \ X, told' = told \ X,
           nextId' \in 1..(MaxId + 1), nextId' >= nextId, nextResv' = nextResv,
           upstream' \in BOOLEAN, connects' = (IF upstream' THEN 1 ELSE 0),
           frames' \in [Sessions -> SUBSET Pts]
    PROVE  Inv'
<1>1. /\ outputs \in Tables /\ pool \in Pools /\ pool.lease \in [Slots -> Nat]
      /\ nextId \in Nat /\ nextId' \in Nat
      /\ lent \in SUBSET Given /\ told \in SUBSET Given
  BY InvFacts, GatewayAssumption
<1>2. LeasesOk(outputs, pool.lease) /\ IdsOk(outputs, lent, told, nextId)
  BY Zenon DEF Inv
<1>3. LeasesOk(outputs', pool'.lease)
  BY <1>1, <1>2, LeaseRemoved
<1> DEFINE m == nextId'
<1>4. m \in Nat /\ m >= nextId
  BY <1>1
<1> HIDE DEF m
<1>5. IdsOk(Without(outputs, S), lent \ X, told \ X, m)
  BY <1>1, <1>2, <1>4, IdRemoved
<1>6. outputs' \in Tables
  BY <1>1, WithoutIs
<1>7. Types'
  BY <1>1, <1>6 DEF Inv, Types
<1> QED
  BY <1>3, <1>5, <1>7, Zenon DEF Inv, m

LEMMA PoolWithoutIs ==
    ASSUME Inv, NEW S
    PROVE  /\ PoolWithout(pool, S) \in Pools
           /\ PoolWithout(pool, S).lease = LeasesWithout(outputs, pool.lease, S)
<1> DEFINE T == {outputs[i].token : i \in S}
           l == [i \in Slots |-> IF pool.lease[i] # 0 /\ pool.lease[i] \in T
                                  THEN 0 ELSE pool.lease[i]]
           d == [i \in Slots |-> IF pool.lease[i] # 0 /\ pool.lease[i] \in T
                                  THEN NoDestination ELSE pool.dest[i]]
<1>1. pool \in Pools
  BY InvFacts
<1>2. l \in [Slots -> Nat] /\ d \in [Slots -> Destinations]
  BY <1>1, DestinationTypes DEF Pools
<1>3. PoolWithout(pool, S) = [pool EXCEPT !.lease = l, !.dest = d]
  BY DEF PoolWithout
<1>4. l = LeasesWithout(outputs, pool.lease, S)
  BY DEF LeasesWithout
<1> HIDE DEF l, d
<1>5. [pool EXCEPT !.lease = l, !.dest = d] \in Pools
      /\ [pool EXCEPT !.lease = l, !.dest = d].lease = l
  BY <1>1, <1>2 DEF Pools
<1> QED
  BY <1>3, <1>4, <1>5, Zenon

LEMMA ForgetIs == \A S : Forget(S) = Without(outputs, S)
  BY DEF Forget, Without

\* The entry of an id of the table.
LEMMA FoundIs ==
    ASSUME Inv, NEW s, NEW id
    PROVE  /\ find_output(s, id) \in SUBSET UsedIn(outputs)
           /\ \A i \in UsedIn(outputs) : (Key(outputs[i]) \in {<<s, id>>}) = (i \in find_output(s, id))
           /\ \A i \in find_output(s, id) : find_output(s, id) = {i}
<1>1. find_output(s, id) = {i \in UsedIn(outputs) : Key(outputs[i]) = <<s, id>>}
  BY InvFacts DEF find_output, Key
<1>2. \A i, j \in UsedIn(outputs) : Key(outputs[i]) = Key(outputs[j]) => i = j
  BY Zenon DEF Inv, IdsOk
<1> QED
  BY <1>1, <1>2

LEMMA GiveUpInv ==
    ASSUME Inv, NEW s \in Sessions, NEW p, nextId <= MaxId, GiveUp(s, p, TRUE, lent)
    PROVE  Inv'
<1> DEFINE S == find_reservation(s, p)
           X == {Key(outputs[i]) : i \in S}
<1>1. /\ outputs \in Tables /\ pool \in Pools /\ pool.lease \in [Slots -> Nat]
      /\ nextId \in Nat /\ Used = UsedIn(outputs)
  BY InvFacts
<1>2. S \in SUBSET UsedIn(outputs) /\ \A i \in S : outputs[i].resv /\ outputs[i].sess = s
  BY <1>1 DEF find_reservation
<1>3. \A i \in UsedIn(outputs) : (Key(outputs[i]) \in X) = (i \in S)
  <2>1. \A i, j \in UsedIn(outputs) : Key(outputs[i]) = Key(outputs[j]) => i = j
    BY Zenon DEF Inv, IdsOk
  <2> HIDE DEF S
  <2> QED
    BY <1>2, <2>1
<1> HIDE DEF S
<1>4. lent \ X = lent
  BY <1>2, ReservedIs
<1>5. X = {<<s, outputs[i].id>> : i \in S}
  BY <1>2 DEF Key
<1>6. outputs' = Without(outputs, S) /\ told' = told \ X /\ lent' = lent \ X
  BY <1>4, <1>5, ForgetIs, Zenon DEF GiveUp, S
<1>7. pool' \in Pools /\ pool'.lease = LeasesWithout(outputs, pool.lease, S)
  <2>1. CASE pool' = PoolWithout(pool, S)
    BY <2>1, PoolWithoutIs
  <2>2. CASE /\ S = {} /\ FreeSlot(pool) # {}
             /\ pool' = pool_discard(lease_acquire(pool), lease_acquire(pool).last)
    <3>1. pool' \in Pools /\ pool'.lease = pool.lease
      BY <1>1, <2>2, AcquireDiscard
    <3>2. LeasesWithout(outputs, pool.lease, S) = pool.lease
      BY <1>1, <2>2 DEF LeasesWithout
    <3> QED
      BY <3>1, <3>2, Zenon
  <2> QED
    BY <2>1, <2>2, Zenon DEF GiveUp, S
<1> HIDE DEF X
<1>8. /\ nextId' \in 1..(MaxId + 1) /\ nextId' >= nextId /\ nextResv' = nextResv
      /\ upstream' \in BOOLEAN /\ connects' = (IF upstream' THEN 1 ELSE 0)
      /\ frames' \in [Sessions -> SUBSET Pts]
  <2>1. /\ nextId' = nextId + 1 /\ nextResv' = nextResv /\ upstream' = TRUE
        /\ connects' = (IF upstream THEN connects ELSE connects + 1)
        /\ frames' = [frames EXCEPT ![s] = @ \ {p}]
    BY Zenon DEF GiveUp
  <2>2. /\ nextId \in 1..(MaxId + 1) /\ upstream \in BOOLEAN
        /\ connects = (IF upstream THEN 1 ELSE 0) /\ frames \in [Sessions -> SUBSET Pts]
    BY Zenon DEF Inv, Types
  <2>3. nextId' \in 1..(MaxId + 1) /\ nextId' >= nextId
    BY <2>1, <2>2, GatewayAssumption
  <2>4. connects' = 1
    BY <2>1, <2>2
  <2>5. frames' \in [Sessions -> SUBSET Pts]
    BY <2>1, <2>2
  <2> QED
    BY <2>1, <2>3, <2>4, <2>5
<1> QED
  BY <1>2, <1>3, <1>6, <1>7, <1>8, RemovedInv

\* A worker that begins has nothing leased and nothing lent.
LEMMA FreshInv == FreshWorker => Inv
<1> SUFFICES ASSUME FreshWorker PROVE Inv
  OBVIOUS
<1>1. /\ outputs = [i \in Slots |-> FreeOutput] /\ pool = EmptyPool
      /\ lent = {} /\ told = {} /\ nextId = 1
  BY DEF FreshWorker
<1>2. FreeOutput \in Entries /\ ~FreeOutput.used
  BY DEF FreeOutput, Entries
<1>3. outputs \in Tables /\ UsedIn(outputs) = {}
  BY <1>1, <1>2 DEF Tables, UsedIn
<1>4. pool \in Pools /\ pool.lease = [i \in Slots |-> 0]
  BY <1>1, DestinationTypes, GatewayAssumption DEF EmptyPool, Pools
<1>5. nextResv \in FirstResv..LastResv /\ nextId \in 1..(MaxId + 1)
  BY GatewayAssumption DEF FreshWorker, FirstResv, LastResv
<1>6. Types
  BY <1>1, <1>3, <1>4, <1>5 DEF FreshWorker, Types
<1>7. LeasesOk(outputs, pool.lease)
  BY <1>3, <1>4 DEF LeasesOk
<1>8. IdsOk(outputs, lent, told, nextId)
  BY <1>1, <1>3 DEF IdsOk
<1> QED
  BY <1>6, <1>7, <1>8, Zenon DEF Inv

LEMMA EndWorkerInv == EndWorker => Inv'
<1>1. EndWorker => FreshWorker'
  BY Zenon DEF EndWorker, FreshWorker
<1>2. FreshWorker' => Inv'
  BY FreshInv, PTL
<1> QED
  BY <1>1, <1>2, Zenon

LEMMA DequeueInv ==
    ASSUME Inv, NEW s \in Sessions, handle_dequeue(s)
    PROVE  Inv'
<1>1. CASE DequeueBytes(s)
  BY <1>1, DequeueBytesInv, Zenon
<1>2. ASSUME nextId <= MaxId, NEW p \in frames[s],
             handle_dequeue_qcom(s, p) \/ handle_dequeue_linear(s, p)
      PROVE  Inv'
  <2>1. CacheDirect(s, p) => Inv'
    BY <1>2, CacheDirectInv, Zenon
  <2>2. RepackPooled(s, p) => Inv'
    BY <1>2, RepackPooledInv, Zenon
  <2>3. find_reservation(s, p) # {} /\ RepackReserved(s, p) => Inv'
    BY <1>2, RepackReservedInv, Zenon
  <2> QED
    BY <1>2, <2>1, <2>2, <2>3, Zenon DEF handle_dequeue_qcom, handle_dequeue_linear
<1>3. ASSUME nextId <= MaxId, NEW p \in frames[s], NEW errno, NEW poisoned, NEW refused,
             FailOutput(s, p, errno, poisoned, refused)
      PROVE  Inv'
  <2>1. EndWorker \/ GiveUp(s, p, TRUE, lent)
    BY <1>3, Zenon DEF FailOutput
  <2> QED
    BY <1>3, <2>1, EndWorkerInv, GiveUpInv, Zenon
<1> QED
  BY <1>1, <1>2, <1>3, Zenon DEF handle_dequeue

\* A release takes the one lease that has the entry's token.
LEMMA PoolReleaseIs ==
    ASSUME Inv, NEW i \in UsedIn(outputs), NEW fence \in BOOLEAN,
           lease_find(pool, outputs[i].token) # 0
    PROVE  /\ pool_release(pool, outputs[i].token, fence) \in Pools
           /\ pool_release(pool, outputs[i].token, fence).lease
              = LeasesWithout(outputs, pool.lease, {i})
<1> DEFINE t == outputs[i].token
           k == lease_find(pool, t)
           d == [pool.dest[k] EXCEPT !.fenced = fence, !.dropped = @ \/ pool.dest[k].fenced]
           q == pool_release(pool, t, fence)
<1>1. pool \in Pools /\ pool.lease \in [Slots -> Nat]
  BY InvFacts
<1>2. t # 0 /\ k \in Slots /\ pool.lease[k] = t
  BY FindIn, Zenon
<1>3. q = Unleased(pool, k, d)
  BY Zenon DEF pool_release
<1>4. \A j \in Slots : pool.lease[j] = t => j = k
  BY <1>2 DEF Inv, LeasesOk
<1> HIDE DEF k
<1>5. d \in Destinations
  <2>1. pool.dest[k] \in Destinations
    BY <1>1, <1>2 DEF Pools
  <2> QED
    BY <2>1 DEF Destinations
<1> HIDE DEF d, q
<1>6. q \in Pools /\ q.lease = [pool.lease EXCEPT ![k] = 0]
  BY <1>1, <1>2, <1>3, <1>5, UnleasedIs
<1>7. {outputs[j].token : j \in {i}} = {t}
  OBVIOUS
<1> HIDE DEF t
<1>8. [pool.lease EXCEPT ![k] = 0]
      = [j \in Slots |-> IF pool.lease[j] # 0 /\ pool.lease[j] \in {t} THEN 0 ELSE pool.lease[j]]
  BY <1>1, <1>2, <1>4
<1>9. [pool.lease EXCEPT ![k] = 0] = LeasesWithout(outputs, pool.lease, {i})
  BY <1>7, <1>8, Zenon DEF LeasesWithout
<1> QED
  BY <1>6, <1>9, Zenon DEF q, t

LEMMA ConnectedIs ==
    ASSUME Inv, Connected
    PROVE  upstream' \in BOOLEAN /\ connects' = (IF upstream' THEN 1 ELSE 0)
  BY DEF Inv, Types, Connected

\* An output of the broker is in the table as a direct one or not at all.
LEMMA ReleaseRepackedInv ==
    ASSUME Inv, NEW s \in Sessions, NEW id, handle_release_repacked(s, id)
    PROVE  Inv'
<1>1. PICK i \in find_output(s, id) :
      /\ outputs[i].released /\ outputs' = Forget({i})
      /\ \/ \E fence \in BOOLEAN :
               /\ lease_find(pool, outputs[i].token) # 0
               /\ pool' = pool_release(pool, outputs[i].token, fence)
         \/ pool' = PoolWithout(pool, {i})
      /\ told' = told \ {<<s, id>>}
      /\ UNCHANGED <<nextResv, upstream, connects, frames, nextId, lent>>
  BY DEF handle_release_repacked
<1>2. /\ i \in UsedIn(outputs) /\ {i} \in SUBSET UsedIn(outputs)
      /\ \A j \in UsedIn(outputs) : (Key(outputs[j]) \in {<<s, id>>}) = (j \in {i})
      /\ Key(outputs[i]) = <<s, id>>
  BY FoundIs
<1>3. pool' \in Pools /\ pool'.lease = LeasesWithout(outputs, pool.lease, {i})
  BY <1>1, <1>2, PoolReleaseIs, PoolWithoutIs
<1>4. lent' = lent \ {<<s, id>>}
  <2>1. EntryOk(outputs[i], lent, told, nextId)
    BY <1>2, Zenon DEF Inv, IdsOk
  <2>2. <<s, id>> \notin lent
    BY <1>1, <1>2, <2>1, Zenon DEF EntryOk
  <2> QED
    BY <1>1, <2>2
<1>5. /\ nextId' \in 1..(MaxId + 1) /\ nextId' >= nextId /\ nextResv' = nextResv
      /\ upstream' \in BOOLEAN /\ connects' = (IF upstream' THEN 1 ELSE 0)
      /\ frames' \in [Sessions -> SUBSET Pts]
  BY <1>1, GatewayAssumption DEF Inv, Types
<1>6. outputs' = Without(outputs, {i})
  BY <1>1, ForgetIs, Zenon
<1> QED
  BY <1>1, <1>2, <1>3, <1>4, <1>5, <1>6, RemovedInv

LEMMA ReleaseDirectInv ==
    ASSUME Inv, NEW s \in Sessions, NEW id, handle_release_direct(s, id)
    PROVE  Inv'
<1> DEFINE S == find_output(s, id)
           X == {<<s, id>>}
<1>1. /\ S \in SUBSET UsedIn(outputs)
      /\ \A j \in UsedIn(outputs) : (Key(outputs[j]) \in X) = (j \in S)
  BY FoundIs
<1>2. /\ outputs' = Without(outputs, S) /\ pool' = PoolWithout(pool, S)
      /\ lent' = lent \ X /\ told' = told \ X /\ Connected
      /\ nextResv' = nextResv /\ frames' = frames /\ nextId' = nextId
  BY ForgetIs, Zenon DEF handle_release_direct, discard_output
<1> HIDE DEF S, X
<1>3. pool' \in Pools /\ pool'.lease = LeasesWithout(outputs, pool.lease, S)
  BY <1>2, PoolWithoutIs, Zenon
<1>4. nextId' \in 1..(MaxId + 1) /\ nextId' >= nextId /\ frames' \in [Sessions -> SUBSET Pts]
  BY <1>2, GatewayAssumption DEF Inv, Types
<1> QED
  BY <1>1, <1>2, <1>3, <1>4, ConnectedIs, RemovedInv

LEMMA FlushInv ==
    ASSUME Inv, NEW s \in Sessions, handle_flush_or_close(s)
    PROVE  Inv'
<1> DEFINE S == {i \in UsedIn(outputs) : outputs[i].sess = s}
           X == {x \in Given : x[1] = s}
<1>1. /\ outputs \in Tables /\ Used = UsedIn(outputs)
      /\ lent \in SUBSET Given /\ told \in SUBSET Given
  BY InvFacts
<1>2. ASSUME NEW j \in UsedIn(outputs) PROVE (Key(outputs[j]) \in X) = (j \in S)
  <2>1. Key(outputs[j]) \in Given
    <3>1. EntryOk(outputs[j], lent, told, nextId)
      BY Zenon DEF Inv, IdsOk
    <3> QED
      BY <1>1, <3>1 DEF EntryOk
  <2>2. Key(outputs[j])[1] = outputs[j].sess
    BY DEF Key
  <2> QED
    BY <2>1, <2>2
<1>3. lent \ OfSession(s, lent) = lent \ X /\ told \ OfSession(s, told) = told \ X
  BY <1>1 DEF OfSession
<1>4. /\ outputs' = Without(outputs, S) /\ pool' = PoolWithout(pool, S)
      /\ lent' = lent \ X /\ told' = told \ X /\ Connected
      /\ nextResv' = nextResv /\ frames' = [frames EXCEPT ![s] = Pts] /\ nextId' = nextId
  BY <1>1, <1>3, ForgetIs, Zenon DEF handle_flush_or_close, discard_output
<1>5. S \in SUBSET UsedIn(outputs)
  OBVIOUS
<1> HIDE DEF S, X
<1>6. pool' \in Pools /\ pool'.lease = LeasesWithout(outputs, pool.lease, S)
  BY <1>4, PoolWithoutIs, Zenon
<1>7. nextId' \in 1..(MaxId + 1) /\ nextId' >= nextId /\ frames' \in [Sessions -> SUBSET Pts]
  BY <1>4, GatewayAssumption DEF Inv, Types
<1> QED
  BY <1>2, <1>4, <1>5, <1>6, <1>7, ConnectedIs, RemovedInv

LEMMA ForwardInv == Inv /\ forward_request => Inv'
  BY ConnectedIs DEF forward_request, Inv, Types

LEMMA InitInv == Init => Inv
  BY FreshInv, Zenon DEF Init

LEMMA NextInv ==
    ASSUME Inv, [Next]_vars
    PROVE  Inv'
<1>1. CASE UNCHANGED vars
  BY <1>1 DEF vars, Inv, Types
<1>2. ASSUME NEW s \in Sessions, NEW p \in Pts, handle_reserve_linear(s, p)
      PROVE  Inv'
  BY <1>2, ReserveOkInv, ReserveFailsInv, Zenon DEF handle_reserve_linear
<1>3. ASSUME NEW s \in Sessions, handle_dequeue(s)
      PROVE  Inv'
  BY <1>3, DequeueInv, Zenon
<1>4. ASSUME NEW s \in Sessions, NEW id, handle_release_output(s, id)
      PROVE  Inv'
  BY <1>4, ReleaseRepackedInv, ReleaseDirectInv, Zenon DEF handle_release_output
<1>5. ASSUME NEW s \in Sessions, handle_flush_or_close(s)
      PROVE  Inv'
  BY <1>5, FlushInv, Zenon
<1>6. CASE forward_request
  BY <1>6, ForwardInv, Zenon
<1>7. CASE client_worker_ends
  BY <1>7, EndWorkerInv, Zenon DEF client_worker_ends
<1> QED
  BY <1>1, <1>2, <1>3, <1>4, <1>5, <1>6, <1>7, Zenon DEF Next

LEMMA Invariance == Spec => []Inv
  BY InitInv, NextInv, PTL DEF Spec
-----------------------------------------------------------------------------
(* What the invariant says of the leases, the broker and the client.       *)
LEMMA InvLeasesHeld == Inv => LeasesHeld
<1> SUFFICES ASSUME Inv PROVE LeasesHeld
  OBVIOUS
<1>1. /\ Used = UsedIn(outputs) /\ pool \in Pools /\ LeasesOk(outputs, pool.lease)
      /\ outputs \in Tables
  BY InvFacts DEF Inv
<1>2. ASSUME NEW i \in Slots, pool.lease[i] # 0
      PROVE  Cardinality({j \in Used : outputs[j].token = pool.lease[i]}) = 1
  <2>1. PICK j \in UsedIn(outputs) : outputs[j].token = pool.lease[i]
    BY <1>1, <1>2, Zenon DEF LeasesOk
  <2>2. \A k \in UsedIn(outputs) : outputs[k].token = pool.lease[i] => k = j
    BY <1>1, <1>2, <2>1, Zenon DEF LeasesOk
  <2>3. {k \in Used : outputs[k].token = pool.lease[i]} = {j}
    BY <1>1, <2>1, <2>2
  <2> QED
    BY <2>3, FS_Singleton, Zenon
<1>3. ASSUME NEW j \in Used
      PROVE  IF outputs[j].released THEN lease_find(pool, outputs[j].token) # 0
             ELSE outputs[j].token = 0
  <2>1. CASE outputs[j].released
    <3>1. outputs[j].token # 0
      BY <1>1, <1>3, <2>1, Zenon DEF LeasesOk
    <3>2. PICK k \in Slots : pool.lease[k] = outputs[j].token
      BY <1>1, <1>3, <2>1, Zenon DEF LeasesOk
    <3>3. \A l \in Slots : pool.lease[l] = outputs[j].token => l = k
      BY <1>1, <3>1, <3>2, Zenon DEF LeasesOk
    <3>4. outputs[j].token \in Nat \ {0} /\ k # 0
      BY <1>1, <1>3, <3>1 DEF Tables, Entries, UsedIn, Slots
    <3> QED
      BY <1>1, <2>1, <3>2, <3>3, <3>4, LeaseFound
  <2>2. CASE ~outputs[j].released
    BY <1>1, <1>3, <2>2, Zenon DEF LeasesOk
  <2> QED
    BY <2>1, <2>2, Zenon
<1> QED
  BY <1>2, <1>3, Zenon DEF LeasesHeld

LEMMA InvNothingStuck == Inv => NothingStuckUpstream
<1> SUFFICES ASSUME Inv PROVE NothingStuckUpstream
  OBVIOUS
<1>1. Used = UsedIn(outputs) /\ IdsOk(outputs, lent, told, nextId)
  BY InvFacts DEF Inv
<1>2. \A i \in Used : EntryOk(outputs[i], lent, told, nextId)
  BY <1>1, Zenon DEF IdsOk
<1> QED
  BY <1>1, <1>2, Zenon DEF NothingStuckUpstream, IdsOk, EntryOk, Key

LEMMA InvGivenResolves == Inv => GivenResolves
<1> SUFFICES ASSUME Inv PROVE GivenResolves
  OBVIOUS
<1>1. Used = UsedIn(outputs) /\ IdsOk(outputs, lent, told, nextId) /\ told \in SUBSET Given
  BY InvFacts DEF Inv
<1>2. connects <= 1
  BY DEF Inv, Types
<1>3. ASSUME NEW x \in told
      PROVE  \/ Cardinality(find_output(x[1], x[2])) = 1
             \/ find_output(x[1], x[2]) = {} /\ x \in lent
  <2>1. CASE find_output(x[1], x[2]) = {}
    <3>1. x = <<x[1], x[2]>>
      BY <1>1 DEF Given
    <3>2. \A i \in UsedIn(outputs) : Key(outputs[i]) # x
      BY <2>1, <3>1, FoundIs
    <3> QED
      BY <1>1, <2>1, <3>2, Zenon DEF IdsOk
  <2>2. CASE find_output(x[1], x[2]) # {}
    <3>1. PICK i \in find_output(x[1], x[2]) : TRUE
      BY <2>2
    <3>2. find_output(x[1], x[2]) = {i}
      BY FoundIs
    <3> QED
      BY <3>2, FS_Singleton, Zenon
  <2> QED
    BY <2>1, <2>2, Zenon
<1>4. \A i \in Used : <<outputs[i].sess, outputs[i].id>> \in told
  BY <1>1, Zenon DEF IdsOk, EntryOk, Key
<1>5. ASSUME NEW s \in Sessions, NEW p \in Pts
      PROVE  Cardinality(find_reservation(s, p)) <= 1
  <2>1. CASE find_reservation(s, p) = {}
    BY <2>1, FS_EmptySet
  <2>2. CASE find_reservation(s, p) # {}
    <3>1. PICK i \in find_reservation(s, p) : TRUE
      BY <2>2
    <3>2. \A j \in find_reservation(s, p) : j = i
      BY <1>1, <3>1 DEF find_reservation, IdsOk
    <3>3. find_reservation(s, p) = {i}
      BY <3>2
    <3>4. Cardinality({i}) = 1
      BY FS_Singleton, Zenon
    <3> QED
      BY <3>3, <3>4
  <2> QED
    BY <2>1, <2>2, Zenon
<1> QED
  BY <1>2, <1>3, <1>4, <1>5, Zenon DEF GivenResolves

(* No destination leaks, for any number of slots and sessions and however  *)
(* the token counter wraps: each lease of the repack pool is the lease of  *)
(* exactly one entry of the worker's table, after every failure, release,  *)
(* flush and close of repack_gateway.c.                                    *)
THEOREM LeasesHeldCorrect == Spec => []LeasesHeld
  BY Invariance, InvLeasesHeld, PTL

(* The broker never has out an output that the client was not given, and   *)
(* what was copied was returned to it: fail_output and the repack path of  *)
(* handle_dequeue leave nothing in the broker's window.                    *)
THEOREM NothingStuckUpstreamCorrect == Spec => []NothingStuckUpstream
  BY Invariance, InvNothingStuck, PTL

(* What the client was given it can resolve: by one entry of the table or  *)
(* as an output of the broker, on the one connection the worker made, also *)
(* after the reservation ids have wrapped.                                 *)
THEOREM GivenResolvesCorrect == Spec => []GivenResolves
  BY Invariance, InvGivenResolves, PTL
=============================================================================
