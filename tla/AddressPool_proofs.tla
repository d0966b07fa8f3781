------------------------- MODULE AddressPool_proofs -------------------------
(***************************************************************************)
(* Proofs that the address pools keep the invariants of AddressPool for    *)
(* any set of connections, IDs and ranges.                                 *)
(***************************************************************************)
EXTENDS AddressPool_lease

(***************************************************************************)
(* Deleting a connection.                                                  *)
(***************************************************************************)

\* The lease that an instance releases is there and has enough references.
LEMMA ReleasePasserts ==
  ASSUME Inv, NEW c \in Conns, kind[c] # "FREE", has_lease[c],
         NEW r \in Ranges, pool[c] = r
  PROVE  /\ RelPasserts(c)
         /\ LeaseIndex(c) \in Indexes(r)
         /\ c \in Holders(r, LeaseIndex(c))
         /\ LeaseIndex(c) \in DOMAIN leases[r]
         /\ leases[r][LeaseIndex(c)] \in Lease
         /\ leases[r][LeaseIndex(c)].thatid = thatid[c]
<1> DEFINE i == LeaseIndex(c)
<1>1. i \in Indexes(r)
  BY DEF Inv, ConnsOK
<1>2. c \in Holders(r, i)
  BY RangeFacts DEF Holders, Holds, LeaseIndex, Inv, TypeOK
<1>3. /\ i \in DOMAIN leases[r]
      /\ leases[r][i].thatid = thatid[c]
      /\ leases[r][i].refcnt >= Cardinality(Holders(r, i))
  BY <1>1, <1>2 DEF Inv, LeasesCoverHolders
<1>4. leases[r][i] \in Lease
  BY <1>3 DEF Inv, TypeOK
<1>5. Cardinality(Holders(r, i)) \in Nat \ {0}
  <2>1. IsFiniteSet(Holders(r, i)) /\ Cardinality(Holders(r, i)) \in Nat
    BY FiniteConns DEF Holders
  <2> QED
    BY <1>2, <2>1, CardZero
<1>6. leases[r][i].refcnt > 0
  BY <1>3, <1>4, <1>5 DEF Lease
<1>7. ~ could_share_lease(c) => leases[r][i].refcnt = 1
  BY <1>3 DEF could_share_lease, Inv, LeaseIdsOK
<1>8. RelPasserts(c)
  BY <1>3, <1>6, <1>7 DEF RelPasserts
<1> QED
  BY <1>1, <1>2, <1>3, <1>4, <1>8

LEMMA DeleteNoFault ==
  ASSUME Inv, NEW c \in Conns, kind[c] # "FREE"
  PROVE  DeleteFault(c) = "none"
<1>1. CASE pool[c] = NoPool
  BY <1>1 DEF DeleteFault
<1>2. CASE pool[c] # NoPool
  <2>1. pool[c] \in Ranges
    BY <1>2 DEF Inv, TypeOK
  <2>2. Releases(c) => RelPasserts(c)
    BY <2>1, ReleasePasserts DEF Releases
  <2>3. refcount[pool[c]] > 0
    <3>1. c \in Users(pool[c])
      BY DEF Users
    <3>2. IsFiniteSet(Users(pool[c])) /\ Cardinality(Users(pool[c])) \in Nat
      BY FiniteConns DEF Users
    <3> QED
      BY <2>1, <3>1, <3>2, CardZero DEF Inv, PoolRefcounts
  <2> QED
    BY <1>2, <2>2, <2>3 DEF DeleteFault
<1> QED
  BY <1>1, <1>2

\* The connection is forgotten: it uses no pool and holds no address.
LEMMA ForgetFacts ==
  ASSUME Inv, NEW c \in Conns, Forget(c)
  PROVE  /\ kind' \in [Conns -> Kinds] /\ thatid' \in [Conns -> AllIds]
         /\ pool' \in [Conns -> Ranges \cup {NoPool}]
         /\ has_lease' \in [Conns -> BOOLEAN] /\ client' \in [Conns -> Int]
         /\ ConnsOK'
         /\ \A r \in Ranges : Users(r)' = Users(r) \ {c}
         /\ \A r \in Ranges : \A i \in Indexes(r) :
              Holders(r, i)' = Holders(r, i) \ {c}
         /\ \A d \in Conns \ {c} : thatid'[d] = thatid[d]
<1>1. /\ kind' \in [Conns -> Kinds] /\ thatid' \in [Conns -> AllIds]
      /\ pool' \in [Conns -> Ranges \cup {NoPool}]
      /\ client' \in [Conns -> Int]
  BY DEF Inv, TypeOK, Forget, Kinds, AllIds, NoAddress
<1>2. has_lease' \in [Conns -> BOOLEAN]
  BY DEF Inv, TypeOK, Forget
<1>3. /\ kind'[c] = "FREE" /\ ~ has_lease'[c] /\ pool'[c] = NoPool
      /\ \A d \in Conns \ {c} :
           /\ kind'[d] = kind[d] /\ has_lease'[d] = has_lease[d]
           /\ pool'[d] = pool[d] /\ client'[d] = client[d]
           /\ thatid'[d] = thatid[d]
  BY DEF Inv, TypeOK, Forget
<1>4. ConnsOK'
  BY <1>3 DEF Inv, ConnsOK, LeaseIndex
<1>5. \A r \in Ranges : Users(r)' = Users(r) \ {c}
  BY <1>3 DEF Users
<1>6. \A r \in Ranges : \A i \in Indexes(r) :
        Holders(r, i)' = Holders(r, i) \ {c}
  BY <1>3 DEF Holders, Holds
<1> QED
  BY <1>1, <1>2, <1>3, <1>4, <1>5, <1>6

\* The users of c's pool are counted after c has given up its reference.
LEMMA OneUserLess ==
  ASSUME Inv, NEW c \in Conns, kind[c] # "FREE", Forget(c),
         NEW r \in Ranges, pool[c] = r,
         refcount' = [refcount EXCEPT ![r] = @ - 1],
         pools' = IF refcount[r] = 1 THEN pools \ {r} ELSE pools
  PROVE  /\ PoolRefcounts' /\ PoolsOK'
         /\ pools' \subseteq Ranges /\ refcount' \in [Ranges -> Nat]
         /\ refcount[r] = 1 => Users(r)' = {}
<1>1. /\ c \in Users(r)
      /\ \A s \in Ranges \ {r} : c \notin Users(s)
  BY DEF Users
<1>2. \A s \in Ranges : Users(s)' = Users(s) \ {c}
  BY ForgetFacts
<1>3. \A s \in Ranges : IsFiniteSet(Users(s)) /\ Cardinality(Users(s)) \in Nat
  BY FiniteConns DEF Users
<1>4. Cardinality(Users(r)') = Cardinality(Users(r)) - 1
  BY <1>1, <1>2, <1>3, CardRemove
<1>5. \A s \in Ranges \ {r} : Users(s)' = Users(s)
  BY <1>1, <1>2
<1>6. IsFiniteSet(Users(r)') /\ Cardinality(Users(r)') \in Nat
  BY FiniteConns DEF Users
<1>7. Cardinality(Users(r)') = 0 <=> Users(r)' = {}
  BY <1>6, CardZero
<1>8. refcount \in [Ranges -> Nat] /\ refcount[r] = Cardinality(Users(r))
  BY DEF Inv, TypeOK, PoolRefcounts
<1>9. refcount'[r] = Cardinality(Users(r)')
  BY <1>4, <1>8
<1>10. \A s \in Ranges : refcount'[s] = Cardinality(Users(s)')
  BY <1>5, <1>8, <1>9 DEF Inv, PoolRefcounts
<1>11. refcount' \in [Ranges -> Nat]
  BY <1>6, <1>8, <1>9
<1>12. refcount[r] = 1 <=> Users(r)' = {}
  BY <1>3, <1>4, <1>6, <1>7, <1>8
<1>13. \A s \in Ranges : s \in pools' <=> Users(s)' # {}
  <2>1. r \in pools' <=> Users(r)' # {}
    BY <1>1, <1>12 DEF Inv, PoolRefcounts
  <2>2. \A s \in Ranges \ {r} : s \in pools' <=> Users(s)' # {}
    BY <1>5 DEF Inv, PoolRefcounts
  <2> QED
    BY <2>1, <2>2
<1>14. pools' \subseteq Ranges /\ PoolsOK'
  BY SMTT(60) DEF Inv, TypeOK, PoolsOK
<1> QED
  BY <1>10, <1>11, <1>12, <1>13, <1>14 DEF PoolRefcounts

\* What LeasesCoverHolders says of connection d and index j of pool s.
Covered(d, s, j) ==
  /\ j \in DOMAIN leases[s]
  /\ leases[s][j].thatid = thatid[d]
  /\ leases[s][j].refcnt >= Cardinality(Holders(s, j))

\* A lease that the deletion of c leaves alone still covers its holders.
LEMMA CoverKept ==
  ASSUME Inv, NEW c \in Conns, Forget(c), NEW s \in Ranges,
         NEW j \in Indexes(s),
         j \in DOMAIN leases[s] =>
           j \in DOMAIN leases'[s] /\ leases'[s][j] = leases[s][j],
         NEW d \in Holders(s, j)'
  PROVE  Covered(d, s, j)'
<1>1. /\ Holders(s, j)' = Holders(s, j) \ {c}
      /\ thatid'[d] = thatid[d]
  BY ForgetFacts DEF Holders
<1>2. Covered(d, s, j)
  BY <1>1 DEF Inv, LeasesCoverHolders, Covered
<1>3. /\ IsFiniteSet(Holders(s, j)) /\ Cardinality(Holders(s, j)) \in Nat
      /\ Cardinality(Holders(s, j)') \in Nat
  BY FiniteConns DEF Holders
<1>4. Cardinality(Holders(s, j)') <= Cardinality(Holders(s, j))
  BY <1>1, <1>3, FS_Subset
<1>5. leases[s][j].refcnt \in Nat
  BY <1>2 DEF Covered, Inv, TypeOK, Lease
<1> QED
  BY <1>1, <1>2, <1>3, <1>4, <1>5 DEF Covered

\* What the deletion of c has to leave true of the leases.
LeasesOK ==
  /\ leases = [r \in Ranges |-> leases[r]]
  /\ \A r \in Ranges : /\ DOMAIN leases[r] \subseteq Indexes(r)
                       /\ leases[r] \in [DOMAIN leases[r] -> Lease]
  /\ lingering \in [Ranges -> Int]
  /\ LeaseIdsOK /\ LeasesCoverHolders /\ LingeringCounts

\* The last user goes: the pool is freed with its leases.
LEMMA DeleteLastUser ==
  ASSUME Inv, NEW c \in Conns, Forget(c), NEW r \in Ranges,
         Users(r)' = {},
         leases' = [leases EXCEPT ![r] = Empty],
         lingering' = [lingering EXCEPT ![r] = 0]
  PROVE  LeasesOK'
<1>1. /\ leases' = [s \in Ranges |-> leases'[s]]
      /\ leases'[r] = Empty /\ DOMAIN leases'[r] = {}
      /\ \A s \in Ranges \ {r} : leases'[s] = leases[s]
  BY SMTT(60) DEF Inv, TypeOK, Empty
<1>2. \A j \in Indexes(r) : Holders(r, j)' = {}
  BY DEF Users, Holders, Holds
<1>3. LeasesCoverHolders'
  BY <1>1, <1>2, CoverKept DEF LeasesCoverHolders, Covered
<1>4. LeaseIdsOK'
  BY <1>1 DEF Inv, LeaseIdsOK
<1>5. \A s \in Ranges : /\ DOMAIN leases'[s] \subseteq Indexes(s)
                        /\ leases'[s] \in [DOMAIN leases'[s] -> Lease]
  <2>1. Empty \in [{} -> Lease]
    BY DEF Empty
  <2> QED
    BY <1>1, <2>1 DEF Inv, TypeOK
<1>6. LingeringCounts' /\ lingering' \in [Ranges -> Int]
  <2>1. Lingerers(r)' = {} /\ \A s \in Ranges \ {r} : Lingerers(s)' = Lingerers(s)
    BY <1>1 DEF Lingerers
  <2>2. lingering \in [Ranges -> Int]
    BY DEF Inv, TypeOK
  <2>3. lingering'[r] = Cardinality(Lingerers(r)')
    BY <2>1, <2>2, FS_EmptySet
  <2>4. \A s \in Ranges \ {r} : lingering'[s] = Cardinality(Lingerers(s)')
    BY <2>1, <2>2 DEF Inv, LingeringCounts
  <2> QED
    BY <2>2, <2>3, <2>4 DEF LingeringCounts
<1> QED
  BY <1>1, <1>3, <1>4, <1>5, <1>6 DEF LeasesOK

\* No lease is released.
LEMMA DeleteKeepsLeases ==
  ASSUME Inv, NEW c \in Conns, Forget(c), UNCHANGED <<leases, lingering>>
  PROVE  LeasesOK'
<1>1. LeasesCoverHolders'
  BY CoverKept DEF LeasesCoverHolders, Covered
<1>2. LeaseIdsOK' /\ LingeringCounts'
  BY DEF Inv, LeaseIdsOK, LingeringCounts, Lingerers
<1> QED
  BY <1>1, <1>2 DEF LeasesOK, Inv, TypeOK

\* A lease of an anonymous peer is taken off the list: nobody else held it.
LEMMA DeleteFreesLease ==
  ASSUME Inv, NEW c \in Conns, kind[c] # "FREE", has_lease[c], Forget(c),
         NEW r \in Ranges, pool[c] = r, ~ could_share_lease(c),
         leases' = [leases EXCEPT ![r] =
                      [j \in DOMAIN leases[r] \ {LeaseIndex(c)} |->
                         leases[r][j]]],
         UNCHANGED lingering
  PROVE  LeasesOK'
<1>0. PICK i : i = LeaseIndex(c)
  OBVIOUS
<1>1. /\ RelPasserts(c) /\ i \in Indexes(r) /\ c \in Holders(r, i)
      /\ i \in DOMAIN leases[r] /\ leases[r][i] \in Lease
  BY <1>0, ReleasePasserts
<1>2. leases[r][i].refcnt = 1
  BY <1>0, <1>1 DEF RelPasserts
<1>3. /\ leases' = [s \in Ranges |-> leases'[s]]
      /\ DOMAIN leases'[r] = DOMAIN leases[r] \ {i}
      /\ \A j \in DOMAIN leases'[r] : leases'[r][j] = leases[r][j]
      /\ leases'[r] \in [DOMAIN leases'[r] -> Lease]
      /\ \A s \in Ranges \ {r} : leases'[s] = leases[s]
  BY <1>0 DEF Inv, TypeOK
<1>4. Holders(r, i)' = {}
  <2>1. /\ IsFiniteSet(Holders(r, i)) /\ Cardinality(Holders(r, i)) \in Nat
        /\ IsFiniteSet(Holders(r, i)') /\ Cardinality(Holders(r, i)') \in Nat
    BY FiniteConns DEF Holders
  <2>2. Cardinality(Holders(r, i)) <= 1
    BY <1>1, <1>2, <2>1 DEF Inv, LeasesCoverHolders
  <2>3. Cardinality(Holders(r, i)') = Cardinality(Holders(r, i)) - 1
    BY <1>1, <2>1, ForgetFacts, CardRemove
  <2> QED
    BY <2>1, <2>2, <2>3, CardZero
<1>5. LeasesCoverHolders'
  <2>1. ASSUME NEW s \in Ranges, NEW j \in Indexes(s), NEW d \in Holders(s, j)'
        PROVE  Covered(d, s, j)'
    <3>1. s # r \/ j # i
      BY <1>4, <2>1
    <3>2. j \in DOMAIN leases[s] =>
            j \in DOMAIN leases'[s] /\ leases'[s][j] = leases[s][j]
      <4>1. CASE s # r
        BY <1>3, <4>1
      <4>2. CASE s = r
        BY <1>3, <3>1, <4>2
      <4> QED
        BY <4>1, <4>2
    <3> QED
      BY <3>2, CoverKept
  <2> QED
    BY <2>1 DEF LeasesCoverHolders, Covered
<1>6. LeaseIdsOK'
  BY <1>3 DEF Inv, LeaseIdsOK
<1>7. LingeringCounts'
  <2>1. \A s \in Ranges : Lingerers(s)' = Lingerers(s)
    <3>1. \A s \in Ranges \ {r} : Lingerers(s)' = Lingerers(s)
      BY <1>3 DEF Lingerers
    <3>2. Lingerers(r)' = Lingerers(r)
      BY <1>2, <1>3 DEF Lingerers
    <3> QED
      BY <3>1, <3>2
  <2> QED
    BY <2>1 DEF Inv, LingeringCounts
<1> QED
  BY <1>3, <1>5, <1>6, <1>7 DEF LeasesOK, Inv, TypeOK

\* A lease of a named peer that changes its count keeps the leases' peers apart.
LEMMA RecountKeepsIds ==
  ASSUME NEW r \in Ranges, NEW i \in DOMAIN leases[r], LeaseIdsOK,
         \A s \in Ranges \ {r} : leases'[s] = leases[s],
         DOMAIN leases'[r] = DOMAIN leases[r],
         leases'[r][i].thatid = leases[r][i].thatid,
         leases[r][i].thatid # NullId,
         \A j \in DOMAIN leases[r] \ {i} : leases'[r][j] = leases[r][j]
  PROVE  LeaseIdsOK'
<1>1. \A s \in Ranges : /\ DOMAIN leases'[s] = DOMAIN leases[s]
                       /\ \A j \in DOMAIN leases[s] :
                            leases'[s][j].thatid = leases[s][j].thatid
  OBVIOUS
<1>2. \A s \in Ranges : \A j \in DOMAIN leases'[s] :
        leases'[s][j].thatid = NullId => leases'[s][j].refcnt = 1
  BY DEF LeaseIdsOK
<1>3. \A s \in Ranges : \A j, k \in DOMAIN leases'[s] :
        leases'[s][j].thatid = leases'[s][k].thatid /\ j # k
          => leases'[s][j].thatid = NullId
  BY <1>1 DEF LeaseIdsOK
<1> QED
  BY <1>2, <1>3 DEF LeaseIdsOK

\* One lease of a pool starts to linger, if its count goes to zero.
LEMMA RecountLingers ==
  ASSUME LingeringCounts, lingering \in [Ranges -> Int],
         NEW r \in Ranges, NEW i \in DOMAIN leases[r], NEW n \in {0, 1},
         IsFiniteSet(Lingerers(r)), Cardinality(Lingerers(r)) \in Nat,
         \A s \in Ranges \ {r} : leases'[s] = leases[s],
         DOMAIN leases'[r] = DOMAIN leases[r],
         \A j \in DOMAIN leases[r] \ {i} : leases'[r][j] = leases[r][j],
         leases[r][i].refcnt # 0, leases'[r][i].refcnt = 0 <=> n = 1,
         lingering' = [lingering EXCEPT ![r] = lingering[r] + n]
  PROVE  LingeringCounts' /\ lingering' \in [Ranges -> Int]
<1>1. \A s \in Ranges \ {r} : Lingerers(s)' = Lingerers(s)
  BY DEF Lingerers
<1>2. i \notin Lingerers(r)
  BY DEF Lingerers
<1>3. Lingerers(r)' = IF n = 1 THEN Lingerers(r) \cup {i} ELSE Lingerers(r)
  BY DEF Lingerers
<1>4. Cardinality(Lingerers(r)') = Cardinality(Lingerers(r)) + n
  BY <1>2, <1>3, CardAdd
<1>5. lingering' \in [Ranges -> Int] /\ lingering'[r] = lingering[r] + n
      /\ \A s \in Ranges \ {r} : lingering'[s] = lingering[s]
  OBVIOUS
<1> HIDE DEF Lingerers
<1>6. \A s \in Ranges : lingering'[s] = Cardinality(Lingerers(s)')
  BY <1>1, <1>4, <1>5 DEF LingeringCounts
<1> QED
  BY <1>5, <1>6 DEF LingeringCounts

\* A shared lease loses c's reference, and lingers if that was the last one.
LEMMA DeleteLeavesLease ==
  ASSUME Inv, NEW c \in Conns, kind[c] # "FREE", has_lease[c], Forget(c),
         NEW r \in Ranges, pool[c] = r, could_share_lease(c),
         NEW i \in Indexes(r), i = LeaseIndex(c), NEW l \in Lease,
         NEW n \in {0, 1}, n = 1 <=> leases[r][i].refcnt = 1,
         leases' = WithLease(r, i, l),
         l.thatid = leases[r][i].thatid,
         l.refcnt = leases[r][i].refcnt - 1,
         lingering' = [lingering EXCEPT ![r] = lingering[r] + n]
  PROVE  LeasesOK'
<1>1. /\ RelPasserts(c) /\ i \in Indexes(r) /\ c \in Holders(r, i)
      /\ i \in DOMAIN leases[r] /\ leases[r][i] \in Lease
      /\ leases[r][i].thatid = thatid[c]
  BY ReleasePasserts
<1>2. leases[r][i].refcnt \in Nat \ {0}
  BY <1>1 DEF RelPasserts, Lease
<1>4. /\ leases' = [s \in Ranges |-> leases'[s]]
      /\ \A s \in Ranges \ {r} : leases'[s] = leases[s]
      /\ DOMAIN leases'[r] = DOMAIN leases[r]
      /\ leases'[r][i] = l
      /\ \A j \in DOMAIN leases[r] \ {i} : leases'[r][j] = leases[r][j]
      /\ \A s \in Ranges : /\ DOMAIN leases'[s] \subseteq Indexes(s)
                           /\ leases'[s] \in [DOMAIN leases'[s] -> Lease]
  <2>1. DOMAIN leases[r] \cup {i} = DOMAIN leases[r]
    BY <1>1
  <2>2. DOMAIN leases'[r] = DOMAIN leases[r] \cup {i}
    BY WithLeaseFacts
  <2>3. /\ leases' = [s \in Ranges |-> leases'[s]]
        /\ \A s \in Ranges \ {r} : leases'[s] = leases[s]
        /\ leases'[r][i] = l
    BY WithLeaseFacts
  <2>4. \A j \in DOMAIN leases[r] \ {i} : leases'[r][j] = leases[r][j]
    BY WithLeaseFacts
  <2>5. \A s \in Ranges : /\ DOMAIN leases'[s] \subseteq Indexes(s)
                          /\ leases'[s] \in [DOMAIN leases'[s] -> Lease]
    BY WithLeaseFacts
  <2> QED
    BY <2>1, <2>2, <2>3, <2>4, <2>5
<1>5. LeasesCoverHolders'
  <2>1. ASSUME NEW s \in Ranges, NEW j \in Indexes(s),
               NEW d \in Holders(s, j)', s # r \/ j # i
        PROVE  Covered(d, s, j)'
    BY <1>4, <2>1, CoverKept
  <2>2. ASSUME NEW d \in Holders(r, i)'
        PROVE  Covered(d, r, i)'
    <3>1. Holders(r, i)' = Holders(r, i) \ {c} /\ thatid'[d] = thatid[d]
      BY <1>1, <2>2, ForgetFacts DEF Holders
    <3>2. Covered(d, r, i)
      BY <1>1, <2>2, <3>1 DEF Inv, LeasesCoverHolders, Covered
    <3>3. IsFiniteSet(Holders(r, i)) /\ Cardinality(Holders(r, i)) \in Nat
      BY FiniteConns DEF Holders
    <3>4. Cardinality(Holders(r, i)') = Cardinality(Holders(r, i)) - 1
      BY <1>1, <3>1, <3>3, CardRemove
    <3>5. /\ i \in DOMAIN leases'[r] /\ leases'[r][i].thatid = thatid'[d]
          /\ leases'[r][i].refcnt = leases[r][i].refcnt - 1
      BY <1>1, <1>4, <3>1, <3>2 DEF Covered
    <3>6. leases[r][i].refcnt >= Cardinality(Holders(r, i))
      BY <3>2 DEF Covered
    <3>7. leases'[r][i].refcnt >= Cardinality(Holders(r, i)')
      BY <1>2, <3>3, <3>4, <3>5, <3>6
    <3> QED
      BY <3>5, <3>7 DEF Covered
  <2> QED
    BY <1>1, <2>1, <2>2 DEF LeasesCoverHolders, Covered
<1>6. LeaseIdsOK'
  <2>1. /\ leases[r][i].thatid # NullId
        /\ leases'[r][i].thatid = leases[r][i].thatid
    BY <1>1, <1>4 DEF could_share_lease
  <2>2. LeaseIdsOK
    BY DEF Inv
  <2> QED
    BY <1>1, <1>4, <2>1, <2>2, RecountKeepsIds
<1>7. LingeringCounts' /\ lingering' \in [Ranges -> Int]
  <2>1. IsFiniteSet(Lingerers(r)) /\ Cardinality(Lingerers(r)) \in Nat
    <3>1. Lingerers(r) \subseteq Indexes(r)
      BY DEF Lingerers, Inv, TypeOK
    <3> QED
      BY <3>1, RangeFacts, FS_Subset, FS_CardinalityType
  <2>2. LingeringCounts /\ lingering \in [Ranges -> Int]
    BY DEF Inv, TypeOK
  <2>3. leases'[r][i].refcnt = leases[r][i].refcnt - 1
    BY <1>4
  <2>4. leases[r][i].refcnt # 0 /\ (leases'[r][i].refcnt = 0 <=> n = 1)
    BY <1>2, <2>3
  <2>5. /\ i \in DOMAIN leases[r] /\ DOMAIN leases'[r] = DOMAIN leases[r]
        /\ \A s \in Ranges \ {r} : leases'[s] = leases[s]
        /\ \A j \in DOMAIN leases[r] \ {i} : leases'[r][j] = leases[r][j]
    BY <1>1, <1>4
  <2> QED
    BY ZenonT(30), <2>1, <2>2, <2>4, <2>5, RecountLingers
<1> QED
  BY <1>4, <1>5, <1>6, <1>7 DEF LeasesOK

\* The lease lists after the deletion of a connection that has a pool.
LEMMA DeleteLeases ==
  ASSUME Inv, NEW c \in Conns, kind[c] # "FREE", Forget(c),
         NEW r \in Ranges, pool[c] = r,
         refcount[r] = 1 => Users(r)' = {},
         unreference_addresspool(c, AfterRelease(c))
  PROVE  LeasesOK' /\ used' \in [Ranges -> Int]
<1>1. /\ leases = [s \in Ranges |-> leases[s]]
      /\ lingering \in [Ranges -> Int] /\ used \in [Ranges -> Int]
  BY DEF Inv, TypeOK
<1>2. used' \in [Ranges -> Int]
  BY <1>1 DEF unreference_addresspool, AfterRelease, rel_lease_addr
<1>3. CASE refcount[r] = 1
  <2>1. /\ leases' = [leases EXCEPT ![r] = Empty]
        /\ lingering' = [lingering EXCEPT ![r] = 0]
    BY <1>3 DEF unreference_addresspool
  <2> QED
    BY Zenon, <1>2, <1>3, <2>1, DeleteLastUser
<1>4. CASE refcount[r] # 1
  <2>1. /\ leases' = [leases EXCEPT ![r] = AfterRelease(c).leases]
        /\ lingering' = [lingering EXCEPT ![r] = AfterRelease(c).lingering]
    BY <1>4 DEF unreference_addresspool
  <2>2. CASE ~ Releases(c)
    <3>1. AfterRelease(c).leases = leases[r]
          /\ AfterRelease(c).lingering = lingering[r]
      BY <2>2 DEF AfterRelease
    <3>2. UNCHANGED <<leases, lingering>>
      BY <1>1, <2>1, <3>1
    <3> QED
      BY <1>2, <3>2, DeleteKeepsLeases
  <2>3. CASE Releases(c)
    <3>0. PICK i \in Indexes(r) : i = LeaseIndex(c)
      BY <2>3, ReleasePasserts DEF Releases
    <3>1. /\ has_lease[c] /\ RelPasserts(c)
          /\ i \in DOMAIN leases[r] /\ leases[r][i] \in Lease
      BY <2>3, <3>0, ReleasePasserts DEF Releases
    <3>2. CASE ~ could_share_lease(c)
      <4>1. /\ AfterRelease(c).leases =
                 [j \in DOMAIN leases[r] \ {LeaseIndex(c)} |-> leases[r][j]]
            /\ AfterRelease(c).lingering = lingering[r]
        BY <2>3, <3>2 DEF AfterRelease, rel_lease_addr
      <4>2. /\ leases' = [leases EXCEPT ![r] =
                 [j \in DOMAIN leases[r] \ {LeaseIndex(c)} |-> leases[r][j]]]
            /\ UNCHANGED lingering
        BY SMTT(30), <1>1, <2>1, <4>1
      <4> QED
        BY Zenon, <1>2, <3>1, <3>2, <4>2, DeleteFreesLease
    <3>3. CASE could_share_lease(c)
      <4> DEFINE l == LeaseFor(leases[r][i].thatid, leases[r][i].refcnt - 1,
                               IF leases[r][i].refcnt = 1 THEN now
                                 ELSE leases[r][i].since)
             n == IF leases[r][i].refcnt = 1 THEN 1 ELSE 0
      <4>1. /\ AfterRelease(c).leases = WithLease(r, i, l)[r]
            /\ AfterRelease(c).lingering = lingering[r] + n
        BY ZenonT(30), <2>3, <3>0, <3>3 DEF AfterRelease, rel_lease_addr
      <4>2. leases[r][i].refcnt \in Nat \ {0}
        BY <3>0, <3>1, <3>3 DEF RelPasserts, Lease
      <4>3. now \in Nat
        BY BoundsAssumption DEF Inv, TypeOK
      <4>4. /\ l \in Lease /\ l.thatid = leases[r][i].thatid
            /\ l.refcnt = leases[r][i].refcnt - 1
        BY <3>1, <4>2, <4>3 DEF LeaseFor, Lease
      <4>7. n \in {0, 1} /\ (n = 1 <=> leases[r][i].refcnt = 1)
        OBVIOUS
      <4> HIDE DEF l, n
      <4>5. leases' = WithLease(r, i, l)
        BY <1>1, <2>1, <4>1 DEF WithLease
      <4>6. lingering' = [lingering EXCEPT ![r] = lingering[r] + n]
        BY <2>1, <4>1
      <4>8. LeasesOK'
        BY Zenon, <3>0, <3>1, <3>3, <4>4, <4>5, <4>6, <4>7, DeleteLeavesLease
      <4> QED
        BY SMTT(30), <1>2, <4>8
    <3> QED
      BY <3>2, <3>3
  <2> QED
    BY <2>2, <2>3
<1> QED
  BY <1>3, <1>4

LEMMA DeleteInv ==
  ASSUME Inv, NEW c \in Conns, delete_connection(c)
  PROVE  Inv'
<1>1. kind[c] # "FREE" /\ now' = now /\ failed' = "none" /\ Forget(c)
  BY DeleteNoFault DEF delete_connection
<1>2. PassertsHold'
  BY <1>1 DEF PassertsHold
<1>3. /\ kind' \in [Conns -> Kinds] /\ thatid' \in [Conns -> AllIds]
      /\ pool' \in [Conns -> Ranges \cup {NoPool}]
      /\ has_lease' \in [Conns -> BOOLEAN] /\ client' \in [Conns -> Int]
      /\ ConnsOK'
      /\ now' \in 0 .. MaxTime /\ failed' \in Passerts
  BY <1>1, ForgetFacts DEF Inv, TypeOK, Passerts
<1>4. CASE pool[c] = NoPool
  <2>1. UNCHANGED <<pools, refcount, used, lingering, leases>>
    BY <1>1, <1>4, DeleteNoFault DEF delete_connection, poolVars
  <2>2. LeasesOK'
    BY <1>1, <2>1, DeleteKeepsLeases
  <2>3. \A r \in Ranges : Users(r)' = Users(r)
    <3>1. \A r \in Ranges : c \notin Users(r)
      BY <1>4, NamesAssumption DEF Users
    <3>2. \A r \in Ranges : Users(r)' = Users(r) \ {c}
      BY <1>1, ForgetFacts
    <3> QED
      BY <3>1, <3>2
  <2>4. PoolRefcounts' /\ PoolsOK'
    BY <2>1, <2>3 DEF Inv, PoolRefcounts, PoolsOK
  <2> QED
    BY <1>2, <1>3, <2>1, <2>2, <2>4 DEF Inv, TypeOK, LeasesOK
<1>5. CASE pool[c] # NoPool
  <2>1. PICK r \in Ranges : pool[c] = r
    BY <1>5 DEF Inv, TypeOK
  <2>2. unreference_addresspool(c, AfterRelease(c))
    BY <1>1, <1>5, DeleteNoFault DEF delete_connection
  <2>3. /\ refcount' = [refcount EXCEPT ![r] = @ - 1]
        /\ pools' = IF refcount[r] = 1 THEN pools \ {r} ELSE pools
    BY <2>1, <2>2 DEF unreference_addresspool
  <2>4. /\ PoolRefcounts' /\ PoolsOK'
        /\ pools' \subseteq Ranges /\ refcount' \in [Ranges -> Nat]
        /\ refcount[r] = 1 => Users(r)' = {}
    BY Zenon, <1>1, <2>1, <2>3, OneUserLess
  <2>5. LeasesOK' /\ used' \in [Ranges -> Int]
    BY <1>1, <2>1, <2>2, <2>4, DeleteLeases
  <2> QED
    BY <1>2, <1>3, <2>4, <2>5 DEF Inv, TypeOK, LeasesOK
<1> QED
  BY <1>4, <1>5

(***************************************************************************)
(* The theorems.                                                           *)
(***************************************************************************)

LEMMA NextInv == Inv /\ [Next]_vars => Inv'
<1> SUFFICES ASSUME Inv, [Next]_vars PROVE Inv'
  OBVIOUS
<1>1. ASSUME NEW c \in Conns, NEW r \in Ranges \cup {NoPool},
             add_connection(c, "TEMPLATE", NullId, r)
      PROVE  Inv'
  BY <1>1, AddInv DEF AllIds
<1>2. ASSUME NEW c \in Conns, NEW id \in AllIds,
             NEW r \in Ranges \cup {NoPool},
             add_connection(c, "PERMANENT", id, r)
      PROVE  Inv'
  BY <1>2, AddInv
<1>3. ASSUME NEW t \in Conns, NEW c \in Conns, NEW id \in AllIds,
             instantiate(t, c, id)
      PROVE  Inv'
  BY <1>3, InstantiateInv
<1>4. ASSUME NEW c \in Conns, ikev2_cp_reply_state(c) PROVE Inv'
  BY <1>4, CpReplyInv
<1>5. ASSUME NEW c \in Conns, NEW u \in BOOLEAN, modecfg_resp(c, u)
      PROVE  Inv'
  BY <1>5, ModecfgInv
<1>6. ASSUME NEW c \in Conns, delete_connection(c) PROVE Inv'
  BY <1>6, DeleteInv
<1>7. CASE Tick
  BY <1>7, TickInv
<1>8. CASE UNCHANGED vars
  <2> USE <1>8 DEF vars
  <2>1. TypeOK' /\ ConnsOK' /\ PoolsOK' /\ PassertsHold'
    BY SMTT(60) DEF Inv, TypeOK, ConnsOK, PoolsOK, PassertsHold, LeaseIndex
  <2>2. /\ \A r \in Ranges : Users(r)' = Users(r)
        /\ \A r \in Ranges : \A i \in Indexes(r) :
             Holders(r, i)' = Holders(r, i)
    BY ZenonT(40) DEF Users, Holders, Holds
  <2>3. /\ PoolRefcounts' /\ LeaseIdsOK' /\ LeasesCoverHolders'
        /\ LingeringCounts'
    BY <2>2, SameLeases DEF Inv, PoolRefcounts
  <2> QED
    BY <2>1, <2>3 DEF Inv
<1> QED
  BY <1>1, <1>2, <1>3, <1>4, <1>5, <1>6, <1>7, <1>8 DEF Next

\* The inductive invariant holds in every reachable state, for any number of
\* connections, IDs and pools.
THEOREM InvHolds == Spec => []Inv
BY InitInv, NextInv, PTL DEF Spec

\* The types of the pools and of the connections' lease fields.
THEOREM TypeCorrect == Spec => []TypeOK
<1>1. Inv => TypeOK
  BY DEF Inv
<1> QED
  BY <1>1, InvHolds, PTL

\* No lease lingers, is freed or is taken over while a connection holds it.
THEOREM LeasesCoverHoldersHolds == Spec => []LeasesCoverHolders
<1>1. Inv => LeasesCoverHolders
  BY SMTT(60) DEF Inv
<1> QED
  BY <1>1, InvHolds, PTL

\* Connections that hold the same address belong to one named peer.
THEOREM OneIdentityHolds == Spec => []OneIdentityPerAddress
<1>1. Inv => OneIdentityPerAddress
  <2> SUFFICES ASSUME Inv, NEW r \in Ranges, NEW i \in Indexes(r),
                      NEW c \in Holders(r, i), NEW d \in Holders(r, i), c # d
               PROVE  thatid[c] = thatid[d] /\ thatid[c] # NullId
    BY SMTT(60) DEF OneIdentityPerAddress
  <2>1. /\ i \in DOMAIN leases[r]
        /\ leases[r][i].thatid = thatid[c]
        /\ leases[r][i].thatid = thatid[d]
        /\ leases[r][i].refcnt >= Cardinality(Holders(r, i))
    BY DEF Inv, LeasesCoverHolders
  <2>2. ~ Cardinality(Holders(r, i)) <= 1
    <3>1. /\ IsFiniteSet(Holders(r, i)) /\ Cardinality(Holders(r, i)) \in Nat
          /\ IsFiniteSet(Holders(r, i) \ {c})
          /\ Cardinality(Holders(r, i) \ {c}) \in Nat
      BY FiniteConns DEF Holders
    <3>2. Cardinality(Holders(r, i) \ {c}) = Cardinality(Holders(r, i)) - 1
      BY <3>1, CardRemove
    <3>3. Cardinality(Holders(r, i) \ {c}) # 0
      BY <3>1, CardZero
    <3> QED
      BY <3>1, <3>2, <3>3
  <2>3. leases[r][i].refcnt \in Nat /\ Cardinality(Holders(r, i)) \in Nat
    <3>1. leases[r][i].refcnt \in Nat
      BY <2>1 DEF Inv, TypeOK, Lease
    <3>2. Cardinality(Holders(r, i)) \in Nat
      BY FiniteConns DEF Holders
    <3> QED
      BY <3>1, <3>2
  <2>4. leases[r][i].refcnt # 1
    BY <2>1, <2>2, <2>3
  <2> QED
    BY <2>1, <2>4 DEF Inv, LeaseIdsOK
<1> QED
  BY <1>1, InvHolds, PTL

\* A pool is on the list exactly as long as a connection uses it.
THEOREM PoolRefcountsHolds == Spec => []PoolRefcounts
<1>1. Inv => PoolRefcounts
  BY DEF Inv
<1> QED
  BY <1>1, InvHolds, PTL

\* No two pools on the list have an address in common.
THEOREM PoolsDisjointHolds == Spec => []PoolsDisjoint
<1>1. Inv => PoolsDisjoint
  <2> SUFFICES ASSUME Inv, NEW r \in pools, NEW s \in pools, r # s,
                      NEW a \in r[1] .. r[2], a \in s[1] .. s[2]
               PROVE  FALSE
    BY DEF PoolsDisjoint
  <2>1. r \in Ranges /\ s \in Ranges
    BY DEF Inv, TypeOK
  <2>2. ~ Overlaps(r, s)
    BY DEF Inv, PoolsOK
  <2> QED
    BY <2>1, <2>2, RangeFacts DEF Overlaps
<1> QED
  BY <1>1, InvHolds, PTL

\* The passerts of rel_lease_addr and unreference_addresspool never fail.
THEOREM PassertsHoldAlways == Spec => []PassertsHold
<1>1. Inv => PassertsHold
  BY DEF Inv
<1> QED
  BY <1>1, InvHolds, PTL

\* The lingering counter of a pool counts its lingering leases.
THEOREM LingeringCountsHolds == Spec => []LingeringCounts
<1>1. Inv => LingeringCounts
  BY SMTT(60) DEF Inv
<1> QED
  BY <1>1, InvHolds, PTL

\* A named peer with a lease is leased the address it has.
LEMMA SameAddress ==
  ASSUME Inv, NEW c \in Conns, Negotiating(c), has_lease[c],
         could_share_lease(c), NEW r \in Ranges, pool[c] = r,
         NEW i \in Indexes(r), lease_an_address(c, i)
  PROVE  client[c] = r[1] + i
<1>1. LeaseIndex(c) \in DOMAIN leases[r]
      /\ leases[r][LeaseIndex(c)].thatid = thatid[c]
  BY ReleasePasserts DEF Negotiating
<1>2. \A j \in DOMAIN leases[r] \ {i} : leases[r][j].thatid # thatid[c]
  BY LeaseEffect
<1>3. LeaseIndex(c) = i
  BY <1>1, <1>2
<1>4. client[c] \in Int /\ r[1] \in Nat /\ i \in Nat
  BY RangeFacts DEF Inv, TypeOK
<1> QED
  BY <1>3, <1>4 DEF LeaseIndex

\* A named peer that asks again while its connection has a lease is given the
\* same address.
THEOREM NamedPeerKeepsAddressHolds == Spec => NamedPeerKeepsAddress
<1> DEFINE Keeps == \A c \in Conns :
                      has_lease[c] /\ has_lease'[c] /\ could_share_lease(c)
                        => client'[c] = client[c]
<1>1. ASSUME Inv, [Next]_vars
      PROVE  [Keeps]_vars
  <2> SUFFICES ASSUME NEW c \in Conns, has_lease[c], has_lease'[c],
                      could_share_lease(c)
               PROVE  client'[c] = client[c]
    OBVIOUS
  <2>1. client \in [Conns -> Int] /\ has_lease \in [Conns -> BOOLEAN]
    BY <1>1 DEF Inv, TypeOK
  <2>2. CASE UNCHANGED client
    BY <2>2
  <2>3. ASSUME NEW d \in Conns, delete_connection(d)
        PROVE  client'[c] = client[c]
    BY <1>1, <2>1, <2>3 DEF delete_connection, Forget, connVars
  <2>4. ASSUME NEW t \in Conns, NEW d \in Conns, NEW id \in AllIds,
               instantiate(t, d, id)
        PROVE  client'[c] = client[c]
    <3>1. d # c
      BY <1>1, <2>4 DEF instantiate, Inv, ConnsOK
    <3> QED
      BY <2>1, <2>4, <3>1 DEF instantiate
  <2>5. ASSUME NEW d \in Conns, ikev2_cp_reply_state(d)
        PROVE  client'[c] = client[c]
    <3>1. PICK r \in Ranges : pool[d] = r
      BY <1>1, <2>5 DEF ikev2_cp_reply_state, Negotiating, Inv, TypeOK
    <3>2. ASSUME NEW i \in Indexes(r), lease_an_address(d, i),
                 client' = [client EXCEPT ![d] = pool[d][1] + i]
          PROVE  client'[c] = client[c]
      <4>1. CASE d # c
        BY <2>1, <3>2, <4>1
      <4>2. CASE d = c
        <5>1. client[c] = r[1] + i
          BY <1>1, <2>5, <3>1, <3>2, <4>2, SameAddress
            DEF ikev2_cp_reply_state
        <5> QED
          BY <2>1, <3>1, <3>2, <4>2, <5>1
      <4> QED
        BY <4>1, <4>2
    <3> QED
      BY <2>2, <2>5, <3>1, <3>2 DEF ikev2_cp_reply_state
  <2>6. ASSUME NEW d \in Conns, NEW u \in BOOLEAN, modecfg_resp(d, u)
        PROVE  client'[c] = client[c]
    <3>1. PICK r \in Ranges : pool[d] = r
      BY <1>1, <2>6 DEF modecfg_resp, Negotiating, Inv, TypeOK
    <3>2. ASSUME NEW i \in Indexes(r), lease_an_address(d, i),
                 client' = [client EXCEPT ![d] =
                              IF u /\ client[d] # pool[d][1] + i
                                THEN pool[d][1] + i ELSE @]
          PROVE  client'[c] = client[c]
      <4>1. CASE d # c
        BY <2>1, <3>2, <4>1
      <4>2. CASE d = c
        <5>1. client[c] = r[1] + i
          BY <1>1, <2>6, <3>1, <3>2, <4>2, SameAddress DEF modecfg_resp
        <5> QED
          BY <2>1, <3>1, <3>2, <4>2, <5>1
      <4> QED
        BY <4>1, <4>2
    <3> QED
      BY <2>2, <2>6, <3>1, <3>2 DEF modecfg_resp
  <2> QED
    BY <1>1, <2>2, <2>3, <2>4, <2>5, <2>6
      DEF Next, vars, Tick, add_connection, connVars
<1> QED
  BY <1>1, InvHolds, PTL DEF Spec, NamedPeerKeepsAddress
====
