------------------------- MODULE AddressPool_lease --------------------------
(***************************************************************************)
(* The inductive invariant of the address pools, and the proofs that the   *)
(* initial states have it and that adding a connection, instantiating one  *)
(* and leasing an address keep it.                                         *)
(***************************************************************************)
EXTENDS AddressPool, FiniteSetTheorems, TLAPS

(***************************************************************************)
(* The inductive invariant.                                                *)
(***************************************************************************)

\* A connection that does not exist, or is a template, has no lease; one that
\* has a lease has its address in the range of its pool.
ConnsOK ==
  /\ \A c \in Conns : kind[c] = "FREE" => pool[c] = NoPool
  /\ \A c \in Conns : kind[c] \in {"FREE", "TEMPLATE"} => ~ has_lease[c]
  /\ \A c \in Conns : has_lease[c] =>
       pool[c] # NoPool /\ LeaseIndex(c) \in Indexes(pool[c])

\* A lease for an anonymous peer has exactly one reference, and no two leases
\* of a pool are for the same named peer.
LeaseIdsOK ==
  /\ \A r \in Ranges : \A i \in DOMAIN leases[r] :
       leases[r][i].thatid = NullId => leases[r][i].refcnt = 1
  /\ \A r \in Ranges : \A i, j \in DOMAIN leases[r] :
       leases[r][i].thatid = leases[r][j].thatid /\ i # j
         => leases[r][i].thatid = NullId

PoolsOK == \A r, s \in pools : ~ Overlaps(r, s)

Inv ==
  /\ TypeOK
  /\ ConnsOK
  /\ LeaseIdsOK
  /\ PoolsOK
  /\ PoolRefcounts
  /\ LeasesCoverHolders
  /\ LingeringCounts
  /\ PassertsHold

USE DEF Alive

(***************************************************************************)
(* Finite sets.                                                            *)
(***************************************************************************)

LEMMA FiniteConns == \A S \in SUBSET Conns :
                       IsFiniteSet(S) /\ Cardinality(S) \in Nat
BY ConnsAssumption, FS_Subset, FS_CardinalityType

LEMMA CardAdd ==
  ASSUME NEW S, IsFiniteSet(S), NEW x, x \notin S
  PROVE  Cardinality(S \cup {x}) = Cardinality(S) + 1
BY FS_AddElement

LEMMA CardAddAtMost ==
  ASSUME NEW S, IsFiniteSet(S), NEW x
  PROVE  /\ IsFiniteSet(S \cup {x})
         /\ Cardinality(S \cup {x}) <= Cardinality(S) + 1
<1>1. Cardinality(S) \in Nat
  BY FS_CardinalityType
<1>2. CASE x \in S
  <2>1. S \cup {x} = S
    BY <1>2
  <2>2. IsFiniteSet(S \cup {x}) /\ Cardinality(S \cup {x}) = Cardinality(S)
    BY <2>1, Zenon
  <2> QED
    BY <1>1, <2>2
<1>3. CASE x \notin S
  <2>1. IsFiniteSet(S \cup {x})
    BY FS_AddElement
  <2>2. Cardinality(S \cup {x}) = Cardinality(S) + 1
    BY <1>3, CardAdd
  <2> QED
    BY <1>1, <2>1, <2>2
<1> QED
  BY <1>2, <1>3

LEMMA CardRemove ==
  ASSUME NEW S, IsFiniteSet(S), NEW x \in S
  PROVE  Cardinality(S \ {x}) = Cardinality(S) - 1
BY FS_RemoveElement

LEMMA CardZero ==
  ASSUME NEW S, IsFiniteSet(S)
  PROVE  Cardinality(S) = 0 <=> S = {}
BY FS_EmptySet

LEMMA RangeFacts ==
  ASSUME NEW r \in Ranges
  PROVE  /\ r[1] \in Nat /\ r[2] \in Nat /\ r[1] <= r[2]
         /\ Size(r) \in Nat \ {0}
         /\ IsFiniteSet(Indexes(r))
         /\ Indexes(r) \subseteq Nat
<1>1. r \in Nat \X Nat /\ r[1] <= r[2]
  BY RangesAssumption
<1>2. Size(r) \in Nat \ {0}
  BY <1>1 DEF Size
<1>3. IsFiniteSet(Indexes(r)) /\ Indexes(r) \subseteq Nat
  BY <1>2, FS_Interval DEF Indexes
<1> QED
  BY <1>1, <1>2, <1>3

(***************************************************************************)
(* The initial states.                                                     *)
(***************************************************************************)

LEMMA InitInv == Init => Inv
<1> SUFFICES ASSUME Init PROVE Inv
  OBVIOUS
<1> USE DEF Init
<1>1. TypeOK
  <2>1. DOMAIN Empty = {} /\ Empty \in [{} -> Lease]
    BY DEF Empty
  <2> QED
    BY <2>1, BoundsAssumption DEF TypeOK, Kinds, Passerts, AllIds, NoAddress
<1>2. ConnsOK
  BY DEF ConnsOK
<1>3. \A r \in Ranges : leases[r] = Empty /\ DOMAIN leases[r] = {}
  BY DEF Empty
<1>4. LeaseIdsOK
  BY <1>3 DEF LeaseIdsOK
<1>5. PoolsOK
  BY DEF PoolsOK
<1>6. PoolRefcounts
  <2>1. \A r \in Ranges : Users(r) = {}
    BY DEF Users
  <2> QED
    BY <2>1, FS_EmptySet DEF PoolRefcounts
<1>7. LeasesCoverHolders
  BY DEF LeasesCoverHolders, Holders, Holds
<1>8. LingeringCounts
  <2>1. \A r \in Ranges : Lingerers(r) = {}
    BY <1>3 DEF Lingerers
  <2> QED
    BY <2>1, FS_EmptySet DEF LingeringCounts
<1>9. PassertsHold
  BY DEF PassertsHold
<1> QED
  BY <1>1, <1>2, <1>4, <1>5, <1>6, <1>7, <1>8, <1>9 DEF Inv

(***************************************************************************)
(* Adding and instantiating connections.                                   *)
(***************************************************************************)

\* A connection that comes into being with no lease leaves the holders of
\* every address as they were.
LEMMA NewConnHolders ==
  ASSUME Inv, NEW c \in Conns, kind[c] = "FREE", ~ has_lease'[c],
         \A d \in Conns \ {c} :
           /\ kind'[d] = kind[d] /\ has_lease'[d] = has_lease[d]
           /\ pool'[d] = pool[d] /\ client'[d] = client[d]
  PROVE  \A r \in Ranges : \A i \in Indexes(r) :
           Holders(r, i)' = Holders(r, i)
<1> SUFFICES ASSUME NEW r \in Ranges, NEW i \in Indexes(r), NEW d \in Conns
             PROVE  Holds(d, r, i)' <=> Holds(d, r, i)
  BY DEF Holders
<1>1. CASE d = c
  BY <1>1 DEF Inv, ConnsOK, Holds
<1>2. CASE d # c
  BY <1>2 DEF Holds
<1> QED
  BY <1>1, <1>2

\* Lease lists and holders that do not change keep the lease invariants.
LEMMA SameLeases ==
  ASSUME Inv, UNCHANGED <<leases, lingering>>,
         \A r \in Ranges : \A i \in Indexes(r) :
           /\ Holders(r, i)' = Holders(r, i)
           /\ \A c \in Holders(r, i) : thatid'[c] = thatid[c]
  PROVE  LeaseIdsOK' /\ LeasesCoverHolders' /\ LingeringCounts'
<1>1. LeaseIdsOK'
  BY DEF Inv, LeaseIdsOK
<1>2. LeasesCoverHolders'
  BY DEF Inv, LeasesCoverHolders
<1>3. LingeringCounts'
  BY DEF Inv, LingeringCounts, Lingerers
<1> QED
  BY <1>1, <1>2, <1>3

\* One more user of pool r, counted.
LEMMA OneMoreUser ==
  ASSUME Inv, NEW c \in Conns, kind[c] = "FREE", NEW r \in Ranges,
         kind'[c] # "FREE", pool'[c] = r,
         \A d \in Conns \ {c} : kind'[d] = kind[d] /\ pool'[d] = pool[d],
         refcount' = [refcount EXCEPT ![r] = @ + 1],
         pools' = pools \cup {r}
  PROVE  PoolRefcounts'
<1>1. c \notin Users(r)
  BY DEF Users
<1>2. Users(r)' = Users(r) \cup {c}
  BY DEF Users
<1>3. \A s \in Ranges \ {r} : Users(s)' = Users(s)
  BY DEF Users
<1>4. Cardinality(Users(r)') = Cardinality(Users(r)) + 1
  <2>1. IsFiniteSet(Users(r))
    BY FiniteConns DEF Users
  <2> QED
    BY <1>1, <1>2, <2>1, CardAdd
<1>5. refcount \in [Ranges -> Nat]
  BY DEF Inv, TypeOK
<1>6. \A s \in Ranges : refcount'[s] = Cardinality(Users(s)')
  BY <1>3, <1>4, <1>5 DEF Inv, PoolRefcounts
<1>7. \A s \in Ranges : s \in pools' <=> Users(s)' # {}
  BY <1>2, <1>3 DEF Inv, PoolRefcounts
<1> QED
  BY <1>6, <1>7 DEF PoolRefcounts

\* One more connection without a pool.
LEMMA NoMoreUsers ==
  ASSUME Inv, NEW c \in Conns, kind[c] = "FREE",
         pool'[c] = NoPool,
         \A d \in Conns \ {c} : kind'[d] = kind[d] /\ pool'[d] = pool[d],
         UNCHANGED <<refcount, pools>>
  PROVE  PoolRefcounts'
<1>1. \A s \in Ranges : Users(s)' = Users(s)
  BY NamesAssumption DEF Users
<1> QED
  BY <1>1 DEF Inv, PoolRefcounts

LEMMA AddInv ==
  ASSUME Inv, NEW c \in Conns, NEW k \in {"TEMPLATE", "PERMANENT"},
         NEW id \in AllIds, NEW r \in Ranges \cup {NoPool},
         add_connection(c, k, id, r)
  PROVE  Inv'
<1> USE DEF add_connection, install_addresspool, poolVars
<1>1. TypeOK'
  BY SMTT(60) DEF Inv, TypeOK, Kinds
<1>2. ~ has_lease'[c]
  BY DEF Inv, ConnsOK
<1>3. \A d \in Conns \ {c} : /\ kind'[d] = kind[d] /\ pool'[d] = pool[d]
                             /\ has_lease'[d] = has_lease[d]
                             /\ client'[d] = client[d]
                             /\ thatid'[d] = thatid[d]
  BY DEF Inv, TypeOK
<1>4. kind'[c] = k /\ pool'[c] = r
  BY DEF Inv, TypeOK
<1>5. ConnsOK'
  BY <1>2, <1>3, <1>4 DEF Inv, ConnsOK, LeaseIndex
<1>6. \A s \in Ranges : \A i \in Indexes(s) :
        Holders(s, i)' = Holders(s, i) /\ c \notin Holders(s, i)
  <2>1. \A s \in Ranges : \A i \in Indexes(s) : c \notin Holders(s, i)
    BY DEF Holders, Holds
  <2> QED
    BY <1>2, <1>3, <2>1, NewConnHolders
<1>7. LeaseIdsOK' /\ LeasesCoverHolders' /\ LingeringCounts'
  <2>1. UNCHANGED <<leases, lingering>>
    OBVIOUS
  <2>2. \A s \in Ranges : \A i \in Indexes(s) : \A d \in Holders(s, i) :
          thatid'[d] = thatid[d]
    BY <1>3, <1>6 DEF Holders
  <2> QED
    BY <1>6, <2>1, <2>2, SameLeases
<1>8. PoolRefcounts'
  <2>1. CASE r = NoPool
    BY <2>1, <1>3, <1>4, NoMoreUsers, NamesAssumption
  <2>2. CASE r \in Ranges
    BY <2>2, <1>3, <1>4, OneMoreUser, NamesAssumption
  <2> QED
    BY <2>1, <2>2
<1>9. PoolsOK'
  <2>1. CASE r = NoPool
    BY <2>1, NamesAssumption DEF Inv, PoolsOK
  <2>2. CASE r \in Ranges
    <3>1. \A h \in pools : ~ Overlaps(r, h) /\ ~ Overlaps(h, r)
      <4> SUFFICES ASSUME NEW h \in pools
                   PROVE  ~ Overlaps(r, h) /\ ~ Overlaps(h, r)
        OBVIOUS
      <4>1. ~ Overlaps(r, h)
        BY <2>2, NamesAssumption DEF find_addresspool
      <4>2. h \in Ranges
        BY DEF Inv, TypeOK
      <4> QED
        BY <2>2, <4>1, <4>2, RangeFacts DEF Overlaps
    <3>2. ~ Overlaps(r, r)
      BY DEF Overlaps
    <3> QED
      BY <2>2, <3>1, <3>2, NamesAssumption DEF Inv, PoolsOK
  <2> QED
    BY <2>1, <2>2
<1>10. PassertsHold'
  BY DEF Inv, PassertsHold
<1> QED
  BY <1>1, <1>5, <1>7, <1>8, <1>9, <1>10 DEF Inv

LEMMA InstantiateInv ==
  ASSUME Inv, NEW t \in Conns, NEW c \in Conns, NEW id \in AllIds,
         instantiate(t, c, id)
  PROVE  Inv'
<1> USE DEF instantiate, reference_addresspool, poolVars
<1>1. TypeOK'
  BY DEF Inv, TypeOK, Kinds
<1>2. ~ has_lease'[c]
  BY DEF Inv, ConnsOK, TypeOK
<1>3. \A d \in Conns \ {c} : /\ kind'[d] = kind[d] /\ pool'[d] = pool[d]
                             /\ has_lease'[d] = has_lease[d]
                             /\ client'[d] = client[d]
                             /\ thatid'[d] = thatid[d]
  BY DEF Inv, TypeOK
<1>4. kind'[c] = "INSTANCE" /\ pool'[c] = pool[t]
  BY DEF Inv, TypeOK
<1>5. ConnsOK'
  BY <1>2, <1>3, <1>4 DEF Inv, ConnsOK, LeaseIndex
<1>6. \A s \in Ranges : \A i \in Indexes(s) :
        Holders(s, i)' = Holders(s, i) /\ c \notin Holders(s, i)
  <2>1. \A s \in Ranges : \A i \in Indexes(s) : c \notin Holders(s, i)
    BY DEF Holders, Holds
  <2> QED
    BY <1>2, <1>3, <2>1, NewConnHolders
<1>7. LeaseIdsOK' /\ LeasesCoverHolders' /\ LingeringCounts'
  <2>1. UNCHANGED <<leases, lingering>>
    OBVIOUS
  <2>2. \A s \in Ranges : \A i \in Indexes(s) : \A d \in Holders(s, i) :
          thatid'[d] = thatid[d]
    BY <1>3, <1>6 DEF Holders
  <2> QED
    BY <1>6, <2>1, <2>2, SameLeases
<1>8. PoolRefcounts' /\ PoolsOK'
  <2>1. CASE pool[t] = NoPool
    BY <2>1, <1>3, <1>4, NoMoreUsers, NamesAssumption DEF Inv, PoolsOK
  <2>2. CASE pool[t] \in Ranges
    <3>1. t \in Users(pool[t])
      BY DEF Users
    <3>2. pool[t] \in pools
      BY <2>2, <3>1 DEF Inv, PoolRefcounts
    <3>3. pools' = pools \cup {pool[t]}
      BY <2>2, <3>2, NamesAssumption
    <3>4. PoolRefcounts'
      BY <2>2, <3>3, <1>3, <1>4, OneMoreUser, NamesAssumption
    <3>5. PoolsOK'
      BY <3>2, <3>3 DEF Inv, PoolsOK
    <3> QED
      BY <3>4, <3>5
  <2> QED
    BY <2>1, <2>2
<1>9. PassertsHold'
  BY DEF Inv, PassertsHold
<1> QED
  BY <1>1, <1>5, <1>7, <1>8, <1>9 DEF Inv

(***************************************************************************)
(* Leasing an address.                                                     *)
(***************************************************************************)

\* The references to index i before a step: none if it is not leased.
Refs(r, i) == IF i \in DOMAIN leases[r] THEN leases[r][i].refcnt ELSE 0

\* However lease_an_address finds an address, the lease at that index is now
\* for c's peer and has one more reference; if it had any before, it already
\* was for c's peer.  No other lease changes, and no other lease of the pool is
\* for c's peer if that is named.
LEMMA LeaseEffect ==
  ASSUME Inv, NEW c \in Conns, pool[c] \in Ranges,
         NEW i \in Indexes(pool[c]), lease_an_address(c, i)
  PROVE  \E l \in Lease :
           /\ leases' = WithLease(pool[c], i, l)
           /\ l.thatid = thatid[c]
           /\ l.refcnt = Refs(pool[c], i) + 1
           /\ Refs(pool[c], i) > 0 =>
                leases[pool[c]][i].thatid = thatid[c] /\ could_share_lease(c)
           /\ \A j \in DOMAIN leases[pool[c]] \ {i} :
                leases[pool[c]][j].thatid = thatid[c] => ~ could_share_lease(c)
<1> DEFINE r == pool[c]
<1>1. /\ leases = [s \in Ranges |-> leases[s]]
      /\ leases[r] \in [DOMAIN leases[r] -> Lease]
      /\ thatid[c] \in AllIds
  BY DEF Inv, TypeOK
<1>2. ASSUME Sharable(c) = {}
      PROVE  \A j \in DOMAIN leases[r] :
               leases[r][j].thatid = thatid[c] => ~ could_share_lease(c)
  BY <1>2 DEF Sharable
<1>3. CASE share_lease(c, i)
  <2> DEFINE l == LeaseFor(thatid[c], leases[r][i].refcnt + 1,
                           leases[r][i].since)
  <2>1. i \in DOMAIN leases[r] /\ could_share_lease(c)
        /\ leases[r][i].thatid = thatid[c]
    BY <1>3 DEF share_lease, Sharable
  <2>2. leases' = WithLease(r, i, l)
    BY <1>3, <2>1 DEF share_lease
  <2>3. leases[r][i] \in Lease
    BY <1>1, <2>1
  <2>4. l \in Lease /\ l.thatid = thatid[c] /\ l.refcnt = Refs(r, i) + 1
    BY <1>1, <2>1, <2>3 DEF Lease, LeaseFor, Refs
  <2>5. \A j \in DOMAIN leases[r] \ {i} : leases[r][j].thatid # thatid[c]
    BY <2>1 DEF Inv, LeaseIdsOK, could_share_lease
  <2> QED
    BY <2>1, <2>2, <2>4, <2>5, Zenon
<1>4. CASE new_lease(c, i)
  <2> DEFINE l == LeaseFor(thatid[c], 1, 0)
  <2>1. i \notin DOMAIN leases[r] /\ leases' = WithLease(r, i, l)
    BY <1>4 DEF new_lease, Unleased
  <2>2. l \in Lease /\ l.thatid = thatid[c] /\ l.refcnt = Refs(r, i) + 1
    BY <1>1, <2>1 DEF Lease, LeaseFor, Refs
  <2>3. Refs(r, i) = 0
    BY <2>1 DEF Refs
  <2> QED
    BY <1>2, <1>4, <2>1, <2>2, <2>3 DEF new_lease
<1>5. CASE take_over_lease(c, i)
  <2> DEFINE l == LeaseFor(thatid[c], leases[r][i].refcnt + 1,
                           leases[r][i].since)
  <2>1. i \in DOMAIN leases[r] /\ leases[r][i].refcnt = 0
    BY <1>5 DEF take_over_lease, longest_lingerer, Lingerers
  <2>2. leases' = WithLease(r, i, l)
    BY <1>5 DEF take_over_lease
  <2>3. leases[r][i] \in Lease
    BY <1>1, <2>1
  <2>4. l \in Lease /\ l.thatid = thatid[c] /\ l.refcnt = Refs(r, i) + 1
        /\ Refs(r, i) = 0
    BY <1>1, <2>1, <2>3 DEF Lease, LeaseFor, Refs
  <2>5. \A j \in DOMAIN leases[r] \ {i} :
          leases[r][j].thatid = thatid[c] => ~ could_share_lease(c)
    BY <1>2, <1>5 DEF take_over_lease
  <2> HIDE DEF l
  <2> QED
    BY <2>2, <2>4, <2>5
<1> QED
  BY <1>3, <1>4, <1>5 DEF lease_an_address

\* The lease lists that WithLease describes.
LEMMA WithLeaseFacts ==
  ASSUME Inv, NEW r \in Ranges, NEW i \in Indexes(r), NEW l \in Lease,
         leases' = WithLease(r, i, l)
  PROVE  /\ leases' = [s \in Ranges |-> leases'[s]]
         /\ \A s \in Ranges \ {r} : leases'[s] = leases[s]
         /\ DOMAIN leases'[r] = DOMAIN leases[r] \cup {i}
         /\ leases'[r][i] = l
         /\ \A j \in DOMAIN leases[r] \ {i} : leases'[r][j] = leases[r][j]
         /\ \A s \in Ranges : /\ DOMAIN leases'[s] \subseteq Indexes(s)
                              /\ leases'[s] \in [DOMAIN leases'[s] -> Lease]
BY SMTT(60) DEF Inv, TypeOK, WithLease

\* lease_an_address takes the lease off the lingering ones, and counts that.
LEMMA LeaseLingering ==
  ASSUME Inv, NEW c \in Conns, NEW r \in Ranges, pool[c] = r,
         NEW i \in Indexes(r), lease_an_address(c, i)
  PROVE  LingeringCounts' /\ lingering' \in [Ranges -> Int]
<1>1. PICK l \in Lease : /\ leases' = WithLease(r, i, l)
                         /\ l.refcnt = Refs(r, i) + 1
  BY LeaseEffect
<1>2. Refs(r, i) \in Nat
  BY DEF Refs, Inv, TypeOK, Lease
<1>3. Lingerers(r)' = Lingerers(r) \ {i}
  <2>1. /\ DOMAIN leases'[r] = DOMAIN leases[r] \cup {i}
        /\ leases'[r][i].refcnt # 0
        /\ \A j \in DOMAIN leases[r] \ {i} : leases'[r][j] = leases[r][j]
    BY <1>1, <1>2, WithLeaseFacts
  <2> QED
    BY <2>1 DEF Lingerers
<1>4. \A s \in Ranges \ {r} : Lingerers(s)' = Lingerers(s)
  BY <1>1, WithLeaseFacts DEF Lingerers
<1>5. IsFiniteSet(Lingerers(r)) /\ Cardinality(Lingerers(r)) \in Nat
  <2>1. Lingerers(r) \subseteq Indexes(r)
    BY DEF Lingerers, Inv, TypeOK
  <2> QED
    BY <2>1, RangeFacts, FS_Subset, FS_CardinalityType
<1>6. lingering' = [lingering EXCEPT ![r] = IF i \in Lingerers(r) THEN @ - 1
                                                                   ELSE @]
  <2>1. lingering \in [Ranges -> Int]
    BY DEF Inv, TypeOK
  <2>2. CASE share_lease(c, i)
    BY ZenonT(30), <2>1, <2>2 DEF share_lease, Sharable, Lingerers
  <2>3. CASE new_lease(c, i)
    BY <2>1, <2>3 DEF new_lease, Unleased, Lingerers
  <2>4. CASE take_over_lease(c, i)
    BY <2>1, <2>4 DEF take_over_lease, longest_lingerer
  <2> QED
    BY <2>2, <2>3, <2>4 DEF lease_an_address
<1>7. Cardinality(Lingerers(r) \ {i}) =
        IF i \in Lingerers(r) THEN Cardinality(Lingerers(r)) - 1
                              ELSE Cardinality(Lingerers(r))
  <2>1. CASE i \in Lingerers(r)
    BY <2>1, <1>5, CardRemove
  <2>2. CASE i \notin Lingerers(r)
    <3>1. Lingerers(r) \ {i} = Lingerers(r)
      BY <2>2
    <3> QED
      BY <2>2, <3>1
  <2> QED
    BY <2>1, <2>2
<1>8. LingeringCounts'
  <2>1. /\ lingering \in [Ranges -> Int]
        /\ \A s \in Ranges : lingering[s] = Cardinality(Lingerers(s))
    BY DEF Inv, TypeOK, LingeringCounts
  <2>2. lingering'[r] = Cardinality(Lingerers(r)')
    BY <1>3, <1>6, <1>7, <2>1
  <2>3. \A s \in Ranges \ {r} : lingering'[s] = Cardinality(Lingerers(s)')
    BY <1>4, <1>6, <2>1
  <2> QED
    BY <2>2, <2>3 DEF LingeringCounts
<1> QED
  BY <1>6, <1>8 DEF Inv, TypeOK

LEMMA LeaseInv ==
  ASSUME Inv, NEW c \in Conns, Negotiating(c),
         NEW r \in Ranges, pool[c] = r,
         NEW i \in Indexes(r), lease_an_address(c, i),
         \/ /\ has_lease' = [has_lease EXCEPT ![c] = TRUE]
            /\ client' = [client EXCEPT ![c] = pool[c][1] + i]
         \/ UNCHANGED <<has_lease, client>>,
         UNCHANGED <<kind, thatid, pool, now>>
  PROVE  Inv'
<1>1. r \in Ranges /\ kind[c] \in {"PERMANENT", "INSTANCE"}
  BY DEF Inv, TypeOK, Negotiating
<1>2. PICK l \in Lease :
        /\ leases' = WithLease(r, i, l)
        /\ l.thatid = thatid[c]
        /\ l.refcnt = Refs(r, i) + 1
        /\ Refs(r, i) > 0 => leases[r][i].thatid = thatid[c]
                             /\ could_share_lease(c)
        /\ \A j \in DOMAIN leases[r] \ {i} :
             leases[r][j].thatid = thatid[c] => ~ could_share_lease(c)
  BY <1>1, LeaseEffect
<1>3. UNCHANGED <<pools, refcount, failed>>
  BY DEF lease_an_address
<1>4. used' \in [Ranges -> Int]
  BY DEF Inv, TypeOK, lease_an_address, share_lease, new_lease,
         take_over_lease
<1>5. r[1] \in Nat /\ i \in Nat
  BY <1>1, RangeFacts
<1>6. TypeOK'
  <2>1. lingering' \in [Ranges -> Int]
    BY <1>1, LeaseLingering
  <2>2. has_lease' \in [Conns -> BOOLEAN] /\ client' \in [Conns -> Int]
    <3>1. has_lease \in [Conns -> BOOLEAN] /\ client \in [Conns -> Int]
      BY DEF Inv, TypeOK
    <3>2. r[1] + i \in Int
      BY <1>5
    <3>3. has_lease' \in [Conns -> BOOLEAN]
      BY ZenonT(30), <3>1
    <3>4. client' \in [Conns -> Int]
      BY <3>1, <3>2
    <3> QED
      BY <3>3, <3>4
  <2>3. /\ leases' = [s \in Ranges |-> leases'[s]]
        /\ \A s \in Ranges : /\ DOMAIN leases'[s] \subseteq Indexes(s)
                             /\ leases'[s] \in [DOMAIN leases'[s] -> Lease]
    BY <1>1, <1>2, WithLeaseFacts
  <2> QED
    BY <1>3, <1>4, <2>1, <2>2, <2>3 DEF Inv, TypeOK
<1>7. ConnsOK'
  BY <1>1, <1>5, NamesAssumption DEF Inv, ConnsOK, TypeOK, LeaseIndex
<1>8. LeaseIdsOK'
  <2>1. /\ DOMAIN leases'[r] = DOMAIN leases[r] \cup {i}
        /\ leases'[r][i] = l
        /\ \A j \in DOMAIN leases[r] \ {i} : leases'[r][j] = leases[r][j]
        /\ \A s \in Ranges \ {r} : leases'[s] = leases[s]
    BY <1>1, <1>2, WithLeaseFacts
  <2>2. Refs(r, i) \in Nat
    BY <1>1 DEF Refs, Inv, TypeOK, Lease
  <2>3. l.thatid = NullId => l.refcnt = 1
    BY <1>2, <2>2 DEF could_share_lease
  <2>4. \A j \in DOMAIN leases[r] \ {i} :
          leases[r][j].thatid = l.thatid => l.thatid = NullId
    BY <1>2 DEF could_share_lease
  <2> QED
    BY <2>1, <2>3, <2>4 DEF Inv, LeaseIdsOK
<1>9. PoolsOK' /\ PoolRefcounts' /\ PassertsHold'
  <2>1. \A s \in Ranges : Users(s)' = Users(s)
    BY DEF Users
  <2> QED
    BY <1>3, <2>1 DEF Inv, PoolsOK, PoolRefcounts, PassertsHold
<1>10. LingeringCounts'
  BY <1>1, LeaseLingering
<1>11. LeasesCoverHolders'
  <2>1. \A s \in Ranges : \A j \in Indexes(s) :
          s # r \/ j # i => Holders(s, j)' \subseteq Holders(s, j)
    <3> SUFFICES ASSUME NEW s \in Ranges, NEW j \in Indexes(s),
                        s # r \/ j # i, NEW d \in Conns, Holds(d, s, j)'
                 PROVE  Holds(d, s, j)
      BY DEF Holders
    <3>1. s[1] \in Nat /\ j \in Nat
      BY RangeFacts
    <3>2. has_lease \in [Conns -> BOOLEAN] /\ client \in [Conns -> Int]
      BY DEF Inv, TypeOK
    <3>3. CASE UNCHANGED <<has_lease, client>> \/ d # c
      BY <3>2, <3>3 DEF Holds
    <3>4. CASE /\ client' = [client EXCEPT ![c] = pool[c][1] + i]
               /\ d = c
      <4>1. client'[c] = r[1] + i /\ s = r /\ client'[c] = s[1] + j
        BY <3>2, <3>4 DEF Holds
      <4> QED
        BY <1>5, <3>1, <4>1
    <3> QED
      BY <3>3, <3>4
  <2>2. Holders(r, i)' \subseteq Holders(r, i) \cup {c}
    BY DEF Holders, Holds, Inv, TypeOK
  <2>3. \A s \in Ranges : \A j \in Indexes(s) :
          IsFiniteSet(Holders(s, j)) /\ IsFiniteSet(Holders(s, j)')
          /\ Cardinality(Holders(s, j)) \in Nat
          /\ Cardinality(Holders(s, j)') \in Nat
    BY FiniteConns DEF Holders
  <2>4. ASSUME NEW s \in Ranges, NEW j \in Indexes(s), s # r \/ j # i,
               NEW d \in Holders(s, j)'
        PROVE  /\ j \in DOMAIN leases'[s]
               /\ leases'[s][j].thatid = thatid'[d]
               /\ leases'[s][j].refcnt >= Cardinality(Holders(s, j)')
    <3>1. d \in Holders(s, j)
      BY <2>1, <2>4
    <3>2. /\ j \in DOMAIN leases[s]
          /\ leases[s][j].thatid = thatid[d]
          /\ leases[s][j].refcnt >= Cardinality(Holders(s, j))
      BY <3>1 DEF Inv, LeasesCoverHolders
    <3>3. j \in DOMAIN leases'[s] /\ leases'[s][j] = leases[s][j]
      BY <1>1, <1>2, <2>4, <3>2, WithLeaseFacts
    <3>4. Cardinality(Holders(s, j)') <= Cardinality(Holders(s, j))
      BY <2>1, <2>3, <2>4, FS_Subset
    <3>5. leases[s][j].refcnt \in Nat
      BY <3>2 DEF Inv, TypeOK, Lease
    <3> QED
      BY <2>3, <3>2, <3>3, <3>4, <3>5
  <2>5. ASSUME NEW d \in Holders(r, i)'
        PROVE  /\ i \in DOMAIN leases'[r]
               /\ leases'[r][i].thatid = thatid'[d]
               /\ leases'[r][i].refcnt >= Cardinality(Holders(r, i)')
    <3>1. i \in DOMAIN leases'[r] /\ leases'[r][i] = l
      BY <1>1, <1>2, WithLeaseFacts
    <3>2. Cardinality(Holders(r, i)) <= Refs(r, i) /\ Refs(r, i) \in Nat
      <4>1. CASE Holders(r, i) = {}
        BY <1>1, <4>1, FS_EmptySet DEF Refs, Inv, TypeOK, Lease
      <4>2. CASE Holders(r, i) # {}
        <5>1. PICK e \in Holders(r, i) : TRUE
          BY <4>2
        <5> QED
          BY <1>1, <2>3, <5>1 DEF Inv, LeasesCoverHolders, Refs, TypeOK, Lease
      <4> QED
        BY <4>1, <4>2
    <3>3. Cardinality(Holders(r, i)') <= Cardinality(Holders(r, i)) + 1
      <4>1. /\ IsFiniteSet(Holders(r, i) \cup {c})
            /\ Cardinality(Holders(r, i) \cup {c})
                 <= Cardinality(Holders(r, i)) + 1
        BY ZenonT(30), <1>1, <2>3, CardAddAtMost
      <4>2. Cardinality(Holders(r, i)') <= Cardinality(Holders(r, i) \cup {c})
        BY <2>2, <4>1, FS_Subset
      <4>3. Cardinality(Holders(r, i) \cup {c}) \in Nat
        BY <4>1, FS_CardinalityType
      <4> QED
        BY <1>1, <2>3, <4>1, <4>2, <4>3
    <3>4. thatid[d] = thatid[c]
      <4>1. CASE d = c
        BY <4>1
      <4>2. CASE d # c
        <5>1. d \in Holders(r, i)
          BY <2>2, <2>5, <4>2
        <5>2. i \in DOMAIN leases[r] /\ leases[r][i].thatid = thatid[d]
              /\ leases[r][i].refcnt >= Cardinality(Holders(r, i))
          BY <1>1, <5>1 DEF Inv, LeasesCoverHolders
        <5>3. Cardinality(Holders(r, i)) > 0
          BY <1>1, <2>3, <5>1, CardZero
        <5>4. Refs(r, i) > 0
          BY <1>1, <2>3, <5>2, <5>3, <3>2
        <5> QED
          BY <1>2, <5>2, <5>4
      <4> QED
        BY <4>1, <4>2
    <3> QED
      BY <1>1, <1>2, <2>3, <3>1, <3>2, <3>3, <3>4
  <2> QED
    BY <2>4, <2>5 DEF LeasesCoverHolders
<1> QED
  BY <1>6, <1>7, <1>8, <1>9, <1>10, <1>11 DEF Inv

\* lease_an_address finds no address: at most a passert fails.
LEMMA NoFreeInv ==
  ASSUME Inv, NEW c \in Conns, no_free_address(c),
         UNCHANGED <<has_lease, client, kind, thatid, pool, now>>
  PROVE  Inv'
<1> USE DEF no_free_address, poolVars
<1>1. TypeOK' /\ PassertsHold'
  BY DEF Inv, TypeOK, Passerts, PassertsHold
<1>2. ConnsOK' /\ PoolsOK'
  BY SMTT(60) DEF Inv, ConnsOK, PoolsOK, LeaseIndex
<1>3. /\ \A r \in Ranges : Users(r)' = Users(r)
      /\ \A r \in Ranges : \A i \in Indexes(r) :
           Holders(r, i)' = Holders(r, i)
  BY SMTT(60) DEF Users, Holders, Holds
<1>4. PoolRefcounts' /\ LeaseIdsOK' /\ LeasesCoverHolders' /\ LingeringCounts'
  BY ZenonT(30), <1>3, SameLeases DEF Inv, PoolRefcounts
<1> QED
  BY <1>1, <1>2, <1>4 DEF Inv

LEMMA CpReplyInv ==
  ASSUME Inv, NEW c \in Conns, ikev2_cp_reply_state(c)
  PROVE  Inv'
<1>1. PICK r \in Ranges : pool[c] = r
  BY DEF ikev2_cp_reply_state, Negotiating, Inv, TypeOK
<1>2. CASE no_free_address(c) /\ UNCHANGED <<has_lease, client>>
  BY <1>2, NoFreeInv DEF ikev2_cp_reply_state
<1>3. ASSUME NEW i \in Indexes(r), lease_an_address(c, i),
             has_lease' = [has_lease EXCEPT ![c] = TRUE],
             client' = [client EXCEPT ![c] = pool[c][1] + i]
      PROVE  Inv'
  BY ZenonT(30), <1>1, <1>3, LeaseInv DEF ikev2_cp_reply_state
<1> QED
  BY <1>1, <1>2, <1>3 DEF ikev2_cp_reply_state

LEMMA ModecfgInv ==
  ASSUME Inv, NEW c \in Conns, NEW u \in BOOLEAN, modecfg_resp(c, u)
  PROVE  Inv'
<1>1. PICK r \in Ranges : pool[c] = r
  BY DEF modecfg_resp, Negotiating, Inv, TypeOK
<1>2. CASE no_free_address(c) /\ UNCHANGED <<has_lease, client>>
  BY <1>2, NoFreeInv DEF modecfg_resp
<1>3. ASSUME NEW i \in Indexes(r), lease_an_address(c, i),
             NEW rec \in BOOLEAN,
             has_lease' = [has_lease EXCEPT ![c] = @ \/ rec],
             client' = [client EXCEPT ![c] = IF rec THEN pool[c][1] + i ELSE @]
      PROVE  Inv'
  <2>1. has_lease \in [Conns -> BOOLEAN] /\ client \in [Conns -> Int]
    BY DEF Inv, TypeOK
  <2>2. CASE rec
    <3>1. has_lease' = [has_lease EXCEPT ![c] = TRUE]
      BY ZenonT(30), <1>3, <2>1, <2>2
    <3>2. client' = [client EXCEPT ![c] = pool[c][1] + i]
      BY <1>3, <2>2
    <3> QED
      BY ZenonT(30), <1>1, <1>3, <3>1, <3>2, LeaseInv DEF modecfg_resp
  <2>3. CASE ~ rec
    <3>1. has_lease' = has_lease
      BY <1>3, <2>1, <2>3
    <3>2. client' = client
      BY <1>3, <2>1, <2>3
    <3> QED
      BY ZenonT(30), <1>1, <1>3, <3>1, <3>2, LeaseInv DEF modecfg_resp
  <2> QED
    BY <2>2, <2>3
<1>4. CASE \E i \in Indexes(pool[c]) :
             LET rec == u /\ client[c] # pool[c][1] + i
             IN  /\ lease_an_address(c, i)
                 /\ has_lease' = [has_lease EXCEPT ![c] = @ \/ rec]
                 /\ client' = [client EXCEPT ![c] =
                                 IF rec THEN pool[c][1] + i ELSE @]
  <2>1. PICK i \in Indexes(r) :
          /\ lease_an_address(c, i)
          /\ has_lease' = [has_lease EXCEPT ![c] =
                             @ \/ (u /\ client[c] # pool[c][1] + i)]
          /\ client' = [client EXCEPT ![c] =
                          IF u /\ client[c] # pool[c][1] + i
                            THEN pool[c][1] + i ELSE @]
    BY ZenonT(30), <1>1, <1>4
  <2> DEFINE rec == u /\ client[c] # pool[c][1] + i
  <2>2. rec \in BOOLEAN
    OBVIOUS
  <2>3. /\ has_lease' = [has_lease EXCEPT ![c] = @ \/ rec]
        /\ client' = [client EXCEPT ![c] = IF rec THEN pool[c][1] + i ELSE @]
    BY <2>1
  <2> HIDE DEF rec
  <2> QED
    BY ZenonT(30), <1>3, <2>1, <2>2, <2>3
<1> QED
  BY <1>2, <1>4 DEF modecfg_resp

LEMMA TickInv ==
  ASSUME Inv, Tick
  PROVE  Inv'
<1> USE DEF Tick, poolVars, connVars
<1>1. TypeOK'
  BY BoundsAssumption DEF Inv, TypeOK
<1>2. ConnsOK' /\ PoolsOK' /\ PassertsHold'
  BY DEF Inv, ConnsOK, PoolsOK, PassertsHold, LeaseIndex
<1>3. /\ \A r \in Ranges : Users(r)' = Users(r)
      /\ \A r \in Ranges : \A i \in Indexes(r) :
           Holders(r, i)' = Holders(r, i)
  BY DEF Users, Holders, Holds
<1>4. PoolRefcounts' /\ LeaseIdsOK' /\ LeasesCoverHolders' /\ LingeringCounts'
  BY <1>3, SameLeases DEF Inv, PoolRefcounts
<1> QED
  BY <1>1, <1>2, <1>4 DEF Inv

=============================================================================
