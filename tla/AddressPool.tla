---------------------------- MODULE AddressPool ----------------------------
(***************************************************************************)
(* The address pools of pluto (programs/pluto/addresspool.c) and the       *)
(* connection operations that use them: adding and deleting connections,   *)
(* instantiating a template, and leasing an address to an IKEv2 client     *)
(* (CP) or to an IKEv1 client (Mode Config).                               *)
(*                                                                         *)
(* A pool is named by its range <<start, end>>; addresses are integers and *)
(* a lease's index is the address minus the start of the range.  A lease   *)
(* list sorted by index is a function whose domain is the set of leased    *)
(* indexes.  Everything runs in pluto's single event loop, so a handler is *)
(* one action.  A passert that fails ends the daemon.                      *)
(***************************************************************************)
EXTENDS Integers, FiniteSets

CONSTANTS Conns,        \* struct connection objects
          Ids,          \* peer IDs that name a peer (kind /= ID_NULL)
          NullId,       \* the ID of kind ID_NULL
          Ranges,       \* ranges a pool may be configured with
          NoPool,       \* c->pool == NULL
          MaxTime,      \* bound on the clock
          MaxRefcnt,    \* bound on the references to one lease
          MaxUsed       \* bound on the counter used of a pool

ASSUME RangesAssumption ==
  Ranges \subseteq {r \in Nat \X Nat : r[1] <= r[2]}
ASSUME NamesAssumption == NoPool \notin Ranges /\ NullId \notin Ids
ASSUME BoundsAssumption == {MaxTime, MaxRefcnt, MaxUsed} \subseteq Nat
ASSUME ConnsAssumption == IsFiniteSet(Conns)

VARIABLES pools,      \* the ranges on the list pluto_pools
          refcount,   \* [range -> pool_refcount]
          used,       \* [range -> used]
          lingering,  \* [range -> lingering]
          leases,     \* [range -> [leased index -> lease]]
          kind,       \* [connection -> kind, "FREE" if it does not exist]
          thatid,     \* [connection -> spd.that.id]
          pool,       \* [connection -> range of c->pool, or NoPool]
          has_lease,  \* [connection -> spd.that.has_lease]
          client,     \* [connection -> spd.that.client.addr]
          now,        \* mononow()
          failed      \* the passert that ended the daemon, or "none"

poolVars == <<pools, refcount, used, lingering, leases>>
connVars == <<kind, thatid, pool, has_lease, client>>
vars == <<pools, refcount, used, lingering, leases, kind, thatid, pool,
          has_lease, client, now, failed>>

AllIds == Ids \cup {NullId}
Kinds == {"FREE", "TEMPLATE", "PERMANENT", "INSTANCE"}
Size(r) == r[2] - r[1] + 1
Indexes(r) == 0 .. Size(r) - 1
Lease == [thatid : AllIds, refcnt : Nat, since : Nat]

\* The functions of addresspool.c whose passerts the model evaluates.
Passerts == {"none", "rel_lease_addr", "unreference_addresspool",
             "lease_an_address"}

TypeOK ==
  /\ pools \subseteq Ranges
  /\ refcount \in [Ranges -> Nat]
  /\ used \in [Ranges -> Int]
  /\ lingering \in [Ranges -> Int]
  /\ leases = [r \in Ranges |-> leases[r]]
  /\ \A r \in Ranges : /\ DOMAIN leases[r] \subseteq Indexes(r)
                       /\ leases[r] \in [DOMAIN leases[r] -> Lease]
  /\ kind \in [Conns -> Kinds]
  /\ thatid \in [Conns -> AllIds]
  /\ pool \in [Conns -> Ranges \cup {NoPool}]
  /\ has_lease \in [Conns -> BOOLEAN]
  /\ client \in [Conns -> Int]
  /\ now \in 0 .. MaxTime
  /\ failed \in Passerts

NoAddress == -1
Empty == [i \in {} |-> [thatid |-> NullId, refcnt |-> 0, since |-> 0]]

Init ==
  /\ pools = {}
  /\ refcount = [r \in Ranges |-> 0]
  /\ used = [r \in Ranges |-> 0]
  /\ lingering = [r \in Ranges |-> 0]
  /\ leases = [r \in Ranges |-> Empty]
  /\ kind = [c \in Conns |-> "FREE"]
  /\ thatid = [c \in Conns |-> NullId]
  /\ pool = [c \in Conns |-> NoPool]
  /\ has_lease = [c \in Conns |-> FALSE]
  /\ client = [c \in Conns |-> NoAddress]
  /\ now = 0
  /\ failed = "none"

Alive == failed = "none"

(***************************************************************************)
(* The list of pools.                                                      *)
(***************************************************************************)

\* The ranges overlap without being equal: the clash find_addresspool reports.
Overlaps(a, b) ==
  /\ a # b
  /\ ~ (IF a[1] < b[1] THEN a[2] < b[1] ELSE a[1] > b[2])

find_addresspool(r) == \A h \in pools : ~ Overlaps(r, h)

\* install_addresspool followed by the reference_addresspool that
\* unshare_connection makes on behalf of the new connection.  A pool that is
\* already on the list is re-used with its leases; the counters of a range that
\* is not on the list are zero.
install_addresspool(r) ==
  /\ pools' = pools \cup {r}
  /\ refcount' = [refcount EXCEPT ![r] = @ + 1]
  /\ UNCHANGED <<used, lingering, leases>>

\* A connection loaded by whack --add.  check_connection_end refuses one
\* whose pool clashes with a pool on the list.  The ID of a template is never
\* looked at here.
add_connection(c, k, id, r) ==
  /\ Alive
  /\ kind[c] = "FREE"
  /\ kind' = [kind EXCEPT ![c] = k]
  /\ thatid' = [thatid EXCEPT ![c] = id]
  /\ pool' = [pool EXCEPT ![c] = r]
  /\ \/ r = NoPool /\ UNCHANGED poolVars
     \/ r \in Ranges /\ find_addresspool(r) /\ install_addresspool(r)
  /\ UNCHANGED <<has_lease, client, now, failed>>

\* Mutant of reference_addresspool: the reference is not counted.
reference_addresspool_uncounted(r) == r \in Ranges /\ UNCHANGED poolVars

reference_addresspool(r) ==
  /\ refcount' = [refcount EXCEPT ![r] = @ + 1]
  /\ UNCHANGED <<pools, used, lingering, leases>>

\* instantiate: an instance of template t for a peer with the given ID; the
\* clone copies the end of the template, so its lease fields as well.
instantiate(t, c, id) ==
  /\ Alive
  /\ kind[t] = "TEMPLATE" /\ kind[c] = "FREE"
  /\ kind' = [kind EXCEPT ![c] = "INSTANCE"]
  /\ thatid' = [thatid EXCEPT ![c] = id]
  /\ pool' = [pool EXCEPT ![c] = pool[t]]
  /\ has_lease' = [has_lease EXCEPT ![c] = has_lease[t]]
  /\ client' = [client EXCEPT ![c] = client[t]]
  /\ \/ pool[t] = NoPool /\ UNCHANGED poolVars
     \/ pool[t] \in Ranges /\ reference_addresspool(pool[t])
  /\ UNCHANGED <<now, failed>>

(***************************************************************************)
(* Leasing an address.                                                     *)
(***************************************************************************)

\* The lease lists when the lease at index i of pool r is made, or becomes, l.
WithLease(r, i, l) ==
  [leases EXCEPT ![r] = [j \in DOMAIN leases[r] \cup {i} |->
                           IF j = i THEN l ELSE leases[r][j]]]

\* A lease for peer id that has the given count of references.
LeaseFor(id, n, t) == [thatid |-> id, refcnt |-> n, since |-> t]

\* Mutant of could_share_lease: anonymous peers share as well.
could_share_lease_always(c) == c \in Conns

could_share_lease(c) == thatid[c] # NullId

\* Mutant of Sharable: only a lingering lease is found again.
Sharable_lingering(c) ==
  {i \in DOMAIN leases[pool[c]] :
     /\ could_share_lease(c) /\ leases[pool[c]][i].thatid = thatid[c]
     /\ leases[pool[c]][i].refcnt = 0}

\* The leases that c may share: those held for, or lingering for, its peer.
Sharable(c) ==
  {i \in DOMAIN leases[pool[c]] :
     could_share_lease(c) /\ leases[pool[c]][i].thatid = thatid[c]}

\* Mutant of share_lease: only the revival of a lingering lease takes a
\* reference.
share_lease_uncounted(c, i) ==
  LET r == pool[c]
      l == leases[r][i]
      revived == l.refcnt = 0
  IN  /\ i \in Sharable(c) /\ \A j \in Sharable(c) : i <= j
      /\ revived => used[r] < MaxUsed
      /\ leases' = WithLease(r, i, LeaseFor(l.thatid, 1, l.since))
      /\ lingering' = [lingering EXCEPT ![r] = IF revived THEN @ - 1 ELSE @]
      /\ used' = [used EXCEPT ![r] = IF revived THEN @ + 1 ELSE @]

\* The lease at index i is the first sharable one on the list: take a
\* reference, reviving the lease if it lingers.
share_lease(c, i) ==
  LET r == pool[c]
      l == leases[r][i]
      revived == l.refcnt = 0
  IN  /\ i \in Sharable(c) /\ \A j \in Sharable(c) : i <= j
      /\ l.refcnt < MaxRefcnt
      /\ revived => used[r] < MaxUsed
      /\ leases' = WithLease(r, i, LeaseFor(l.thatid, l.refcnt + 1, l.since))
      /\ lingering' = [lingering EXCEPT ![r] = IF revived THEN @ - 1 ELSE @]
      /\ used' = [used EXCEPT ![r] = IF revived THEN @ + 1 ELSE @]

Unleased(r) == Indexes(r) \ DOMAIN leases[r]

\* No lease can be shared: a new one is made at the first gap of the list.
new_lease(c, i) ==
  LET r == pool[c]
  IN  /\ Sharable(c) = {}
      /\ i \in Unleased(r) /\ \A j \in Unleased(r) : i <= j
      /\ leases' = WithLease(r, i, LeaseFor(thatid[c], 1, 0))
      /\ used' = [used EXCEPT ![r] = @ + 1]
      /\ UNCHANGED lingering

Lingerers(r) == {i \in DOMAIN leases[r] : leases[r][i].refcnt = 0}

\* What the scan of the list leaves in ll: a later lingerer replaces an
\* earlier one on the list only if it began to linger strictly later.
longest_lingerer(r, i) ==
  /\ i \in Lingerers(r)
  /\ \A j \in Lingerers(r) :
       \/ leases[r][j].since < leases[r][i].since
       \/ leases[r][j].since = leases[r][i].since /\ i <= j

\* Mutant of take_over_lease: the new peer's reference is not counted.
take_over_lease_uncounted(c, i) ==
  LET r == pool[c]
  IN  /\ Sharable(c) = {} /\ Unleased(r) = {}
      /\ longest_lingerer(r, i)
      /\ leases' = WithLease(r, i, LeaseFor(thatid[c], leases[r][i].refcnt,
                                            leases[r][i].since))
      /\ lingering' = [lingering EXCEPT ![r] = @ - 1]
      /\ UNCHANGED used

\* The pool is full: a lingering lease is handed to c's peer.
take_over_lease(c, i) ==
  LET r == pool[c]
  IN  /\ Sharable(c) = {} /\ Unleased(r) = {}
      /\ longest_lingerer(r, i)
      /\ leases' = WithLease(r, i, LeaseFor(thatid[c], leases[r][i].refcnt + 1,
                                            leases[r][i].since))
      /\ lingering' = [lingering EXCEPT ![r] = @ - 1]
      /\ UNCHANGED used

\* lease_an_address when it yields the address with index i.
lease_an_address(c, i) ==
  /\ share_lease(c, i) \/ new_lease(c, i) \/ take_over_lease(c, i)
  /\ UNCHANGED <<pools, refcount, failed>>

\* lease_an_address when it fails: the handler gives up with an error, after
\* passert(size == used).
no_free_address(c) ==
  LET r == pool[c]
  IN  /\ Sharable(c) = {} /\ Unleased(r) = {} /\ Lingerers(r) = {}
      /\ failed' = IF Size(r) = used[r] THEN "none" ELSE "lease_an_address"
      /\ UNCHANGED poolVars

\* Only a connection a negotiation runs on asks for an address.
Negotiating(c) == kind[c] \in {"PERMANENT", "INSTANCE"} /\ pool[c] # NoPool

\* An IKEv2 peer asks for an address with a CP payload.
ikev2_cp_reply_state(c) ==
  /\ Alive /\ Negotiating(c)
  /\ \/ \E i \in Indexes(pool[c]) :
          /\ lease_an_address(c, i)
          /\ has_lease' = [has_lease EXCEPT ![c] = TRUE]
          /\ client' = [client EXCEPT ![c] = pool[c][1] + i]
     \/ no_free_address(c) /\ UNCHANGED <<has_lease, client>>
  /\ UNCHANGED <<kind, thatid, pool, now>>

\* An IKEv1 peer is given an address by Mode Config.  Only an address that is
\* to be the client's (use_addr) and differs from its present one is recorded.
modecfg_resp(c, use_addr) ==
  /\ Alive /\ Negotiating(c)
  /\ \/ \E i \in Indexes(pool[c]) :
          LET record == use_addr /\ client[c] # pool[c][1] + i
          IN  /\ lease_an_address(c, i)
              /\ has_lease' = [has_lease EXCEPT ![c] = @ \/ record]
              /\ client' = [client EXCEPT ![c] =
                              IF record THEN pool[c][1] + i ELSE @]
     \/ no_free_address(c) /\ UNCHANGED <<has_lease, client>>
  /\ UNCHANGED <<kind, thatid, pool, now>>

(***************************************************************************)
(* Releasing a lease, and deleting a connection.                           *)
(***************************************************************************)

LeaseIndex(c) == client[c] - pool[c][1]

\* The passerts of rel_lease_addr: the index is in the range and leased, and
\* the reference count is positive, or 1 for a lease that is not shared.
RelPasserts(c) ==
  LET r == pool[c]
      i == LeaseIndex(c)
  IN  /\ i \in DOMAIN leases[r]
      /\ IF could_share_lease(c) THEN leases[r][i].refcnt > 0
                                 ELSE leases[r][i].refcnt = 1

\* rel_lease_addr: a lease that can be shared is left on the list, to linger
\* once nobody refers to it; any other lease is freed.
rel_lease_addr(c) ==
  LET r == pool[c]
      i == LeaseIndex(c)
      l == leases[r][i]
      last == l.refcnt = 1
      left == LeaseFor(l.thatid, l.refcnt - 1, IF last THEN now ELSE l.since)
      rest == [j \in DOMAIN leases[r] \ {i} |-> leases[r][j]]
  IN  IF could_share_lease(c)
        THEN [leases |-> WithLease(r, i, left)[r], used |-> used[r],
              lingering |-> lingering[r] + IF last THEN 1 ELSE 0]
        ELSE [leases |-> rest, used |-> used[r] - 1,
              lingering |-> lingering[r]]

\* What delete_connection does to the leases of c's pool: only an instance
\* that has a lease releases it.
Releases(c) == kind[c] = "INSTANCE" /\ has_lease[c]

AfterRelease(c) ==
  IF Releases(c)
    THEN rel_lease_addr(c)
    ELSE [leases |-> leases[pool[c]], used |-> used[pool[c]],
          lingering |-> lingering[pool[c]]]

\* unreference_addresspool: the last reference takes the pool off the list and
\* frees it with its leases.  ls is the pool after the release of c's lease.
unreference_addresspool(c, ls) ==
  LET r == pool[c]
      last == refcount[r] = 1
  IN  /\ refcount' = [refcount EXCEPT ![r] = @ - 1]
      /\ pools' = IF last THEN pools \ {r} ELSE pools
      /\ leases' = [leases EXCEPT ![r] = IF last THEN Empty ELSE ls.leases]
      /\ used' = [used EXCEPT ![r] = IF last THEN 0 ELSE ls.used]
      /\ lingering' = [lingering EXCEPT ![r] = IF last THEN 0
                                               ELSE ls.lingering]

Forget(c) ==
  /\ kind' = [kind EXCEPT ![c] = "FREE"]
  /\ thatid' = [thatid EXCEPT ![c] = NullId]
  /\ pool' = [pool EXCEPT ![c] = NoPool]
  /\ has_lease' = [has_lease EXCEPT ![c] = FALSE]
  /\ client' = [client EXCEPT ![c] = NoAddress]

\* The function whose passert delete_connection fails, if any.
DeleteFault(c) ==
  CASE pool[c] = NoPool -> "none"
    [] pool[c] # NoPool /\ Releases(c) /\ ~ RelPasserts(c) ->
         "rel_lease_addr"
    [] pool[c] # NoPool /\ (Releases(c) => RelPasserts(c)) ->
         IF refcount[pool[c]] > 0 THEN "none" ELSE "unreference_addresspool"

delete_connection(c) ==
  /\ Alive
  /\ kind[c] # "FREE"
  /\ failed' = DeleteFault(c)
  /\ IF DeleteFault(c) # "none"
       THEN UNCHANGED <<poolVars, connVars>>
       ELSE /\ Forget(c)
            /\ IF pool[c] = NoPool
                 THEN UNCHANGED poolVars
                 ELSE unreference_addresspool(c, AfterRelease(c))
  /\ UNCHANGED now

Tick == Alive /\ now < MaxTime /\ now' = now + 1
        /\ UNCHANGED <<poolVars, connVars, failed>>

Next ==
  \/ \E c \in Conns, r \in Ranges \cup {NoPool} :
        add_connection(c, "TEMPLATE", NullId, r)
  \/ \E c \in Conns, id \in AllIds, r \in Ranges \cup {NoPool} :
        add_connection(c, "PERMANENT", id, r)
  \/ \E t, c \in Conns, id \in AllIds : instantiate(t, c, id)
  \/ \E c \in Conns : ikev2_cp_reply_state(c)
  \/ \E c \in Conns, u \in BOOLEAN : modecfg_resp(c, u)
  \/ \E c \in Conns : delete_connection(c)
  \/ Tick

Spec == Init /\ [][Next]_vars

(***************************************************************************)
(* Properties.                                                             *)
(***************************************************************************)

Holds(c, r, i) ==
  /\ kind[c] # "FREE" /\ has_lease[c]
  /\ pool[c] = r /\ client[c] = r[1] + i

Holders(r, i) == {c \in Conns : Holds(c, r, i)}
Users(r) == {c \in Conns : kind[c] # "FREE" /\ pool[c] = r}

\* The reference count of a pool is the number of connections that use it, so
\* a pool is on pluto_pools exactly as long as some connection uses it: no
\* order of adding, instantiating and deleting connections leaves a connection
\* with a freed pool, or a pool that nobody can free.
PoolRefcounts ==
  \A r \in Ranges : /\ refcount[r] = Cardinality(Users(r))
                    /\ r \in pools <=> Users(r) # {}

\* No two pools on the list have an address in common (find_addresspool),
\* whatever was added and freed in between, so an address belongs to one pool.
PoolsDisjoint ==
  \A r, s \in pools : r # s => (r[1] .. r[2]) \cap (s[1] .. s[2]) = {}

\* An address that a connection holds is leased to its peer, and the lease
\* counts at least the connections that hold it: releases by other connections
\* never let it linger, be freed or be taken over under a connection.
LeasesCoverHolders ==
  \A r \in Ranges : \A i \in Indexes(r) : \A c \in Holders(r, i) :
    /\ i \in DOMAIN leases[r]
    /\ leases[r][i].thatid = thatid[c]
    /\ leases[r][i].refcnt >= Cardinality(Holders(r, i))

\* Two connections hold the same address only if they belong to the same named
\* peer; an anonymous (ID_NULL) peer never shares its address.
OneIdentityPerAddress ==
  \A r \in Ranges : \A i \in Indexes(r) : \A c, d \in Holders(r, i) :
    c # d => thatid[c] = thatid[d] /\ thatid[c] # NullId

\* The passerts of rel_lease_addr (index in range, lease found, reference count
\* positive, 1 when not shared) and of unreference_addresspool never fail.
PassertsHold == failed \notin {"rel_lease_addr", "unreference_addresspool"}

\* The pool's lingering counter is the number of leases nobody refers to.
LingeringCounts ==
  \A r \in Ranges : lingering[r] = Cardinality(Lingerers(r))

\* A named peer that asks for an address again while its connection has one is
\* given the same address by lease_an_address.
NamedPeerKeepsAddress ==
  [][\A c \in Conns :
       has_lease[c] /\ has_lease'[c] /\ could_share_lease(c)
         => client'[c] = client[c]]_vars

\* passert(size == used) in lease_an_address: a pool without a free or a
\* lingering address has as many addresses in use as it has addresses.
FullPoolIsUsedUp == failed # "lease_an_address"

====
