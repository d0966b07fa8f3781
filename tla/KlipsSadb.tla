----------------------------- MODULE KlipsSadb -----------------------------
(***************************************************************************)
(* The SA database of the KLIPS kernel stack (linux/net/ipsec/ipsec_sa.c): *)
(* reference-counted SAs, the hash chain they are looked up in, and the    *)
(* table of SA references (SArefs) with its list of free ones.             *)
(*                                                                         *)
(* The operators map a database to a database; KlipsReceive has the        *)
(* PF_KEY handlers and the packets that use them.                          *)
(***************************************************************************)
EXTENDS Integers, Sequences, FiniteSets, Bags, SequencesExt

CONSTANTS Saids,         \* SA identifiers
          MaxSa,         \* SAs that fit in memory
          MainTables,    \* IPSEC_SA_REF_MAINTABLE_NUM_ENTRIES
          SubEntries,    \* IPSEC_SA_REF_SUBTABLE_NUM_ENTRIES
          FreeListSize,  \* IPSEC_SA_REF_FREELIST_NUM_ENTRIES
          NoSa           \* the NULL pointer

Sa == 1..MaxSa
Refs == 0..(MainTables * SubEntries - 1)
NoRef == 0               \* IPSEC_SAREF_NULL
FirstRef == 1            \* IPSEC_SAREF_FIRST

(***************************************************************************)
(* A database is a record:                                                 *)
(*   sa     the struct ipsec_sa at each address, NoSa where there is none  *)
(*   hash   the hash chain, head first (one bucket: all SAs collide)       *)
(*   table  refTable: the SA at each SAref                                 *)
(*   subs   the main-table slots whose sub-table is allocated              *)
(*   free   refFreeList from refFreeListHead to refFreeListTail            *)
(*   cont   refFreeListCont                                                *)
(*   late   history: a packet was accepted when its SA could not be found  *)
(***************************************************************************)
ipsec_sadb_init ==
  [sa |-> [s \in Sa |-> NoSa], hash |-> <<>>,
   table |-> [r \in Refs |-> NoSa], subs |-> {0},
   free |-> <<>>, cont |-> FirstRef, late |-> FALSE]

Live(db) == {s \in Sa : db.sa[s] # NoSa}
Table(ref) == ref \div SubEntries

-----------------------------------------------------------------------------
(* Reference counts. *)

ipsec_sa_get(db, s) ==
  IF s = NoSa THEN db ELSE [db EXCEPT !.sa[s].refcount = @ + 1]

\* A zeroed SA with one reference, that of its allocation.  The last five fields
\* are history: the sequence numbers it accepted and sent, whether it still has the
\* reference of its allocation, those an UPDATE of its NAT-T ports left on it,
\* and whether a DELETE named its group.
FreshSa(said, state) ==
  [said |-> said, state |-> state, refcount |-> 1, ref |-> NoRef,
   next |-> NoSa, prev |-> NoSa, lastseq |-> 0, bitmap |-> {},
   took |-> EmptyBag, sent |-> EmptyBag,
   alloc |-> TRUE, natt |-> 0, deleted |-> FALSE]
Addresses(db) == Sa \ Live(db)
ipsec_sa_alloc(db, s, said, state) == [db EXCEPT !.sa[s] = FreshSa(said, state)]

Unhash(chain, s) == SelectSeq(chain, LAMBDA t : t # s)
Successor(chain, s) ==
  LET after == {i \in 2..Len(chain) : chain[i - 1] = s}
  IN  IF after = {} THEN NoSa ELSE chain[CHOOSE i \in after : TRUE]

RECURSIVE ipsec_sa_put(_, _)
PutAlloc(db, s) == ipsec_sa_put([db EXCEPT !.sa[s].alloc = FALSE], s)

\* Mutant: the neighbours of a group keep their links to the SA.
WipeLinked(db, s) ==
  LET me == db.sa[s]
      d1 == IF me.ref # NoRef /\ db.table[me.ref] = s
              THEN [db EXCEPT !.table[me.ref] = NoSa] ELSE db
      d2 == IF me.next # NoSa /\ d1.sa[me.next] # NoSa THEN PutAlloc(d1, me.next) ELSE d1
  IN  [d2 EXCEPT !.hash = Unhash(@, s), !.sa[s] = NoSa]
\* Mutant: the SA that follows in the group is not freed.
WipeAlone(db, s) ==
  LET me == db.sa[s]
      d1 == IF me.ref # NoRef /\ db.table[me.ref] = s
              THEN [db EXCEPT !.table[me.ref] = NoSa] ELSE db
      d2 == IF me.prev # NoSa THEN [d1 EXCEPT !.sa[me.prev].next = me.next] ELSE d1
      d3 == IF me.next # NoSa THEN [d2 EXCEPT !.sa[me.next].prev = me.prev] ELSE d2
  IN  [d3 EXCEPT !.hash = Unhash(@, s), !.sa[s] = NoSa]
\* The neighbours of a group are joined, and the SA that follows loses the
\* reference of its allocation: the group owns it.
ipsec_sa_wipe(db, s) ==
  LET me == db.sa[s]
      d1 == IF me.ref # NoRef /\ db.table[me.ref] = s
              THEN [db EXCEPT !.table[me.ref] = NoSa] ELSE db
      d2 == IF me.prev # NoSa /\ d1.sa[me.prev] # NoSa
              THEN [d1 EXCEPT !.sa[me.prev].next = me.next] ELSE d1
      d3 == IF me.next # NoSa /\ d2.sa[me.next] # NoSa
              THEN PutAlloc([d2 EXCEPT !.sa[me.next].prev = me.prev], me.next)
              ELSE d2
      d4 == [d3 EXCEPT !.hash = Unhash(@, s)]
      d5 == ipsec_sa_put(d4, Successor(d3.hash, s))
  IN  [d5 EXCEPT !.sa[s] = NoSa]

\* A put of an SA that is gone already is left to the invariants.
ipsec_sa_put(db, s) ==
  IF s = NoSa THEN db
  ELSE IF db.sa[s] = NoSa THEN db
  ELSE LET d == [db EXCEPT !.sa[s].refcount = @ - 1]
       IN  IF d.sa[s].refcount = 0 THEN ipsec_sa_wipe(d, s) ELSE d

-----------------------------------------------------------------------------
(* The hash chain. *)

\* The first SA of the chain with the identifier, NoSa if there is none.
\* ipsec_sa_getbyid takes a reference to it.
Lookup(db, said) ==
  LET hits == SelectSeq(db.hash, LAMBDA s : db.sa[s] # NoSa /\ db.sa[s].said = said)
  IN  IF hits = <<>> THEN NoSa ELSE Head(hits)

ipsec_sa_add(db, s) ==
  [ipsec_sa_get(db, s) EXCEPT !.hash = <<s>> \o @]

\* Mutant: the chain keeps its reference.
RmKept(db, s) == [db EXCEPT !.hash = Unhash(@, s)]
\* ipsec_sa_rm of an SA that is not in the chain does nothing.
ipsec_sa_rm(db, s) ==
  IF Contains(db.hash, s)
    THEN ipsec_sa_put([db EXCEPT !.hash = Unhash(@, s)], s)
    ELSE db

-----------------------------------------------------------------------------
(* SArefs. *)

\* The scan of ipsec_SAref_recycle: at most MainTables sub-tables from cont on.
\* It stops at the first one that is not there, which it allocates, and when
\* the list is full.  The slot 0 of the list is never used.
RECURSIVE Scan(_, _, _)
Scan(db, i, list) ==
  LET cont == IF db.cont = MainTables * SubEntries THEN FirstRef ELSE db.cont
      t    == Table(cont)
      unused == SelectSeq([k \in 1..((t + 1) * SubEntries - cont) |-> cont + k - 1],
                          LAMBDA r : db.table[r] = NoSa)
      room == FreeListSize - 1 - Len(list)
  IN  IF i = MainTables THEN [db |-> db, list |-> list]
      ELSE IF t \notin db.subs
        THEN [db |-> [db EXCEPT !.cont = cont, !.subs = @ \cup {t}], list |-> list]
      ELSE IF Len(unused) >= room
        THEN [db |-> db, list |-> list \o SubSeq(unused, 1, room)]
      ELSE Scan([db EXCEPT !.cont = (t + 1) * SubEntries], i + 1, list \o unused)

\* Mutant: the entries are not looked at.
RecycleAll(db) ==
  [db EXCEPT !.free = [k \in 1..(FreeListSize - 1) |-> k], !.cont = FreeListSize]
\* Nothing found is -ENOSPC, also when a sub-table was just added.
ipsec_SAref_recycle(db) ==
  LET r == Scan(db, 0, <<>>)
  IN  IF r.list = <<>> THEN [r.db EXCEPT !.free = <<>>]
      ELSE [r.db EXCEPT !.free = r.list, !.cont = Last(r.list) + 1]

\* ipsec_SAref_alloc: the list is refilled when it is empty.
Refilled(db) == IF db.free = <<>> THEN ipsec_SAref_recycle(db) ELSE db

\* ipsec_sa_intern puts the SA at its SAref, at a new one if it has none, in
\* the place of the SA that was there.  It fails when no SAref is free.
CanIntern(db, s) == db.sa[s].ref # NoRef \/ Refilled(db).free # <<>>
ipsec_sa_intern(db, s) ==
  LET d1 == IF db.sa[s].ref # NoRef THEN db
            ELSE LET d == Refilled(db)
                 IN  [d EXCEPT !.sa[s].ref = Head(d.free), !.free = Tail(@)]
      ref == d1.sa[s].ref
      d2 == ipsec_sa_get([d1 EXCEPT !.subs = @ \cup {Table(ref)}], s)
  IN  [ipsec_sa_put(d2, d2.table[ref]) EXCEPT !.table[ref] = s]

\* ipsec_sa_untern: only if the slot still holds this SA.
ipsec_sa_untern(db, s) ==
  IF db.table[db.sa[s].ref] = s
    THEN ipsec_sa_put([db EXCEPT !.table[db.sa[s].ref] = NoSa], s)
    ELSE db

-----------------------------------------------------------------------------
(* Groups and the flush. *)

RECURSIVE GroupHead(_, _)
GroupHead(db, s) ==
  IF db.sa[s].prev = NoSa THEN s ELSE GroupHead(db, db.sa[s].prev)

RECURSIVE GroupFrom(_, _)
GroupFrom(db, s) ==
  IF s = NoSa THEN <<>> ELSE <<s>> \o GroupFrom(db, db.sa[s].next)
Group(db, s) == GroupFrom(db, GroupHead(db, s))

\* First half of ipsec_sadb_cleanup, under the lock: the chain is emptied.
RECURSIVE EmptyHash(_)
EmptyHash(db) ==
  IF db.hash = <<>> THEN db
  ELSE EmptyHash(ipsec_sa_put([db EXCEPT !.hash = Tail(@)], Head(db.hash)))

\* Second half: every SAref entry up to the first missing sub-table.
RECURSIVE EmptyTable(_, _)
EmptyTable(db, ref) ==
  IF ref = MainTables * SubEntries \/ Table(ref) \notin db.subs THEN db
  ELSE EmptyTable([ipsec_sa_put(db, db.table[ref]) EXCEPT !.table[ref] = NoSa], ref + 1)
=============================================================================
