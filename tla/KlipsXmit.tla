------------------------------ MODULE KlipsXmit ------------------------------
(***************************************************************************)
(* The KLIPS transmit path (linux/net/ipsec/ipsec_xmit.c, ipsec_tunnel.c,  *)
(* ipsec_mast.c, ipsec_ocf.c), the eroutes that lead packets into it       *)
(* (ipsec_radij.c) and the PF_KEY handlers that change them, over the SA   *)
(* database KlipsReceive shares with it.                                   *)
(*                                                                         *)
(* A packet is led to a group of SAs or to a shunt by its eroute, under    *)
(* eroute_lock.  The states of xmit_state_table apply the SAs of the group *)
(* one after the other under tdb_lock, which is released while OCF         *)
(* encrypts or compresses.  Then the packet is sent, under no lock.        *)
(***************************************************************************)
EXTENDS KlipsReceive

CONSTANTS XmitSlots,     \* packets in flight (ipsec_ixs_cache_allocated_max)
          Skbs,          \* packets
          Flow,          \* the flow of each packet: source and destination
          OuterFlow,     \* the flow of an encapsulated packet
          Own,           \* packets of the IKE daemon or of IPsec itself
          Dst,           \* the destination of each SA identifier
          Keys,          \* eroute keys
          HostKey,       \* the key of exactly one flow
          NetKey,        \* the key of a net that covers it
          FlowRoutes,    \* <<key, identifier or shunt>> PF_KEY asks for
          LifeAt,        \* positions in a group where a lifetime may end
          Mishaps,       \* pairs of a fault and a room, see below
          SeqTop         \* the last sequence number, 2^32 - 1

VARIABLES ixs,           \* the transmit state of each slot, NoSa when free
          eroutes,       \* the eroute at each key, NoSa where there is none
          skbs           \* [fresh, live, queue, lost], see XmitInit

xmitVars == <<ixs, eroutes, skbs>>

Shunts == {"DROP", "REJECT", "HOLD", "PASS", "TRAP", "TRAPSUBNET"}

\* The buffers of a packet: its own, the copy with more room and the clone
\* kept while it is compressed.
Buffer(p, kind) == <<p, kind>>

\* What goes wrong in a run of the state machine: nothing, no listener for an
\* ACQUIRE, no memory for an eroute, a hard lifetime, no room or memory before
\* the encapsulation, in it, or no crypto request.
Faults == {"none", "acquire", "eroute", "life", "room", "encap", "request"}
\* How the headers get their room: there is enough, a copy is made or fails.
Rooms == {"fits", "copied", "nocopy"}

-----------------------------------------------------------------------------
(* Eroutes.  A world holds what a step changes: the database, the eroutes,  *)
(* the buffers and the transmit state of the packet.                        *)

World(x) == [db |-> db, er |-> eroutes, skbs |-> skbs, x |-> x]

Eroute(said, first) == [said |-> said, first |-> first, last |-> NoSa]

\* rj_match finds the most specific eroute of a flow.
ipsec_findroute(er, flow) ==
  CASE er[HostKey[flow]] # NoSa -> HostKey[flow]
    [] er[HostKey[flow]] = NoSa /\ er[NetKey[flow]] # NoSa -> NetKey[flow]
    [] OTHER -> NoSa

\* The packets an eroute keeps, which ipsec_breakroute hands to its caller.
Kept(er, key) == IF er[key] = NoSa THEN {} ELSE {er[key].first, er[key].last} \ {NoSa}

\* Mutant: the packet is kept and still belongs to the transmit state.
HoldShared(w, fault) ==
  LET key == HostKey[Flow[w.x.skb[1]]]
      w1 == [w EXCEPT !.skbs.live = @ \ Kept(w.er, key), !.er[key] = NoSa]
  IN  IF fault = "eroute" THEN w1 ELSE [w1 EXCEPT !.er[key] = Eroute("HOLD", w.x.skb)]
\* A HOLD eroute for the flow keeps the packet; the one there may have been is
\* broken with the packets it kept.
create_hold_eroute(w, fault) ==
  LET key == HostKey[Flow[w.x.skb[1]]]
      w1 == [w EXCEPT !.skbs.live = @ \ Kept(w.er, key), !.er[key] = NoSa]
  IN  IF fault = "eroute" THEN w1
      ELSE [w1 EXCEPT !.er[key] = Eroute("HOLD", w.x.skb), !.x.skb = NoSa]

\* SPI_TRAPSUBNET: the eroute found now is turned into a HOLD.  What it kept
\* first is forgotten.
HoldSubnet(w) ==
  LET key == ipsec_findroute(w.er, Flow[w.x.skb[1]])
  IN  IF key = NoSa THEN w
      ELSE [w EXCEPT !.skbs.lost = @ \cup ({w.er[key].first} \ {NoSa}),
                     !.er[key].said = "HOLD", !.er[key].first = w.x.skb,
                     !.x.skb = NoSa]

-----------------------------------------------------------------------------
(* The actions of xmit_state_table.  Each gives a world and a result: OK,  *)
(* PENDING, PASS, or FAIL for all others.                                   *)

Did(w, rc) == [w |-> w, rc |-> rc]

\* The identifiers of the group an SA leads to.
Bundle(d, s) == [n \in DOMAIN GroupFrom(d, s) |-> d.sa[GroupFrom(d, s)[n]].said]

FoundSa(w, s) ==
  IF s = NoSa THEN Did(w, "FAIL")
  ELSE Did([w EXCEPT !.db = ipsec_sa_get(@, s), !.x.ipsp = s,
                     !.x.want = Bundle(w.db, s)], "OK")
ipsec_xmit_init1(w, fault) ==
  CASE w.x.said = "PASS" -> Did(w, "PASS")
    [] w.x.said = "TRAP" /\ fault # "acquire" -> Did(create_hold_eroute(w, fault), "FAIL")
    [] w.x.said = "TRAPSUBNET" /\ fault # "acquire" -> Did(HoldSubnet(w), "FAIL")
    [] w.x.said \in Shunts \ {"PASS", "TRAP", "TRAPSUBNET"} -> Did(w, "FAIL")
    [] w.x.said \in {"TRAP", "TRAPSUBNET"} /\ fault = "acquire" -> Did(w, "FAIL")
    [] w.x.said \notin Shunts -> FoundSa(w, Lookup(w.db, w.x.said))

\* Mutant: the number of the SA is not looked at.
NeverRolled(me) == FALSE
\* "If the replay window counter == -1, expire SA, it will roll."
Rolled(me) == Proto[me.said] \in {"esp", "ah"} /\ me.lastseq = SeqTop

\* The first SA of the group that may not be used.  The state is left with a
\* pointer to it, not to the SA it has a reference of.
Refused(d, group, fault) ==
  {n \in DOMAIN group : \/ d.sa[group[n]].state # "MATURE"
                        \/ Rolled(d.sa[group[n]])
                        \/ fault = "life" /\ n \in LifeAt}
Refuse(w, s) ==
  Did([w EXCEPT !.db = IF w.db.sa[s].state # "MATURE" THEN @ ELSE ipsec_sa_rm(@, s),
                !.x.ipsp = s], "FAIL")

MakeRoom(w, room) ==
  LET copy == Buffer(w.x.skb[1], "copy")
  IN  CASE room = "fits" -> Did(w, "OK")
        [] room = "copied" -> Did([w EXCEPT !.x.oskb = w.x.skb, !.x.skb = copy,
                                            !.skbs.live = @ \cup {copy}], "OK")
        [] room = "nocopy" -> Did([w EXCEPT !.x.oskb = w.x.skb, !.x.skb = NoSa],
                                  "FAIL")
CheckGroup(w, group, refused, fault, room) ==
  IF refused # {}
    THEN Refuse(w, group[CHOOSE n \in refused : \A k \in refused : n <= k])
  ELSE IF fault = "room" THEN Did(w, "FAIL")
  ELSE MakeRoom(w, room)
ipsec_xmit_init2(w, fault, room) ==
  CheckGroup(w, GroupFrom(w.db, w.x.ipsp),
             Refused(w.db, GroupFrom(w.db, w.x.ipsp), fault), fault, room)

\* ipsec_ocf_xmit: a packet that is compressed is cloned first, if there is
\* memory; a small one is not compressed.
ipsec_ocf_xmit(w, proto, fault, room) ==
  LET clone == Buffer(w.x.skb[1], "clone")
      w1 == IF proto = "comp" /\ room # "fits"
              THEN [w EXCEPT !.x.clone = clone, !.skbs.live = @ \cup {clone}] ELSE w
  IN  CASE proto = "comp" /\ room = "nocopy" -> Did(w, "OK")
        [] ~ (proto = "comp" /\ room = "nocopy") /\ fault = "request" -> Did(w1, "FAIL")
        [] OTHER -> Did([w1 EXCEPT !.x.state = "PENDING"], "PENDING")

\* The next sequence number of the SA.
Number(w, s) ==
  LET n == (w.db.sa[s].lastseq + 1) % (SeqTop + 1)
  IN  [w EXCEPT !.db.sa[s].lastseq = n, !.db.sa[s].sent = @ (+) SetToBag({n})]

Transform(w, s, said, fault, room) ==
  LET w1 == [w EXCEPT !.x.layers = Append(@, said)]
      w2 == IF Proto[said] \in {"esp", "ah"} THEN Number(w1, s) ELSE w1
  IN  IF said \in Ocf THEN ipsec_ocf_xmit(w2, Proto[said], fault, room)
      ELSE Did(w2, "OK")
\* ENCAP_INIT, ENCAP_SELECT and the action of the protocol.
ipsec_xmit_encap(w, fault, room) ==
  IF fault = "encap" THEN Did(w, "FAIL")
  ELSE Transform(w, w.x.ipsp, w.db.sa[w.x.ipsp].said, fault, room)

\* The next SA is read from one that may be freed and wiped by then.
ipsec_xmit_cont(w) ==
  LET d == ipsec_sa_put(w.db, w.x.ipsp)
      next == IF d.sa[w.x.ipsp] = NoSa THEN NoSa ELSE d.sa[w.x.ipsp].next
  IN  Did([w EXCEPT !.db = ipsec_sa_get(d, next), !.x.ipsp = next], "OK")

-----------------------------------------------------------------------------
(* ipsec_xsm. *)

AfterState(w) ==
  CASE w.x.state = "INIT1" -> "INIT2"
    [] w.x.state = "INIT2" -> "ENCAP"
    [] w.x.state = "ENCAP" -> "CONT"
    [] w.x.state = "CONT" -> IF w.x.ipsp = NoSa THEN "DONE" ELSE "ENCAP"

XmitAction(w, fault, room) ==
  CASE w.x.state = "INIT1" -> ipsec_xmit_init1(w, fault)
    [] w.x.state = "INIT2" -> ipsec_xmit_init2(w, fault, room)
    [] w.x.state = "ENCAP" -> ipsec_xmit_encap(w, fault, room)
    [] w.x.state = "CONT" -> ipsec_xmit_cont(w)

RECURSIVE XmitLoop(_, _, _, _)
AfterXmit(k, fault, room) ==
  CASE k.rc = "PENDING" -> k.w
    [] k.rc = "OK" -> XmitLoop([k.w EXCEPT !.x.state = AfterState(k.w)], "OK", fault, room)
    [] OTHER -> XmitLoop([k.w EXCEPT !.x.state = "DONE"], k.rc, fault, room)
XmitLoop(w, stat, fault, room) ==
  IF w.x.state = "DONE" THEN [w EXCEPT !.x.stat = stat]
  ELSE AfterXmit(XmitAction(w, fault, room), fault, room)

\* Mutant: a packet that comes back from OCF is not checked.
XsmUnchecked(w, fault, room) == XmitLoop(w, "FAIL", fault, room)
\* "if we have a valid said, then we must check it here to ensure it hasn't gone
\* away while we were waiting for a task to complete": the first SA of the group
\* must still be found.  "If the said was found via saref in mast code, skip
\* this check."
ipsec_xsm(w, fault, room) ==
  IF w.x.ipsp # NoSa /\ ~ w.x.mast /\ Lookup(w.db, w.x.said) = NoSa
    THEN XmitLoop([w EXCEPT !.x.state = "DONE"], "FAIL", fault, room)
    ELSE XmitLoop(w, "FAIL", fault, room)

-----------------------------------------------------------------------------
(* Packets. *)

FreshIxs(b, said) ==
  [state |-> "INIT1", skb |-> b, oskb |-> NoSa, clone |-> NoSa, said |-> said,
   ipsp |-> NoSa, mast |-> FALSE, stat |-> "OK", layers |-> <<>>, want |-> <<>>]

\* The world after a step that leaves the packet in its slot.
KeepXmit(q, w) ==
  /\ db' = w.db /\ eroutes' = w.er /\ skbs' = w.skbs
  /\ ixs' = [ixs EXCEPT ![q] = w.x]

\* ipsec_xmit_cleanup and ipsec_xmit_state_delete.
ipsec_xmit_cleanup(q, w) ==
  /\ db' = ipsec_sa_put(w.db, w.x.ipsp) /\ eroutes' = w.er
  /\ skbs' = [w.skbs EXCEPT !.live = @ \ {w.x.skb, w.x.oskb, w.x.clone}]
  /\ ixs' = [ixs EXCEPT ![q] = NoSa]

\* A packet of the stack, or one an eroute had kept, is given to the device.
Taken(b) ==
  IF b \in skbs.queue THEN [skbs EXCEPT !.queue = @ \ {b}]
  ELSE [skbs EXCEPT !.fresh = @ \ {b[1]}, !.live = @ \cup {b}]
Waiting == skbs.queue \cup {Buffer(p, "skb") : p \in skbs.fresh}

\* The packets of the IKE daemon and of IPsec pass, unless their eroute leads to
\* an SA with another destination.
Bypass(p, key) ==
  /\ p \in Own
  /\ \/ key = NoSa
     \/ key # NoSa /\ eroutes[key].said \in Shunts
     \/ key # NoSa /\ eroutes[key].said \notin Shunts /\ Dst[eroutes[key].said] = Flow[p]

\* ipsec_tunnel_SAlookup: a HOLD eroute keeps the packet as its last one.
StoreLast(w, key) ==
  [w EXCEPT !.skbs.live = @ \ {w.er[key].last}, !.er[key].last = w.x.skb, !.x.skb = NoSa]
ipsec_tunnel_SAlookup(q, w, key) ==
  CASE Bypass(w.x.skb[1], key) -> KeepXmit(q, [w EXCEPT !.x.said = "PASS"])
    [] ~ Bypass(w.x.skb[1], key) /\ key = NoSa -> KeepXmit(q, w)
    [] ~ Bypass(w.x.skb[1], key) /\ key # NoSa ->
         IF eroutes[key].said = "HOLD" THEN ipsec_xmit_cleanup(q, StoreLast(w, key))
         ELSE KeepXmit(q, [w EXCEPT !.x.said = eroutes[key].said])

\* ipsec_tunnel_start_xmit up to ipsec_xsm.  A packet that fails a check, or for
\* whose identities there is no memory, is dropped; one without an eroute is led
\* to DROP.
StartXmit(q, b, sane) ==
  LET w == [World(FreshIxs(b, "DROP")) EXCEPT !.skbs = Taken(b)]
  IN  /\ ixs[q] = NoSa
      /\ IF sane THEN ipsec_tunnel_SAlookup(q, w, ipsec_findroute(eroutes, Flow[b[1]]))
                 ELSE ipsec_xmit_cleanup(q, w)
      /\ UNCHANGED <<irs, pfkey, messages, arrivals>>

\* ipsec_mast_start_xmit: the SA comes from the SAref of the packet.
MastState(w, s) ==
  [w EXCEPT !.db = ipsec_sa_get(@, s), !.x.ipsp = s, !.x.state = "INIT2",
            !.x.mast = TRUE, !.x.said = w.db.sa[s].said, !.x.want = Bundle(w.db, s)]
StartMast(q, b, ref, allowed) ==
  LET w == [World(FreshIxs(b, "DROP")) EXCEPT !.skbs = Taken(b)]
  IN  /\ ixs[q] = NoSa
      /\ IF allowed /\ db.table[ref] # NoSa
           THEN KeepXmit(q, MastState(w, db.table[ref]))
           ELSE ipsec_xmit_cleanup(q, w)
      /\ UNCHANGED <<irs, pfkey, messages, arrivals>>

\* ipsec_xsm with a packet that does not wait.
RunXsm(q, fault, room) ==
  /\ ixs[q] # NoSa
  /\ ixs[q].state \notin {"PENDING", "DONE"}
  /\ KeepXmit(q, ipsec_xsm(World(ixs[q]), fault, room))
  /\ UNCHANGED <<irs, pfkey, messages, arrivals>>

\* ipsec_ocf_xmit_cb: the clone is dropped, or takes the place of the packet
\* whose compression failed; any other failure ends the packet.
Answered(x, done) ==
  CASE done -> [x EXCEPT !.state = "CONT", !.clone = NoSa]
    [] ~ done /\ x.clone # NoSa -> [x EXCEPT !.state = "CONT", !.skb = x.clone, !.clone = NoSa]
    [] ~ done /\ x.clone = NoSa -> [x EXCEPT !.state = "DONE"]
ipsec_ocf_xmit_cb(x, done) ==
  [World(Answered(x, done)) EXCEPT
     !.skbs.live = IF x.clone = NoSa THEN @ ELSE @ \ {IF done THEN x.clone ELSE x.skb}]
ResumeXmit(q, done, fault, room) ==
  /\ ixs[q] # NoSa
  /\ ixs[q].state = "PENDING"
  /\ KeepXmit(q, ipsec_xsm(ipsec_ocf_xmit_cb(ixs[q], done), fault, room))
  /\ UNCHANGED <<irs, pfkey, messages, arrivals>>

\* The packet leaves, or the route to it or the room for a UDP header is missing.
Sent(w, sends) ==
  IF ~ sends THEN w
  ELSE [w EXCEPT !.skbs.live = @ \ {w.x.skb}, !.x.skb = NoSa]
\* "We are recursing here": an encapsulated packet whose own eroute leads to
\* another destination enters ipsec_xsm again, in the state DONE, and is dropped.
Recurses(w, flow) ==
  LET key == ipsec_findroute(w.er, flow)
  IN  /\ key # NoSa
      /\ w.er[key].said \notin Shunts
      /\ Dst[w.er[key].said] # Dst[w.x.said]
FlowNow(x) == IF "ipip" \in {Proto[x.layers[n]] : n \in DOMAIN x.layers}
                THEN OuterFlow ELSE Flow[x.skb[1]]
\* ipsec_tunnel_xsm_complete and ipsec_mast_xsm_complete.
Complete(q, sends) ==
  LET x == ixs[q]
      leaves == \/ x.stat = "PASS" /\ ~ x.mast
                \/ x.stat = "OK" /\ (x.mast \/ ~ Recurses(World(x), FlowNow(x)))
  IN  /\ x # NoSa
      /\ x.state = "DONE"
      /\ ipsec_xmit_cleanup(q, Sent(World(x), sends /\ leaves))
      /\ UNCHANGED <<irs, pfkey, messages, arrivals>>

-----------------------------------------------------------------------------
(* PF_KEY messages about eroutes. *)

FlowMessage(op, key, said, kept) ==
  [op |-> op, sa |-> NoSa, saved |-> NoSa, key |-> key, said |-> said, kept |-> kept]

\* pfkey_x_addflow_parse with REPLACEFLOW, up to the end of ipsec_breakroute: an
\* eroute that is not there fails the message.
BreakFlow(key, said) ==
  /\ Room
  /\ eroutes[key] # NoSa
  /\ pfkey' = FlowMessage("flow", key, said, Kept(eroutes, key))
  /\ eroutes' = [eroutes EXCEPT ![key] = NoSa]
  /\ UNCHANGED <<db, ixs, skbs>>

\* Without REPLACEFLOW nothing is broken.
AddFlow(key, said) ==
  /\ Room
  /\ pfkey' = FlowMessage("flow", key, said, {})
  /\ UNCHANGED <<db, ixs, eroutes, skbs>>

\* ipsec_makeroute fails if there is an eroute again, or no memory; the packets
\* the old one had kept are then forgotten, and are sent otherwise.
MakeFlow(memory) ==
  LET made == memory /\ eroutes[pfkey.key] = NoSa
  IN  /\ pfkey # NoSa
      /\ pfkey.op = "flow"
      /\ eroutes' = IF made THEN [eroutes EXCEPT ![pfkey.key] = Eroute(pfkey.said, NoSa)]
                    ELSE eroutes
      /\ skbs' = IF made THEN [skbs EXCEPT !.queue = @ \cup pfkey.kept]
                 ELSE [skbs EXCEPT !.lost = @ \cup pfkey.kept]
      /\ pfkey' = NoSa
      /\ UNCHANGED <<db, ixs, irs, messages, arrivals>>

\* pfkey_x_delflow_parse frees the packets of the eroute.
DelFlow(key) ==
  /\ Room
  /\ eroutes[key] # NoSa
  /\ skbs' = [skbs EXCEPT !.live = @ \ Kept(eroutes, key)]
  /\ eroutes' = [eroutes EXCEPT ![key] = NoSa]
  /\ UNCHANGED <<db, ixs, pfkey>>

\* CLEARFLOW: ipsec_rj_walker_delete forgets the packets of every eroute.
ipsec_cleareroutes ==
  /\ Room
  /\ skbs' = [skbs EXCEPT !.lost = @ \cup UNION {Kept(eroutes, k) : k \in Keys}]
  /\ eroutes' = [k \in Keys |-> NoSa]
  /\ UNCHANGED <<db, ixs, pfkey>>

-----------------------------------------------------------------------------
\* fresh: packets the stack may still send; live: buffers that are not freed;
\* queue: buffers given to dev_queue_xmit; lost: history, live buffers no one
\* leads to any more.
XmitInit ==
  /\ ixs = [q \in XmitSlots |-> NoSa]
  /\ eroutes = [k \in Keys |-> NoSa]
  /\ skbs = [fresh |-> Skbs, live |-> {}, queue |-> {}, lost |-> {}]

XmitPackets ==
  \/ \E q \in XmitSlots, b \in Waiting, sane \in BOOLEAN : StartXmit(q, b, sane)
  \/ \E q \in XmitSlots, b \in Waiting, ref \in Refs, allowed \in BOOLEAN :
       StartMast(q, b, ref, allowed)
  \/ \E q \in XmitSlots, m \in Mishaps : RunXsm(q, m[1], m[2])
  \/ \E q \in XmitSlots, done \in BOOLEAN, m \in Mishaps : ResumeXmit(q, done, m[1], m[2])
  \/ \E q \in XmitSlots, sends \in BOOLEAN : Complete(q, sends)

XmitFlows ==
  \/ \E r \in FlowRoutes : BreakFlow(r[1], r[2])
  \/ \E r \in FlowRoutes : AddFlow(r[1], r[2])
  \/ \E memory \in BOOLEAN : MakeFlow(memory)
  \/ \E key \in Keys : DelFlow(key)
  \/ ipsec_cleareroutes

-----------------------------------------------------------------------------
\* The pointers to an SA that carry a reference.
Holders(s) ==
  LET d == db.sa[s]
      Points(x) == IF x = s THEN 1 ELSE 0
      Received == {q \in RcvSlots \X {"ipsp", "lastipsp"} :
                     irs[q[1]] # NoSa /\ irs[q[1]][q[2]] = s}
      Transmitted == {q \in XmitSlots : ixs[q] # NoSa /\ ixs[q].ipsp = s}
  IN  (IF d.alloc THEN 1 ELSE 0)
      + Cardinality({n \in DOMAIN db.hash : db.hash[n] = s})
      + Cardinality({r \in Refs : db.table[r] = s})
      + Cardinality(Received) + Cardinality(Transmitted) + d.natt
      + (IF pfkey # NoSa /\ pfkey.op = "natt" THEN Points(pfkey.sa) ELSE 0)

\* The reference count of an SA is the number of pointers that hold it, so it
\* is freed by the last of them and never under one of them (ipsec_sa_get,
\* ipsec_sa_put, ipsec_sa_wipe and everything that calls them).
RefcountExact == \A s \in Live(db) : db.sa[s].refcount = Holders(s)

\* Nothing leads to an SA that was freed: not the hash chain, not the SAref
\* table, not a group link, not a waiting packet, not a PF_KEY message.
NothingDangles ==
  LET Ok(s) == s = NoSa \/ s \in Live(db)
  IN  /\ \A n \in DOMAIN db.hash : Ok(db.hash[n])
      /\ \A r \in Refs : Ok(db.table[r])
      /\ \A s \in Live(db) : Ok(db.sa[s].next) /\ Ok(db.sa[s].prev)
      /\ \A p \in RcvSlots : irs[p] # NoSa => Ok(irs[p].ipsp) /\ Ok(irs[p].lastipsp)
      /\ \A q \in XmitSlots : ixs[q] # NoSa => Ok(ixs[q].ipsp)
      /\ pfkey # NoSa => Ok(pfkey.sa) /\ Ok(pfkey.saved)

\* The SA database is sound in every interleaving of packets and PF_KEY messages:
\* counts are exact, nothing dangles, and the free SArefs are free.
SadbSound == RefcountExact /\ NothingDangles /\ FreeRefsAreFree

\* DELETE wipes the SA or the group it names ("this should cause ipsec_sa_wipe
\* to get called on the SA/group", pfkey_delete_parse): what is left of it is
\* out of the tables and held by packets in flight, by a NAT-T update that never
\* gave its reference back, or by a group member before it that is.
RECURSIVE HeldUp(_)
HeldUp(s) ==
  \/ db.sa[s].natt > 0
  \/ \E p \in RcvSlots : irs[p] # NoSa /\ s \in {irs[p].ipsp, irs[p].lastipsp}
  \/ \E q \in XmitSlots : ixs[q] # NoSa /\ ixs[q].ipsp = s
  \/ db.sa[s].prev # NoSa /\ HeldUp(db.sa[s].prev)
DeletedIsWiped ==
  \A s \in Live(db) :
    db.sa[s].deleted => /\ ~ Contains(db.hash, s)
                        /\ \A r \in Refs : db.table[r] # s
                        /\ HeldUp(s)

\* A packet that is about to leave went through every SA of the group its eroute
\* led to, in their order, whatever was deleted while OCF had it (ipsec_xsm,
\* ipsec_xmit_cont).  Of the packets of mast devices, which ipsec_xsm does not
\* check, nothing is said.
SentWhole ==
  \A q \in XmitSlots :
    ixs[q] # NoSa /\ ixs[q].state = "DONE" /\ ixs[q].stat = "OK" /\ ~ ixs[q].mast
      => ixs[q].layers = ixs[q].want /\ ixs[q].want # <<>>

\* No SA sends two packets with the same sequence number, or with the number 0
\* that the counter would roll to (ipsec_xmit_init2 refuses an SA at the last
\* number, ipsec_xmit_esp and ipsec_xmit_ah count).
SentOnce ==
  \A s \in Live(db) : \A n \in DOMAIN db.sa[s].sent : n # 0 /\ db.sa[s].sent[n] = 1

\* Every buffer has one owner, which frees it or hands it on: a transmit state,
\* an eroute that keeps it, a PF_KEY message that replaces the eroute, or the
\* queue of the device.  Nobody leads to a buffer that was freed, and the ones
\* nobody leads to are those of HoldSubnet, MakeFlow and ipsec_cleareroutes
\* (create_hold_eroute, ipsec_tunnel_SAlookup, ipsec_xmit_cleanup).
Owners(b) ==
  {<<q, f>> \in XmitSlots \X {"skb", "oskb", "clone"} : ixs[q] # NoSa /\ ixs[q][f] = b}
  \cup {<<k, f>> \in Keys \X {"first", "last"} : eroutes[k] # NoSa /\ eroutes[k][f] = b}
  \cup (IF b \in skbs.queue THEN {<<"queue", "">>} ELSE {})
  \cup (IF b \in skbs.lost THEN {<<"lost", "">>} ELSE {})
  \cup (IF pfkey # NoSa /\ pfkey.op = "flow" /\ b \in pfkey.kept THEN {<<"pfkey", "">>} ELSE {})
BuffersOwnedOnce ==
  \A b \in Skbs \X {"skb", "copy", "clone"} :
    Cardinality(Owners(b)) = IF b \in skbs.live THEN 1 ELSE 0
=============================================================================
