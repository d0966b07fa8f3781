--------------------------- MODULE Ikev2Exchange ---------------------------
(***************************************************************************)
(* The exchanges of an established IKEv2 SA between two plutos: the        *)
(* CREATE_CHILD_SA and INFORMATIONAL requests each side sends, the message *)
(* ID counters that pair replies with requests and recognise               *)
(* retransmissions, the window that holds requests back on send_next_ix,   *)
(* and the retransmission of the one packet an IKE SA remembers            *)
(* (programs/pluto/ikev2.c, ikev2_parent.c, timer.c, state.c).             *)
(*                                                                         *)
(* Peer "I" is the original initiator, "R" the original responder.  The    *)
(* behaviours start when IKE_AUTH has established the IKE SA and its first *)
(* child.  The network may delay, reorder, duplicate and lose packets.     *)
(* The contents of a CREATE_CHILD_SA exchange is the identity of the child *)
(* SA it makes, the request that asked for it, in the place of its SPIs.   *)
(***************************************************************************)
EXTENDS Integers, Sequences, FiniteSets

CONSTANTS Configs,      \* the configurations of the two peers considered
          Window,       \* c->ike_window
          MsgidMod,     \* number of values of msgid_t (2^32 in the code)
          NSlots,       \* bound on the child states a peer has at a time
          MaxQueue,     \* bound on send_next_ix when a child is added
          MaxLoss       \* bound on the packets the network loses

Peers == {"I", "R"}
Other(p) == IF p = "I" THEN "R" ELSE "I"
Slots == 1 .. NSlots

ASSUME ConfigsAssumption ==
  \A c \in Configs :
    /\ {c.requesters, c.probers, c.deleters} \subseteq SUBSET Peers
    /\ {c.pfs, c.mayReject, c.mayGiveUp} \subseteq BOOLEAN
    /\ c.maxUse \in [Peers -> Nat]
    /\ \A p \in Peers : c.maxUse[p] + 1 < MsgidMod
    /\ c.maxUse["I"] > 1
ASSUME WindowAssumption == Window \in Nat /\ Window > 0
ASSUME MsgidAssumption == MsgidMod \in Nat
ASSUME SlotsAssumption == NSlots \in Nat /\ NSlots > 0
ASSUME BoundAssumption == MaxQueue \in Nat /\ MaxLoss \in Nat

VARIABLES conf,     \* the configuration, which no step changes
          ike,      \* [peer -> its struct state of the IKE SA]
          child,    \* [peer -> [slot -> struct state of a child SA]]
          net,      \* the packets that may be delivered
          lost,     \* packets lost so far
          handled   \* [peer -> [message ID -> times it handled the other
                    \*  peer's request with that ID as a new one, at most 2]]

vars == <<conf, ike, child, net, lost, handled>>

Requesters == conf.requesters  \* peers that are asked for new child SAs
Probers == conf.probers        \* peers that have liveness checks configured
Deleters == conf.deleters      \* peers that delete child SAs
PFS == conf.pfs                \* a child SA has a key exchange of its own
MayReject == conf.mayReject    \* a proposal may be found unacceptable
MayGiveUp == conf.mayGiveUp    \* a negotiation may be given up by its timer
MaxUse == conf.maxUse          \* [peer -> bound on st_msgid_nextuse]

v2_INITIAL_MSGID == 0
v2_INVALID_MSGID == MsgidMod - 1
Msgids == 0 .. MsgidMod - 1

\* The identity of a child SA: who asked for it, in which request.  Message 0
\* of the original initiator is IKE_SA_INIT, so it names no child SA.
SAs == [by : Peers, msgid : Msgids]
NoSA == [by |-> "I", msgid |-> v2_INITIAL_MSGID]
FirstSA == [by |-> "I", msgid |-> 1]

Messages == [from : Peers, resp : BOOLEAN, msgid : Msgids,
             ix : {"AUTH", "CREATE_CHILD", "LIVENESS", "DELETE"}, sa : SAs]

\* The states of a child: STATE_V2_CREATE_I0 is split in "CREATE_I0" (crypto
\* under way), "WAIT" (suspended, on send_next_ix) and "SEND_NEXT" (off the
\* list, EVENT_v2_SEND_NEXT_IKE scheduled); "CREATE_I_DH" is STATE_V2_CREATE_I
\* suspended on the crypto of the reply; "CREATE_R_FAILED" is STATE_V2_CREATE_R
\* waiting for EVENT_v2_RESPONDER_TIMEOUT.
Child(s, id, sa) == [state |-> s, msgid |-> id, sa |-> sa, no_del |-> FALSE]
FreeChild == Child("FREE", 0, NoSA)

\* A serial number on send_next_ix whose state was deleted.
Gone == 0

Packet(p, resp, id, ix, sa) ==
  [from |-> p, resp |-> resp, msgid |-> id, ix |-> ix, sa |-> sa]

\* The packets the two IKE SAs recorded last when IKE_AUTH is over.
AuthRequest == Packet("I", FALSE, 1, "AUTH", FirstSA)
AuthReply == Packet("R", TRUE, 1, "AUTH", FirstSA)

\* The original initiator has used messages 0 and 1 and seen both replies, and
\* has received no request; its st_msgid_lastreplied was never set.  The child
\* states of the original responder keep the st_msgid that new_state zeroed.
Init ==
  /\ conf \in Configs
  /\ ike = [p \in Peers |->
       IF p = "I"
       THEN [nextuse |-> 2, lastack |-> 1, lastrecv |-> v2_INVALID_MSGID,
             lastreplied |-> 0, send_next_ix |-> <<>>, tpacket |-> AuthRequest]
       ELSE [nextuse |-> 0, lastack |-> v2_INVALID_MSGID, lastrecv |-> 1,
             lastreplied |-> 1, send_next_ix |-> <<>>, tpacket |-> AuthReply]]
  /\ child = [p \in Peers |-> [c \in Slots |->
       IF c > 1 THEN FreeChild
       ELSE Child("IPSEC", IF p = "I" THEN 1 ELSE 0, FirstSA)]]
  /\ net = {AuthRequest, AuthReply}
  /\ lost = 0
  /\ handled = [p \in Peers |-> [id \in Msgids |->
       IF p = "R" /\ id \in {0, 1} THEN 1 ELSE 0]]

----------------------------------------------------------------------------
(* Message ID counters *)

\* Requests of the IKE SA that are not acknowledged; unsigned arithmetic.
unack(k) == (k.nextuse - k.lastack - 1) % MsgidMod

\* What a peer's handlers read and write: its IKE SA and its child states.
Side(p) == [ike |-> ike[p], child |-> child[p]]

\* The head of the list leaves it, whether or not its state still exists.
sechdule_next_send(s) ==
  LET q == s.ike.send_next_ix
  IN  IF q = <<>> THEN s
      ELSE [ike |-> [s.ike EXCEPT !.send_next_ix = Tail(q)],
            child |-> [c \in Slots |->
              IF c = Head(q)
              THEN Child("SEND_NEXT", s.child[c].msgid, s.child[c].sa)
              ELSE s.child[c]]]

\* A reply acknowledges its request if it is the first one, or a later one.
NewLastack(k, md) ==
  IF md.resp /\ \/ md.msgid = v2_INITIAL_MSGID /\ k.lastack = v2_INVALID_MSGID
                \/ md.msgid > k.lastack
  THEN md.msgid ELSE k.lastack

NewLastrecv(k, md) ==
  CASE ~ md.resp /\ md.msgid > k.lastrecv -> md.msgid
    [] ~ md.resp /\ md.msgid = v2_INITIAL_MSGID /\ k.lastrecv = v2_INVALID_MSGID
         -> v2_INITIAL_MSGID
    [] OTHER -> k.lastrecv

\* sent: md is the digest made up for a request this peer sends.
ikev2_update_msgid_counters(s, md, sent) ==
  LET k == [s.ike EXCEPT
              !.nextuse = IF sent THEN s.ike.nextuse + 1 ELSE s.ike.nextuse,
              !.lastack = NewLastack(s.ike, md),
              !.lastrecv = NewLastrecv(s.ike, md)]
      t == [ike |-> k, child |-> s.child]
  IN  IF unack(k) < Window THEN sechdule_next_send(t) ELSE t

\* fake_md of ikev2_crypto_start, with the header of the request sent.
FakeMd(m) == [m EXCEPT !.msgid = v2_INVALID_MSGID]

\* The IKE SA remembers one packet, whichever it sent last.
record_outbound_ike_msg(s, m) ==
  [ike |-> [s.ike EXCEPT !.tpacket = m], child |-> s.child]

SetChild(s, c, r) == [ike |-> s.ike, child |-> [s.child EXCEPT ![c] = r]]

\* delete_state: the serial number on send_next_ix dangles.
FreeSlot(s, c) ==
  [ike |-> [s.ike EXCEPT !.send_next_ix =
              [i \in 1 .. Len(s.ike.send_next_ix) |->
                 IF s.ike.send_next_ix[i] = c THEN Gone
                 ELSE s.ike.send_next_ix[i]]],
   child |-> [s.child EXCEPT ![c] = FreeChild]]

\* The slot duplicate_state allocates.
NewSlot(s, c) ==
  /\ s.child[c].state = "FREE"
  /\ \A d \in Slots : d < c => s.child[d].state # "FREE"

Become(p, s) ==
  /\ ike' = [ike EXCEPT ![p] = s.ike]
  /\ child' = [child EXCEPT ![p] = s.child]

CanSend(p) == ike[p].nextuse < MaxUse[p]

----------------------------------------------------------------------------
(* Requests *)

\* A child state of its own for a connection that has none pending.
ikev2_add_ipsec_child(p, c) ==
  /\ p \in Requesters
  /\ CanSend(p)
  /\ Len(ike[p].send_next_ix) < MaxQueue
  /\ NewSlot(Side(p), c)
  /\ Become(p, SetChild(Side(p), c, Child("CREATE_I0", 0, NoSA)))
  /\ UNCHANGED <<net, lost, handled>>

\* The request goes out with the next message ID, which the child remembers;
\* lastreplied and the counters are updated from the digest made up for it.
ikev2_child_out_tail(s, p, c) ==
  LET id == s.ike.nextuse
      m == Packet(p, FALSE, id, "CREATE_CHILD", [by |-> p, msgid |-> id])
      t == SetChild(record_outbound_ike_msg(s, m), c, Child("CREATE_I", id, m.sa))
      u == [ike |-> [t.ike EXCEPT !.lastreplied = v2_INVALID_MSGID],
            child |-> t.child]
  IN  ikev2_update_msgid_counters(u, FakeMd(m), TRUE)

SendRequest(p, c) ==
  LET s == ikev2_child_out_tail(Side(p), p, c)
  IN  /\ CanSend(p)
      /\ Become(p, s)
      /\ net' = net \cup {s.ike.tpacket}
      /\ UNCHANGED <<lost, handled>>

\* ikev2_crypto_continue of a child in STATE_V2_CREATE_I0.
add_st_send_list(p, c) ==
  /\ child[p][c].state = "CREATE_I0"
  /\ IF unack(ike[p]) < Window
     THEN SendRequest(p, c)
     ELSE LET k == [ike[p] EXCEPT !.send_next_ix = Append(ike[p].send_next_ix, c)]
          IN  /\ Become(p, SetChild([ike |-> k, child |-> child[p]], c,
                                    Child("WAIT", 0, NoSA)))
              /\ UNCHANGED <<net, lost, handled>>

\* EVENT_v2_SEND_NEXT_IKE; the window is not looked at again.
ikev2_child_send_next(p, c) ==
  /\ child[p][c].state = "SEND_NEXT"
  /\ SendRequest(p, c)

\* An informational request uses a message ID; it is recorded in the child
\* state the liveness check runs on, and nothing sends it a second time.
ikev2_send_informational(p) ==
  LET m == Packet(p, FALSE, ike[p].nextuse, "LIVENESS", NoSA)
  IN  /\ p \in Probers
      /\ \E c \in Slots : child[p][c].state = "IPSEC"
      /\ CanSend(p)
      /\ ike' = [ike EXCEPT ![p].nextuse = ike[p].nextuse + 1]
      /\ net' = net \cup {m}
      /\ UNCHANGED <<child, lost, handled>>

\* Mutant: the delete request does not advance st_msgid_nextuse.
delete_state_uncounted(p, c) ==
  /\ p \in Deleters
  /\ child[p][c].state = "IPSEC"
  /\ CanSend(p)
  /\ Become(p, FreeSlot(Side(p), c))
  /\ net' = net \cup {Packet(p, FALSE, ike[p].nextuse, "DELETE", child[p][c].sa)}
  /\ UNCHANGED <<lost, handled>>

\* delete_state of an established child: ikev2_delete_out tells the peer,
\* unless it was the peer who deleted it.
delete_state(p, c) ==
  LET told == child[p][c].no_del
      m == Packet(p, FALSE, ike[p].nextuse, "DELETE", child[p][c].sa)
      s == FreeSlot(Side(p), c)
  IN  /\ p \in Deleters \/ told
      /\ child[p][c].state = "IPSEC"
      /\ told \/ CanSend(p)
      /\ Become(p, IF told THEN s
                   ELSE [ike |-> [s.ike EXCEPT !.nextuse = ike[p].nextuse + 1],
                         child |-> s.child])
      /\ net' = IF told THEN net ELSE net \cup {m}
      /\ UNCHANGED <<lost, handled>>

\* retransmit_v2_msg: what is sent again is the packet of the IKE SA.
Resend(p, c) ==
  /\ child[p][c].state \in {"CREATE_I", "CREATE_I_DH"}
  /\ net' = net \cup {ike[p].tpacket}
  /\ UNCHANGED <<ike, child, lost, handled>>

\* find_pending_phas2 for the connection of child c.
find_pending_phas2(s, c) ==
  s.child[c].state \in {"CREATE_I0", "WAIT", "SEND_NEXT", "CREATE_I",
                        "CREATE_I_DH", "CREATE_R", "CREATE_R_FAILED"}

\* A negotiation that takes too long is replaced (ipsecdoi_replace), then
\* deleted: the last EVENT_v2_RETRANSMIT, EVENT_SA_REPLACE of a child on
\* send_next_ix.  The replacement is for the same connection.
GiveUp(p, c) ==
  /\ MayGiveUp
  /\ child[p][c].state \in {"CREATE_I", "CREATE_I_DH", "WAIT"}
  /\ LET s == FreeSlot(Side(p), c)
     IN  Become(p, IF find_pending_phas2(Side(p), c) THEN s
                   ELSE SetChild(s, c, Child("CREATE_I0", 0, NoSA)))
  /\ UNCHANGED <<net, lost, handled>>

\* EVENT_v2_RESPONDER_TIMEOUT
ResponderTimeout(p, c) ==
  /\ child[p][c].state = "CREATE_R_FAILED"
  /\ Become(p, FreeSlot(Side(p), c))
  /\ UNCHANGED <<net, lost, handled>>

----------------------------------------------------------------------------
(* Received packets *)

\* The number of times is only counted to two.
Count(p, id) ==
  handled' = [handled EXCEPT ![p][id] = IF handled[p][id] = 0 THEN 1 ELSE 2]

\* Mutant: only a retransmission of the last request is recognised.
TooOld_never(k, m) == FALSE

TooOld(k, m) == k.lastrecv # v2_INVALID_MSGID /\ k.lastrecv > m.msgid
Recent(k, m) == k.lastrecv = m.msgid

\* Mutant: a repeated request is dropped even when its reply is known.
proces_recent_rtransmit_drops(p, m) ==
  /\ Recent(ike[p], m)
  /\ UNCHANGED vars

\* proces_recent_rtransmit; an established IKE SA has no suspended transition.
proces_recent_rtransmit(p, m) ==
  /\ Recent(ike[p], m)
  /\ net' = IF ike[p].lastreplied = ike[p].lastrecv
            THEN net \cup {ike[p].tpacket} ELSE net
  /\ UNCHANGED <<ike, child, lost, handled>>

NewRequest(p, m) == ~ TooOld(ike[p], m) /\ ~ Recent(ike[p], m)

\* A request for a child SA gets a child state, and the counters of the IKE SA
\* are updated, before the crypto of the child starts.
process_v2_child_ix(p, m) ==
  /\ m.ix = "CREATE_CHILD"
  /\ NewRequest(p, m)
  /\ \E c \in Slots :
       /\ NewSlot(Side(p), c)
       /\ Become(p, ikev2_update_msgid_counters(
            SetChild(Side(p), c, Child("CREATE_R", 0, m.sa)), m, FALSE))
  /\ Count(p, m.msgid)
  /\ UNCHANGED <<net, lost>>

\* ikev2_child_out_tail of a responder.
ReplyChild(p, c) ==
  LET sa == child[p][c].sa
      r == Packet(p, TRUE, sa.msgid, "CREATE_CHILD", sa)
      s == SetChild(record_outbound_ike_msg(Side(p), r), c, Child("IPSEC", 0, sa))
      t == [ike |-> [s.ike EXCEPT !.lastreplied = sa.msgid], child |-> s.child]
  IN  /\ child[p][c].state = "CREATE_R"
      /\ Become(p, ikev2_update_msgid_counters(
           t, Packet(Other(p), FALSE, sa.msgid, "CREATE_CHILD", sa), FALSE))
      /\ net' = net \cup {r}
      /\ UNCHANGED <<lost, handled>>

\* The notification is sent without being recorded, and the requester has no
\* transition that takes it.
RejectChild(p, c) ==
  /\ MayReject
  /\ child[p][c].state = "CREATE_R"
  /\ Become(p, SetChild(Side(p), c, Child("CREATE_R_FAILED", 0, child[p][c].sa)))
  /\ UNCHANGED <<net, lost, handled>>

\* A child SA the peer deleted goes, or (newest SA of a connection that is up)
\* stays until its replacement is there, and is then deleted silently.
DeletedByPeer(s, c, keep) ==
  IF keep THEN SetChild(s, c, [s.child[c] EXCEPT !.no_del = TRUE])
  ELSE FreeSlot(s, c)

Holds(p, c, sa) == child[p][c].state = "IPSEC" /\ child[p][c].sa = sa

\* The reply is recorded and sent; the counters are updated by the processor
\* and again by success_v2_state_transition.
Answer(s, m, r) ==
  LET t == record_outbound_ike_msg(s, r)
      u == [ike |-> [t.ike EXCEPT !.lastreplied = m.msgid], child |-> t.child]
  IN  ikev2_update_msgid_counters(ikev2_update_msgid_counters(u, m, FALSE), m, FALSE)

InformationalRequest(p, m) ==
  /\ m.ix \in {"LIVENESS", "DELETE"}
  /\ NewRequest(p, m)
  /\ \/ /\ m.ix = "LIVENESS" \/ \A c \in Slots : ~ Holds(p, c, m.sa)
        /\ LET r == Packet(p, TRUE, m.msgid, m.ix, NoSA)
           IN  Become(p, Answer(Side(p), m, r)) /\ net' = net \cup {r}
     \/ /\ m.ix = "DELETE"
        /\ \E c \in Slots, keep \in BOOLEAN :
             LET r == Packet(p, TRUE, m.msgid, m.ix, m.sa)
             IN  /\ Holds(p, c, m.sa)
                 /\ Become(p, Answer(DeletedByPeer(Side(p), c, keep), m, r))
                 /\ net' = net \cup {r}
  /\ Count(p, m.msgid)
  /\ UNCHANGED lost

process_v2_request(p, m) ==
  /\ ~ m.resp
  /\ \/ proces_recent_rtransmit(p, m)
     \/ process_v2_child_ix(p, m)
     \/ InformationalRequest(p, m)

\* find_state_ikev2_child: any state of the IKE SA whose st_msgid is the one of
\* the reply, the child states first; the IKE SA's own st_msgid is zero.
FindsChild(p, m) ==
  \E c \in Slots : child[p][c].state # "FREE" /\ child[p][c].msgid = m.msgid

AcceptsReply(p, m) ==
  \/ m.msgid = 0
  \/ /\ ~ (ike[p].lastack # v2_INVALID_MSGID /\ ike[p].lastack > m.msgid)
     /\ m.msgid < ike[p].nextuse

\* No state of a child takes an INFORMATIONAL reply: one that finds a child is
\* dropped.
InformationalReply(p, m) ==
  LET twice(s) == ikev2_update_msgid_counters(
                    ikev2_update_msgid_counters(s, m, FALSE), m, FALSE)
  IN  /\ m.ix \in {"LIVENESS", "DELETE"}
      /\ ~ FindsChild(p, m)
      /\ AcceptsReply(p, m)
      /\ \/ /\ m.ix = "LIVENESS" \/ \A c \in Slots : ~ Holds(p, c, m.sa)
            /\ Become(p, twice(Side(p)))
         \/ /\ m.ix = "DELETE"
            /\ \E c \in Slots, keep \in BOOLEAN :
                 /\ Holds(p, c, m.sa)
                 /\ Become(p, twice(DeletedByPeer(Side(p), c, keep)))
      /\ UNCHANGED <<net, lost, handled>>

\* Mutant: any child that waits for a reply takes it.
Expects_any(r, m) == r.state \in {"CREATE_I", "CREATE_I_DH"}

\* state_with_parent_msgid_expect
Expects(r, m) == r.state \in {"CREATE_I", "CREATE_I_DH"} /\ r.msgid = m.msgid

\* A reply the child is not busy with: its SA is established at once, after a
\* key exchange, or (the reply is not acceptable) the child goes on waiting.
ChildReply(p, m) ==
  /\ m.ix = "CREATE_CHILD"
  /\ \E c \in Slots :
       LET s == ikev2_update_msgid_counters(Side(p), m, FALSE)
           r == s.child[c]
           e == SetChild(s, c, Child("IPSEC", r.msgid, r.sa))
       IN  /\ Expects(child[p][c], m)
           /\ \/ child[p][c].state = "CREATE_I_DH" /\ Become(p, s)
              \/ child[p][c].state = "CREATE_I" /\ MayReject /\ Become(p, s)
              \/ /\ child[p][c].state = "CREATE_I"
                 /\ Become(p, IF PFS
                              THEN SetChild(s, c, Child("CREATE_I_DH", r.msgid, r.sa))
                              ELSE ikev2_update_msgid_counters(e, m, FALSE))
  /\ UNCHANGED <<net, lost, handled>>

\* ikev2_crypto_continue of a child in STATE_V2_CREATE_I, with the reply kept.
ChildReplyDone(p, c) ==
  LET r == child[p][c]
      m == Packet(Other(p), TRUE, r.msgid, "CREATE_CHILD", r.sa)
  IN  /\ r.state = "CREATE_I_DH"
      /\ Become(p, ikev2_update_msgid_counters(
           SetChild(Side(p), c, Child("IPSEC", r.msgid, r.sa)), m, FALSE))
      /\ UNCHANGED <<net, lost, handled>>

process_v2_reply(p, m) ==
  /\ m.resp
  /\ \/ InformationalReply(p, m)
     \/ ChildReply(p, m)

Receive(p, m) ==
  /\ m.from = Other(p)
  /\ process_v2_request(p, m) \/ process_v2_reply(p, m)

Lose(m) ==
  /\ lost < MaxLoss
  /\ lost' = lost + 1
  /\ net' = net \ {m}
  /\ UNCHANGED <<ike, child, handled>>

Step(p) ==
  \/ \E c \in Slots :
       \/ ikev2_add_ipsec_child(p, c)
       \/ add_st_send_list(p, c)
       \/ ikev2_child_send_next(p, c)
       \/ delete_state(p, c)
       \/ Resend(p, c)
       \/ GiveUp(p, c)
       \/ ResponderTimeout(p, c)
       \/ ReplyChild(p, c)
       \/ RejectChild(p, c)
       \/ ChildReplyDone(p, c)
  \/ ikev2_send_informational(p)

Next ==
  /\ \/ \E p \in Peers : Step(p)
     \/ \E m \in net : Lose(m)
     \/ \E p \in Peers, m \in net : Receive(p, m)
  /\ UNCHANGED conf

Spec == Init /\ [][Next]_vars

\* The packet of the other peer with this message ID arrives.
Delivered(p, resp, id) ==
  \E m \in net : m.resp = resp /\ m.msgid = id /\ Receive(p, m)

\* The crypto helpers answer, timers of zero seconds fire, a packet that stays
\* in the network is delivered, and retransmission goes on until it is given up.
Fairness ==
  /\ \A p \in Peers, c \in Slots :
       /\ WF_vars(add_st_send_list(p, c) /\ UNCHANGED conf)
       /\ WF_vars(ikev2_child_send_next(p, c) /\ UNCHANGED conf)
       /\ WF_vars(ReplyChild(p, c) /\ UNCHANGED conf)
       /\ WF_vars(ChildReplyDone(p, c) /\ UNCHANGED conf)
       /\ WF_vars(Resend(p, c) /\ UNCHANGED conf)
  /\ \A p \in Peers, resp \in BOOLEAN, id \in Msgids :
       WF_vars(Delivered(p, resp, id) /\ UNCHANGED conf)

FairSpec == Spec /\ Fairness

----------------------------------------------------------------------------
(* Properties *)

\* A message ID is used for one request only: a requester that sends two
\* different requests with one ID (a counter not advanced by
\* ikev2_child_out_tail, ikev2_send_informational or ikev2_delete_out_guts)
\* would take the reply to one for the reply to the other.
RequestIdsUnique ==
  \A m, n \in net \cup {ike["I"].tpacket, ike["R"].tpacket} :
    m.from = n.from /\ m.resp = n.resp /\ m.msgid = n.msgid /\ ~ m.resp => m = n

\* A child SA that its requester has established is one that the other side
\* established: its reply was for this child, and not for another one whose
\* exchange is open at the same time (st_msgid, state_with_parent_msgid_expect).
EstablishedByBoth ==
  \A p \in Peers, c \in Slots :
    LET r == child[p][c]
    IN  lost = 0 /\ r.state = "IPSEC" /\ r.sa.by = p /\ r.sa # FirstSA
          => Packet(Other(p), TRUE, r.sa.msgid, "CREATE_CHILD", r.sa) \in net

\* A request is handled once, however often the network delivers it ("this is
\* an OLD retransmit", "this is a recent retransmit" in process_v2_packet), by a
\* side that sends no CREATE_CHILD_SA request itself: when such a request goes
\* out, ikev2_update_msgid_counters loses the ID of the last request handled.
\* For the original initiator, whose st_msgid_lastrecv starts as the largest ID,
\* only the first request is sure to be: one that overtakes it is not recorded.
HandledOnce ==
  \A p \in Peers \ Requesters, id \in Msgids :
    p = "R" \/ id = v2_INITIAL_MSGID => handled[p][id] <= 1

\* A child SA that is asked for is established, whatever is lost on the way.
RequestedIsEstablished ==
  \A p \in Peers, c \in Slots :
    child[p][c].state = "CREATE_I0" ~> child[p][c].state = "IPSEC"

=============================================================================
