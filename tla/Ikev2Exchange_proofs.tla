------------------------- MODULE Ikev2Exchange_proofs -------------------------
(***************************************************************************)
(* The exchanges of an established IKEv2 SA proved for any window, any     *)
(* number of child states and messages, and any number of losses.          *)
(***************************************************************************)
EXTENDS Ikev2Exchange_side

-----------------------------------------------------------------------------
(* The steps. *)

\* A state of its own for a child that is asked for.
LEMMA AddStep ==
  ASSUME ExchangeInv, conf' = conf, NEW p \in Peers, NEW c \in Slots,
         ikev2_add_ipsec_child(p, c)
  PROVE  ExchangeInv'
<1> DEFINE r == Child("CREATE_I0", 0, NoSA)
           s == SetChild(Side(p), c, r)
<1>1. r \in ChildRec /\ ChildOK(p, r) /\ r.state = "CREATE_I0"
  <2>1. conf \in Configs /\ p \in Requesters
    BY DEF ExchangeInv, ikev2_add_ipsec_child
  <2> QED
    BY <2>1, Limits DEF Child, ChildRec, ChildOK, States
<1>2. Side(p).child[c].state # "WAIT"
  BY DEF ikev2_add_ipsec_child, NewSlot
<1>3. Fine(p, Side(p), net)
  BY FineSide
<1> HIDE DEF r
<1>4. Fine(p, s, net) /\ s.ike = Side(p).ike
  <2>1. Answered(p, r, net, lost) /\ Asked(r, ike[Other(p)].nextuse)
    BY <1>1 DEF Answered, Asked
  <2> QED
    BY <1>1, <1>2, <1>3, <2>1, FineSet, Zenon
<1>5. Become(p, s) /\ UNCHANGED <<net, lost, handled>>
  BY DEF ikev2_add_ipsec_child, r
<1>6. s.ike = ike[p]
  BY <1>4, Facts, Zenon
<1> HIDE DEF s
<1> QED
  BY <1>4, <1>5, <1>6, SilentStep

\* A child state is deleted without a word.
LEMMA FreeStep ==
  ASSUME ExchangeInv, conf' = conf, UNCHANGED <<net, lost, handled>>,
         NEW p \in Peers, NEW c \in Slots, Become(p, FreeSlot(Side(p), c))
  PROVE  ExchangeInv'
<1>1. Fine(p, Side(p), net) /\ Side(p).ike = ike[p]
  BY FineSide, Facts, Zenon
<1> DEFINE s == FreeSlot(Side(p), c)
<1>2. /\ Fine(p, s, net)
      /\ s.ike.nextuse = ike[p].nextuse
      /\ s.ike.tpacket = ike[p].tpacket
      /\ s.ike.lastrecv = ike[p].lastrecv
  BY <1>1, FineFree
<1> HIDE DEF s
<1> QED
  BY <1>2, SilentStep DEF s

\* An initiator that gives up a child frees its slot.
LEMMA GiveUpStep ==
  ASSUME ExchangeInv, conf' = conf, NEW p \in Peers, NEW c \in Slots, GiveUp(p, c)
  PROVE  ExchangeInv'
<1>1. find_pending_phas2(Side(p), c)
  BY Facts, Zenon DEF GiveUp, find_pending_phas2
<1> QED
  BY <1>1, FreeStep DEF GiveUp

\* So does a responder whose child times out.
LEMMA TimeoutStep ==
  ASSUME ExchangeInv, conf' = conf, NEW p \in Peers, NEW c \in Slots,
         ResponderTimeout(p, c)
  PROVE  ExchangeInv'
BY FreeStep DEF ResponderTimeout

\* A responder that refuses a child leaves no SA behind.
LEMMA RejectStep ==
  ASSUME ExchangeInv, conf' = conf, NEW p \in Peers, NEW c \in Slots, RejectChild(p, c)
  PROVE  ExchangeInv'
<1> DEFINE r == Child("CREATE_R_FAILED", 0, child[p][c].sa)
           s == SetChild(Side(p), c, r)
<1>1. r \in ChildRec /\ ChildOK(p, r) /\ r.state = "CREATE_R_FAILED"
  <2>1. conf \in Configs /\ child[p][c].sa \in SAs
    BY Facts, Zenon DEF ChildRec
  <2> QED
    BY <2>1, Limits, Zenon DEF Child, ChildRec, ChildOK, States, Initiating
<1>2. Side(p).child[c].state # "WAIT"
  BY DEF RejectChild, Side
<1>3. Fine(p, Side(p), net)
  BY FineSide
<1> HIDE DEF r
<1>4. Fine(p, s, net) /\ s.ike = Side(p).ike
  <2>1. Answered(p, r, net, lost) /\ Asked(r, ike[Other(p)].nextuse)
    BY <1>1 DEF Answered, Asked
  <2> QED
    BY <1>1, <1>2, <1>3, <2>1, FineSet, Zenon
<1>5. Become(p, s) /\ UNCHANGED <<net, lost, handled>>
  BY DEF RejectChild, r
<1>6. s.ike = ike[p]
  BY <1>4, Facts, Zenon
<1> HIDE DEF s
<1> QED
  BY <1>4, <1>5, <1>6, SilentStep

\* A step of one peer that sends the packet m.
LEMMA SendStep ==
  ASSUME ExchangeInv, conf' = conf, lost' = lost,
         NEW p \in Peers, NEW s, NEW m \in Messages, net' = net \cup {m},
         Fine(p, s, net'), Become(p, s), m.from = p, RightSA(m),
         \/ m.resp /\ s.ike.nextuse = ike[p].nextuse
         \/ ~ m.resp /\ m.msgid = ike[p].nextuse /\ s.ike.nextuse = ike[p].nextuse + 1,
         s.ike.tpacket = m \/ s.ike.tpacket = ike[p].tpacket,
         handled' \in [Peers -> [Msgids -> Nat]],
         handled'[Other(p)] = handled[Other(p)],
         HandledOK(p, s.ike.lastrecv, handled'[p])
  PROVE  ExchangeInv'
<1>1. ike[p].tpacket \in Sent /\ net \subseteq Sent /\ ike[p].nextuse \in Nat
  BY Facts, Zenon
<1>2. s.ike.nextuse >= ike[p].nextuse
  BY <1>1
<1>3. net \subseteq net' /\ net' \subseteq Sent \cup {m} /\ s.ike.tpacket \in Sent \cup {m}
  BY <1>1
<1>4. ike' = [ike EXCEPT ![p] = s.ike] /\ child' = [child EXCEPT ![p] = s.child]
  BY DEF Become
<1> QED
  BY <1>2, <1>3, <1>4, SideStep, Zenon DEF Fine

\* CREATE_CHILD_SA requests.
LEMMA RequestStep ==
  ASSUME ExchangeInv, conf' = conf, NEW p \in Peers, NEW c \in Slots,
         child[p][c].state \in {"CREATE_I0", "SEND_NEXT"}, SendRequest(p, c)
  PROVE  ExchangeInv'
<1> DEFINE id == Side(p).ike.nextuse
           sa == [by |-> p, msgid |-> id]
           m == Packet(p, FALSE, id, "CREATE_CHILD", sa)
           r == Child("CREATE_I", id, m.sa)
           t == Recorded(Side(p), m, v2_INVALID_MSGID)
           u == SetChild(t, c, r)
           s == ikev2_update_msgid_counters(u, FakeMd(m), TRUE)
<1>c. conf \in Configs
  BY DEF ExchangeInv
<1>1. p \in Requesters
  <2>1. ChildOK(p, child[p][c])
    BY Facts, Zenon DEF SideOK
  <2> QED
    BY <2>1 DEF ChildOK, Initiating
<1>2. id \in Nat /\ id < MaxUse[p] /\ id \in Msgids /\ v2_INVALID_MSGID \in Msgids
  <2>1. id \in Nat /\ id < MaxUse[p]
    BY Facts, Zenon DEF SendRequest, CanSend
  <2>2. MaxUse[p] \in Nat /\ MaxUse[p] < v2_INVALID_MSGID /\ v2_INVALID_MSGID \in Msgids
    BY <1>c, Limits
  <2>3. id \in Msgids
    BY <2>1, <2>2, MsgidAssumption DEF v2_INVALID_MSGID, Msgids
  <2> QED
    BY <2>1, <2>2, <2>3
<1> HIDE DEF id
<1>3. /\ sa \in SAs /\ m \in Messages /\ m.from = p /\ RightSA(m)
      /\ ~ m.resp /\ m.msgid = id
  BY <1>2, Zenon DEF SAs, Messages, Packet, RightSA
<1>4. FakeMd(m) \in Messages
  BY <1>2, Zenon DEF FakeMd, Messages, SAs, Packet
<1>5. r \in ChildRec /\ ChildOK(p, r) /\ r.state = "CREATE_I"
  <2>1. m.sa = sa
    BY DEF Packet
  <2> QED
    BY <1>1, <1>2, <1>3, <2>1, Zenon DEF Child, ChildRec, ChildOK, States
<1> DEFINE n == net \cup {m}
<1>6. s = ikev2_child_out_tail(Side(p), p, c)
  <2> DEFINE v == SetChild(record_outbound_ike_msg(Side(p), m), c, r)
             x == [ike |-> [v.ike EXCEPT !.lastreplied = v2_INVALID_MSGID],
                   child |-> v.child]
  <2>1. ikev2_child_out_tail(Side(p), p, c) = ikev2_update_msgid_counters(x, FakeMd(m), TRUE)
    BY Zenon DEF ikev2_child_out_tail, id
  <2>2. x = u
    <3> HIDE DEF m, r
    <3> QED
      BY Zenon DEF SetChild, Recorded
  <2> HIDE DEF x, u
  <2> QED
    BY <2>1, <2>2
<1> HIDE DEF sa, m, r
<1>7. Fine(p, Side(p), n)
  BY FineSide
<1> HIDE DEF n
<1>8. /\ SideOK(p, t) /\ t.child = child[p]
      /\ t.ike.nextuse = id /\ t.ike.tpacket = m
  <2>1. SideOK(p, Side(p)) /\ Side(p).ike = ike[p] /\ Side(p).child = child[p]
    BY Facts, Zenon
  <2>2. Records(p, Side(p), m, t)
    BY <1>2, <1>3, <2>1, RecordOK, Zenon
  <2> HIDE DEF t
  <2> QED
    BY <2>1, <2>2, Zenon DEF Records, id
<1> HIDE DEF t
<1>9. Fine(p, t, n)
  BY <1>7, <1>8, Facts, Zenon DEF Fine
<1>10. Fine(p, u, n) /\ u.ike = t.ike
  <2>1. Answered(p, r, n, lost) /\ Asked(r, ike[Other(p)].nextuse)
    BY <1>5 DEF Answered, Asked
  <2>2. t.child[c].state # "WAIT"
    BY <1>8
  <2> QED
    BY <1>5, <1>9, <2>1, <2>2, FineSet, Zenon
<1> HIDE DEF u
<1>11. Fine(p, s, n) /\ s.ike.nextuse = id + 1 /\ s.ike.tpacket = m
  <2>1. u.ike.nextuse < MaxUse[p] /\ u.ike.nextuse = id /\ u.ike.tpacket = m
    BY <1>2, <1>8, <1>10
  <2>2. /\ Fine(p, s, n)
        /\ s.ike.nextuse = u.ike.nextuse + 1
        /\ s.ike.tpacket = u.ike.tpacket
    BY <1>4, <1>10, <2>1, FineSend, Zenon
  <2> QED
    BY <2>1, <2>2, Zenon
<1> HIDE DEF s
<1>12. Become(p, s) /\ net' = net \cup {m} /\ lost' = lost /\ handled' = handled
  BY <1>6, <1>11 DEF SendRequest
<1>13. HandledOK(p, s.ike.lastrecv, handled'[p])
  BY <1>1 DEF HandledOK
<1>14. handled' \in [Peers -> [Msgids -> Nat]] /\ handled'[Other(p)] = handled[Other(p)]
  BY <1>12, Facts, Zenon
<1> QED
  <2>1. id = ike[p].nextuse
    BY Facts, Zenon DEF id
  <2> QED
    BY <1>3, <1>11, <1>12, <1>13, <1>14, <2>1, SendStep, Zenon DEF n

\* A child whose request has to wait is put on send_next_ix.
LEMMA QueueStep ==
  ASSUME ExchangeInv, conf' = conf, UNCHANGED <<net, lost, handled>>,
         NEW p \in Peers, NEW c \in Slots, child[p][c].state = "CREATE_I0",
         NEW k, k = [ike[p] EXCEPT !.send_next_ix = Append(ike[p].send_next_ix, c)],
         Become(p, SetChild([ike |-> k, child |-> child[p]], c, Child("WAIT", 0, NoSA)))
  PROVE  ExchangeInv'
<1> DEFINE r == Child("WAIT", 0, NoSA)
           s == SetChild([ike |-> k, child |-> child[p]], c, r)
           q == ike[p].send_next_ix
           a == Append(q, c)
<1>1. /\ conf \in Configs /\ ike[p] \in IkeRec /\ child[p] \in [Slots -> ChildRec]
      /\ SideOK(p, Side(p)) /\ Side(p).ike = ike[p] /\ Side(p).child = child[p]
  BY Facts
<1>2. q \in Seq(0 .. NSlots) /\ c \in 0 .. NSlots
  BY <1>1 DEF IkeRec, Slots
<1>3. /\ QueueOK(q, child[p])
      /\ \A d \in Slots : ChildOK(p, child[p][d])
      /\ ike[p].nextuse <= MaxUse[p] /\ ike[p].tpacket.from = p
  BY <1>1 DEF SideOK
<1>4. r \in ChildRec /\ ChildOK(p, r) /\ r.state = "WAIT"
  <2>1. p \in Requesters
    BY <1>3, Zenon DEF ChildOK, Initiating
  <2> QED
    BY <1>1, <2>1, Limits DEF Child, ChildRec, ChildOK, States
<1> HIDE DEF r, q
<1>5. /\ a \in Seq(0 .. NSlots) /\ Len(q) \in Nat /\ Len(a) = Len(q) + 1
      /\ a[Len(q) + 1] = c
      /\ \A i \in 1 .. Len(q) : a[i] = q[i]
  BY <1>2
<1> HIDE DEF a
<1>6. /\ k \in IkeRec /\ k.send_next_ix = a
      /\ k.nextuse = ike[p].nextuse
      /\ k.tpacket = ike[p].tpacket
      /\ k.lastrecv = ike[p].lastrecv
  <2>1. k = [ike[p] EXCEPT !.send_next_ix = a]
    BY DEF a, q
  <2> QED
    BY <1>1, <1>5, <2>1, Zenon DEF IkeRec
<1> DEFINE ch == [child[p] EXCEPT ![c] = r]
<1>7. /\ ch \in [Slots -> ChildRec]
      /\ ch[c] = r
      /\ \A d \in Slots : d # c => ch[d] = child[p][d]
  BY <1>1, <1>4
<1>8. s = [ike |-> k, child |-> ch]
  BY Zenon DEF SetChild
<1> HIDE DEF ch, s
<1>9. QueueOK(a, ch)
  <2>1. ASSUME NEW i \in 1 .. Len(q), q[i] \in Slots
        PROVE  q[i] # c
    BY <1>3, <2>1 DEF QueueOK
  <2>2. ASSUME NEW i \in 1 .. Len(a)
        PROVE  i = Len(q) + 1 \/ i \in 1 .. Len(q)
    BY <1>5
  <2>3. ASSUME NEW i \in 1 .. Len(a), a[i] \in Slots
        PROVE  ch[a[i]].state = "WAIT"
    <3>1. CASE i = Len(q) + 1
      BY <3>1, <1>4, <1>5, <1>7
    <3>2. CASE i \in 1 .. Len(q)
      BY <3>2, <2>1, <2>3, <1>3, <1>5, <1>7 DEF QueueOK
    <3> QED
      BY <3>1, <3>2, <2>2
  <2>4. ASSUME NEW i \in 1 .. Len(a), NEW l \in 1 .. Len(a), a[i] = a[l], a[i] \in Slots
        PROVE  i = l
    <3>1. CASE i \in 1 .. Len(q) /\ l \in 1 .. Len(q)
      BY <3>1, <2>4, <1>3, <1>5 DEF QueueOK
    <3>2. CASE i = Len(q) + 1 /\ l \in 1 .. Len(q)
      BY <3>2, <2>1, <2>4, <1>5
    <3>3. CASE l = Len(q) + 1 /\ i \in 1 .. Len(q)
      BY <3>3, <2>1, <2>4, <1>5
    <3> QED
      BY <3>1, <3>2, <3>3, <2>2
  <2> QED
    BY <2>3, <2>4 DEF QueueOK
<1>10. SideOK(p, s)
  <2>1. s \in Sides /\ s.ike = k /\ s.child = ch
    BY <1>6, <1>7, <1>8 DEF Sides
  <2>2. \A d \in Slots : ChildOK(p, ch[d])
    BY <1>3, <1>4, <1>7
  <2> QED
    BY <2>1, <2>2, <1>3, <1>6, <1>9, Zenon DEF SideOK
<1>11. Fine(p, s, net)
  <2>1. Answered(p, r, net, lost) /\ Asked(r, ike[Other(p)].nextuse)
    BY <1>4 DEF Answered, Asked
  <2>2. Backed(p, ch, net, lost) /\ Known(ch, ike[Other(p)].nextuse)
    BY <1>1, <2>1, Facts, ChildChange, Zenon DEF ch
  <2> QED
    BY <1>8, <1>10, <2>2 DEF Fine
<1>12. s.ike = k
  BY <1>8
<1>13. Become(p, s)
  BY DEF s, r
<1> QED
  BY <1>6, <1>11, <1>12, <1>13, SilentStep, Zenon

\* add_st_send_list sends the request or queues the child.
LEMMA SendListStep ==
  ASSUME ExchangeInv, conf' = conf, NEW p \in Peers, NEW c \in Slots,
         add_st_send_list(p, c)
  PROVE  ExchangeInv'
<1>1. CASE unack(ike[p]) < Window
  BY <1>1, RequestStep DEF add_st_send_list
<1>2. CASE ~ (unack(ike[p]) < Window)
  <2> DEFINE k == [ike[p] EXCEPT !.send_next_ix = Append(ike[p].send_next_ix, c)]
  <2>1. /\ child[p][c].state = "CREATE_I0"
        /\ Become(p, SetChild([ike |-> k, child |-> child[p]], c, Child("WAIT", 0, NoSA)))
        /\ UNCHANGED <<net, lost, handled>>
    BY <1>2 DEF add_st_send_list
  <2>2. k = [ike[p] EXCEPT !.send_next_ix = Append(ike[p].send_next_ix, c)]
    OBVIOUS
  <2> HIDE DEF k
  <2> QED
    BY <2>1, <2>2, QueueStep
<1> QED
  BY <1>1, <1>2

\* A message ID is used up, by an INFORMATIONAL request that is not recorded.
Used(s) == [ike |-> [s.ike EXCEPT !.nextuse = s.ike.nextuse + 1], child |-> s.child]

\* Using up a message ID keeps the side fine.
LEMMA UseOK ==
  ASSUME NEW p \in Peers, NEW s, NEW n, Fine(p, s, n), s.ike.nextuse < MaxUse[p],
         conf \in Configs
  PROVE  LET t == Used(s)
         IN  /\ Fine(p, t, n)
             /\ t.child = s.child
             /\ t.ike.nextuse = s.ike.nextuse + 1
             /\ t.ike.tpacket = s.ike.tpacket
             /\ t.ike.lastrecv = s.ike.lastrecv
<1>1. PICK j \in IkeRec : s.ike = j
  BY DEF Fine, SideOK, Sides
<1> DEFINE k == [j EXCEPT !.nextuse = j.nextuse + 1]
           t == [ike |-> k, child |-> s.child]
<1>2. /\ k \in IkeRec
      /\ k.nextuse = j.nextuse + 1
      /\ k.tpacket = j.tpacket
      /\ k.lastrecv = j.lastrecv
      /\ k.send_next_ix = j.send_next_ix
  BY DEF IkeRec
<1>3. j.nextuse + 1 <= MaxUse[p]
  <2>1. j.nextuse \in Nat /\ MaxUse[p] \in Nat
    BY Limits DEF IkeRec
  <2> QED
    BY <1>1, <2>1
<1> HIDE DEF k
<1>4. t \in Sides /\ t.ike = k /\ t.child = s.child
  BY <1>2 DEF Fine, SideOK, Sides
<1> HIDE DEF t
<1>5. SideOK(p, t)
  BY <1>1, <1>2, <1>3, <1>4 DEF Fine, SideOK
<1>6. Fine(p, t, n)
  BY <1>4, <1>5 DEF Fine
<1>7. t = Used(s)
  BY <1>1, Zenon DEF t, k, Used
<1> QED
  BY <1>1, <1>2, <1>4, <1>6, <1>7

\* An INFORMATIONAL request of p with the next message ID.
LEMMA InformationalFacts ==
  ASSUME ExchangeInv, NEW p \in Peers, CanSend(p),
         NEW ix \in {"LIVENESS", "DELETE"}, NEW sa \in SAs
  PROVE  LET m == Packet(p, FALSE, ike[p].nextuse, ix, sa)
         IN  /\ m \in Messages /\ m.from = p /\ RightSA(m)
             /\ ~ m.resp /\ m.msgid = ike[p].nextuse
<1>1. ike[p].nextuse \in Nat /\ ike[p].nextuse < MaxUse[p] /\ conf \in Configs
  BY Facts DEF CanSend
<1>2. MaxUse[p] \in Nat /\ MaxUse[p] < v2_INVALID_MSGID
  BY <1>1, Limits
<1>3. ike[p].nextuse \in Msgids
  BY <1>1, <1>2, MsgidAssumption DEF v2_INVALID_MSGID, Msgids
<1> QED
  BY <1>3 DEF Messages, Packet, RightSA

\* A request that is sent without being recorded, from a side s that has only
\* been used so far.
LEMMA UseStep ==
  ASSUME ExchangeInv, conf' = conf, UNCHANGED <<lost, handled>>,
         NEW p \in Peers, NEW s, CanSend(p), NEW ix \in {"LIVENESS", "DELETE"},
         NEW sa \in SAs, NEW m, m = Packet(p, FALSE, ike[p].nextuse, ix, sa),
         net' = net \cup {m}, Fine(p, s, net'), Become(p, Used(s)),
         s.ike.nextuse = ike[p].nextuse, s.ike.tpacket = ike[p].tpacket,
         s.ike.lastrecv = ike[p].lastrecv
  PROVE  ExchangeInv'
<1>1. /\ m \in Messages /\ m.from = p /\ RightSA(m)
      /\ ~ m.resp /\ m.msgid = ike[p].nextuse
  BY InformationalFacts, Zenon
<1>2. conf \in Configs /\ s.ike.nextuse < MaxUse[p]
  BY Facts, Zenon DEF CanSend
<1>3. /\ Fine(p, Used(s), net')
      /\ Used(s).ike.nextuse = ike[p].nextuse + 1
      /\ Used(s).ike.tpacket = ike[p].tpacket
      /\ Used(s).ike.lastrecv = ike[p].lastrecv
  BY <1>2, UseOK, Zenon
<1>4. /\ handled' \in [Peers -> [Msgids -> Nat]] /\ handled'[Other(p)] = handled[Other(p)]
      /\ HandledOK(p, Used(s).ike.lastrecv, handled'[p])
  BY <1>3, Facts, Zenon
<1> QED
  BY <1>1, <1>3, <1>4, SendStep, Zenon

\* ikev2_send_informational uses up a message ID.
LEMMA LivenessStep ==
  ASSUME ExchangeInv, conf' = conf, NEW p \in Peers, ikev2_send_informational(p)
  PROVE  ExchangeInv'
<1> DEFINE m == Packet(p, FALSE, ike[p].nextuse, "LIVENESS", NoSA)
<1>1. /\ CanSend(p) /\ net' = net \cup {m} /\ UNCHANGED <<child, lost, handled>>
      /\ ike' = [ike EXCEPT ![p].nextuse = ike[p].nextuse + 1]
  BY DEF ikev2_send_informational
<1>2. Fine(p, Side(p), net')
  BY <1>1, FineSide, Zenon
<1>3. Side(p).ike = ike[p] /\ Side(p).child = child[p] /\ conf \in Configs
  BY Facts, Zenon
<1>4. Become(p, Used(Side(p)))
  <2>1. /\ Used(Side(p)).ike = [ike[p] EXCEPT !.nextuse = ike[p].nextuse + 1]
        /\ Used(Side(p)).child = child[p]
    BY <1>3, Zenon DEF Used
  <2>2. ike' = [ike EXCEPT ![p] = [ike[p] EXCEPT !.nextuse = ike[p].nextuse + 1]]
    BY <1>1 DEF ExchangeInv, IkeRec
  <2>3. child' = [child EXCEPT ![p] = child[p]]
    BY <1>1 DEF ExchangeInv
  <2> QED
    BY <2>1, <2>2, <2>3, Zenon DEF Become
<1>5. NoSA \in SAs
  BY <1>3, Limits
<1> HIDE DEF m
<1>6. m = Packet(p, FALSE, ike[p].nextuse, "LIVENESS", NoSA)
  BY DEF m
<1> QED
  BY <1>1, <1>2, <1>3, <1>4, <1>5, <1>6, UseStep, Zenon

\* delete_state tells the peer, if it may, and frees the slot.
LEMMA DeleteStep ==
  ASSUME ExchangeInv, conf' = conf, NEW p \in Peers, NEW c \in Slots, delete_state(p, c)
  PROVE  ExchangeInv'
<1> DEFINE m == Packet(p, FALSE, ike[p].nextuse, "DELETE", child[p][c].sa)
           s == FreeSlot(Side(p), c)
<1>1. CASE child[p][c].no_del
  <2>1. Become(p, s) /\ UNCHANGED <<net, lost, handled>>
    BY <1>1 DEF delete_state
  <2> QED
    BY <2>1, FreeStep
<1>2. CASE ~ child[p][c].no_del
  <2>1. CanSend(p) /\ net' = net \cup {m} /\ UNCHANGED <<lost, handled>>
    BY <1>2 DEF delete_state
  <2>2. Fine(p, Side(p), net') /\ Side(p).ike = ike[p]
    BY <2>1, FineSide, Facts, Zenon
  <2>3. /\ Fine(p, s, net')
        /\ s.ike.nextuse = ike[p].nextuse
        /\ s.ike.tpacket = ike[p].tpacket
        /\ s.ike.lastrecv = ike[p].lastrecv
    BY <2>2, FineFree
  <2>4. Become(p, [ike |-> [s.ike EXCEPT !.nextuse = ike[p].nextuse + 1],
                   child |-> s.child])
    BY <1>2, Zenon DEF delete_state
  <2> HIDE DEF s
  <2>5. Become(p, Used(s))
    BY <2>3, <2>4, Zenon DEF Used
  <2>6. child[p][c].sa \in SAs
    BY Facts, Zenon DEF ChildRec
  <2>7. m = Packet(p, FALSE, ike[p].nextuse, "DELETE", child[p][c].sa)
    OBVIOUS
  <2> HIDE DEF m
  <2> QED
    BY <2>1, <2>3, <2>5, <2>6, <2>7, UseStep, Zenon
<1> QED
  BY <1>1, <1>2

\* The packet of the IKE SA is sent once more.
LEMMA AgainStep ==
  ASSUME ExchangeInv, conf' = conf, NEW p \in Peers,
         net' = net \/ net' = net \cup {ike[p].tpacket},
         UNCHANGED <<ike, child, lost, handled>>
  PROVE  ExchangeInv'
<1>1. /\ ike[p].tpacket \in Sent /\ Sent \subseteq Messages /\ net \subseteq Sent
      /\ Side(p).ike = ike[p] /\ Side(p).child = child[p] /\ ike[p].nextuse \in Nat
  BY Facts, Zenon
<1>2. Fine(p, Side(p), net')
  BY FineSide
<1>3. /\ ike' = [ike EXCEPT ![p] = Side(p).ike]
      /\ child' = [child EXCEPT ![p] = Side(p).child]
  BY <1>1 DEF ExchangeInv
<1>4. Side(p).ike.nextuse >= ike[p].nextuse
  BY <1>1
<1>5. /\ handled' \in [Peers -> [Msgids -> Nat]] /\ handled'[Other(p)] = handled[Other(p)]
      /\ HandledOK(p, Side(p).ike.lastrecv, handled'[p])
  BY <1>1, Facts, Zenon
<1>6. /\ net \subseteq net' /\ net' \subseteq Sent \cup {ike[p].tpacket}
      /\ Side(p).ike.tpacket \in Sent \cup {ike[p].tpacket}
      /\ ike[p].tpacket \in Messages
  BY <1>1
<1> QED
  BY <1>1, <1>2, <1>3, <1>4, <1>5, <1>6, SideStep, Zenon DEF Fine

\* A message ID the other peer has used is not the largest one.
LEMMA UsedId ==
  ASSUME ExchangeInv, NEW p \in Peers, NEW id \in Msgids, id < ike[p].nextuse
  PROVE  id < v2_INVALID_MSGID
<1>1. ike[p].nextuse \in Nat /\ ike[p].nextuse <= MaxUse[p] /\ conf \in Configs
  BY Facts
<1>2. MaxUse[p] \in Nat /\ MaxUse[p] < v2_INVALID_MSGID /\ v2_INVALID_MSGID \in Int
  BY <1>1, Limits, MsgidAssumption DEF v2_INVALID_MSGID
<1> QED
  BY <1>1, <1>2, MsgidAssumption DEF Msgids

\* The reply to a CREATE_CHILD_SA request.
LEMMA ReplyStep ==
  ASSUME ExchangeInv, conf' = conf, NEW p \in Peers, NEW c \in Slots, ReplyChild(p, c)
  PROVE  ExchangeInv'
<1> DEFINE sa == child[p][c].sa
           m == Packet(p, TRUE, sa.msgid, "CREATE_CHILD", sa)
           md == Packet(Other(p), FALSE, sa.msgid, "CREATE_CHILD", sa)
           r == Child("IPSEC", 0, sa)
           t == Recorded(Side(p), m, sa.msgid)
           u == SetChild(t, c, r)
           s == ikev2_update_msgid_counters(u, md, FALSE)
           n == net \cup {m}
<1>1. /\ conf \in Configs /\ SideOK(p, Side(p)) /\ Other(p) \in Peers /\ Other(p) # p
      /\ Side(p).ike = ike[p] /\ Side(p).child = child[p]
      /\ child[p] \in [Slots -> ChildRec] /\ ike[p].nextuse \in Nat
      /\ child[p][c].state = "CREATE_R"
  BY Facts, Zenon DEF ReplyChild
<1>2. /\ sa \in SAs /\ sa.msgid \in Msgids
      /\ sa.by = Other(p) /\ sa.msgid < ike[Other(p)].nextuse
  <2>1. ChildOK(p, child[p][c]) /\ Known(child[p], ike[Other(p)].nextuse)
    BY <1>1, Facts, Zenon DEF SideOK
  <2>2. sa \in SAs
    BY <1>1, Zenon DEF ChildRec
  <2> QED
    BY <1>1, <2>1, <2>2, Zenon DEF ChildOK, Known, Asked, SAs
<1>3. sa.msgid < v2_INVALID_MSGID
  BY <1>1, <1>2, UsedId
<1> HIDE DEF sa
<1>4. m \in Messages /\ m.from = p /\ RightSA(m) /\ m.resp
  <2>1. sa = [by |-> Other(p), msgid |-> sa.msgid]
    BY <1>2 DEF SAs
  <2> HIDE DEF sa
  <2> QED
    BY <1>2, <2>1 DEF Messages, Packet, RightSA
<1>5. md \in Messages /\ ~ md.resp /\ md.msgid = sa.msgid
  BY <1>1, <1>2, Zenon DEF Messages, Packet
<1>6. /\ r \in ChildRec /\ ChildOK(p, r)
      /\ Answered(p, r, n, lost) /\ Asked(r, ike[Other(p)].nextuse)
  <2>1. 0 \in Msgids
    BY <1>1, Limits, Zenon
  <2>2. r \in ChildRec /\ r.state = "IPSEC" /\ r.sa = sa
    BY <1>2, <2>1 DEF Child, ChildRec, States
  <2> HIDE DEF r
  <2> QED
    BY <1>1, <1>2, <2>2, Zenon DEF ChildOK, Answered, Asked, Initiating
<1>7. Become(p, s) /\ net' = n /\ UNCHANGED <<lost, handled>>
  <2> DEFINE v == SetChild(record_outbound_ike_msg(Side(p), m), c, r)
             x == [ike |-> [v.ike EXCEPT !.lastreplied = sa.msgid], child |-> v.child]
  <2>1. /\ Become(p, ikev2_update_msgid_counters(x, md, FALSE))
        /\ net' = n /\ UNCHANGED <<lost, handled>>
    BY Zenon DEF ReplyChild, sa
  <2>2. x = u
    <3> HIDE DEF m, r
    <3> QED
      BY Zenon DEF SetChild, Recorded
  <2> HIDE DEF x, u
  <2> QED
    BY <2>1, <2>2, Zenon
<1>8. Fine(p, Side(p), n)
  BY FineSide, Zenon
<1> HIDE DEF m, md, r, n
<1>9. /\ SideOK(p, t) /\ t.child = child[p]
      /\ t.ike.nextuse = ike[p].nextuse /\ t.ike.tpacket = m
      /\ t.ike.lastrecv = ike[p].lastrecv
  <2>1. SideOK(p, Side(p)) /\ Side(p).ike = ike[p] /\ Side(p).child = child[p]
    BY Facts, Zenon
  <2>2. Records(p, Side(p), m, t)
    BY <1>2, <1>4, <2>1, RecordOK, Zenon
  <2> HIDE DEF t
  <2> QED
    BY <2>1, <2>2, Zenon DEF Records
<1> HIDE DEF t
<1>10. Fine(p, t, n)
  BY <1>1, <1>8, <1>9, Zenon DEF Fine
<1>11. Fine(p, u, n) /\ u.ike = t.ike
  <2>1. t.child[c].state # "WAIT"
    BY <1>1, <1>9
  <2> QED
    BY <1>6, <1>10, <2>1, FineSet, Zenon
<1> HIDE DEF u
<1>12. /\ Fine(p, s, n) /\ s.ike.nextuse = u.ike.nextuse
       /\ s.ike.tpacket = u.ike.tpacket
       /\ s.ike.lastrecv = NewLastrecv(u.ike, md)
  <2>1. Received(p, u, md, n, s)
    BY <1>5, <1>11, FineReceive, Zenon
  <2> HIDE DEF s
  <2> QED
    BY <2>1, Zenon DEF Received
<1> HIDE DEF s
<1>13. /\ handled' \in [Peers -> [Msgids -> Nat]] /\ handled'[Other(p)] = handled[Other(p)]
       /\ HandledOK(p, s.ike.lastrecv, handled'[p])
  <2>1. /\ u.ike.lastrecv \in Msgids /\ handled[p] \in [Msgids -> Nat]
        /\ HandledOK(p, u.ike.lastrecv, handled[p])
    BY <1>9, <1>11, Facts, Zenon
  <2>2. HandledOK(p, NewLastrecv(u.ike, md), handled[p])
    BY <1>1, <1>3, <1>5, <2>1, OldHandled, Zenon
  <2> QED
    BY <1>7, <1>12, <2>2, Facts, Zenon
<1> QED
  BY <1>4, <1>7, <1>9, <1>11, <1>12, <1>13, SendStep, ZenonT(40) DEF n

\* A child SA is established, with the reply that was kept.
LEMMA DoneStep ==
  ASSUME ExchangeInv, conf' = conf, NEW p \in Peers, NEW c \in Slots,
         ChildReplyDone(p, c)
  PROVE  ExchangeInv'
<1> DEFINE x == child[p][c]
           m == Packet(Other(p), TRUE, x.msgid, "CREATE_CHILD", x.sa)
           r == Child("IPSEC", x.msgid, x.sa)
           u == SetChild(Side(p), c, r)
           s == ikev2_update_msgid_counters(u, m, FALSE)
<1>1. /\ Side(p).ike = ike[p] /\ Side(p).child = child[p] /\ Other(p) \in Peers
      /\ x \in ChildRec /\ x.state = "CREATE_I_DH" /\ Backed(p, child[p], net, lost)
  BY Facts, Zenon DEF ChildReplyDone
<1> HIDE DEF x
<1>2. m \in Messages /\ m.resp
  BY <1>1, Zenon DEF Messages, Packet, ChildRec
<1>3. r \in ChildRec /\ r.state = "IPSEC" /\ r.sa = x.sa
  BY <1>1, Zenon DEF Child, ChildRec, States
<1>4. Become(p, s) /\ UNCHANGED <<net, lost, handled>>
  BY Zenon DEF ChildReplyDone, x
<1> HIDE DEF m, r
<1>5. ChildOK(p, r) /\ Answered(p, r, net, lost) /\ Asked(r, ike[Other(p)].nextuse)
  <2>1. Answered(p, x, net, lost)
    BY <1>1 DEF Backed, x
  <2> QED
    BY <1>1, <1>3, <2>1, Zenon DEF ChildOK, Answered, Asked, Initiating
<1>6. Fine(p, u, net) /\ u.ike = ike[p]
  <2>1. Fine(p, Side(p), net)
    BY FineSide
  <2>2. Side(p).child[c].state # "WAIT"
    BY <1>1 DEF x
  <2> QED
    BY <1>1, <1>3, <1>5, <2>1, <2>2, FineSet, Zenon
<1> HIDE DEF u
<1>7. /\ Fine(p, s, net) /\ s.ike.nextuse = u.ike.nextuse
      /\ s.ike.tpacket = u.ike.tpacket /\ s.ike.lastrecv = u.ike.lastrecv
  <2>1. Replied(p, u, net, s)
    BY <1>2, <1>6, FineReply, Zenon
  <2> HIDE DEF s
  <2> QED
    BY <2>1, Zenon DEF Replied
<1> HIDE DEF s
<1> QED
  BY <1>4, <1>6, <1>7, SilentStep

\* The reply a child waits for, or one it has already.
LEMMA ChildReplyStep ==
  ASSUME ExchangeInv, conf' = conf, NEW p \in Peers, NEW m \in net,
         m.from = Other(p), m.resp, ChildReply(p, m)
  PROVE  ExchangeInv'
<1> DEFINE s == ikev2_update_msgid_counters(Side(p), m, FALSE)
           est(c) == SetChild(s, c, Child("IPSEC", s.child[c].msgid, s.child[c].sa))
           dh(c) == SetChild(s, c, Child("CREATE_I_DH", s.child[c].msgid, s.child[c].sa))
<1>1. PICK c \in Slots :
        /\ Expects(child[p][c], m)
        /\ \/ child[p][c].state = "CREATE_I_DH" /\ Become(p, s)
           \/ child[p][c].state = "CREATE_I" /\ MayReject /\ Become(p, s)
           \/ /\ child[p][c].state = "CREATE_I"
              /\ Become(p, IF PFS THEN dh(c)
                           ELSE ikev2_update_msgid_counters(est(c), m, FALSE))
  BY Zenon DEF ChildReply
<1>2. m.ix = "CREATE_CHILD" /\ UNCHANGED <<net, lost, handled>>
  BY Zenon DEF ChildReply
<1>3. /\ Side(p).ike = ike[p] /\ Side(p).child = child[p] /\ Other(Other(p)) = p
      /\ m \in Messages /\ m \in Sent /\ child[p][c] \in ChildRec
      /\ ChildOK(p, child[p][c])
  BY Facts, Zenon DEF SideOK
<1>4. m.sa = [by |-> p, msgid |-> m.msgid]
  BY <1>2, <1>3, Zenon DEF ExchangeInv, SentOK, RightSA
<1>5. m = Packet(Other(p), TRUE, m.msgid, "CREATE_CHILD", m.sa)
  BY <1>2, <1>3, Zenon DEF Messages, Packet
<1>6. /\ Fine(p, s, net) /\ Kept(Side(p), s)
      /\ s.ike.nextuse = ike[p].nextuse
      /\ s.ike.tpacket = ike[p].tpacket
      /\ s.ike.lastrecv = ike[p].lastrecv
  <2>1. Fine(p, Side(p), net) /\ m \in Messages
    BY <1>3, FineSide
  <2>2. /\ Fine(p, s, net) /\ Kept(Side(p), s)
        /\ s.ike.nextuse = Side(p).ike.nextuse
        /\ s.ike.tpacket = Side(p).ike.tpacket
        /\ s.ike.lastrecv = Side(p).ike.lastrecv
    <3>1. Replied(p, Side(p), net, s)
      BY <2>1, FineReply, Zenon
    <3> HIDE DEF s
    <3> QED
      BY <3>1, Zenon DEF Replied
  <2> QED
    BY <1>3, <2>2, Zenon
<1> HIDE DEF s
<1>7. CASE Become(p, s)
  BY <1>2, <1>6, <1>7, SilentStep
<1>8. CASE child[p][c].state = "CREATE_I" /\ ~ Become(p, s)
  <2>1. s.child[c] = child[p][c]
    BY <1>3, <1>6, <1>8, Zenon DEF Kept
  <2> DEFINE x == child[p][c]
  <2>2. /\ x \in ChildRec /\ x.msgid = m.msgid
        /\ x.sa = m.sa /\ x.sa.by = p /\ x.sa.msgid = m.msgid
    <3>1. x.sa = [by |-> p, msgid |-> x.msgid] /\ x.msgid = m.msgid
      BY <1>1, <1>3, <1>8, Zenon DEF ChildOK, Expects
    <3> QED
      BY <1>3, <1>4, <3>1
  <2>3. p \in Requesters
    BY <1>3, <1>8, Zenon DEF ChildOK, Initiating
  <2> HIDE DEF x
  <2>4. ASSUME NEW st \in {"IPSEC", "CREATE_I_DH"}
        PROVE  /\ Fine(p, SetChild(s, c, Child(st, x.msgid, x.sa)), net)
               /\ SetChild(s, c, Child(st, x.msgid, x.sa)).ike = s.ike
    <3> DEFINE r == Child(st, x.msgid, x.sa)
    <3>1. /\ r \in ChildRec /\ r.state = st /\ r.sa = x.sa /\ r.msgid = x.msgid
      BY <2>2 DEF Child, ChildRec, States
    <3> HIDE DEF r
    <3>2. ChildOK(p, r)
      BY <2>2, <2>3, <3>1, <1>4 DEF ChildOK
    <3>3. Answered(p, r, net, lost)
      BY <1>5, <2>2, <3>1, Zenon DEF Answered
    <3>4. Asked(r, ike[Other(p)].nextuse) /\ s.child[c].state # "WAIT"
      BY <1>8, <2>1, <3>1 DEF Asked
    <3>5. Fine(p, SetChild(s, c, r), net) /\ SetChild(s, c, r).ike = s.ike
      BY <1>6, <3>1, <3>2, <3>3, <3>4, FineSet, Zenon
    <3> QED
      BY <3>5 DEF r
  <2>5. CASE PFS
    <3>1. Become(p, dh(c))
      BY <1>1, <1>8, <2>5, Zenon
    <3>2. Fine(p, dh(c), net) /\ dh(c).ike = s.ike
      BY <2>1, <2>4, Zenon DEF x
    <3> HIDE DEF dh
    <3> QED
      BY <1>2, <1>6, <3>1, <3>2, SilentStep, Zenon
  <2>6. CASE ~ PFS
    <3> DEFINE t == ikev2_update_msgid_counters(est(c), m, FALSE)
    <3>1. Become(p, t)
      BY <1>1, <1>8, <2>6, Zenon
    <3>2. Fine(p, est(c), net) /\ est(c).ike = s.ike /\ m \in Messages
      BY <1>3, <2>1, <2>4, Zenon DEF x
    <3> HIDE DEF est
    <3>3. /\ Fine(p, t, net)
          /\ t.ike.nextuse = est(c).ike.nextuse
          /\ t.ike.tpacket = est(c).ike.tpacket
          /\ t.ike.lastrecv = est(c).ike.lastrecv
      <4>1. Replied(p, est(c), net, t)
        BY <3>2, FineReply, Zenon
      <4> HIDE DEF t
      <4> QED
        BY <4>1, Zenon DEF Replied
    <3> HIDE DEF t
    <3> QED
      BY <1>2, <1>6, <3>1, <3>2, <3>3, SilentStep, Zenon
  <2> QED
    BY <2>5, <2>6
<1> QED
  BY <1>1, <1>7, <1>8, Zenon

\* A child SA that the peer has deleted.
LEMMA FineDeleted ==
  ASSUME ExchangeInv, NEW p \in Peers, NEW n, Fine(p, Side(p), n), NEW c \in Slots,
         child[p][c].state = "IPSEC", NEW keep \in BOOLEAN
  PROVE  LET t == DeletedByPeer(Side(p), c, keep)
         IN  /\ Fine(p, t, n)
             /\ t.ike.nextuse = ike[p].nextuse
             /\ t.ike.tpacket = ike[p].tpacket
             /\ t.ike.lastrecv = ike[p].lastrecv
<1>1. /\ Side(p).ike = ike[p] /\ Side(p).child = child[p] /\ child[p][c] \in ChildRec
      /\ child[p] \in [Slots -> ChildRec]
  BY Facts, Zenon
<1>2. CASE keep
  <2> DEFINE r == [child[p][c] EXCEPT !.no_del = TRUE]
  <2>1. r \in ChildRec /\ r.state = "IPSEC" /\ r.sa = child[p][c].sa
    BY <1>1, Zenon DEF ChildRec
  <2>2. DeletedByPeer(Side(p), c, keep) = SetChild(Side(p), c, r)
    BY <1>1, <1>2, Zenon DEF DeletedByPeer
  <2> HIDE DEF r
  <2>3. ChildOK(p, r) /\ Answered(p, r, n, lost) /\ Asked(r, ike[Other(p)].nextuse)
    <3>1. Answered(p, child[p][c], n, lost)
      BY <1>1 DEF Fine, Backed
    <3> QED
      BY <2>1, <3>1, Zenon DEF ChildOK, Answered, Asked, Initiating
  <2>4. Side(p).child[c].state # "WAIT"
    BY <1>1
  <2>5. Fine(p, SetChild(Side(p), c, r), n) /\ SetChild(Side(p), c, r).ike = Side(p).ike
    BY <2>1, <2>3, <2>4, FineSet, Zenon
  <2> QED
    BY <1>1, <2>2, <2>5, Zenon
<1>3. CASE ~ keep
  <2>1. DeletedByPeer(Side(p), c, keep) = FreeSlot(Side(p), c)
    BY <1>3, Zenon DEF DeletedByPeer
  <2> QED
    BY <1>1, <2>1, FineFree
<1> QED
  BY <1>2, <1>3, Zenon

\* The counters are updated twice for the reply to an INFORMATIONAL request.
LEMMA TwiceReply ==
  ASSUME ExchangeInv, conf' = conf, UNCHANGED <<net, lost, handled>>,
         NEW p \in Peers, NEW s, Fine(p, s, net), NEW m \in Messages, m.resp,
         s.ike.nextuse = ike[p].nextuse, s.ike.tpacket = ike[p].tpacket,
         s.ike.lastrecv = ike[p].lastrecv,
         Become(p, ikev2_update_msgid_counters(
                     ikev2_update_msgid_counters(s, m, FALSE), m, FALSE))
  PROVE  ExchangeInv'
<1> DEFINE t == ikev2_update_msgid_counters(s, m, FALSE)
           u == ikev2_update_msgid_counters(t, m, FALSE)
<1>1. /\ Fine(p, t, net)
      /\ t.ike.nextuse = s.ike.nextuse
      /\ t.ike.tpacket = s.ike.tpacket
      /\ t.ike.lastrecv = s.ike.lastrecv
  <2>1. Replied(p, s, net, t)
    BY FineReply, Zenon
  <2> HIDE DEF t
  <2> QED
    BY <2>1, Zenon DEF Replied
<1>2. Become(p, u)
  BY Zenon
<1> HIDE DEF t
<1>3. /\ Fine(p, u, net)
      /\ u.ike.nextuse = t.ike.nextuse
      /\ u.ike.tpacket = t.ike.tpacket
      /\ u.ike.lastrecv = t.ike.lastrecv
  <2>1. Replied(p, t, net, u)
    BY <1>1, FineReply, Zenon
  <2> HIDE DEF u
  <2> QED
    BY <2>1, Zenon DEF Replied
<1> HIDE DEF u
<1> QED
  BY <1>1, <1>2, <1>3, SilentStep, Zenon

\* The answer to an INFORMATIONAL request.
LEMMA InformationalReplyStep ==
  ASSUME ExchangeInv, conf' = conf, NEW p \in Peers, NEW m \in net,
         m.resp, InformationalReply(p, m)
  PROVE  ExchangeInv'
<1>1. /\ Fine(p, Side(p), net) /\ Side(p).ike = ike[p] /\ m \in Messages
      /\ UNCHANGED <<net, lost, handled>>
  BY FineSide, Facts, Zenon DEF InformationalReply
<1> DEFINE twice(s) == ikev2_update_msgid_counters(
                         ikev2_update_msgid_counters(s, m, FALSE), m, FALSE)
<1>2. CASE Become(p, twice(Side(p)))
  BY <1>1, <1>2, TwiceReply, Zenon
<1>3. CASE \E c \in Slots, keep \in BOOLEAN :
             Holds(p, c, m.sa) /\ Become(p, twice(DeletedByPeer(Side(p), c, keep)))
  <2>1. PICK c \in Slots, keep \in BOOLEAN :
          Holds(p, c, m.sa) /\ Become(p, twice(DeletedByPeer(Side(p), c, keep)))
    BY <1>3, Zenon
  <2> DEFINE s == DeletedByPeer(Side(p), c, keep)
  <2>2. /\ Fine(p, s, net)
        /\ s.ike.nextuse = ike[p].nextuse
        /\ s.ike.tpacket = ike[p].tpacket
        /\ s.ike.lastrecv = ike[p].lastrecv
    BY <1>1, <2>1, FineDeleted, ZenonT(40) DEF Holds
  <2>3. Become(p, twice(s))
    BY <2>1, ZenonT(40)
  <2> HIDE DEF s
  <2> QED
    BY <1>1, <2>2, <2>3, TwiceReply, Zenon
<1> QED
  BY <1>2, <1>3, Zenon DEF InformationalReply

\* NewLastrecv looks at the ID received last only, and is idempotent.
LEMMA LastrecvSame ==
  ASSUME NEW k, NEW j, NEW m, k.lastrecv = j.lastrecv
  PROVE  NewLastrecv(k, m) = NewLastrecv(j, m)
BY Zenon DEF NewLastrecv

\* Counting the same request twice moves lastrecv once.
LEMMA LastrecvTwice ==
  ASSUME conf \in Configs, NEW k, NEW j, NEW m \in Messages, k.lastrecv \in Msgids,
         j.lastrecv = NewLastrecv(k, m)
  PROVE  NewLastrecv(j, m) = j.lastrecv
<1>1. v2_INVALID_MSGID # 0
  BY Limits
<1>2. m.msgid \in Int
  BY MsgidAssumption DEF Messages, Msgids
<1> DEFINE x == NewLastrecv(k, m)
           y == NewLastrecv(j, m)
<1>3. \/ ~ m.resp /\ m.msgid > k.lastrecv /\ x = m.msgid
      \/ /\ ~ m.resp /\ m.msgid = 0 /\ k.lastrecv = v2_INVALID_MSGID
         /\ x = 0
      \/ /\ x = k.lastrecv
         /\ ~ (~ m.resp /\ m.msgid > k.lastrecv)
         /\ ~ (~ m.resp /\ m.msgid = 0 /\ k.lastrecv = v2_INVALID_MSGID)
  BY LastrecvCases
<1>4. \/ ~ m.resp /\ m.msgid > j.lastrecv /\ y = m.msgid
      \/ /\ ~ m.resp /\ m.msgid = 0 /\ j.lastrecv = v2_INVALID_MSGID
         /\ y = 0
      \/ y = j.lastrecv
  BY LastrecvCases
<1>5. j.lastrecv = x
  BY Zenon
<1> HIDE DEF x, y
<1>6. y = j.lastrecv
  BY <1>1, <1>2, <1>3, <1>4, <1>5
<1> QED
  BY <1>6 DEF y

\* The count of the requests handled.
LEMMA CountOK ==
  ASSUME ExchangeInv, NEW p \in Peers, NEW m \in net, m.from = Other(p), ~ m.resp,
         NewRequest(p, m), Count(p, m.msgid)
  PROVE  /\ handled' \in [Peers -> [Msgids -> Nat]]
         /\ handled'[Other(p)] = handled[Other(p)]
         /\ HandledOK(p, NewLastrecv(ike[p], m), handled'[p])
<1>1. m \in Messages /\ m.msgid \in Msgids /\ m.msgid < v2_INVALID_MSGID
  BY RequestFacts, Zenon
<1>2. /\ handled \in [Peers -> [Msgids -> Nat]] /\ conf \in Configs
      /\ ike[p].lastrecv \in Msgids /\ HandledOK(p, ike[p].lastrecv, handled[p])
      /\ Other(p) \in Peers /\ Other(p) # p
  BY Facts, Zenon
<1> DEFINE h == [handled[p] EXCEPT ![m.msgid] = IF handled[p][m.msgid] = 0 THEN 1 ELSE 2]
<1>3. HandledOK(p, NewLastrecv(ike[p], m), h)
  <2>1. ~ TooOld(ike[p], m) /\ ~ Recent(ike[p], m) /\ handled[p] \in [Msgids -> Nat]
    BY <1>2 DEF NewRequest
  <2> QED
    BY <1>1, <1>2, <2>1, NewHandled, Zenon
<1>4. handled' = [handled EXCEPT ![p] = h] /\ h \in [Msgids -> Nat]
  BY <1>1, <1>2 DEF Count
<1> HIDE DEF h
<1> QED
  BY <1>2, <1>3, <1>4

\* A request for a child SA gets a child state.
LEMMA ChildRequestStep ==
  ASSUME ExchangeInv, conf' = conf, NEW p \in Peers, NEW m \in net,
         m.from = Other(p), ~ m.resp, process_v2_child_ix(p, m)
  PROVE  ExchangeInv'
<1> DEFINE r == Child("CREATE_R", 0, m.sa)
           u(c) == SetChild(Side(p), c, r)
           s(c) == ikev2_update_msgid_counters(u(c), m, FALSE)
<1>1. PICK c \in Slots : NewSlot(Side(p), c) /\ Become(p, s(c))
  BY Zenon DEF process_v2_child_ix
<1>2. m.ix = "CREATE_CHILD" /\ NewRequest(p, m) /\ Count(p, m.msgid) /\ UNCHANGED <<net, lost>>
  BY DEF process_v2_child_ix
<1>3. /\ m \in Messages /\ m.sa = [by |-> Other(p), msgid |-> m.msgid]
      /\ m.msgid < ike[Other(p)].nextuse
  BY <1>2, RequestFacts
<1>4. /\ r \in ChildRec /\ r.state = "CREATE_R" /\ r.sa = m.sa
  <2>1. m.sa \in SAs /\ 0 \in Msgids
    BY <1>3, Limits DEF Messages, ExchangeInv
  <2> QED
    BY <2>1 DEF Child, ChildRec, States
<1> HIDE DEF r
<1>5. ChildOK(p, r) /\ Answered(p, r, net, lost) /\ Asked(r, ike[Other(p)].nextuse)
  <2>1. ChildOK(p, r)
    <3>1. r.sa.by = Other(p)
      BY <1>3, <1>4
    <3> QED
      BY <1>4, <3>1 DEF ChildOK, Initiating
  <2>2. Answered(p, r, net, lost)
    BY <1>4 DEF Answered
  <2>3. Asked(r, ike[Other(p)].nextuse)
    BY <1>3, <1>4 DEF Asked
  <2> QED
    BY <2>1, <2>2, <2>3
<1>6. Fine(p, u(c), net) /\ u(c).ike = Side(p).ike
  <2>1. Fine(p, Side(p), net)
    BY FineSide
  <2>2. Side(p).child[c].state # "WAIT"
    BY <1>1 DEF NewSlot
  <2> QED
    BY <1>4, <1>5, <2>1, <2>2, FineSet, Zenon
<1> HIDE DEF u
<1>7. /\ Fine(p, s(c), net)
      /\ s(c).ike.nextuse = u(c).ike.nextuse
      /\ s(c).ike.tpacket = u(c).ike.tpacket
      /\ s(c).ike.lastrecv = NewLastrecv(u(c).ike, m)
  <2>1. Received(p, u(c), m, net, s(c))
    BY <1>3, <1>6, FineReceive, Zenon
  <2> HIDE DEF s
  <2> QED
    BY <2>1, Zenon DEF Received
<1> HIDE DEF s
<1>8. u(c).ike = ike[p]
  BY <1>6, Facts, Zenon
<1>9. /\ handled' \in [Peers -> [Msgids -> Nat]]
      /\ handled'[Other(p)] = handled[Other(p)]
      /\ HandledOK(p, s(c).ike.lastrecv, handled'[p])
  BY <1>2, <1>7, <1>8, CountOK, Zenon
<1>10. ike[p].tpacket \in Sent /\ ike[p].tpacket \in Messages /\ net \subseteq Sent
  BY Facts, Zenon
<1>11. s(c).ike.nextuse >= ike[p].nextuse /\ s(c).ike.tpacket \in Sent
  <2>1. ike[p].nextuse \in Nat
    BY Facts, Zenon
  <2>2. s(c).ike.nextuse = ike[p].nextuse /\ s(c).ike.tpacket = ike[p].tpacket
    BY <1>7, <1>8, Zenon
  <2> QED
    BY <1>10, <2>1, <2>2
<1>12. /\ ike' = [ike EXCEPT ![p] = s(c).ike]
       /\ child' = [child EXCEPT ![p] = s(c).child]
  BY <1>1 DEF Become
<1>13. /\ SideOK(p, s(c)) /\ Backed(p, s(c).child, net', lost)
       /\ Known(s(c).child, ike[Other(p)].nextuse)
  BY <1>2, <1>7, Zenon DEF Fine
<1>14. net' = net /\ lost' = lost
  BY <1>2
<1> QED
  BY <1>9, <1>10, <1>11, <1>12, <1>13, <1>14, SideStep, Zenon

\* An INFORMATIONAL request is answered from the side s.
LEMMA AnswerStep ==
  ASSUME ExchangeInv, conf' = conf, lost' = lost, NEW p \in Peers, NEW m \in net,
         m.from = Other(p), ~ m.resp, NewRequest(p, m), Count(p, m.msgid),
         NEW r \in Messages, r.from = p, r.resp, RightSA(r), net' = net \cup {r},
         NEW s, Fine(p, s, net'), Become(p, Answer(s, m, r)),
         s.ike.nextuse = ike[p].nextuse, s.ike.lastrecv = ike[p].lastrecv
  PROVE  ExchangeInv'
<1> DEFINE t == Recorded(s, r, m.msgid)
           u == ikev2_update_msgid_counters(t, m, FALSE)
           v == ikev2_update_msgid_counters(u, m, FALSE)
           n == net'
<1>n. Fine(p, s, n)
  OBVIOUS
<1> HIDE DEF n
<1>1. v = Answer(s, m, r)
  BY Zenon DEF Answer, Recorded
<1>2. m \in Messages /\ m.msgid \in Msgids
  BY RequestFacts, Zenon
<1>3. conf \in Configs /\ ike[p].lastrecv \in Msgids
  BY Facts, Zenon
<1>4. /\ SideOK(p, t) /\ t.child = s.child
      /\ t.ike.nextuse = s.ike.nextuse /\ t.ike.tpacket = r
      /\ t.ike.lastrecv = s.ike.lastrecv
  <2>1. SideOK(p, s)
    BY Zenon DEF Fine
  <2>2. Records(p, s, r, t)
    BY <1>2, <2>1, RecordOK, Zenon
  <2> HIDE DEF t
  <2> QED
    BY <2>2, Zenon DEF Records
<1> HIDE DEF t
<1>5. Fine(p, t, n)
  BY <1>n, <1>4, Zenon DEF Fine
<1>6. /\ Fine(p, u, n)
      /\ u.ike.nextuse = t.ike.nextuse
      /\ u.ike.tpacket = t.ike.tpacket
      /\ u.ike.lastrecv = NewLastrecv(t.ike, m)
  <2>1. Received(p, t, m, n, u)
    BY <1>2, <1>5, FineReceive, Zenon
  <2> HIDE DEF u
  <2> QED
    BY <2>1, Zenon DEF Received
<1> HIDE DEF u
<1>7. /\ Fine(p, v, n)
      /\ v.ike.nextuse = u.ike.nextuse
      /\ v.ike.tpacket = u.ike.tpacket
      /\ v.ike.lastrecv = NewLastrecv(u.ike, m)
  <2>1. Received(p, u, m, n, v)
    BY <1>2, <1>6, FineReceive, Zenon
  <2> HIDE DEF v
  <2> QED
    BY <2>1, Zenon DEF Received
<1> HIDE DEF v
<1>8. v.ike.lastrecv = NewLastrecv(ike[p], m)
  <2>1. u.ike.lastrecv = NewLastrecv(ike[p], m)
    BY <1>4, <1>6, LastrecvSame
  <2>2. NewLastrecv(u.ike, m) = u.ike.lastrecv
    BY <1>2, <1>3, <2>1, LastrecvTwice, Zenon
  <2> QED
    BY <1>7, <2>1, <2>2, Zenon
<1>9. /\ handled' \in [Peers -> [Msgids -> Nat]]
      /\ handled'[Other(p)] = handled[Other(p)]
      /\ HandledOK(p, v.ike.lastrecv, handled'[p])
  BY <1>8, CountOK, Zenon
<1>10. Become(p, v) /\ v.ike.nextuse = ike[p].nextuse /\ v.ike.tpacket = r
  BY <1>1, <1>4, <1>6, <1>7, Zenon
<1> QED
  BY <1>7, <1>9, <1>10, SendStep, Zenon DEF n

\* A probe or a delete request is answered.
LEMMA InformationalRequestStep ==
  ASSUME ExchangeInv, conf' = conf, NEW p \in Peers, NEW m \in net,
         m.from = Other(p), ~ m.resp, InformationalRequest(p, m)
  PROVE  ExchangeInv'
<1>1. /\ m.ix \in {"LIVENESS", "DELETE"} /\ NewRequest(p, m) /\ Count(p, m.msgid)
      /\ lost' = lost
  BY DEF InformationalRequest
<1>2. m \in Messages /\ NoSA \in SAs
  BY RequestFacts, Limits, Zenon DEF ExchangeInv
<1>3. ASSUME NEW sa \in SAs
      PROVE  LET r == Packet(p, TRUE, m.msgid, m.ix, sa)
             IN  r \in Messages /\ r.from = p /\ r.resp /\ RightSA(r)
  BY <1>1, <1>2, Zenon DEF Packet, Messages, RightSA
<1>4. CASE LET r == Packet(p, TRUE, m.msgid, m.ix, NoSA)
           IN  Become(p, Answer(Side(p), m, r)) /\ net' = net \cup {r}
  <2> DEFINE r == Packet(p, TRUE, m.msgid, m.ix, NoSA)
  <2>1. r \in Messages /\ r.from = p /\ r.resp /\ RightSA(r)
    BY <1>2, <1>3, Zenon
  <2>2. Become(p, Answer(Side(p), m, r)) /\ net' = net \cup {r}
    BY <1>4, Zenon
  <2> HIDE DEF r
  <2>3. Fine(p, Side(p), net') /\ Side(p).ike = ike[p]
    BY <2>2, FineSide, Facts, Zenon
  <2> QED
    BY <1>1, <2>1, <2>2, <2>3, AnswerStep, Zenon
<1>5. CASE \E c \in Slots, keep \in BOOLEAN :
             LET r == Packet(p, TRUE, m.msgid, m.ix, m.sa)
             IN  /\ Holds(p, c, m.sa)
                 /\ Become(p, Answer(DeletedByPeer(Side(p), c, keep), m, r))
                 /\ net' = net \cup {r}
  <2> DEFINE r == Packet(p, TRUE, m.msgid, m.ix, m.sa)
  <2>1. r \in Messages /\ r.from = p /\ r.resp /\ RightSA(r)
    BY <1>2, <1>3, Zenon DEF Messages
  <2>2. PICK c \in Slots, keep \in BOOLEAN :
          /\ Holds(p, c, m.sa)
          /\ Become(p, Answer(DeletedByPeer(Side(p), c, keep), m, r))
          /\ net' = net \cup {r}
    BY <1>5, Zenon
  <2> HIDE DEF r
  <2>3. Fine(p, Side(p), net')
    BY <2>2, FineSide
  <2> DEFINE s == DeletedByPeer(Side(p), c, keep)
  <2>4. /\ Fine(p, s, net')
        /\ s.ike.nextuse = ike[p].nextuse
        /\ s.ike.lastrecv = ike[p].lastrecv
    BY <2>2, <2>3, FineDeleted, Zenon DEF Holds
  <2>5. Become(p, Answer(s, m, r)) /\ net' = net \cup {r}
    BY <2>2
  <2> HIDE DEF s
  <2> QED
    BY <1>1, <2>1, <2>4, <2>5, AnswerStep, Zenon
<1> QED
  BY <1>4, <1>5, Zenon DEF InformationalRequest

\* A packet that is lost takes nothing from what is already known, but the
\* answers that were in the network need not be there any longer.
LEMMA LoseStep ==
  ASSUME ExchangeInv, conf' = conf, NEW m \in net, Lose(m)
  PROVE  ExchangeInv'
<1>1. /\ lost' = lost + 1 /\ lost \in Nat /\ net' = net \ {m}
      /\ UNCHANGED <<ike, child, handled>>
  BY DEF Lose, ExchangeInv
<1>2. Sent' \subseteq Sent
  BY <1>1 DEF Sent
<1>3. SentOK' /\ RequestIdsUnique'
  <2>1. SentOK'
    BY <1>1, <1>2, Zenon DEF ExchangeInv, SentOK, RightSA
  <2>2. RequestIdsUnique'
    BY <1>2, Zenon DEF ExchangeInv, RequestIdsUnique, Sent
  <2> QED
    BY <2>1, <2>2
<1>4. ASSUME NEW p \in Peers
      PROVE  /\ SideOK(p, Side(p))'
             /\ Backed(p, child[p], net, lost)'
             /\ Known(child[p], ike[Other(p)].nextuse)'
             /\ HandledOK(p, ike[p].lastrecv, handled[p])'
  <2>1. Side(p)' = Side(p) /\ MaxUse' = MaxUse /\ Requesters' = Requesters
    BY <1>1 DEF Side, MaxUse, Requesters
  <2>2. SideOK(p, Side(p))'
    <3>1. SideOK(p, Side(p))
      BY DEF ExchangeInv
    <3> QED
      BY <2>1, <3>1, Zenon DEF SideOK, ChildOK
  <2>3. Backed(p, child[p], net, lost)'
    <3>1. lost' > 0
      BY <1>1
    <3> QED
      BY <3>1, Zenon DEF Backed, Answered
  <2>4. Known(child[p], ike[Other(p)].nextuse)'
    BY <1>1, Zenon DEF ExchangeInv, Known, Asked
  <2>5. HandledOK(p, ike[p].lastrecv, handled[p])'
    BY <1>1, <2>1 DEF ExchangeInv, HandledOK
  <2> QED
    BY <2>2, <2>3, <2>4, <2>5, Zenon
<1>5. /\ conf' \in Configs /\ lost' \in Nat /\ net' \in SUBSET Messages
      /\ ike' \in [Peers -> IkeRec] /\ child' \in [Peers -> [Slots -> ChildRec]]
      /\ handled' \in [Peers -> [Msgids -> Nat]]
  BY <1>1 DEF ExchangeInv
<1> QED
  BY <1>3, <1>4, <1>5, Zenon DEF ExchangeInv

\* The state IKE_AUTH leaves behind.
LEMMA InitInv ==
  ASSUME Init
  PROVE  ExchangeInv
<1> DEFINE kI == [nextuse |-> 2, lastack |-> 1, lastrecv |-> v2_INVALID_MSGID,
                  lastreplied |-> 0, send_next_ix |-> <<>>, tpacket |-> AuthRequest]
           kR == [nextuse |-> 0, lastack |-> v2_INVALID_MSGID, lastrecv |-> 1,
                  lastreplied |-> 1, send_next_ix |-> <<>>, tpacket |-> AuthReply]
<1>1. conf \in Configs /\ lost = 0 /\ net = {AuthRequest, AuthReply}
  BY Zenon DEF Init
<1>2. /\ MaxUse \in [Peers -> Nat] /\ MaxUse["I"] >= 2
      /\ v2_INVALID_MSGID \in Msgids /\ v2_INVALID_MSGID >= 3
      /\ 0 \in Msgids /\ 1 \in Msgids
      /\ NoSA \in SAs /\ FirstSA \in SAs
  BY <1>1, Limits
<1>3. /\ AuthRequest \in Messages /\ AuthReply \in Messages
      /\ AuthRequest.from = "I" /\ ~ AuthRequest.resp /\ AuthRequest.msgid = 1
      /\ AuthReply.from = "R" /\ AuthReply.resp
      /\ RightSA(AuthRequest) /\ RightSA(AuthReply)
  BY <1>2, Zenon DEF AuthRequest, AuthReply, Packet, Messages, Peers, RightSA
<1>4. <<>> \in Seq(0 .. NSlots) /\ Len(<<>>) = 0
  OBVIOUS
<1>5. kI \in IkeRec /\ kR \in IkeRec
  BY <1>2, <1>3, <1>4 DEF IkeRec
<1>6. ike["I"] = kI /\ ike["R"] = kR /\ ike \in [Peers -> IkeRec]
  <2>1. ike = [p \in Peers |-> IF p = "I" THEN kI ELSE kR]
    BY DEF Init
  <2> HIDE DEF kI, kR
  <2> QED
    BY <2>1, <1>5 DEF Peers
<1>7. ASSUME NEW p \in Peers, NEW c \in Slots
      PROVE  /\ child[p][c] \in ChildRec
             /\ \/ child[p][c].state = "FREE"
                \/ child[p][c].state = "IPSEC" /\ child[p][c].sa = FirstSA
  <2>1. child[p][c] = IF c > 1 THEN FreeChild
                      ELSE Child("IPSEC", IF p = "I" THEN 1 ELSE 0, FirstSA)
    BY DEF Init
  <2> QED
    BY <2>1, <1>2 DEF FreeChild, Child, ChildRec, States
<1>8. child \in [Peers -> [Slots -> ChildRec]]
  <2>1. child = [p \in Peers |-> [c \in Slots |-> child[p][c]]]
    BY DEF Init
  <2> QED
    BY <2>1, <1>7
<1>9. /\ handled \in [Peers -> [Msgids -> Nat]]
      /\ \A p \in Peers, id \in Msgids :
           handled[p][id] = IF p = "R" /\ id \in {0, 1} THEN 1 ELSE 0
  BY DEF Init
<1>10. Sent = {AuthRequest, AuthReply}
  <2> HIDE DEF kI, kR
  <2>1. kI.tpacket = AuthRequest /\ kR.tpacket = AuthReply
    BY DEF kI, kR
  <2> QED
    BY <1>1, <1>6, <2>1 DEF Sent
<1>11. SentOK /\ RequestIdsUnique
  <2>1. ike["I"].nextuse = 2
    BY <1>6
  <2>2. SentOK
    BY <1>3, <1>10, <2>1 DEF SentOK
  <2>3. RequestIdsUnique
    BY <1>3, <1>10 DEF RequestIdsUnique, Sent
  <2> QED
    BY <2>2, <2>3
<1>12. ASSUME NEW p \in Peers
       PROVE  /\ SideOK(p, Side(p))
              /\ Backed(p, child[p], net, lost)
              /\ Known(child[p], ike[Other(p)].nextuse)
              /\ HandledOK(p, ike[p].lastrecv, handled[p])
  <2>1. p = "I" \/ p = "R"
    BY DEF Peers
  <2>2. Side(p) \in Sides /\ Side(p).ike = ike[p] /\ Side(p).child = child[p]
    BY <1>6, <1>8, Zenon DEF Side, Sides
  <2>3. /\ ike[p].nextuse <= MaxUse[p] /\ ike[p].tpacket.from = p
        /\ ike[p].send_next_ix = <<>>
    BY <1>2, <1>3, <1>6, <2>1
  <2>4. \A c \in Slots : ChildOK(p, child[p][c])
    BY <1>7 DEF ChildOK, Initiating
  <2>5. QueueOK(<<>>, child[p])
    BY <1>4 DEF QueueOK
  <2>6. SideOK(p, Side(p))
    BY <2>2, <2>3, <2>4, <2>5 DEF SideOK
  <2>7. Backed(p, child[p], net, lost) /\ Known(child[p], ike[Other(p)].nextuse)
    BY <1>7, Zenon DEF Backed, Answered, Known, Asked
  <2>8. HandledOK(p, ike[p].lastrecv, handled[p])
    <3>1. CASE p = "I"
      BY <3>1, <1>2, <1>9 DEF HandledOK, v2_INITIAL_MSGID, Peers
    <3>2. CASE p = "R"
      <4>1. ike[p].lastrecv = 1
        BY <3>2, <1>6
      <4>2. \A id \in Msgids : id \in Int
        BY MsgidAssumption DEF Msgids
      <4> QED
        BY <3>2, <4>1, <4>2, <1>2, <1>9 DEF HandledOK, Peers
    <3> QED
      BY <2>1, <3>1, <3>2
  <2> QED
    BY <2>6, <2>7, <2>8
<1>13. net \in SUBSET Messages /\ lost \in Nat
  BY <1>1, <1>3
<1> QED
  BY <1>1, <1>6, <1>8, <1>9, <1>11, <1>12, <1>13, Zenon DEF ExchangeInv

\* Every step keeps the invariant.
LEMMA NextInv ==
  ASSUME ExchangeInv, [Next]_vars
  PROVE  ExchangeInv'
<1>1. CASE UNCHANGED vars
  <2>1. "I" \in Peers
    BY DEF Peers
  <2>2. conf' = conf /\ net' = net /\ UNCHANGED <<ike, child, lost, handled>>
    BY <1>1 DEF vars
  <2> QED
    BY <2>1, <2>2, AgainStep
<1>2. CASE Next
  <2>1. conf' = conf
    BY <1>2 DEF Next
  <2>2. ASSUME NEW p \in Peers, Step(p)
        PROVE  ExchangeInv'
    <3>1. ASSUME NEW c \in Slots, ikev2_add_ipsec_child(p, c)
          PROVE  ExchangeInv'
      BY <2>1, <3>1, AddStep
    <3>2. ASSUME NEW c \in Slots, add_st_send_list(p, c)
          PROVE  ExchangeInv'
      BY <2>1, <3>2, SendListStep
    <3>3. ASSUME NEW c \in Slots, ikev2_child_send_next(p, c)
          PROVE  ExchangeInv'
      BY <2>1, <3>3, RequestStep DEF ikev2_child_send_next
    <3>4. ASSUME NEW c \in Slots, delete_state(p, c)
          PROVE  ExchangeInv'
      BY <2>1, <3>4, DeleteStep
    <3>5. ASSUME NEW c \in Slots, Resend(p, c)
          PROVE  ExchangeInv'
      BY <2>1, <3>5, AgainStep DEF Resend
    <3>6. ASSUME NEW c \in Slots, GiveUp(p, c)
          PROVE  ExchangeInv'
      BY <2>1, <3>6, GiveUpStep
    <3>7. ASSUME NEW c \in Slots, ResponderTimeout(p, c)
          PROVE  ExchangeInv'
      BY <2>1, <3>7, TimeoutStep
    <3>8. ASSUME NEW c \in Slots, ReplyChild(p, c)
          PROVE  ExchangeInv'
      BY <2>1, <3>8, ReplyStep
    <3>9. ASSUME NEW c \in Slots, RejectChild(p, c)
          PROVE  ExchangeInv'
      BY <2>1, <3>9, RejectStep
    <3>10. ASSUME NEW c \in Slots, ChildReplyDone(p, c)
           PROVE  ExchangeInv'
      BY <2>1, <3>10, DoneStep
    <3>11. CASE ikev2_send_informational(p)
      BY <2>1, <3>11, LivenessStep
    <3> QED
      BY <2>2, <3>1, <3>2, <3>3, <3>4, <3>5, <3>6, <3>7, <3>8, <3>9, <3>10, <3>11 DEF Step
  <2>3. ASSUME NEW m \in net, Lose(m)
        PROVE  ExchangeInv'
    BY <2>1, <2>3, LoseStep
  <2>4. ASSUME NEW p \in Peers, NEW m \in net, Receive(p, m)
        PROVE  ExchangeInv'
    <3>1. m.from = Other(p)
      BY <2>4 DEF Receive
    <3>2. CASE ~ m.resp /\ proces_recent_rtransmit(p, m)
      BY <2>1, <3>2, AgainStep DEF proces_recent_rtransmit
    <3>3. CASE ~ m.resp /\ process_v2_child_ix(p, m)
      BY <2>1, <3>1, <3>3, ChildRequestStep
    <3>4. CASE ~ m.resp /\ InformationalRequest(p, m)
      BY <2>1, <3>1, <3>4, InformationalRequestStep
    <3>5. CASE m.resp /\ InformationalReply(p, m)
      BY <2>1, <3>5, InformationalReplyStep
    <3>6. CASE m.resp /\ ChildReply(p, m)
      BY <2>1, <3>1, <3>6, ChildReplyStep
    <3> QED
      BY <2>4, <3>2, <3>3, <3>4, <3>5, <3>6
         DEF Receive, process_v2_request, process_v2_reply
  <2> QED
    BY <1>2, <2>2, <2>3, <2>4 DEF Next
<1> QED
  BY <1>1, <1>2

-----------------------------------------------------------------------------
(* The theorems *)

\* The invariant holds in every state of every behaviour: what the counters,
\* the queue, the recorded packets and the children of the two peers say about
\* each other.
THEOREM ExchangeInvHolds == Spec => []ExchangeInv
BY InitInv, NextInv, PTL DEF Spec

\* ikev2_child_out_tail, ikev2_send_informational and ikev2_delete_out_guts use
\* no message ID for two requests, in whichever order and however often requests
\* wait, are given up, resent or lost.
THEOREM RequestIdsUniqueHolds == Spec => []RequestIdsUnique
<1>1. ExchangeInv => RequestIdsUnique
  BY DEF ExchangeInv
<1> QED
  BY <1>1, ExchangeInvHolds, PTL

\* A child SA its requester established is one the other side has answered:
\* state_with_parent_msgid_expect never gives a child the reply to another.
THEOREM EstablishedByBothHolds == Spec => []EstablishedByBoth
<1>1. ASSUME ExchangeInv
      PROVE  EstablishedByBoth
  <2> SUFFICES ASSUME NEW p \in Peers, NEW c \in Slots,
                      lost = 0, child[p][c].state = "IPSEC",
                      child[p][c].sa.by = p, child[p][c].sa # FirstSA
               PROVE  Packet(Other(p), TRUE, child[p][c].sa.msgid, "CREATE_CHILD",
                             child[p][c].sa) \in net
    BY Zenon DEF EstablishedByBoth
  <2>1. Answered(p, child[p][c], net, lost)
    BY <1>1, Facts, Zenon DEF Backed
  <2>2. ~ (lost > 0)
    OBVIOUS
  <2> QED
    BY <2>1, <2>2, Zenon DEF Answered
<1> QED
  BY <1>1, ExchangeInvHolds, PTL

\* process_v2_packet hands no request to a handler twice, at the sides and for
\* the message IDs that st_msgid_lastrecv is reliable for.
THEOREM HandledOnceHolds == Spec => []HandledOnce
<1>1. ASSUME ExchangeInv
      PROVE  HandledOnce
  <2> SUFFICES ASSUME NEW p \in Peers \ Requesters, NEW id \in Msgids,
                      p = "R" \/ id = v2_INITIAL_MSGID
               PROVE  handled[p][id] <= 1
    BY DEF HandledOnce
  <2>1. HandledOK(p, ike[p].lastrecv, handled[p]) /\ p \in Peers /\ p \notin Requesters
    BY <1>1 DEF ExchangeInv
  <2>2. p = "I" \/ p = "R"
    BY <2>1 DEF Peers
  <2> QED
    BY <2>1, <2>2 DEF HandledOK
<1> QED
  BY <1>1, ExchangeInvHolds, PTL

=============================================================================
