-------------------------- MODULE Ikev2Exchange_side --------------------------
(***************************************************************************)
(* The inductive invariant of the exchanges of an established IKEv2 SA,     *)
(* what the operators on one side of it do, and what a step of one side    *)
(* must do to keep the invariant.                                          *)
(***************************************************************************)
EXTENDS Ikev2Exchange, SequenceTheorems, TLAPS

States == {"FREE", "CREATE_I0", "WAIT", "SEND_NEXT", "CREATE_I", "CREATE_I_DH",
           "CREATE_R", "CREATE_R_FAILED", "IPSEC"}
Initiating == {"CREATE_I0", "WAIT", "SEND_NEXT", "CREATE_I", "CREATE_I_DH"}
ChildRec == [state : States, msgid : Msgids, sa : SAs, no_del : BOOLEAN]
IkeRec == [nextuse : Nat, lastack : Msgids, lastrecv : Msgids, lastreplied : Msgids,
           send_next_ix : Seq(0 .. NSlots), tpacket : Messages]
Sides == [ike : IkeRec, child : [Slots -> ChildRec]]

\* What the state of a child says about its SA.
ChildOK(p, r) ==
  /\ r.state = "CREATE_R" => r.sa.by = Other(p)
  /\ r.state \in {"CREATE_I", "CREATE_I_DH"} => r.sa = [by |-> p, msgid |-> r.msgid]
  /\ r.state \in Initiating => p \in Requesters

\* The serial numbers on send_next_ix whose states exist are of different
\* children, all of which wait.
QueueOK(q, ch) ==
  /\ \A k \in 1 .. Len(q) : q[k] \in Slots => ch[q[k]].state = "WAIT"
  /\ \A k, l \in 1 .. Len(q) : q[k] = q[l] /\ q[k] \in Slots => k = l

SideOK(p, s) ==
  /\ s \in Sides
  /\ s.ike.nextuse <= MaxUse[p]
  /\ s.ike.tpacket.from = p
  /\ \A c \in Slots : ChildOK(p, s.child[c])
  /\ QueueOK(s.ike.send_next_ix, s.child)

\* Everything a peer may still put into the network, or has.
Sent == net \cup {ike["I"].tpacket, ike["R"].tpacket}

\* Who a CREATE_CHILD_SA exchange is of.
RightSA(m) ==
  m.ix = "CREATE_CHILD" =>
    m.sa = [by |-> IF m.resp THEN Other(m.from) ELSE m.from, msgid |-> m.msgid]

\* Requests have used IDs, and exchanges make the SA that was asked for.
SentOK ==
  \A m \in Sent : RightSA(m) /\ (~ m.resp => m.msgid < ike[m.from].nextuse)

\* A child r of p whose exchange was answered: the answer is in the network n,
\* if that has lost nothing.
Answered(p, r, n, l) ==
  \/ r.state = "CREATE_I_DH"
  \/ r.state = "IPSEC" /\ r.sa.by = p /\ r.sa # FirstSA
  => l > 0 \/ Packet(Other(p), TRUE, r.sa.msgid, "CREATE_CHILD", r.sa) \in n
Backed(p, ch, n, l) == \A c \in Slots : Answered(p, ch[c], n, l)

\* A child that answers a request is named after a message ID below next.
Asked(r, next) == r.state = "CREATE_R" => r.sa.msgid < next
Known(ch, next) == \A c \in Slots : Asked(ch[c], next)

\* What lastrecv says about the requests that p has handled.
HandledOK(p, lastrecv, h) ==
  p \notin Requesters =>
    /\ p = "R" => /\ lastrecv # v2_INVALID_MSGID
                  /\ \A id \in Msgids : h[id] <= 1 /\ (id > lastrecv => h[id] = 0)
    /\ p = "I" => /\ h[v2_INITIAL_MSGID] <= 1
                  /\ lastrecv = v2_INVALID_MSGID => h[v2_INITIAL_MSGID] = 0

\* The inductive invariant.
ExchangeInv ==
  /\ conf \in Configs
  /\ ike \in [Peers -> IkeRec] /\ child \in [Peers -> [Slots -> ChildRec]]
  /\ net \in SUBSET Messages /\ lost \in Nat
  /\ handled \in [Peers -> [Msgids -> Nat]]
  /\ \A p \in Peers :
       /\ SideOK(p, Side(p))
       /\ Backed(p, child[p], net, lost)
       /\ Known(child[p], ike[Other(p)].nextuse)
       /\ HandledOK(p, ike[p].lastrecv, handled[p])
  /\ SentOK
  /\ RequestIdsUnique

\* What the handlers that update the counters do to the children of a side.
Kept(s, t) ==
  \A c \in Slots :
    \/ t.child[c] = s.child[c]
    \/ /\ s.child[c].state = "WAIT"
       /\ t.child[c] = Child("SEND_NEXT", s.child[c].msgid, s.child[c].sa)

-----------------------------------------------------------------------------
(* The operators *)

\* The largest message ID is never used (the bounds of maxUse stay below it).
LEMMA Limits ==
  ASSUME conf \in Configs
  PROVE  /\ MaxUse \in [Peers -> Nat]
         /\ \A p \in Peers : MaxUse[p] < v2_INVALID_MSGID
         /\ MaxUse["I"] >= 2
         /\ MsgidMod \in Nat /\ MsgidMod >= 4
         /\ v2_INVALID_MSGID \in Msgids /\ v2_INVALID_MSGID >= 3
         /\ 0 \in Msgids /\ 1 \in Msgids
         /\ NoSA \in SAs /\ FirstSA \in SAs
BY ConfigsAssumption, MsgidAssumption
   DEF MaxUse, Peers, v2_INVALID_MSGID, v2_INITIAL_MSGID, Msgids, NoSA, FirstSA, SAs

\* The fields of a record.
LEMMA Fields ==
  /\ \A k \in IkeRec : /\ k.nextuse \in Nat /\ k.lastrecv \in Msgids
                       /\ k.tpacket \in Messages
  /\ \A r \in ChildRec : r.sa \in SAs /\ r.sa.msgid \in Msgids
  /\ \A m \in Messages : m.from \in Peers /\ m.msgid \in Msgids
BY DEF IkeRec, ChildRec, Messages, SAs

\* Message IDs as numbers.
LEMMA Orders ==
  ASSUME NEW k \in Nat
  PROVE  k < k + 1 /\ ~ (k < k)
OBVIOUS

\* An ID that was used stays used.
LEMMA StillUsed ==
  ASSUME NEW i \in Msgids, NEW k \in Nat, NEW n \in Nat, i < k, n >= k
  PROVE  i < n
BY MsgidAssumption DEF Msgids

\* send_next_ix and the recorded packet.
LEMMA IkeQueue ==
  ASSUME NEW k \in IkeRec, NEW q \in Seq(0 .. NSlots)
  PROVE  LET j == [k EXCEPT !.send_next_ix = q]
         IN  /\ j \in IkeRec
             /\ j.send_next_ix = q
             /\ j.nextuse = k.nextuse
             /\ j.tpacket = k.tpacket
             /\ j.lastrecv = k.lastrecv
             /\ j.lastack = k.lastack
BY DEF IkeRec

\* sechdule_next_send lets one waiting child, or none, go on.
LEMMA ScheduleOK ==
  ASSUME conf \in Configs, NEW p \in Peers, NEW s, SideOK(p, s)
  PROVE  LET t == sechdule_next_send(s)
         IN  /\ SideOK(p, t)
             /\ Kept(s, t)
             /\ t.ike.nextuse = s.ike.nextuse
             /\ t.ike.tpacket = s.ike.tpacket
             /\ t.ike.lastrecv = s.ike.lastrecv
<1> DEFINE q == s.ike.send_next_ix
           t == sechdule_next_send(s)
<1>q. q \in Seq(0 .. NSlots)
  BY DEF SideOK, Sides, IkeRec
<1>1. CASE q = <<>>
  <2>1. t = s
    BY <1>1, Zenon DEF sechdule_next_send
  <2> QED
    BY <2>1 DEF Kept
<1>2. CASE q # <<>>
  <2> DEFINE k == [s.ike EXCEPT !.send_next_ix = Tail(q)]
             ch == [c \in Slots |->
                      IF c = Head(q)
                      THEN Child("SEND_NEXT", s.child[c].msgid, s.child[c].sa)
                      ELSE s.child[c]]
  <2>1. t = [ike |-> k, child |-> ch]
    BY <1>2 DEF sechdule_next_send
  <2>2. /\ Len(q) \in Nat /\ Len(q) >= 1
        /\ Tail(q) \in Seq(0 .. NSlots)
        /\ Len(Tail(q)) = Len(q) - 1
        /\ \A i \in 1 .. Len(Tail(q)) : Tail(q)[i] = q[i + 1]
        /\ Head(q) = q[1]
    <3> HIDE DEF q
    <3>1. /\ Tail(q) \in Seq(0 .. NSlots)
          /\ Len(Tail(q)) = Len(q) - 1
          /\ \A i \in 1 .. Len(Tail(q)) : Tail(q)[i] = q[i + 1]
      BY <1>q, <1>2, HeadTailProperties
    <3>2. Len(q) \in Nat /\ Len(q) >= 1 /\ Head(q) = q[1]
      BY <1>q, <1>2
    <3> QED
      BY <3>1, <3>2
  <2>s. s.ike \in IkeRec
    BY DEF SideOK, Sides
  <2>3. /\ k \in IkeRec
        /\ k.send_next_ix = Tail(q)
        /\ k.nextuse = s.ike.nextuse
        /\ k.tpacket = s.ike.tpacket
        /\ k.lastrecv = s.ike.lastrecv
    BY <2>2, <2>s, IkeQueue, Zenon
  <2>4. ASSUME NEW c \in Slots
        PROVE  /\ ch[c] \in ChildRec /\ ChildOK(p, ch[c])
               /\ \/ ch[c] = s.child[c]
                  \/ /\ s.child[c].state = "WAIT"
                     /\ ch[c] = Child("SEND_NEXT", s.child[c].msgid, s.child[c].sa)
    <3>0. s.child[c] \in ChildRec /\ ChildOK(p, s.child[c])
      BY DEF SideOK, Sides
    <3>1. CASE c = Head(q)
      <4>1. s.child[c].state = "WAIT"
        BY <3>1, <2>2 DEF SideOK, QueueOK
      <4>2. ch[c] = Child("SEND_NEXT", s.child[c].msgid, s.child[c].sa)
        BY <3>1
      <4>3. p \in Requesters
        BY <4>1, <3>0 DEF ChildOK, Initiating
      <4> QED
        BY <4>1, <4>2, <4>3, <3>0 DEF ChildOK, Initiating, Child, ChildRec, States
    <3>2. CASE c # Head(q)
      BY <3>2, <3>0
    <3> QED
      BY <3>1, <3>2
  <2>5. QueueOK(Tail(q), ch)
    <3>1. ASSUME NEW i \in 1 .. Len(Tail(q)), Tail(q)[i] \in Slots
          PROVE  ch[Tail(q)[i]].state = "WAIT"
      <4>1. i + 1 \in 1 .. Len(q) /\ 1 \in 1 .. Len(q) /\ i + 1 # 1
        BY <2>2
      <4>2. q[i + 1] \in Slots /\ q[i + 1] # Head(q)
        BY <3>1, <4>1, <2>2 DEF SideOK, QueueOK
      <4> QED
        BY <3>1, <4>1, <4>2, <2>2, Zenon DEF SideOK, QueueOK
    <3>2. ASSUME NEW i \in 1 .. Len(Tail(q)), NEW l \in 1 .. Len(Tail(q)),
                 Tail(q)[i] = Tail(q)[l], Tail(q)[i] \in Slots
          PROVE  i = l
      <4>1. i + 1 \in 1 .. Len(q) /\ l + 1 \in 1 .. Len(q)
        BY <2>2
      <4>2. i + 1 = l + 1
        BY <3>2, <4>1, <2>2 DEF SideOK, QueueOK
      <4> QED
        BY <4>2
    <3> QED
      BY <3>1, <3>2, Zenon DEF QueueOK
  <2> HIDE DEF q, k, ch
  <2>6. ch \in [Slots -> ChildRec]
    BY <2>4 DEF ch
  <2>7. SideOK(p, t)
    <3>1. t \in Sides /\ t.ike = k /\ t.child = ch
      BY <2>1, <2>3, <2>6 DEF Sides
    <3>2. t.ike.nextuse <= MaxUse[p] /\ t.ike.tpacket.from = p
      BY <3>1, <2>3 DEF SideOK
    <3>3. QueueOK(t.ike.send_next_ix, t.child)
      BY <3>1, <2>3, <2>5
    <3> QED
      BY <3>1, <3>2, <3>3, <2>4 DEF SideOK
  <2> QED
    BY <2>1, <2>3, <2>4, <2>7 DEF Kept
<1> QED
  BY <1>1, <1>2

\* ikev2_update_msgid_counters counts a request that was sent, once.
LEMMA UpdateOK ==
  ASSUME conf \in Configs, NEW p \in Peers, NEW s, SideOK(p, s),
         NEW md \in Messages, NEW sent \in BOOLEAN,
         sent => s.ike.nextuse < MaxUse[p]
  PROVE  LET t == ikev2_update_msgid_counters(s, md, sent)
         IN  /\ SideOK(p, t)
             /\ Kept(s, t)
             /\ t.ike.nextuse = IF sent THEN s.ike.nextuse + 1 ELSE s.ike.nextuse
             /\ t.ike.tpacket = s.ike.tpacket
             /\ t.ike.lastrecv = NewLastrecv(s.ike, md)
<1> DEFINE k == [s.ike EXCEPT
                   !.nextuse = IF sent THEN s.ike.nextuse + 1 ELSE s.ike.nextuse,
                   !.lastack = NewLastack(s.ike, md),
                   !.lastrecv = NewLastrecv(s.ike, md)]
           u == [ike |-> k, child |-> s.child]
<1>1. NewLastack(s.ike, md) \in Msgids /\ NewLastrecv(s.ike, md) \in Msgids
  <2>1. s.ike.lastack \in Msgids /\ s.ike.lastrecv \in Msgids /\ md.msgid \in Msgids
    BY DEF SideOK, Sides, IkeRec, Messages
  <2>2. 0 \in Msgids
    BY Limits
  <2> QED
    BY <2>1, <2>2 DEF NewLastack, NewLastrecv, v2_INITIAL_MSGID
<1>2. s.ike.nextuse \in Nat /\ s.ike.nextuse <= MaxUse[p] /\ MaxUse[p] \in Nat
  BY Limits DEF SideOK, Sides, IkeRec
<1>3. /\ k \in IkeRec
      /\ k.nextuse = (IF sent THEN s.ike.nextuse + 1 ELSE s.ike.nextuse)
      /\ k.nextuse <= MaxUse[p]
      /\ k.send_next_ix = s.ike.send_next_ix
      /\ k.tpacket = s.ike.tpacket
      /\ k.lastrecv = NewLastrecv(s.ike, md)
  <2>1. PICK j \in IkeRec : s.ike = j
    BY DEF SideOK, Sides
  <2>2. (IF sent THEN s.ike.nextuse + 1 ELSE s.ike.nextuse) \in Nat
    BY <1>2
  <2>3. (IF sent THEN s.ike.nextuse + 1 ELSE s.ike.nextuse) <= MaxUse[p]
    BY <1>2
  <2> DEFINE n == IF sent THEN s.ike.nextuse + 1 ELSE s.ike.nextuse
  <2> HIDE DEF n
  <2>4. k = [j EXCEPT !.nextuse = n, !.lastack = NewLastack(s.ike, md),
                      !.lastrecv = NewLastrecv(s.ike, md)]
    BY <2>1, Zenon DEF n
  <2>5. n \in Nat /\ n <= MaxUse[p]
    BY <2>2, <2>3 DEF n
  <2>6. /\ k \in IkeRec
        /\ k.nextuse = n
        /\ k.send_next_ix = s.ike.send_next_ix
        /\ k.tpacket = s.ike.tpacket
        /\ k.lastrecv = NewLastrecv(s.ike, md)
    <3> DEFINE a == NewLastack(s.ike, md)
               b == NewLastrecv(s.ike, md)
    <3> HIDE DEF a, b, k
    <3>1. a \in Msgids /\ b \in Msgids
      BY <1>1 DEF a, b
    <3>2. k = [j EXCEPT !.nextuse = n, !.lastack = a, !.lastrecv = b]
      BY <2>4 DEF a, b
    <3>3. /\ k \in IkeRec
          /\ k.nextuse = n
          /\ k.send_next_ix = j.send_next_ix
          /\ k.tpacket = j.tpacket
          /\ k.lastrecv = b
      BY <3>1, <3>2, <2>5, Zenon DEF IkeRec
    <3> QED
      BY <3>3, <2>1 DEF b
  <2> QED
    BY <2>5, <2>6, Zenon DEF n
<1> HIDE DEF k
<1>4. SideOK(p, u) /\ Kept(s, u)
  BY <1>3 DEF SideOK, Sides, Kept
<1>5. ikev2_update_msgid_counters(s, md, sent)
        = IF unack(k) < Window THEN sechdule_next_send(u) ELSE u
  BY DEF ikev2_update_msgid_counters, k
<1>6. /\ SideOK(p, sechdule_next_send(u))
      /\ Kept(u, sechdule_next_send(u))
      /\ sechdule_next_send(u).ike.nextuse = k.nextuse
      /\ sechdule_next_send(u).ike.tpacket = k.tpacket
      /\ sechdule_next_send(u).ike.lastrecv = k.lastrecv
  BY <1>4, ScheduleOK
<1>7. Kept(s, sechdule_next_send(u))
  BY <1>6 DEF Kept
<1> QED
  BY <1>3, <1>4, <1>5, <1>6, <1>7

\* A child state that is not waiting gets new contents.
LEMMA SetChildOK ==
  ASSUME NEW p \in Peers, NEW s, SideOK(p, s), NEW c \in Slots,
         s.child[c].state # "WAIT", NEW r \in ChildRec, ChildOK(p, r)
  PROVE  LET t == SetChild(s, c, r)
         IN  /\ SideOK(p, t)
             /\ t.ike = s.ike
             /\ t.child = [s.child EXCEPT ![c] = r]
<1> DEFINE t == SetChild(s, c, r)
<1>1. t \in Sides /\ t.ike = s.ike /\ t.child = [s.child EXCEPT ![c] = r]
  BY DEF SideOK, Sides, SetChild
<1>2. s.child \in [Slots -> ChildRec]
  BY DEF SideOK, Sides
<1>3. \A d \in Slots : ChildOK(p, t.child[d])
  BY <1>1, <1>2 DEF SideOK
<1>4. QueueOK(t.ike.send_next_ix, t.child)
  BY <1>1, <1>2 DEF SideOK, QueueOK
<1>5. t.ike.nextuse <= MaxUse[p] /\ t.ike.tpacket.from = p
  BY <1>1 DEF SideOK
<1> QED
  BY <1>1, <1>3, <1>4, <1>5 DEF SideOK

\* delete_state leaves no slot on send_next_ix that is not waiting.
LEMMA FreeSlotOK ==
  ASSUME conf \in Configs, NEW p \in Peers, NEW s, SideOK(p, s), NEW c \in Slots
  PROVE  LET t == FreeSlot(s, c)
         IN  /\ SideOK(p, t)
             /\ t.child = [s.child EXCEPT ![c] = FreeChild]
             /\ t.ike.nextuse = s.ike.nextuse
             /\ t.ike.tpacket = s.ike.tpacket
             /\ t.ike.lastrecv = s.ike.lastrecv
<1> DEFINE t == FreeSlot(s, c)
           n == Len(s.ike.send_next_ix)
           q == [i \in 1 .. n |->
                   IF s.ike.send_next_ix[i] = c THEN Gone ELSE s.ike.send_next_ix[i]]
<1>1. s.ike.send_next_ix \in Seq(0 .. NSlots) /\ s.child \in [Slots -> ChildRec]
  BY DEF SideOK, Sides, IkeRec
<1>2. n \in Nat /\ \A i \in 1 .. n : s.ike.send_next_ix[i] \in 0 .. NSlots
  BY <1>1, LenProperties, ElementOfSeq, Zenon
<1>3. 0 \in 0 .. NSlots /\ 0 \notin Slots
  BY SlotsAssumption DEF Slots
<1>4. q \in [1 .. n -> 0 .. NSlots]
  BY <1>2, <1>3 DEF Gone
<1>5. q \in Seq(0 .. NSlots) /\ Len(q) = n
  <2> HIDE DEF q, n
  <2>1. q \in Seq(0 .. NSlots)
    BY <1>2, <1>4, SeqDef, Zenon
  <2> QED
    BY <2>1, <1>2, <1>4, LenProperties
<1>6. PICK j \in IkeRec : s.ike = j
  BY DEF SideOK, Sides
<1>7. t = [ike |-> [j EXCEPT !.send_next_ix = q],
           child |-> [s.child EXCEPT ![c] = FreeChild]]
  BY <1>6, Zenon DEF FreeSlot
<1>8. FreeChild \in ChildRec /\ ChildOK(p, FreeChild) /\ FreeChild.state = "FREE"
  BY Limits DEF FreeChild, Child, ChildRec, ChildOK, States, Initiating
<1>9. ASSUME NEW i \in 1 .. n, q[i] \in Slots
      PROVE  q[i] = s.ike.send_next_ix[i] /\ q[i] # c
  BY <1>9, <1>3 DEF Gone
<1> HIDE DEF q, n
<1>10. /\ t \in Sides
       /\ t.ike.send_next_ix = q
       /\ t.ike.nextuse = j.nextuse
       /\ t.ike.tpacket = j.tpacket
       /\ t.ike.lastrecv = j.lastrecv
       /\ t.child = [s.child EXCEPT ![c] = FreeChild]
  <2>2. [s.child EXCEPT ![c] = FreeChild] \in [Slots -> ChildRec]
    BY <1>1, <1>8
  <2> DEFINE k == [j EXCEPT !.send_next_ix = q]
             ch == [s.child EXCEPT ![c] = FreeChild]
  <2>3. /\ k \in IkeRec
        /\ k.send_next_ix = q
        /\ k.nextuse = j.nextuse
        /\ k.tpacket = j.tpacket
        /\ k.lastrecv = j.lastrecv
    BY <1>5, IkeQueue
  <2>4. t = [ike |-> k, child |-> ch] /\ ch \in [Slots -> ChildRec]
    BY <1>7, <2>2
  <2> HIDE DEF k, ch, t
  <2>5. t \in Sides /\ t.ike = k /\ t.child = ch
    BY <2>3, <2>4 DEF Sides
  <2> QED
    BY <2>3, <2>5 DEF ch
<1> HIDE DEF t
<1>11. \A d \in Slots : ChildOK(p, t.child[d])
  BY <1>10, <1>1, <1>8 DEF SideOK
<1>12. QueueOK(q, t.child)
  <2>1. QueueOK(s.ike.send_next_ix, s.child)
    BY DEF SideOK
  <2>2. ASSUME NEW i \in 1 .. n, q[i] \in Slots
        PROVE  t.child[q[i]].state = "WAIT"
    BY <2>1, <2>2, <1>9, <1>10, <1>1 DEF QueueOK, n
  <2>3. ASSUME NEW i \in 1 .. n, NEW l \in 1 .. n, q[i] = q[l], q[i] \in Slots
        PROVE  i = l
    BY <2>1, <2>3, <1>9 DEF QueueOK, n
  <2> QED
    BY <2>2, <2>3, <1>5 DEF QueueOK
<1>13. t.ike.nextuse <= MaxUse[p] /\ t.ike.tpacket.from = p
  BY <1>6, <1>10 DEF SideOK
<1>14. SideOK(p, t)
  BY <1>10, <1>11, <1>12, <1>13 DEF SideOK
<1> QED
  BY <1>6, <1>10, <1>14 DEF t

\* A packet is recorded, and the ID of the request it answers.
Recorded(s, m, id) ==
  [ike |-> [record_outbound_ike_msg(s, m).ike EXCEPT !.lastreplied = id],
   child |-> record_outbound_ike_msg(s, m).child]

\* What recording the packet m makes of the side s: nothing else changes.
Records(p, s, m, t) ==
  /\ SideOK(p, t)
  /\ t.child = s.child
  /\ t.ike.nextuse = s.ike.nextuse
  /\ t.ike.tpacket = m
  /\ t.ike.lastrecv = s.ike.lastrecv

\* Recording a packet of p keeps the side of p sound.
LEMMA RecordOK ==
  ASSUME NEW p \in Peers, NEW s, SideOK(p, s),
         NEW m \in Messages, m.from = p, NEW id \in Msgids
  PROVE  Records(p, s, m, Recorded(s, m, id))
<1> DEFINE t == Recorded(s, m, id)
<1>1. PICK j \in IkeRec : s.ike = j
  BY DEF SideOK, Sides
<1>2. t = [ike |-> [[j EXCEPT !.tpacket = m] EXCEPT !.lastreplied = id],
           child |-> s.child]
  BY <1>1, Zenon DEF Recorded, record_outbound_ike_msg
<1> HIDE DEF t
<1>3. /\ t.ike \in IkeRec
      /\ t.ike.nextuse = j.nextuse
      /\ t.ike.tpacket = m
      /\ t.ike.lastrecv = j.lastrecv
      /\ t.ike.send_next_ix = j.send_next_ix
      /\ t.child = s.child
  BY <1>2, Zenon DEF IkeRec
<1>4. t \in Sides
  BY <1>2, <1>3 DEF Sides, SideOK
<1>5. SideOK(p, t)
  BY <1>1, <1>3, <1>4 DEF SideOK
<1> QED
  BY <1>1, <1>3, <1>5, Zenon DEF t, Records

\* What Kept means for the children that are established or answer.
LEMMA KeptOK ==
  ASSUME NEW p \in Peers, NEW s, NEW t, NEW n, NEW l, NEW next, Kept(s, t)
  PROVE  /\ Backed(p, s.child, n, l) => Backed(p, t.child, n, l)
         /\ Known(s.child, next) => Known(t.child, next)
<1>1. ASSUME NEW c \in Slots
      PROVE  t.child[c] = s.child[c] \/ t.child[c].state = "SEND_NEXT"
  <2>1. \A st, id, sa : Child(st, id, sa).state = st
    BY DEF Child
  <2> QED
    BY <2>1 DEF Kept
<1>2. ASSUME Backed(p, s.child, n, l)
      PROVE  Backed(p, t.child, n, l)
  BY <1>1, <1>2, Zenon DEF Backed, Answered
<1>3. ASSUME Known(s.child, next)
      PROVE  Known(t.child, next)
  BY <1>1, <1>3 DEF Known, Asked
<1> QED
  BY <1>2, <1>3

\* What a packet makes of lastrecv.
LEMMA LastrecvCases ==
  ASSUME NEW k, NEW md
  PROVE  LET x == NewLastrecv(k, md)
         IN  \/ ~ md.resp /\ md.msgid > k.lastrecv /\ x = md.msgid
             \/ /\ ~ md.resp /\ md.msgid = 0 /\ k.lastrecv = v2_INVALID_MSGID
                /\ x = 0
             \/ /\ x = k.lastrecv
                /\ ~ (~ md.resp /\ md.msgid > k.lastrecv)
                /\ ~ (~ md.resp /\ md.msgid = 0 /\ k.lastrecv = v2_INVALID_MSGID)
BY Zenon DEF NewLastrecv, v2_INITIAL_MSGID

\* Updating the counters once more for a request that was counted.
LEMMA OldHandled ==
  ASSUME conf \in Configs, NEW p \in Peers, NEW k, k.lastrecv \in Msgids,
         NEW h \in [Msgids -> Nat], HandledOK(p, k.lastrecv, h),
         NEW md \in Messages, ~ md.resp => md.msgid < v2_INVALID_MSGID
  PROVE  HandledOK(p, NewLastrecv(k, md), h)
<1> DEFINE x == NewLastrecv(k, md)
<1>1. md.msgid \in Int /\ k.lastrecv \in Int /\ v2_INVALID_MSGID \in Int
      /\ \A id \in Msgids : id \in Int
  BY MsgidAssumption DEF Messages, Msgids, v2_INVALID_MSGID
<1>2. x = k.lastrecv \/ x > k.lastrecv \/ k.lastrecv = v2_INVALID_MSGID
  BY LastrecvCases
<1>3. x = v2_INVALID_MSGID => k.lastrecv = v2_INVALID_MSGID
  <2>1. v2_INVALID_MSGID # 0
    BY Limits
  <2> QED
    BY <1>1, <2>1, LastrecvCases
<1>4. x \in Int
  BY <1>1, LastrecvCases
<1> HIDE DEF x
<1>5. HandledOK(p, x, h)
  BY <1>1, <1>2, <1>3, <1>4 DEF HandledOK
<1> QED
  BY <1>5 DEF x

\* Counting a request that is neither too old nor a recent retransmission.
LEMMA NewHandled ==
  ASSUME conf \in Configs, NEW p \in Peers, NEW k, k.lastrecv \in Msgids,
         NEW h \in [Msgids -> Nat], HandledOK(p, k.lastrecv, h),
         NEW md \in Messages, ~ md.resp, md.msgid < v2_INVALID_MSGID,
         ~ TooOld(k, md), ~ Recent(k, md)
  PROVE  HandledOK(p, NewLastrecv(k, md),
                   [h EXCEPT ![md.msgid] = IF h[md.msgid] = 0 THEN 1 ELSE 2])
<1> DEFINE x == NewLastrecv(k, md)
           g == [h EXCEPT ![md.msgid] = IF h[md.msgid] = 0 THEN 1 ELSE 2]
<1>1. /\ md.msgid \in Msgids
      /\ md.msgid \in Int /\ k.lastrecv \in Int /\ v2_INVALID_MSGID \in Int
      /\ \A id \in Msgids : id \in Int
  BY MsgidAssumption DEF Messages, Msgids, v2_INVALID_MSGID
<1>2. /\ k.lastrecv = v2_INVALID_MSGID \/ md.msgid > k.lastrecv
      /\ k.lastrecv # v2_INVALID_MSGID => x = md.msgid
      /\ x = v2_INVALID_MSGID => k.lastrecv = v2_INVALID_MSGID /\ md.msgid # 0
  <2>1. k.lastrecv = v2_INVALID_MSGID \/ md.msgid > k.lastrecv
    BY <1>1 DEF TooOld, Recent
  <2>2. v2_INVALID_MSGID # 0
    BY Limits
  <2> QED
    BY <1>1, <2>1, <2>2, LastrecvCases
<1>3. /\ g \in [Msgids -> Nat]
      /\ \A id \in Msgids : id # md.msgid => g[id] = h[id]
      /\ g[md.msgid] = IF h[md.msgid] = 0 THEN 1 ELSE 2
  BY <1>1
<1>4. 0 \in Msgids
  BY Limits
<1> HIDE DEF x, g
<1>5. ASSUME p \notin Requesters, p = "R"
      PROVE  /\ x # v2_INVALID_MSGID
             /\ \A id \in Msgids : g[id] <= 1 /\ (id > x => g[id] = 0)
  <2>1. /\ k.lastrecv # v2_INVALID_MSGID
        /\ \A id \in Msgids : h[id] <= 1 /\ (id > k.lastrecv => h[id] = 0)
    BY <1>5 DEF HandledOK
  <2>2. x = md.msgid /\ md.msgid > k.lastrecv
    BY <1>2, <2>1
  <2>3. g[md.msgid] = 1
    BY <1>1, <1>3, <2>1, <2>2
  <2> QED
    BY <1>1, <1>3, <2>1, <2>2, <2>3
<1>6. ASSUME p \notin Requesters, p = "I"
      PROVE  g[0] <= 1 /\ (x = v2_INVALID_MSGID => g[0] = 0)
  <2>1. h[0] <= 1 /\ (k.lastrecv = v2_INVALID_MSGID => h[0] = 0)
    BY <1>6 DEF HandledOK, v2_INITIAL_MSGID
  <2>2. CASE md.msgid = 0
    <3>1. k.lastrecv = v2_INVALID_MSGID
      BY <1>1, <1>2, <2>2, MsgidAssumption DEF Msgids
    <3> QED
      BY <3>1, <2>1, <2>2, <1>2, <1>3, <1>4
  <2>3. CASE md.msgid # 0
    BY <2>1, <2>3, <1>2, <1>3, <1>4
  <2> QED
    BY <2>2, <2>3
<1>7. HandledOK(p, x, g)
  BY <1>5, <1>6 DEF HandledOK, v2_INITIAL_MSGID
<1> QED
  BY <1>7 DEF x, g

-----------------------------------------------------------------------------
(* The steps *)

\* A step of one peer p that makes its side s, sends at most the packet m and
\* may count a request it handles: what is to be shown of s, m and the count.
LEMMA SideStep ==
  ASSUME ExchangeInv, conf' = conf, lost' = lost,
         NEW p \in Peers, NEW s, SideOK(p, s),
         ike' = [ike EXCEPT ![p] = s.ike], child' = [child EXCEPT ![p] = s.child],
         NEW m \in Messages,
         \/ m \in Sent
         \/ /\ m.from = p /\ RightSA(m)
            /\ ~ m.resp => m.msgid = ike[p].nextuse /\ s.ike.nextuse = ike[p].nextuse + 1,
         net \subseteq net', net' \subseteq Sent \cup {m}, s.ike.tpacket \in Sent \cup {m},
         s.ike.nextuse >= ike[p].nextuse,
         Backed(p, s.child, net', lost),
         Known(s.child, ike[Other(p)].nextuse),
         handled' \in [Peers -> [Msgids -> Nat]],
         handled'[Other(p)] = handled[Other(p)],
         HandledOK(p, s.ike.lastrecv, handled'[p])
  PROVE  ExchangeInv'
<1> DEFINE o == Other(p)
<1>p. o \in Peers /\ o # p /\ Other(o) = p /\ Peers = {p, o}
  BY DEF Other, Peers
<1>t. /\ ike \in [Peers -> IkeRec] /\ child \in [Peers -> [Slots -> ChildRec]]
      /\ net \in SUBSET Messages /\ s.ike \in IkeRec /\ s.child \in [Slots -> ChildRec]
  BY DEF ExchangeInv, SideOK, Sides
<1>1. ike' \in [Peers -> IkeRec] /\ child' \in [Peers -> [Slots -> ChildRec]]
  BY <1>t
<1>2. ike'[p] = s.ike /\ ike'[o] = ike[o] /\ child'[p] = s.child /\ child'[o] = child[o]
  BY <1>t, <1>p
<1>3. Sent \subseteq Messages
  BY <1>t, Zenon DEF Sent, IkeRec, Peers
<1>k. /\ ike[p] \in IkeRec /\ ike[o] \in IkeRec
      /\ ike[p].nextuse \in Nat /\ s.ike.nextuse \in Nat
  BY <1>t, <1>p, Fields, Zenon
<1>4. net' \in SUBSET Messages
  BY <1>3
<1>5. SideOK(p, Side(p))' /\ SideOK(o, Side(o))'
  <2>1. Side(p)' = s /\ Side(o)' = Side(o)
    BY <1>2 DEF Side, SideOK, Sides
  <2>2. SideOK(o, Side(o))
    BY <1>p DEF ExchangeInv
  <2>3. MaxUse' = MaxUse /\ Requesters' = Requesters
    BY DEF MaxUse, Requesters
  <2>4. SideOK(p, Side(p))'
    BY <2>1, <2>3, ZenonT(40) DEF SideOK, ChildOK
  <2>5. SideOK(o, Side(o))'
    BY <2>1, <2>2, <2>3, ZenonT(40) DEF SideOK, ChildOK
  <2> QED
    BY <2>4, <2>5
<1>6. Backed(p, child[p], net, lost)' /\ Backed(o, child[o], net, lost)'
  <2>1. Backed(o, child[o], net, lost)
    BY <1>p DEF ExchangeInv
  <2>2. Backed(o, child[o], net', lost)
    BY <2>1, ZenonT(40) DEF Backed, Answered
  <2> QED
    BY <2>2, <1>2, ZenonT(40) DEF Backed, Answered
<1>7. Known(child[p], ike[o].nextuse)' /\ Known(child[o], ike[p].nextuse)'
  <2>1. Known(child[o], ike[p].nextuse)
    BY <1>p DEF ExchangeInv
  <2>2. ASSUME NEW c \in Slots, child[o][c].state = "CREATE_R"
        PROVE  child[o][c].sa.msgid < s.ike.nextuse
    <3>1. child[o][c].sa.msgid < ike[p].nextuse
      BY <2>1, <2>2 DEF Known, Asked
    <3>2. child[o][c] \in ChildRec
      BY <1>t, <1>p, Zenon
    <3>3. child[o][c].sa.msgid \in Msgids
      BY <3>2, Fields, Zenon
    <3> QED
      BY <3>1, <3>3, <1>k, StillUsed, ZenonT(40)
  <2> QED
    BY <2>2, <1>2 DEF Known, Asked
<1>8. HandledOK(p, ike[p].lastrecv, handled[p])' /\ HandledOK(o, ike[o].lastrecv, handled[o])'
  <2>1. HandledOK(o, ike[o].lastrecv, handled[o])
    BY <1>p DEF ExchangeInv
  <2>2. Requesters' = Requesters
    BY DEF Requesters
  <2>3. HandledOK(p, ike[p].lastrecv, handled[p])'
    BY <2>2, <1>2 DEF HandledOK
  <2> QED
    BY <2>1, <2>2, <2>3, <1>2, ZenonT(40) DEF HandledOK
<1>9. Sent' \subseteq Sent \cup {m}
  BY <1>p, <1>2 DEF Sent, Peers
<1>10. SentOK'
  <2> SUFFICES ASSUME NEW n \in Sent \cup {m}
               PROVE  RightSA(n) /\ (~ n.resp => n.msgid < ike'[n.from].nextuse)
    BY <1>9, Zenon DEF SentOK, RightSA
  <2>1. n \in Messages
    BY <1>3, Zenon
  <2>2. n.msgid \in Msgids /\ (n.from = p \/ n.from = o)
    BY <2>1, <1>p, Fields, Zenon
  <2>3. CASE n \in Sent
    <3>1. RightSA(n) /\ (~ n.resp => n.msgid < ike[n.from].nextuse)
      BY <2>3, Zenon DEF ExchangeInv, SentOK
    <3>2. CASE n.from = p
      <4>1. ~ n.resp => n.msgid < s.ike.nextuse
        BY <3>1, <3>2, <2>2, <1>k, StillUsed, Zenon
      <4> QED
        BY <3>1, <3>2, <4>1, <1>2, Zenon
    <3>3. CASE n.from = o
      BY <3>1, <3>3, <1>2, Zenon
    <3> QED
      BY <2>2, <3>2, <3>3, Zenon
  <2>4. CASE n \notin Sent
    <3>1. /\ n.from = p /\ RightSA(n)
          /\ ~ n.resp => n.msgid = ike[p].nextuse /\ s.ike.nextuse = ike[p].nextuse + 1
      BY <2>4, Zenon
    <3> QED
      BY <3>1, <1>2, <1>k, Orders, ZenonT(40)
  <2> QED
    BY <2>3, <2>4, ZenonT(40)
<1>11. RequestIdsUnique'
  <2> SUFFICES ASSUME NEW a \in Sent \cup {m}, NEW b \in Sent \cup {m},
                      a.from = b.from, a.resp = b.resp, a.msgid = b.msgid, ~ a.resp
               PROVE  a = b
    BY <1>9, Zenon DEF RequestIdsUnique, Sent
  <2>1. CASE a \in Sent /\ b \in Sent
    BY <2>1, Zenon DEF ExchangeInv, RequestIdsUnique, Sent
  <2>2. ASSUME NEW n \in Sent, m \notin Sent, ~ n.resp, ~ m.resp,
               n.from = m.from, n.msgid = m.msgid
        PROVE  FALSE
    <3>1. n.msgid < ike[p].nextuse
      BY <2>2, Zenon DEF ExchangeInv, SentOK
    <3>2. n.msgid = ike[p].nextuse
      BY <2>2, Zenon
    <3> QED
      BY <3>1, <3>2, <1>k, Orders, Zenon
  <2>3. CASE a \notin Sent /\ b \in Sent
    BY <2>2, <2>3, Zenon
  <2>4. CASE a \in Sent /\ b \notin Sent
    BY <2>2, <2>4, Zenon
  <2> QED
    BY <2>1, <2>3, <2>4, Zenon
<1>12. conf' \in Configs /\ lost' \in Nat
  BY Zenon DEF ExchangeInv
<1> HIDE DEF o
<1>13. ASSUME NEW q \in Peers
       PROVE  /\ SideOK(q, Side(q))'
              /\ Backed(q, child[q], net, lost)'
              /\ Known(child[q], ike[Other(q)].nextuse)'
              /\ HandledOK(q, ike[q].lastrecv, handled[q])'
  <2>1. CASE q = p
    BY <2>1, <1>5, <1>6, <1>7, <1>8, Zenon DEF o
  <2>2. CASE q = o
    BY <2>2, <1>p, <1>5, <1>6, <1>7, <1>8, Zenon
  <2> QED
    BY <2>1, <2>2, <1>p, Zenon
<1> QED
  BY <1>1, <1>4, <1>10, <1>11, <1>12, <1>13 DEF ExchangeInv

\* What the invariant says about the side of one peer.
LEMMA Facts ==
  ASSUME ExchangeInv, NEW p \in Peers
  PROVE  /\ conf \in Configs /\ lost \in Nat
         /\ SideOK(p, Side(p)) /\ Side(p).ike = ike[p] /\ Side(p).child = child[p]
         /\ ike[p] \in IkeRec /\ child[p] \in [Slots -> ChildRec]
         /\ ike[p].nextuse \in Nat /\ ike[p].lastrecv \in Msgids
         /\ ike[p].nextuse <= MaxUse[p]
         /\ Other(p) \in Peers /\ Other(p) # p /\ Other(Other(p)) = p
         /\ net \subseteq Sent /\ Sent \subseteq Messages /\ ike[p].tpacket \in Sent
         /\ Backed(p, child[p], net, lost)
         /\ Known(child[p], ike[Other(p)].nextuse)
         /\ HandledOK(p, ike[p].lastrecv, handled[p])
         /\ handled \in [Peers -> [Msgids -> Nat]]
<1>1. /\ ike \in [Peers -> IkeRec] /\ child \in [Peers -> [Slots -> ChildRec]]
      /\ net \in SUBSET Messages
  BY DEF ExchangeInv
<1>2. /\ ike[p] \in IkeRec /\ child[p] \in [Slots -> ChildRec]
      /\ ike[p].nextuse \in Nat /\ ike[p].lastrecv \in Msgids
  BY <1>1 DEF IkeRec
<1>3. net \subseteq Sent /\ Sent \subseteq Messages /\ ike[p].tpacket \in Sent
  BY <1>1 DEF Sent, IkeRec, Peers
<1>4. Other(p) \in Peers /\ Other(p) # p /\ Other(Other(p)) = p
  BY DEF Other, Peers
<1>5. Side(p).ike = ike[p] /\ Side(p).child = child[p]
  BY DEF Side
<1>6. ike[p].nextuse <= MaxUse[p]
  BY <1>5 DEF ExchangeInv, SideOK
<1> QED
  BY <1>2, <1>3, <1>4, <1>5, <1>6, Zenon DEF ExchangeInv

\* A request the other peer sent.
LEMMA RequestFacts ==
  ASSUME ExchangeInv, NEW p \in Peers, NEW m \in net, m.from = Other(p), ~ m.resp
  PROVE  /\ m \in Messages /\ m.msgid \in Msgids
         /\ m.msgid < ike[Other(p)].nextuse
         /\ m.msgid < v2_INVALID_MSGID
         /\ m.ix = "CREATE_CHILD" => m.sa = [by |-> Other(p), msgid |-> m.msgid]
<1>1. m \in Sent /\ m \in Messages /\ Other(p) \in Peers
  BY Facts, Zenon
<1>2. m.msgid < ike[Other(p)].nextuse /\ RightSA(m)
  BY <1>1, Zenon DEF ExchangeInv, SentOK
<1>3. m.msgid \in Msgids
  BY <1>1, Fields, Zenon
<1>4. ike[Other(p)].nextuse \in Nat /\ ike[Other(p)].nextuse <= MaxUse[Other(p)]
  BY <1>1, Facts, Zenon
<1>5. conf \in Configs
  BY DEF ExchangeInv
<1>6. MaxUse[Other(p)] \in Nat /\ MaxUse[Other(p)] < v2_INVALID_MSGID
      /\ v2_INVALID_MSGID \in Int
  BY <1>1, <1>5, Limits, MsgidAssumption DEF v2_INVALID_MSGID
<1>7. m.msgid < v2_INVALID_MSGID
  BY <1>2, <1>3, <1>4, <1>6, MsgidAssumption DEF Msgids
<1> QED
  BY <1>1, <1>2, <1>3, <1>7 DEF RightSA

\* One child of a side changes.
LEMMA ChildChange ==
  ASSUME NEW p, NEW ch \in [Slots -> ChildRec], NEW c \in Slots, NEW r, NEW n, NEW l,
         NEW next
  PROVE  /\ Backed(p, ch, n, l) /\ Answered(p, r, n, l)
              => Backed(p, [ch EXCEPT ![c] = r], n, l)
         /\ Known(ch, next) /\ Asked(r, next)
              => Known([ch EXCEPT ![c] = r], next)
BY DEF Backed, Known

\* A larger network backs what a smaller one does.
LEMMA BackedMore ==
  ASSUME NEW p, NEW ch, NEW n, NEW o, NEW l, Backed(p, ch, n, l), n \subseteq o
  PROVE  Backed(p, ch, o, l)
<1>1. ASSUME NEW c \in Slots
      PROVE  Answered(p, ch[c], o, l)
  <2>1. Answered(p, ch[c], n, l)
    BY Zenon DEF Backed
  <2> QED
    BY <2>1, Zenon DEF Answered
<1> QED
  BY <1>1, Zenon DEF Backed

\* A side of p as it may be when the packets n are in the network.
Fine(p, s, n) ==
  /\ SideOK(p, s)
  /\ Backed(p, s.child, n, lost)
  /\ Known(s.child, ike[Other(p)].nextuse)

\* The side a peer is at is fine, whatever else is on the network.
LEMMA FineSide ==
  ASSUME ExchangeInv, NEW p \in Peers, NEW n, net \subseteq n
  PROVE  Fine(p, Side(p), n)
BY Facts, BackedMore, Zenon DEF Fine

\* Writing a sound record into a slot that is not queued keeps the side fine.
LEMMA FineSet ==
  ASSUME ExchangeInv, NEW p \in Peers, NEW s, NEW n, Fine(p, s, n), NEW c \in Slots,
         s.child[c].state # "WAIT", NEW r \in ChildRec, ChildOK(p, r),
         Answered(p, r, n, lost), Asked(r, ike[Other(p)].nextuse)
  PROVE  /\ Fine(p, SetChild(s, c, r), n)
         /\ SetChild(s, c, r).ike = s.ike
<1>1. /\ SideOK(p, SetChild(s, c, r))
      /\ SetChild(s, c, r).ike = s.ike
      /\ SetChild(s, c, r).child = [s.child EXCEPT ![c] = r]
  BY SetChildOK DEF Fine
<1>2. s.child \in [Slots -> ChildRec]
  BY DEF Fine, SideOK, Sides
<1>3. Backed(p, [s.child EXCEPT ![c] = r], n, lost)
  BY <1>2, ChildChange DEF Fine
<1>4. Known([s.child EXCEPT ![c] = r], ike[Other(p)].nextuse)
  BY <1>2, ChildChange DEF Fine
<1> QED
  <2>1. /\ Backed(p, SetChild(s, c, r).child, n, lost)
        /\ Known(SetChild(s, c, r).child, ike[Other(p)].nextuse)
    BY <1>1, <1>3, <1>4, ZenonT(40)
  <2> QED
    BY <1>1, <2>1, ZenonT(40) DEF Fine

\* delete_state: freeing a slot keeps the side fine.
LEMMA FineFree ==
  ASSUME ExchangeInv, NEW p \in Peers, NEW s, NEW n, Fine(p, s, n), NEW c \in Slots
  PROVE  LET t == FreeSlot(s, c)
         IN  /\ Fine(p, t, n)
             /\ t.ike.nextuse = s.ike.nextuse
             /\ t.ike.tpacket = s.ike.tpacket
             /\ t.ike.lastrecv = s.ike.lastrecv
<1> DEFINE t == FreeSlot(s, c)
<1>1. conf \in Configs
  BY DEF ExchangeInv
<1>2. /\ SideOK(p, t)
      /\ t.child = [s.child EXCEPT ![c] = FreeChild]
      /\ t.ike.nextuse = s.ike.nextuse
      /\ t.ike.tpacket = s.ike.tpacket
      /\ t.ike.lastrecv = s.ike.lastrecv
  BY <1>1, FreeSlotOK DEF Fine
<1>3. s.child \in [Slots -> ChildRec]
  BY DEF Fine, SideOK, Sides
<1>4. Answered(p, FreeChild, n, lost) /\ Asked(FreeChild, ike[Other(p)].nextuse)
  BY DEF FreeChild, Child, Answered, Asked
<1>5. Backed(p, [s.child EXCEPT ![c] = FreeChild], n, lost)
  BY <1>3, <1>4, ChildChange DEF Fine
<1>6. Known([s.child EXCEPT ![c] = FreeChild], ike[Other(p)].nextuse)
  BY <1>3, <1>4, ChildChange DEF Fine
<1> QED
  BY <1>2, <1>5, <1>6, Zenon DEF Fine

\* ikev2_update_msgid_counters keeps the side fine and counts a request once.
LEMMA FineUpdate ==
  ASSUME ExchangeInv, NEW p \in Peers, NEW s, NEW n, Fine(p, s, n),
         NEW md \in Messages, NEW sent \in BOOLEAN, sent => s.ike.nextuse < MaxUse[p]
  PROVE  LET t == ikev2_update_msgid_counters(s, md, sent)
         IN  /\ Fine(p, t, n)
             /\ Kept(s, t)
             /\ t.ike.nextuse = IF sent THEN s.ike.nextuse + 1 ELSE s.ike.nextuse
             /\ t.ike.tpacket = s.ike.tpacket
             /\ t.ike.lastrecv = NewLastrecv(s.ike, md)
<1> DEFINE t == ikev2_update_msgid_counters(s, md, sent)
<1>1. conf \in Configs
  BY DEF ExchangeInv
<1>2. /\ SideOK(p, t)
      /\ Kept(s, t)
      /\ t.ike.nextuse = IF sent THEN s.ike.nextuse + 1 ELSE s.ike.nextuse
      /\ t.ike.tpacket = s.ike.tpacket
      /\ t.ike.lastrecv = NewLastrecv(s.ike, md)
  BY <1>1, UpdateOK DEF Fine
<1> HIDE DEF t
<1>3. Fine(p, t, n)
  BY <1>2, KeptOK DEF Fine
<1> QED
  BY <1>2, <1>3 DEF t

\* The same for a request that was sent.
LEMMA FineSend ==
  ASSUME ExchangeInv, NEW p \in Peers, NEW s, NEW n, Fine(p, s, n),
         NEW md \in Messages, s.ike.nextuse < MaxUse[p]
  PROVE  LET t == ikev2_update_msgid_counters(s, md, TRUE)
         IN  /\ Fine(p, t, n)
             /\ t.ike.nextuse = s.ike.nextuse + 1
             /\ t.ike.tpacket = s.ike.tpacket
BY FineUpdate, ZenonT(40)

\* What a side s becomes when the counters are updated for a received message
\* md, and for one that is a reply.
Received(p, s, md, n, t) ==
  /\ Fine(p, t, n) /\ Kept(s, t)
  /\ t.ike.nextuse = s.ike.nextuse /\ t.ike.tpacket = s.ike.tpacket
  /\ t.ike.lastrecv = NewLastrecv(s.ike, md)
Replied(p, s, n, t) ==
  /\ Fine(p, t, n) /\ Kept(s, t)
  /\ t.ike.nextuse = s.ike.nextuse /\ t.ike.tpacket = s.ike.tpacket
  /\ t.ike.lastrecv = s.ike.lastrecv

\* The same for a message that was received.
LEMMA FineReceive ==
  ASSUME ExchangeInv, NEW p \in Peers, NEW s, NEW n, Fine(p, s, n), NEW md \in Messages
  PROVE  Received(p, s, md, n, ikev2_update_msgid_counters(s, md, FALSE))
BY FineUpdate, ZenonT(40) DEF Received

\* Replies do not change lastrecv.
LEMMA FineReply ==
  ASSUME ExchangeInv, NEW p \in Peers, NEW s, NEW n, Fine(p, s, n),
         NEW md \in Messages, md.resp
  PROVE  Replied(p, s, n, ikev2_update_msgid_counters(s, md, FALSE))
<1>1. NewLastrecv(s.ike, md) = s.ike.lastrecv
  BY LastrecvCases
<1> QED
  BY <1>1, FineReceive, Zenon DEF Received, Replied

\* A step of one peer that sends nothing and handles no request.
LEMMA SilentStep ==
  ASSUME ExchangeInv, conf' = conf, UNCHANGED <<net, lost, handled>>,
         NEW p \in Peers, NEW s, Fine(p, s, net), Become(p, s),
         s.ike.tpacket = ike[p].tpacket, s.ike.nextuse = ike[p].nextuse,
         s.ike.lastrecv = ike[p].lastrecv
  PROVE  ExchangeInv'
<1>1. ike[p].tpacket \in Sent /\ ike[p].tpacket \in Messages /\ net \subseteq Sent
  BY Facts, Zenon
<1>2. s.ike.nextuse >= ike[p].nextuse
  <2>1. ike[p].nextuse \in Nat
    BY Facts, Zenon
  <2> QED
    BY <2>1
<1>3. handled' = handled /\ handled \in [Peers -> [Msgids -> Nat]]
  BY Facts, Zenon
<1>4. HandledOK(p, s.ike.lastrecv, handled'[p])
  BY <1>3, Facts, ZenonT(40)
<1>5. Backed(p, s.child, net', lost)
  BY DEF Fine
<1>6. ike' = [ike EXCEPT ![p] = s.ike] /\ child' = [child EXCEPT ![p] = s.child]
  BY DEF Become
<1> QED
  BY <1>1, <1>2, <1>3, <1>4, <1>5, <1>6, SideStep, Zenon DEF Fine

=============================================================================
