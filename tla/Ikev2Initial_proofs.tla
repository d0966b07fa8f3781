------------------------- MODULE Ikev2Initial_proofs --------------------------
(***************************************************************************)
(* The initial exchanges proved for any number of attempts, states of the  *)
(* responder, retransmissions, duplicated packets and any limits.          *)
(***************************************************************************)
EXTENDS Ikev2Initial_initiator

-----------------------------------------------------------------------------
(* What the steps of the responder do.                                       *)

\* The states of R change, and packets about them are sent.
LEMMA StepR ==
  ASSUME InitialInv, ist' = ist, NEW hr \in Int,
         Sound(ist, rst', net, half.I, hr), half' = [half EXCEPT !.R = hr],
         \A p \in net' : p \in net \/ PacketOK(p, ist, rst')
  PROVE  InitialInv'
<1>1. half \in [I : Int, R : Int]
  BY DEF InitialInv
<1>2. half' \in [I : Int, R : Int] /\ half'.I = half.I /\ half'.R = hr
  BY <1>1
<1>3. Sound(ist, rst', net', half.I, hr)
  BY ChangeNet
<1>. QED
  BY <1>2, <1>3 DEF InitialInv

\* A state in R1 changes and stays in R1, or goes to R2.
LEMMA ChangeR1 ==
  ASSUME InitialInv, NEW r \in Replies, rst[r].state = "R1",
         NEW new, RStateOK(r, new), RKnows(r, new, ist),
         new.state # "none", new.spii = rst[r].spii,
         ist' = ist, rst' = [rst EXCEPT ![r] = new],
         half' = [half EXCEPT !.R = change_state(half.R, "R1", new.state)],
         \A p \in net' : p \in net \/ PacketOK(p, ist, rst')
  PROVE  InitialInv'
<1>1. Sound(ist, rst, net, half.I, half.R) /\ half \in [I : Int, R : Int]
  BY DEF InitialInv
<1>2. Sound(ist, rst', net, half.I, change_state(half.R, "R1", new.state))
  BY <1>1, LiveR, Zenon
<1>3. change_state(half.R, "R1", new.state) \in Int
  BY <1>1 DEF change_state
<1>. QED
  BY <1>2, <1>3, StepR, Zenon

\* The same when it stays in R1.
LEMMA StayR1 ==
  ASSUME InitialInv, NEW r \in Replies, rst[r].state = "R1",
         NEW new, RStateOK(r, new), RKnows(r, new, ist),
         new.state = "R1", new.spii = rst[r].spii,
         ist' = ist, rst' = [rst EXCEPT ![r] = new], half' = half,
         \A p \in net' : p \in net \/ PacketOK(p, ist, rst')
  PROVE  InitialInv'
<1>1. half \in [I : Int, R : Int]
  BY DEF InitialInv
<1>2. half' = [half EXCEPT !.R = change_state(half.R, "R1", new.state)]
  BY <1>1 DEF change_state
<1>. QED
  BY <1>2, ChangeR1, Zenon

\* A state of R whose timer is not "replace" is deleted.
LEMMA DeletedR ==
  ASSUME InitialInv, NEW r \in Replies, rst[r].state \notin {"none", "gone"},
         rst[r].timer # "replace", delete_rstate(r), ist' = ist, net' = net
  PROVE  InitialInv'
<1>1. Sound(ist, rst, net, half.I, half.R) /\ half \in [I : Int, R : Int]
  BY DEF InitialInv
<1>2. /\ rst' = [rst EXCEPT ![r] = Gone(rst[r])]
      /\ half' = [half EXCEPT !.R = change_state(half.R, rst[r].state, "gone")]
  BY DEF delete_rstate
<1>3. Sound(ist, rst', net, half.I, change_state(half.R, rst[r].state, "gone"))
  BY <1>1, <1>2, DeleteR, Zenon
<1>4. change_state(half.R, rst[r].state, "gone") \in Int
  BY <1>1 DEF change_state
<1>. QED
  BY <1>2, <1>3, <1>4, StepR, Zenon

\* A notification answers a request and is about its attempt.
LEMMA NotifyOK ==
  ASSUME NEW m, NEW i, NEW rs, PacketOK(m, i, rs), NEW c \in Nat,
         NEW t \in {"COOKIE", "INVALID_KE", "NO_PROPOSAL"}
  PROVE  PacketOK(Notify(t, m.spii, c), i, rs)
<1>. DEFINE p == Notify(t, m.spii, c)
<1>1. m.spii \in Attempts /\ i[m.spii].state # "none"
  BY DEF PacketOK
<1>2. p \in Packets
  BY <1>1, PacketType DEF Types
<1>3. p.type = t /\ p.spii = m.spii
  BY DEF Notify, Packet
<1>. HIDE DEF p
<1>4. PacketOK(p, i, rs)
  BY <1>1, <1>2, <1>3 DEF PacketOK, Types
<1>. QED
  BY <1>4 DEF p

\* An R1 is about the state that sends it.
LEMMA R1OK ==
  ASSUME NEW a \in Attempts, NEW r \in Replies, NEW i, NEW rs, i[a].state # "none"
  PROVE  PacketOK(R1(a, r), i, rs)
<1>. DEFINE p == R1(a, r)
<1>1. p \in Packets
  BY PacketType
<1>2. p.type = "R1" /\ p.spii = a
  BY DEF R1, Packet
<1>. HIDE DEF p
<1>3. PacketOK(p, i, rs)
  BY <1>1, <1>2 DEF PacketOK, Types
<1>. QED
  BY <1>3 DEF p

\* So is an R2.
LEMMA R2OK ==
  ASSUME NEW a \in Attempts, NEW r \in Replies, NEW ni \in Nat, NEW i, NEW rs,
         i[a].state # "none", Stays(rs, a, r, ni, r)
  PROVE  PacketOK(Auth("R2", a, r, ni, r), i, rs)
<1>. DEFINE p == Auth("R2", a, r, ni, r)
<1>1. r \in 0 .. MaxR /\ r \in Nat
  BY Bounds DEF Replies
<1>2. p \in Packets
  BY <1>1, PacketType DEF Types
<1>3. p.type = "R2" /\ p.spii = a /\ p.spir = r /\ p.ni = ni /\ p.gr = r
  BY DEF Auth, Packet
<1>. HIDE DEF p
<1>4. PacketOK(p, i, rs)
  BY <1>2, <1>3 DEF PacketOK, Types
<1>. QED
  BY <1>4 DEF p

\* What a state of R sent last may be sent again.
LEMMA AnswerOK ==
  ASSUME InitialInv, NEW r \in Replies, rst[r].tpacket # NoPacket
  PROVE  PacketOK(rst[r].tpacket, ist, rst)
<1>1. rst[r] \in RRec /\ RStateOK(r, rst[r]) /\ RKnows(r, rst[r], ist)
  BY FactsR
<1>2. CASE rst[r].tpacket = R1(rst[r].spii, r) /\ rst[r].state # "none"
  <2>1. rst[r].spii \in Attempts /\ ist[rst[r].spii].state # "none"
    BY <1>1, <1>2 DEF RStateOK, RKnows
  <2>. QED
    BY <1>2, <2>1, R1OK
<1>3. CASE /\ rst[r].tpacket = Auth("R2", rst[r].spii, r, rst[r].ni, r)
           /\ rst[r].state = "R2" /\ rst[r].timer = "replace"
  <2>1. rst[r].spii \in Attempts /\ ist[rst[r].spii].state # "none"
    BY <1>1, <1>3 DEF RStateOK, RKnows
  <2>2. Stays(rst, rst[r].spii, r, rst[r].ni, r) /\ rst[r].ni \in Nat
    BY <1>1, <1>3 DEF Stays, RRec
  <2>. QED
    BY <1>3, <2>1, <2>2, R2OK
<1>. QED
  BY <1>1, <1>2, <1>3 DEF RStateOK

\* A repeated I1
LEMMA RepeatedStep ==
  ASSUME InitialInv, NEW m, I1_repeated(m)
  PROVE  InitialInv'
<1>1. PICK r \in InInit(m.spii) :
        Deliver(m, IF rst[r].work = "none" THEN {rst[r].tpacket} \ {NoPacket} ELSE {})
  BY Zenon DEF I1_repeated
<1>2. r \in Replies
  BY DEF InInit
<1>3. \A p \in net' : p \in net \/ (p = rst[r].tpacket /\ p # NoPacket)
  BY <1>1, Delivered
<1>4. \A p \in net' : p \in net \/ PacketOK(p, ist, rst)
  BY <1>2, <1>3, AnswerOK
<1>. QED
  BY <1>4, QuietStep DEF I1_repeated

\* An I1 that is dropped or answered with a cookie
LEMMA RefusedStep ==
  ASSUME InitialInv, NEW m, I1_refused(m)
  PROVE  InitialInv'
<1>1. CASE Deliver(m, {})
  BY <1>1, Delivered, QuietStep DEF I1_refused
<1>2. CASE Deliver(m, {Notify("COOKIE", m.spii, m.ni)})
  <2>1. /\ PacketOK(m, ist, rst)
        /\ \A p \in net' : p \in net \/ p = Notify("COOKIE", m.spii, m.ni)
    BY <1>2, Delivered
  <2>2. m.ni \in Nat
    BY <2>1 DEF PacketOK, Packets
  <2>3. PacketOK(Notify("COOKIE", m.spii, m.ni), ist, rst)
    BY <2>1, <2>2, NotifyOK
  <2>. QED
    BY <2>1, <2>3, QuietStep DEF I1_refused
<1>. QED
  BY <1>1, <1>2 DEF I1_refused

\* ike2_match_ke_group_and_prop
LEMMA WrongGroupStep ==
  ASSUME InitialInv, NEW m, I1_wrong_group(m)
  PROVE  InitialInv'
<1>1. /\ PacketOK(m, ist, rst)
      /\ \A p \in net' : \/ p \in net
                         \/ p = Notify("INVALID_KE", m.spii, 0)
                         \/ p = Notify("NO_PROPOSAL", m.spii, 0)
  BY Delivered DEF I1_wrong_group
<1>2. /\ PacketOK(Notify("INVALID_KE", m.spii, 0), ist, rst)
      /\ PacketOK(Notify("NO_PROPOSAL", m.spii, 0), ist, rst)
  BY <1>1, NotifyOK
<1>. QED
  BY <1>1, <1>2, QuietStep DEF I1_wrong_group

\* A crypto request is started for a state in R1, or not.
LEMMA StartedR ==
  ASSUME NEW r \in Replies, NEW st, RStateOK(r, st), st.state = "R1",
         NEW w \in {"ke", "dh"}, NEW x \in Started(st, w)
  PROVE  /\ RStateOK(r, x) /\ x.state = "R1" /\ x.spii = st.spii
         /\ x = st \/ x.work = w
<1>1. st \in RRec
  BY DEF RStateOK
<1>2. CASE x = st
  BY <1>2
<1>3. CASE x = [st EXCEPT !.work = w, !.timer = "crypto_failed"]
  <2>1. /\ x \in RRec /\ x.state = "R1" /\ x.timer = "crypto_failed" /\ x.work = w
        /\ x.spii = st.spii /\ x.tpacket = st.tpacket
    BY <1>1, <1>3, Zenon DEF RRec
  <2>. QED
    BY <2>1 DEF RStateOK
<1>. QED
  BY <1>2, <1>3 DEF Started

\* ikev2parent_inI1outR1
LEMMA InI1Step ==
  ASSUME InitialInv, NEW m, inI1outR1(m)
  PROVE  InitialInv'
<1>. DEFINE r == Cardinality(UsedR(rst)) + 1
            new == [NoR EXCEPT !.state = "R1", !.oe = ist[m.spii].oe,
                      !.spii = m.spii, !.ni = m.ni, !.timer = "discard"]
<1>1. r = NextR
  BY DEF NextR, UsedR
<1>2. /\ Admitted(m) /\ Deliver(m, {}) /\ ist' = ist /\ r <= MaxR
      /\ half' = [half EXCEPT !.R = change_state(half.R, "none", "R1")]
  BY <1>1 DEF inI1outR1
<1>3. PICK st \in Started(new, "ke") : rst' = [rst EXCEPT ![r] = st]
  BY <1>1, Zenon DEF inI1outR1
<1>4. PacketOK(m, ist, rst) /\ \A p \in net' : p \in net
  BY <1>2, Delivered
<1>5. m.spii \in Attempts /\ ist[m.spii].state # "none" /\ m \in Packets
  BY <1>4 DEF PacketOK
<1>6. ist[m.spii] \in IRec
  BY <1>5, FactsI
<1>7. ist[m.spii].oe \in BOOLEAN
  BY <1>6, Zenon DEF IRec
<1>8. m.spii \in 0 .. KeyingTries /\ m.ni \in Nat
  BY <1>5 DEF Packets
<1>9. /\ new \in RRec /\ new.state = "R1" /\ new.spii = m.spii /\ new.work = "none"
      /\ new.timer = "discard" /\ new.tpacket = NoPacket
  BY <1>7, <1>8, NoneType, Zenon DEF NoR, RRec, RStates
<1>10. r \in Replies
  BY <1>2, Countable, Bounds DEF Replies
<1>. HIDE DEF new, r
<1>11. RStateOK(r, new)
  BY <1>5, <1>9 DEF RStateOK
<1>12. RStateOK(r, st) /\ st.state = "R1" /\ st.spii = m.spii /\ st.work \in {"none", "ke"}
  BY <1>3, <1>9, <1>10, <1>11, StartedR
<1>13. RKnows(r, st, ist)
  BY <1>5, <1>12 DEF RKnows
<1>14. Sound(ist, rst, net, half.I, half.R) /\ half \in [I : Int, R : Int]
  BY DEF InitialInv
<1>15. half.R < MaxHalfopen
  BY <1>2, <1>14, Bounds DEF Admitted, drop_new_exchanges
<1>16. \A s \in HalfR(rst) : rst[s].spii # st.spii
  BY <1>2, <1>12 DEF Admitted, InInit, HalfR
<1>17. Sound(ist, rst', net, half.I, change_state(half.R, "none", "R1"))
  BY <1>3, <1>10, <1>12, <1>13, <1>14, <1>15, <1>16, StartR, ZenonT(40) DEF r
<1>18. change_state(half.R, "none", "R1") \in Int
  BY <1>14 DEF change_state
<1>. QED
  BY <1>2, <1>4, <1>17, <1>18, StepR

\* ikev2_parent_inI1outR1_continue
LEMMA InI1ContinueStep ==
  ASSUME InitialInv, NEW r \in Replies, inI1outR1_continue(r)
  PROVE  InitialInv'
<1>. DEFINE p == R1(rst[r].spii, r)
            new == [rst[r] EXCEPT !.work = "none", !.timer = "responder_timeout",
                                  !.tpacket = p]
<1>1. /\ rst[r].work = "ke" /\ ist' = ist /\ half' = half /\ net' = net \cup {p}
      /\ rst' = [rst EXCEPT ![r].work = "none", ![r].timer = "responder_timeout",
                            ![r].tpacket = p]
  BY DEF inI1outR1_continue, Send
<1>2. /\ rst \in [Replies -> RRec] /\ rst[r] \in RRec
      /\ RStateOK(r, rst[r]) /\ RKnows(r, rst[r], ist)
  BY FactsR
<1>3. rst[r].state = "R1" /\ rst[r].spii \in Attempts /\ ist[rst[r].spii].state # "none"
  BY <1>1, <1>2 DEF RStateOK, RKnows
<1>4. p \in Packets /\ \A rs : PacketOK(p, ist, rs)
  BY <1>3, PacketType, R1OK, Zenon
<1>5. /\ new \in RRec /\ new.state = "R1" /\ new.spii = rst[r].spii
      /\ new.work = "none" /\ new.timer = "responder_timeout" /\ new.tpacket = p
  BY <1>2, <1>3, <1>4, Zenon DEF RRec
<1>6. rst' = [rst EXCEPT ![r] = new]
  BY <1>1, <1>2, Zenon
<1>. HIDE DEF new
<1>7. RStateOK(r, new)
  BY <1>3, <1>5 DEF RStateOK
<1>8. RKnows(r, new, ist)
  BY <1>2, <1>3, <1>5 DEF RKnows
<1>. HIDE DEF p
<1>9. \A q \in net' : q \in net \/ PacketOK(q, ist, rst')
  BY <1>1, <1>4
<1>. QED
  BY <1>1, <1>3, <1>5, <1>6, <1>7, <1>8, <1>9, StayR1, ZenonT(40)

\* IKE_AUTH requests that change no state
LEMMA I2DiscardedStep ==
  ASSUME InitialInv, NEW m, I2_discarded(m)
  PROVE  InitialInv'
<1>1. CASE Deliver(m, {})
  BY <1>1, Delivered, QuietStep DEF I2_discarded
<1>2. CASE FindsR(m) /\ Deliver(m, {p \in {rst[m.spir].tpacket} : p.type = "R2"})
  <2>1. m.spir \in Replies
    BY <1>2 DEF FindsR
  <2>2. \A p \in net' : p \in net \/ (p = rst[m.spir].tpacket /\ p.type = "R2")
    BY <1>2, Delivered
  <2>3. NoPacket.type # "R2"
    BY DEF NoPacket, Packet
  <2>4. \A p \in net' : p \in net \/ PacketOK(p, ist, rst)
    BY <2>1, <2>2, <2>3, AnswerOK
  <2>. QED
    BY <2>4, QuietStep DEF I2_discarded
<1>. QED
  BY <1>1, <1>2 DEF I2_discarded

\* ikev2parent_inI2outR2
LEMMA InI2Step ==
  ASSUME InitialInv, NEW m, inI2outR2(m)
  PROVE  InitialInv'
<1>. DEFINE r == m.spir
<1>1. /\ m.type = "I2" /\ Deliver(m, {}) /\ ist' = ist /\ half' = half
      /\ r \in Replies /\ rst[r].spii = m.spii /\ rst[r].state = "R1"
      /\ rst[r].work = "none"
  BY DEF inI2outR2, FindsR
<1>2. PacketOK(m, ist, rst) /\ \A p \in net' : p \in net
  BY <1>1, Delivered
<1>3. m \in Packets /\ Knows(ist, m.spii, r, m.ni, m.gr)
  BY <1>1, <1>2 DEF PacketOK
<1>4. /\ rst[r] \in RRec /\ RStateOK(r, rst[r]) /\ RKnows(r, rst[r], ist)
  BY <1>1, FactsR
<1>5. PICK st \in Started(rst[r], "dh") :
        rst' = [rst EXCEPT ![r] = IF st.work = "dh" THEN [st EXCEPT !.i2 = m] ELSE st]
  BY Zenon DEF inI2outR2
<1>6. /\ RStateOK(r, st) /\ st.state = "R1" /\ st.spii = rst[r].spii
      /\ st = rst[r] \/ st.work = "dh"
  BY <1>1, <1>4, <1>5, StartedR
<1>7. CASE st.work = "dh"
  <2>. DEFINE new == [st EXCEPT !.i2 = m]
  <2>1. st \in RRec
    BY <1>6 DEF RStateOK
  <2>2. /\ new \in RRec /\ new.state = "R1" /\ new.spii = rst[r].spii
        /\ new.work = "dh" /\ new.timer = st.timer /\ new.tpacket = st.tpacket
        /\ new.i2 = m /\ new.ni = st.ni
    BY <1>3, <1>6, <1>7, <2>1 DEF RRec
  <2>3. rst' = [rst EXCEPT ![r] = new]
    BY <1>5, <1>7
  <2>. HIDE DEF new, r
  <2>4. RStateOK(r, new)
    BY <1>6, <1>7, <2>2 DEF RStateOK
  <2>5. RKnows(r, new, ist)
    BY <1>1, <1>3, <1>4, <2>2, Zenon DEF RKnows
  <2>. QED
    BY <1>1, <1>2, <2>2, <2>3, <2>4, <2>5, StayR1, ZenonT(40)
<1>8. CASE st.work # "dh"
  <2>1. rst' = [rst EXCEPT ![r] = rst[r]]
    BY <1>5, <1>6, <1>8, Zenon
  <2>. HIDE DEF r
  <2>. QED
    BY <1>1, <1>2, <1>4, <2>1, StayR1, Zenon
<1>. QED
  BY <1>7, <1>8

\* The keys are computed: the state when it resumes.
LEMMA ResumedOK ==
  ASSUME InitialInv, NEW r \in Replies, rst[r].work = "dh"
  PROVE  /\ rst[r].state = "R1" /\ rst[r].timer = "crypto_failed"
         /\ rst[r].spii \in Attempts /\ ist[rst[r].spii].state # "none"
         /\ RStateOK(r, rst[r]) /\ RKnows(r, rst[r], ist)
         /\ Resumed(r) \in RRec /\ Resumed(r).state = "R1" /\ Resumed(r).work = "none"
         /\ Resumed(r).timer = "crypto_failed" /\ Resumed(r).spii = rst[r].spii
         /\ Resumed(r).ni = rst[r].ni /\ Resumed(r).tpacket = rst[r].tpacket
<1>1. /\ rst[r] \in RRec /\ RStateOK(r, rst[r]) /\ RKnows(r, rst[r], ist)
  BY FactsR
<1>2. /\ rst[r].state = "R1" /\ rst[r].timer = "crypto_failed"
      /\ rst[r].spii \in Attempts /\ ist[rst[r].spii].state # "none"
  BY <1>1 DEF RStateOK, RKnows
<1>3. /\ Resumed(r) \in RRec /\ Resumed(r).state = "R1" /\ Resumed(r).work = "none"
      /\ Resumed(r).timer = "crypto_failed" /\ Resumed(r).spii = rst[r].spii
      /\ Resumed(r).ni = rst[r].ni /\ Resumed(r).tpacket = rst[r].tpacket
  BY <1>1, <1>2, PacketType, Zenon DEF Resumed, RRec
<1>. QED
  BY <1>1, <1>2, <1>3, Zenon

\* A request that could not be decrypted, or whose sender is not accepted
LEMMA NotAcceptedStep ==
  ASSUME InitialInv, NEW r \in Replies, rst[r].work = "dh", ist' = ist,
         NotDecrypted(r) \/ IdRefused(r) \/ AuthRefused(r)
  PROVE  InitialInv'
<1>. DEFINE st == Resumed(r)
            new == [st EXCEPT !.timer = "responder_timeout"]
<1>1. /\ rst[r].state = "R1" /\ rst[r].timer = "crypto_failed"
      /\ rst[r].spii \in Attempts /\ ist[rst[r].spii].state # "none"
      /\ RStateOK(r, rst[r])
      /\ st \in RRec /\ st.state = "R1" /\ st.work = "none"
      /\ st.timer = "crypto_failed" /\ st.spii = rst[r].spii
      /\ st.ni = rst[r].ni /\ st.tpacket = rst[r].tpacket
  BY ResumedOK, Zenon
<1>2. net' = net
  BY DEF NotDecrypted, IdRefused, AuthRefused
<1>3. CASE delete_rstate(r)
  BY <1>1, <1>2, <1>3, DeletedR, Zenon
<1>. HIDE DEF st
<1>4. RStateOK(r, st) /\ RKnows(r, st, ist)
  BY <1>1, Zenon DEF RStateOK, RKnows
<1>5. CASE rst' = [rst EXCEPT ![r] = st] /\ half' = half
  BY <1>1, <1>2, <1>4, <1>5, StayR1, Zenon
<1>6. CASE rst' = [rst EXCEPT ![r] = new] /\ half' = half
  <2>1. /\ new \in RRec /\ new.state = "R1" /\ new.work = "none"
        /\ new.timer = "responder_timeout" /\ new.spii = st.spii
        /\ new.ni = st.ni /\ new.tpacket = st.tpacket
    BY <1>1 DEF RRec
  <2>. HIDE DEF new
  <2>2. RStateOK(r, new) /\ RKnows(r, new, ist)
    BY <1>1, <2>1, Zenon DEF RStateOK, RKnows
  <2>. QED
    BY <1>1, <1>2, <1>6, <2>1, <2>2, StayR1, Zenon
<1>. QED
  BY <1>3, <1>5, <1>6 DEF NotDecrypted, IdRefused, AuthRefused, st

\* The request is accepted: R has the keys of the attempt that sent it.
LEMMA ForcedStep ==
  ASSUME InitialInv, NEW r \in Replies, rst[r].work = "dh", ist' = ist, Decrypts(r),
         NEW t \in {"replace", "responder_timeout"}, NEW p, ForcedR2(r, t, p),
         \/ p = rst[r].tpacket
         \/ p = Auth("R2", rst[r].spii, r, rst[r].ni, r) /\ t = "replace",
         \A q \in net' : q \in net \/ (q = p /\ p # rst[r].tpacket)
  PROVE  InitialInv'
<1>. DEFINE st == Resumed(r)
            new == [st EXCEPT !.state = "R2", !.timer = t, !.tpacket = p]
            a == rst[r].spii
<1>1. /\ rst[r].state = "R1" /\ a \in Attempts /\ ist[a].state # "none"
      /\ RStateOK(r, rst[r]) /\ RKnows(r, rst[r], ist)
      /\ st \in RRec /\ st.work = "none" /\ st.spii = a
      /\ st.ni = rst[r].ni /\ st.tpacket = rst[r].tpacket
  BY ResumedOK, Zenon
<1>2. /\ rst' = [rst EXCEPT ![r] = new]
      /\ half' = [half EXCEPT !.R = change_state(half.R, "R1", "R2")]
  BY DEF ForcedR2
<1>3. rst \in [Replies -> RRec] /\ rst[r].ni \in Nat /\ r \in 0 .. MaxR /\ r \in Nat
  BY FactsR, Bounds DEF RRec, Replies
<1>4. Auth("R2", a, r, rst[r].ni, r) \in Packets
  BY <1>1, <1>3, PacketType DEF Types
<1>5. p \in Packets
  BY <1>1, <1>4 DEF RRec
<1>. HIDE DEF st
<1>6. /\ new \in RRec /\ new.state = "R2" /\ new.timer = t /\ new.work = "none"
      /\ new.spii = a /\ new.ni = rst[r].ni /\ new.tpacket = p
  BY <1>1, <1>5, Zenon DEF RRec, RStates
<1>. HIDE DEF new
<1>7. RStateOK(r, new)
  <2>1. \/ p = NoPacket
        \/ p = R1(a, r)
        \/ p = Auth("R2", a, r, rst[r].ni, r) /\ t = "replace"
    BY <1>1, Zenon DEF RStateOK
  <2>. QED
    BY <1>1, <1>6, <2>1, Zenon DEF RStateOK
<1>8. RKnows(r, new, ist)
  <2>1. Knows(ist, a, r, rst[r].ni, r)
    BY <1>1, Zenon DEF RKnows, Decrypts
  <2>. QED
    BY <1>1, <1>6, <2>1, Zenon DEF RKnows
<1>9. rst'[r] = new
  BY <1>2, <1>3
<1>10. \A q \in net' : q \in net \/ PacketOK(q, ist, rst')
  <2>1. ASSUME p = Auth("R2", a, r, rst[r].ni, r), t = "replace"
        PROVE  PacketOK(p, ist, rst')
    <3>1. Stays(rst', a, r, rst[r].ni, r)
      BY <1>6, <1>9, <2>1 DEF Stays
    <3>. QED
      BY <1>1, <1>3, <2>1, <3>1, R2OK
  <2>. QED
    BY <2>1
<1>. QED
  BY <1>1, <1>2, <1>6, <1>7, <1>8, <1>10, ChangeR1, Zenon

\* ikev2_parent_inI2outR2_continue and complete_v2_state_transition
LEMMA InI2ContinueStep ==
  ASSUME InitialInv, NEW r \in Replies, inI2outR2_continue(r)
  PROVE  InitialInv'
<1>1. rst[r].work = "dh" /\ ist' = ist
  BY DEF inI2outR2_continue
<1>2. CASE NotDecrypted(r) \/ IdRefused(r) \/ AuthRefused(r)
  BY <1>1, <1>2, NotAcceptedStep
<1>3. CASE ChildRefused(r)
  <2>1. Decrypts(r) /\ net' = net
    BY <1>3 DEF ChildRefused
  <2>2. PICK t \in {"replace", "responder_timeout"} : ForcedR2(r, t, rst[r].tpacket)
    BY <1>3 DEF ChildRefused
  <2>. QED
    BY <1>1, <2>1, <2>2, ForcedStep
<1>4. CASE SetUp(r)
  <2>. DEFINE m == Auth("R2", rst[r].spii, r, rst[r].ni, r)
  <2>1. Decrypts(r) /\ ForcedR2(r, "replace", m) /\ net' = net \cup {m}
    BY <1>4 DEF SetUp, Send
  <2>2. m # rst[r].tpacket
    <3>1. RStateOK(r, rst[r]) /\ rst[r].state = "R1"
      BY <1>1, ResumedOK
    <3>2. m.type = "R2" /\ NoPacket.type = "none" /\ R1(rst[r].spii, r).type = "R1"
      BY DEF Auth, NoPacket, R1, Packet
    <3>. QED
      BY <3>1, <3>2 DEF RStateOK
  <2>. HIDE DEF m
  <2>3. \A q \in net' : q \in net \/ (q = m /\ m # rst[r].tpacket)
    BY <2>1, <2>2
  <2>4. m = Auth("R2", rst[r].spii, r, rst[r].ni, r)
    BY DEF m
  <2>. QED
    BY <1>1, <2>1, <2>3, <2>4, ForcedStep
<1>. QED
  BY <1>2, <1>3, <1>4 DEF inI2outR2_continue

\* EVENT_SO_DISCARD, EVENT_CRYPTO_FAILED, EVENT_v2_RESPONDER_TIMEOUT
LEMMA RExpiresStep ==
  ASSUME InitialInv, NEW r \in Replies, RExpires(r)
  PROVE  InitialInv'
<1>1. /\ rst[r].timer \in {"discard", "crypto_failed", "responder_timeout"}
      /\ delete_rstate(r) /\ ist' = ist /\ net' = net
  BY DEF RExpires
<1>2. RStateOK(r, rst[r])
  BY FactsR
<1>3. rst[r].state \notin {"none", "gone"} /\ rst[r].timer # "replace"
  BY <1>1, <1>2 DEF RStateOK
<1>. QED
  BY <1>1, <1>3, DeletedR

-----------------------------------------------------------------------------
(* The theorems.                                                             *)

\* Before anything is sent, the invariant holds.
LEMMA InitInv == Init => InitialInv
<1>. SUFFICES ASSUME Init PROVE InitialInv
  OBVIOUS
<1>1. /\ ist = [a \in Attempts |-> NoI] /\ rst = [r \in Replies |-> NoR]
      /\ half = [I |-> 0, R |-> 0] /\ net = {}
  BY DEF Init
<1>2. /\ NoI \in IRec /\ NoI.state = "none" /\ NoI.timer = "none" /\ NoI.work = "none"
      /\ NoR \in RRec /\ NoR.state = "none" /\ NoR.timer = "none" /\ NoR.work = "none"
      /\ NoR.tpacket = NoPacket
  BY NoneType DEF NoI, NoR
<1>3. /\ \A a \in Attempts : IStateOK(a, NoI) /\ IKnows(a, NoI, rst)
      /\ \A r \in Replies : RStateOK(r, NoR) /\ RKnows(r, NoR, ist)
  BY <1>2, Zenon DEF IStateOK, IKnows, RStateOK, RKnows
<1>4. /\ ist \in [Attempts -> IRec] /\ \A a \in Attempts : ist[a] = NoI
      /\ rst \in [Replies -> RRec] /\ \A r \in Replies : rst[r] = NoR
  BY <1>1, <1>2
<1>5. UsedI(ist) = {} /\ UsedR(rst) = {} /\ HalfI(ist) = {} /\ HalfR(rst) = {}
  BY <1>2, <1>4 DEF UsedI, UsedR, HalfI, HalfR
<1>6. Cardinality({}) = 0
  BY FS_EmptySet
<1>7. InTurnI(ist) /\ InTurnR(rst)
  BY <1>2, <1>4, <1>5, <1>6, Bounds DEF InTurnI, InTurnR, Attempts, Replies
<1>8. half \in [I : Int, R : Int] /\ half.I = 0 /\ half.R = 0 /\ 0 <= MaxHalfopen
  BY <1>1, Bounds
<1>9. Sound(ist, rst, net, half.I, half.R)
  BY <1>1, <1>3, <1>4, <1>5, <1>6, <1>7, <1>8, Zenon DEF Sound
<1>. QED
  BY <1>8, <1>9 DEF InitialInv

\* Every step preserves it.
LEMMA NextInv == InitialInv /\ [Next]_vars => InitialInv'
<1>. SUFFICES ASSUME InitialInv, [Next]_vars PROVE InitialInv'
  OBVIOUS
<1>1. ASSUME NEW oe \in Oppo, Initiate(oe) PROVE InitialInv'
  BY <1>1, InitiateStep
<1>2. ASSUME NEW m \in net, Arrives(m) PROVE InitialInv'
  <2>1. CASE \/ InitReplyDiscarded(m) \/ inR1BoutI1B_cookie(m)
             \/ inR1BoutI1B_invalid_ke(m) \/ inR1outI2(m) \/ inR2(m)
    BY <2>1, DiscardedStep, CookieStep, InvalidKeStep, InR1Step, InR2Step
  <2>2. CASE \/ I1_repeated(m) \/ I1_refused(m) \/ I1_wrong_group(m) \/ inI1outR1(m)
             \/ I2_discarded(m) \/ inI2outR2(m)
    BY <2>2, RepeatedStep, RefusedStep, WrongGroupStep, InI1Step, I2DiscardedStep,
       InI2Step
  <2>. QED
    BY <1>2, <2>1, <2>2 DEF Arrives
<1>3. CASE Answer
  BY <1>3, OutI1ContinueStep, InR1ContinueStep, InI1ContinueStep, InI2ContinueStep
     DEF Answer
<1>4. ASSUME NEW a \in Attempts, ITimer(a) PROVE InitialInv'
  BY <1>4, RetransmitStep, IExpiresStep DEF ITimer
<1>5. ASSUME NEW r \in Replies, RExpires(r) PROVE InitialInv'
  BY <1>5, RExpiresStep
<1>6. CASE Crossed
  BY <1>6, QuietStep DEF Crossed
<1>7. ASSUME NEW m \in Modes, SetMode(m) PROVE InitialInv'
  BY <1>7, QuietStep DEF SetMode
<1>8. CASE UNCHANGED vars
  BY <1>8, QuietStep DEF vars
<1>. QED
  BY <1>1, <1>2, <1>3, <1>4, <1>5, <1>6, <1>7, <1>8 DEF Next

\* InitialInv holds in every state that I and R reach together.
THEOREM InitialInvHolds == Spec => []InitialInv
BY InitInv, NextInv, PTL DEF Spec

\* The count of half-open states is exact, an attempt has at most one of them
\* at R, and R never has more than pluto_max_halfopen, for every number of
\* attempts and packets and all limits (update_state_stats in state.c,
\* ikev2_find_state_in_init, drop_new_exchanges).
THEOREM HalfOpenSoundHolds == Spec => []HalfOpenSound
<1>1. InitialInv => HalfOpenSound
  <2>. SUFFICES ASSUME InitialInv PROVE HalfOpenSound
    OBVIOUS
  <2>1. /\ half.I = Cardinality(HalfI(ist)) /\ half.R = Cardinality(HalfR(rst))
        /\ \A r, s \in HalfR(rst) : rst[r].spii = rst[s].spii => r = s
        /\ half.R <= MaxHalfopen
    BY DEF InitialInv, Sound
  <2>2. HalfOpenExact
    BY <2>1 DEF HalfOpenExact, HalfI, HalfR
  <2>3. HalfOpenBounded
    BY <2>1 DEF HalfOpenBounded, HalfR
  <2>. QED
    BY <2>2, <2>3 DEF HalfOpenSound
<1>. QED
  BY <1>1, InitialInvHolds, PTL

\* An IKE SA that I has established is established at R, with the same SPIs
\* and keys, and one that R has established is awaited by I with those keys or
\* given up, however packets are lost, repeated and overtaken (ikev2parent_inR2,
\* ikev2_parent_inI2outR2_continue).
THEOREM EstablishedAgreeHolds == Spec => []EstablishedAgree
<1>1. InitialInv => EstablishedAgree
  <2>. SUFFICES ASSUME InitialInv PROVE EstablishedAgree
    OBVIOUS
  <2>1. /\ \A a \in Attempts : IKnows(a, ist[a], rst)
        /\ \A r \in Replies : RKnows(r, rst[r], ist)
    BY FactsI, FactsR
  <2>. QED
    BY <2>1 DEF EstablishedAgree, IKnows, RKnows, Stays, Knows
<1>. QED
  BY <1>1, InitialInvHolds, PTL

\* Every state has a timer, and a suspended one the timer that ends the wait
\* for the helper, in whatever order helpers, packets and timers come
\* (event_schedule and delete_event in timer.c).
THEOREM SomebodyInChargeHolds == Spec => []SomebodyInCharge
<1>1. InitialInv => SomebodyInCharge
  <2>. SUFFICES ASSUME InitialInv PROVE SomebodyInCharge
    OBVIOUS
  <2>1. ASSUME NEW a \in Attempts
        PROVE  /\ ist[a].state \in Live => ist[a].timer # "none"
               /\ ist[a].work # "none" => ist[a].timer = "crypto_failed"
    <3>1. IStateOK(a, ist[a]) /\ ist[a].state \in IStates
      BY FactsI DEF IRec
    <3>. QED
      BY <3>1 DEF IStateOK, IStates, Live
  <2>2. ASSUME NEW r \in Replies
        PROVE  /\ rst[r].state \in Live => rst[r].timer # "none"
               /\ rst[r].work # "none" => rst[r].timer = "crypto_failed"
    <3>1. RStateOK(r, rst[r]) /\ rst[r].state \in RStates
      BY FactsR DEF RRec
    <3>. QED
      BY <3>1 DEF RStateOK, RStates, Live
  <2>. QED
    BY <2>1, <2>2 DEF SomebodyInCharge
<1>. QED
  BY <1>1, InitialInvHolds, PTL
=============================================================================
