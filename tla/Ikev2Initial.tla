---------------------------- MODULE Ikev2Initial ----------------------------
(* The initial exchanges of IKEv2, IKE_SA_INIT and IKE_AUTH, between an      *)
(* initiator I and a responder R that both run pluto: ikev2_parent.c, the    *)
(* part of ikev2.c that finds the state of a packet and completes a          *)
(* transition, the timers of timer.c, and the count of half-open states in   *)
(* state.c that decides whether R asks for a cookie or drops a request.      *)
(*                                                                           *)
(* An attempt of I is named by its initiator SPI, a state of R by its        *)
(* responder SPI: both are drawn in order, 0 is the zero cookie.  The        *)
(* IPsec child that IKE_AUTH sets up is part of its IKE SA here.             *)
EXTENDS Integers, FiniteSets

CONSTANTS
  KeyingTries,  \* sa_keying_tries: attempts of I
  MaxR,         \* bound on the states that R creates
  MaxRetrans,   \* retransmissions before retrans_delay returns zero
  MaxInvalidKe, \* MAXIMUM_INVALID_KE_RETRANS
  Groups,       \* the DH groups in the proposals of I
  FirstGroup,   \* ikev2_proposals_first_modp of I
  RGroup,       \* the group of the proposal that R accepts
  Threshold,    \* pluto_ddos_threshold
  MaxHalfopen,  \* pluto_max_halfopen
  Modes,        \* the values whack gives pluto_ddos_mode
  Oppo,         \* whether the connection is opportunistic: a set of Booleans
  MayOverload,  \* may the crypto helpers be overloaded?
  MayReject,    \* may R reject the peer's AUTH or its child proposal?
  MaxDup,       \* bound on the packets that the network delivers twice
  Patient       \* do timers wait until packets and helpers are done?

ASSUME InitialAssumption ==
  /\ {KeyingTries, MaxR} \subseteq Nat \ {0}
  /\ {MaxRetrans, MaxInvalidKe, Threshold, MaxHalfopen, MaxDup} \subseteq Nat
  /\ {FirstGroup, RGroup} \subseteq Groups
  /\ Modes \subseteq {"auto", "busy", "unlimited"} /\ Modes # {}
  /\ Oppo \subseteq BOOLEAN
  /\ {MayOverload, MayReject, Patient} \subseteq BOOLEAN

VARIABLES
  ist,     \* the attempts of I
  rst,     \* the states of R
  half,    \* category.half_open_ike.count of both daemons
  ddos,    \* pluto_ddos_mode of R
  newest,  \* attempts of I up to this one are older than its newest_ipsec_sa
  net,     \* packets on their way
  dups     \* packets delivered twice so far

vars == <<ist, rst, half, ddos, newest, net, dups>>

Attempts == 1..KeyingTries
Replies == 1..MaxR

-----------------------------------------------------------------------------
(* Packets.  A nonce and its KE value are drawn together: both are named by  *)
(* the number of the draw within the attempt.  R draws once per state, so    *)
(* its KE is named by its SPI.  A cookie is a hash of the nonce and the SPI  *)
(* of I: the nonce stands for it, 0 for none.  Keys are those two draws.     *)

Packet(type, i, r, ni, gr, group, cookie) ==
  [type |-> type, spii |-> i, spir |-> r, ni |-> ni, gr |-> gr,
   group |-> group, cookie |-> cookie]

NoPacket == Packet("none", 0, 0, 0, 0, FirstGroup, 0)
I1(i, ni, group, cookie) == Packet("I1", i, 0, ni, 0, group, cookie)
Notify(type, i, cookie) == Packet(type, i, 0, 0, 0, RGroup, cookie)
R1(i, r) == Packet("R1", i, r, 0, r, RGroup, 0)
Auth(type, i, r, ni, gr) == Packet(type, i, r, ni, gr, RGroup, 0)

\* The network delivers m, and may keep a copy of it.
Deliver(m, sent) ==
  /\ m \in net
  /\ \/ net' = (net \ {m}) \cup sent /\ UNCHANGED dups
     \/ dups < MaxDup /\ dups' = dups + 1 /\ net' = net \cup sent

Send(sent) == net' = net \cup sent /\ UNCHANGED dups

-----------------------------------------------------------------------------
(* States, their timer and their count.                                      *)

NoI == [state |-> "none", oe |-> FALSE, rcookie |-> 0, group |-> FirstGroup,
        ni |-> 0, dcookie |-> 0, gr |-> 0, work |-> "none", timer |-> "none",
        retransmit |-> 0, tpacket |-> NoPacket]
NoR == [state |-> "none", oe |-> FALSE, spii |-> 0, ni |-> 0, work |-> "none",
        i2 |-> NoPacket, timer |-> "none", tpacket |-> NoPacket]

HalfOpen == {"I1", "R1"}
Live == {"I1", "I2", "I3", "R1", "R2"}

\* change_state: the counter follows the category of the state
change_state(n, old, new) ==
  n - (IF old \in HalfOpen THEN 1 ELSE 0) + (IF new \in HalfOpen THEN 1 ELSE 0)

Gone(st) == [st EXCEPT !.state = "gone", !.work = "none", !.timer = "none"]

delete_istate(a) ==
  /\ ist' = [ist EXCEPT ![a] = Gone(@)]
  /\ half' = [half EXCEPT !.I = change_state(@, ist[a].state, "gone")]

\* mutant: the state is freed without leaving its category
delete_rstate_uncounted(r) ==
  rst' = [rst EXCEPT ![r] = Gone(@)] /\ UNCHANGED half

delete_rstate(r) ==
  /\ rst' = [rst EXCEPT ![r] = Gone(@)]
  /\ half' = [half EXCEPT !.R = change_state(@, rst[r].state, "gone")]

require_ddos_cookies(n) == ddos = "busy" \/ (ddos = "auto" /\ n >= Threshold)

drop_new_exchanges(n) == n >= MaxHalfopen

\* mutant: the timer is deleted before the helpers turn out to be too busy
Started_deletes(st, work) ==
  {[st EXCEPT !.work = work, !.timer = "crypto_failed"]}
    \cup (IF MayOverload THEN {[st EXCEPT !.timer = "none"]} ELSE {})

\* send_crypto_helper_request: suspended until the helper answers, or too busy
Started(st, work) ==
  {[st EXCEPT !.work = work, !.timer = "crypto_failed"]}
    \cup (IF MayOverload THEN {st} ELSE {})

\* Timers fire before an answer arrives unless they are patient.
Late == Patient =>
  /\ net = {}
  /\ \A a \in Attempts : ist[a].work = "none"
  /\ \A r \in Replies : rst[r].work = "none"

-----------------------------------------------------------------------------
(* The initiator.                                                            *)

\* The attempts of I, and its count, after ikev2parent_outI1: insert_state
\* schedules EVENT_SO_DISCARD until the crypto request replaces it.
ikev2parent_outI1(sts, n, oe) ==
  LET a == Cardinality({b \in Attempts : sts[b].state # "none"}) + 1
      new == [NoI EXCEPT !.state = "I1", !.oe = oe, !.timer = "discard"]
  IN IF drop_new_exchanges(n) /\ oe THEN {[sts |-> sts, n |-> n]}
     ELSE {[sts |-> [sts EXCEPT ![a] = st], n |-> change_state(n, "none", "I1")]
             : st \in Started(new, "ke")}

\* ipsec auto --up
Initiate(oe) ==
  /\ \A a \in Attempts : ist[a].state = "none"
  /\ \E o \in ikev2parent_outI1(ist, half.I, oe) :
       ist' = o.sts /\ half' = [half EXCEPT !.I = o.n]
  /\ UNCHANGED <<rst, ddos, newest, net, dups>>

\* ikev2_parent_outI1_common and success_v2_state_transition
SendI1(a, st) ==
  LET m == I1(a, st.ni, st.group, st.dcookie) IN
  [st EXCEPT !.tpacket = m, !.timer = "retransmit"]

\* ikev2_crypto_continue and ikev2_parent_outI1_tail
outI1_continue(a) ==
  /\ ist[a].work = "ke"
  /\ LET st == SendI1(a, [ist[a] EXCEPT !.work = "none", !.ni = @ + 1]) IN
       /\ ist' = [ist EXCEPT ![a] = st]
       /\ Send({st.tpacket})
  /\ UNCHANGED <<rst, half, ddos, newest>>

need_this_intiator(a) == ist[a].state = "I1" /\ a <= newest

\* rehash_state: the responder's SPI, and a timer if there is none
rehash_state(st, r) ==
  [st EXCEPT !.rcookie = r, !.timer = IF @ = "none" THEN "discard" ELSE @]

\* The state of I that an IKE_SA_INIT reply finds, the reply's SPI recorded
Found(m) == rehash_state(ist[m.spii], m.spir)
InitReply(m) == m.type \in {"COOKIE", "INVALID_KE", "NO_PROPOSAL", "R1"}

\* No state in I1, or one that is busy: only the SPI is recorded.
InitReplyDiscarded(m) ==
  /\ InitReply(m)
  /\ \/ ist[m.spii].state # "I1" /\ UNCHANGED ist
     \/ /\ ist[m.spii].state = "I1"
        /\ ist[m.spii].work # "none" \/ m.type = "NO_PROPOSAL"
        /\ ist' = [ist EXCEPT ![m.spii] = Found(m)]
  /\ Deliver(m, {})
  /\ UNCHANGED <<rst, half, ddos, newest>>

Ready(m) == ist[m.spii].state = "I1" /\ ist[m.spii].work = "none"

\* ikev2parent_inR1BoutI1B, N(COOKIE)
inR1BoutI1B_cookie(m) ==
  /\ m.type = "COOKIE" /\ Ready(m)
  /\ LET st == SendI1(m.spii, [Found(m) EXCEPT !.dcookie = m.cookie]) IN
       /\ ist' = [ist EXCEPT ![m.spii] = st]
       /\ Deliver(m, {st.tpacket})
  /\ UNCHANGED <<rst, half, ddos, newest>>

\* ikev2parent_inR1BoutI1B, N(INVALID_KE): a few times start over with the
\* group that was suggested
inR1BoutI1B_invalid_ke(m) ==
  /\ m.type = "INVALID_KE" /\ Ready(m)
  /\ LET st == Found(m)
         counted == [st EXCEPT !.retransmit = @ + 1]
         restart == rehash_state([counted EXCEPT !.group = m.group], 0)
     IN \E new \in IF st.retransmit >= MaxInvalidKe THEN {st}
                   ELSE Started(restart, "ke") :
          ist' = [ist EXCEPT ![m.spii] = new]
  /\ Deliver(m, {})
  /\ UNCHANGED <<rst, half, ddos, newest>>

\* ikev2parent_inR1outI2: superseded, or compute the keys
inR1outI2(m) ==
  /\ m.type = "R1" /\ Ready(m)
  /\ \/ need_this_intiator(m.spii) /\ delete_istate(m.spii)
     \/ /\ ~need_this_intiator(m.spii)
        /\ \E st \in Started([Found(m) EXCEPT !.gr = m.gr], "dh") :
             ist' = [ist EXCEPT ![m.spii] = st]
        /\ UNCHANGED half
  /\ Deliver(m, {})
  /\ UNCHANGED <<rst, ddos, newest>>

\* ikev2_parent_inR1outI2_continue and its tail: the parent is forced to I2
inR1outI2_continue(a) ==
  /\ ist[a].work = "dh"
  /\ LET st == ist[a]
         m == Auth("I2", a, st.rcookie, st.ni, st.gr)
     IN /\ ist' = [ist EXCEPT ![a] = [st EXCEPT !.state = "I2", !.work = "none",
                                       !.timer = "retransmit", !.tpacket = m]]
        /\ half' = [half EXCEPT !.I = change_state(@, st.state, "I2")]
        /\ Send({m})
  /\ UNCHANGED <<rst, ddos, newest>>

\* An IKE_AUTH reply must find the SPIs and decrypt with the keys.
Expected(m) ==
  LET st == ist[m.spii] IN
    st.state = "I2" /\ m.spir = st.rcookie /\ m.ni = st.ni /\ m.gr = st.gr

\* ikev2_process_ts_and_rest and success_v2_state_transition
Established(a) ==
  /\ ist' = [ist EXCEPT ![a].state = "I3", ![a].timer = "replace"]
  /\ newest' = a

\* ikev2parent_inR2
inR2(m) ==
  /\ m.type = "R2"
  /\ \/ Expected(m) /\ Established(m.spii)
     \/ ~Expected(m) /\ UNCHANGED <<ist, newest>>
  /\ Deliver(m, {})
  /\ UNCHANGED <<rst, half, ddos>>

\* retrans_delay is not zero: there is a retransmission left
retrans_delay(st) == st.retransmit < MaxRetrans

\* ipsecdoi_replace while there are attempts left
ipsecdoi_replace(a) ==
  IF a < KeyingTries THEN ikev2parent_outI1(ist, half.I, ist[a].oe)
  ELSE {[sts |-> ist, n |-> half.I]}

\* retransmit_v2_msg: superseded, send again, or give up and start over
retransmit_v2_msg(a) ==
  /\ ist[a].timer = "retransmit" /\ Late
  /\ \/ need_this_intiator(a) /\ delete_istate(a) /\ UNCHANGED <<net, dups>>
     \/ /\ ~need_this_intiator(a) /\ retrans_delay(ist[a])
        /\ ist' = [ist EXCEPT ![a].retransmit = @ + 1]
        /\ Send({ist[a].tpacket})
        /\ UNCHANGED half
     \/ /\ ~need_this_intiator(a) /\ ~retrans_delay(ist[a])
        /\ \E o \in ipsecdoi_replace(a) :
             /\ ist' = [o.sts EXCEPT ![a] = Gone(@)]
             /\ half' = [half EXCEPT !.I = change_state(o.n, ist[a].state, "gone")]
        /\ UNCHANGED <<net, dups>>
  /\ UNCHANGED <<rst, ddos, newest>>

\* EVENT_SO_DISCARD, EVENT_CRYPTO_FAILED, and the life of a half-open parent
\* (the timer of the parent in I2; its child has the one in the record)
IExpires(a) ==
  /\ ist[a].timer \in {"discard", "crypto_failed"} \/ ist[a].state = "I2"
  /\ Late
  /\ delete_istate(a)
  /\ UNCHANGED <<rst, ddos, newest, net, dups>>

\* An exchange that the peer began established an SA of the connection.
Crossed ==
  /\ \E a \in Attempts : ist[a].state = "I1" /\ a > newest
  /\ newest' = Cardinality({a \in Attempts : ist[a].state # "none"})
  /\ UNCHANGED <<ist, rst, half, ddos, net, dups>>

-----------------------------------------------------------------------------
(* The responder.                                                            *)

\* ikev2_find_state_in_init: the states in R1 with this SPI of I
InInit(i) == {r \in Replies : rst[r].state = "R1" /\ rst[r].spii = i}
NextR == Cardinality({r \in Replies : rst[r].state # "none"}) + 1

\* A repeated request is answered with the packet sent last, if there is one.
I1_repeated(m) ==
  /\ m.type = "I1" /\ InInit(m.spii) # {}
  /\ \E r \in InInit(m.spii) :
       Deliver(m, IF rst[r].work = "none" THEN {rst[r].tpacket} \ {NoPacket}
                  ELSE {})
  /\ UNCHANGED <<ist, rst, half, ddos, newest>>

\* ikev2parent_inI1outR1 returns before it looks at the proposal: overloaded,
\* a cookie is asked for, or the cookie is not ours
I1_refused(m) ==
  /\ m.type = "I1" /\ InInit(m.spii) = {}
  /\ \/ drop_new_exchanges(half.R) /\ Deliver(m, {})
     \/ /\ ~drop_new_exchanges(half.R)
        /\ m.cookie = 0 /\ require_ddos_cookies(half.R)
        /\ Deliver(m, {Notify("COOKIE", m.spii, m.ni)})
     \/ /\ ~drop_new_exchanges(half.R)
        /\ m.cookie \notin {0, m.ni}
        /\ Deliver(m, {})
  /\ UNCHANGED <<ist, rst, half, ddos, newest>>

\* mutant: a repeated request is not looked for
Admitted_again(m) ==
  /\ m.type = "I1" /\ ~drop_new_exchanges(half.R)
  /\ m.cookie = m.ni \/ (m.cookie = 0 /\ ~require_ddos_cookies(half.R))

Admitted(m) ==
  /\ m.type = "I1" /\ InInit(m.spii) = {}
  /\ ~drop_new_exchanges(half.R)
  /\ m.cookie = m.ni \/ (m.cookie = 0 /\ ~require_ddos_cookies(half.R))

\* ike2_match_ke_group_and_prop: two notifications and no state
I1_wrong_group(m) ==
  /\ Admitted(m) /\ m.group # RGroup
  /\ Deliver(m, {Notify("INVALID_KE", m.spii, 0),
                 Notify("NO_PROPOSAL", m.spii, 0)})
  /\ UNCHANGED <<ist, rst, half, ddos, newest>>

\* The rest of ikev2parent_inI1outR1: a state, and its KE is computed.  The
\* connection that R has for the peer is of the same kind as that of I.
inI1outR1(m) ==
  /\ Admitted(m) /\ m.group = RGroup /\ NextR <= MaxR
  /\ LET new == [NoR EXCEPT !.state = "R1", !.oe = ist[m.spii].oe,
                      !.spii = m.spii, !.ni = m.ni, !.timer = "discard"]
     IN \E st \in Started(new, "ke") : rst' = [rst EXCEPT ![NextR] = st]
  /\ half' = [half EXCEPT !.R = change_state(@, "none", "R1")]
  /\ Deliver(m, {})
  /\ UNCHANGED <<ist, ddos, newest>>

\* ikev2_parent_inI1outR1_continue and its tail
inI1outR1_continue(r) ==
  /\ rst[r].work = "ke"
  /\ rst' = [rst EXCEPT ![r].work = "none", ![r].timer = "responder_timeout",
                        ![r].tpacket = R1(rst[r].spii, r)]
  /\ Send({R1(rst[r].spii, r)})
  /\ UNCHANGED <<ist, half, ddos, newest>>

\* find_state_ikev2_parent
FindsR(m) == m.spir \in Replies /\ rst[m.spir].state \in Live
                                /\ rst[m.spir].spii = m.spii

\* IKE_AUTH requests that find no state, a busy one, or one that has answered
I2_discarded(m) ==
  /\ m.type = "I2"
  /\ \/ ~FindsR(m) /\ Deliver(m, {})
     \/ FindsR(m) /\ rst[m.spir].work # "none" /\ Deliver(m, {})
     \/ /\ FindsR(m) /\ rst[m.spir].state = "R2"
        /\ Deliver(m, {p \in {rst[m.spir].tpacket} : p.type = "R2"})
  /\ UNCHANGED <<ist, rst, half, ddos, newest>>

\* ikev2parent_inI2outR2: the keys are computed to decrypt the request
inI2outR2(m) ==
  /\ m.type = "I2" /\ FindsR(m)
  /\ rst[m.spir].state = "R1" /\ rst[m.spir].work = "none"
  /\ \E st \in Started(rst[m.spir], "dh") :
       rst' = [rst EXCEPT ![m.spir] =
                 IF st.work = "dh" THEN [st EXCEPT !.i2 = m] ELSE st]
  /\ Deliver(m, {})
  /\ UNCHANGED <<ist, half, ddos, newest>>

\* mutant: the nonce is not part of the keys
Decrypts_any_nonce(r) == rst[r].i2.gr = r

Decrypts(r) == rst[r].i2.ni = rst[r].ni /\ rst[r].i2.gr = r

\* The state when its keys are computed, and when it is forced to R2
Resumed(r) == [rst[r] EXCEPT !.work = "none", !.i2 = NoPacket]
ForcedR2(r, timer, p) ==
  /\ rst' = [rst EXCEPT ![r] = [Resumed(r) EXCEPT !.state = "R2",
                                 !.timer = timer, !.tpacket = p]]
  /\ half' = [half EXCEPT !.R = change_state(@, "R1", "R2")]

\* Not decrypted: STF_FAIL, the state and its timer stay, but an opportunistic
\* state is deleted
NotDecrypted(r) ==
  /\ ~Decrypts(r)
  /\ \/ rst[r].oe /\ delete_rstate(r)
     \/ ~rst[r].oe /\ rst' = [rst EXCEPT ![r] = Resumed(r)] /\ UNCHANGED half
  /\ UNCHANGED <<net, dups>>

\* ikev2_decode_peer_id_and_certs fails: still in R1, with the responder's timer
IdRefused(r) ==
  /\ Decrypts(r) /\ MayReject /\ ~rst[r].oe
  /\ rst' = [rst EXCEPT ![r] = [Resumed(r) EXCEPT !.timer = "responder_timeout"]]
  /\ UNCHANGED <<half, net, dups>>

\* v2_check_auth fails, or anything before there is a child state of an
\* opportunistic connection: STF_FATAL
AuthRefused(r) ==
  /\ Decrypts(r) /\ MayReject
  /\ delete_rstate(r)
  /\ UNCHANGED <<net, dups>>

\* ikev2_child_sa_respond fails after the parent was forced to R2: no R2 is
\* sent.  The responder's timer, or the deletion, is for the child state if
\* there is one already, else for the parent.
ChildRefused(r) ==
  /\ Decrypts(r) /\ MayReject
  /\ \/ ForcedR2(r, "replace", rst[r].tpacket)
     \/ ~rst[r].oe /\ ForcedR2(r, "responder_timeout", rst[r].tpacket)
  /\ UNCHANGED <<net, dups>>

\* ikev2_parent_inI2outR2_auth_tail
SetUp(r) ==
  /\ Decrypts(r)
  /\ LET m == Auth("R2", rst[r].spii, r, rst[r].ni, r) IN
       ForcedR2(r, "replace", m) /\ Send({m})

\* ikev2_parent_inI2outR2_continue and complete_v2_state_transition
inI2outR2_continue(r) ==
  /\ rst[r].work = "dh"
  /\ \/ NotDecrypted(r) \/ IdRefused(r) \/ AuthRefused(r)
     \/ ChildRefused(r) \/ SetUp(r)
  /\ UNCHANGED <<ist, ddos, newest>>

\* mutant: the responder's timeout is not handled
RExpires_not_timeout(r) ==
  /\ rst[r].timer \in {"discard", "crypto_failed"}
  /\ Late
  /\ delete_rstate(r)
  /\ UNCHANGED <<ist, ddos, newest, net, dups>>

\* EVENT_SO_DISCARD, EVENT_CRYPTO_FAILED, EVENT_v2_RESPONDER_TIMEOUT
RExpires(r) ==
  /\ rst[r].timer \in {"discard", "crypto_failed", "responder_timeout"}
  /\ Late
  /\ delete_rstate(r)
  /\ UNCHANGED <<ist, ddos, newest, net, dups>>

\* whack --ddos-busy, --ddos-auto, --ddos-unlimited
SetMode(m) ==
  /\ ddos # m /\ ddos' = m
  /\ UNCHANGED <<ist, rst, half, newest, net, dups>>

-----------------------------------------------------------------------------
Init ==
  /\ ist = [a \in Attempts |-> NoI]
  /\ rst = [r \in Replies |-> NoR]
  /\ half = [I |-> 0, R |-> 0]
  /\ ddos \in Modes
  /\ newest = 0 /\ net = {} /\ dups = 0

Arrives(m) ==
  \/ InitReplyDiscarded(m) \/ inR1BoutI1B_cookie(m)
  \/ inR1BoutI1B_invalid_ke(m) \/ inR1outI2(m) \/ inR2(m)
  \/ I1_repeated(m) \/ I1_refused(m) \/ I1_wrong_group(m) \/ inI1outR1(m)
  \/ I2_discarded(m) \/ inI2outR2(m)

Answer == \/ \E a \in Attempts : outI1_continue(a) \/ inR1outI2_continue(a)
          \/ \E r \in Replies : inI1outR1_continue(r) \/ inI2outR2_continue(r)

ITimer(a) == retransmit_v2_msg(a) \/ IExpires(a)

Next ==
  \/ \E oe \in Oppo : Initiate(oe)
  \/ \E m \in net : Arrives(m)
  \/ Answer
  \/ \E a \in Attempts : ITimer(a)
  \/ \E r \in Replies : RExpires(r)
  \/ Crossed
  \/ \E m \in Modes : SetMode(m)

\* Helpers answer and the event loop runs the timers that are due.
Timers == /\ WF_vars(Answer)
          /\ \A a \in Attempts : WF_vars(ITimer(a))
          /\ \A r \in Replies : WF_vars(RExpires(r))

Spec == Init /\ [][Next]_vars /\ Timers

\* The connection is brought up, and packets arrive.
ReliableSpec == /\ Spec
                /\ WF_vars(\E oe \in Oppo : Initiate(oe))
                /\ WF_vars(\E m \in net : Arrives(m))

-----------------------------------------------------------------------------
(* Properties.                                                               *)

\* The counter on which cookies and dropping depend (state.c,
\* update_state_stats) is the number of states in I1 or R1, whichever way
\* those states came about and went: replaced, discarded, expired, refused,
\* superseded or forced to I2.
HalfOpenExact ==
  /\ half.I = Cardinality({a \in Attempts : ist[a].state = "I1"})
  /\ half.R = Cardinality({r \in Replies : rst[r].state = "R1"})

\* However often and in whatever order its I1 packets arrive, an attempt has
\* at most one half-open state at R (ikev2_find_state_in_init takes the first
\* it finds), and R never has more of them than pluto_max_halfopen.
HalfOpenBounded ==
  /\ \A r, s \in Replies :
       (rst[r].state = "R1" /\ rst[s].state = "R1" /\ rst[r].spii = rst[s].spii)
         => r = s
  /\ Cardinality({r \in Replies : rst[r].state = "R1"}) <= MaxHalfopen

\* Both: the counter is exact and the states it counts are bounded.
HalfOpenSound == HalfOpenExact /\ HalfOpenBounded

\* When I has established an IKE SA, so has R, under the same pair of SPIs
\* and with the same keys; when R has, then I waits for it with those keys or
\* has given up.  SPIs and nonces may change while a computation is under way.
EstablishedAgree ==
  /\ \A a \in Attempts : ist[a].state = "I3" =>
       LET r == ist[a].rcookie IN
         /\ r \in Replies /\ rst[r].state = "R2"
         /\ rst[r].spii = a /\ rst[r].ni = ist[a].ni /\ ist[a].gr = r
  /\ \A r \in Replies : rst[r].state = "R2" =>
       LET st == ist[rst[r].spii] IN
         /\ st.state \in {"I2", "I3", "gone"}
         /\ st.state # "gone" =>
              st.rcookie = r /\ st.gr = r /\ st.ni = rst[r].ni

\* "Each state object will always have a pending event.  This prevents leaks"
\* (state.h): every state has a timer, also after an overload of the helpers and after
\* an IKE_AUTH request that could not be decrypted; a suspended state has the
\* one that ends the wait for the helper.
SomebodyInCharge ==
  /\ \A a \in Attempts :
       /\ ist[a].state \in Live => ist[a].timer # "none"
       /\ ist[a].work # "none" => ist[a].timer = "crypto_failed"
  /\ \A r \in Replies :
       /\ rst[r].state \in Live => rst[r].timer # "none"
       /\ rst[r].work # "none" => rst[r].timer = "crypto_failed"

\* No state stays half-open: "We cleanup halfopen IKE SAs fast"
\* (ikev2_replace_delay).  Each moves on or its timers delete it.
HalfOpenEnds ==
  /\ \A a \in Attempts : ist[a].state = "I1" ~> ist[a].state # "I1"
  /\ \A r \in Replies : rst[r].state = "R1" ~> rst[r].state # "R1"

\* "east will then create a new state object and continue as normal"
\* (ikev2-dcookie-01): when nothing is lost, repeated or late, the connection
\* gets its IPsec SA although R asks for a cookie.
ComesUp == <>(newest > 0)
=============================================================================
