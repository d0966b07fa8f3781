------------------------------- MODULE Ikev1 -------------------------------
(***************************************************************************)
(* IKEv1 between two pluto daemons (programs/pluto/ikev1.c, ikev1_main.c,  *)
(* ikev1_aggr.c, ikev1_quick.c, ikev1_msgid.c, pending.c, timer.c): Main   *)
(* and Aggressive Mode, the Quick Modes on top of them, the requests that  *)
(* wait for a phase 1, retransmission and give-up, replacement and expiry, *)
(* and Delete notifications.                                               *)
(*                                                                         *)
(* A daemon is one event loop: a packet, a timer or a finished crypto job  *)
(* is handled to its end, and an operator below maps the daemon before to  *)
(* the daemon after, with the packets it sends in the field out.           *)
(***************************************************************************)
EXTENDS Integers, Sequences, FiniteSets, SequencesExt

CONSTANTS Daemons,             \* the two daemons
          Conns,               \* connections between them, same peer IDs
          Configs,             \* scenarios, see conf
          MaxStates,           \* states a daemon creates
          MaxRetransmits,      \* retransmissions retrans_delay allows
          AcceptedDuplicates,  \* MAXIMUM_v1_ACCEPTED_DUPLICATES
          KeyingTries,         \* sa_keying_tries
          NoSt,                \* a deleted state
          NoPkt                \* no packet

VARIABLES conf,     \* the scenario, chosen once: the phase 1 mode, PFS, the
                    \* connections each daemon is told to bring up, the one a
                    \* responder picks, and the numbers of losses, copies,
                    \* refused and slow jobs, early and late timers
          pl,       \* the daemons
          net,      \* packets under way, in no order
          stray,    \* copies of packets, to arrive much later
          spent     \* how many of them there were so far, and what was told

ikev1Vars == <<conf, pl, net, stray, spent>>

Peer(d) == CHOOSE e \in Daemons : e # d
None == <<>>

ISAKMP_SA_ESTABLISHED_STATES == {"MAIN_R3", "MAIN_I4", "AGGR_I2", "AGGR_R2"}
PHASE1_INITIATOR_STATES ==
  {"MAIN_I1", "MAIN_I2", "MAIN_I3", "MAIN_I4", "AGGR_I1", "AGGR_I2"}
IPSEC_SA_ESTABLISHED_STATES == {"QUICK_I2", "QUICK_R1", "QUICK_R2"}

\* The rows of v1_state_microcode_table: the next state, whether it replies, the
\* event it schedules and whether it releases what waits for the phase 1.
Row(next, reply, ev, release) ==
  [next |-> next, reply |-> reply, ev |-> ev, release |-> release]
Microcode ==
  [MAIN_R0  |-> Row("MAIN_R1", TRUE, "REPLACE", FALSE),
   MAIN_I1  |-> Row("MAIN_I2", TRUE, "RETRANSMIT", FALSE),
   MAIN_R1  |-> Row("MAIN_R2", TRUE, "RETRANSMIT", FALSE),
   MAIN_I2  |-> Row("MAIN_I3", TRUE, "RETRANSMIT", FALSE),
   MAIN_R2  |-> Row("MAIN_R3", TRUE, "REPLACE", TRUE),
   MAIN_I3  |-> Row("MAIN_I4", FALSE, "REPLACE", TRUE),
   AGGR_R0  |-> Row("AGGR_R1", TRUE, "REPLACE", FALSE),
   AGGR_I1  |-> Row("AGGR_I2", TRUE, "REPLACE", TRUE),
   AGGR_R1  |-> Row("AGGR_R2", FALSE, "REPLACE", TRUE),
   QUICK_R0 |-> Row("QUICK_R1", TRUE, "RETRANSMIT", FALSE),
   QUICK_I1 |-> Row("QUICK_I2", TRUE, "REPLACE", FALSE),
   QUICK_R1 |-> Row("QUICK_R2", FALSE, "REPLACE", FALSE)]

\* SMF_RETRANSMIT_ON_DUPLICATE
RetransmitOnDuplicate == {"MAIN_R3", "AGGR_I2", "QUICK_I2"}

\* The message a state takes: its exchange and its number in it.
Takes ==
  [MAIN_I1 |-> <<"main", 2>>, MAIN_R1 |-> <<"main", 3>>, MAIN_I2 |-> <<"main", 4>>,
   MAIN_R2 |-> <<"main", 5>>, MAIN_I3 |-> <<"main", 6>>, AGGR_I1 |-> <<"aggr", 2>>,
   AGGR_R1 |-> <<"aggr", 3>>, QUICK_I1 |-> <<"quick", 2>>, QUICK_R1 |-> <<"quick", 3>>]
Encrypted(m) == m.key # None

(***************************************************************************)
(* A state object.  A nonce, and with it a key exchange value and an SPI,  *)
(* is named by the state that draws it, <<daemon, serial>>; so are cookies *)
(* and message IDs.                                                        *)
(*   s      st_state               c       the connection                  *)
(*   ic rc  the cookies            msgid   st_msgid, None in phase 1       *)
(*   p1     st_clonedfrom          peer    the peer's value                *)
(*   key    the phase 1 keys, None until st_skeyid_calculated              *)
(*   try    st_try                                                         *)
(*   calc   st_calculating         job     the crypto job under way        *)
(*   smd    st_suspended_md        rpkt tpkt  last received and sent       *)
(*   ev     the event scheduled    nret    st_retransmit                   *)
(*   used   st_used_msgids         reserved   st_msgid_reserved            *)
(***************************************************************************)
State0 ==
  [s |-> "UNDEFINED", c |-> None, ic |-> None, rc |-> None, msgid |-> None, p1 |-> 0,
   peer |-> None, key |-> None, try |-> 0, calc |-> FALSE,
   job |-> "none", smd |-> NoPkt, rpkt |-> NoPkt, tpkt |-> NoPkt, ev |-> "DISCARD",
   nret |-> 0, used |-> {}, reserved |-> FALSE]

\* A daemon: its states by serial number, pending (a sequence of waiting
\* requests), the connections with POLICY_UP, newest_isakmp_sa and
\* newest_ipsec_sa of each connection, and the history of what was established:
\* phase 1 SAs, inbound and outbound keys.
Daemon0 ==
  [st |-> <<>>, pending |-> <<>>, up |-> {},
   newestIsakmp |-> [c \in Conns |-> 0], newestIpsec |-> [c \in Conns |-> 0],
   done |-> {}, out |-> {}]

Live(D) == {n \in DOMAIN D.st : D.st[n] # NoSt}
Skeyid(r, my) == <<r.ic, r.rc, {my, r.peer}>>
Packet(d, x, k, r, val, key, c) ==
  [to |-> Peer(d), x |-> x, k |-> k, ic |-> r.ic, rc |-> r.rc, msgid |-> r.msgid,
   val |-> val, key |-> key, c |-> c]
Emit(D, m) == IF m = NoPkt THEN D ELSE [D EXCEPT !.out = @ \cup {m}]
Least(S) == IF S = {} THEN 0 ELSE CHOOSE n \in S : \A k \in S : n <= k
Greatest(S) == IF S = {} THEN 0 ELSE CHOOSE n \in S : \A k \in S : n >= k

-----------------------------------------------------------------------------
(* Looking up states. *)

find_state_ikev1(D, ic, rc, msgid) ==
  Least({n \in Live(D) : /\ D.st[n].ic = ic
                         /\ D.st[n].rc = rc
                         /\ D.st[n].msgid = msgid})

\* All connections have the same peer, so any phase 1 will do: the newest.
find_phase1_state(D, ok_states) ==
  Greatest({n \in Live(D) : D.st[n].p1 = 0 /\ D.st[n].s \in ok_states})

\* delete_event: a retransmission event takes its count with it.
Unscheduled(r) == [r EXCEPT !.nret = IF r.ev = "RETRANSMIT" THEN 0 ELSE @]

\* send_crypto_helper_request when it accepts the job; new_pcrc holds the packet.
Suspend(r, job, m) ==
  [Unscheduled(r) EXCEPT !.calc = TRUE, !.job = job, !.smd = m, !.ev = "CRYPTO"]

-----------------------------------------------------------------------------
(* Initiating. *)

\* A request for a connection waits once for a phase 1.
add_pending(D, n, c, try) ==
  IF \E k \in DOMAIN D.pending : D.pending[k].c = c /\ D.pending[k].sa = n THEN D
  ELSE [D EXCEPT !.pending = Append(@, [c |-> c, sa |-> n, try |-> try])]

update_pending(D, old, new) ==
  [D EXCEPT !.pending = [k \in DOMAIN @ |-> IF @[k].sa = old THEN [@[k] EXCEPT !.sa = new]
                                                             ELSE @[k]]]

\* The new phase 1 takes the request with it, or what waited for the old one.
PendOn(D, n, c, old, ipsec) ==
  IF ipsec THEN add_pending(D, n, c, 1) ELSE update_pending(D, old, n)

main_outI1(D, d, c, old, ipsec, try) ==
  LET n  == Len(D.st) + 1
      r  == [State0 EXCEPT !.s = "MAIN_I1", !.c = c, !.ic = <<d, n>>, !.try = try,
                           !.ev = "RETRANSMIT"]
      i1 == Packet(d, "main", 1, r, None, None, None)
  IN  PendOn(Emit([D EXCEPT !.st = Append(@, [r EXCEPT !.tpkt = i1])], i1), n, c, old, ipsec)

aggr_outI1(D, d, c, old, ipsec, try) ==
  LET n == Len(D.st) + 1
      r == [State0 EXCEPT !.s = "AGGR_I1", !.c = c, !.ic = <<d, n>>, !.try = try]
  IN  PendOn([D EXCEPT !.st = Append(@, Suspend(r, "aggr_outI1", NoPkt))], n, c, old, ipsec)

\* pick_initiator, and the call of what it picks.
Initiator(D, d, c, old, ipsec, try) ==
  IF conf.mode = "aggr" THEN aggr_outI1(D, d, c, old, ipsec, try)
                        ELSE main_outI1(D, d, c, old, ipsec, try)

\* The child of a phase 1 (duplicate_state) starts with a job for its nonce.
quick_outI1(D, d, p, c, try) ==
  LET n == Len(D.st) + 1
      r == [State0 EXCEPT !.s = "QUICK_I1", !.c = c, !.ic = D.st[p].ic, !.rc = D.st[p].rc,
                          !.msgid = <<d, n>>, !.p1 = p, !.key = D.st[p].key, !.try = try]
  IN  [D EXCEPT !.st = Append(@, Suspend(r, "quick_outI1", NoPkt))]

\* Every request that waits for the phase 1 becomes a Quick Mode of it.
unpend(D, d, n) ==
  FoldLeft(LAMBDA E, p : quick_outI1(E, d, n, p.c, p.try),
           [D EXCEPT !.pending = SelectSeq(@, LAMBDA p : p.sa # n)],
           SelectSeq(D.pending, LAMBDA p : p.sa = n))

\* With an established phase 1 the Quick Mode starts at once; with one we
\* initiated that is still under way it waits; otherwise there is a new phase 1.
Initiate(D, d, c, try, p) ==
  IF p = 0 THEN Initiator(D, d, c, 0, TRUE, try)
  ELSE IF D.st[p].s \notin ISAKMP_SA_ESTABLISHED_STATES THEN add_pending(D, p, c, try)
  ELSE quick_outI1(D, d, p, c, try)
ipsecdoi_initiate(D, d, c, try) ==
  Initiate(D, d, c, try,
           find_phase1_state(D, ISAKMP_SA_ESTABLISHED_STATES \cup PHASE1_INITIATOR_STATES))

ipsecdoi_replace(D, d, n, try) ==
  IF D.st[n].p1 = 0 THEN Initiator(D, d, D.st[n].c, n, FALSE, try)
                    ELSE ipsecdoi_initiate(D, d, D.st[n].c, try)

-----------------------------------------------------------------------------
(* Deleting. *)

\* The Delete of a child goes under the newest established phase 1, that of a
\* phase 1 under itself.
DeletePacket(D, d, n, p) ==
  IF p = 0 THEN NoPkt
  ELSE Packet(d, "info", 0, D.st[p], IF p = n THEN None ELSE <<d, n>>, D.st[p].key, None)
ikev1_delete_out(D, d, n) ==
  IF D.st[n].s \in IPSEC_SA_ESTABLISHED_STATES
    THEN Emit(D, DeletePacket(D, d, n, find_phase1_state(D, ISAKMP_SA_ESTABLISHED_STATES)))
  ELSE IF D.st[n].s \in ISAKMP_SA_ESTABLISHED_STATES THEN Emit(D, DeletePacket(D, d, n, n))
  ELSE D

\* flush_pending_children: the crypto jobs of all states with these cookies are
\* forgotten, and the unfinished children of a phase 1 are to be replaced.
Orphaned(r, n) ==
  LET q == [r EXCEPT !.job = "none"]
  IN  IF r.p1 = n /\ r.s \notin IPSEC_SA_ESTABLISHED_STATES
        THEN [Unscheduled(q) EXCEPT !.ev = "NOW"] ELSE q
flush_pending_children(D, n) ==
  [D EXCEPT !.st = [k \in DOMAIN @ |->
     IF @[k] # NoSt /\ @[k].ic = @[n].ic /\ @[k].rc = @[n].rc
       THEN Orphaned(@[k], n) ELSE @[k]]]

Unlinked(D, n) ==
  [D EXCEPT !.st[n] = NoSt,
            !.newestIsakmp = [c \in Conns |-> IF @[c] = n THEN 0 ELSE @[c]],
            !.newestIpsec = [c \in Conns |-> IF @[c] = n THEN 0 ELSE @[c]]]
flush_pending_by_state(D, n) ==
  [D EXCEPT !.pending = SelectSeq(@, LAMBDA p : p.sa # n)]
\* Mutant: what waits for the state is left behind.
DeleteUnflushed(D, d, n) ==
  Unlinked(flush_pending_children(ikev1_delete_out(D, d, n), n), n)
delete_state(D, d, n) ==
  Unlinked(flush_pending_children(
             flush_pending_by_state(ikev1_delete_out(D, d, n), n), n), n)

\* All states of a connection, established phase 1 SAs last.
delete_states_by_connection(D, d, c) ==
  LET mine == {n \in Live(D) : D.st[n].c = c}
      last == {n \in mine : D.st[n].s \in ISAKMP_SA_ESTABLISHED_STATES}
      inOrder(S) == SetToSortSeq(S, LAMBDA a, b : a < b)
  IN  FoldLeft(LAMBDA E, n : delete_state(E, d, n), D, inOrder(mine \ last) \o inOrder(last))

\* A phase 1 of the connection carries children of another one.
shared_phase1_connection(D, c) ==
  \E n \in Live(D) : /\ D.st[n].c # c
                     /\ D.newestIsakmp[c] # 0
                     /\ D.st[n].p1 = D.newestIsakmp[c]

-----------------------------------------------------------------------------
(* Completing a transition: complete_v1_state_transition with STF_OK. *)

unique_msgid(r, msgid) == msgid \notin r.used
\* Mutant: the message ID is not kept.
ReserveNot(D, n, p) == D
reserve_msgid(D, n, p) ==
  IF p = 0 \/ D.st[n].reserved THEN D
  ELSE [D EXCEPT !.st[n].reserved = TRUE,
                 !.st[p] = IF @ = NoSt THEN @ ELSE [@ EXCEPT !.used = @ \cup {D.st[n].msgid}]]

\* The transition of the state itself; the reply is kept for retransmission.
Moved(r, row, reply, m) ==
  [Unscheduled(r) EXCEPT !.s = row.next, !.rpkt = m, !.smd = NoPkt,
                         !.tpkt = IF row.reply THEN reply ELSE NoPkt, !.ev = row.ev]
complete_v1_state_transition(D, d, n, row, reply, m) ==
  LET E == Emit(reserve_msgid([D EXCEPT !.st[n] = Moved(@, row, reply, m)], n, D.st[n].p1),
                IF row.reply THEN reply ELSE NoPkt)
  IN  IF row.release THEN unpend(E, d, n) ELSE E
Complete(D, d, n, reply, m) ==
  complete_v1_state_transition(D, d, n, Microcode[D.st[n].s], reply, m)

ISAKMP_SA_established(D, n) ==
  [D EXCEPT !.newestIsakmp[D.st[n].c] = n,
            !.done = @ \cup {[what |-> "ike", n |-> n, ex |-> <<D.st[n].ic, D.st[n].rc>>,
                              key |-> D.st[n].key]}]

\* The keys of a Quick Mode, and what install_inbound_ipsec_sa and
\* install_ipsec_sa leave in the kernel.
Keymat(D, d, n) == <<D.st[n].key, {<<d, n>>, D.st[n].peer}>>
Install(D, d, n, dirs) ==
  [D EXCEPT !.done = @ \cup
     {[what |-> w, n |-> n, ex |-> <<D.st[n].ic, D.st[n].rc, D.st[n].msgid>>,
       key |-> Keymat(D, d, n)] : w \in dirs}]
set_newest_ipsec_sa(D, n) == [D EXCEPT !.newestIpsec[D.st[n].c] = n]

-----------------------------------------------------------------------------
(* The processors.  One that needs a crypto job parks the packet and goes on  *)
(* when the job is done; full says that the helpers have no room for a job of *)
(* low importance, and the packet is dropped (STF_TOOMUCHCRYPTO).             *)

Reply(D, d, n, x, k, val, key) == Packet(d, x, k, D.st[n], val, key, None)
SuspendOn(D, n, job, m) == [D EXCEPT !.st[n] = Suspend(@, job, m)]

\* Main Mode.  Every first message makes a responder state.
main_inI1_outR1(D, d, m) ==
  LET n == Len(D.st) + 1
      r == [State0 EXCEPT !.s = "MAIN_R0", !.c = conf.first, !.ic = m.ic, !.rc = <<d, n>>]
  IN  Complete([D EXCEPT !.st = Append(@, r)], d, n, Packet(d, "main", 2, r, None, None, None), m)
main_inR1_outI2(D, n, m) == SuspendOn(D, n, "main_inR1_outI2", m)
main_inR1_outI2_tail(D, d, n, m) ==
  Complete(D, d, n, Reply(D, d, n, "main", 3, <<d, n>>, None), m)
main_inI2_outR2(D, n, m, full) == IF full THEN D ELSE SuspendOn(D, n, "main_inI2_outR2", m)
\* The Diffie-Hellman of the responder runs behind the reply.
main_inI2_outR2_tail(D, d, n, m, full) ==
  Complete([D EXCEPT !.st[n].peer = m.val, !.st[n].job = IF full THEN "none" ELSE "calcdone"],
           d, n, Reply(D, d, n, "main", 4, <<d, n>>, None), m)
main_inR2_outI3(D, n, m) ==
  SuspendOn([D EXCEPT !.st[n].peer = m.val], n, "main_inR2_outI3", m)
main_inR2_outI3_continue(D, d, n, m) ==
  LET E == [D EXCEPT !.st[n].key = Skeyid(D.st[n], <<d, n>>)]
  IN  Complete(E, d, n, Reply(E, d, n, "main", 5, None, E.st[n].key), m)
main_inI3_outR3(D, d, n, m) ==
  Complete(ISAKMP_SA_established(D, n), d, n, Reply(D, d, n, "main", 6, None, D.st[n].key), m)
main_inR3(D, d, n, m) == Complete(ISAKMP_SA_established(D, n), d, n, NoPkt, m)

\* Aggressive Mode.
aggr_inI1_outR1(D, d, m, full) ==
  LET n == Len(D.st) + 1
      r == [State0 EXCEPT !.s = "AGGR_R1", !.c = conf.first, !.ic = m.ic, !.rc = <<d, n>>,
                          !.peer = m.val]
  IN  [D EXCEPT !.st = Append(@, IF full THEN r ELSE Suspend(r, "aggr_inI1_outR1", m))]
aggr_inI1_outR1_continue1(D, n, m, full) ==
  IF full THEN D ELSE SuspendOn(D, n, "aggr_inI1_outR1_dh", m)
\* Mutant: the responder takes the phase 1 for established when it replies.
AggrEarly(D, d, n, m) ==
  LET E == [D EXCEPT !.st[n].key = Skeyid(D.st[n], <<d, n>>)]
  IN  complete_v1_state_transition(ISAKMP_SA_established(E, n), d, n, Microcode["AGGR_R0"],
                                   Reply(E, d, n, "aggr", 2, <<d, n>>, None), m)
aggr_inI1_outR1_tail(D, d, n, m) ==
  LET E == [D EXCEPT !.st[n].key = Skeyid(D.st[n], <<d, n>>)]
  IN  complete_v1_state_transition(E, d, n, Microcode["AGGR_R0"],
                                   Reply(E, d, n, "aggr", 2, <<d, n>>, None), m)
aggr_outI1_tail(D, d, n) ==
  LET i1 == Reply(D, d, n, "aggr", 1, <<d, n>>, None)
  IN  Emit([D EXCEPT !.st[n].tpkt = i1, !.st[n].ev = "RETRANSMIT"], i1)
\* The state is rehashed with the responder's cookie before the job.
aggr_inR1_outI2(D, n, m) ==
  SuspendOn([D EXCEPT !.st[n].rc = m.rc, !.st[n].peer = m.val], n, "aggr_inR1_outI2", m)
aggr_inR1_outI2_tail(D, d, n, m) ==
  LET E == [D EXCEPT !.st[n].key = Skeyid(D.st[n], <<d, n>>)]
  IN  Complete(ISAKMP_SA_established(E, n), d, n,
               Reply(E, d, n, "aggr", 3, None, E.st[n].key), m)
aggr_inI2(D, d, n, m) == Complete(ISAKMP_SA_established(D, n), d, n, NoPkt, m)

\* Quick Mode.
quick_outI1_tail(D, d, n) ==
  LET i1 == Packet(d, "quick", 1, D.st[n], <<d, n>>, D.st[n].key, D.st[n].c)
  IN  Emit([D EXCEPT !.st[n].tpkt = i1, !.st[n].ev = "RETRANSMIT"], i1)
\* The child of the responder is made before the job is accepted.
quick_inI1_outR1_authtail(D, p, m, full) ==
  LET r == [State0 EXCEPT !.s = "QUICK_R0", !.c = m.c, !.ic = m.ic, !.rc = m.rc,
                          !.msgid = m.msgid, !.p1 = p, !.key = D.st[p].key, !.peer = m.val]
  IN  [D EXCEPT !.st = Append(@, IF full THEN r ELSE Suspend(r, "quick_inI1_outR1", m))]
\* Mutant: the responder's inbound keys wait for the last message.
TailInboundLater(D, d, n, m) ==
  Complete(D, d, n, Reply(D, d, n, "quick", 2, <<d, n>>, D.st[n].key), m)
quick_inI1_outR1_cryptotail(D, d, n, m) ==
  Complete(Install(D, d, n, {"in"}), d, n,
           Reply(D, d, n, "quick", 2, <<d, n>>, D.st[n].key), m)
quick_inI1_outR1_cryptocontinue1(D, d, n, m, full) ==
  IF ~conf.pfs THEN quick_inI1_outR1_cryptotail(D, d, n, m)
  ELSE IF full THEN D ELSE SuspendOn(D, n, "quick_inI1_outR1_dh", m)
quick_inR1_outI2_cryptotail(D, d, n, m) ==
  Complete(set_newest_ipsec_sa(Install(D, d, n, {"in", "out"}), n), d, n,
           Reply(D, d, n, "quick", 3, None, D.st[n].key), m)
quick_inR1_outI2(D, d, n, m) ==
  LET E == [D EXCEPT !.st[n].peer = m.val]
  IN  IF conf.pfs THEN SuspendOn(E, n, "quick_inR1_outI2", m)
                  ELSE quick_inR1_outI2_cryptotail(E, d, n, m)
quick_inI2(D, d, n, m) ==
  Complete(set_newest_ipsec_sa(Install(D, d, n, {"out"}), n), d, n, NoPkt, m)

-----------------------------------------------------------------------------
(* Packets. *)

\* From decryption on: a packet that is not the one the state takes, or that its
\* keys do not open, is dropped.
process_packet_tail(D, d, n, m, full) ==
  LET r == D.st[n]
  IN  CASE m.key # None /\ m.key # r.key -> D
        [] r.s = "MAIN_I1"  -> main_inR1_outI2(D, n, m)
        [] r.s = "MAIN_R1"  -> main_inI2_outR2(D, n, m, full)
        [] r.s = "MAIN_I2"  -> main_inR2_outI3(D, n, m)
        [] r.s = "MAIN_R2"  -> main_inI3_outR3(D, d, n, m)
        [] r.s = "MAIN_I3"  -> main_inR3(D, d, n, m)
        [] r.s = "AGGR_I1"  -> aggr_inR1_outI2(D, n, m)
        [] r.s = "AGGR_R1"  -> aggr_inI2(D, d, n, m)
        [] r.s = "QUICK_I1" -> quick_inR1_outI2(D, d, n, m)
        [] r.s = "QUICK_R1" -> quick_inI2(D, d, n, m)

state_busy(r) == r.smd # NoPkt \/ r.calc

\* A duplicate of the last packet is answered again a few times by the states
\* that have no retransmission of their own, and dropped by the others.
\* Mutant: the last message of Main Mode is never repeated.
DuplicateQuickOnly(D, n) ==
  IF D.st[n].s = "QUICK_I2" /\ D.st[n].nret < AcceptedDuplicates
    THEN Emit([D EXCEPT !.st[n].nret = @ + 1], D.st[n].tpkt) ELSE D
Duplicate(D, n) ==
  IF D.st[n].s \in RetransmitOnDuplicate /\ D.st[n].nret < AcceptedDuplicates
    THEN Emit([D EXCEPT !.st[n].nret = @ + 1], D.st[n].tpkt) ELSE D

\* A packet for a state: dropped while the state is busy, parked when it is
\* encrypted and the keys are still being computed.
ToState(D, d, n, m, full) ==
  IF n = 0 \/ state_busy(D.st[n]) THEN D
  ELSE IF m = D.st[n].rpkt THEN Duplicate(D, n)
  ELSE IF D.st[n].s \notin DOMAIN Takes \/ Takes[D.st[n].s] # <<m.x, m.k>> THEN D
  ELSE IF Encrypted(m) /\ D.st[n].key = None THEN [D EXCEPT !.st[n].smd = m]
  ELSE process_packet_tail(D, d, n, m, full)

\* The state of a phase 1 packet: by both cookies, else by the initiator's alone.
Phase1Of(D, m) ==
  IF find_state_ikev1(D, m.ic, m.rc, None) # 0 THEN find_state_ikev1(D, m.ic, m.rc, None)
                                               ELSE find_state_ikev1(D, m.ic, None, None)

\* A new Quick Mode: its phase 1 must be established, its message ID new.
NewQuick(D, p, m, full) ==
  IF \/ p = 0 \/ m.k # 1
     \/ D.st[p].s \notin ISAKMP_SA_ESTABLISHED_STATES
     \/ ~unique_msgid(D.st[p], m.msgid)
     \/ m.key # D.st[p].key
    THEN D ELSE quick_inI1_outR1_authtail(D, p, m, full)
Quick(D, d, n, m, full) ==
  IF n # 0 THEN ToState(D, d, n, m, full)
           ELSE NewQuick(D, find_state_ikev1(D, m.ic, m.rc, None), m, full)

flush_pending_by_connection(D, c) ==
  [D EXCEPT !.pending = SelectSeq(@, LAMBDA p : p.c # c)]
\* When the last IPsec SA of a connection goes, the connection is taken down.
TakenDown(D, d, c) ==
  IF D.newestIpsec[c] # 0 THEN D
  ELSE IF shared_phase1_connection(D, c) THEN [D EXCEPT !.up = @ \ {c}]
  ELSE delete_states_by_connection(
         flush_pending_by_connection([D EXCEPT !.up = @ \ {c}], c), d, c)
find_phase2_state_to_delete(D, spi) ==
  Least({n \in Live(D) : D.st[n].s \in IPSEC_SA_ESTABLISHED_STATES /\ D.st[n].peer = spi})
\* The Delete of an IPsec SA: the newest one of a connection we want up is
\* replaced, any other deleted.
DeleteIpsec(D, d, n) ==
  IF n = 0 THEN D
  ELSE IF D.newestIpsec[D.st[n].c] = n /\ D.st[n].c \in D.up
    THEN [D EXCEPT !.st[n] = [Unscheduled(@) EXCEPT !.ev = "NOW"]]
  ELSE TakenDown(delete_state(D, d, n), d, D.st[n].c)
accept_delete(D, d, p, m) ==
  IF p = 0 \/ D.st[p].s \notin ISAKMP_SA_ESTABLISHED_STATES \/ m.key # D.st[p].key THEN D
  ELSE IF m.val = None THEN delete_state(D, d, p)
  ELSE DeleteIpsec(D, d, find_phase2_state_to_delete(D, m.val))

process_v1_packet(D, d, m, full) ==
  CASE m.x = "main" /\ m.k = 1 -> main_inI1_outR1(D, d, m)
    [] m.x = "aggr" /\ m.k = 1 -> aggr_inI1_outR1(D, d, m, full)
    [] m.x \in {"main", "aggr"} /\ m.k > 1 -> ToState(D, d, Phase1Of(D, m), m, full)
    [] m.x = "quick" -> Quick(D, d, find_state_ikev1(D, m.ic, m.rc, m.msgid), m, full)
    [] m.x = "info"  -> accept_delete(D, d, find_state_ikev1(D, m.ic, m.rc, None), m)

-----------------------------------------------------------------------------
(* Finished jobs and timers. *)

\* The keys are there; the packet that waited for them is processed.
main_inI2_outR2_calcdone(D, d, n, m) ==
  LET E == [D EXCEPT !.st[n].key = Skeyid(D.st[n], <<d, n>>)]
  IN  IF m = NoPkt THEN E ELSE main_inI3_outR3(E, d, n, m)

\* The continuation of a job, for the packet m that waited for it.
Continue(D, d, n, job, m, full) ==
  CASE job = "aggr_outI1"       -> aggr_outI1_tail(D, d, n)
    [] job = "main_inR1_outI2"  ->
         main_inR1_outI2_tail([D EXCEPT !.st[n].rc = m.rc], d, n, m)
    [] job = "main_inI2_outR2"  -> main_inI2_outR2_tail(D, d, n, m, full)
    [] job = "calcdone"         -> main_inI2_outR2_calcdone(D, d, n, m)
    [] job = "main_inR2_outI3"  -> main_inR2_outI3_continue(D, d, n, m)
    [] job = "aggr_inI1_outR1"  -> aggr_inI1_outR1_continue1(D, n, m, full)
    [] job = "aggr_inI1_outR1_dh" -> aggr_inI1_outR1_tail(D, d, n, m)
    [] job = "aggr_inR1_outI2"  -> aggr_inR1_outI2_tail(D, d, n, m)
    [] job = "quick_outI1"      -> quick_outI1_tail(D, d, n)
    [] job = "quick_inI1_outR1" -> quick_inI1_outR1_cryptocontinue1(D, d, n, m, full)
    [] job = "quick_inI1_outR1_dh" -> quick_inI1_outR1_cryptotail(D, d, n, m)
    [] job = "quick_inR1_outI2" -> quick_inR1_outI2_cryptotail(D, d, n, m)

\* Sent again, or given up: then tried afresh, unless tried enough.
retransmit_v1_msg(D, d, n) ==
  IF D.st[n].nret < MaxRetransmits
    THEN Emit([D EXCEPT !.st[n].nret = @ + 1], D.st[n].tpkt)
  ELSE IF D.st[n].try # 0 /\ D.st[n].try <= KeyingTries
    THEN delete_state(ipsecdoi_replace(D, d, n, D.st[n].try + 1), d, n)
  ELSE delete_state(D, d, n)

\* EVENT_SA_REPLACE: replaced unless something newer did it already; the old SA
\* goes after its margin, at once when the event was scheduled at once.
NewestOf(D, r) == IF r.p1 = 0 THEN D.newestIsakmp[r.c] ELSE D.newestIpsec[r.c]
\* Mutant: the newest SA itself counts as its own replacement.
ReplaceOlderOnly(D, d, n) ==
  LET E == [D EXCEPT !.st[n].ev = IF @ = "NOW" THEN "DISCARD" ELSE "EXPIRE"]
  IN  IF NewestOf(D, D.st[n]) >= n THEN E ELSE ipsecdoi_replace(E, d, n, 1)
sa_replace(D, d, n) ==
  LET E == [D EXCEPT !.st[n].ev = IF @ = "NOW" THEN "DISCARD" ELSE "EXPIRE"]
  IN  IF NewestOf(D, D.st[n]) > n THEN E ELSE ipsecdoi_replace(E, d, n, 1)

timer_event_cb(D, d, n) ==
  CASE D.st[n].ev = "RETRANSMIT" -> retransmit_v1_msg(D, d, n)
    [] D.st[n].ev \in {"REPLACE", "NOW"} -> sa_replace(D, d, n)
    [] D.st[n].ev \in {"EXPIRE", "DISCARD", "CRYPTO"} -> delete_state(D, d, n)

-----------------------------------------------------------------------------
(* The system. *)

Ikev1Init ==
  /\ conf \in Configs
  /\ pl = [d \in Daemons |-> Daemon0]
  /\ net = {} /\ stray = {}
  /\ spent = [lost |-> 0, copied |-> 0, full |-> 0, early |-> 0, late |-> 0, slow |-> 0, told |-> {}]

\* Daemon d becomes D, the packets it sent are on their way, minus what it took.
Commit(d, after, taken) ==
  \E D \in {after} :
    /\ Len(D.st) <= MaxStates
    /\ pl' = [pl EXCEPT ![d] = [D EXCEPT !.out = {}]]
    /\ net' = (net \ taken) \cup D.out
    /\ stray' = stray \ (taken \ net)
    /\ conf' = conf
Full(full) ==
  /\ full => spent.full < conf.refusals
  /\ spent' = IF full THEN [spent EXCEPT !.full = @ + 1] ELSE spent

\* whack --initiate.
initiate_connection(d, c) ==
  /\ c \in conf.start[d] /\ <<d, c>> \notin spent.told
  /\ spent' = [spent EXCEPT !.told = @ \cup {<<d, c>>}]
  /\ Commit(d, ipsecdoi_initiate([pl[d] EXCEPT !.up = @ \cup {c}], d, c, 1), {})

\* A packet arrives.
StartsJob(m) == <<m.x, m.k>> \in {<<"main", 3>>, <<"aggr", 1>>, <<"quick", 1>>}
Receive(m, full) ==
  /\ full => StartsJob(m)
  /\ Full(full)
  /\ Commit(m.to, process_v1_packet(pl[m.to], m.to, m, full), {m})
\* The network makes a copy of a packet, or loses it.
Copy(m) ==
  /\ spent.copied < conf.copies
  /\ spent' = [spent EXCEPT !.copied = @ + 1]
  /\ stray' = stray \cup {m}
  /\ UNCHANGED <<conf, pl, net>>
Lose(m) ==
  /\ spent.lost < conf.losses
  /\ spent' = [spent EXCEPT !.lost = @ + 1]
  /\ net' = net \ {m}
  /\ UNCHANGED <<conf, pl, stray>>

\* A helper hands a result back.
NextJob == {"main_inI2_outR2", "aggr_inI1_outR1"} \cup
           IF conf.pfs THEN {"quick_inI1_outR1"} ELSE {}
Finish(d, n, full) ==
  LET r == pl[d].st[n]
  IN  /\ r.job # "none"
      /\ full => r.job \in NextJob
      /\ Full(full)
      /\ Commit(d, Continue([pl[d] EXCEPT !.st[n].calc = FALSE, !.st[n].job = "none",
                                          !.st[n].smd = NoPkt],
                            d, n, r.job, r.smd, full), {})

\* A timer fires: at once, when retransmission is due, or late in the life of a
\* state, or when a job takes too long.  Retransmission is due when nothing is under way, first for the state
\* that retransmitted least, whose interval is the shortest; conf.early times it
\* is early, when the network or a job is slow.
Quiet == net = {} /\ \A d \in Daemons, n \in 1 .. MaxStates :
                       n \in Live(pl[d]) => pl[d].st[n].job = "none"
LeastTried(k) == \A d \in Daemons : \A n \in Live(pl[d]) :
                   pl[d].st[n].ev = "RETRANSMIT" => pl[d].st[n].nret >= k
LateEvents == {"REPLACE", "EXPIRE"}
Timer(d, n) ==
  LET r == pl[d].st[n]
      early == r.ev = "RETRANSMIT" /\ ~(Quiet /\ LeastTried(r.nret))
      late  == r.ev \in LateEvents
      slow  == r.ev = "CRYPTO"
  IN  /\ early => spent.early < conf.early
      /\ late => spent.late < conf.late
      /\ slow => spent.slow < conf.slow
      /\ spent' = [spent EXCEPT !.early = IF early THEN @ + 1 ELSE @,
                                !.late = IF late THEN @ + 1 ELSE @,
                                !.slow = IF slow THEN @ + 1 ELSE @]
      /\ Commit(d, timer_event_cb(pl[d], d, n), {})

Ikev1Next ==
  \/ \E d \in Daemons, c \in Conns : initiate_connection(d, c)
  \/ \E m \in net : Copy(m) \/ Lose(m)
  \/ \E m \in net \cup stray, full \in BOOLEAN : Receive(m, full)
  \/ \E d \in Daemons : \E n \in Live(pl[d]) :
       Timer(d, n) \/ \E full \in BOOLEAN : Finish(d, n, full)

Ikev1Spec == Ikev1Init /\ [][Ikev1Next]_ikev1Vars

-----------------------------------------------------------------------------
(* Properties. *)

\* No exchange installs keys in a direction twice on one side, whatever is
\* delayed, repeated or deleted in between: the message ID of a Quick Mode that
\* went through stays reserved in its phase 1 (unique_msgid, reserve_msgid).
InstallOnce ==
  \A d \in Daemons : \A a, b \in pl[d].done :
    a.what = b.what /\ a.ex = b.ex => a.n = b.n

\* Outbound keys are installed only where the peer has the same keys installed
\* inbound already, for every packet they protect to be understood (ikev1_quick.c
\* says of the responder's early install that it "is soon enough to catch all
\* packets that other side could send using this IPsec SA").
OutboundAfterInbound ==
  \A d \in Daemons : \A a \in pl[d].done :
    a.what = "out" =>
      \E b \in pl[Peer(d)].done : b.what = "in" /\ b.ex = a.ex /\ b.key = a.key

\* The side that completes phase 1 last (the initiator of Main Mode, the responder
\* of Aggressive Mode) does so with a peer that completed it with the same keys:
\* main_inR3 and aggr_inI2 rest on a message only an established peer sends.
Phase1Agreement ==
  \A d \in Daemons : \A a \in pl[d].done :
    a.what = "ike" /\ (a.ex[1] = <<d, a.n>>) = (conf.mode = "main") =>
      \E b \in pl[Peer(d)].done : b.what = "ike" /\ b.ex = a.ex /\ b.key = a.key

\* Whoever uses keys of an exchange uses those its peer has: of phase 1 the side
\* that completes it last, of phase 2 every side that sends.
KeysAgree == Phase1Agreement /\ OutboundAfterInbound

\* A request waits only for a phase 1 that exists and is not yet established, so
\* that unpend, update_pending or flush_pending_by_state will find it: pending.c
\* keeps pointers to states that replacement, give-up and Delete free.
PendingHeld ==
  \A d \in Daemons : \A k \in DOMAIN pl[d].pending :
    LET n == pl[d].pending[k].sa
    IN  n \in Live(pl[d]) /\ pl[d].st[n].s \in PHASE1_INITIATOR_STATES
                                                \ ISAKMP_SA_ESTABLISHED_STATES

\* Both sides have the same Quick Mode as the newest IPsec SA of the connection.
BothUp(c) ==
  \A d \in Daemons :
    LET n == pl[d].newestIpsec[c]
    IN  n # 0 /\ \E b \in pl[Peer(d)].done :
                   b.what = "out" /\ b.key = Keymat(pl[d], d, n)
\* Few enough losses and copies for the retransmissions and accepted duplicates.
GoodWeather == /\ conf.mode = "main"
               /\ conf.early = 0 /\ conf.late = 0 /\ conf.slow = 0
               /\ conf.losses + conf.copies <= AcceptedDuplicates
AtRest ==
  /\ Quiet
  /\ \A d \in Daemons : /\ \A c \in conf.start[d] : <<d, c>> \in spent.told
                        /\ \A n \in Live(pl[d]) : pl[d].st[n].ev \in {"REPLACE", "EXPIRE"}
\* Main Mode and Quick Mode get through a network that loses or repeats as many
\* packets as the daemons make good for: when nothing is under way any more, every
\* connection a daemon was told to bring up is up on both sides.  Only the
\* retransmission of the last message on a duplicate (SMF_RETRANSMIT_ON_DUPLICATE)
\* saves an exchange whose last message is lost, and only update_pending a request
\* whose phase 1 had to be tried again.
UpAtRest == GoodWeather /\ AtRest => \A d \in Daemons : \A c \in conf.start[d] : BothUp(c)

\* A connection that is to be up (POLICY_UP) is never forgotten, whichever SA ends
\* first on whichever side: as long as packets get through and jobs are done in
\* time there is a Quick Mode for it, going on or established, or a request that
\* waits for a phase 1.  It takes EVENT_SA_REPLACE before EVENT_SA_EXPIRE, unpend,
\* the children flush_pending_children reschedules, and the choice between
\* replacing and deleting in accept_delete.
WantedNotForgotten ==
  conf.losses = 0 /\ conf.early = 0 /\ conf.refusals = 0 /\ conf.slow = 0 =>
    \A d \in Daemons : \A c \in pl[d].up :
      \/ \E n \in Live(pl[d]) : pl[d].st[n].p1 # 0 /\ pl[d].st[n].c = c
      \/ \E k \in DOMAIN pl[d].pending : pl[d].pending[k].c = c
=============================================================================
