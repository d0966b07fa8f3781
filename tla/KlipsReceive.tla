---------------------------- MODULE KlipsReceive ----------------------------
(***************************************************************************)
(* The KLIPS receive path (linux/net/ipsec/ipsec_rcv.c, ipsec_ocf.c) and   *)
(* the PF_KEY handlers that change the SA database under it                *)
(* (linux/net/ipsec/pfkey_v2_parser.c).                                    *)
(*                                                                         *)
(* A packet walks the states of rcv_state_table under tdb_lock.  When its  *)
(* SA uses the asynchronous crypto of OCF the walk stops in AUTH_CALC, the *)
(* lock is released and the crypto callback resumes it later, with         *)
(* references to the SAs it has reached.  Meanwhile other packets and      *)
(* PF_KEY messages run.  A handler is atomic as far as it holds the lock.  *)
(***************************************************************************)
EXTENDS KlipsSadb, ReplayBitmap

CONSTANTS Proto,         \* the protocol of each SA identifier
          Ocf,           \* identifiers whose SAs use OCF
          RcvSlots,      \* packets in flight (the rcv state cache)
          Packets,       \* [layers : sequences of [said, seq], inner : ...]
          MaxNatt,       \* bound on NAT-T port updates of one SA
          MaxMessages,   \* bound on PF_KEY messages
          MaxArrivals    \* bound on packets

VARIABLES db,            \* the database
          irs,           \* the receive state of each slot, NoSa when free
          pfkey,         \* the PF_KEY message being handled, NoSa when none
          messages,      \* messages so far
          arrivals       \* packets so far

klipsVars == <<db, irs, pfkey, messages, arrivals>>

\* What the layer of a packet that is looked at meets first: nothing wrong,
\* a length, address or NAT-T mismatch, a hard lifetime, a bad authenticator,
\* a failed decryption, or an inner header that breaks the policy.
Outcomes == {"fine", "length", "policy", "life", "auth", "crypto", "inner"}

Run(d, i, rc) == [db |-> d, irs |-> i, rc |-> rc]
Layer(i) == Head(i.layers)

\* The receive state of a packet (ipsec_rcv_state_new, ipsec_rcv_init).
FreshIrs(pkt) ==
  [state |-> "DECAP_INIT", layers |-> pkt.layers, inner |-> pkt.inner,
   ipsp |-> NoSa, lastipsp |-> NoSa, said |-> NoSa, checked |-> FALSE]

\* The packet moves to the next SA: the one before the last is released.
Advance(d, i, new) ==
  [db |-> ipsec_sa_put(d, i.lastipsp),
   irs |-> [i EXCEPT !.lastipsp = i.ipsp, !.ipsp = new]]

-----------------------------------------------------------------------------
(* The actions of rcv_state_table. *)

ipsec_rcv_decap_lookup(d, i, outcome) ==
  Run(d, i, IF outcome = "length" THEN "BADLEN" ELSE "OK")

ipsec_rcv_auth_init(d, i, outcome) ==
  LET said == Layer(i).said
      new  == Lookup(d, said)
      got  == ipsec_sa_get(d, new)
      i1   == [i EXCEPT !.said = said]
      adv  == Advance(got, i1, new)
  IN  CASE new = NoSa -> Run(d, i1, "SAIDNOTFOUND")
        [] new # NoSa /\ d.sa[new].state # "MATURE" -> Run(d, i1, "SAIDNOTLIVE")
        [] new # NoSa /\ d.sa[new].state = "MATURE" ->
             IF outcome = "policy" \/ (i.ipsp # NoSa /\ d.sa[i.ipsp].next # new)
               THEN Run(ipsec_sa_put(got, new), i1, "FAILEDINBOUND")
             ELSE IF new = i.ipsp THEN Run(ipsec_sa_put(got, new), i1, "OK")
             ELSE Run(adv.db, adv.irs, "OK")

ipsec_rcv_auth_decap(d, i, outcome) ==
  IF outcome = "life" THEN Run(ipsec_sa_rm(d, i.ipsp), i, "LIFETIMEFAILED")
                      ELSE Run(d, i, "OK")

\* With OCF the crypto request is queued and the state of the callback set.
ipsec_rcv_auth_calc(d, i, outcome) ==
  LET me == d.sa[i.ipsp] IN
  IF ~ Checks(me.lastseq, me.bitmap, Layer(i).seq) THEN Run(d, i, "REPLAYFAILED")
  ELSE IF me.said \in Ocf THEN Run(d, [i EXCEPT !.state = "PENDING"], "PENDING")
  ELSE Run(d, i, "OK")

\* An accepted packet is counted.
Accept(d, s, seq) ==
  [d EXCEPT !.sa[s].bitmap = BitmapAfter(d.sa[s].lastseq, d.sa[s].bitmap, seq),
            !.sa[s].lastseq = LastAfter(d.sa[s].lastseq, seq),
            !.sa[s].took = @ (+) SetToBag({seq}),
            !.late = @ \/ Lookup(d, d.sa[s].said) = NoSa]

\* Mutant: the window is not looked at again after the authentication.
AuthChkOnce(d, i, outcome) ==
  IF i.checked THEN Run(d, i, "OK")
  ELSE IF outcome = "auth" THEN Run(d, i, "AUTHFAILED")
  ELSE Run(Accept(d, i.ipsp, Layer(i).seq), [i EXCEPT !.checked = TRUE], "OK")
\* The first SA of a packet checks it; for the next ones auth_checked is set.
ipsec_rcv_auth_chk(d, i, outcome) ==
  IF i.checked THEN Run(d, i, "OK")
  ELSE IF outcome = "auth" THEN Run(d, i, "AUTHFAILED")
  ELSE IF ~ Checks(d.sa[i.ipsp].lastseq, d.sa[i.ipsp].bitmap, Layer(i).seq)
    THEN Run(d, i, "REPLAYROLLED")
  ELSE Run(Accept(d, i.ipsp, Layer(i).seq), [i EXCEPT !.checked = TRUE], "OK")

ipsec_rcv_decrypt(d, i, outcome) ==
  Run(d, i, IF outcome = "crypto" THEN "BADPAD" ELSE "OK")

\* A header that is not the end of the policy: the SA that follows must be for
\* it, unless that is an IPCOMP SA, which a packet may go without.
IncompletePolicy(d, i) ==
  LET next == d.sa[i.ipsp].next
  IN  /\ next # NoSa
      /\ Len(i.layers) = 1
      /\ i.inner # "ipip"
      /\ ~ (Proto[d.sa[next].said] = "comp" /\ d.sa[next].next = NoSa)

Decapsulated(chk, i) ==
  IF chk.rc # "OK" THEN chk
  ELSE IF IncompletePolicy(chk.db, i) THEN Run(chk.db, chk.irs, "FAILEDINBOUND")
  ELSE Run(chk.db, [chk.irs EXCEPT !.layers = Tail(@)], "OK")
ipsec_rcv_decap_cont(d, i, outcome) == Decapsulated(ipsec_rcv_auth_chk(d, i, outcome), i)

\* The SAs that remain: an IPCOMP SA is skipped, an IPIP SA takes the outer
\* header off (ipsec_rcv_decap_ipip) and must be the last.
NextSa(d, i) ==
  LET next == d.sa[i.ipsp].next
  IN  Advance(ipsec_sa_get(d, next), i, next)
SkipComp(k) ==
  IF k.irs.ipsp # NoSa /\ Proto[k.db.sa[k.irs.ipsp].said] = "comp"
    THEN NextSa(k.db, k.irs) ELSE k
OuterHeader(k, inner, outcome) ==
  LET s == k.irs.ipsp
      tunnel == s # NoSa /\ Proto[k.db.sa[s].said] = "ipip"
  IN  Run(k.db, k.irs,
          IF tunnel /\ (inner # "ipip" \/ k.db.sa[s].next # NoSa \/ outcome = "inner")
            THEN "DECAPFAIL" ELSE "OK")
ipsec_rcv_cleanup(d, i, outcome) ==
  OuterHeader(SkipComp(NextSa(d, i)), i.inner, outcome)

-----------------------------------------------------------------------------
(* ipsec_rsm. *)

NextState(i) ==
  CASE i.state = "DECAP_INIT" -> "AUTH_INIT"
    [] i.state = "AUTH_INIT" -> "AUTH_DECAP"
    [] i.state = "AUTH_DECAP" -> "AUTH_CALC"
    [] i.state = "AUTH_CALC" -> "AUTH_CHK"
    [] i.state = "AUTH_CHK" -> "DECRYPT"
    [] i.state = "DECRYPT" -> "DECAP_CONT"
    [] i.state = "DECAP_CONT" -> IF i.layers = <<>> THEN "CLEANUP" ELSE "DECAP_INIT"
    [] i.state = "CLEANUP" -> "DONE"

StateAction(d, i, outcome) ==
  CASE i.state = "DECAP_INIT" -> ipsec_rcv_decap_lookup(d, i, outcome)
    [] i.state = "AUTH_INIT" -> ipsec_rcv_auth_init(d, i, outcome)
    [] i.state = "AUTH_DECAP" -> ipsec_rcv_auth_decap(d, i, outcome)
    [] i.state = "AUTH_CALC" -> ipsec_rcv_auth_calc(d, i, outcome)
    [] i.state = "AUTH_CHK" -> ipsec_rcv_auth_chk(d, i, outcome)
    [] i.state = "DECRYPT" -> ipsec_rcv_decrypt(d, i, outcome)
    [] i.state = "DECAP_CONT" -> ipsec_rcv_decap_cont(d, i, outcome)
    [] i.state = "CLEANUP" -> ipsec_rcv_cleanup(d, i, outcome)

\* The loop; the packet lets go of its SAs when it is done.  Every layer has
\* an outcome of its own.
RECURSIVE Loop(_, _, _)
MoveOn(d, j, outcomes) ==
  Loop(d, j, IF j.state = "DECAP_INIT" THEN Tail(outcomes) ELSE outcomes)
AfterAction(k, outcomes) ==
  CASE k.rc = "PENDING" -> [db |-> k.db, irs |-> k.irs]
    [] k.rc = "OK" -> MoveOn(k.db, [k.irs EXCEPT !.state = NextState(k.irs)], outcomes)
    [] OTHER -> Loop(k.db, [k.irs EXCEPT !.state = "DONE"], outcomes)
Loop(d, i, outcomes) ==
  IF i.state = "DONE"
    THEN [db |-> ipsec_sa_put(ipsec_sa_put(d, i.lastipsp), i.ipsp), irs |-> NoSa]
    ELSE AfterAction(StateAction(d, i, Head(outcomes)), outcomes)

\* Mutant: the SA of a packet that was waiting is not looked for again.
RsmUnchecked(d, i, outcomes) == Loop(d, i, outcomes)
\* The identifier of a packet that was waiting must still be found, with the SA
\* the packet holds or with another.
ipsec_rsm(d, i, outcomes) ==
  LET gone == i.said # NoSa /\ Lookup(d, i.said) = NoSa
  IN  Loop(d, IF gone THEN [i EXCEPT !.state = "DONE"] ELSE i, outcomes)
-----------------------------------------------------------------------------
(* Packets. *)

\* One outcome per layer still to come, at most one of them bad.
OutcomesOf(layers) ==
  {[n \in 1..Len(layers) |-> IF n = at THEN o ELSE "fine"] :
     at \in 1..Len(layers), o \in Outcomes}

\* The packet of a slot after its run, which is over or waits.
Settle(p, k) == db' = k.db /\ irs' = [irs EXCEPT ![p] = k.irs]

\* ipsec_rcv: a packet arrives.
Receive(p, pkt, outcomes) ==
  /\ irs[p] = NoSa
  /\ arrivals < MaxArrivals
  /\ Settle(p, ipsec_rsm(db, FreshIrs(pkt), outcomes))
  /\ arrivals' = arrivals + 1
  /\ UNCHANGED <<pfkey, messages>>

\* ipsec_ocf_rcv_cb, and ipsec_rsm from the task it queues: a request that
\* failed ends the packet, ESP goes on after its decryption, AH with the check.
Resume(p, outcomes) ==
  LET i == irs[p]
      ready == [i EXCEPT !.state =
                  IF Head(outcomes) = "crypto" THEN "DONE"
                  ELSE IF Proto[i.said] = "ah" THEN "AUTH_CHK" ELSE "DECAP_CONT"]
  IN  /\ Settle(p, ipsec_rsm(db, ready, outcomes))
      /\ UNCHANGED <<pfkey, messages, arrivals>>

-----------------------------------------------------------------------------
(* PF_KEY.  Messages come one at a time; each starts with an SA allocated by *)
(* pfkey_msg_interp.  A message that is refused leaves no trace.             *)

NewSa(d) == CHOOSE s \in Addresses(d) : \A t \in Addresses(d) : s <= t
Message ==
  /\ pfkey = NoSa
  /\ messages < MaxMessages
  /\ messages' = messages + 1
  /\ UNCHANGED <<irs, arrivals>>
Room == Message /\ Addresses(db) # {}
Handling(op, s, saved) == [op |-> op, sa |-> s, saved |-> saved]

Getspi(said) ==
  /\ Room
  /\ Lookup(db, said) = NoSa
  /\ db' = ipsec_sa_alloc(db, NewSa(db), said, "LARVAL")
  /\ pfkey' = Handling("add", NewSa(db), NoSa)

Update(said) ==
  /\ Room
  /\ Lookup(db, said) # NoSa
  /\ db' = ipsec_sa_alloc(db, NewSa(db), said, "MATURE")
  /\ pfkey' = Handling("add", NewSa(db), NoSa)

\* The SA to update is kept in the place of the one of the message.
UpdateNatt(said) ==
  LET s == Lookup(db, said) IN
  /\ Room
  /\ s # NoSa
  /\ db.sa[s].natt < MaxNatt
  /\ db' = ipsec_sa_get(ipsec_sa_alloc(db, NewSa(db), said, "MATURE"), s)
  /\ pfkey' = Handling("natt", s, NewSa(db))

\* A rekey gives the SAref of an SA that is in the table.
Add(said, ref) ==
  LET s == NewSa(db)
      d == [ipsec_sa_alloc(db, s, said, "MATURE") EXCEPT !.sa[s].ref = ref]
  IN  /\ Room
      /\ Lookup(db, said) = NoSa
      /\ ref = NoRef \/ db.table[ref] # NoSa
      /\ IF CanIntern(d, s)
           THEN db' = ipsec_sa_intern(d, s) /\ pfkey' = Handling("add", s, NoSa)
           ELSE db' = PutAlloc(Refilled(d), s) /\ UNCHANGED pfkey
    
\* The reply was sent and the SA enters the chain; of a NAT-T update the SA of
\* the message is freed and the reference to the updated one stays.
Finish ==
  /\ pfkey # NoSa
  /\ pfkey.op \in {"add", "natt"}
  /\ db' = IF pfkey.op = "add" THEN ipsec_sa_add(db, pfkey.sa)
           ELSE [PutAlloc(db, pfkey.saved) EXCEPT !.sa[pfkey.sa].natt = @ + 1]
  /\ pfkey' = NoSa
  /\ UNCHANGED <<irs, messages, arrivals>>

\* The reply failed: pfkey_msg_interp puts what it still has.
Fail ==
  /\ pfkey # NoSa
  /\ pfkey.op \in {"add", "natt"}
  /\ db' = IF pfkey.op = "add" THEN PutAlloc(db, pfkey.sa)
           ELSE ipsec_sa_put(db, pfkey.sa)
  /\ pfkey' = NoSa
  /\ UNCHANGED <<irs, messages, arrivals>>

RECURSIVE DropGroup(_, _)
DropGroup(d, group) ==
  IF group = <<>> THEN d
  ELSE LET s == Head(group)
           marked == [d EXCEPT !.sa[s].deleted = TRUE]
       IN  DropGroup(ipsec_sa_rm(ipsec_sa_untern(marked, s), s), Tail(group))

\* The whole group leaves the tables; the first SA of it is freed, and each
\* one frees the next when it is wiped.
Delete(said) ==
  LET s == Lookup(db, said)
      d1 == DropGroup(ipsec_sa_get(db, s), Group(db, s))
      d2 == ipsec_sa_put(d1, s)
  IN  /\ Room
      /\ s # NoSa
      /\ db' = PutAlloc(d2, GroupHead(d2, s))
      /\ UNCHANGED pfkey

\* Two SAs are joined, inner after outer (inbound).  That the inner one is the
\* first of its group is how pluto groups the SAs it has just added.
Grpsa(outer, inner) ==
  LET s == Lookup(db, outer)
      t == Lookup(db, inner)
  IN  /\ Room
      /\ s # NoSa /\ t # NoSa
      /\ db.sa[s].next = NoSa /\ db.sa[t].prev = NoSa
      /\ ~ Contains(GroupFrom(db, t), s)
      /\ db' = [db EXCEPT !.sa[s].next = t, !.sa[t].prev = s]
      /\ UNCHANGED pfkey

FlushHash ==
  /\ Message
  /\ db' = EmptyHash(db)
  /\ pfkey' = Handling("flush", NoSa, NoSa)

FlushTable ==
  /\ pfkey # NoSa
  /\ pfkey.op = "flush"
  /\ db' = EmptyTable(db, 0)
  /\ pfkey' = NoSa
  /\ UNCHANGED <<irs, messages, arrivals>>

-----------------------------------------------------------------------------
KlipsInit ==
  /\ db = ipsec_sadb_init
  /\ irs = [p \in RcvSlots |-> NoSa]
  /\ pfkey = NoSa
  /\ messages = 0
  /\ arrivals = 0

KlipsNext ==
  \/ \E p \in RcvSlots, pkt \in Packets :
       \E outcomes \in OutcomesOf(pkt.layers) : Receive(p, pkt, outcomes)
  \/ \E p \in RcvSlots :
       irs[p] # NoSa /\ \E outcomes \in OutcomesOf(irs[p].layers) : Resume(p, outcomes)
  \/ \E said \in Saids : Getspi(said)
  \/ \E said \in Saids : Update(said)
  \/ \E said \in Saids : UpdateNatt(said)
  \/ \E said \in Saids, ref \in Refs : Add(said, ref)
  \/ Finish
  \/ Fail
  \/ \E said \in Saids : Delete(said)
  \/ \E outer, inner \in Saids : Grpsa(outer, inner)
  \/ FlushHash
  \/ FlushTable

KlipsSpec == KlipsInit /\ [][KlipsNext]_klipsVars

-----------------------------------------------------------------------------
\* No SA accepts two packets with the same sequence number, however the packets
\* that wait for OCF overtake each other (ipsec_rcv_auth_calc looks at the
\* window before the crypto, ipsec_rcv_auth_chk again after it).
AcceptedOnce == \A s \in Live(db) : \A n \in DOMAIN db.sa[s].took : db.sa[s].took[n] = 1

\* The SArefs on the free list are free, so an SA that is given one displaces
\* no other (ipsec_SAref_recycle, ipsec_SAref_alloc, ipsec_sa_intern).
FreeRefsAreFree ==
  /\ \A n \in DOMAIN db.free : db.table[db.free[n]] = NoSa
  /\ IsInjective(db.free)

\* A packet whose SA has "gone away while we were waiting for a task to
\* complete" (ipsec_rsm) is not accepted: when one is, the database has an SA
\* with its identifier, if not the one that accepts it.
GoneIsDropped == ~ db.late
=============================================================================
