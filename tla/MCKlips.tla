------------------------------ MODULE MCKlips ------------------------------
(***************************************************************************)
(* Instances of KlipsXmit and ReplayWindow for TLC.  The part of the       *)
(* system a behaviour exercises is chosen once, so that every part has a   *)
(* depth of its own:                                                       *)
(*   all     every PF_KEY message and packet, few of them                  *)
(*   groups  SAs are added, grouped and deleted under nested packets       *)
(*   refs    many SAs come and go, and no packets                          *)
(*   window  the replay window of one SA alone (ReplayWindow)              *)
(*   bundle  packets are sent through a group of three SAs                 *)
(*   holds   packets meet eroutes that keep them                           *)
(*   number  packets are sent through an SA that has one number left       *)
(***************************************************************************)
EXTENDS KlipsXmit, ReplayWindow, TLC

CONSTANTS ahSaid, espSaid, tunSaid, compSaid, otherSaid,
          dataFlow, gwFlow, hostKey, netKey, gwKey, data1, data2, own

VARIABLE part

MCProto == (ahSaid :> "ah") @@ (espSaid :> "esp") @@ (tunSaid :> "ipip")
           @@ (compSaid :> "comp")
Single(n) == [layers |-> <<[said |-> espSaid, seq |-> n]>>, inner |-> "ipip"]
Nested == [layers |-> <<[said |-> ahSaid, seq |-> 1], [said |-> espSaid, seq |-> 1]>>,
           inner |-> "ipip"]
MCPackets == {Single(1), Single(2), Nested}
MCFlow == (data1 :> dataFlow) @@ (data2 :> dataFlow) @@ (own :> gwFlow)
MCHostKey == (dataFlow :> hostKey) @@ (gwFlow :> gwKey)
MCNetKey == (dataFlow :> netKey) @@ (gwFlow :> gwKey)
MCDst == [s \in {tunSaid, compSaid, espSaid} |-> gwFlow] @@ (otherSaid :> dataFlow)
MCFlowRoutes == {<<hostKey, tunSaid>>, <<netKey, "TRAP">>, <<gwKey, otherSaid>>}
MCMishaps == ({"none"} \X Rooms) \cup (Faults \X {"fits"}) \cup {<<"encap", "copied">>}
SlotSymmetry == Permutations(RcvSlots) \cup Permutations(XmitSlots)
                \cup Permutations({data1, data2})

Messages == [all |-> 3, groups |-> 6, refs |-> 6, window |-> 0,
             bundle |-> 1, holds |-> 3, number |-> 1]
Arrivals == [all |-> 2, groups |-> 2, refs |-> 0, window |-> 0,
             bundle |-> 0, holds |-> 0, number |-> 0]

All ==
  /\ part = "all"
  /\ KlipsNext
Groups ==
  /\ part = "groups"
  /\ \/ \E p \in RcvSlots, pkt \in {Nested, Single(1)} :
          \E outcomes \in OutcomesOf(pkt.layers) : Receive(p, pkt, outcomes)
     \/ \E p \in RcvSlots :
          irs[p] # NoSa /\ \E outcomes \in OutcomesOf(irs[p].layers) : Resume(p, outcomes)
     \/ \E said \in Saids : Add(said, NoRef)
     \/ Finish
     \/ \E said \in Saids : Delete(said)
     \/ Grpsa(ahSaid, espSaid) \/ Grpsa(espSaid, tunSaid)
ManyRefs ==
  /\ part = "refs"
  /\ \/ \E said \in Saids, ref \in Refs : Add(said, ref)
     \/ Finish
     \/ Fail
     \/ \E said \in Saids : Delete(said)
     \/ FlushHash
     \/ FlushTable

\* An SA that was added, and the SAs of an outbound group.
Added(d, said) ==
  LET s == NewSa(d)
  IN  ipsec_sa_add(ipsec_sa_intern(ipsec_sa_alloc(d, s, said, "MATURE"), s), s)
Joined(d, s, t) == [d EXCEPT !.sa[s].next = t, !.sa[t].prev = s]
ThreeSas == Added(Added(Added(ipsec_sadb_init, tunSaid), compSaid), espSaid)
BundleDb == Joined(Joined(ThreeSas, 1, 2), 2, 3)
NumberDb == [Added(ipsec_sadb_init, espSaid) EXCEPT !.sa[1].lastseq = SeqTop - 1]

Started(d, routes, packets) ==
  /\ db = d
  /\ eroutes \in [Keys -> {NoSa} \cup {Eroute(r, NoSa) : r \in {"TRAP", "TRAPSUBNET", tunSaid, espSaid}}]
  /\ eroutes[hostKey] = NoSa /\ eroutes[gwKey] = NoSa
  /\ eroutes[netKey] \in {Eroute(r, NoSa) : r \in routes}
  /\ ixs = [q \in XmitSlots |-> NoSa]
  /\ skbs = [fresh |-> packets, live |-> {}, queue |-> {}, lost |-> {}]
  /\ irs = [p \in RcvSlots |-> NoSa] /\ pfkey = NoSa /\ messages = 0 /\ arrivals = 0

Sending ==
  /\ part \in {"bundle", "number"}
  /\ \/ XmitPackets
     \/ XmitFlows /\ UNCHANGED irs
     \/ \E said \in {tunSaid, espSaid} : Delete(said) /\ UNCHANGED xmitVars
     \/ (FlushHash \/ FlushTable) /\ UNCHANGED xmitVars
Holding ==
  /\ part = "holds"
  /\ \/ \E q \in XmitSlots, b \in Waiting, sane \in BOOLEAN : StartXmit(q, b, sane)
     \/ \E q \in XmitSlots, fault \in {"none", "acquire", "eroute"} : RunXsm(q, fault, "fits")
     \/ \E q \in XmitSlots, done \in BOOLEAN : ResumeXmit(q, done, "none", "fits")
     \/ \E q \in XmitSlots : Complete(q, TRUE)
     \/ XmitFlows /\ UNCHANGED irs

MCInit ==
  /\ RwInit
  /\ \/ KlipsInit /\ XmitInit /\ part \in {"all", "groups", "refs", "window"}
     \/ part = "bundle" /\ Started(BundleDb, {tunSaid}, {data1, data2})
     \/ part = "holds" /\ Started(BundleDb, {"TRAP", "TRAPSUBNET"}, {data1, data2})
     \/ part = "number" /\ Started(NumberDb, {espSaid}, Skbs)
MCNext ==
  \/ /\ \/ (All \/ Groups \/ ManyRefs) /\ UNCHANGED xmitVars
        \/ Sending
        \/ Holding
     /\ messages' <= Messages[part]
     /\ arrivals' <= Arrivals[part]
     /\ UNCHANGED <<rwVars, part>>
  \/ /\ part = "window"
     /\ RwNext
     /\ UNCHANGED <<klipsVars, xmitVars, part>>
MCSpec == MCInit /\ [][MCNext]_<<klipsVars, xmitVars, rwVars, part>>
=============================================================================
