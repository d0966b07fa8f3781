---------------------------- MODULE MCLiveness ----------------------------
(***************************************************************************)
(* What is waited for comes: a crypto helper's answer (CryptoHelpers, one  *)
(* helper and no failures) and the child SA that was asked for             *)
(* (Ikev2Exchange, with lost packets).  A behaviour is one of the first or *)
(* one of the second.                                                      *)
(***************************************************************************)
EXTENDS Naturals

VARIABLES phase, pcw_id, place, owner, backlog_queue_len, start, pcw_dead,
          pcw_work, requests, thread, answers, faults, failed
VARIABLES conf, ike, child, net, lost, handled
VARIABLE part

CONSTANTS States, NoState

C == INSTANCE CryptoHelpers WITH
       Sts <- States, Nobody <- NoState, Chain <- [s \in States |-> s], Workers <- {0},
       MaxBasic <- 1, MaxCrit <- 2, Starts <- {"ok"}, MaxReq <- 4, MaxFaults <- 0

\* The initiator asks for four children, with PFS, and nobody gives up.
FourFromInitiator ==
  {[requesters |-> {"I"}, probers |-> {}, deleters |-> {}, pfs |-> TRUE,
    mayReject |-> FALSE, mayGiveUp |-> FALSE, maxUse |-> [I |-> 6, R |-> 0]]}

E == INSTANCE Ikev2Exchange WITH
       Configs <- FourFromInitiator, Window <- 1, MsgidMod <- 8, NSlots <- 3,
       MaxQueue <- 2, MaxLoss <- 2

cvars == <<phase, pcw_id, place, owner, backlog_queue_len, start, pcw_dead,
           pcw_work, requests, thread, answers, faults, failed>>
evars == <<conf, ike, child, net, lost, handled>>
vars == <<part, cvars, evars>>

Init == part \in {"crypto", "exchange"} /\ C!Init /\ E!Init

\* A step of one part leaves the other alone.
Crypto(A) == part = "crypto" /\ A /\ UNCHANGED <<part, evars>>
Exchange(A) == part = "exchange" /\ A /\ UNCHANGED <<part, cvars>>

Next == \/ Crypto(C!Next)
        \/ Exchange(E!Next)

\* The conditions of CryptoHelpers!Fairness and Ikev2Exchange!Fairness.
Fairness ==
  /\ WF_vars(Crypto(C!HelperStep(0))) /\ WF_vars(Crypto(C!handle_helper_answer(0)))
  /\ \A p \in E!Peers, c \in E!Slots :
       /\ WF_vars(Exchange(E!add_st_send_list(p, c) /\ UNCHANGED conf))
       /\ WF_vars(Exchange(E!ikev2_child_send_next(p, c) /\ UNCHANGED conf))
       /\ WF_vars(Exchange(E!ReplyChild(p, c) /\ UNCHANGED conf))
       /\ WF_vars(Exchange(E!ChildReplyDone(p, c) /\ UNCHANGED conf))
       /\ WF_vars(Exchange(E!Resend(p, c) /\ UNCHANGED conf))
  /\ \A p \in E!Peers, resp \in BOOLEAN, id \in E!Msgids :
       WF_vars(Exchange(E!Delivered(p, resp, id) /\ UNCHANGED conf))

Spec == Init /\ [][Next]_vars /\ Fairness

\* See CryptoHelpers: every computation is answered or given up.
Answered == C!Answered
\* See Ikev2Exchange: a child that is asked for is established.
RequestedIsEstablished == E!RequestedIsEstablished
=============================================================================
