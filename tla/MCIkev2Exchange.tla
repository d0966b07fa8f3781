-------------------------- MODULE MCIkev2Exchange --------------------------
(* Ikev2Exchange with small windows and few messages.                      *)
EXTENDS Ikev2Exchange

Config(requesters, probers, pfs, mayReject, mayGiveUp, maxUseI, maxUseR) ==
  [requesters |-> requesters, probers |-> probers, deleters |-> probers,
   pfs |-> pfs, mayReject |-> mayReject, mayGiveUp |-> mayGiveUp,
   maxUse |-> [p \in Peers |-> IF p = "I" THEN maxUseI ELSE maxUseR]]

\* Messages 0 and 1 of the original initiator are used up by IKE_SA_INIT and
\* IKE_AUTH.  Only one side asks for children and deletes them, or both ask.
OneWay == Config({"I"}, {"I"}, TRUE, TRUE, TRUE, 5, 0)
BothWays == [Config({"I", "R"}, {"R"}, FALSE, FALSE, TRUE, 3, 2)
               EXCEPT !.deleters = {"I"}]
OtherWay == Config({"R"}, {"R"}, FALSE, FALSE, FALSE, 2, 3)
OneWayOrBoth == {OneWay, OtherWay, BothWays}
=============================================================================
