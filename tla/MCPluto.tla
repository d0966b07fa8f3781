------------------------------- MODULE MCPluto -------------------------------
(* Instances for TLC of the modules about one pluto daemon or a pair of them.   *)
(* The part of the system a behaviour exercises is chosen once, and its          *)
(* variables are the only ones that change:                                      *)
(*   ikev1    Ikev1, two daemons that negotiate                                  *)
(*   routing  Routing, the connections of one daemon and its kernel              *)
EXTENDS Ikev1
CONSTANTS west, east, c1, c2, Scenarios, MaxLoads, MaxFaults
VARIABLES part, scen, rt, loads, faults

R == INSTANCE Routing

\* Ikev1: losses, copies, refused jobs, early and late timers, slow jobs.
Scenario(mode, pfs, w, e, losses, copies, refusals, early, late, slow) ==
  [mode |-> mode, pfs |-> pfs, first |-> c1, start |-> (west :> w @@ east :> e),
   losses |-> losses, copies |-> copies, refusals |-> refusals, early |-> early,
   late |-> late, slow |-> slow]
MCConfigs == {Scenario("main", FALSE, {c1, c2}, {}, 1, 1, 0, 0, 0, 0),
   Scenario("main", FALSE, {c1}, {}, 3, 1, 0, 0, 0, 0),
   Scenario("main", FALSE, {c1}, {}, 1, 1, 1, 0, 0, 0),
   Scenario("main", TRUE, {c1}, {c1}, 1, 0, 0, 0, 0, 0),
   Scenario("main", TRUE, {c1}, {}, 0, 1, 1, 1, 0, 1),
   Scenario("main", FALSE, {c1}, {}, 0, 0, 0, 0, 2, 0),
   Scenario("main", FALSE, {c1}, {}, 0, 1, 0, 0, 1, 0),
   Scenario("aggr", TRUE, {c1}, {}, 1, 1, 1, 0, 0, 1),
   Scenario("aggr", FALSE, {c1}, {}, 0, 0, 0, 1, 1, 0)}

\* Routing: two connections to one net, with one peer or with two; a template and
\* the instances of two peers, of two identities or one; a pass connection.
Connection(kind, name, ours, peer, id) ==
  [kind |-> kind, name |-> name, ours |-> ours, his |-> "R", peer |-> peer, id |-> id,
   hop |-> "h1", shunt |-> "trap", failure |-> "none", dont_rekey |-> FALSE,
   overlap |-> FALSE, client |-> TRUE]
TwoNets == ("a" :> Connection("PERMANENT", "a", "L1", "p1", "i"))
        @@ ("b" :> Connection("PERMANENT", "b", "L2", "p1", "i"))
TwoPeers == ("a" :> [Connection("PERMANENT", "a", "L1", "p1", "i") EXCEPT !.failure = "drop"])
         @@ ("b" :> Connection("PERMANENT", "b", "L1", "p2", "j"))
Pass == [TwoNets EXCEPT !["a"].shunt = "pass"]
Roadwarriors(id, dont_rekey) ==
  LET all == ("t" :> Connection("TEMPLATE", "t", "L1", "any", "i"))
          @@ ("i1" :> Connection("INSTANCE", "t", "L1", "p1", "i"))
          @@ ("i2" :> Connection("INSTANCE", "t", "L1", "p2", id))
  IN  [c \in DOMAIN all |-> [all[c] EXCEPT !.dont_rekey = dont_rekey]]
Routed(conns, version, sas, calls, protos) ==
  [conns |-> conns, version |-> version, sas |-> sas, calls |-> calls, protos |-> protos]
Script == {"eroute", "up", "route"}
MCScenarios ==
  {Routed(TwoNets, 1, 2, Script, <<"esp">>), Routed(TwoNets, 2, 3, Script, <<"esp">>),
   Routed(TwoPeers, 1, 2, Script, <<"esp">>), Routed(TwoPeers, 2, 2, Script, <<"esp">>),
   Routed(Pass, 2, 2, Script, <<"esp">>),
   Routed(TwoNets, 1, 2, {"in", "out"}, <<"ipcomp", "esp">>),
   Routed(TwoNets, 2, 2, {"in", "out"}, <<"esp", "ah">>)} \cup
  {Routed(Roadwarriors(id, d), v, 2, {}, <<"esp">>) :
     id \in {"i", "j"}, d \in BOOLEAN, v \in {1, 2}}

PlutoInit ==
  /\ Ikev1Init /\ R!RoutingInit /\ part \in {"ikev1", "routing"}
  /\ part # "ikev1" => conf = CHOOSE c \in MCConfigs : TRUE
  /\ part # "routing" => scen = CHOOSE s \in MCScenarios : TRUE
PlutoNext ==
  \/ /\ part = "ikev1" /\ Ikev1Next
     /\ UNCHANGED <<part, scen, rt, loads, faults>>
  \/ /\ part = "routing" /\ R!RoutingNext
     /\ UNCHANGED <<part, ikev1Vars>>
PlutoSpec == PlutoInit /\ [][PlutoNext]_<<part, ikev1Vars, scen, rt, loads, faults>>

\* Routing!EroutesBacked: what pluto records of a connection is what the kernel's
\* policies and SAs do with its traffic.
EroutesBacked == R!EroutesBacked

\* Routing!RoutesMatch: routes and "up" are those of the connections recorded as
\* routed and as tunnels.
RoutesMatch == R!RoutesMatch

\* Routing!NoLeftovers: no SA or policy stays in the kernel without an owner.
NoLeftovers == R!NoLeftovers

\* Routing!RoutingPasserts: the passerts of the routing code hold.
RoutingPasserts == R!RoutingPasserts
=============================================================================
