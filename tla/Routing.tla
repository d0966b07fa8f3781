------------------------------- MODULE Routing -------------------------------
(* Routes, eroutes and IPsec SAs of pluto's connections on the NETKEY stack:   *)
(* kernel.c, route_owner of connections.c, the eroutes of kernel_netlink.c and *)
(* the operations that call them.  pluto records for each connection a routing *)
(* kind and the state that owns its eroute; the kernel has policies, SAs and   *)
(* routes of its own, changed by calls and by the updown script, which may     *)
(* fail.  Co-terminal pairs of a template and a permanent connection           *)
(* (note_nearconflict) are left out, and so are opportunistic ones.            *)
EXTENDS Integers, Sequences, SequencesExt, FiniteSets, FiniteSetsExt

CONSTANTS
  Scenarios,  \* the configurations: connections, protocols, version, the calls
              \* that may fail and the number of IPsec states ever made
  MaxLoads,   \* number of times a connection is loaded or instantiated
  MaxFaults   \* number of handlers in which a call fails

VARIABLES
  scen,   \* the scenario, chosen once
  rt,     \* pluto's connections and states, and the kernel
  loads,  \* connections loaded so far
  faults  \* calls failed so far

routingVars == <<scen, rt, loads, faults>>

None == "none"
Nobody == 0
Conn(c) == scen.conns[c]
Sel(c) == <<Conn(c).ours, Conn(c).his>>
Sels == {Sel(c) : c \in DOMAIN scen.conns}
Nets == {Conn(c).his : c \in DOMAIN scen.conns}

\* enum routing_t, the kinds that connections which are not opportunistic have.
Rank(routing) ==
  CASE routing = "UNROUTED" -> 0
    [] routing = "PROSPECTIVE" -> 3
    [] routing = "FAILURE" -> 5
    [] routing = "TUNNEL" -> 6
routed(routing) == Rank(routing) > 1
erouted(routing) == routing # "UNROUTED"

\* A connection as add_connection and instantiate leave it.
Fresh == [routing |-> "UNROUTED", owner |-> Nobody]
Loaded(w, c) == Contains(w.list, c)
Load(w, c) == [w EXCEPT !.list = <<c>> \o @, !.conn[c] = Fresh]
\* conn_by_name moves what it finds to the front.
MoveToFront(w, c) == [w EXCEPT !.list = <<c>> \o SelectSeq(@, LAMBDA d : d # c)]
\* The loaded connections of c's name, c itself first.
SameName(w, c) == SelectSeq(MoveToFront(w, c).list, LAMBDA d : Conn(d).name = Conn(c).name)

\* Serial numbers of the live states, of those of a connection.
LiveSt(w) == {n \in DOMAIN w.st : w.st[n].c # None}
StatesOf(w, c) == {n \in LiveSt(w) : w.st[n].c = c}

-----------------------------------------------------------------------------
\* route_owner.  The list is walked from its head and a later connection has to
\* be strictly better; connections at this end of the same address.
FirstOf(w, c, others, top) ==
  IF top = Rank(w.conn[c].routing) THEN c
  ELSE SelectSeq(w.list, LAMBDA d : d \in others /\ Rank(w.conn[d].routing) = top)[1]
BestOf(w, c, others) ==
  FirstOf(w, c, others, Max({Rank(w.conn[d].routing) : d \in others \cup {c}}))

SharesRoute(w, c) ==
  {d \in ToSet(w.list) \ {c} : /\ w.conn[d].routing # "UNROUTED"
                               /\ Conn(d).his = Conn(c).his}

route_owner(w, c) ==
  LET b == BestOf(w, c, SharesRoute(w, c))
  IN  IF routed(w.conn[b].routing) THEN b ELSE None

\* *erop of route_owner.
eroute_owner(w, c) ==
  LET b == BestOf(w, c, {d \in SharesRoute(w, c) : Sel(d) = Sel(c)})
  IN  IF erouted(w.conn[b].routing) THEN b ELSE None

routes_agree(c, d) == Conn(c).hop = Conn(d).hop

\* could_route, TRUE for route_easy.  Without overlap_supported a route that
\* disagrees cannot be stolen.
Compatible(c, ro, ero) ==
  /\ Conn(c).kind = "TEMPLATE" => Conn(c).client
  /\ ro # None => routes_agree(ro, c)
  /\ \/ ero \in {None, c}
     \/ Conn(ero).kind = "TEMPLATE" /\ Conn(ero).name = Conn(c).name
     \/ Conn(c).overlap \/ Conn(ero).overlap
could_route(w, c) == Compatible(c, route_owner(w, c), eroute_owner(w, c))

-----------------------------------------------------------------------------
\* The kernel's policies.  A connection's tunnel is told from another's by its
\* reqid.  shunt_policy_spi and netlink_shunt_eroute; nothing is ever recorded
\* as eclipsed.
shunt_policy_spi(c, routing) ==
  IF routing = "PROSPECTIVE" THEN Conn(c).shunt ELSE Conn(c).failure

\* A policy that is not there cannot be deleted, and the inbound one is then
\* left alone.
DeleteEroute(w, c) ==
  IF w.out[Sel(c)] = None THEN w
  ELSE [w EXCEPT !.out[Sel(c)] = None, !.in[Sel(c)] = None]

PolicyOp(w, c, spi, op) ==
  CASE op = "delete" \/ (op = "replace" /\ spi = None) -> DeleteEroute(w, c)
    [] op = "replace" /\ spi # None -> [w EXCEPT !.out[Sel(c)] = spi]
    [] op = "add" /\ spi = "trap" -> [w EXCEPT !.out[Sel(c)] = spi]
    [] op = "add" /\ spi \notin {"trap", None} ->
         [w EXCEPT !.out[Sel(c)] = spi, !.in[Sel(c)] = spi]
    [] OTHER -> w
shunt_eroute(w, c, routing, op) == PolicyOp(w, c, shunt_policy_spi(c, routing), op)

sag_eroute(w, n) == [w EXCEPT !.out[Sel(w.st[n].c)] = w.st[n].c]

\* The updown script.
do_command(w, c, verb) ==
  CASE verb = "up" -> [w EXCEPT !.up = @ \cup {c}]
    [] verb = "down" -> [w EXCEPT !.up = @ \ {c}]
    [] verb = "route" -> [w EXCEPT !.route[Conn(c).his] = Conn(c).hop]
    [] verb = "unroute" -> [w EXCEPT !.route[Conn(c).his] = None]

\* Mutant: the route goes also when another connection shares it.
UnrouteShared(w, c, was) == IF routed(was) THEN do_command(w, c, "unroute") ELSE w

\* unroute_connection: the eroute goes, and the route unless it is shared.
UnrouteAlone(w, c, was) ==
  IF routed(was) /\ route_owner(w, c) = None THEN do_command(w, c, "unroute") ELSE w
Unrouted(w, c, was) == [w EXCEPT !.conn[c].routing = "UNROUTED", !.died = @ \/ was = "TUNNEL"]
unroute_connection(w, c) ==
  LET was == w.conn[c].routing IN
  UnrouteAlone(Unrouted(IF erouted(was) THEN shunt_eroute(w, c, "UNROUTED", "delete") ELSE w,
                        c, was), c, was)

-----------------------------------------------------------------------------
\* setup_half_ipsec_sa: the SAs of one direction, inner protocol first; F are the
\* calls that fail, here the one for the outermost SA.  What was added before it
\* stays: the undo loop looks at a field that is never set.  The inbound policy
\* belongs to the connection and is added with its first SA only.
Dir(inbound) == IF inbound THEN "in" ELSE "out"
netlink_add_sa(w, said) == [w EXCEPT !.sa = @ \cup {said}]
AddSa(r, n, dir, proto, F) ==
  IF ~ r.ok \/ proto \notin ToSet(scen.protos) THEN r
  ELSE IF dir \in F /\ proto = Last(scen.protos) THEN [r EXCEPT !.ok = FALSE]
  ELSE [r EXCEPT !.w = netlink_add_sa(@, <<n, dir, proto>>)]
IpcompSa(r, n, dir, F) == AddSa(r, n, dir, "ipcomp", F)
EspSa(r, n, dir, F) == AddSa(r, n, dir, "esp", F)
AhSa(r, n, dir, F) == AddSa(r, n, dir, "ah", F)
ArrivalCheck(r, c, inbound) ==
  IF r.ok /\ inbound /\ r.w.conn[c].owner = Nobody THEN [r EXCEPT !.w.in[Sel(c)] = c] ELSE r
setup_half_ipsec_sa(w, n, inbound, F) ==
  LET dir == Dir(inbound) IN
  ArrivalCheck(AhSa(EspSa(IpcompSa([ok |-> TRUE, w |-> w], n, dir, F), n, dir, F), n, dir, F),
               w.st[n].c, inbound)

\* teardown_half_ipsec_sa of both directions.
teardown_ipsec_sa(w, n) ==
  LET c == w.st[n].c IN
  [w EXCEPT !.sa = {s \in @ : s[1] # n},
            !.in[Sel(c)] = IF w.conn[c].owner = Nobody THEN None ELSE @]

\* Mutant: the connection keeps the deleted state as the owner of its eroute.
DeleteSaKeepsOwner(w, n) == teardown_ipsec_sa(w, n)

\* delete_ipsec_sa: the owner's eroute is replaced by a shunt first.
Shunted(w, c, kind) ==
  IF Conn(c).dont_rekey /\ Conn(c).kind = "INSTANCE" /\ c \notin w.going
  THEN unroute_connection(w, c) ELSE shunt_eroute(w, c, kind, "replace")
Disowned(w, c, kind) ==
  Shunted(do_command([w EXCEPT !.conn[c] = [routing |-> kind, owner |-> Nobody]], c, "down"),
          c, kind)
delete_ipsec_sa(w, n) ==
  LET c == w.st[n].c
      owns == w.conn[c].owner = n /\ w.conn[c].routing = "TUNNEL"
      kind == IF Conn(c).failure = None THEN "PROSPECTIVE" ELSE "FAILURE"
  IN  teardown_ipsec_sa(IF owns THEN Disowned(w, c, kind) ELSE w, n)

-----------------------------------------------------------------------------
\* release_connection of a connection that is going away, and its removal.
Removed(w, c) ==
  [w EXCEPT !.list = SelectSeq(@, LAMBDA d : d # c), !.going = @ \ {c}, !.ike = @ \ {c}]
FreeConnection(w, c) == Removed(unroute_connection(w, c), c)

connection_discard(w, c) ==
  IF Conn(c).kind = "INSTANCE" /\ c \notin w.going \cup w.ike /\ StatesOf(w, c) = {}
  THEN FreeConnection(w, c) ELSE w

\* delete_state of an IPsec state.
delete_state(w, n) ==
  connection_discard([(IF w.st[n].phase = "new" THEN w ELSE delete_ipsec_sa(w, n))
                        EXCEPT !.st[n] = [c |-> None]], w.st[n].c)

\* delete_states_by_connection: the states, and its passerts.
Asserted(w, c) ==
  [w EXCEPT !.died = @ \/ w.conn[c].owner # Nobody \/ w.conn[c].routing = "TUNNEL"]
delete_states(w, c) ==
  Asserted(FoldLeft(delete_state, [w EXCEPT !.ike = @ \ {c}], SetToSortSeq(StatesOf(w, c), <)), c)

delete_connection(w, c) ==
  FreeConnection(delete_states([w EXCEPT !.going = @ \cup {c}], c), c)

release_connection(w, c) ==
  IF Conn(c).kind = "INSTANCE" THEN delete_connection(w, c)
  ELSE unroute_connection(delete_states(w, c), c)

-----------------------------------------------------------------------------
\* route_and_eroute of connection c, for state n or for a trap (n = Nobody).
\* Unwinding a failure asserts that another connection owned the eroute.
Unwound(w, c, n, ero) ==
  CASE ero = c -> [w EXCEPT !.died = TRUE]
    [] ero = None -> IF n = Nobody THEN shunt_eroute(w, c, w.conn[c].routing, "delete")
                     ELSE [w EXCEPT !.out[Sel(c)] = None]
    [] OTHER -> IF w.conn[ero].owner = Nobody
                THEN shunt_eroute(w, ero, w.conn[ero].routing, "replace")
                ELSE sag_eroute(w, w.conn[ero].owner)

\* The new eroute in the kernel, and the connection once all is done.
NewEroute(w, c, n, ero) ==
  IF n # Nobody THEN sag_eroute(w, n)
  ELSE shunt_eroute(w, c, "PROSPECTIVE", IF ero = None THEN "add" ELSE "replace")
Recorded(w, c, n) ==
  [w EXCEPT !.conn[c] = [routing |-> IF n = Nobody THEN "PROSPECTIVE" ELSE "TUNNEL", owner |-> n]]

\* Mutant: the new policy is left in place when the route cannot be had.
RouteNotUnwound(w, c, n, ro, ero, fails) ==
  LET told == n = Nobody \/ w.conn[c].owner # Nobody
      up(x) == IF told THEN x ELSE do_command(x, c, "up")
      down(x) == IF w.conn[c].owner = Nobody THEN do_command(x, c, "down") ELSE x
      route(x) == IF ro = None THEN do_command(x, c, "route") ELSE x
      new == NewEroute(w, c, n, ero)
  IN  CASE "eroute" \in fails -> w
        [] "up" \in fails -> new
        [] "route" \in fails -> down(up(new))
        [] fails = {} -> Recorded(route(up(new)), c, n)

\* The first call that fails ends it: the eroute, "up" of the firewall, the route.
RouteSteps(w, c, n, ro, ero, fails) ==
  LET told == n = Nobody \/ w.conn[c].owner # Nobody
      up(x) == IF told THEN x ELSE do_command(x, c, "up")
      down(x) == IF w.conn[c].owner = Nobody THEN do_command(x, c, "down") ELSE x
      route(x) == IF ro = None THEN do_command(x, c, "route") ELSE x
      new == NewEroute(w, c, n, ero)
  IN  CASE "eroute" \in fails -> w
        [] "up" \in fails -> Unwound(new, c, n, ero)
        [] "route" \in fails -> Unwound(down(up(new)), c, n, ero)
        [] fails = {} -> Recorded(route(up(new)), c, n)

\* Which of the calls F are made: "up" for the first state, the route when nobody
\* has it.
Reached(w, c, n, ro, F) ==
  {f \in F : \/ f = "eroute"
             \/ f = "up" /\ n # Nobody /\ w.conn[c].owner = Nobody
             \/ f = "route" /\ ro = None}
RouteWith(w, c, n, ro, ero, fails) ==
  [ok |-> fails = {}, w |-> RouteSteps(w, c, n, ro, ero, fails)]
RouteFor(w, c, n, ro, ero, F) == RouteWith(w, c, n, ro, ero, Reached(w, c, n, ro, F))
route_and_eroute(w, c, n, F) == RouteFor(w, c, n, route_owner(w, c), eroute_owner(w, c), F)

trap_connection(w, c, F) ==
  IF could_route(w, c) /\ Rank(w.conn[c].routing) < Rank("TUNNEL")
  THEN route_and_eroute(w, c, Nobody, F).w ELSE w

\* The outgoing SA, unless it has been set up already.
OutboundDone(half, n) == [half EXCEPT !.w.st[n].outbound_done = half.ok]
SetupOutbound(w, n, F) ==
  IF w.st[n].outbound_done THEN [ok |-> TRUE, w |-> w]
  ELSE OutboundDone(setup_half_ipsec_sa(w, n, FALSE, F), n)
ThenInbound(r, n, inbound_also, F) ==
  IF inbound_also /\ r.ok THEN setup_half_ipsec_sa(r.w, n, TRUE, F) ELSE r
DeletedUnless(r, n) == IF r.ok THEN r ELSE [ok |-> FALSE, w |-> delete_ipsec_sa(r.w, n)]
ThenRoute(r, n, F) ==
  IF r.ok THEN DeletedUnless(route_and_eroute(r.w, r.w.st[n].c, n, F), n) ELSE r

install_ipsec_sa(w, n, inbound_also, F) ==
  IF could_route(w, w.st[n].c)
  THEN ThenRoute(ThenInbound(SetupOutbound(w, n, F), n, inbound_also, F), n, F)
  ELSE [ok |-> FALSE, w |-> w]

\* install_inbound_ipsec_sa: connections in the way of the route are released
\* until the owner of the route is this one or has the same peer.
RECURSIVE ReleaseObsolete(_, _)
ReleaseObsolete(w, c) ==
  LET o == route_owner(w, c) IN
  IF o \in {None, c} \/ Conn(o).peer = Conn(c).peer THEN w
  ELSE ReleaseObsolete(release_connection(w, o), c)

SetupBoth(w, n, F) ==
  IF could_route(w, w.st[n].c) THEN ThenInbound(SetupOutbound(w, n, F), n, TRUE, F)
  ELSE [ok |-> FALSE, w |-> w]
install_inbound_ipsec_sa(w, n, F) ==
  LET c == w.st[n].c IN
  SetupBoth(IF Conn(c).client THEN ReleaseObsolete(w, c) ELSE w, n, F)

\* ISAKMP_SA_established with uniqueids: older connections of the same name and
\* peer identity are released.
ISAKMP_SA_established(w, c) ==
  FoldLeft(release_connection, [w EXCEPT !.ike = @ \cup {c}],
           SelectSeq(w.list, LAMBDA d :
             d # c /\ \A f \in {"kind", "name", "id"} : Conn(d)[f] = Conn(c)[f]))

-----------------------------------------------------------------------------
RoutingInit ==
  /\ scen \in Scenarios
  /\ rt = [list |-> <<>>,
           conn |-> [c \in DOMAIN scen.conns |-> Fresh],
           going |-> {}, ike |-> {}, st |-> <<>>, sa |-> {},
           out |-> [s \in Sels |-> None], in |-> [s \in Sels |-> None],
           route |-> [n \in Nets |-> None], up |-> {}, died |-> FALSE]
  /\ loads = 0 /\ faults = 0

FaultSets == {{}} \cup IF faults < MaxFaults THEN {{f} : f \in scen.calls} ELSE {}

\* One pass of the event loop, in which the calls F fail.
Handle(w, F) ==
  /\ rt' = w
  /\ faults' = faults + Cardinality(F)
  /\ UNCHANGED <<scen, loads>>

add_connection(c) ==
  /\ ~ Loaded(rt, c) /\ Conn(c).kind # "INSTANCE" /\ loads < MaxLoads
  /\ rt' = Load(rt, c) /\ loads' = loads + 1
  /\ UNCHANGED <<scen, faults>>

\* rw_instantiate, for a peer that negotiates phase 1 with the template.
rw_instantiate(c) ==
  /\ ~ Loaded(rt, c) /\ Conn(c).kind = "INSTANCE" /\ loads < MaxLoads
  /\ \E t \in ToSet(rt.list) : Conn(t).kind = "TEMPLATE" /\ Conn(t).name = Conn(c).name
  /\ rt' = ISAKMP_SA_established(Load(rt, c), c) /\ loads' = loads + 1
  /\ UNCHANGED <<scen, faults>>

\* whack names a connection that is not an instance.
Named(c) == Loaded(rt, c) /\ Conn(c).kind # "INSTANCE"

delete_connections_by_name(c) ==
  Named(c) /\ Handle(FoldLeft(delete_connection, rt, SameName(rt, c)), {})

whack_route_connection(c, F) ==
  Named(c) /\ Handle(trap_connection(MoveToFront(rt, c), c, F), F)

whack_unroute_connection(c) ==
  /\ Named(c) /\ Rank(rt.conn[c].routing) < Rank("TUNNEL")
  /\ Handle(unroute_connection(MoveToFront(rt, c), c), {})

\* terminate_a_connection, with a phase 1 of its own.
terminate_a_connection(w, c) ==
  CASE Conn(c).kind = "TEMPLATE" -> w
    [] Conn(c).kind = "INSTANCE" -> delete_connection(w, c)
    [] Conn(c).kind = "PERMANENT" -> delete_states(w, c)

terminate_connection(c) ==
  Named(c) /\ Handle(FoldLeft(terminate_a_connection, MoveToFront(rt, c), SameName(rt, c)), {})

\* The last ISAKMP SA of an instance goes.
IkeGone(c) ==
  /\ c \in rt.ike /\ Conn(c).kind = "INSTANCE"
  /\ LET w == [rt EXCEPT !.ike = @ \ {c}] IN
     Handle(IF StatesOf(rt, c) = {} THEN FreeConnection(w, c) ELSE w, {})

\* Quick Mode or CREATE_CHILD_SA has made a state that is ready for its keys.
NewState(c, role) ==
  /\ Loaded(rt, c) /\ Conn(c).kind # "TEMPLATE" /\ Conn(c).shunt = "trap"
  /\ Len(rt.st) < scen.sas
  /\ Handle([rt EXCEPT !.st = Append(@, [c |-> c, role |-> role, phase |-> "new",
                                          outbound_done |-> FALSE, tried |-> FALSE])], {})

Established(r, n, phase) == [r.w EXCEPT !.st[n].phase = phase]

\* IKEv2, both sides: a failure deletes the state.
ikev2_child_sa_respond(n, F) ==
  /\ n \in LiveSt(rt) /\ scen.version = 2 /\ rt.st[n].phase = "new"
  /\ \E r \in {install_ipsec_sa(rt, n, TRUE, F)} :
       Handle(IF r.ok THEN Established(r, n, "up") ELSE delete_state(r.w, n), F)

\* IKEv1, initiator: after a failure the peer's packet may come again.
quick_inR1_outI2(n, F) ==
  /\ n \in LiveSt(rt) /\ scen.version = 1 /\ rt.st[n].role = "I" /\ rt.st[n].phase = "new"
  /\ \E r \in {install_ipsec_sa(rt, n, TRUE, F)} :
       Handle(IF r.ok THEN Established(r, n, "up") ELSE [r.w EXCEPT !.st[n].tried = TRUE], F)

quick_inI1_outR1(n, F) ==
  /\ n \in LiveSt(rt) /\ scen.version = 1 /\ rt.st[n].role = "R" /\ rt.st[n].phase = "new"
  /\ \E r \in {install_inbound_ipsec_sa(rt, n, F)} :
       Handle(IF r.ok THEN Established(r, n, "in") ELSE [r.w EXCEPT !.st[n].tried = TRUE], F)

quick_inI2(n, F) ==
  /\ n \in LiveSt(rt) /\ scen.version = 1 /\ rt.st[n].phase = "in"
  /\ \E r \in {install_ipsec_sa(rt, n, FALSE, F)} :
       Handle(IF r.ok THEN Established(r, n, "up") ELSE [r.w EXCEPT !.st[n].tried = TRUE], F)

\* Expiry, Delete of the peer, or the end of the retries.
DeleteState(n) == n \in LiveSt(rt) /\ Handle(delete_state(rt, n), {})

RoutingNext ==
  /\ ~ rt.died
  /\ \/ \E c \in DOMAIN scen.conns :
          \/ add_connection(c)
          \/ rw_instantiate(c)
          \/ delete_connections_by_name(c)
          \/ \E F \in FaultSets : whack_route_connection(c, F)
          \/ whack_unroute_connection(c)
          \/ terminate_connection(c)
          \/ IkeGone(c)
          \/ \E role \in {"I", "R"} : NewState(c, role)
     \/ \E n \in DOMAIN rt.st :
          \/ \E F \in FaultSets : ikev2_child_sa_respond(n, F)
          \/ \E F \in FaultSets : quick_inR1_outI2(n, F)
          \/ \E F \in FaultSets : quick_inI1_outR1(n, F)
          \/ \E F \in FaultSets : quick_inI2(n, F)
          \/ DeleteState(n)

-----------------------------------------------------------------------------
\* What pluto records of a connection is what the kernel does with its traffic: a
\* tunnel is owned by an established state of the connection (eroute_owner) whose
\* SAs of both directions are in the kernel and which the outgoing policy uses, and
\* a connection routed without one has its shunt there.  Exempt are an IKEv1 state
\* whose first installation failed, connections that share selectors with another
\* of their name, and the inbound policy of IKEv1 or of shared selectors.
EroutesBacked == ~ rt.died =>
  \A c \in ToSet(rt.list) :
    LET n == rt.conn[c].owner
        routing == rt.conn[c].routing
        others == {d \in DOMAIN scen.conns \ {c} : Sel(d) = Sel(c)}
        eclipses == \E d \in others : Conn(d).name = Conn(c).name
    IN  /\ routing = "TUNNEL" =>
             /\ n \in StatesOf(rt, c) /\ rt.st[n].phase = "up"
             /\ \/ rt.st[n].tried
                \/ \A p \in ToSet(scen.protos), d \in {"in", "out"} : <<n, d, p>> \in rt.sa
             /\ eclipses \/ rt.out[Sel(c)] = c
             /\ scen.version = 2 /\ others = {} => rt.in[Sel(c)] = c
        /\ routing \in {"PROSPECTIVE", "FAILURE"} /\ ~ eclipses =>
             rt.out[Sel(c)] = shunt_policy_spi(c, routing)

\* The updown script has been told what pluto records: there is a route to a net
\* while some connection to it is routed, as unroute_connection and
\* route_and_eroute share it, and "up" was run, without "down", for the tunnels.
RoutesMatch == ~ rt.died =>
  /\ \A net \in Nets : rt.route[net] # None <=>
       \E c \in ToSet(rt.list) : Conn(c).his = net /\ routed(rt.conn[c].routing)
  /\ rt.up = {c \in ToSet(rt.list) : rt.conn[c].routing = "TUNNEL"}

\* Nothing stays in the kernel without an owner, whatever was deleted, released or
\* unwound in between: SAs belong to states, outgoing policies to connections that
\* are routed and inbound ones of a tunnel to connections with a state.  Where
\* adding an SA fails the undo of setup_half_ipsec_sa leaves one behind.
NoLeftovers == ~ rt.died /\ scen.calls \subseteq {"eroute", "up", "route"} =>
  /\ \A s \in rt.sa : s[1] \in LiveSt(rt)
  /\ \A s \in Sels :
       /\ rt.out[s] # None =>
            \E c \in ToSet(rt.list) : Sel(c) = s /\ erouted(rt.conn[c].routing)
       /\ rt.in[s] \in DOMAIN scen.conns => StatesOf(rt, rt.in[s]) # {}

\* The passerts of delete_states_by_connection (no owner, no tunnel left) and of
\* unroute_connection hold, as long as no call fails.
RoutingPasserts == faults = 0 => ~ rt.died
=============================================================================
