--------------------------- MODULE Ikev2Proposals ---------------------------
(***************************************************************************)
(* IKEv2 proposals (programs/pluto/ikev2_spdb_struct.c) and the handlers   *)
(* of ikev2_parent.c that build, offer, choose and accept them: the IKE    *)
(* SA's in IKE_SA_INIT, with the key exchange group and INVALID_KE, and    *)
(* the child's in IKE_AUTH and in CREATE_CHILD_SA, with and without PFS.   *)
(*                                                                         *)
(* Each peer has one connection.  The connection caches the lists it built *)
(* (c->ike_proposals, c->esp_or_ah_proposals), and every exchange of the   *)
(* connection, in either role, uses the same cache.                        *)
(***************************************************************************)
EXTENDS Integers, Sequences, FiniteSetsExt, SequencesExt

CONSTANTS Scenarios,   \* the configurations of the two peers
          Foreign,     \* requests of implementations other than pluto
          Sas,         \* names of IKE SAs
          Kids,        \* names of child exchanges, 1..n
          Retries      \* MAXIMUM_INVALID_KE_RETRANS

VARIABLES conf, ike_proposals, esp_or_ah_proposals, ike, kid

vars == <<conf, ike_proposals, esp_or_ah_proposals, ike, kid>>

Peers == {"A", "B"}
Other(p) == CHOOSE q \in Peers : q # p

\* enum ikev2_trans_type in order; in_struct reads any other as "zero" or
\* as a type past the ROOF.
Types == <<"encr", "prf", "integ", "dh", "esn">>
TypeSet == ToSet(Types)

None == "none"           \* id 0, and the NULL group
NoInfo == <<>>           \* alg_info == NULL
NoList == <<>>           \* a list not built yet
NoAttrs == [encr |-> None]

Tr(id) == [id |-> id, keylen |-> 0]
Key(id, len) == [id |-> id, keylen |-> len]
Ids(ids) == [i \in 1..Len(ids) |-> Tr(ids[i])]
Transforms(encr, prf, integ, dh) ==
    [encr |-> encr, prf |-> Ids(prf), integ |-> Ids(integ), dh |-> Ids(dh), esn |-> <<>>]

----------------------------------------------------------------------------
(* What the algorithm tables say of an encryption algorithm.               *)

encrypt_desc ==
    [aes  |-> [v2 |-> TRUE,  omitted |-> FALSE, keydeflen |-> 128,
               lengths |-> {128, 192, 256}, aead |-> FALSE],
     gcm  |-> [v2 |-> TRUE,  omitted |-> FALSE, keydeflen |-> 128,
               lengths |-> {128, 192, 256}, aead |-> TRUE],
     null |-> [v2 |-> TRUE,  omitted |-> TRUE,  keydeflen |-> 0,
               lengths |-> {0}, aead |-> FALSE],
     old  |-> [v2 |-> FALSE, omitted |-> FALSE, keydeflen |-> 128,
               lengths |-> {128}, aead |-> FALSE]]

encrypt_max_key_bit_length(d) == CHOOSE n \in d.lengths : \A m \in d.lengths : m <= n

\* The transforms appended for one algorithm; none when it is refused.
append_encrypt_transform(protoid, encr, keylen) ==
    LET d == encrypt_desc[encr]
        max == encrypt_max_key_bit_length(d)
    IN  CASE ~d.v2 \/ (keylen > 0 /\ keylen \notin d.lengths) -> <<>>
          [] d.v2 /\ keylen \in d.lengths \ {0}               -> <<Key(encr, keylen)>>
          [] d.v2 /\ keylen = 0 /\ d.omitted                  -> <<Key(encr, 0)>>
          [] d.v2 /\ keylen = 0 /\ ~d.omitted ->
               IF d.keydeflen = max THEN <<Key(encr, max)>>
               ELSE IF protoid = "ike" THEN <<Key(encr, max), Key(encr, d.keydeflen)>>
               ELSE <<Key(encr, d.keydeflen), Key(encr, max)>>

----------------------------------------------------------------------------
(* The lists a connection offers and chooses from.                         *)

default_ikev2_ike_proposals ==
    LET prfs == <<"sha2_512", "sha2_256", "sha1">>
        long == <<"modp2048", "modp3072", "modp4096", "modp8192">>
        short == <<"modp2048", "modp3072", "modp1536">>
        P(encr, integ, dh) == [protoid |-> "ike",
                               tr |-> Transforms(<<encr>>, prfs, integ, dh)]
    IN  <<P(Key("gcm", 256), <<None>>, long), P(Key("gcm", 128), <<None>>, long),
          P(Key("aes", 256), prfs, short),    P(Key("aes", 128), prfs, short)>>

IkeProposal(info) ==
    [protoid |-> "ike",
     tr |-> Transforms(append_encrypt_transform("ike", info.encr, info.keylen),
                       <<info.prf>>,
                       IF encrypt_desc[info.encr].aead THEN <<None>> ELSE <<info.integ>>,
                       <<info.dh>>)]

\* An entry that IKEv2 cannot express is left out; the numbering closes up.
IkeUsable(info) ==
    /\ append_encrypt_transform("ike", info.encr, info.keylen) # <<>>
    /\ info.prf # None
    /\ encrypt_desc[info.encr].aead \/ info.integ # None

ikev2_proposals_from_alg_info_ike(infos) ==
    IF infos = NoInfo THEN default_ikev2_ike_proposals
    ELSE LET usable == SelectSeq(infos, IkeUsable)
         IN  [i \in 1..Len(usable) |-> IkeProposal(usable[i])]

default_ikev2_esp_proposals_missing_esn ==
    LET P(encr, integ) == [protoid |-> "esp", tr |-> Transforms(<<encr>>, <<>>, integ, <<>>)]
        sha2 == <<"sha2_512", "sha2_256">>
    IN  <<P(Key("gcm", 256), <<None>>), P(Key("gcm", 128), <<None>>),
          P(Key("aes", 256), sha2), P(Key("aes", 128), sha2), P(Key("aes", 128), <<"sha1">>)>>

\* The third entry has the protocol ESP in the source as well.
default_ikev2_ah_proposals_missing_esn ==
    LET P(protoid, integ) == [protoid |-> protoid, tr |-> Transforms(<<>>, <<>>, integ, <<>>)]
    IN  <<P("ah", <<"sha2_512">>), P("ah", <<"sha2_256">>), P("esp", <<"sha1">>)>>

add_esn_transforms(proposal, esn) ==
    [proposal EXCEPT !.tr.esn = SelectSeq(<<Tr("yes"), Tr("no")>>, LAMBDA t : t.id \in esn)]

add_pfs_group_to_proposal(proposal, group) ==
    IF group = None THEN proposal
    ELSE [proposal EXCEPT !.tr.dh = Append(@, Tr(group))]

EspUsable(info, kernel) ==
    /\ info.encr \in kernel
    /\ append_encrypt_transform("esp", info.encr, info.keylen) # <<>>
    /\ info.integ \in kernel \union {None}

\* With an esp= or ah= line a PFS group is added to ESP proposals only.
EspProposal(info, c, group) ==
    IF c.ah
    THEN [protoid |-> "ah", tr |-> Transforms(<<>>, <<>>, <<info.integ>>, <<>>)]
    ELSE add_pfs_group_to_proposal(
             [protoid |-> "esp",
              tr |-> Transforms(append_encrypt_transform("esp", info.encr, info.keylen), <<>>,
                                IF info.integ = None THEN <<>> ELSE <<info.integ>>, <<>>)],
             group)

ikev2_proposals_from_alg_info_esp(c, group) ==
    LET default == IF c.ah THEN default_ikev2_ah_proposals_missing_esn
                   ELSE default_ikev2_esp_proposals_missing_esn
        usable == SelectSeq(c.esp, LAMBDA info : IF c.ah THEN info.integ \in c.kernel
                                                 ELSE EspUsable(info, c.kernel))
    IN  IF c.esp = NoInfo
        THEN [i \in 1..Len(default) |->
                 add_pfs_group_to_proposal(add_esn_transforms(default[i], c.esn), group)]
        ELSE [i \in 1..Len(usable) |->
                 add_esn_transforms(EspProposal(usable[i], c, group), c.esn)]

\* Building is skipped while the connection still has a list.
Cached(list, new) == IF list = NoList THEN new ELSE list

\* Of each proposal only the first DH transform is looked at.
ikev2_proposals_first_modp(list) ==
    LET with == SelectSeq(list, LAMBDA l : l.tr.dh # <<>>)
    IN  IF with = <<>> THEN "modp2048" ELSE Head(Head(with).tr.dh).id

ikev2_proposals_include_modp(list, group) ==
    \E i \in DOMAIN list : Tr(group) \in ToSet(list[i].tr.dh)

----------------------------------------------------------------------------
(* What goes over the wire: the proposals of an SA payload, each with its  *)
(* number, protocol, SPI size and transforms in the order of their types.  *)

proto_spi_size(protoid) ==
    CASE protoid = "ike"            -> 8
      [] protoid \in {"ah", "esp"}  -> 4
      [] OTHER                      -> 0

emit_proposal(tr, protoid, num, spi) ==
    [num |-> num, protoid |-> protoid, spi |-> IF spi THEN proto_spi_size(protoid) ELSE 0,
     trans |-> FlattenSeq([t \in 1..Len(Types) |->
                 [i \in 1..Len(tr[Types[t]]) |->
                     [type |-> Types[t], known |-> TRUE,
                      id |-> tr[Types[t]][i].id, keylen |-> tr[Types[t]][i].keylen]]])]

ikev2_emit_sa_proposals(list, spi) ==
    [n \in 1..Len(list) |-> emit_proposal(list[n].tr, list[n].protoid, n, spi)]

ikev2_emit_sa_proposal(best, spi) == <<emit_proposal(best.tr, best.protoid, best.num, spi)>>

----------------------------------------------------------------------------
(* Choosing.                                                               *)

\* INTEG=NONE is optional: a peer may leave the type out instead.
Required(local) == {t \in TypeSet : \E i \in DOMAIN local.tr[t] :
                                       ~(t = "integ" /\ local.tr[t][i].id = None)}

\* The local transforms of type t that the remote proposal also has.
Matched(local, r, t) ==
    {i \in DOMAIN local.tr[t] :
        /\ local.protoid = r.protoid
        /\ \E j \in DOMAIN r.trans :
              /\ r.trans[j].type = t
              /\ r.trans[j].id = local.tr[t][i].id
              /\ r.trans[j].keylen = local.tr[t][i].keylen}

\* NONE beside a real integrity algorithm.
Mixed(r, i) == \E j \in 1..(i - 1) :
                  /\ r.trans[i].type = "integ" /\ r.trans[j].type = "integ"
                  /\ None \in {r.trans[i].id, r.trans[j].id}

\* Mutant of process_transforms: also proposals worse than the best so far.
process_transforms_unbounded(r, list, base, bound) ==
    LET bad == {i \in DOMAIN r.trans :
                  r.trans[i].type \notin TypeSet \/ ~r.trans[i].known \/ Mixed(r, i)}
        proposed == {r.trans[i].type : i \in DOMAIN r.trans}
        fits == {n \in DOMAIN list : n >= base /\
                   \A t \in proposed \union Required(list[n]) : Matched(list[n], r, t) # {}}
    IN  IF bad # {} THEN IF r.trans[Min(bad)].type = "zero" THEN -1 ELSE 0
        ELSE IF fits = {} THEN 0 ELSE Min(fits)

\* The first local proposal numbered base..bound-1 that the remote one
\* matches, 0 when there is none, -1 when the remote one is malformed.
process_transforms(r, list, base, bound) ==
    LET bad == {i \in DOMAIN r.trans :
                  r.trans[i].type \notin TypeSet \/ ~r.trans[i].known \/ Mixed(r, i)}
        proposed == {r.trans[i].type : i \in DOMAIN r.trans}
        fits == {n \in base..(bound - 1) \intersect DOMAIN list :
                   \A t \in proposed \union Required(list[n]) : Matched(list[n], r, t) # {}}
    IN  IF bad # {} THEN IF r.trans[Min(bad)].type = "zero" THEN -1 ELSE 0
        ELSE IF fits = {} THEN 0 ELSE Min(fits)

\* Mutant of BestOf: the choice is always numbered 1.
BestOf_renumbered(local, r) ==
    [num |-> 1, protoid |-> r.protoid,
     tr |-> [t \in TypeSet |-> IF Matched(local, r, t) = {} THEN <<>>
                              ELSE <<local.tr[t][Min(Matched(local, r, t))]>>]]

\* What is sent back: the transforms that matched, the number of the offer.
BestOf(local, r) ==
    [num |-> r.num, protoid |-> r.protoid,
     tr |-> [t \in TypeSet |-> IF Matched(local, r, t) = {} THEN <<>>
                              ELSE <<local.tr[t][Min(Matched(local, r, t))]>>]]

Better(acc, r, list, match) ==
    IF match = 0 THEN acc
    ELSE [acc EXCEPT !.match = match, !.best = IF match > 0 THEN BestOf(list[match], r) ELSE @]

\* A proposal of a protocol or SPI size that is not expected is passed over.
Skipped(r, ike_, spi) ==
    \/ ike_ /\ r.protoid # "ike"
    \/ spi /\ proto_spi_size(r.protoid) = 0
    \/ r.spi # IF spi THEN proto_spi_size(r.protoid) ELSE 0

OfferedOne(list, ike_, spi, acc, r) ==
    CASE acc.match < 0      -> acc
      [] acc.match >= 0 /\ r.num # acc.next -> [acc EXCEPT !.match = -1]
      [] acc.match >= 0 /\ r.num = acc.next /\ Skipped(r, ike_, spi) -> [acc EXCEPT !.next = @ + 1]
      [] OTHER -> Better([acc EXCEPT !.next = @ + 1], r, list,
                         process_transforms(r, list, 1, IF acc.match > 0 THEN acc.match
                                                        ELSE Len(list) + 1))

AcceptedOne(list, ike_, spi, acc, r) ==
    CASE r.num \notin DOMAIN list -> [acc EXCEPT !.match = -1]
      [] r.num \in DOMAIN list /\ Skipped(r, ike_, spi) -> acc
      [] OTHER -> Better(acc, r, list, process_transforms(r, list, r.num, r.num + 1))

ikev2_process_sa_payload(offer, ike_, spi, accepted, list) ==
    LET start == [match |-> 0, next |-> 1, best |-> NoAttrs]
    IN  IF offer = <<>> \/ (accepted /\ Len(offer) > 1) THEN [start EXCEPT !.match = -1]
        ELSE IF accepted THEN AcceptedOne(list, ike_, spi, start, offer[1])
        ELSE FoldLeft(LAMBDA acc, r : OfferedOne(list, ike_, spi, acc, r), start, offer)

\* The attributes of the one transform of each type.
ikev2_proposal_to_trans_attrs(best) ==
    LET Id(t) == IF best.tr[t] = <<>> THEN None ELSE best.tr[t][1].id
        len == IF best.tr.encr = <<>> THEN 0 ELSE best.tr.encr[1].keylen
    IN  [encr |-> Id("encr"), prf |-> Id("prf"), integ |-> Id("integ"), group |-> Id("dh"),
         esn |-> Id("esn") = "yes",
         enckeylen |-> IF len > 0 \/ Id("encr") = None THEN len
                       ELSE encrypt_desc[Id("encr")].keydeflen]

\* The child's protocol information; NoAttrs when the kernel lacks the
\* encryption algorithm.
ikev2_proposal_to_proto_info(ta, protoid, kernel) ==
    IF protoid = "esp" /\ ta.encr \notin kernel THEN NoAttrs ELSE ta

----------------------------------------------------------------------------
(* IKE_SA_INIT.  An IKE SA's record has the message in flight: msg is its  *)
(* SA payload and ke the group of its KE or INVALID_KE payload.            *)

Nobody == [p \in Peers |-> NoAttrs]
NoSa == [step |-> "none", from |-> None, to |-> None, msg |-> <<>>, ke |-> None,
         retries |-> 0, oakley |-> Nobody]
NoKid == [step |-> "none", kind |-> None, from |-> None, to |-> None, msg |-> <<>>, ke |-> None,
          sa |-> {}, parent |-> None, list |-> NoList, info |-> Nobody]

Init ==
    /\ conf \in Scenarios
    /\ ike_proposals = [p \in Peers |-> NoList]
    /\ esp_or_ah_proposals = [p \in Peers |-> NoList]
    /\ ike = [s \in Sas |-> NoSa]
    /\ kid = [k \in Kids |-> NoKid]

IkeList(p) == Cached(ike_proposals[p], ikev2_proposals_from_alg_info_ike(conf[p].ike))

\* The step of IKE SA s at p, which keeps its list.
IkeStep(s, p, list, new) ==
    /\ ike_proposals' = [ike_proposals EXCEPT ![p] = list]
    /\ ike' = [ike EXCEPT ![s] = new]
    /\ UNCHANGED <<conf, esp_or_ah_proposals, kid>>

OutI1(x, list, ke) == [x EXCEPT !.step = "I1", !.ke = ke, !.msg = ikev2_emit_sa_proposals(list, FALSE)]

SendI1(s, p, list) ==
    IkeStep(s, p, list, OutI1([NoSa EXCEPT !.from = p, !.to = Other(p)], list,
                              ikev2_proposals_first_modp(list)))

ikev2parent_outI1(s, p) ==
    /\ ike[s] = NoSa
    /\ SendI1(s, p, IkeList(p))

\* Mutant of ChoseIke: the group of the KE payload is not compared.
ChoseIke_any_group(x, r, ta) ==
    IF r.match <= 0 THEN [x EXCEPT !.step = "refused"]
    ELSE [x EXCEPT !.step = "R1", !.oakley[x.to] = ta,
                   !.msg = ikev2_emit_sa_proposal(r.best, FALSE)]

\* A KE payload of another group than the chosen one gets INVALID_KE.
ChoseIke(x, r, ta) ==
    IF r.match <= 0 THEN [x EXCEPT !.step = "refused"]
    ELSE IF ta.group # x.ke THEN [x EXCEPT !.step = "invalid_ke", !.ke = ta.group]
    ELSE [x EXCEPT !.step = "R1", !.oakley[x.to] = ta,
                   !.msg = ikev2_emit_sa_proposal(r.best, FALSE)]

Attrs(r) == IF r.match > 0 THEN ikev2_proposal_to_trans_attrs(r.best) ELSE NoAttrs

ReplyR1(s, list, r) == IkeStep(s, ike[s].to, list, ChoseIke(ike[s], r, Attrs(r)))

ChooseIke(s, list) ==
    ReplyR1(s, list, ikev2_process_sa_payload(ike[s].msg, TRUE, FALSE, FALSE, list))

ikev2_parent_inI1outR1(s) ==
    /\ ike[s].step = "I1"
    /\ ChooseIke(s, IkeList(ike[s].to))

Again(s, x, list) ==
    IkeStep(s, x.from, list,
            IF x.retries < Retries /\ ikev2_proposals_include_modp(list, x.ke)
            THEN OutI1([x EXCEPT !.retries = @ + 1], list, x.ke)
            ELSE [x EXCEPT !.step = "ignored"])

ikev2_parent_inR1BoutI1B(s) ==
    /\ ike[s].step = "invalid_ke"
    /\ ike[s].from \in Peers
    /\ Again(s, ike[s], IkeList(ike[s].from))

TakeR1(s, x, list, r) ==
    IkeStep(s, x.from, list,
            IF r.match <= 0 THEN [x EXCEPT !.step = "rejected"]
            ELSE [x EXCEPT !.step = "done", !.oakley[x.from] = Attrs(r)])

CheckR1(s, list) ==
    TakeR1(s, ike[s], list, ikev2_process_sa_payload(ike[s].msg, TRUE, FALSE, TRUE, list))

ikev2_parent_inR1outI2(s) ==
    /\ ike[s].step = "R1"
    /\ ike[s].from \in Peers
    /\ CheckR1(s, IkeList(ike[s].from))

----------------------------------------------------------------------------
(* The child SA's proposals.                                               *)

\* The group of the esp= line, or else the IKE SA's.
ikev2_child_set_pfs(c, parent) ==
    IF ~c.pfs THEN None ELSE IF c.pfsgroup # None THEN c.pfsgroup ELSE parent

PfsOf(k, p) == IF kid[k].kind = "child" THEN ikev2_child_set_pfs(conf[p], kid[k].parent) ELSE None

\* Names are used in order.
Unused(k) == kid[k] = NoKid /\ \A j \in 1..(k - 1) : kid[j] # NoKid

\* IKE_AUTH never has a group; CREATE_CHILD_SA has the PFS group.  Both
\* throw the connection's list away and build it anew.
OutRequest(k, kind, s, p, pfs, list) ==
    /\ esp_or_ah_proposals' = [esp_or_ah_proposals EXCEPT ![p] = list]
    /\ kid' = [kid EXCEPT ![k] =
                 [NoKid EXCEPT !.step = "request", !.kind = kind, !.from = p, !.to = Other(p),
                               !.sa = {s}, !.parent = ike[s].oakley[p].group, !.ke = pfs,
                               !.list = list, !.msg = ikev2_emit_sa_proposals(list, TRUE)]]
    /\ UNCHANGED <<conf, ike_proposals, ike>>

HasAuth(s) == \E k \in Kids : s \in kid[k].sa /\ kid[k].kind = "auth"

\* The responder has the IKE SA once it answered IKE_AUTH, the initiator
\* once it took the answer.
Established(s, p) == \E k \in Kids :
    /\ s \in kid[k].sa /\ kid[k].kind = "auth"
    /\ kid[k].step \in IF p = kid[k].from THEN {"done"} ELSE {"reply", "done", "rejected"}

ikev2_parent_inR1outI2_tail(k, s) ==
    /\ ike[s].step = "done" /\ Unused(k) /\ ~HasAuth(s)
    /\ OutRequest(k, "auth", s, ike[s].from, None,
                  ikev2_proposals_from_alg_info_esp(conf[ike[s].from], None))

ikev2_child_add_ipsec_payloads(k, s, p) ==
    /\ ike[s].step = "done" /\ Unused(k) /\ Established(s, p)
    /\ LET pfs == ikev2_child_set_pfs(conf[p], ike[s].oakley[p].group)
       IN  OutRequest(k, "child", s, p, pfs, ikev2_proposals_from_alg_info_esp(conf[p], pfs))

\* accept_KE reads the length the group asks for, so it needs a group.
Responded(x, r, ta, info, pfs) ==
    LET group == IF pfs # None THEN ta.group ELSE x.parent
    IN  CASE r.match <= 0 \/ info = NoAttrs -> [x EXCEPT !.step = "refused"]
          [] r.match > 0 /\ info # NoAttrs /\ x.kind = "child" /\ x.ke # None /\ group # x.ke ->
               [x EXCEPT !.step = IF group = None THEN "aborted" ELSE "refused"]
          [] OTHER -> [x EXCEPT !.step = "reply", !.info[x.to] = info,
                                !.msg = ikev2_emit_sa_proposal(r.best, TRUE)]

Respond(k, p, pfs, list, r, ta) ==
    /\ esp_or_ah_proposals' = [esp_or_ah_proposals EXCEPT ![p] = list]
    /\ kid' = [kid EXCEPT ![k] =
                 Responded(@, r, ta, IF r.match > 0
                                     THEN ikev2_proposal_to_proto_info(ta, r.best.protoid, conf[p].kernel)
                                     ELSE NoAttrs, pfs)]

Choose(k, p, pfs, list, r) == Respond(k, p, pfs, list, r, Attrs(r))

\* The responder also throws the list away first.
Rebuild(k, p, pfs, list) ==
    Choose(k, p, pfs, list, ikev2_process_sa_payload(kid[k].msg, FALSE, TRUE, FALSE, list))

ikev2_child_sa_respond(k) ==
    /\ kid[k].step = "request" /\ kid[k].kind \in {"auth", "child"}
    /\ Rebuild(k, kid[k].to, PfsOf(k, kid[k].to),
               ikev2_proposals_from_alg_info_esp(conf[kid[k].to], PfsOf(k, kid[k].to)))
    /\ UNCHANGED <<conf, ike_proposals, ike>>

Rekeyed(x, r, ta) ==
    IF r.match <= 0 \/ ta.group # x.ke THEN [x EXCEPT !.step = "refused"]
    ELSE [x EXCEPT !.step = "reply", !.info[x.to] = ta,
                   !.msg = ikev2_emit_sa_proposal(r.best, TRUE)]

RekeyReply(k, r) == kid' = [kid EXCEPT ![k] = Rekeyed(@, r, Attrs(r))]

ChooseRekey(k, p, list) ==
    /\ ike_proposals' = [ike_proposals EXCEPT ![p] = list]
    /\ RekeyReply(k, ikev2_process_sa_payload(kid[k].msg, TRUE, TRUE, FALSE, list))

process_ike_rekey_sa_pl(k) ==
    /\ kid[k].step = "request" /\ kid[k].kind = "rekey"
    /\ ChooseRekey(k, kid[k].to, IkeList(kid[k].to))
    /\ UNCHANGED <<conf, esp_or_ah_proposals, ike>>

\* The initiator keeps the list the connection has by now.
EspList(p, pfs) == Cached(esp_or_ah_proposals[p], ikev2_proposals_from_alg_info_esp(conf[p], pfs))

Accepted(x, r, ta, kernel) ==
    IF r.match <= 0 \/ ikev2_proposal_to_proto_info(ta, r.best.protoid, kernel) = NoAttrs
    THEN [x EXCEPT !.step = "rejected"]
    ELSE [x EXCEPT !.step = "done", !.info[x.from] = ta]

Check(k, kernel, r) == kid' = [kid EXCEPT ![k] = Accepted(@, r, Attrs(r), kernel)]

ikev2_child_inR(k) ==
    /\ kid[k].step = "reply"
    /\ kid[k].from \in Peers
    /\ Check(k, conf[kid[k].from].kernel,
             ikev2_process_sa_payload(kid[k].msg, FALSE, TRUE, TRUE,
                                      EspList(kid[k].from, kid[k].ke)))
    /\ UNCHANGED <<conf, ike_proposals, esp_or_ah_proposals, ike>>

----------------------------------------------------------------------------
(* Requests of other implementations, in place of a peer's own (of the     *)
(* child exchanges, the first).                                            *)

ForeignIke(s, p, f) ==
    /\ ike[s] = NoSa /\ f.kind = "ike"
    /\ ike' = [ike EXCEPT ![s] = [NoSa EXCEPT !.step = "I1", !.to = p, !.msg = f.msg, !.ke = f.ke]]
    /\ UNCHANGED <<conf, ike_proposals, esp_or_ah_proposals, kid>>

ForeignKid(k, p, f) ==
    /\ k = 1 /\ kid[k] = NoKid /\ f.kind # "ike"
    /\ kid' = [kid EXCEPT ![k] = [NoKid EXCEPT !.step = "request", !.kind = f.kind, !.to = p,
                                              !.msg = f.msg, !.ke = f.ke, !.parent = "modp2048"]]
    /\ UNCHANGED <<conf, ike_proposals, esp_or_ah_proposals, ike>>

Step ==
    \/ \E s \in Sas :
         \/ \E p \in Peers : ikev2parent_outI1(s, p)
         \/ ikev2_parent_inI1outR1(s)
         \/ ikev2_parent_inR1BoutI1B(s)
         \/ ikev2_parent_inR1outI2(s)
         \/ \E p \in Peers, f \in Foreign : ForeignIke(s, p, f)
    \/ \E k \in Kids :
         \/ \E s \in Sas : ikev2_parent_inR1outI2_tail(k, s)
         \/ \E s \in Sas, p \in Peers : ikev2_child_add_ipsec_payloads(k, s, p)
         \/ ikev2_child_sa_respond(k)
         \/ process_ike_rekey_sa_pl(k)
         \/ ikev2_child_inR(k)
         \/ \E p \in Peers, f \in Foreign : ForeignKid(k, p, f)

\* Nothing follows the end of a pluto.
Next == (\A k \in Kids : kid[k].step # "aborted") /\ Step

Spec == Init /\ [][Next]_vars

----------------------------------------------------------------------------
(* Properties.                                                             *)

\* Two proposals agree when they are for one protocol and, type by type,
\* have a transform in common; a type only one of them has may be INTEG=NONE
\* on the local side and nothing else.
Remote(r, t) == {[id |-> r.trans[j].id, keylen |-> r.trans[j].keylen] :
                   j \in {i \in DOMAIN r.trans : r.trans[i].type = t}}
Agree(local, r) ==
    /\ local.protoid = r.protoid
    /\ \A t \in TypeSet : LET mine == ToSet(local.tr[t])
                         IN  IF Remote(r, t) = {} THEN mine \subseteq (IF t = "integ" THEN {Tr(None)} ELSE {})
                             ELSE mine \intersect Remote(r, t) # {}

Readable(r, ike_, spi) ==
    /\ ~Skipped(r, ike_, spi)
    /\ \A i \in DOMAIN r.trans : r.trans[i].type \in TypeSet /\ r.trans[i].known
    /\ Cardinality({i \in DOMAIN r.trans : r.trans[i].type = "integ"}) > 1
         => Tr(None) \notin Remote(r, "integ")

\* The reference: the local proposal the local side likes best among those
\* that agree with an offered one, the first such offered one, and of each
\* type the transform the local side likes best.
Reference(offer, ike_, spi, list) ==
    LET pairs == {<<n, m>> \in (DOMAIN list) \X (DOMAIN offer) :
                    Readable(offer[m], ike_, spi) /\ Agree(list[n], offer[m])}
        n == Min({x[1] : x \in pairs})
        m == Min({x[2] : x \in {y \in pairs : y[1] = n}})
    IN  IF offer = <<>> \/ (\E i \in DOMAIN offer : offer[i].num # i) THEN -1
        ELSE IF \E i \in DOMAIN offer : ~Skipped(offer[i], ike_, spi)
                    /\ \E j \in DOMAIN offer[i].trans :
                          /\ offer[i].trans[j].type = "zero"
                          /\ \A h \in 1..(j - 1) : offer[i].trans[h].type \in TypeSet
                                                   /\ offer[i].trans[h].known /\ ~Mixed(offer[i], h)
        THEN -1
        ELSE IF pairs = {} THEN 0
        ELSE [num |-> m, protoid |-> offer[m].protoid,
              tr |-> [t \in TypeSet |-> SubSeq(SelectSeq(list[n].tr[t], LAMBDA x : x \in Remote(offer[m], t)), 1,
                                              IF Remote(offer[m], t) = {} THEN 0 ELSE 1)]]

Chosen(r) == IF r.match > 0 THEN r.best ELSE r.match

\* Whatever list of proposals arrives, the responder's single pass over it
\* (ikev2_process_sa_payload, process_transforms), which looks only at local
\* proposals better than the best so far, ends with the one the reference
\* names.
ChoiceIsBest ==
    /\ \A s \in Sas : ike[s].step = "I1" =>
         Chosen(ikev2_process_sa_payload(ike[s].msg, TRUE, FALSE, FALSE, IkeList(ike[s].to)))
           = Reference(ike[s].msg, TRUE, FALSE, IkeList(ike[s].to))
    /\ \A k \in Kids : kid[k].step = "request" /\ kid[k].kind # "rekey" =>
         LET list == ikev2_proposals_from_alg_info_esp(conf[kid[k].to], PfsOf(k, kid[k].to))
         IN  Chosen(ikev2_process_sa_payload(kid[k].msg, FALSE, TRUE, FALSE, list))
               = Reference(kid[k].msg, FALSE, TRUE, list)

\* When both ends take a proposal they take the same algorithms, key length
\* and group, for the IKE SA and for every child; the IKE SA's group is the
\* one the initiator sent its KE for, after at most one INVALID_KE, and the
\* initiator never meets a suggestion it has to ignore.
EndsAgree ==
    /\ \A s \in Sas :
         /\ ike[s].step = "done" =>
              ike[s].oakley["A"] = ike[s].oakley["B"] /\ ike[s].oakley["A"].group = ike[s].ke
         /\ ike[s].retries <= 1 /\ ike[s].step \notin {"ignored", "rejected"}
    /\ \A k \in Kids : kid[k].step = "done" => kid[k].info["A"] = kid[k].info["B"]

\* An initiator turns down what the peer chose from its own list only when
\* another exchange rebuilt the connection's list with another PFS group in
\* between (ikev2_process_child_sa_pl keeps c->esp_or_ah_proposals), or when
\* its kernel lacks the algorithm.
RejectedOnlyIfStale ==
    [][\A k \in Kids : kid[k].step = "reply" /\ kid'[k].step = "rejected" =>
         \/ esp_or_ah_proposals[kid[k].from] # kid[k].list
         \/ \E i \in DOMAIN kid[k].msg[1].trans :
              kid[k].msg[1].trans[i].type = "encr" /\ kid[k].msg[1].trans[i].id \notin conf[kid[k].from].kernel]_vars
=============================================================================
