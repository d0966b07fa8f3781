--------------------------- MODULE Ikev1Proposals ---------------------------
(***************************************************************************)
(* IKEv1 proposals: what a connection's ike= and esp= lines make pluto     *)
(* offer (ike_info.c, spdb_struct.c, plutoalg.c, spdb.c), how a responder  *)
(* chooses from an offer and how the initiator checks the choice that is   *)
(* echoed to it (ikev1_spdb_struct.c), in Main or Aggressive Mode for the  *)
(* ISAKMP SA and in Quick Mode for the IPsec SA.                           *)
(*                                                                         *)
(* "I" initiates and "R" responds.  side[p] is what p's states hold:       *)
(* st_oakley, st_pfs_group and the attributes of st_ah, st_esp and         *)
(* st_ipcomp.  wire is the message between them.  A transform carries its  *)
(* attributes as a sequence of <<type, value>>; lifetimes and security     *)
(* labels are left out.                                                    *)
(***************************************************************************)
EXTENDS Integers, Sequences, FiniteSetsExt, SequencesExt

CONSTANTS Configs,      \* the configurations of the two peers
          Foreign1,     \* phase 1 offers of implementations other than pluto
          Foreign2      \* phase 2 offers of implementations other than pluto

VARIABLES config, step, wire, side

vars == <<config, step, wire, side>>

None == "none"
Unset == "unset_group"
NoInfo == <<>>   \* alg_info == NULL
Null == <<>>              \* a db_sa that could not be built

Concat(seqs) == FoldLeft(LAMBDA all, s : all \o s, <<>>, seqs)

----------------------------------------------------------------------------
(* The algorithms.  A cipher has the key lengths it takes in bits and, for *)
(* ESP, the length a transform must name (0: none).                        *)

Cipher(omitted, keydeflen, lengths, aead, req) ==
    [omitted |-> omitted, keydeflen |-> keydeflen, lengths |-> lengths, aead |-> aead, req |-> req]

encrypt_desc(id) ==
    CASE id = "aes"  -> Cipher(FALSE, 128, {128, 192, 256}, FALSE, 128)
      [] id = "gcm"  -> Cipher(FALSE, 128, {128, 192, 256}, TRUE, 128)
      [] id = "3des" -> Cipher(TRUE, 192, {192}, FALSE, 0)
      [] id = "null" -> Cipher(TRUE, 0, {0}, FALSE, 0)
      [] OTHER       -> Cipher(FALSE, 128, {128}, FALSE, 128)

Ciphers == {"aes", "gcm", "3des"}
Hashes == {"sha1", "sha2_256", "sha2_512", "md5"}
Groups == {"modp1024", "modp1536", "modp2048", "modp3072"}

crypto_req_keysize(id) == encrypt_desc(id).req

\* What the kernel says of a cipher and a key length; 0 is "not given".
check_kernel_encrypt_alg(id, keylen, kernel) ==
    id \in kernel /\ keylen \in {0} \union encrypt_desc(id).lengths

\* AUTH_ALGORITHM_NONE maps to entry 0 of the table, which is always present.
kernel_alg_esp_auth_ok(auth, kernel) == auth \in {None} \union kernel

----------------------------------------------------------------------------
(* The ike= line.                                                          *)

Info(encr, keylen, prf, dh) == [encr |-> encr, keylen |-> keylen, prf |-> prf, dh |-> dh]

\* A key length of 0 duplicates every earlier entry of the same algorithms.
raw_alg_info_ike_add(infos, new) ==
    IF \E i \in 1..Len(infos) :
            /\ new.keylen \in {0, infos[i].keylen}
            /\ infos[i] = [new EXCEPT !.keylen = infos[i].keylen]
    THEN infos
    ELSE Append(infos, new)

\* What is not given is taken from the defaults, group by group, cipher by
\* cipher, hash by hash.
ike_add(entry) ==
    LET Or(given, default) == IF given = None THEN default ELSE <<given>>
        dhs == Or(entry.dh, <<"modp2048", "modp1536">>)
        encrs == Or(entry.encr, <<"aes", "3des">>)
        prfs == Or(entry.prf, <<"sha2_256", "sha2_512", "sha1">>)
        Row(dh, encr) == [k \in 1..Len(prfs) |-> Info(encr, entry.keylen, prfs[k], dh)]
        Block(dh) == Concat([j \in 1..Len(encrs) |-> Row(dh, encrs[j])])
    IN  Concat([i \in 1..Len(dhs) |-> Block(dhs[i])])

alg_info_ike(line) ==
    FoldLeft(raw_alg_info_ike_add, <<>>, Concat([i \in 1..Len(line) |-> ike_add(line[i])]))

ikev1_default_ike_info == alg_info_ike(<<Info(None, 0, None, None)>>)

\* The ISAKMP transforms of one entry, the longest key first.
IkeTransforms(info, auth) ==
    LET d == encrypt_desc(info.encr)
        max == Max(d.lengths)
        lens == IF info.keylen # 0 THEN <<info.keylen>>
                ELSE IF d.omitted THEN <<0>>
                ELSE IF max = d.keydeflen THEN <<max>> ELSE <<max, d.keydeflen>>
        T(len) == <<<<"encr", info.encr>>,
                    <<IF d.aead THEN "prf" ELSE "hash", info.prf>>,
                    <<"auth", auth>>, <<"group", info.dh>>>>
                  \o (IF len = 0 THEN <<>> ELSE <<<<"keylen", len>>>>)
    IN  [i \in 1..Len(lens) |-> T(lens[i])]

\* Mutant of MergeInfo: Aggressive Mode offers all groups.
MergeInfo_all_groups(db, info, auth, single_dh) ==
    [gsp |-> db.gsp \o IkeTransforms(info, auth), last_modp |-> info.dh, cnt |-> db.cnt + 1]

\* Aggressive Mode keeps to one group: once a group other than 1024 or 1536
\* has been kept, an entry with another group replaces all that was kept.
MergeInfo(db, info, auth, single_dh) ==
    LET differs == single_dh /\ db.cnt > 0 /\ info.dh # db.last_modp
        drop == differs /\ db.last_modp \in {"modp1024", "modp1536"}
    IN  IF drop THEN [db EXCEPT !.cnt = @ + 1]
        ELSE [gsp |-> (IF differs THEN <<>> ELSE db.gsp) \o IkeTransforms(info, auth),
              last_modp |-> info.dh,
              cnt |-> db.cnt + 1]

oakley_alg_mergedb(infos, auth, single_dh) ==
    FoldLeft(LAMBDA db, info : MergeInfo(db, info, auth, single_dh),
             [gsp |-> <<>>, last_modp |-> None, cnt |-> 0], infos).gsp

oakley_alg_makedb(c, auth, single_dh) ==
    oakley_alg_mergedb(IF c.ike = NoInfo THEN ikev1_default_ike_info ELSE alg_info_ike(c.ike),
                       auth, single_dh)

\* The authentication method of the table entry for the connection's policy.
IKEv1_oakley_sadb(c) ==
    LET base == IF "rsa" \in c.auth THEN "rsa" ELSE "psk"
    IN  [base |-> base, xauth |-> IF c.client THEN "init" ELSE IF c.server THEN "resp" ELSE None]

Numbered(trans) == [i \in 1..Len(trans) |-> [num |-> i - 1, attrs |-> trans[i]]]

\* ikev1_out_sa in oakley mode.
OutIsakmpSa(c) ==
    LET trans == oakley_alg_makedb(c, IKEv1_oakley_sadb(c), c.aggr)
    IN  [head |-> None, notrans |-> Len(trans), trans |-> Numbered(trans)]

----------------------------------------------------------------------------
(* Choosing and checking an ISAKMP transform.                              *)

NoTa == [encr |-> None, keylen |-> 0, prf |-> None, auth |-> None, xauth |-> FALSE, group |-> None]

\* The cases of OAKLEY_AUTHENTICATION_METHOD: XAUTH exactly when this end of
\* the connection has the role the method gives it.
AuthOk(c, selection, v) ==
    LET xauth_init == IF selection THEN c.client ELSE c.server
        xauth_resp == IF selection THEN c.server ELSE c.client
    IN  /\ CASE v.xauth = "init" -> xauth_init
             [] v.xauth = "resp" -> xauth_resp
             [] OTHER            -> ~xauth_init /\ ~xauth_resp
        /\ v.base \in c.auth
        /\ v.base = "psk" => c.secret

OakleyAttr(c, selection, s, a) ==
    LET type == a[1]  v == a[2]
        t == [s EXCEPT !.seen = @ \union {type}]
        Or(ok, good) == IF ok THEN good ELSE [t EXCEPT !.ugh = TRUE]
    IN  IF s.ugh \/ s.bad THEN s
        ELSE IF type \in s.seen THEN [s EXCEPT !.bad = TRUE]
        ELSE CASE type = "encr" ->
                    Or(v \in Ciphers /\ ~encrypt_desc(v).aead,
                       [t EXCEPT !.ta.encr = v, !.ta.keylen = encrypt_desc(v).keydeflen])
               [] type = "hash" -> Or(v \in Hashes, [t EXCEPT !.ta.prf = v])
               [] type = "auth" -> Or(AuthOk(c, selection, v),
                                      [t EXCEPT !.ta.auth = v.base, !.ta.xauth = v.xauth # None])
               [] type = "group" -> Or(v \in Groups, [t EXCEPT !.ta.group = v])
               [] type = "keylen" ->
                    Or("encr" \in s.seen /\ v \in {0} \union encrypt_desc(s.ta.encr).lengths,
                       [t EXCEPT !.ta.keylen = v])
               [] OTHER -> [t EXCEPT !.ugh = TRUE]

\* Mutant of ike_alg_ok_final: the key length is not held against the line.
ike_alg_ok_final_any_length(ta, c) ==
    LET infos == alg_info_ike(c.ike)
    IN  IF c.ike = NoInfo THEN ta.keylen >= 128
        ELSE \E i \in 1..Len(infos) :
                infos[i].encr = ta.encr /\ infos[i].prf = ta.prf /\ infos[i].dh = ta.group

\* Whether the ike= line, if there is one, has the transform.
ike_alg_ok_final(ta, c) ==
    LET infos == alg_info_ike(c.ike)
    IN  IF c.ike = NoInfo THEN ta.keylen >= 128
        ELSE \E i \in 1..Len(infos) :
                /\ infos[i].encr = ta.encr /\ infos[i].prf = ta.prf /\ infos[i].dh = ta.group
                /\ infos[i].keylen = 0 \/ ta.keylen = 0 \/ infos[i].keylen = ta.keylen

ReadOakley(c, selection, t) ==
    FoldLeft(LAMBDA s, a : OakleyAttr(c, selection, s, a),
             [ta |-> NoTa, seen |-> {}, ugh |-> FALSE, bad |-> FALSE], t.attrs)

Answer(ret, ta, trans) == [ret |-> ret, ta |-> ta, trans |-> trans]

BadAnswer == Answer("BAD_PROPOSAL_SYNTAX", NoTa, <<>>)

\* One turn of the loop over the transforms; s is what was read of t.
OakleyTransform(c, r, t, s) ==
    IF t.num <= r.last \/ s.bad THEN BadAnswer
    ELSE IF s.ugh \/ ~ike_alg_ok_final(s.ta, c) THEN [r EXCEPT !.last = t.num]
    ELSE IF ~({"encr", "hash", "auth", "group"} \subseteq s.seen) THEN BadAnswer
    ELSE Answer("ok", s.ta, <<t>>)

OakleyTurn(c, selection, offer, r, i) ==
    IF r.ret # None THEN r
    ELSE IF i > offer.notrans THEN BadAnswer
    ELSE OakleyTransform(c, r, offer.trans[i], ReadOakley(c, selection, offer.trans[i]))

OakleyEnd(offer, r) ==
    IF r.ret # None THEN r
    ELSE IF offer.notrans # Len(offer.trans) THEN BadAnswer
    ELSE Answer("NO_PROPOSAL_CHOSEN", NoTa, <<>>)

parse_isakmp_sa_body(c, selection, offer) ==
    IF offer.head # None THEN Answer(offer.head, NoTa, <<>>)
    ELSE IF selection /\ offer.notrans # 1 THEN BadAnswer
    ELSE OakleyEnd(offer, FoldLeftDomain(LAMBDA r, i : OakleyTurn(c, selection, offer, r, i),
                                         [ret |-> None, last |-> -1], offer.trans))

\* Both PSK and RSASIG offered tells nothing about the connection.
preparse_isakmp_sa_body(offer) ==
    LET methods == {a[2] : a \in {b \in UNION {ToSet(t.attrs) : t \in ToSet(offer.trans)} :
                                        b[1] = "auth" /\ b[2].xauth # "resp"}}
        bases == {m.base : m \in methods}
    IN  [auth |-> IF {"psk", "rsa"} \subseteq bases THEN {} ELSE bases \intersect {"psk", "rsa"},
         xauth |-> \E m \in methods : m.xauth = "init"]

\* Whether the responder's connection is found for a first message.
find_next_host_connection(c, aggr, offer) ==
    /\ c.aggr = aggr
    /\ aggr => LET req == preparse_isakmp_sa_body(offer)
               IN  req.xauth = (c.client \/ c.server) /\ req.auth \subseteq c.auth

\* In Aggressive Mode the initiator works with the first transform before
\* the responder has chosen; a first transform with an AEAD cipher fails an
\* assertion.
init_aggr_st_oakley(first) ==
    [encr |-> first[1][2],
     keylen |-> IF Len(first) = 5 THEN first[5][2] ELSE encrypt_desc(first[1][2]).keydeflen,
     prf |-> first[2][2], auth |-> first[3][2], xauth |-> FALSE, group |-> first[4][2]]

----------------------------------------------------------------------------
(* The esp= line: the transforms offered in Quick Mode.                    *)

EspTrans(id, auth, keylen) ==
    [id |-> id, attrs |-> (IF auth = None THEN <<>> ELSE <<<<"auth", auth>>>>)
                          \o (IF keylen = 0 THEN <<>> ELSE <<<<"keylen", keylen>>>>)]

\* An AH transform has the name of its hash.
kernel_alg_db_add(info, c) ==
    LET def_ks == crypto_req_keysize(info.encr)
        max_ks == Max(encrypt_desc(info.encr).lengths)
        lens == IF info.keylen # 0 THEN <<info.keylen>>
                ELSE IF def_ks \in {0, max_ks} THEN <<def_ks>> ELSE <<def_ks, max_ks>>
    IN  IF (c.encrypt /\ info.encr \notin c.kernel) \/ ~kernel_alg_esp_auth_ok(info.auth, c.kernel)
        THEN Null
        ELSE IF c.encrypt THEN [i \in 1..Len(lens) |-> EspTrans(info.encr, info.auth, lens[i])]
        ELSE <<EspTrans(info.auth, info.auth, 0)>>

DbOf(rows, protoid) ==
    IF \E i \in 1..Len(rows) : rows[i] = Null THEN Null
    ELSE <<<<[protoid |-> protoid, trans |-> Concat(rows)]>>>>

kernel_alg_db_new(c) ==
    DbOf([i \in 1..Len(c.esp) |-> kernel_alg_db_add(c.esp[i], c)],
         IF c.encrypt THEN "esp" ELSE "ah")

\* ipsec_sadb: alternatives, each of proposals to be applied together.
ipsec_sadb(c) ==
    LET P(protoid, trans) == [protoid |-> protoid, trans |-> trans]
        ah == P("ah", <<EspTrans("sha1", "sha1", 0)>>)
    IN  CASE c.encrypt /\ c.authenticate  -> <<<<ah, P("esp", <<EspTrans("3des", None, 0)>>)>>>>
          [] c.encrypt /\ ~c.authenticate -> <<<<P("esp", <<EspTrans("aes", "sha1", 128),
                                                          EspTrans("3des", "sha1", 0)>>)>>>>
          [] ~c.encrypt /\ c.authenticate -> <<<<ah>>, <<P("esp", <<EspTrans("null", "sha1", 0)>>)>>>>

kernel_alg_makedb(c) == IF c.esp = NoInfo THEN ipsec_sadb(c) ELSE kernel_alg_db_new(c)

\* IPCOMP is added to the first alternative, whether or not the kernel can.
AddIpcomp(db, c) ==
    IF c.compress
    THEN [db EXCEPT ![1] = Append(@, [protoid |-> "ipcomp",
                                      trans |-> <<[id |-> "deflate", attrs |-> <<>>]>>])]
    ELSE db

NAT_T_ENCAPSULATION_MODE(c) ==
    IF c.tunnel THEN IF c.nat THEN "udp_tunnel" ELSE "tunnel"
    ELSE IF c.nat THEN "udp_transport" ELSE "transport"

OutTransform(c, protoid, pfs, t, i) ==
    [num |-> i - 1, id |-> t.id,
     attrs |-> (IF protoid # "ipcomp" /\ pfs # None THEN <<<<"group", pfs>>>> ELSE <<>>)
               \o (IF protoid # "ipcomp" \/ c.tunnel THEN <<<<"encap", NAT_T_ENCAPSULATION_MODE(c)>>>> ELSE <<>>)
               \o t.attrs]

\* ikev1_out_sa out of oakley mode.  Only the last proposal of an alternative
\* says that no other follows.
OutProposal(c, pfs, n, conj, k) ==
    [num |-> n - 1, protoid |-> conj[k].protoid, spi |-> TRUE, next |-> k < Len(conj),
     trans |-> [i \in 1..Len(conj[k].trans) |->
                    OutTransform(c, conj[k].protoid, pfs, conj[k].trans[i], i)]]

OutAlternatives(c, pfs, db) ==
    Concat([n \in 1..Len(db) |-> [k \in 1..Len(db[n]) |-> OutProposal(c, pfs, n, db[n], k)]])

OutIpsecSa(c, pfs) == OutAlternatives(c, pfs, AddIpcomp(kernel_alg_makedb(c), c))

----------------------------------------------------------------------------
(* Choosing and checking IPsec transforms.                                 *)

NoAttrs == [encrypt |-> None, keylen |-> 0, auth |-> None, encap |-> None]

Folded(encap) ==
    IF encap \in {"tunnel", "udp_tunnel"} THEN "tunnel" ELSE "transport"

IpsecAttr(proto, s, a) ==
    LET type == a[1]  v == a[2]
        t == [s EXCEPT !.seen = @ \union {type}]
    IN  IF ~s.ok \/ type \in s.seen THEN [s EXCEPT !.ok = FALSE]
        ELSE CASE type = "group" /\ v \in Groups          -> [t EXCEPT !.group = v]
               [] type = "encap"                           -> [t EXCEPT !.at.encap = Folded(v)]
               [] type = "auth" /\ proto # "ipcomp"        -> [t EXCEPT !.at.auth = v]
               [] type = "keylen" /\ proto # "ipcomp"      -> [t EXCEPT !.at.keylen = v]
               [] OTHER                                    -> [t EXCEPT !.ok = FALSE]

ReadIpsec(proto, t) ==
    FoldLeft(LAMBDA s, a : IpsecAttr(proto, s, a),
             [ok |-> TRUE, seen |-> {}, group |-> None, at |-> [NoAttrs EXCEPT !.encrypt = t.id]],
             t.attrs)

\* The first transform read settles the PFS group for all that follow.
Settled(proto, pfs, group) ==
    IF proto = "ipcomp" /\ group = None THEN pfs ELSE IF pfs = Unset THEN group ELSE pfs

CheckIpsec(c, proto, pfs, prev, t, s) ==
    [ok |-> /\ s.ok
            /\ t.num > prev
            /\ (proto = "ipcomp" /\ s.group = None) \/ Settled(proto, pfs, s.group) = s.group
            /\ "encap" \in s.seen \/ proto = "ipcomp"
            /\ proto = "esp" =>
                   /\ "keylen" \in s.seen \/ crypto_req_keysize(t.id) = 0
                   /\ check_kernel_encrypt_alg(t.id, s.at.keylen, c.kernel),
     at |-> IF "encap" \in s.seen THEN s.at ELSE [s.at EXCEPT !.encap = "transport"],
     pfs |-> Settled(proto, pfs, s.group)]

parse_ipsec_transform(c, proto, pfs, prev, t) ==
    CheckIpsec(c, proto, pfs, prev, t, ReadIpsec(proto, t))

ikev1_verify_esp(at, esp) ==
    LET keylen == IF at.keylen = 0 THEN crypto_req_keysize(at.encrypt) ELSE at.keylen
    IN  \E i \in 1..Len(esp) : /\ esp[i].encr = at.encrypt /\ esp[i].auth = at.auth
                              /\ (keylen = 0 \/ esp[i].keylen \in {0, keylen})

ikev1_verify_ah(at, esp) == \E i \in 1..Len(esp) : esp[i].auth = at.auth

\* r: ret is None while the group may still be chosen, "skip" once the next
\* group is to be tried, or the notification; the state's PFS group; and the
\* transform and attributes chosen per protocol.
Bad(r) == [r EXCEPT !.ret = "BAD_PROPOSAL_SYNTAX"]
Skip(r) == [r EXCEPT !.ret = "skip"]
Take(r, proto, prop, t, parsed) ==
    [r EXCEPT !.at = Append(@, <<proto, parsed.at>>), !.pfs = parsed.pfs, !.last = t.num,
              !.echo = Append(@, [prop EXCEPT !.trans = <<t>>])]

\* Only the first AH transform is looked at: one that is not refused ends
\* the loop, and every refusal ends the negotiation.
TakeAh(c, r, prop, t, p) ==
    IF ~p.ok \/ p.at.auth = None \/ t.id # p.at.auth THEN Bad(r)
    ELSE IF c.esp # NoInfo /\ ~ikev1_verify_ah(p.at, c.esp) THEN Skip([r EXCEPT !.pfs = p.pfs])
    ELSE Take(r, "ah", prop, t, p)

ParseAh(c, r, prop) ==
    TakeAh(c, r, prop, prop.trans[1], parse_ipsec_transform(c, "ah", r.pfs, -1, prop.trans[1]))

AhEncap(r) == IF r.at = <<>> THEN None ELSE r.at[1][2].encap

\* Whether the loop over the ESP transforms passes over one.
EspPassesOver(c, r, at) ==
    \/ c.esp = NoInfo /\ at.encrypt \notin {"aes", "3des", "null"}
    \/ c.esp = NoInfo /\ at.encrypt = "null" /\ c.encrypt
    \/ ~kernel_alg_esp_auth_ok(at.auth, c.kernel) /\ at.auth \notin Hashes
    \/ AhEncap(r) \notin {None, at.encap}

\* The first transform not passed over is the one held against the esp=
\* line; when it is not listed the whole group is given up.
TakeEsp(c, r, prop, t, p) ==
    IF ~p.ok \/ (c.esp = NoInfo /\ p.at.encrypt = "null" /\ p.at.auth = None) THEN Bad(r)
    ELSE IF EspPassesOver(c, r, p.at) THEN [r EXCEPT !.last = t.num, !.pfs = p.pfs]
    ELSE IF c.esp # NoInfo /\ ~ikev1_verify_esp(p.at, c.esp) THEN Skip([r EXCEPT !.pfs = p.pfs])
    ELSE [Take(r, "esp", prop, t, p) EXCEPT !.ret = None]

TakeIpcomp(c, r, prop, t, p) ==
    IF ~p.ok THEN Bad(r)
    ELSE IF p.at.encrypt # "deflate" THEN [r EXCEPT !.last = t.num, !.pfs = p.pfs]
    ELSE [Take(r, "ipcomp", prop, t, p) EXCEPT !.ret = None]

\* The loop over a proposal's transforms: ret is "next" while it runs.
Loop(c, r, prop, Turn(_, _, _, _, _)) ==
    LET Step(acc, t) ==
            IF acc.ret # "next" THEN acc
            ELSE Turn(c, acc, prop, t, parse_ipsec_transform(c, prop.protoid, acc.pfs, acc.last, t))
        End(s) == IF s.ret = "next" THEN Skip(s) ELSE s
    IN  End(FoldLeft(Step, [r EXCEPT !.ret = "next", !.last = -1], prop.trans))

Of(group, proto) == SelectSeq(group, LAMBDA p : p.protoid = proto)

\* AH, ESP and IPCOMP of one group, in that order.
AhPart(c, r, group) ==
    IF Of(group, "ah") = <<>> THEN r ELSE ParseAh(c, r, Of(group, "ah")[1])

EspPart(c, r, group) ==
    IF r.ret # None THEN r
    ELSE IF Of(group, "esp") # <<>> THEN Loop(c, r, Of(group, "esp")[1], TakeEsp)
    ELSE IF c.encrypt \/ (c.authenticate /\ Of(group, "ah") = <<>>) THEN Skip(r)
    ELSE r

IpcompPart(c, r, group) ==
    IF r.ret # None \/ Of(group, "ipcomp") = <<>> THEN r
    ELSE IF ~c.compress \/ ~c.ipcomp THEN Bad(r)
    ELSE Loop(c, r, Of(group, "ipcomp")[1], TakeIpcomp)

ParseGroup(c, pfs, group) ==
    LET start == [ret |-> None, pfs |-> pfs, last |-> -1, at |-> <<>>, echo |-> <<>>]
        Done(r) == IF r.ret = None THEN [r EXCEPT !.ret = "ok"] ELSE r
    IN  Done(IpcompPart(c, EspPart(c, AhPart(c, start, group), group), group))

\* The proposals up to the one that says it is the last, in groups of equal
\* numbers.
ReadGroups(offer) ==
    LET end == IF \E i \in 1..Len(offer) : ~offer[i].next
               THEN Min({i \in 1..Len(offer) : ~offer[i].next}) ELSE Len(offer)
        Add(gs, p) == IF gs # <<>> /\ Last(gs)[1].num = p.num
                      THEN [gs EXCEPT ![Len(gs)] = Append(@, p)]
                      ELSE Append(gs, <<p>>)
    IN  FoldLeft(Add, <<>>, SubSeq(offer, 1, end))

\* The first error met while a group is collected.  A proposal without
\* transforms is read again and again until its SPI is missing.
GroupError(group) ==
    LET At(i) == IF ~group[i].spi \/ group[i].trans = <<>> THEN "INVALID_SPI"
                 ELSE IF \E j \in 1..(i - 1) : group[j].protoid = group[i].protoid
                 THEN "BAD_PROPOSAL_SYNTAX"
                 ELSE IF group[i].protoid \notin {"ah", "esp", "ipcomp"}
                 THEN "INVALID_PROTOCOL_ID" ELSE None
        errors == SelectSeq([i \in 1..Len(group) |-> At(i)], LAMBDA e : e # None)
    IN  IF errors = <<>> THEN None ELSE errors[1]

parse_ipsec_sa_body(c, pfs, offer) ==
    LET start == [ret |-> "skip", pfs |-> pfs, at |-> <<>>, echo |-> <<>>]
        Try(r, g) == IF r.ret # "skip" THEN r
                     ELSE IF GroupError(g) # None THEN [start EXCEPT !.ret = GroupError(g)]
                     ELSE ParseGroup(c, r.pfs, g)
        Done(r) == IF r.ret = "skip" THEN [r EXCEPT !.ret = "NO_PROPOSAL_CHOSEN"] ELSE r
    IN  Done(FoldLeft(Try, start, ReadGroups(offer)))

\* What the responder sends back, each protocol with its own SPI.
echo_proposal(echo) ==
    [i \in 1..Len(echo) |-> [echo[i] EXCEPT !.next = i < Len(echo)]]

----------------------------------------------------------------------------
(* The exchanges.                                                          *)

Idle == [ta |-> NoTa, aggr |-> NoTa, pfs |-> None, at |-> <<>>]

Init ==
    /\ config \in Configs
    /\ step = "idle"
    /\ wire = <<>>
    /\ side = [p \in {"I", "R"} |-> Idle]

Refuse(p, ret) == step' = "refused" /\ wire' = [by |-> p, note |-> ret, foreign |-> wire.foreign]

\* main_outI1 and aggr_outI1, after initiate_a_connection's look at the
\* kernel's algorithms.
SendI1(c, offer) ==
    IF c.aggr /\ offer.trans[1].attrs[2][1] = "prf"
    THEN step' = "aborted" /\ UNCHANGED <<wire, side>>
    ELSE /\ step' = "I1"
         /\ wire' = [offer |-> offer, aggr |-> c.aggr, foreign |-> FALSE,
                     ke |-> IF c.aggr THEN init_aggr_st_oakley(offer.trans[1].attrs).group ELSE None]
         /\ side' = IF c.aggr
                    THEN [side EXCEPT !.I.aggr = init_aggr_st_oakley(offer.trans[1].attrs)] ELSE side

outI1 ==
    /\ step = "idle"
    /\ IF config.I.esp # NoInfo /\ kernel_alg_makedb(config.I) = Null
       THEN step' = "cannot initiate" /\ UNCHANGED <<wire, side>>
       ELSE SendI1(config.I, OutIsakmpSa(config.I))
    /\ UNCHANGED config

ForeignI1 ==
    /\ step = "idle"
    /\ \E f \in Foreign1 : wire' = [offer |-> f.offer, aggr |-> f.aggr, ke |-> f.ke, foreign |-> TRUE]
    /\ step' = "I1"
    /\ UNCHANGED <<config, side>>

\* main_inI1_outR1 and aggr_inI1_outR1.
ReplyR1(r) ==
    IF r.ret # "ok" THEN Refuse("R", r.ret) /\ UNCHANGED side
    ELSE /\ side' = [side EXCEPT !.R.ta = r.ta]
         /\ IF wire.aggr /\ wire.ke # r.ta.group
            THEN Refuse("R", "INVALID_KEY_INFORMATION")
            ELSE /\ step' = "R1"
                 /\ wire' = [wire EXCEPT !.offer = [head |-> None, notrans |-> 1, trans |-> r.trans]]

inI1_outR1 ==
    /\ step = "I1"
    /\ IF find_next_host_connection(config.R, wire.aggr, wire.offer)
       THEN ReplyR1(parse_isakmp_sa_body(config.R, FALSE, wire.offer))
       ELSE Refuse("R", "no connection") /\ UNCHANGED side
    /\ UNCHANGED config

\* main_inR1_outI2 and aggr_inR1_outI2.
CheckR1(r) ==
    IF r.ret # "ok" THEN Refuse("I", r.ret) /\ UNCHANGED side
    ELSE /\ step' = "isakmp"
         /\ side' = [side EXCEPT !.I.ta = r.ta]
         /\ UNCHANGED wire

inR1_outI2 ==
    /\ step = "R1" /\ ~wire.foreign
    /\ CheckR1(parse_isakmp_sa_body(config.I, TRUE, wire.offer))
    /\ UNCHANGED config

SendQ1(pfs) ==
    /\ side' = [side EXCEPT !.I.pfs = pfs]
    /\ wire' = [offer |-> OutIpsecSa(config.I, pfs), ke |-> pfs, foreign |-> FALSE]

\* ike_alg_pfsgroup, or the group of the ISAKMP SA.
quick_outI1 ==
    /\ step = "isakmp"
    /\ step' = "Q1"
    /\ SendQ1(IF ~config.I.pfs THEN None
              ELSE IF config.I.esp # NoInfo /\ config.I.pfsgroup # None THEN config.I.pfsgroup
              ELSE side.I.ta.group)
    /\ UNCHANGED config

ForeignQ1 ==
    /\ step = "R1" /\ wire.foreign
    /\ \E f \in Foreign2 : wire' = [offer |-> f.offer, ke |-> f.ke, foreign |-> TRUE]
    /\ step' = "Q1"
    /\ UNCHANGED <<config, side>>

\* A key exchange payload is wanted exactly when there is a PFS group.
accept_PFS_KE(ke, pfs) == ke = pfs

\* quick_inI1_outR1, which reads the offer once before and once after its
\* computation.
ReplyQ1(c, r) ==
    /\ side' = [side EXCEPT !.R.pfs = r.pfs, !.R.at = r.at]
    /\ IF r.ret # "ok" THEN Refuse("R", r.ret)
       ELSE IF ~accept_PFS_KE(wire.ke, r.pfs) THEN Refuse("R", "INVALID_KEY_INFORMATION")
       ELSE IF c.pfs /\ r.pfs = None THEN Refuse("R", "NO_PROPOSAL_CHOSEN")
       ELSE /\ step' = "Q2"
            /\ wire' = [offer |-> echo_proposal(r.echo), ke |-> r.pfs, foreign |-> wire.foreign]

quick_inI1_outR1 ==
    /\ step = "Q1"
    /\ ReplyQ1(config.R, parse_ipsec_sa_body(config.R, Unset, wire.offer))
    /\ UNCHANGED config

CheckQ2(r) ==
    /\ side' = [side EXCEPT !.I.at = r.at]
    /\ IF r.ret # "ok" \/ ~accept_PFS_KE(wire.ke, side.I.pfs)
       THEN Refuse("I", IF r.ret # "ok" THEN r.ret ELSE "INVALID_KEY_INFORMATION")
       ELSE step' = "ipsec" /\ UNCHANGED wire

quick_inR1_outI2 ==
    /\ step = "Q2" /\ ~wire.foreign
    /\ CheckQ2(parse_ipsec_sa_body(config.I, side.I.pfs, wire.offer))
    /\ UNCHANGED config

Next ==
    \/ outI1 \/ ForeignI1 \/ inI1_outR1 \/ inR1_outI2
    \/ quick_outI1 \/ ForeignQ1 \/ quick_inI1_outR1 \/ quick_inR1_outI2

Spec == Init /\ [][Next]_vars

----------------------------------------------------------------------------
(* Properties.                                                             *)

\* Two peers that both run pluto end with the same SA or the responder
\* refuses.  Once the initiator has the responder's choice both states hold
\* the same st_oakley, and in Aggressive Mode its group is the one the
\* initiator computed with before there was a choice; once Quick Mode is
\* over both hold the same protocols, with the same attributes and the same
\* PFS group.  The initiator accepts every choice from its own offer (except
\* that IPCOMP is offered whatever can_do_IPcomp says, and a preshared key
\* whether or not there is one), and no key exchange payload is for a group
\* other than the chosen one.
Ikev1EndsAgree ==
    /\ step \in {"isakmp", "Q1", "Q2", "ipsec"} /\ ~wire.foreign =>
          /\ side.I.ta = side.R.ta
          /\ config.I.aggr => side.I.aggr.group = side.R.ta.group
    /\ step = "ipsec" => side.I.at = side.R.at /\ side.I.pfs = side.R.pfs
    /\ step = "refused" /\ ~wire.foreign =>
          /\ wire.by = "I" => \/ config.I.compress /\ ~config.I.ipcomp
                              \/ side.R.ta.auth = "psk" /\ ~config.I.secret
          /\ wire.note # "INVALID_KEY_INFORMATION"

\* An ISAKMP transform that c's ike= line and policy admit: the four
\* attributes once each, the key length after the cipher or else the
\* cipher's own.  (An explicit length of 0 passes for any listed length.)
Admits(c, t) ==
    LET Has(type) == \E i \in 1..Len(t.attrs) : t.attrs[i][1] = type
        Val(type) == t.attrs[CHOOSE i \in 1..Len(t.attrs) : t.attrs[i][1] = type][2]
        keylen == IF Has("keylen") THEN Val("keylen") ELSE encrypt_desc(Val("encr")).keydeflen
        Listed(e) == /\ e.encr \in {None, Val("encr")} /\ e.dh \in {None, Val("group")}
                     /\ e.prf \in {None, Val("hash")}  /\ (keylen = 0 \/ e.keylen \in {0, keylen})
    IN  /\ \A type \in {"encr", "hash", "auth", "group"} : Has(type)
        /\ \A i \in 1..Len(t.attrs) :
              /\ t.attrs[i][1] \in {"encr", "hash", "auth", "group", "keylen"}
              /\ \A j \in 1..(i - 1) : /\ t.attrs[j][1] # t.attrs[i][1]
                                       /\ t.attrs[i][1] = "encr" => t.attrs[j][1] # "keylen"
        /\ Val("encr") \in {"aes", "3des"} /\ Val("hash") \in Hashes /\ Val("group") \in Groups
        /\ keylen \in encrypt_desc(Val("encr")).lengths \/ (keylen = 0 /\ c.ike # NoInfo)
        /\ Val("auth").base \in c.auth /\ (Val("auth").base = "psk" => c.secret)
        /\ (Val("auth").xauth = "init") = c.server /\ (Val("auth").xauth = "resp") = c.client
        /\ c.ike # NoInfo => \E i \in 1..Len(c.ike) : Listed(c.ike[i])

\* The responder's choice of ISAKMP transform is the first of the offer that
\* its own ike= line and policy admit: parse_isakmp_sa_body keeps to the
\* initiator's order and passes over nothing it could take.  And what it
\* chooses in Quick Mode its own esp= line and kernel allow, whatever else
\* the offer holds.
ChosenIsAllowed ==
    [][/\ step = "I1" /\ step' = "R1" =>
             LET offered == wire.offer.trans
                 chosen == wire'.offer.trans[1]
             IN  \E i \in 1..Len(offered) :
                    /\ offered[i] = chosen /\ Admits(config.R, chosen)
                    /\ \A j \in 1..(i - 1) : ~Admits(config.R, offered[j])
       /\ step = "Q1" /\ step' = "Q2" =>
             \A k \in 1..Len(side'.R.at) :
                LET proto == side'.R.at[k][1]  at == side'.R.at[k][2]  c == config.R
                IN  /\ proto = "esp" =>
                           /\ at.encrypt \in c.kernel
                           /\ at.keylen \in {0} \union encrypt_desc(at.encrypt).lengths
                           /\ c.esp # NoInfo => \E e \in ToSet(c.esp) :
                                  e.encr = at.encrypt /\ e.auth = at.auth
                                  /\ (e.keylen = 0 \/ at.keylen \in {0, e.keylen})
                    /\ proto = "ah" /\ c.esp # NoInfo => \E e \in ToSet(c.esp) : e.auth = at.auth
                    /\ proto = "ipcomp" => c.compress]_vars
=============================================================================
