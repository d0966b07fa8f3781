---------------------------- MODULE MCProposals ----------------------------
(***************************************************************************)
(* Configurations and foreign offers for Ikev2Proposals and                *)
(* Ikev1Proposals.  A behaviour is one of the first or one of the second.  *)
(***************************************************************************)
EXTENDS Integers, Sequences

VARIABLES conf, ike_proposals, esp_or_ah_proposals, ike, kid

Info(encr, keylen, prf, integ, dh) ==
    [encr |-> encr, keylen |-> keylen, prf |-> prf, integ |-> integ, dh |-> dh]
E2(encr, keylen, integ) == [encr |-> encr, keylen |-> keylen, integ |-> integ]

AllAlgs == {"aes", "gcm", "null", "sha1", "sha2_256", "sha2_512"}
Plain == [ike |-> <<>>, esp |-> <<>>, ah |-> FALSE, pfs |-> FALSE, pfsgroup |-> "none",
          esn |-> {"no"}, kernel |-> AllAlgs]

IkeLines == {<<>>,
             <<Info("aes", 0, "sha1", "sha1", "modp1536"), Info("old", 0, "sha1", "sha1", "modp2048"),
               Info("aes", 256, "sha2_256", "sha2_256", "modp2048")>>,
             <<Info("gcm", 128, "sha2_512", "none", "modp3072"),
               Info("aes", 128, "sha1", "sha1", "modp2048")>>}
EspLines == {<<>>,
             <<E2("gcm", 0, "none"), E2("aes", 0, "sha1")>>,
             <<E2("aes", 128, "sha2_256"), E2("null", 0, "sha1")>>}

MCScenarios ==
    {[A |-> [Plain EXCEPT !.ike = i], B |-> [Plain EXCEPT !.ike = j]] : i, j \in IkeLines}
    \union
    {[A |-> [Plain EXCEPT !.esp = i, !.pfs = TRUE, !.pfsgroup = g],
      B |-> [Plain EXCEPT !.esp = j, !.pfs = TRUE, !.esn = {"yes", "no"}]] :
        i, j \in EspLines, g \in {"none", "modp3072"}}
    \union
    {[A |-> [Plain EXCEPT !.ah = TRUE, !.pfs = TRUE], B |-> [Plain EXCEPT !.ah = TRUE, !.pfs = TRUE]],
     [A |-> [Plain EXCEPT !.ah = TRUE], B |-> [Plain EXCEPT !.ah = TRUE, !.esp = <<E2("null", 0, "sha2_256")>>]],
     [A |-> [Plain EXCEPT !.ah = TRUE, !.pfs = TRUE, !.esp = <<E2("null", 0, "sha1")>>],
      B |-> [Plain EXCEPT !.ah = TRUE, !.pfs = TRUE, !.esp = <<E2("null", 0, "sha1")>>]],
     [A |-> [Plain EXCEPT !.kernel = @ \ {"gcm"}], B |-> Plain]}

T(type, id, keylen) == [type |-> type, id |-> id, keylen |-> keylen, known |-> TRUE]
P(num, protoid, spi, trans) == [num |-> num, protoid |-> protoid, spi |-> spi, trans |-> trans]
IkeT(dh) == <<T("encr", "aes", 256), T("prf", "sha1", 0), T("integ", "sha1", 0), T("dh", dh, 0)>>

MCForeign == {
    [kind |-> "ike", ke |-> "modp2048",
     msg |-> <<P(1, "ike", 0, Append(IkeT("modp8192"), T("roof", "x", 0))),
               P(2, "ike", 8, IkeT("modp2048")),
               P(3, "ike", 0, <<T("encr", "aes", 128), T("encr", "aes", 256), T("prf", "sha2_512", 0),
                                T("integ", "none", 0), T("integ", "sha1", 0), T("dh", "modp2048", 0)>>),
               P(4, "ike", 0, IkeT("modp2048"))>>],
    [kind |-> "ike", ke |-> "modp2048", msg |-> <<P(1, "ike", 0, IkeT("modp2048")), P(3, "ike", 0, IkeT("modp2048"))>>],
    [kind |-> "ike", ke |-> "modp2048", msg |-> <<P(1, "ike", 0, IkeT("modp2048")), P(2, "ike", 0, <<T("zero", "x", 0)>>)>>],
    [kind |-> "rekey", ke |-> "modp2048", msg |-> <<P(1, "ike", 8, IkeT("modp2048"))>>],
    [kind |-> "child", ke |-> "modp2048",
     msg |-> <<P(1, "ah", 4, <<T("integ", "sha1", 0), T("esn", "no", 0)>>),
               P(2, "esp", 4, <<T("encr", "gcm", 128), T("dh", "modp2048", 0), T("esn", "no", 0)>>)>>],
    [kind |-> "auth", ke |-> "none",
     msg |-> <<P(1, "esp", 8, <<T("encr", "gcm", 128), T("esn", "no", 0)>>),
               P(2, "esp", 4, <<T("encr", "aes", 128), T("integ", "sha1", 0), T("esn", "no", 0)>>),
               P(3, "esp", 4, <<T("encr", "gcm", 128), T("esn", "no", 0), T("esn", "yes", 0)>>)>>]}

----------------------------------------------------------------------------
(* IKEv1.                                                                  *)

VARIABLES config, step, wire, side

I1(encr, keylen, prf, dh) == [encr |-> encr, keylen |-> keylen, prf |-> prf, dh |-> dh]
E1(encr, keylen, auth) == [encr |-> encr, keylen |-> keylen, auth |-> auth]

Plain1 == [ike |-> <<>>, aggr |-> FALSE, auth |-> {"psk"}, secret |-> TRUE,
           client |-> FALSE, server |-> FALSE,
           esp |-> <<>>, encrypt |-> TRUE, authenticate |-> FALSE,
           compress |-> FALSE, ipcomp |-> TRUE, tunnel |-> TRUE, nat |-> FALSE,
           pfs |-> FALSE, pfsgroup |-> "none",
           kernel |-> {"aes", "gcm", "3des", "null", "sha1", "sha2_256"}]

Lines1 == {<<>>,
           <<I1("aes", 256, "none", "modp2048"), I1("aes", 0, "sha1", "none")>>,
           <<I1("gcm", 128, "sha2_256", "modp2048"), I1("3des", 0, "none", "modp1024")>>,
           <<I1("none", 0, "sha1", "modp1536")>>}
\* gcm first in Aggressive Mode fails an assertion.
AggrLines1 == {<<>>,
               <<I1("aes", 256, "sha1", "modp3072"), I1("aes", 0, "sha1", "none"),
                 I1("3des", 0, "sha1", "modp1024")>>,
               <<I1("none", 0, "sha1", "modp1536"), I1("aes", 128, "sha2_256", "modp2048")>>}
Roles1 == {[auth |-> {"psk"}, secret |-> TRUE, client |-> FALSE, server |-> FALSE],
           [auth |-> {"psk"}, secret |-> FALSE, client |-> FALSE, server |-> FALSE],
           [auth |-> {"psk", "rsa"}, secret |-> TRUE, client |-> FALSE, server |-> FALSE],
           [auth |-> {"rsa"}, secret |-> FALSE, client |-> TRUE, server |-> FALSE],
           [auth |-> {"rsa", "psk"}, secret |-> TRUE, client |-> FALSE, server |-> TRUE],
           [auth |-> {"psk"}, secret |-> TRUE, client |-> TRUE, server |-> FALSE]}
WithRole(c, r) == [c EXCEPT !.auth = r.auth, !.secret = r.secret, !.client = r.client, !.server = r.server]
EspLines1 == {<<>>,
              <<E1("aes", 0, "sha1"), E1("3des", 0, "sha2_256")>>,
              <<E1("gcm", 256, "none"), E1("aes", 128, "sha1")>>,
              <<E1("3des", 0, "sha1")>>}
AhLines1 == {<<>>, <<E1("null", 0, "sha1")>>, <<E1("null", 0, "sha2_256"), E1("null", 0, "sha1")>>}

MCConfigs ==
    {[I |-> [Plain1 EXCEPT !.ike = i], R |-> [Plain1 EXCEPT !.ike = j]] : i, j \in Lines1}
    \union
    {[I |-> [Plain1 EXCEPT !.ike = i, !.aggr = TRUE], R |-> [Plain1 EXCEPT !.ike = j, !.aggr = a]] :
        i, j \in AggrLines1, a \in BOOLEAN}
    \union
    {[I |-> [Plain1 EXCEPT !.ike = <<I1("gcm", 0, "sha1", "modp2048")>>, !.aggr = TRUE], R |-> Plain1]}
    \union
    {[I |-> WithRole(Plain1, i), R |-> WithRole(Plain1, j)] : i, j \in Roles1}
    \union
    {[I |-> [WithRole(Plain1, i) EXCEPT !.aggr = TRUE], R |-> [WithRole(Plain1, j) EXCEPT !.aggr = TRUE]] :
        i \in {r \in Roles1 : r.auth # {"psk", "rsa"}}, j \in Roles1}
    \union
    {[I |-> [Plain1 EXCEPT !.esp = i, !.pfs = pi, !.pfsgroup = g, !.kernel = @ \ k],
      R |-> [Plain1 EXCEPT !.esp = j, !.pfs = pr]] :
        i, j \in EspLines1, pi, pr \in BOOLEAN, g \in {"none", "modp3072"},
        k \in {{}, {"3des"}, {"sha2_256"}}}
    \union
    {[I |-> [Plain1 EXCEPT !.compress = ci, !.ipcomp = k, !.tunnel = t, !.nat = n],
      R |-> [Plain1 EXCEPT !.compress = cr, !.nat = n]] :
        ci, cr, k, t, n \in BOOLEAN}
    \union
    {[I |-> [Plain1 EXCEPT !.encrypt = FALSE, !.authenticate = TRUE, !.esp = i, !.compress = c],
      R |-> [Plain1 EXCEPT !.encrypt = e, !.authenticate = TRUE, !.esp = j, !.compress = TRUE]] :
        i, j \in AhLines1, c, e \in BOOLEAN}
    \union
    {[I |-> [Plain1 EXCEPT !.authenticate = TRUE], R |-> [Plain1 EXCEPT !.authenticate = a]] :
        a \in BOOLEAN}

A1(encr, keylen, hash, group) ==
    <<<<"encr", encr>>, <<"keylen", keylen>>, <<"hash", hash>>,
      <<"auth", [base |-> "psk", xauth |-> "none"]>>, <<"group", group>>>>
T1(num, attrs) == [num |-> num, attrs |-> attrs]
Offer1(head, notrans, trans) == [head |-> head, notrans |-> notrans, trans |-> trans]
Good1 == A1("aes", 128, "sha1", "modp2048")

MCForeign1 == {
    [aggr |-> FALSE, ke |-> "none", offer |-> o] : o \in {
        Offer1("none", 4, <<T1(1, <<<<"keylen", 128>>>> \o Good1), T1(2, A1("idea", 128, "sha1", "modp2048")),
                            T1(4, A1("aes", 100, "sha1", "modp1536")), T1(7, Good1)>>),
        Offer1("none", 2, <<T1(1, A1("aes", 128, "tiger", "modp2048")), T1(1, Good1)>>),
        Offer1("none", 1, <<T1(1, A1("aes", 0, "sha1", "modp768")), T1(2, Good1)>>),
        Offer1("none", 3, <<T1(1, A1("aes", 0, "sha1", "modp2048")), T1(2, Good1)>>),
        Offer1("none", 2, <<T1(1, A1("aes", 128, "sha2_256", "modp2048")), T1(2, Good1)>>),
        Offer1("none", 1, <<T1(1, Append(Good1, <<"hash", "sha1">>))>>),
        Offer1("none", 2, <<T1(1, Tail(Good1)), T1(2, SubSeq(Good1, 1, 4))>>),
        Offer1("none", 1, <<T1(1, Append(Good1, <<"field", "x">>))>>),
        Offer1("INVALID_SPI", 1, <<T1(1, Good1)>>)}}
    \union {[aggr |-> TRUE, ke |-> "modp1024", offer |-> Offer1("none", 1, <<T1(0, Good1)>>)]}

Q1(num, protoid, spi, next, trans) ==
    [num |-> num, protoid |-> protoid, spi |-> spi, next |-> next, trans |-> trans]
Q1T(num, id, attrs) == [num |-> num, id |-> id, attrs |-> attrs]
Tun == <<<<"encap", "tunnel">>>>
Sha1 == <<<<"auth", "sha1">>, <<"encap", "tunnel">>>>
Aes1 == Append(Sha1, <<"keylen", 256>>)
Grp == <<<<"group", "modp2048">>>>

MCForeign2 == {
    [ke |-> "none", offer |-> o] : o \in {
        <<Q1(1, "ah", TRUE, TRUE, <<Q1T(1, "sha1", Sha1)>>),
          Q1(1, "esp", TRUE, TRUE, <<Q1T(1, "null", Tun \o <<<<"auth", "sha1">>>>), Q1T(2, "cast", Aes1)>>)>>,
        <<Q1(1, "ah", TRUE, TRUE, <<Q1T(1, "sha1", Sha1)>>),
          Q1(1, "esp", TRUE, FALSE, <<Q1T(1, "3des", <<<<"encap", "transport">>>>), Q1T(2, "3des", Tun)>>)>>,
        <<Q1(1, "ah", TRUE, TRUE, <<Q1T(1, "sha1", Sha1)>>),
          Q1(2, "ipcomp", TRUE, TRUE, <<Q1T(1, "lzs", <<>>), Q1T(2, "deflate", Tun)>>),
          Q1(3, "esp", TRUE, TRUE, <<Q1T(1, "null", Sha1), Q1T(2, "aes", Aes1)>>),
          Q1(3, "ipcomp", TRUE, FALSE, <<Q1T(1, "lzs", <<>>), Q1T(2, "deflate", Tun)>>)>>,
        <<Q1(1, "esp", TRUE, TRUE, <<Q1T(1, "null", Tun)>>), Q1(2, "esp", TRUE, FALSE, <<Q1T(1, "3des", Sha1)>>)>>,
        <<Q1(1, "ah", TRUE, FALSE, <<Q1T(1, "sha2_256", Sha1)>>)>>,
        <<Q1(1, "esp", TRUE, TRUE, <<Q1T(1, "3des", Sha1)>>), Q1(1, "esp", TRUE, FALSE, <<Q1T(1, "3des", Sha1)>>)>>,
        <<Q1(1, "esp", TRUE, FALSE, <<>>)>>,
        <<Q1(1, "esp", FALSE, FALSE, <<Q1T(1, "3des", Sha1)>>)>>,
        <<Q1(1, "isakmp", TRUE, FALSE, <<Q1T(1, "3des", Sha1)>>)>>,
        <<Q1(1, "esp", TRUE, FALSE, <<Q1T(1, "aes", Sha1)>>)>>,
        <<Q1(1, "esp", TRUE, FALSE, <<Q1T(1, "3des", Sha1 \o Tun)>>)>>,
        <<Q1(1, "esp", TRUE, TRUE, <<Q1T(1, "3des", Sha1)>>),
          Q1(1, "ipcomp", TRUE, FALSE, <<Q1T(1, "deflate", <<<<"keylen", 128>>>>)>>)>>,
        <<Q1(1, "esp", TRUE, FALSE, <<Q1T(1, "3des", Grp \o Sha1)>>)>>}}
    \union
    {[ke |-> "modp2048", offer |-> <<Q1(1, "esp", TRUE, FALSE, <<Q1T(1, "gcm", Grp \o Aes1), Q1T(2, "3des", t)>>)>>] :
        t \in {Sha1, Grp \o Sha1}}
    \union
    {[ke |-> "modp2048", offer |-> <<Q1(1, "esp", TRUE, FALSE, <<Q1T(1, "3des", Sha1)>>)>>]}

----------------------------------------------------------------------------
CONSTANTS Sas, Kids, Retries
V2 == INSTANCE Ikev2Proposals WITH Scenarios <- MCScenarios, Foreign <- MCForeign
V1 == INSTANCE Ikev1Proposals WITH Configs <- MCConfigs, Foreign1 <- MCForeign1, Foreign2 <- MCForeign2

VARIABLE part

Part2 == /\ V2!Next
         /\ UNCHANGED <<part, config, step, wire, side>>
Part1 == /\ V1!Next
         /\ UNCHANGED <<part, conf, ike_proposals, esp_or_ah_proposals, ike, kid>>

Init == /\ part \in {1, 2}
        /\ V1!Init /\ V2!Init
        /\ part # 1 => config = CHOOSE c \in MCConfigs : TRUE
        /\ part # 2 => conf = CHOOSE c \in MCScenarios : TRUE

Next == \/ part = 1 /\ Part1
        \/ part = 2 /\ Part2

Spec == Init /\ [][Next]_<<part, conf, ike_proposals, esp_or_ah_proposals, ike, kid, config, step, wire, side>>

\* See Ikev2Proposals: the choice of ikev2_process_sa_payload is the best.
ChoiceIsBest == V2!ChoiceIsBest
\* See Ikev2Proposals: both ends of an SA hold the same attributes.
EndsAgree == V2!EndsAgree
\* See Ikev2Proposals: only a stale list makes an initiator reject.
RejectedOnlyIfStale == V2!RejectedOnlyIfStale
\* See Ikev1Proposals: two plutos end with the same SA or the responder refuses.
Ikev1EndsAgree == V1!Ikev1EndsAgree
\* See Ikev1Proposals: a choice is the first, and one that the line allows.
ChosenIsAllowed == V1!ChosenIsAllowed
=============================================================================
