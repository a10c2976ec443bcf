---------------------------- MODULE MCTrustWalk -----------------------------
(***************************************************************************)
(* A small world: a root, issuing CAs with faults of every kind, leaves,   *)
(* two CAs that name each other, a chain that is too long, responders and  *)
(* lists that answer well and badly.                                       *)
(***************************************************************************)
EXTENDS TrustWalk

Table(f) == f @@ <<>>          \* the function, evaluated once
Alg == "sha256WithRSA"
Key(n) == Elem("SEQUENCE", <<Elem("INTEGER", <<n, 1>>), Elem("INTEGER", <<1, 0, 1>>)>>)
Spki(n) == [form |-> "ok", aligned |-> TRUE, alg |-> "rsaEncryption", parameters |-> Absent, key |-> Key(n)]
Sign(n, tbs) == <<"signature", Alg, Key(n), tbs>>

Ext(oid, critical, value) == [tag |-> "SEQUENCE", oid |-> oid, critical |-> critical, value |-> value, trailing |-> FALSE]
True == <<Elem("BOOLEAN", <<255>>)>>
Length(n) == <<Elem("INTEGER", <<n>>)>>
BC(v) == Ext("BASIC_CONSTRAINTS", 255, Elem("SEQUENCE", v))
KU(v) == Ext("KEY_USAGE", 255, Elem("BIT STRING", v))
CaBits == <<1, 6>>            \* keyCertSign, cRLSign
AuthBits == <<4, 176>>        \* digitalSignature, keyEncipherment, dataEncipherment
NonRepBits == <<6, 64>>
MixedBits == <<4, 240>>       \* all four
SignBits == <<7, 128>>
EKU(oid) == Ext("EXT_KEY_USAGE", -1, Elem("SEQUENCE", <<Elem("OID", oid)>>))
AIA(issuers, ocsp) ==
    Ext("AUTHORITY_INFO_ACCESS", -1, Elem("SEQUENCE",
        [i \in DOMAIN issuers |-> Elem("SEQUENCE", <<"AD_CA_ISSUERS", Elem("URI", issuers[i])>>)]
        \o [i \in DOMAIN ocsp |-> Elem("SEQUENCE", <<"AD_OCSP", Elem("URI", ocsp[i])>>)]))
CDP(urls) == Ext("CRL_DISTRIBUTION_POINTS", -1,
    Elem("SEQUENCE", <<Elem("fullName", [i \in DOMAIN urls |-> Elem("URI", urls[i])])>>))
CA(more) == <<BC(True), KU(CaBits)>> \o more

MkCert(serial, subject, key, issuer, signer, valid, exts) ==
    LET tbs == <<Elem("[0]", 2), Elem("INTEGER", serial), Elem("ALG", Alg), Elem("NAME", issuer),
                 Elem("Validity", valid), Elem("NAME", subject), Elem("SPKI", Spki(key)), Elem("[3]", exts)>> IN
    Elem("SEQUENCE", <<Elem("SEQUENCE", tbs), Elem("ALG", Alg), Elem("BIT STRING", Sign(signer, tbs))>>)

Always == <<0, 20>>
DeepNames == <<"D1", "D2", "D3", "D4", "D5", "D6", "D7", "D8", "D9">>
DeepCert(i) == MkCert(40 + i, DeepNames[i], 40 + i, IF i = 9 THEN "R" ELSE DeepNames[i + 1],
                      IF i = 9 THEN 1 ELSE 41 + i, Always, CA(<<>>))
LeafExts == <<KU(AuthBits), AIA(<<"iA", "iA">>, <<"oA", "oB">>), CDP(<<"cA">>)>>
BadCa == <<BC(True)>>                                             \* no key usage
BadCas == <<<<Ext("BASIC_CONSTRAINTS", -1, Elem("SEQUENCE", True)), KU(CaBits)>>,   \* not critical
            CA(<<Ext("NAME_CONSTRAINTS", 255, Elem("SEQUENCE", <<>>))>>),
            CA(<<EKU("KP_SERVER_AUTH")>>),
            BadCa, CA(<<BC(True)>>)>>                             \* twice
MCDer ==
    [R |-> MkCert(1, "R", 1, "R", 1, Always, CA(<<>>)),
     A |-> MkCert(2, "A", 2, "R", 1, Always, <<BC(True \o Length(0)), KU(CaBits), AIA(<<>>, <<"oR">>), CDP(<<"cR">>)>>),
     A2 |-> MkCert(3, "A", 3, "R", 1, Always, CA(<<>>)),
     B |-> MkCert(4, "B", 4, "A", 2, Always, CA(<<AIA(<<>>, <<"oA">>)>>)),
     LA |-> MkCert(5, "LA", 5, "A", 2, Always, LeafExts),
     LN |-> MkCert(6, "LN", 6, "A", 2, <<2, 9>>, <<KU(NonRepBits), AIA(<<>>, <<"oA", "oB", "oA", "oB">>), CDP(<<"cA">>)>>),
     LM |-> MkCert(7, "LM", 7, "A", 2, Always, <<KU(MixedBits), Ext("VENDOR", 255, Elem("NULL", <<>>))>>),
     LB |-> MkCert(8, "LB", 8, "B", 4, Always, LeafExts),
     X |-> MkCert(9, "X", 9, "Y", 10, Always, CA(<<>>)),
     Y |-> MkCert(10, "Y", 10, "X", 9, Always, CA(<<>>)),
     LX |-> MkCert(11, "LX", 11, "X", 9, Always, <<KU(AuthBits), AIA(<<"iX">>, <<>>)>>),
     LV |-> MkCert(12, "LV", 12, "V", 13, Always, <<KU(SignBits)>>),
     V1 |-> MkCert(13, "V", 13, "R", 1, Always, BadCas[1]),
     V2 |-> MkCert(14, "V", 13, "R", 1, Always, BadCas[2]),
     V3 |-> MkCert(15, "V", 13, "R", 1, Always, BadCas[3]),
     V4 |-> MkCert(16, "V", 13, "R", 1, Always, BadCas[4]),
     V5 |-> MkCert(17, "V", 13, "R", 1, Always, BadCas[5]),
     Resp |-> MkCert(20, "Resp", 20, "A", 2, Always,
                     <<KU(SignBits), EKU("KP_OCSP_SIGNING"), Ext("OCSP_NO_CHECK", -1, Elem("NULL", <<>>))>>),
     RespR |-> MkCert(21, "Resp", 20, "R", 1, Always,
                     <<KU(SignBits), EKU("KP_OCSP_SIGNING"), Ext("OCSP_NO_CHECK", -1, Elem("NULL", <<>>))>>),
     RespX |-> MkCert(22, "Resp", 22, "A", 2, Always, <<KU(SignBits), EKU("KP_SERVER_AUTH")>>)]
    @@ [n \in Range(DeepNames) |-> DeepCert(CHOOSE i \in 1..9 : DeepNames[i] = n)]
    @@ [junk |-> Elem("SEQUENCE", <<Elem("bad", 0)>>)]

\* Answers of responders.
Time(t) == Elem("GeneralizedTime", t)
Single(serial, issuer, key, status, next, more) ==
    Elem("SEQUENCE", <<[tag |-> "SEQUENCE", params |-> "NULL", trailing |-> FALSE,
                        value |-> [alg |-> "SHA-1", name |-> <<"SHA-1", issuer>>, key |-> <<"SHA-1", Key(key)>>,
                                   serial |-> serial]],
                      status, Time(5)>>
                     \o (IF next = 0 THEN <<>> ELSE <<Elem("[0]", Time(next))>>) \o more)
Good == Elem("good", <<>>)
Revoked == Elem("revoked", <<Time(4), Elem("[0]", 1)>>)
NonceExt(n) == <<Elem("[1]", Elem("SEQUENCE", <<[tag |-> "SEQUENCE", oid |-> "NONCE", critical |-> -1,
                                                   value |-> Elem("OCTET STRING", n)]>>))>>
Response(name, signer, singles, nonce, embedded) ==
    LET tbs == <<Elem("[1]", name), Time(5), Elem("SEQUENCE", singles)>> \o nonce IN
    [tag |-> "SEQUENCE", status |-> Elem("ENUMERATED", <<0>>),
     value |-> <<[tag |-> "[0]", type |-> "BASIC_OCSP_RESPONSE",
                  value |-> Elem("SEQUENCE", <<Elem("SEQUENCE", tbs),
                                              [tag |-> "SEQUENCE", params |-> "absent", value |-> Alg],
                                              [tag |-> "BIT STRING", unused |-> 0, value |-> Sign(signer, tbs)],
                                              Elem("[0]", embedded)>>)]>>]
ForA(status, next, nonce) == Response("A", 2, <<Single(5, "A", 2, status, next, <<>>)>>, nonce, <<>>)
Answer(kind, n) ==
    CASE kind = "good" -> Response("A", 2, <<Single(6, "A", 2, Good, 9, <<>>), Single(5, "A", 2, Good, 9, <<>>)>>, NonceExt(n), <<>>)
      [] kind = "delegate" -> Response("Resp", 20, <<Single(5, "A", 2, Good, 9, <<>>)>>, NonceExt(n), <<"junk", "Resp">>)
      [] kind = "of another" -> Response("Resp", 20, <<Single(5, "A", 2, Good, 9, <<>>)>>, NonceExt(n), <<"RespR">>)
      [] kind = "no responder" -> Response("Resp", 22, <<Single(5, "A", 2, Good, 9, <<>>)>>, NonceExt(n), <<"RespX">>)
      [] kind = "revoked" -> ForA(Revoked, 9, NonceExt(n))
      [] kind = "unknown" -> ForA(Elem("unknown", <<>>), 9, NonceExt(n))
      [] kind = "stale" -> ForA(Good, 6, NonceExt(n))
      [] kind = "no next" -> ForA(Good, 0, NonceExt(n))
      [] kind = "replayed" -> ForA(Good, 9, NonceExt(n - 1))
      [] kind = "no nonce" -> ForA(Good, 9, <<>>)
      [] kind = "other serial" -> Response("A", 2, <<Single(99, "A", 2, Good, 9, <<>>)>>, NonceExt(n), <<>>)
      [] kind = "other issuer" -> Response("A", 2, <<Single(5, "A", 3, Good, 9, <<>>)>>, NonceExt(n), <<>>)
      [] kind = "twice" -> Response("A", 2, <<Single(5, "A", 2, Good, 9, <<>>), Single(5, "A", 2, Revoked, 9, <<>>)>>, NonceExt(n), <<>>)
      [] kind = "critical" -> Response("A", 2, <<Single(5, "A", 2, Good, 9,
               <<Elem("[1]", Elem("SEQUENCE", <<[tag |-> "SEQUENCE", oid |-> "VENDOR", critical |-> 255,
                                                 value |-> Elem("NULL", <<>>)]>>))>>)>>, NonceExt(n), <<>>)
      [] kind = "later" -> [tag |-> "SEQUENCE", status |-> Elem("ENUMERATED", <<3>>), value |-> <<>>]
      [] kind = "goodR" -> Response("R", 1, <<Single(2, "R", 1, Good, 9, <<>>)>>, <<>>, <<>>)
      [] kind = "revokedR" -> Response("R", 1, <<Single(2, "R", 1, Revoked, 9, <<>>)>>, <<>>, <<>>)
KindsA == {"good", "delegate", "of another", "no responder", "revoked", "unknown", "stale", "no next", "replayed",
           "no nonce", "other serial", "other issuer", "twice", "critical", "later"}
MCOcspDer == Table([k \in KindsA \cup {"goodR", "revokedR"} |-> Table([n \in 0..8 |-> Answer(k, n)])])

Entry(serial) == [serial |-> serial, date |-> 4, extensions |-> <<<<[oid |-> "CRL_REASONS", critical |-> FALSE, value |-> 1]>>>>]
List(issuer, signer, next, revoked, exts) ==
    LET tbs == [signature |-> Alg, outer |-> Alg, version |-> "v2", issuer |-> issuer, this_update |-> 4,
                next_update |-> <<next>>, revoked |-> revoked, extensions |-> exts,
                order |-> <<"next", "revoked", "ext">>] IN
    [tag |-> "SEQUENCE", tbs |-> tbs, unused |-> 0, trailing |-> FALSE, bits |-> Sign(signer, tbs)]
Number == <<<<[oid |-> "CRL_NUMBER", critical |-> FALSE]>>>>
MCCrlDer ==
    [clear |-> List("A", 2, 9, <<Entry(99)>>, Number),
     listed |-> List("A", 2, 9, <<Entry(99), Entry(5)>>, Number),
     old |-> List("A", 2, 5, <<>>, Number),
     skewed |-> List("A", 2, 6, <<>>, Number),
     delta |-> List("A", 2, 9, <<>>, <<<<[oid |-> "DELTA_CRL_INDICATOR", critical |-> TRUE]>>>>),
     forged |-> List("A", 3, 9, <<>>, Number),
     clearR |-> List("R", 1, 9, <<>>, Number)]

\* Addresses, names and servers.
Public == <<193, 1, 1, 1>>
Host(name, kind) == [name |-> name, kind |-> kind, address |-> <<127, 0, 0, 1>>]
At(scheme, host, port) == [scheme |-> scheme, host |-> host, port |-> port]
Ca == Host("ca", "name")
Tsa == Host("tsa", "name")
Elsewhere == Host("elsewhere", "name")
Printer == Host("printer", "undotted")
MCUrl == [iA |-> At("http", Ca, 80), oA |-> At("http", Ca, 80), oB |-> At("http", Ca, 8080),
          oR |-> At("http", Ca, 80), cA |-> At("https", Ca, 443), cR |-> At("http", Ca, 80),
          iX |-> At("http", Elsewhere, 80),
          t |-> At("https", Tsa, 443), tp |-> At("http", Tsa, 80), tl |-> At("http", Printer, 80)]
Secure(a) == [records |-> "ok", list |-> <<[proof |-> "Secure", address |-> a]>>]
Nothing == [records |-> "ok", list |-> <<>>]
V6(a, b, rest) == [i \in 1..16 |-> IF i = 1 THEN a ELSE IF i = 2 THEN b ELSE IF i > 16 - Len(rest) THEN rest[i - 16 + Len(rest)] ELSE 0]
MCDnsAnswers == [h \in {Ca, Tsa, Elsewhere, Printer} |->
    CASE h.name = "elsewhere" ->
           {[v4 |-> Secure(a), v6 |-> v, platform |-> <<Public>>] :
               a \in {Public, <<10, 0, 0, 1>>, <<172, 31, 0, 1>>},
               v \in {Nothing, Secure(V6(0, 0, <<255, 255, 192, 168, 0, 1>>)),
                      [records |-> "ok", list |-> <<[proof |-> "Bogus", address |-> Public]>>]}}
           \cup {[v4 |-> v, v6 |-> x, platform |-> p] :
               v \in {Nothing, [records |-> "error", list |-> <<>>]},
               x \in {Nothing, [records |-> "ok", list |-> <<[proof |-> "Insecure", address |-> Public]>>],
                      Secure(V6(32, 2, <<127, 0, 0, 1, 0, 0, 0, 0, 0, 0, 0, 0, 0, 0>>)),
                      [records |-> "ok", list |-> <<[proof |-> "Secure", address |-> <<>>]>>]},
               p \in {<<>>, <<Public, <<192, 168, 1, 1>>>>, [i \in 1..3 |-> <<193, 1, 1, i>>]}}
      [] OTHER -> {[v4 |-> Secure(Public), v6 |-> Nothing, platform |-> <<<<192, 168, 0, 9>>>>]}]
Header(name, value) == [name |-> name, value |-> value]
Plain(body) == [code |-> 200, headers |-> <<Header("content-length", [length |-> 2])>>, chunks |-> <<>>, sent |-> 2, size |-> 2,
                end |-> "close", body |-> body]
Silence == [Plain("") EXCEPT !.code = -1, !.end = "silence"]
Redirect(code, url) == [Plain("") EXCEPT !.code = code, !.headers = <<Header("location", [url |-> url])>>]
Shapes ==
    {[code |-> 200, headers |-> h, chunks |-> <<>>, sent |-> n,
      size |-> IF h = <<Header("content-length", [length |-> 9])>> THEN 9 ELSE 3, end |-> e, body |-> "LA"] :
        h \in {<<>>, <<Header("content-length", [length |-> 3])>>, <<Header("content-length", [length |-> 9])>>,
               <<Header("content-length", [length |-> -1])>>,
               <<Header("content-length", [length |-> 3]), Header("content-length", [length |-> -1])>>},
        n \in {2, 3, 5}, e \in {"close", "abort", "silence"}}
    \cup {[code |-> 200, headers |-> <<Header("transfer-encoding", [coding |-> "chunked"])>>, chunks |-> c, sent |-> n,
           size |-> ChunkedOctets(c), end |-> e, body |-> "LA"] :
        c \in {<<2, 1, 0>>, <<2, 3, 0>>, <<0>>, <<1, 0, 9>>}, n \in 0..3, e \in {"close", "abort", "silence"}}
MCStreams == [for \in DOMAIN MCUrl |->
    CASE for = "iA" -> {Plain("A"), Plain("A2"), Plain("junk"), Silence}
      [] for = "iX" -> {Plain("A"), Redirect(302, At("http", Elsewhere, 81)), Redirect(301, At("http", Ca, 80))}
      [] for \in {"oA", "oB"} -> {Plain(k) : k \in KindsA} \cup {Silence}
      [] for = "oR" -> {Plain("goodR"), Plain("revokedR")}
      [] for = "cA" -> {Plain(k) : k \in {"clear", "listed", "old", "skewed", "delta", "forged"}} \cup {Silence}
      [] for = "cR" -> {Plain("clearR")}
      [] OTHER -> {[x EXCEPT !.sent = IF Len(x.chunks) # 0 /\ x.sent > Len(x.chunks) THEN Len(x.chunks) ELSE @] : x \in Shapes}
                  \cup {[Plain("LA") EXCEPT !.code = c] : c \in {404, 503}}
                  \cup {[Plain("LA") EXCEPT !.code = 204, !.sent = n] : n \in {0, 1, 3}} \cup {Silence, [Silence EXCEPT !.end = "close"]}
                  \cup {Redirect(c, u) : c \in {302, 307}, u \in {At("https", Tsa, 443), At("http", Tsa, 80),
                                                                 At("https", Elsewhere, 443), At("https", Tsa, 8443)}}]

\* The calls.
Call(call, leaf, t, anchors, policy) ==
    [NoStart EXCEPT !.call = call, !.leaf = leaf, !.reference_time = t, !.anchors = anchors, !.nonce_policy = policy]
MCStarts ==
    {[calls |-> <<Call("collect", l, 5, <<"R">>, p)>>, candidates |-> c] :
        l \in {"LA"}, p \in {"RequireEcho", "AcceptMissing"}, c \in {<<>>, <<"A2", "A">>}}
    \cup {[calls |-> <<[Call("collect", "LN", t, a, "AcceptMissing") EXCEPT !.include_anchor = FALSE]>>, candidates |-> <<"A">>] :
        t \in {1, 5}, a \in {<<>>, <<"A">>}}
    \cup {[calls |-> <<Call("collect", "LN", 5, <<"A">>, "AcceptMissing"), Call("collect", "A", 5, <<"R">>, "AcceptMissing")>>,
           candidates |-> <<>>]}
    \cup {[calls |-> <<Call("verify", l, 5, <<"R">>, "RequireEcho")>>,
           candidates |-> <<"A", "B", "X", "Y", "V1", "V2", "V3", "V4", "V5">> \o DeepNames] :
        l \in {"LA", "LM", "LB", "LX", "LV", "D1", "D2", "D3", "R", "junk", "RespX"}}
    \cup {[calls |-> <<[Call("display", l, 5, <<>>, "RequireEcho") EXCEPT !.aia = a]>>, candidates |-> c] :
        l \in {"LA", "LX", "R", "D1"}, a \in BOOLEAN, c \in {<<>>, <<"X", "Y", "R", "junk">> \o DeepNames}}
    \cup {[calls |-> <<[Call("authority", u, 5, <<>>, "RequireEcho") @@ [credentials |-> c] EXCEPT !.leaf = u]>>, candidates |-> <<>>] :
        u \in {"t", "tp", "tl"}, c \in BOOLEAN}
    \cup {[calls |-> <<Call("cache", "LA", 5, <<"A">>, "RequireEcho") @@ [evidence |-> {"good", "revoked", "no next", "clear", "listed"}]>>,
           candidates |-> <<>>]}
=============================================================================
