----------------------------- MODULE HttpClient -----------------------------
(***************************************************************************)
(* The client's HTTP and HTTPS requests: http.rs of the client, framing.rs,*)
(* http.rs and simple_https.rs of the TLS crate.  One request runs at a    *)
(* time; the name service, the network and the server answer as they like  *)
(* within DnsAnswers and Streams.                                          *)
(***************************************************************************)
EXTENDS Integers, Sequences, FiniteSets, SequencesExt
CONSTANTS
    DnsAnswers,           \* [host -> the answers its look-up may get]
    Streams,              \* [the request's purpose -> what its server may send]
    AddressBound,         \* MAX_RESOLVED_ADDRESSES
    BodyLimit             \* the caller's max_bytes
VARIABLES http            \* the request and its progress

None == <<>>
NoRequest == [st |-> "idle"]

(***************************************************************************)
(* Destinations                                                            *)
(***************************************************************************)

\* is_public_ipv4.
is_public_ipv4(b) ==
    ~ \/ b[1] \in {0, 10, 127} \/ b[1] >= 224
      \/ b[1] = 100 /\ b[2] \in 64..127
      \/ b[1] = 169 /\ b[2] = 254
      \/ b[1] = 172 /\ b[2] \in 16..31
      \/ b[1] = 192 /\ b[2] \in {0, 168}
      \/ b[1] = 198 /\ b[2] \in {18, 19}
      \/ b[1] = 198 /\ b[2] = 51 /\ b[3] = 100
      \/ b[1] = 203 /\ b[2] = 0 /\ b[3] = 113

\* embedded_ipv4: compatible, mapped, NAT64 and 6to4 addresses.
Zeros(b, i, j) == \A k \in i..j : b[k] = 0
embedded_ipv4(b) ==
    IF \/ Zeros(b, 1, 12)
       \/ Zeros(b, 1, 10) /\ b[11] = 255 /\ b[12] = 255
       \/ b[1] = 0 /\ b[2] = 100 /\ b[3] = 255 /\ b[4] = 155 /\ Zeros(b, 5, 12)
    THEN <<b[13], b[14], b[15], b[16]>>
    ELSE IF b[1] = 32 /\ b[2] = 2 THEN <<b[3], b[4], b[5], b[6]>> ELSE None

\* is_public_ipv6.
MutIsPublicIpv6(b) ==                                 \* Mutant: embedded addresses are not opened
    ~ \/ Zeros(b, 1, 15) /\ b[16] \in {0, 1}
      \/ b[1] \in {252, 253, 255}
      \/ b[1] = 254 /\ b[2] >= 128
is_public_ipv6(b) ==
    /\ ~(Zeros(b, 1, 15) /\ b[16] \in {0, 1})
    /\ IF embedded_ipv4(b) # None THEN is_public_ipv4(embedded_ipv4(b))
       ELSE ~ \/ b[1] \in {252, 253, 255}
              \/ b[1] = 254 /\ b[2] >= 128
              \/ <<b[1], b[2], b[3], b[4]>> = <<32, 1, 13, 184>>
              \/ <<b[1], b[2], b[3], b[4], b[5], b[6]>> = <<0, 100, 255, 155, 0, 1>>

is_public(a) == IF Len(a) = 4 THEN is_public_ipv4(a) ELSE is_public_ipv6(a)

\* host_could_be_public; a host is [name, kind, address].
host_could_be_public(h) ==
    CASE h.kind \in {"empty", "localhost", "local", "numeric"} -> FALSE
      [] h.kind = "address" -> is_public(h.address)
      [] OTHER -> TRUE

\* DnssecLookup.  Of the addresses only the first and the set of all matter.
NoAddress(kind) == [kind |-> kind, first |-> None, all |-> {}]

\* classify_proven_addresses: one bogus record spoils the look-up, one that
\* is not secure sends it to the platform's resolver.
Proven(records, proof) == {i \in DOMAIN records : records[i].proof = proof}
classify_proven_addresses(records) ==
    LET found == {i \in Proven(records, "Secure") : records[i].address # None} IN
    IF Proven(records, "Bogus") # {} THEN NoAddress("Bogus")
    ELSE IF records = <<>> \/ Proven(records, "Insecure") # {} THEN NoAddress("Fallback")
    ELSE IF found = {} THEN NoAddress("SecureEmpty")
    ELSE [kind |-> "Secure", first |-> records[Min(found)].address, all |-> {records[i].address : i \in found}]

\* classify_dnssec_lookup and classify_dnssec_error: records, a proof that
\* there is none, or a failure.
classify_dnssec_lookup(answer) ==
    IF answer.records = "error" THEN NoAddress("Fallback")
    ELSE classify_proven_addresses(answer.list)

\* combine_dnssec_lookups: a secure address of either family is enough.
combine_dnssec_lookups(first, second) ==
    IF first.all \cup second.all # {}
    THEN [kind |-> "Secure", first |-> IF first.all # {} THEN first.first ELSE second.first,
          all |-> first.all \cup second.all]
    ELSE IF "Bogus" \in {first.kind, second.kind} THEN NoAddress("Bogus")
    ELSE IF "SecureEmpty" \in {first.kind, second.kind} THEN NoAddress("SecureEmpty")
    ELSE NoAddress("Fallback")

\* authority_uses_platform_resolver: a name of the local network.
authority_uses_platform_resolver(h) == ~host_could_be_public(h) \/ h.kind = "undotted"

\* resolve_addresses, on one answer of the name service.
resolve_addresses(h, endpoint, dns) ==
    LET secured == combine_dnssec_lookups(classify_dnssec_lookup(dns.v4), classify_dnssec_lookup(dns.v6))
        platform == IF dns.platform = <<>> THEN [err |-> "Io", io |-> "Other"]
                    ELSE [err |-> "", first |-> dns.platform[1], all |-> Range(dns.platform)] IN
    CASE h.kind = "address" -> [err |-> "", first |-> h.address, all |-> {h.address}]
      [] h.kind # "address" /\ endpoint = "Authority" /\ authority_uses_platform_resolver(h) -> platform
      [] OTHER -> CASE secured.kind = "Secure" -> [err |-> "", first |-> secured.first, all |-> secured.all]
                    [] secured.kind = "SecureEmpty" -> [err |-> "BadUrl"]
                    [] secured.kind = "Bogus" -> [err |-> "UnsafeDestination"]
                    [] OTHER -> platform

\* resolve_destination: for an address a certificate names, every address the
\* name has must be public; the first of the distinct ones is used.
CheckAddresses(r, endpoint) ==
    CASE r.err # "" -> r
      [] r.err = "" /\ Cardinality(r.all) > AddressBound -> [err |-> "UnsafeDestination"]
      [] r.err = "" /\ endpoint = "CertificateMaterial"
           /\ \E a \in r.all : ~is_public(a) -> [err |-> "UnsafeDestination"]
      [] OTHER -> [err |-> "", address |-> r.first]
resolve_destination(h, endpoint, dns) ==
    IF endpoint = "CertificateMaterial" /\ ~host_could_be_public(h) THEN [err |-> "UnsafeDestination"]
    ELSE CheckAddresses(resolve_addresses(h, endpoint, dns), endpoint)

(***************************************************************************)
(* One response.  A stream is [code, headers, chunks, sent, size, end]: the *)
(* code (-1: no status line), the headers in order, the sizes of its chunks *)
(* when chunked, how many octets or whole chunks arrive of how many, and    *)
(* how it ends: "close", "abort" or "silence".                              *)
(***************************************************************************)

Headers(s, name) == {i \in DOMAIN s.headers : s.headers[i].name = name}
FirstHeader(s, name) == IF Headers(s, name) = {} THEN None ELSE <<s.headers[Min(Headers(s, name))].value>>
LastHeader(s, name) == IF Headers(s, name) = {} THEN None ELSE <<s.headers[Max(Headers(s, name))].value>>
Chunked(s) == \E i \in Headers(s, "transfer-encoding") : s.headers[i].value.coding = "chunked"
Octets(chunks) == FoldLeft(LAMBDA a, b : a + b, 0, chunks)
Ends(chunks) == {k \in DOMAIN chunks : chunks[k] = 0}
\* The octets before the empty chunk that ends the body.
ChunkedOctets(chunks) == Octets(SubSeq(chunks, 1, Min(Ends(chunks)) - 1))
\* The server told the length of its body, in one way.
TellsAt(s, i) ==
    /\ Headers(s, "content-length") \cup Headers(s, "transfer-encoding") = {i}
    /\ IF s.headers[i].name = "content-length" THEN s.headers[i].value.length # -1
       ELSE s.headers[i].value.coding = "chunked"
Bodyless == (100..199) \cup {204, 304}
\* A response that has no body tells the length of none.
Told(s) == s.code \notin Bodyless /\ \E i \in DOMAIN s.headers : TellsAt(s, i)
Body(n, s) == [err |-> "", octets |-> n, whole |-> n = s.size, told |-> Told(s), code |-> s.code, body |-> s.body]
StreamError(s) == CASE s.end = "silence" -> "WouldBlock" [] s.end = "abort" -> "ConnectionReset"
                    [] OTHER -> "UnexpectedEof"

\* The empty chunks that arrive; some chunk before the first of them, among
\* the first n, passes the limit.
EndsSent(s) == {e \in Ends(s.chunks) : e <= s.sent}
TooLarge(s, n) ==
    \E k \in 0..Len(s.chunks) :
        /\ k <= n /\ \A e \in EndsSent(s) : k < e
        /\ ~(Octets(SubSeq(s.chunks, 1, k)) <= BodyLimit)

\* read_chunked_body: refuses a chunk that would pass the limit before it
\* takes it.
read_chunked_body(s) ==
    IF TooLarge(s, s.sent + 1) THEN [err |-> "BodyTooLarge"]
    ELSE IF EndsSent(s) # {} THEN Body(ChunkedOctets(s.chunks), s)
    ELSE IF s.sent = Len(s.chunks) /\ s.end = "close" THEN [err |-> "BadChunkSize"]
    ELSE [err |-> "Io", io |-> StreamError(s)]

\* HttpHelpers::read_response, over plain HTTP: the last Content-Length
\* counts, and one that is no number is none.
read_response(s) ==
    LET length == LastHeader(s, "content-length") IN
    CASE s.code = -1 -> IF s.end = "silence" THEN [err |-> "Io", io |-> "WouldBlock"] ELSE [err |-> "BadStatusLine"]
      [] s.code \notin {-1} \cup 200..299 ->
           [err |-> "HttpStatus", code |-> s.code, location |-> LastHeader(s, "location")]
      [] OTHER ->
           CASE Chunked(s) -> read_chunked_body(s)
             [] ~Chunked(s) /\ (length = None \/ (length # None /\ length[1].length = -1)) -> [err |-> "UnknownBodyLength"]
             [] OTHER -> IF length[1].length > BodyLimit THEN [err |-> "BodyTooLarge"]
                         ELSE IF s.sent < length[1].length THEN [err |-> "Io", io |-> StreamError(s)]
                         ELSE Body(length[1].length, s)

\* Framing::read_chunked: a chunk is taken whole before the limit is looked at.
read_chunked(s) ==
    IF TooLarge(s, s.sent) THEN [err |-> "BodyTooLarge"]
    ELSE IF EndsSent(s) # {} THEN Body(ChunkedOctets(s.chunks), s)
    ELSE IF s.end = "close" THEN [err |-> "BadChunking"]
    ELSE [err |-> "Io", io |-> StreamError(s)]

\* Framing::read_response, over TLS: the first Content-Length counts, and
\* without one the body lasts until the connection ends.  A read that times
\* out is tried again, without end ("Stalled"), except in a chunked body.  The
\* body of a response that has none is whatever was read along with its head.
Framing_read_response(s) ==
    LET told == FirstHeader(s, "content-length")
        length == IF told = None THEN None ELSE IF told[1].length = -1 THEN None ELSE <<told[1].length>> IN
    CASE s.code = -1 -> IF s.end = "silence" THEN [err |-> "Stalled"] ELSE [err |-> "ClosedInHeaders"]
      [] s.code \in Bodyless -> Body(s.sent, s)
      [] s.code \notin Bodyless \cup {-1} /\ Chunked(s) -> read_chunked(s)
      [] OTHER ->
           IF length # None
           THEN IF length[1] > BodyLimit THEN [err |-> "BodyTooLarge"]
                ELSE IF s.sent >= length[1] THEN Body(length[1], s)
                ELSE IF s.end = "silence" THEN [err |-> "Stalled"]
                ELSE [err |-> "ClosedInBody"]
           ELSE IF s.sent > BodyLimit THEN [err |-> "BodyTooLarge"]
                ELSE IF s.end = "silence" THEN [err |-> "Stalled"]
                ELSE IF s.end = "close" THEN Body(s.sent, s)
                ELSE [err |-> "Io", io |-> StreamError(s)]

\* send_request and https_get_to, https_post_to: what is not a success goes on
\* as a response with its code; map_https_error keeps whether to try again.
https_exchange(s) ==
    LET r == Framing_read_response(s) IN
    CASE r.err = "Stalled" -> r
      [] r.err \notin {"", "Stalled"} -> [err |-> "Https", retryable |-> TRUE]
      [] OTHER -> IF r.code \in 200..299 THEN r
                  ELSE [err |-> "HttpStatus", code |-> r.code, location |-> LastHeader(s, "location")]

(***************************************************************************)
(* The environment: addresses are of four or sixteen octets, a host that is *)
(* reached has a look-up, and a server that tells a length tells the one it *)
(* means; what arrives may still be shorter or longer.  What comes in the   *)
(* same read as the head of a response without body is at most              *)
(* READ_CHUNK_BYTES, which is less than any caller's limit.                 *)
(***************************************************************************)

Address == {a \in Seq(0..255) : Len(a) \in {4, 16}}
RecordsForm(answer) ==
    /\ DOMAIN answer.list = 1..Len(answer.list) /\ Len(answer.list) \in Nat
    /\ \A i \in DOMAIN answer.list : answer.list[i].address = None \/ answer.list[i].address \in Address
DnsForm(dns) ==
    /\ RecordsForm(dns.v4) /\ RecordsForm(dns.v6)
    /\ dns.platform \in Seq(Address)
StreamForm(s) ==
    /\ s.sent \in Nat /\ s.chunks \in Seq(Nat)
    /\ DOMAIN s.headers = 1..Len(s.headers) /\ Len(s.headers) \in Nat
    /\ \A i \in Headers(s, "content-length") : s.headers[i].value.length \in Nat \cup {-1}
    /\ \A i \in Headers(s, "location") : s.headers[i].value.url.host \in DOMAIN DnsAnswers
    /\ s.code \in Bodyless => s.sent <= BodyLimit
    /\ s.code \notin Bodyless =>
         \A i \in DOMAIN s.headers : TellsAt(s, i) =>
            s.size = IF s.headers[i].name = "content-length" THEN s.headers[i].value.length ELSE ChunkedOctets(s.chunks)
ASSUME HttpAssumption ==
    /\ AddressBound \in Nat /\ BodyLimit \in Nat
    /\ \A h \in DOMAIN DnsAnswers : h.address \in Address /\ \A dns \in DnsAnswers[h] : DnsForm(dns)
    /\ \A for \in DOMAIN Streams : \A s \in Streams[for] : StreamForm(s)

(***************************************************************************)
(* Requests                                                                *)
(***************************************************************************)

\* maximum_redirects, and the codes each method follows.
maximum_redirects(endpoint) == IF endpoint = "Authority" THEN 1 ELSE 2
RedirectCodes(method) == IF method = "GET" THEN {301, 302, 307, 308} ELSE {307, 308}

\* check_redirect: never from HTTPS to HTTP; a configured authority keeps its
\* origin, or goes from HTTP to HTTPS on its own host.
check_redirect(from, to, endpoint) ==
    /\ ~(from.scheme = "https" /\ to.scheme = "http")
    /\ endpoint = "Authority" =>
         \/ from.scheme = to.scheme /\ from.host = to.host /\ from.port = to.port
         \/ from.scheme = "http" /\ to.scheme = "https" /\ from.host = to.host

Finished(r) == [http EXCEPT !.st = "done", !.result = r]

\* get, post and post_authority: credentials only to an HTTPS authority.
StartRequest(method, url, endpoint, credentials, for) ==
    /\ http.st = "idle"
    /\ http' = [st |-> IF credentials /\ url.scheme # "https" THEN "done" ELSE "resolve",
                method |-> method, first |-> url, url |-> url, endpoint |-> endpoint,
                credentials |-> credentials, followed |-> 0, address |-> None, for |-> for,
                result |-> [err |-> IF credentials /\ url.scheme # "https"
                                    THEN "InsecureCredentials" ELSE ""]]

\* get_once and post_once: the destination first.
Resolve ==
    /\ http.st = "resolve"
    /\ \E dns \in DnsAnswers[http.url.host] :
         \E d \in {resolve_destination(http.url.host, http.endpoint, dns)} :
         http' = IF d.err = "" THEN [http EXCEPT !.st = "connect", !.address = d.address]
                 ELSE Finished(d)

\* connected_stream and tcp_connect; the request is written.
Connect ==
    /\ http.st = "connect"
    /\ \/ http' = [http EXCEPT !.st = "read"]
       \/ \E io \in {"ConnectionRefused", "TimedOut"} :
            http' = Finished(IF http.url.scheme = "https" THEN [err |-> "Https", retryable |-> TRUE]
                             ELSE [err |-> "Io", io |-> io])
       \/ http.url.scheme = "https" /\ http' = Finished([err |-> "Https", retryable |-> FALSE])  \* TLS

\* The rest of one turn of get_for and post_for: done, failed, or redirected.
AfterResponse(r) ==
    IF r.err # "HttpStatus" \/ r.code \notin RedirectCodes(http.method) THEN Finished(r)
    ELSE IF http.followed = maximum_redirects(http.endpoint) THEN Finished([err |-> "UnsafeRedirect"])
    ELSE IF r.location = None THEN Finished(r)
    ELSE IF ~check_redirect(http.url, r.location[1].url, http.endpoint) THEN Finished([err |-> "UnsafeRedirect"])
    ELSE [http EXCEPT !.st = "resolve", !.url = r.location[1].url, !.followed = @ + 1]

Exchange(s) == IF http.url.scheme = "https" THEN https_exchange(s) ELSE read_response(s)

Read ==
    /\ http.st \in {"read", "stalled"}
    /\ \E s \in Streams[http.for] :
         \E r \in {Exchange(s)} :
         /\ http.st = "stalled" => s.end # "silence"
         /\ http' = IF r.err = "Stalled" THEN [http EXCEPT !.st = "stalled"]
                    ELSE AfterResponse(IF r.err = "" THEN [r EXCEPT !.code = 200] ELSE r)

HttpStep == Resolve \/ Connect \/ Read

(***************************************************************************)
(* Properties                                                              *)
(***************************************************************************)

\* The blocks no certificate may send the client to, independently of the
\* way the code tests them.
Within(a, prefix) == \A i \in DOMAIN prefix : a[i] = prefix[i]
LocalIpv4(a) == \/ a[1] \in {0, 10, 127} \/ Within(a, <<169, 254>>) \/ Within(a, <<192, 168>>)
                \/ a[1] = 172 /\ a[2] \in 16..31
LocalAddress(a) ==
    IF Len(a) = 4 THEN LocalIpv4(a)
    ELSE \/ a = [i \in 1..16 |-> IF i = 16 THEN 1 ELSE 0]
         \/ a[1] \in {252, 253} \/ (a[1] = 254 /\ a[2] \in 128..191)
         \/ Within(a, [i \in 1..12 |-> IF i > 10 THEN 255 ELSE 0]) /\ LocalIpv4(<<a[13], a[14], a[15], a[16]>>)
         \/ Within(a, <<32, 2>>) /\ LocalIpv4(<<a[3], a[4], a[5], a[6]>>)

\* resolve_destination: a request for an address found in a certificate never
\* connects to a local address, in whatever form the name service gives it,
\* after a redirect too.
NoLocalDestination ==
    http.st \in {"connect", "read"} /\ http.endpoint = "CertificateMaterial" => ~LocalAddress(http.address)

\* post_authority with check_redirect: a request with credentials is only ever
\* sent over HTTPS and to the host the user configured, redirects included.
CredentialsStayWithTheirHost ==
    http.st \in {"connect", "read"} /\ http.credentials =>
        http.url.scheme = "https" /\ http.url.host = http.first.host

\* read_response and Framing: a body that is handed on is no larger than the
\* caller allows, and whole when the server told its length.
BodyIsWholeAndBounded ==
    http.st = "done" /\ http.result.err = "" =>
        /\ http.result.octets <= BodyLimit
        /\ http.result.told => http.result.whole

\* What a request may reach, reveal and bring back.
RequestsContained == NoLocalDestination /\ CredentialsStayWithTheirHost /\ BodyIsWholeAndBounded
=============================================================================
