---------------------------- MODULE RappPairing ----------------------------
(***************************************************************************)
(* `refineid pair' and the pairing thread of the window, composed with the *)
(* operation they end in.  The desktop shows a code, from which offer and  *)
(* secret are derived, connects to the device that mDNS names (rendezvous) *)
(* or waits to be connected to (listener), runs the XXpsk3 handshake and   *)
(* the hello and confirm messages of pair_requester_over_stream, reads the *)
(* authentication certificate through execute_operation_with_pair          *)
(* (RappOperation), and saves the pair.                                    *)
(*                                                                         *)
(* The device at the other end may be the phone whose holder typed the     *)
(* code, one that has the offer and not its secret, or one that has        *)
(* neither.  A read returns any frame sent so far, those of an earlier     *)
(* attempt with the same code included.  The phone is not in this          *)
(* repository; it does what the conformance tests make it do.              *)
(***************************************************************************)
EXTENDS RappOperation, Noise

CONSTANTS
    MaxAttempts,        \* bound on the runs of the command with one code
    Devices,            \* what answers: subset of {"mine", "observer", "neighbour"}
    GrantLists          \* granted_profiles as the phone may send it

ASSUME PairingAssumption == MaxAttempts \in Nat

Modes == {"rendezvous", "listener"}
Attempts == 1 .. MaxAttempts

VARIABLES
    desk,       \* the command: where it waits, its handshake and ciphers
    device,     \* the device's side of each attempt
    frames,     \* every pairing frame sent
    record,     \* the PairRecord made, if any
    vault,      \* the pairs saved
    own         \* sessions that went to the desktop's own listening socket

pairing == <<desk, device, frames, record, vault, own>>
allVars == <<vars, pairing>>

OFFER_PROFILES == <<"card-status", "authentication", "document-signing">>
TRANSPORT_STREAM == <<"fi.refineid.stream.v1">>

\* The offer's one transport candidate.  Its endpoints differ between the modes;
\* one name for all lets a device answer more first messages, never fewer.
Candidate == <<"stream", TRANSPORT_STREAM>>

\* PairingOffer::generate_numeric, offer_hash and the secret that it leaves out.
offer_hash(code) == <<"offer", code, OFFER_PROFILES, Candidate>>
pairing_secret(code) == <<"secret", code>>

Closed == [pc |-> "closed", peer |-> "-", hs |-> None, recv |-> None, confirmed |-> None,
           record |-> None, opens |-> FALSE]

\* The frames of pairing: handshake messages, and envelopes under a key.
Handshaked(from, message) == [from |-> from, kind |-> "noise", text |-> message]
Envelope(from, cipher, type, body) ==
    [from |-> from, kind |-> "envelope", text |-> encrypt(cipher, None, <<type, cipher.counter, body>>)]

\* read_frame, decrypt, decode, the type expected, check_and_advance_recv: the
\* body in a singleton, or nothing.
Opened(f, cipher, type) ==
    LET p == IF f.kind = "envelope" THEN decrypt(cipher, None, f.text) ELSE None IN
    IF p = None THEN None
    ELSE IF p[1][1] # type \/ p[1][2] # cipher.counter THEN None ELSE <<p[1][3]>>

\* The PairRecord of either side.
PairRecord(hs, profiles, mode) ==
    [pair_id |-> derive_pair_id(hs.sym.h), rendezvous_token |-> derive_rendezvous_token(hs.sym.h),
     local_static |-> hs.s, remote_static |-> hs.rs, grants_hash |-> derive_grants_hash(profiles),
     profiles |-> profiles, mode |-> mode, cached_auth_cert |-> FALSE]

-----------------------------------------------------------------------------
(* The desktop.                                                            *)

\* The code is shown; in rendezvous mode mDNS names an endpoint.
BeginPairing(mode) ==
    /\ desk.pc \in {"off", "failed"}
    /\ desk.attempt < MaxAttempts
    /\ desk' = [desk EXCEPT !.pc = "connect", !.attempt = @ + 1, !.mode = mode, !.hs = None]
    /\ UNCHANGED <<vars, device, frames, record, vault, own>>

PairingFails ==
    /\ desk' = [desk EXCEPT !.pc = "failed", !.hs = None, !.send = None, !.recv = None]
    /\ UNCHANGED <<vars, device, frames, record, vault, own>>

\* Discovery or the connection fails, a read times out (rendezvous mode sets
\* the timeouts, listener mode has none) or the stream breaks.
PairingError ==
    /\ desk.pc \in {"connect", "message 2", "hello", "confirm"}
    /\ PairingFails

\* The stream is there: preamble and the first message.
PairConnect(d) ==
    /\ desk.pc = "connect"
    /\ LET a  == desk.attempt
           hs == Handshaking("XxPsk3", PAIRING_SUITE,
                             pairing_prologue(offer_hash("code"), TRANSPORT_STREAM), TRUE,
                             <<"static", "desk", a>>, None, pairing_secret("code"),
                             <<"ephemeral", "desk", a>>)
           w  == write_message(hs) IN
       /\ desk' = [desk EXCEPT !.pc = "message 2", !.hs = <<w.hs>>]
       /\ frames' = frames \cup {Handshaked("desk", w.message)}
       /\ device' = [device EXCEPT ![a].pc = "message 1", ![a].peer = d]
    /\ UNCHANGED <<vars, record, vault, own>>

\* The second message; the third and pairing.hello go out.
Message2(f) ==
    /\ desk.pc = "message 2" /\ f.from = "device"
    /\ \E r \in {IF f.kind = "noise" THEN read_message(desk.hs[1], f.text) ELSE None} :
       IF r = None THEN PairingFails
       ELSE /\ \E w \in {write_message(r[1])} : \E c \in {split(w.hs)} :
               /\ desk' = [desk EXCEPT !.pc = "hello", !.hs = <<w.hs>>, !.send = Used(c.send),
                                       !.recv = c.recv]
               /\ frames' = frames \cup {Handshaked("desk", w.message),
                                         Envelope("desk", c.send, "PairingHello", OFFER_PROFILES)}
            /\ UNCHANGED <<vars, device, record, vault, own>>

\* The phone's pairing.hello: its name and platform, or none.
ProxyHello(f) ==
    /\ desk.pc = "hello" /\ f.from = "device"
    /\ IF Opened(f, desk.recv, "PairingHello") = None THEN PairingFails
       ELSE /\ desk' = [desk EXCEPT !.pc = "confirm", !.recv = Used(@)]
            /\ UNCHANGED <<vars, device, frames, record, vault, own>>

\* granted_profiles, or, where the phone sent none, those of the offer.
granted_profiles(body) == IF body = <<"absent">> THEN OFFER_PROFILES ELSE body

\* The phone's pairing.confirm; ours goes out and the record is made.  The
\* certificate is read next.  The desktop reads no pairing frame any more: only
\* a phone that waits for this confirmation has a step left.
ProxyConfirm(f) ==
    /\ desk.pc = "confirm" /\ f.from = "device"
    /\ \E body \in {Opened(f, desk.recv, "PairingConfirm")} :
       IF body = None THEN PairingFails
       ELSE LET granted == granted_profiles(body[1]) IN
            /\ record' = <<PairRecord(desk.hs[1], granted, desk.mode)>>
            /\ frames' = {Envelope("desk", desk.send, "PairingConfirm", granted)}
            /\ device' = [a \in Attempts |-> IF device[a].confirmed = None THEN Closed ELSE device[a]]
            /\ desk' = [desk EXCEPT !.pc = "certificate", !.hs = None, !.send = None, !.recv = None]
            /\ UNCHANGED <<vars, vault, own>>

\* save_pair with the certificate, if it was read; saving may fail.
SavePairing(outcome) ==
    /\ desk.pc = "certificate" /\ pc \in {"ok", "err"}
    /\ IF outcome = "fails" THEN vault' = vault /\ desk' = [desk EXCEPT !.pc = "unsaved"]
       ELSE /\ vault' = <<[record[1] EXCEPT !.cached_auth_cert = (pc = "ok")]>>
            /\ desk' = [desk EXCEPT !.pc = "paired"]
    /\ UNCHANGED <<vars, device, frames, record, own>>

-----------------------------------------------------------------------------
(* A session over a pair.                                                  *)

\* What either side mixes into a session of the pair.
SessionPrologue(r) == session_prologue(r.pair_id, r.grants_hash, TRANSPORT_STREAM)

\* The KK handshake between the holders of two records: both messages open.
SessionOpens(d, p) ==
    LET i0 == Handshaking("Kk", SESSION_SUITE, SessionPrologue(d), TRUE, d.local_static,
                          d.remote_static, None, <<"ephemeral", "desk", 0>>)
        w1 == write_message(i0)
        r1 == read_message(Handshaking("Kk", SESSION_SUITE, SessionPrologue(p), FALSE,
                                       p.local_static, p.remote_static, None,
                                       <<"ephemeral", "phone", 0>>), w1.message) IN
    /\ r1 # None
    /\ LET w2 == write_message(r1[1])
           r2 == read_message(w1.hs, w2.message) IN
       /\ r2 # None
       /\ split(r2[1]).send = split(w2.hs).recv

-----------------------------------------------------------------------------
(* The device at the other end (external).                                 *)

Knows(d) == [offer  |-> IF d = "neighbour" THEN "another" ELSE "code",
             secret |-> IF d = "mine" THEN "code" ELSE "another"]

DeviceReads(a, from, f) == device[a].pc = from /\ f.from = "desk"

DeviceMessage1(a, f) ==
    /\ DeviceReads(a, "message 1", f) /\ f.kind = "noise"
    /\ LET d == device[a].peer
           hs == Handshaking("XxPsk3", PAIRING_SUITE,
                             pairing_prologue(offer_hash(Knows(d).offer), TRANSPORT_STREAM), FALSE,
                             <<"static", d, 0>>, None, pairing_secret(Knows(d).secret),
                             <<"ephemeral", d, a>>) IN
       \E r \in {read_message(hs, f.text)} :
          /\ r # None
          /\ \E w \in {write_message(r[1])} :
             /\ device' = [device EXCEPT ![a].pc = "message 3", ![a].hs = <<w.hs>>]
             /\ frames' = frames \cup {Handshaked("device", w.message)}
    /\ UNCHANGED <<vars, desk, record, vault, own>>

\* The third message and the desktop's hello; hello and confirm go back once
\* the holder has confirmed.
DeviceConfirms(a, f, g, granted) ==
    /\ DeviceReads(a, "message 3", f) /\ f.kind = "noise" /\ g.from = "desk"
    /\ \E r \in {read_message(device[a].hs[1], f.text)} :
       /\ r # None
       /\ \E c \in {split(r[1])} :
          /\ Opened(g, c.recv, "PairingHello") # None
          /\ device' = [device EXCEPT ![a].pc = "confirm", ![a].hs = None, ![a].recv = Used(c.recv),
                                      ![a].confirmed = <<PairRecord(r[1], granted_profiles(granted), "-")>>]
          /\ frames' = frames \cup {Envelope("device", c.send, "PairingHello", None),
                                    Envelope("device", Used(c.send), "PairingConfirm", granted)}
    /\ UNCHANGED <<vars, desk, record, vault, own>>

\* The desktop's confirm: the phone keeps the pair.
DeviceStores(a, f) ==
    /\ DeviceReads(a, "confirm", f)
    /\ Opened(f, device[a].recv, "PairingConfirm") # None
    /\ device' = [device EXCEPT ![a].pc = "closed", ![a].recv = None,
                                ![a].record = device[a].confirmed,
                                ![a].opens = SessionOpens(record[1], device[a].confirmed[1])]
    /\ UNCHANGED <<vars, desk, frames, record, vault, own>>

\* A device need not go on: it may leave at any point.
DeviceStep(a) ==
    \/ \E f \in frames : DeviceMessage1(a, f) \/ DeviceStores(a, f)
    \/ \E f, g \in frames, granted \in GrantLists : DeviceConfirms(a, f, g, granted)

-----------------------------------------------------------------------------
(* The operation over the new pair.                                        *)

\* A phone that keeps the pair answers a session, at an endpoint that is its own.
Serves(i) ==
    /\ i \notin own
    /\ \E a \in Attempts : device[a].opens

Calling == desk.pc \in {"certificate", "use"} /\ pc \notin {"ok", "err"}

\* The endpoints a listening desktop stored with the pair are its own, and its
\* socket still listens; a resolved endpoint is saved as soon as it connects.
CallConnect ==
    /\ Calling /\ Connect
    /\ own' = IF record[1].mode = "listener" /\ phase = "stored" THEN own \cup {s'} ELSE own
    /\ vault' = IF phase = "resolved" THEN record ELSE vault
    /\ UNCHANGED <<desk, device, frames, record>>

CallStep ==
    /\ Calling
    /\ \/ ConnectFail \/ ResolveMdns \/ GiveUp \/ StreamError \/ TimeOut \/ Handshake \/ Receive
       \/ MoreChatter \/ Tick
    /\ UNCHANGED pairing

PhoneStep(i) ==
    /\ desk.pc \in {"certificate", "use"}
    /\ phone[i].pc = "none" => Serves(i)
    /\ Phone(i)
    /\ UNCHANGED pairing

-----------------------------------------------------------------------------

\* A pair made earlier, as its two sides keep it.
EarlierPair(side) ==
    LET other == IF side = "desk" THEN "mine" ELSE "desk" IN
    [pair_id |-> derive_pair_id(None), rendezvous_token |-> derive_rendezvous_token(None),
     local_static |-> <<"static", side, 0>>, remote_static |-> <<"static", other, 0>>,
     grants_hash |-> derive_grants_hash(OFFER_PROFILES), profiles |-> OFFER_PROFILES,
     mode |-> "rendezvous", cached_auth_cert |-> TRUE]

\* Either an operation over a pair made earlier, or nothing is paired yet.
PairingInit ==
    /\ Init
    /\ frames = {} /\ own = {}
    /\ \E d \in {[pc |-> "off", attempt |-> 0, mode |-> "-", hs |-> None, send |-> None, recv |-> None]} :
       \/ /\ desk = [d EXCEPT !.pc = "use"]
          /\ record = <<EarlierPair("desk")>> /\ vault = record
          /\ device = [a \in Attempts |->
                         [Closed EXCEPT !.peer = "mine", !.record = <<EarlierPair("mine")>>,
                                        !.opens = SessionOpens(EarlierPair("desk"), EarlierPair("mine"))]]
       \/ /\ ~consequential
          /\ desk = d
          /\ record = None /\ vault = None
          /\ device = [a \in Attempts |-> Closed]

DeskStep ==
    \/ \E mode \in Modes : BeginPairing(mode)
    \/ \E d \in Devices : PairConnect(d)
    \/ \E f \in frames : Message2(f) \/ ProxyHello(f) \/ ProxyConfirm(f)
    \/ PairingError
    \/ \E outcome \in {"ok", "fails"} : SavePairing(outcome)

Over ==
    /\ desk.pc \in {"failed", "paired", "unsaved"} \/ (desk.pc = "use" /\ pc \in {"ok", "err"})
    /\ UNCHANGED allVars

PairingNext ==
    \/ DeskStep
    \/ \E a \in Attempts : DeviceStep(a)
    \/ CallConnect \/ CallStep
    \/ \E i \in Sessions : PhoneStep(i)
    \/ Over

(***************************************************************************)
(* Fairness: the desktop's thread runs, and the timeouts it set fire: the  *)
(* ones of an operation, and those of a pairing in rendezvous mode.  A     *)
(* listening desktop sets none and may wait for ever.  Nothing is assumed  *)
(* of the devices or of the network.                                       *)
(***************************************************************************)
PairingSpec ==
    /\ PairingInit /\ [][PairingNext]_allVars
    /\ WF_allVars(desk.mode = "rendezvous" /\ PairingError)
    /\ WF_allVars(\E outcome \in {"ok", "fails"} : SavePairing(outcome))
    /\ WF_allVars(CallConnect \/ (Calling /\ (ConnectFail \/ ResolveMdns \/ GiveUp) /\ UNCHANGED pairing))
    /\ WF_allVars(Calling /\ TimeOut /\ UNCHANGED pairing)
    /\ WF_allVars(Calling /\ Tick /\ UNCHANGED pairing)

-----------------------------------------------------------------------------
(* Properties.                                                             *)

Mirrors(d, p) ==
    /\ d.pair_id = p.pair_id /\ d.rendezvous_token = p.rendezvous_token
    /\ d.grants_hash = p.grants_hash
    /\ d.local_static = p.remote_static /\ d.remote_static = p.local_static

(***************************************************************************)
(* A pair is with the phone whose holder typed the code, and both sides    *)
(* keep the same one: the record the desktop makes mirrors what that phone *)
(* confirmed; what a phone keeps mirrors the record made;                  *)
(* a session between the two opens, in whatever order and however often    *)
(* the phone listed what it grants; and nothing else gets into the vault.  *)
(***************************************************************************)
PairsAgree ==
    /\ record # None /\ desk.pc # "use" =>
         \E a \in Attempts : /\ device[a].peer = "mine" /\ device[a].confirmed # None
                             /\ Mirrors(record[1], device[a].confirmed[1])
    /\ \A a \in Attempts : device[a].record # None =>
         /\ record # None
         /\ Mirrors(record[1], device[a].record[1])
         /\ device[a].opens
    /\ vault # None => vault[1].pair_id = record[1].pair_id

(***************************************************************************)
(* Consent and result of an operation (RappOperation).                     *)
(***************************************************************************)
ExecutedAsAgreed == CommittedAfterConsent /\ OkMeansExecuted

(***************************************************************************)
(* An operation returns, whatever phone and wire do and however often it   *)
(* moves on to the next endpoint; and so does a pairing in rendezvous      *)
(* mode.  The one thing that can keep a call from returning is the loop of *)
(* read_operation_envelope: a phone that for ever sends a ping or a status *)
(* update before the read timeout, which each of them starts anew.         *)
(***************************************************************************)
CallsEnd ==
    \/ []<><<Calling /\ MoreChatter>>_allVars
    \/ /\ Calling ~> (pc \in {"ok", "err"})
       /\ (desk.mode = "rendezvous" /\ desk.pc = "connect")
            ~> (desk.pc \in {"failed", "paired", "unsaved"})

=============================================================================
