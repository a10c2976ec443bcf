--------------------------- MODULE RappOperation ---------------------------
(***************************************************************************)
(* One call of execute_operation_with_pair (refineid-lib-core/src/rapp/    *)
(* session.rs): the desktop (requester) asks a paired phone (proxy) for a  *)
(* card operation.  The requester walks the stored endpoints and then the  *)
(* ones found by mDNS; on each it opens a session (Noise KK, session.ready *)
(* both ways), sends operation.request, and for a consequential operation  *)
(* waits for operation.prepared and sends operation.commit before the      *)
(* result.  ANY error sends it to the next endpoint.                       *)
(*                                                                         *)
(* The wire is not trusted: `wire' holds every frame ever sent, and a read *)
(* may return any of them, again and in any order, or nothing.  A frame    *)
(* carries the session whose keys seal it and its number n: the Noise      *)
(* nonce and the envelope's sequence, which both sides advance by one per  *)
(* frame.  The phone is not in this repository; its steps follow from what *)
(* the requester accepts.                                                  *)
(***************************************************************************)
EXTENDS Integers, Sequences

CONSTANTS
    Stored,             \* number of endpoints in the pair record
    MaxResolved,        \* bound on the endpoints mDNS finds
    MaxChatter,         \* bound on the pings and status messages per session that are numbered
    Timeout             \* DEFAULT_OPERATION_TIMEOUT, in ticks

ASSUME RappAssumption ==
    /\ Stored \in Nat /\ MaxResolved \in Nat /\ MaxChatter \in Nat
    /\ Timeout \in Nat \ {0}

Sessions == 1 .. (Stored + MaxResolved)
MaxFrames == MaxChatter + 4

VARIABLES
    consequential,  \* is_consequential() of the operation asked for
    pc,             \* where the requester waits
    phase, left,    \* which endpoint list, and how many remain in it
    s,              \* the current session (attempt)
    sendN, recvN,   \* the requester's sequence guards and cipher nonces
    wire,           \* every frame sent so far
    quiet,          \* time since the current read began
    consumed,       \* history: frames accepted in this session
    phone,          \* the proxy's side of each session
    consented,      \* history: sessions in which the holder confirmed
    executed        \* history: card executions per session

requester == <<consequential, pc, phase, left, s, sendN, recvN, consumed>>
clock     == quiet
history   == <<consented, executed>>
vars      == <<requester, clock, wire, phone, history>>

\* CredentialRejected also stands for CardUnavailable and InternalFailure.
ResultStatus == {"Completed", "UserDenied", "CredentialRejected", "Ambiguous"}
MessageType  == {"KK1", "KK2", "SessionReady", "LivenessPing", "LivenessPong",
                 "OperationRequest", "OperationPrepared", "OperationCommit",
                 "OperationStatus", "OperationResult", "OperationResultAck"}
Frame == [s : Sessions, from : {"requester", "proxy"}, n : 0 .. MaxFrames,
          type : MessageType, status : ResultStatus \cup {"-"}]

Plain(from, i, n, type) ==
    [s |-> i, from |-> from, n |-> n, type |-> type, status |-> "-"]
Result(i, n, status) ==
    [s |-> i, from |-> "proxy", n |-> n, type |-> "OperationResult", status |-> status]

Waiting == {"hs", "ready", "prepare", "result"}

Init ==
    /\ consequential \in BOOLEAN
    /\ pc = "idle" /\ phase = "stored" /\ left = Stored
    /\ s = 0 /\ sendN = 0 /\ recvN = 0
    /\ wire = {} /\ quiet = 0 /\ consumed = <<>>
    /\ phone = [i \in Sessions |-> [pc |-> "none", sendN |-> 0, recvN |-> 0, chatter |-> 0]]
    /\ consented = {}
    /\ executed = [i \in Sessions |-> 0]

-----------------------------------------------------------------------------
(* The endpoint loop of execute_operation_with_pair.                       *)

\* TcpStream::connect_timeout succeeds; preamble and the first KK message go out.
Connect ==
    /\ pc = "idle" /\ left > 0
    /\ left' = left - 1
    /\ s' = s + 1
    /\ wire' = wire \cup {Plain("requester", s + 1, 0, "KK1")}
    /\ pc' = "hs"
    /\ sendN' = 0 /\ recvN' = 0 /\ consumed' = <<>>
    /\ quiet' = 0
    /\ UNCHANGED <<consequential, phase, phone, history>>

\* The endpoint does not parse or the connection is refused: try the next.
ConnectFail ==
    /\ pc = "idle" /\ left > 0
    /\ left' = left - 1
    /\ UNCHANGED <<consequential, pc, phase, s, sendN, recvN, consumed, clock, wire, phone, history>>

\* The stored endpoints are used up: resolve_mdns_stream_endpoints_with_hints.
ResolveMdns ==
    /\ pc = "idle" /\ phase = "stored" /\ left = 0
    /\ phase' = "resolved"
    /\ left' \in 0 .. MaxResolved
    /\ UNCHANGED <<consequential, pc, s, sendN, recvN, consumed, clock, wire, phone, history>>

\* Nothing left to try: Err(last_err), or MissingField when there was nothing.
GiveUp ==
    /\ pc = "idle" /\ phase = "resolved" /\ left = 0
    /\ pc' = "err"
    /\ UNCHANGED <<consequential, phase, left, s, sendN, recvN, consumed, clock, wire, phone, history>>

\* execute_operation_over_stream returned Err: the loop goes on with the next.
Abandon ==
    /\ pc' = "idle"
    /\ UNCHANGED <<consequential, phase, left, s, sendN, recvN, consumed, clock, wire, phone, history>>

\* A read or write (the ack included) fails, or a frame or the result's body
\* does not decrypt or decode.
StreamError == pc \in Waiting /\ Abandon

\* Mutant: set_read_timeout is forgotten on a connection to a resolved endpoint.
TimeOutStoredOnly == pc \in Waiting /\ phase = "stored" /\ quiet = Timeout /\ Abandon

\* The socket's read timeout, which every read_frame starts anew.
TimeOut == pc \in Waiting /\ quiet = Timeout /\ Abandon

-----------------------------------------------------------------------------
(* execute_operation_over_stream: one action per frame the requester reads, *)
(* with everything it writes before its next read.                          *)

\* The KK response authenticates under the pair's static keys and our ephemeral.
Handshake ==
    /\ pc = "hs"
    /\ Plain("proxy", s, 0, "KK2") \in wire
    /\ wire' = wire \cup {Plain("requester", s, 0, "SessionReady")}
    /\ sendN' = 1
    /\ pc' = "ready"
    /\ quiet' = 0
    /\ UNCHANGED <<consequential, phase, left, s, recvN, consumed, phone, history>>

\* Mutant: frames of this session are taken in any order, and more than once.
AcceptsAnyOrder(f) == f.from = "proxy" /\ f.type # "KK2" /\ f.s = s

\* decrypt with the next nonce under this session's key, then check_and_advance_recv.
Accepts(f) == f.from = "proxy" /\ f.type # "KK2" /\ f.s = s /\ f.n = recvN

Take(f) ==
    /\ recvN' = recvN + 1
    /\ consumed' = Append(consumed, f)
    /\ quiet' = 0

\* Mutant: the commit goes out with the request, before the phone is prepared.
ReadyAndCommit(f) ==
    /\ pc = "ready" /\ Accepts(f) /\ f.type = "SessionReady"
    /\ Take(f)
    /\ wire' = wire \cup {Plain("requester", s, sendN, "OperationRequest"),
                          Plain("requester", s, sendN + 1, "OperationCommit")}
    /\ sendN' = sendN + 2
    /\ pc' = "result"
    /\ UNCHANGED <<consequential, phase, left, s, phone, history>>

\* The proxy's session.ready; the operation request follows.
Ready(f) ==
    /\ pc = "ready" /\ Accepts(f) /\ f.type = "SessionReady"
    /\ Take(f)
    /\ wire' = wire \cup {Plain("requester", s, sendN, "OperationRequest")}
    /\ sendN' = sendN + 1
    /\ pc' = IF consequential THEN "prepare" ELSE "result"
    /\ UNCHANGED <<consequential, phase, left, s, phone, history>>

\* read_operation_envelope answers a ping itself and reads on ...
Ping(f) ==
    /\ pc \in {"prepare", "result"} /\ Accepts(f) /\ f.type = "LivenessPing"
    /\ Take(f)
    /\ wire' = wire \cup {Plain("requester", s, sendN, "LivenessPong")}
    /\ sendN' = sendN + 1
    /\ UNCHANGED <<consequential, pc, phase, left, s, phone, history>>

\* ... and skips a status message.
Status(f) ==
    /\ pc \in {"prepare", "result"} /\ Accepts(f) /\ f.type = "OperationStatus"
    /\ Take(f)
    /\ UNCHANGED <<consequential, pc, phase, left, s, sendN, wire, phone, history>>

\* read_operation_envelope sets no bound on them: past the MaxChatter that the
\* model numbers, the phone sends as many more as it likes, and each one is read
\* and starts the timeout anew.  The numbers of both sides advance alike.
MoreChatter ==
    /\ pc \in {"prepare", "result"}
    /\ phone[s].pc \in {"ready", "prompt", "prepared"}
    /\ phone[s].chatter = MaxChatter /\ recvN = phone[s].sendN
    /\ quiet' = 0
    /\ UNCHANGED <<requester, wire, phone, history>>

\* operation.prepared: the commit is sent.  Anything else is an error.
Prepared(f) ==
    /\ pc = "prepare" /\ Accepts(f) /\ f.type = "OperationPrepared"
    /\ Take(f)
    /\ wire' = wire \cup {Plain("requester", s, sendN, "OperationCommit")}
    /\ sendN' = sendN + 1
    /\ pc' = "result"
    /\ UNCHANGED <<consequential, phase, left, s, phone, history>>

\* operation.result with status completed: acknowledge and return Ok.
ResultCompleted(f) ==
    /\ pc = "result" /\ Accepts(f) /\ f.type = "OperationResult"
    /\ f.status = "Completed"
    /\ Take(f)
    /\ wire' = wire \cup {Plain("requester", s, sendN, "OperationResultAck")}
    /\ sendN' = sendN + 1
    /\ pc' = "ok"
    /\ UNCHANGED <<consequential, phase, left, s, phone, history>>

\* Any other status, or a message of another type: Err, and the next endpoint.
Refused(f) ==
    /\ Accepts(f)
    /\ \/ pc = "ready" /\ f.type # "SessionReady"
       \/ /\ pc \in {"prepare", "result"}
          /\ f.type \notin {"LivenessPing", "OperationStatus"}
          /\ pc = "prepare" => f.type # "OperationPrepared"
          /\ pc = "result" => f.status # "Completed"
    /\ Abandon

Receive ==
    \E f \in wire :
        Ready(f) \/ Ping(f) \/ Status(f) \/ Prepared(f) \/ ResultCompleted(f) \/ Refused(f)

-----------------------------------------------------------------------------
(* The phone (external): it consumes the requester's frames in order.      *)

PhoneMoves(i, from, to, out) ==
    /\ phone[i].pc = from
    /\ phone' = [phone EXCEPT ![i].pc = to, ![i].sendN = @ + Len(out)]
    /\ wire' = wire \cup {out[k] : k \in 1 .. Len(out)}
    /\ UNCHANGED <<requester, clock>>

\* Like PhoneMoves, on the requester's next frame.
PhoneTakes(i, type, from, to, out) ==
    /\ phone[i].pc = from
    /\ Plain("requester", i, phone[i].recvN, type) \in wire
    /\ phone' = [phone EXCEPT ![i].pc = to, ![i].recvN = @ + 1, ![i].sendN = @ + Len(out)]
    /\ wire' = wire \cup {out[k] : k \in 1 .. Len(out)}
    /\ UNCHANGED <<requester, clock>>

PhoneAccept(i) ==
    /\ phone[i].pc = "none"
    /\ Plain("requester", i, 0, "KK1") \in wire
    /\ phone' = [phone EXCEPT ![i].pc = "hs"]
    /\ wire' = wire \cup {Plain("proxy", i, 0, "KK2")}
    /\ UNCHANGED <<requester, clock, history>>

PhoneReady(i) ==
    /\ PhoneTakes(i, "SessionReady", "hs", "ready",
                  <<Plain("proxy", i, phone[i].sendN, "SessionReady")>>)
    /\ UNCHANGED history

\* A request that needs no consent is executed at once.
PhoneRead(i) ==
    /\ ~consequential
    /\ PhoneTakes(i, "OperationRequest", "ready", "done",
                  <<Result(i, phone[i].sendN, "Completed")>>)
    /\ executed' = [executed EXCEPT ![i] = @ + 1]
    /\ UNCHANGED consented

PhonePrompt(i) ==
    /\ consequential
    /\ PhoneTakes(i, "OperationRequest", "ready", "prompt", <<>>)
    /\ UNCHANGED history

PhoneConsent(i) ==
    /\ PhoneMoves(i, "prompt", "prepared",
                  <<Plain("proxy", i, phone[i].sendN, "OperationPrepared")>>)
    /\ consented' = consented \cup {i}
    /\ UNCHANGED executed

PhoneDeny(i) ==
    /\ PhoneMoves(i, "prompt", "done", <<Result(i, phone[i].sendN, "UserDenied")>>)
    /\ UNCHANGED history

\* On commit the card executes, refuses, or the phone loses it mid-way.
PhoneCommit(i) ==
    \E status \in ResultStatus \ {"UserDenied"} :
      /\ PhoneTakes(i, "OperationCommit", "prepared", "done",
                    <<Result(i, phone[i].sendN, status)>>)
      /\ executed' \in IF status = "Completed" THEN {[executed EXCEPT ![i] = @ + 1]}
                       ELSE IF status = "Ambiguous"
                            THEN {executed, [executed EXCEPT ![i] = @ + 1]}
                            ELSE {executed}
      /\ UNCHANGED consented

\* A ping or a status update between request and result (see also MoreChatter).
PhoneChatter(i) ==
    /\ phone[i].pc \in {"ready", "prompt", "prepared"}
    /\ phone[i].chatter < MaxChatter
    /\ \E type \in {"LivenessPing", "OperationStatus"} :
         wire' = wire \cup {Plain("proxy", i, phone[i].sendN, type)}
    /\ phone' = [phone EXCEPT ![i].sendN = @ + 1, ![i].chatter = @ + 1]
    /\ UNCHANGED <<requester, clock, history>>

PhonePong(i) ==
    /\ Plain("requester", i, phone[i].recvN, "LivenessPong") \in wire
    /\ phone[i].pc \in {"ready", "prompt", "prepared"}
    /\ phone' = [phone EXCEPT ![i].recvN = @ + 1]
    /\ UNCHANGED <<requester, clock, wire, history>>

Phone(i) ==
    \/ PhoneAccept(i) \/ PhoneReady(i) \/ PhoneRead(i) \/ PhonePrompt(i)
    \/ PhoneConsent(i) \/ PhoneDeny(i) \/ PhoneCommit(i)
    \/ PhoneChatter(i) \/ PhonePong(i)

-----------------------------------------------------------------------------

\* Time passes while the requester waits.
Tick ==
    /\ pc \in Waiting /\ quiet < Timeout
    /\ quiet' = quiet + 1
    /\ UNCHANGED <<requester, wire, phone, history>>

Requester ==
    \/ Connect \/ ConnectFail \/ ResolveMdns \/ GiveUp
    \/ StreamError \/ TimeOut \/ Handshake \/ Receive \/ MoreChatter

Returned == pc \in {"ok", "err"} /\ UNCHANGED vars

Next == Requester \/ Tick \/ Returned \/ \E i \in Sessions : Phone(i)

Spec == Init /\ [][Next]_vars

-----------------------------------------------------------------------------
(* Properties.                                                             *)

(***************************************************************************)
(* Type invariant.                                                         *)
(***************************************************************************)
TypeOK ==
    /\ consequential \in BOOLEAN
    /\ pc \in Waiting \cup {"idle", "ok", "err"}
    /\ phase \in {"stored", "resolved"}
    /\ left \in Nat
    /\ s \in 0 .. (Stored + MaxResolved)
    /\ sendN \in 0 .. MaxFrames /\ recvN \in 0 .. MaxFrames
    /\ wire \subseteq Frame
    /\ quiet \in 0 .. Timeout
    /\ \A k \in DOMAIN consumed : consumed[k] \in wire
    /\ consented \subseteq Sessions
    /\ executed \in [Sessions -> 0 .. 1]

(***************************************************************************)
(* Replayed, reordered or foreign frames are never acted on: what the      *)
(* requester consumed is the phone's first frames of this very session, in *)
(* the order sent and each once (SequenceGuard and the Noise nonce).       *)
(***************************************************************************)
ConsumedInOrder ==
    \A k \in DOMAIN consumed : consumed[k].s = s /\ consumed[k].n = k - 1

(***************************************************************************)
(* Holder consent: a consequential operation reaches the card in a session *)
(* only after the holder confirmed in that session and the requester,      *)
(* having seen operation.prepared, committed.                              *)
(***************************************************************************)
CommittedAfterConsent ==
    /\ \A i \in Sessions : consequential /\ executed[i] > 0 => i \in consented
    /\ \A f \in wire : f.type = "OperationCommit" => f.s \in consented

(***************************************************************************)
(* Ok is real: when the call returns Ok the card executed the operation in *)
(* the session the result came from.                                       *)
(***************************************************************************)
OkMeansExecuted == pc = "ok" => executed[s] = 1

(***************************************************************************)
(* The requester never numbers two frames alike: a pong, a commit and an   *)
(* ack that interleave each take a sequence number of their own, so an     *)
(* honest phone never sees a gap or a repeat.                              *)
(***************************************************************************)
FramesNumberedOnce ==
    /\ \A f, g \in wire :
         f.from = g.from /\ f.s = g.s /\ f.n = g.n /\ f # g
           => f.type \in {"KK1", "KK2"} \/ g.type \in {"KK1", "KK2"}
    /\ \A f \in wire : f.from = "requester" /\ f.s = s => f.n < sendN \/ f.n = 0

(***************************************************************************)
(* The order of frames, in both directions.                                *)
(***************************************************************************)
FramesInOrder == TypeOK /\ ConsumedInOrder /\ FramesNumberedOnce

=============================================================================
