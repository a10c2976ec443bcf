------------------------- MODULE RappPairingProofs -------------------------
(***************************************************************************)
(* Theorems about the operation of RappOperation, alone and as RappPairing *)
(* composes it with the pairing that comes before: for any number of       *)
(* endpoints, any amount of pings and status messages, any time-out.       *)
(*                                                                         *)
(* The wire replays and reorders at will, so the argument is about what    *)
(* was ever written to it: a frame's number is below the counter of the    *)
(* side that wrote it (WireInv), the requester is never ahead of the phone *)
(* (CursorInv), and a frame that claims consent or execution was written   *)
(* when it was so (AgreedInv).  The pairing leaves the operation alone or  *)
(* takes one of its steps, so all of it holds of the composition.          *)
(*                                                                         *)
(* The pairing itself: the terms that the handshakes of Noise reach are    *)
(* written out, message by message; a message is shown to be read only by  *)
(* the side and in the state it was written for, and to leave both sides   *)
(* with the same transcript.  PairInv names the states that are left.      *)
(***************************************************************************)
EXTENDS RappPairing, TLAPS

\* The requester's numbers fit the session: nothing is answered that the phone
\* has not sent, and no frame read is answered by more than one.
CursorInv ==
    /\ consumed \in Seq(Frame) /\ Len(consumed) = recvN
    /\ \A k \in 1 .. recvN : consumed[k] \in wire /\ consumed[k].s = s /\ consumed[k].n = k - 1
    /\ sendN \in Nat /\ recvN \in Nat
    /\ sendN <= recvN + 1
    /\ pc = "hs" => sendN = 0
    /\ s = 0 => recvN = 0
    /\ s # 0 => recvN <= phone[s].sendN

\* The endpoint loop opens one session per endpoint.
LoopInv ==
    /\ s \in Nat /\ left \in Nat
    /\ s + left <= Stored + MaxResolved
    /\ phase = "stored" => s + left <= Stored
    /\ pc \in Waiting \cup {"ok"} => s # 0

PhoneSteps == {"none", "hs", "ready", "prompt", "prepared", "done"}

\* Frames other than pings and status messages a phone has sent by a step, at most.
Answers(step) ==
    CASE step \in {"none", "hs"} -> 0
      [] step \in {"ready", "prompt"} -> 1
      [] step = "prepared" -> 2
      [] OTHER -> 3

PhoneInv ==
    /\ phone \in [Sessions -> [pc : PhoneSteps, sendN : Nat, recvN : Nat, chatter : 0 .. MaxChatter]]
    /\ \A i \in Sessions : phone[i].sendN <= phone[i].chatter + Answers(phone[i].pc)

\* Every frame was written at the number its side had reached, once.
WireInv ==
    /\ wire \subseteq Frame
    /\ \A f \in wire : f.type \in {"KK1", "KK2"} => f.n = 0
    /\ \A f \in wire : f.from = "requester" =>
         f.s <= s /\ (f.s = s /\ f.type # "KK1" => f.n < sendN)
    /\ \A f \in wire : f.from = "proxy" /\ f.type # "KK2" => f.n < phone[f.s].sendN
    /\ \A f, g \in wire :
         /\ f.type \notin {"KK1", "KK2"} /\ g.type \notin {"KK1", "KK2"}
         /\ f.from = g.from /\ f.s = g.s /\ f.n = g.n
         => f = g

\* A phone that waits for a commit, or has answered one, had the holder's
\* consent; the frames that say so were written after it.
AgreedInv ==
    /\ consequential \in BOOLEAN
    /\ consented \subseteq Sessions /\ executed \in [Sessions -> 0 .. 1]
    /\ \A i \in Sessions : executed[i] = 1 => phone[i].pc = "done"
    /\ \A i \in Sessions : consequential /\ executed[i] = 1 => i \in consented
    /\ \A i \in Sessions : phone[i].pc = "prepared" => i \in consented
    /\ \A f \in wire : f.type \in {"OperationPrepared", "OperationCommit"} => f.s \in consented
    /\ \A f \in wire : f.type = "OperationResult" /\ f.status = "Completed" => executed[f.s] = 1
    /\ pc = "ok" => executed[s] = 1

ControlType ==
    /\ pc \in Waiting \cup {"idle", "ok", "err"}
    /\ phase \in {"stored", "resolved"}
    /\ quiet \in 0 .. Timeout

OperationInv == ControlType /\ LoopInv /\ CursorInv /\ PhoneInv /\ WireInv /\ AgreedInv

-----------------------------------------------------------------------------
(* Frames and sessions.                                                    *)

\* A frame that carries no result is of the type of the wire's frames.
LEMMA PlainFrame ==
    ASSUME NEW from \in {"requester", "proxy"}, NEW i \in Sessions,
           NEW n \in 0 .. MaxFrames, NEW type \in MessageType
    PROVE  /\ Plain(from, i, n, type) \in Frame
           /\ Plain(from, i, n, type).from = from /\ Plain(from, i, n, type).s = i
           /\ Plain(from, i, n, type).n = n /\ Plain(from, i, n, type).type = type
BY DEF Plain, Frame

\* A frame with the result of an operation is of that type too.
LEMMA ResultFrame ==
    ASSUME NEW i \in Sessions, NEW n \in 0 .. MaxFrames, NEW status \in ResultStatus
    PROVE  /\ Result(i, n, status) \in Frame
           /\ Result(i, n, status).from = "proxy" /\ Result(i, n, status).s = i
           /\ Result(i, n, status).n = n /\ Result(i, n, status).type = "OperationResult"
           /\ Result(i, n, status).status = status
BY DEF Result, Frame, MessageType

\* A phone has numbers left for what it still sends, and the requester for its
\* answer to each: Frame bounds neither.
LEMMA NumbersFit ==
    ASSUME OperationInv
    PROVE  /\ \A i \in Sessions : phone[i].sendN \in 0 .. (MaxChatter + 3)
           /\ s # 0 => s \in Sessions
           /\ recvN \in 0 .. (MaxChatter + 3) /\ sendN \in 0 .. MaxFrames
           /\ MaxFrames \in Nat
<1> USE RappAssumption
<1>1. \A i \in Sessions : phone[i].sendN \in 0 .. (MaxChatter + 3)
  <2> SUFFICES ASSUME NEW i \in Sessions PROVE phone[i].sendN \in 0 .. (MaxChatter + 3)
    OBVIOUS
  <2>1. Answers(phone[i].pc) \in 0 .. 3
    BY DEF Answers
  <2>2. phone[i].sendN \in Nat /\ phone[i].chatter \in 0 .. MaxChatter
        /\ phone[i].sendN <= phone[i].chatter + Answers(phone[i].pc)
    BY DEF OperationInv, PhoneInv
  <2> QED
    BY <2>1, <2>2
<1>2. s # 0 => s \in Sessions
  BY DEF OperationInv, LoopInv, Sessions
<1>3. recvN \in 0 .. (MaxChatter + 3)
  BY <1>1, <1>2 DEF OperationInv, CursorInv
<1>4. sendN \in 0 .. MaxFrames /\ MaxFrames \in Nat
  BY <1>3 DEF OperationInv, CursorInv, MaxFrames
<1> QED
  BY <1>1, <1>2, <1>3, <1>4

-----------------------------------------------------------------------------
(* The requester.                                                          *)

\* What the requester's steps leave alone.
PhoneIdle == UNCHANGED <<consequential, phone, history>>

\* The requester writes one frame g, numbered with its counter.
LEMMA RequesterWrites ==
    ASSUME OperationInv, NEW g \in Frame, g.from = "requester", g.s = s, g.n = sendN,
           g.type \notin {"KK1", "KK2", "OperationPrepared", "OperationResult"},
           g.type = "OperationCommit" => s \in consented,
           s' = s, sendN' = sendN + 1, wire' = wire \cup {g}, PhoneIdle
    PROVE  /\ WireInv'
           /\ \A f \in wire' : f.type \in {"OperationPrepared", "OperationCommit"} => f.s \in consented'
           /\ \A f \in wire' :
                f.type = "OperationResult" /\ f.status = "Completed" => executed'[f.s] = 1
<1> USE DEF OperationInv
<1>1. sendN \in Nat
  BY DEF CursorInv
<1>2. UNCHANGED <<phone, consented, executed>>
  BY DEF PhoneIdle, history
<1>3. wire' \subseteq Frame /\ \A f \in wire' : f.type \in {"KK1", "KK2"} => f.n = 0
  BY DEF WireInv
<1>4. \A f \in wire' : f.from = "requester" =>
         f.s <= s' /\ (f.s = s' /\ f.type # "KK1" => f.n < sendN')
  <2>1. s <= s /\ sendN < sendN + 1
    BY <1>1 DEF LoopInv
  <2>2. \A f \in wire : f.n \in Nat
    BY DEF WireInv, Frame, MaxFrames
  <2> QED
    BY <1>1, <2>1, <2>2 DEF WireInv
<1>5. \A f \in wire' : f.from = "proxy" /\ f.type # "KK2" => f.n < phone'[f.s].sendN
  BY <1>2 DEF WireInv
<1>6. ASSUME NEW f \in wire', NEW h \in wire',
             f.type \notin {"KK1", "KK2"}, h.type \notin {"KK1", "KK2"},
             f.from = h.from, f.s = h.s, f.n = h.n
      PROVE  f = h
  <2>1. \A x \in wire : ~(x.from = "requester" /\ x.s = s /\ x.type # "KK1" /\ x.n = sendN)
    BY <1>1 DEF WireInv
  <2>2. CASE f \in wire /\ h \in wire
    BY <1>6, <2>2 DEF WireInv
  <2>3. CASE f \notin wire \/ h \notin wire
    BY <1>6, <2>1, <2>3
  <2> QED
    BY <2>2, <2>3
<1>7. WireInv'
  BY <1>3, <1>4, <1>5, <1>6 DEF WireInv
<1> QED
  BY <1>2, <1>7 DEF AgreedInv

\* The requester takes frame f: the next one of the phone in this session.
LEMMA RequesterTakes ==
    ASSUME OperationInv, NEW f \in wire, Accepts(f), Take(f), pc \in Waiting, pc # "hs",
           s' = s, wire \subseteq wire', PhoneIdle, pc' # "hs",
           sendN' \in {sendN, sendN + 1}
    PROVE  CursorInv' /\ quiet' \in 0 .. Timeout
<1> USE DEF OperationInv
<1>1. f \in Frame /\ f.s = s /\ f.n = recvN /\ recvN \in Nat /\ sendN \in Nat
  BY DEF Accepts, WireInv, CursorInv
<1>2. recvN < phone[s].sendN /\ s # 0
  BY <1>1 DEF Accepts, WireInv, LoopInv
<1>3. s \in Sessions /\ phone[s].sendN \in Nat /\ phone' = phone
  BY <1>2, NumbersFit, RappAssumption DEF PhoneIdle
<1>4. recvN' = recvN + 1 /\ consumed' = Append(consumed, f) /\ quiet' = 0
  BY DEF Take
<1>5. /\ consumed' \in Seq(Frame) /\ Len(consumed') = recvN'
      /\ \A k \in 1 .. recvN' :
           consumed'[k] \in wire' /\ consumed'[k].s = s' /\ consumed'[k].n = k - 1
  <2>1. consumed \in Seq(Frame) /\ Len(consumed) = recvN
    BY DEF CursorInv
  <2>2. /\ consumed' \in Seq(Frame) /\ Len(consumed') = recvN'
        /\ consumed'[recvN + 1] = f
        /\ \A k \in 1 .. recvN : consumed'[k] = consumed[k]
    BY <1>1, <1>4, <2>1
  <2>3. \A k \in 1 .. recvN' : k \in 1 .. recvN \/ k = recvN + 1
    BY <1>1, <1>4
  <2>4. \A k \in 1 .. recvN : consumed[k] \in wire /\ consumed[k].s = s /\ consumed[k].n = k - 1
    BY DEF CursorInv
  <2>5. (recvN + 1) - 1 = recvN
    BY <1>1
  <2> QED
    BY <1>1, <2>2, <2>3, <2>4, <2>5
<1>6. sendN' \in Nat /\ recvN' \in Nat /\ sendN' <= recvN' + 1
  BY <1>1, <1>4 DEF CursorInv
<1>7. s' # 0 => recvN' <= phone'[s'].sendN
  BY <1>1, <1>2, <1>3, <1>4
<1> QED
  BY <1>2, <1>4, <1>5, <1>6, <1>7, RappAssumption DEF CursorInv

\* The requester reads a frame and answers it with one of its own.
LEMMA AnswerKeeps ==
    ASSUME OperationInv, NEW f \in wire, Accepts(f), Take(f), pc \in Waiting, pc # "hs",
           NEW type \in {"OperationRequest", "LivenessPong", "OperationCommit", "OperationResultAck"},
           wire' = wire \cup {Plain("requester", s, sendN, type)}, sendN' = sendN + 1,
           type = "OperationCommit" => s \in consented,
           pc' \in {"prepare", "result", "ok"}, pc' = "ok" => executed[s] = 1,
           UNCHANGED <<phase, left, s>>, PhoneIdle
    PROVE  OperationInv'
<1>1. s \in Sessions /\ sendN \in 0 .. MaxFrames /\ type \in MessageType
  BY NumbersFit DEF OperationInv, LoopInv, MessageType
<1>2. PICK g : g = Plain("requester", s, sendN, type)
  OBVIOUS
<1>3. /\ g \in Frame /\ g.from = "requester" /\ g.s = s /\ g.n = sendN /\ g.type = type
      /\ wire' = wire \cup {g}
  <2>1. \A i \in Sessions, n \in 0 .. MaxFrames :
          LET h == Plain("requester", i, n, type) IN
          h \in Frame /\ h.from = "requester" /\ h.s = i /\ h.n = n /\ h.type = type
    BY <1>1, PlainFrame
  <2> QED
    BY <1>1, <1>2, <2>1
<1>4. /\ WireInv'
      /\ \A x \in wire' : x.type \in {"OperationPrepared", "OperationCommit"} => x.s \in consented'
      /\ \A x \in wire' :
           x.type = "OperationResult" /\ x.status = "Completed" => executed'[x.s] = 1
  BY <1>3, RequesterWrites
<1>5. CursorInv' /\ quiet' \in 0 .. Timeout
  BY <1>3, RequesterTakes
<1>6. PhoneInv' /\ UNCHANGED <<consequential, phone, consented, executed>>
  BY DEF PhoneIdle, OperationInv, PhoneInv, history
<1>7. AgreedInv'
  BY <1>4, <1>6 DEF AgreedInv, OperationInv
<1>8. ControlType' /\ LoopInv'
  BY <1>1, <1>5 DEF ControlType, LoopInv, OperationInv, Waiting
<1> QED
  BY <1>4, <1>5, <1>6, <1>7, <1>8 DEF OperationInv

\* A status frame is taken and the requester waits on: the invariant stays.
LEMMA StatusKeeps ==
    ASSUME OperationInv, NEW f \in wire, Status(f)
    PROVE  OperationInv'
<1>1. /\ Accepts(f) /\ Take(f) /\ pc \in Waiting /\ pc # "hs" /\ pc' = pc
      /\ UNCHANGED <<phase, left, s, sendN, wire, phone, consequential, consented, executed>>
  BY DEF Status, Waiting, history
<1>2. PhoneIdle
  BY <1>1 DEF PhoneIdle, history
<1>3. CursorInv' /\ quiet' \in 0 .. Timeout
  BY <1>1, <1>2, RequesterTakes
<1> QED
  BY <1>1, <1>3 DEF OperationInv, ControlType, LoopInv, PhoneInv, WireInv, AgreedInv

\* A step that only moves the requester, or lets time pass.
LEMMA QuietKeeps ==
    ASSUME OperationInv, ControlType', LoopInv',
           UNCHANGED <<consequential, s, sendN, recvN, consumed, wire, phone, history>>,
           pc' \in {pc, "idle", "err"}
    PROVE  OperationInv'
<1>1. UNCHANGED <<s, sendN, recvN, consumed, wire, phone, consequential, consented, executed>>
  BY DEF history
<1>2. CursorInv' /\ PhoneInv'
  BY <1>1 DEF OperationInv, CursorInv, PhoneInv
<1>3. WireInv' /\ AgreedInv'
  BY <1>1 DEF OperationInv, WireInv, AgreedInv
<1> QED
  BY <1>2, <1>3 DEF OperationInv

\* Giving an operation up, on a timeout or a closed channel, keeps the
\* invariant.
LEMMA AbandonKeeps ==
    ASSUME OperationInv, Abandon PROVE OperationInv'
<1>1. ControlType' /\ LoopInv'
  BY DEF Abandon, OperationInv, ControlType, LoopInv, Waiting, clock
<1> QED
  BY <1>1, QuietKeeps DEF Abandon

\* A failed connection, its retry over mDNS, giving up, chatter and the clock keep the
\* invariant.
LEMMA LoopKeeps ==
    ASSUME OperationInv, ConnectFail \/ ResolveMdns \/ GiveUp \/ MoreChatter \/ Tick
    PROVE  OperationInv'
<1> USE RappAssumption
<1>1. /\ pc' \in {pc, "idle", "err"}
      /\ UNCHANGED <<consequential, s, sendN, recvN, consumed, wire, phone, history>>
  BY DEF ConnectFail, ResolveMdns, GiveUp, MoreChatter, Tick, requester
<1>2. ControlType'
  BY DEF OperationInv, ControlType, ConnectFail, ResolveMdns, GiveUp, MoreChatter, Tick,
     requester, clock
<1>3. LoopInv'
  BY DEF OperationInv, LoopInv, ConnectFail, ResolveMdns, GiveUp, MoreChatter, Tick,
     requester, Waiting
<1> QED
  BY <1>1, <1>2, <1>3, QuietKeeps

\* A new session starts with fresh numbers; no frame of it has been written.
LEMMA ConnectKeeps ==
    ASSUME OperationInv, Connect PROVE OperationInv'
<1> USE RappAssumption
<1>1. /\ s \in Nat /\ s + 1 \in Sessions /\ s' = s + 1 /\ left' \in Nat
      /\ s' + left' = s + left
  BY DEF Connect, OperationInv, LoopInv, Sessions
<1>2. PICK g : g = Plain("requester", s + 1, 0, "KK1")
  OBVIOUS
<1>3. /\ g \in Frame /\ g.from = "requester" /\ g.s = s + 1 /\ g.n = 0 /\ g.type = "KK1"
      /\ wire' = wire \cup {g}
  <2>1. \A i \in Sessions :
          LET h == Plain("requester", i, 0, "KK1") IN
          h \in Frame /\ h.from = "requester" /\ h.s = i /\ h.n = 0 /\ h.type = "KK1"
    BY NumbersFit, PlainFrame DEF MessageType
  <2> QED
    BY <1>1, <1>2, <2>1 DEF Connect
<1>4. UNCHANGED <<phase, consequential, phone, consented, executed>> /\ pc' = "hs"
      /\ sendN' = 0 /\ recvN' = 0 /\ consumed' = <<>> /\ quiet' = 0
  BY DEF Connect, history
<1>5. WireInv'
  <2>1. \A f \in wire : f.from = "requester" => f.s <= s /\ f.s \in Nat
    BY DEF OperationInv, WireInv, Frame, Sessions
  <2> QED
    BY <1>1, <1>3, <1>4, <2>1 DEF OperationInv, WireInv
<1>6. AgreedInv'
  BY <1>3, <1>4 DEF OperationInv, AgreedInv
<1>7. CursorInv'
  <2>1. phone[s + 1].sendN \in Nat
    BY <1>1 DEF OperationInv, PhoneInv
  <2> QED
    BY <1>1, <1>4, <2>1 DEF CursorInv
<1>8. ControlType' /\ PhoneInv'
  BY <1>4 DEF OperationInv, ControlType, PhoneInv, Waiting
<1>9. LoopInv'
  <2>1. s + left <= Stored + MaxResolved /\ (phase = "stored" => s + left <= Stored)
    BY DEF OperationInv, LoopInv
  <2>2. s' \in Nat /\ s' # 0
    BY <1>1
  <2>3. s' + left' <= Stored + MaxResolved /\ (phase' = "stored" => s' + left' <= Stored)
    BY <1>1, <1>4, <2>1
  <2> QED
    BY <1>1, <2>2, <2>3 DEF LoopInv
<1> QED
  BY <1>5, <1>6, <1>7, <1>8, <1>9 DEF OperationInv

\* The KK response: session.ready is the first frame of the session with a number.
LEMMA HandshakeKeeps ==
    ASSUME OperationInv, Handshake PROVE OperationInv'
<1> USE RappAssumption
<1>1. s \in Sessions /\ sendN = 0
  BY NumbersFit DEF Handshake, OperationInv, LoopInv, Waiting, CursorInv
<1>2. PICK g : g = Plain("requester", s, sendN, "SessionReady")
  OBVIOUS
<1>3. /\ g \in Frame /\ g.from = "requester" /\ g.s = s /\ g.n = sendN
      /\ g.type = "SessionReady" /\ wire' = wire \cup {g}
  <2>1. \A i \in Sessions :
          LET h == Plain("requester", i, 0, "SessionReady") IN
          h \in Frame /\ h.from = "requester" /\ h.s = i /\ h.n = 0 /\ h.type = "SessionReady"
    BY NumbersFit, PlainFrame DEF MessageType
  <2> QED
    BY <1>1, <1>2, <2>1 DEF Handshake
<1>4. /\ UNCHANGED <<phase, left, s, recvN, consumed, consequential, phone, consented, executed>>
      /\ pc' = "ready" /\ sendN' = sendN + 1 /\ quiet' = 0 /\ PhoneIdle
  BY <1>1 DEF Handshake, history, PhoneIdle
<1>5. /\ WireInv'
      /\ \A x \in wire' : x.type \in {"OperationPrepared", "OperationCommit"} => x.s \in consented'
      /\ \A x \in wire' :
           x.type = "OperationResult" /\ x.status = "Completed" => executed'[x.s] = 1
  BY <1>3, <1>4, RequesterWrites
<1>6. AgreedInv' /\ PhoneInv'
  BY <1>4, <1>5 DEF AgreedInv, OperationInv, PhoneInv
<1>7. CursorInv'
  BY <1>1, <1>3, <1>4 DEF OperationInv, CursorInv
<1>8. ControlType'
  BY <1>4 DEF OperationInv, ControlType, Waiting
<1>9. LoopInv'
  BY <1>1, <1>4 DEF OperationInv, LoopInv, Sessions
<1> QED
  BY <1>5, <1>6, <1>7, <1>8, <1>9 DEF OperationInv

\* Every frame the requester reads: only the phone's next one moves it.
LEMMA ReceiveKeeps ==
    ASSUME OperationInv, Receive PROVE OperationInv'
<1> USE DEF history
<1>1. PICK f \in wire : Ready(f) \/ Ping(f) \/ Status(f) \/ Prepared(f) \/ ResultCompleted(f) \/ Refused(f)
  BY DEF Receive
<1>2. CASE Ready(f)
  <2>1. /\ Accepts(f) /\ Take(f) /\ pc \in Waiting /\ pc # "hs" /\ sendN' = sendN + 1
        /\ wire' = wire \cup {Plain("requester", s, sendN, "OperationRequest")}
        /\ pc' \in {"prepare", "result"} /\ UNCHANGED <<phase, left, s>> /\ PhoneIdle
    BY <1>2 DEF Ready, Waiting, PhoneIdle
  <2> QED
    BY <2>1, AnswerKeeps
<1>3. CASE Ping(f)
  <2>1. /\ Accepts(f) /\ Take(f) /\ pc \in Waiting /\ pc # "hs" /\ sendN' = sendN + 1
        /\ wire' = wire \cup {Plain("requester", s, sendN, "LivenessPong")}
        /\ pc' \in {"prepare", "result"} /\ UNCHANGED <<phase, left, s>> /\ PhoneIdle
    BY <1>3 DEF Ping, Waiting, PhoneIdle
  <2> QED
    BY <2>1, AnswerKeeps
<1>4. CASE Status(f)
  BY <1>4, StatusKeeps
<1>5. CASE Prepared(f)
  <2>1. /\ Accepts(f) /\ Take(f) /\ pc \in Waiting /\ pc # "hs" /\ sendN' = sendN + 1
        /\ wire' = wire \cup {Plain("requester", s, sendN, "OperationCommit")}
        /\ pc' = "result" /\ UNCHANGED <<phase, left, s>> /\ PhoneIdle
    BY <1>5 DEF Prepared, Waiting, PhoneIdle
  <2>2. s \in consented
    BY <1>5 DEF Prepared, Accepts, OperationInv, AgreedInv
  <2> QED
    BY <2>1, <2>2, AnswerKeeps
<1>6. CASE ResultCompleted(f)
  <2>1. /\ Accepts(f) /\ Take(f) /\ pc \in Waiting /\ pc # "hs" /\ sendN' = sendN + 1
        /\ wire' = wire \cup {Plain("requester", s, sendN, "OperationResultAck")}
        /\ pc' = "ok" /\ UNCHANGED <<phase, left, s>> /\ PhoneIdle
    BY <1>6 DEF ResultCompleted, Waiting, PhoneIdle
  <2>2. executed[s] = 1
    BY <1>6 DEF ResultCompleted, Accepts, OperationInv, AgreedInv
  <2> QED
    BY <2>1, <2>2, AnswerKeeps
<1>7. CASE Refused(f)
  BY <1>7, AbandonKeeps DEF Refused
<1> QED
  BY <1>1, <1>2, <1>3, <1>4, <1>5, <1>6, <1>7

\* Every step of the requester, and the clock, keep the invariant.
LEMMA RequesterKeeps ==
    ASSUME OperationInv, Requester \/ Tick PROVE OperationInv'
BY ConnectKeeps, LoopKeeps, AbandonKeeps, HandshakeKeeps, ReceiveKeeps
   DEF Requester, StreamError, TimeOut

-----------------------------------------------------------------------------
(* The phone.                                                              *)

\* A step of the phone in session i, with the frames it writes.
PhoneEffect(i, to, chatter, new) ==
    /\ phone'[i].pc = to /\ phone'[i].chatter = chatter
    /\ phone'[i].sendN \in Nat /\ phone[i].sendN <= phone'[i].sendN
    /\ new # {} => phone'[i].sendN = phone[i].sendN + 1
    /\ \A j \in Sessions \ {i} : phone'[j] = phone[j]
    /\ wire' = wire \cup new
    /\ UNCHANGED <<requester, clock>>

\* What the phone writes carries its next number; what it says of consent and
\* execution is so.
LEMMA PhoneKeeps ==
    ASSUME OperationInv, NEW i \in Sessions, NEW to, NEW chatter, NEW new \in SUBSET Frame,
           PhoneEffect(i, to, chatter, new),
           PhoneInv',
           \A f \in new : f.from = "proxy" /\ f.s = i,
           \A f, g \in new : f = g,
           \/ new = {} \/ \A f \in new : f.type \notin {"KK1", "KK2"} /\ f.n = phone[i].sendN,
           phone[i].pc # "done",
           consented' \in {consented, consented \cup {i}},
           executed' = executed \/ (to = "done" /\ executed' = [executed EXCEPT ![i] = 1]),
           consequential /\ executed' # executed => i \in consented,
           to = "prepared" => i \in consented',
           \A f \in new : f.type # "OperationCommit" /\ (f.type = "OperationPrepared" => i \in consented'),
           \A f \in new : f.type = "OperationResult" /\ f.status = "Completed" => executed'[i] = 1
    PROVE  OperationInv'
<1> USE DEF OperationInv
<1>1. UNCHANGED <<consequential, pc, phase, left, s, sendN, recvN, consumed, quiet>>
  BY DEF PhoneEffect, requester, clock
<1>2. /\ \A j \in Sessions : phone[j].sendN \in Nat /\ phone'[j].sendN \in Nat
      /\ \A j \in Sessions : phone[j].sendN <= phone'[j].sendN
  BY DEF PhoneEffect, PhoneInv
<1>3. ControlType' /\ LoopInv'
  BY <1>1 DEF ControlType, LoopInv
<1>4. CursorInv'
  <2>1. s # 0 => recvN <= phone'[s].sendN
    BY <1>2, NumbersFit DEF CursorInv
  <2> QED
    BY <1>1, <2>1 DEF CursorInv, PhoneEffect
<1>5. WireInv'
  <2>1. wire' = wire \cup new
    BY DEF PhoneEffect
  <2>2. wire' \subseteq Frame /\ \A f \in wire' : f.type \in {"KK1", "KK2"} => f.n = 0
    BY <2>1 DEF WireInv
  <2>3. \A f \in wire' : f.from = "requester" =>
           f.s <= s' /\ (f.s = s' /\ f.type # "KK1" => f.n < sendN')
    BY <1>1, <2>1 DEF WireInv
  <2>4. \A f \in wire' : f.from = "proxy" /\ f.type # "KK2" => f.n < phone'[f.s].sendN
    <3>1. \A f \in wire : f.s \in Sessions /\ f.n \in Nat
      BY DEF WireInv, Frame
    <3>2. \A f \in wire : f.from = "proxy" /\ f.type # "KK2" => f.n < phone'[f.s].sendN
      BY <1>2, <3>1 DEF WireInv
    <3>3. \A f \in new : f.n < phone'[f.s].sendN
      BY <1>2 DEF PhoneEffect
    <3> QED
      BY <2>1, <3>2, <3>3
  <2>5. ASSUME NEW f \in wire', NEW h \in wire',
               f.type \notin {"KK1", "KK2"}, h.type \notin {"KK1", "KK2"},
               f.from = h.from, f.s = h.s, f.n = h.n
        PROVE  f = h
    <3>1. \A x \in wire : ~(x.from = "proxy" /\ x.s = i /\ x.type # "KK2" /\ x.n = phone[i].sendN)
      BY <1>2 DEF WireInv
    <3>2. CASE f \in wire /\ h \in wire
      BY <2>5, <3>2 DEF WireInv
    <3>3. CASE f \in new /\ h \in new
      BY <3>3
    <3>4. CASE (f \in wire /\ h \in new) \/ (f \in new /\ h \in wire)
      BY <2>5, <3>1, <3>4
    <3> QED
      BY <2>1, <3>2, <3>3, <3>4
  <2> QED
    BY <2>2, <2>3, <2>4, <2>5 DEF WireInv
<1>6. AgreedInv'
  <2>1. /\ wire' = wire \cup new /\ phone'[i].pc = to
        /\ \A j \in Sessions \ {i} : phone'[j] = phone[j]
    BY DEF PhoneEffect
  <2>2. executed[i] = 0 /\ executed \in [Sessions -> 0 .. 1]
    BY DEF AgreedInv
  <2>3. \A j \in Sessions : executed[j] = 1 => executed'[j] = 1
    BY <2>2
  <2>4. executed' \in [Sessions -> 0 .. 1] /\ consented' \subseteq Sessions
    BY <2>2 DEF AgreedInv
  <2>5. \A j \in Sessions : executed'[j] = 1 => phone'[j].pc = "done"
    BY <2>1, <2>2 DEF AgreedInv
  <2>6. \A j \in Sessions : consequential /\ executed'[j] = 1 => j \in consented'
    BY <2>2 DEF AgreedInv
  <2>7. \A j \in Sessions : phone'[j].pc = "prepared" => j \in consented'
    BY <2>1 DEF AgreedInv
  <2>8. \A f \in wire' : f.type \in {"OperationPrepared", "OperationCommit"} => f.s \in consented'
    BY <2>1 DEF AgreedInv
  <2>9. \A f \in wire' : f.type = "OperationResult" /\ f.status = "Completed" => executed'[f.s] = 1
    BY <2>1, <2>3 DEF AgreedInv, WireInv, Frame
  <2>10. pc = "ok" => executed'[s] = 1
    BY <2>3, NumbersFit DEF AgreedInv, LoopInv
  <2> QED
    BY <1>1, <2>4, <2>5, <2>6, <2>7, <2>8, <2>9, <2>10 DEF AgreedInv
<1> QED
  BY <1>3, <1>4, <1>5, <1>6

PhoneRecord == [pc : PhoneSteps, sendN : Nat, recvN : Nat, chatter : 0 .. MaxChatter]

\* A phone's record with other fields.
LEMMA RecordMoved ==
    ASSUME NEW q \in PhoneRecord, NEW to \in PhoneSteps, NEW n \in Nat, NEW m \in Nat
    PROVE  /\ [q EXCEPT !.pc = to, !.sendN = n] \in PhoneRecord
           /\ [q EXCEPT !.pc = to, !.recvN = m, !.sendN = n] \in PhoneRecord
<1>1. [q EXCEPT !.pc = to, !.sendN = n] \in PhoneRecord
  BY DEF PhoneRecord
<1>2. [q EXCEPT !.pc = to, !.recvN = m, !.sendN = n] \in PhoneRecord
  BY DEF PhoneRecord
<1> QED
  BY <1>1, <1>2

\* A phone's record after a step.
LEMMA PhoneUpdated ==
    ASSUME OperationInv, NEW i \in Sessions, NEW r \in PhoneRecord,
           r.sendN <= r.chatter + Answers(r.pc),
           phone' = [phone EXCEPT ![i] = r]
    PROVE  PhoneInv' /\ phone'[i] = r /\ \A j \in Sessions \ {i} : phone'[j] = phone[j]
<1>1. phone \in [Sessions -> PhoneRecord]
  BY DEF OperationInv, PhoneInv, PhoneRecord
<1>2. phone' \in [Sessions -> PhoneRecord] /\ phone'[i] = r
      /\ \A j \in Sessions \ {i} : phone'[j] = phone[j]
  BY <1>1
<1>3. \A j \in Sessions : phone'[j].sendN <= phone'[j].chatter + Answers(phone'[j].pc)
  BY <1>2 DEF OperationInv, PhoneInv
<1> QED
  BY <1>2, <1>3 DEF PhoneInv, PhoneRecord

\* A wire of one frame holds that frame alone.
LEMMA OneFrame ==
    ASSUME NEW x PROVE Len(<<x>>) = 1 /\ {<<x>>[k] : k \in 1 .. Len(<<x>>)} = {x}
<1>1. Len(<<x>>) = 1 /\ <<x>>[1] = x
  OBVIOUS
<1>2. 1 .. 1 = {1}
  OBVIOUS
<1> QED
  BY <1>1, <1>2

\* The phone goes on to a step that answers more, with the one frame that says so.
LEMMA PhoneWritesOne ==
    ASSUME OperationInv, NEW i \in Sessions, NEW x \in Frame, NEW type,
           NEW from \in PhoneSteps, NEW to \in PhoneSteps, Answers(from) + 1 <= Answers(to),
           PhoneTakes(i, type, from, to, <<x>>) \/ PhoneMoves(i, from, to, <<x>>)
    PROVE  PhoneInv' /\ PhoneEffect(i, to, phone[i].chatter, {x}) /\ phone[i].pc = from
<1>1. phone[i] \in PhoneRecord /\ phone[i].sendN <= phone[i].chatter + Answers(phone[i].pc)
  BY DEF OperationInv, PhoneInv, PhoneRecord
<1>2. Answers(from) \in 0 .. 3 /\ Answers(to) \in 0 .. 3
  BY DEF Answers
<1>9. PICK q \in PhoneRecord : q = phone[i]
  BY <1>1
<1>10. PICK n \in Nat, m \in Nat : n = q.sendN + 1 /\ m = q.recvN + 1
  BY DEF PhoneRecord
<1>3. phone[i].pc = from /\ wire' = wire \cup {x} /\ UNCHANGED <<requester, clock>>
  BY OneFrame DEF PhoneTakes, PhoneMoves
<1>4. \E r \in PhoneRecord :
        /\ phone' = [phone EXCEPT ![i] = r]
        /\ r.pc = to /\ r.sendN = phone[i].sendN + 1 /\ r.chatter = phone[i].chatter
  <2>1. CASE PhoneTakes(i, type, from, to, <<x>>)
    <3> DEFINE r == [q EXCEPT !.pc = to, !.recvN = m, !.sendN = n]
    <3>1. phone' = [phone EXCEPT ![i].pc = to, ![i].recvN = @ + 1, ![i].sendN = @ + 1]
      BY <2>1, OneFrame DEF PhoneTakes
    <3>2. phone' = [phone EXCEPT ![i] = r]
      BY <1>1, <1>9, <1>10, <3>1 DEF PhoneRecord, OperationInv, PhoneInv
    <3>3. r \in PhoneRecord
      BY RecordMoved
    <3>4. r.pc = to /\ r.sendN = phone[i].sendN + 1 /\ r.chatter = phone[i].chatter
      BY <1>9, <1>10 DEF PhoneRecord
    <3> QED
      BY <3>2, <3>3, <3>4
  <2>2. CASE PhoneMoves(i, from, to, <<x>>)
    <3> DEFINE r == [q EXCEPT !.pc = to, !.sendN = n]
    <3>1. phone' = [phone EXCEPT ![i].pc = to, ![i].sendN = @ + 1]
      BY <2>2, OneFrame DEF PhoneMoves
    <3>2. phone' = [phone EXCEPT ![i] = r]
      BY <1>1, <1>9, <1>10, <3>1 DEF PhoneRecord, OperationInv, PhoneInv
    <3>3. r \in PhoneRecord
      BY RecordMoved
    <3>4. r.pc = to /\ r.sendN = phone[i].sendN + 1 /\ r.chatter = phone[i].chatter
      BY <1>9, <1>10 DEF PhoneRecord
    <3> QED
      BY <3>2, <3>3, <3>4
  <2> QED
    BY <2>1, <2>2
<1>5. PICK r \in PhoneRecord :
        /\ phone' = [phone EXCEPT ![i] = r]
        /\ r.pc = to /\ r.sendN = phone[i].sendN + 1 /\ r.chatter = phone[i].chatter
  BY <1>4
<1>6. r.sendN <= r.chatter + Answers(r.pc)
  <2>1. phone[i].sendN \in Nat /\ phone[i].chatter \in Nat
    BY <1>1 DEF PhoneRecord
  <2> QED
    BY <1>1, <1>2, <1>3, <1>5, <2>1
<1>7. PhoneInv' /\ phone'[i] = r /\ \A j \in Sessions \ {i} : phone'[j] = phone[j]
  BY <1>5, <1>6, PhoneUpdated
<1>8. phone[i].sendN \in Nat
  BY <1>1 DEF PhoneRecord
<1> QED
  BY <1>3, <1>5, <1>7, <1>8 DEF PhoneEffect

\* Nothing is written: the phone waits for its holder, or takes a pong.
LEMMA PhoneSilent ==
    ASSUME OperationInv, NEW i \in Sessions,
           PhonePrompt(i) \/ PhonePong(i)
    PROVE  OperationInv'
<1>1. phone[i] \in PhoneRecord /\ phone[i].sendN <= phone[i].chatter + Answers(phone[i].pc)
  BY DEF OperationInv, PhoneInv, PhoneRecord
<1>2. /\ wire' = wire /\ UNCHANGED <<requester, clock, consented, executed>>
      /\ phone[i].pc \in {"ready", "prompt", "prepared"}
  <2>1. {<<>>[k] : k \in 1 .. Len(<<>>)} = {}
    OBVIOUS
  <2> QED
    BY <2>1 DEF PhonePrompt, PhonePong, PhoneTakes, history
<1>3. \E r \in PhoneRecord :
        /\ phone' = [phone EXCEPT ![i] = r] /\ r.sendN = phone[i].sendN
        /\ r.chatter = phone[i].chatter
        /\ (r.pc = phone[i].pc \/ (r.pc = "prompt" /\ phone[i].pc = "ready"))
  <2>1. CASE PhonePrompt(i)
    <3>3. PICK q \in PhoneRecord : q = phone[i]
      BY <1>1
    <3>4. PICK n \in Nat, m \in Nat : n = q.sendN /\ m = q.recvN + 1
      BY DEF PhoneRecord
    <3> DEFINE r == [q EXCEPT !.pc = "prompt", !.recvN = m, !.sendN = n]
    <3>1. phone' = [phone EXCEPT ![i].pc = "prompt", ![i].recvN = @ + 1, ![i].sendN = @ + 0]
          /\ phone[i].pc = "ready"
      BY <2>1 DEF PhonePrompt, PhoneTakes
    <3>2. phone' = [phone EXCEPT ![i] = r]
      BY <1>1, <3>1, <3>3, <3>4 DEF PhoneRecord, OperationInv, PhoneInv
    <3>5. r \in PhoneRecord
      BY RecordMoved DEF PhoneSteps
    <3>6. r.pc = "prompt" /\ r.sendN = phone[i].sendN /\ r.chatter = phone[i].chatter
      BY <3>3, <3>4 DEF PhoneRecord
    <3> QED
      BY <3>1, <3>2, <3>5, <3>6
  <2>2. CASE PhonePong(i)
    <3> DEFINE r == [phone[i] EXCEPT !.recvN = phone[i].recvN + 1]
    <3>1. phone' = [phone EXCEPT ![i] = r]
      BY <2>2 DEF PhonePong, OperationInv, PhoneInv
    <3>2. /\ r \in PhoneRecord /\ r.pc = phone[i].pc /\ r.sendN = phone[i].sendN
          /\ r.chatter = phone[i].chatter
      BY <1>1 DEF PhoneRecord
    <3> QED
      BY <3>1, <3>2
  <2> QED
    BY <2>1, <2>2
<1>4. PICK r \in PhoneRecord :
        /\ phone' = [phone EXCEPT ![i] = r] /\ r.sendN = phone[i].sendN
        /\ r.chatter = phone[i].chatter
        /\ (r.pc = phone[i].pc \/ (r.pc = "prompt" /\ phone[i].pc = "ready"))
  BY <1>3
<1>5. r.sendN <= r.chatter + Answers(r.pc)
  BY <1>1, <1>4 DEF Answers
<1>6. PhoneInv' /\ phone'[i] = r /\ \A j \in Sessions \ {i} : phone'[j] = phone[j]
  BY <1>4, <1>5, PhoneUpdated
<1>7. PhoneEffect(i, r.pc, r.chatter, {})
  <2>1. r.sendN \in Nat
    BY DEF PhoneRecord
  <2> QED
    BY <1>2, <1>4, <1>6, <2>1 DEF PhoneEffect
<1>8. r.pc = "prepared" => i \in consented
  BY <1>4 DEF OperationInv, AgreedInv
<1> QED
  BY <1>2, <1>6, <1>7, <1>8, PhoneKeeps

\* The frames of the phone's session and consent.
LEMMA PhoneWrites ==
    ASSUME OperationInv, NEW i \in Sessions,
           PhoneReady(i) \/ PhoneConsent(i) \/ PhoneDeny(i) \/ PhoneRead(i) \/ PhoneCommit(i)
    PROVE  OperationInv'
<1> USE DEF history
<1>1. PICK n : n = phone[i].sendN /\ n \in 0 .. MaxFrames
  BY NumbersFit, RappAssumption DEF MaxFrames
<1>2. executed \in [Sessions -> 0 .. 1] /\ executed[i] \in 0 .. 1
      /\ (phone[i].pc # "done" => executed[i] = 0)
  BY DEF OperationInv, AgreedInv
<1>3. CASE PhoneReady(i)
  <2> DEFINE x == Plain("proxy", i, n, "SessionReady")
  <2>1. x \in Frame /\ x.from = "proxy" /\ x.s = i /\ x.n = n /\ x.type = "SessionReady"
    BY <1>1, PlainFrame DEF MessageType
  <2>2. PhoneTakes(i, "SessionReady", "hs", "ready", <<x>>) /\ UNCHANGED <<consented, executed>>
    BY <1>1, <1>3 DEF PhoneReady
  <2> HIDE DEF x
  <2>3. PhoneInv' /\ PhoneEffect(i, "ready", phone[i].chatter, {x}) /\ phone[i].pc = "hs"
    BY <2>1, <2>2, PhoneWritesOne DEF Answers, PhoneSteps
  <2>4. PICK c : c = phone[i].chatter
    OBVIOUS
  <2> QED
    BY <1>1, <2>1, <2>2, <2>3, <2>4, PhoneKeeps
<1>4. CASE PhoneConsent(i)
  <2> DEFINE x == Plain("proxy", i, n, "OperationPrepared")
  <2>1. x \in Frame /\ x.from = "proxy" /\ x.s = i /\ x.n = n /\ x.type = "OperationPrepared"
    BY <1>1, PlainFrame DEF MessageType
  <2>2. PhoneMoves(i, "prompt", "prepared", <<x>>) /\ UNCHANGED executed
        /\ consented' = consented \cup {i}
    BY <1>1, <1>4 DEF PhoneConsent
  <2> HIDE DEF x
  <2>3. PhoneInv' /\ PhoneEffect(i, "prepared", phone[i].chatter, {x}) /\ phone[i].pc = "prompt"
    BY <2>1, <2>2, PhoneWritesOne DEF Answers, PhoneSteps
  <2>4. PICK c : c = phone[i].chatter
    OBVIOUS
  <2> QED
    BY <1>1, <2>1, <2>2, <2>3, <2>4, PhoneKeeps
<1>5. CASE PhoneDeny(i)
  <2> DEFINE x == Result(i, n, "UserDenied")
  <2>1. /\ x \in Frame /\ x.from = "proxy" /\ x.s = i /\ x.n = n /\ x.type = "OperationResult"
        /\ x.status = "UserDenied"
    BY <1>1, ResultFrame DEF ResultStatus
  <2>2. PhoneMoves(i, "prompt", "done", <<x>>) /\ UNCHANGED <<consented, executed>>
    BY <1>1, <1>5 DEF PhoneDeny
  <2> HIDE DEF x
  <2>3. PhoneInv' /\ PhoneEffect(i, "done", phone[i].chatter, {x}) /\ phone[i].pc = "prompt"
    BY <2>1, <2>2, PhoneWritesOne DEF Answers, PhoneSteps
  <2>4. PICK c : c = phone[i].chatter
    OBVIOUS
  <2> QED
    BY <1>1, <2>1, <2>2, <2>3, <2>4, PhoneKeeps
<1>6. CASE PhoneRead(i)
  <2> DEFINE x == Result(i, n, "Completed")
  <2>1. /\ x \in Frame /\ x.from = "proxy" /\ x.s = i /\ x.n = n /\ x.type = "OperationResult"
        /\ x.status = "Completed"
    BY <1>1, ResultFrame DEF ResultStatus
  <2>2. /\ PhoneTakes(i, "OperationRequest", "ready", "done", <<x>>) /\ UNCHANGED consented
        /\ ~consequential /\ executed' = [executed EXCEPT ![i] = executed[i] + 1]
    BY <1>1, <1>6 DEF PhoneRead
  <2> HIDE DEF x
  <2>3. PhoneInv' /\ PhoneEffect(i, "done", phone[i].chatter, {x}) /\ phone[i].pc = "ready"
    BY <2>1, <2>2, PhoneWritesOne DEF Answers, PhoneSteps
  <2>4. executed' = [executed EXCEPT ![i] = 1] /\ executed'[i] = 1
    BY <1>2, <2>2, <2>3
  <2>5. PICK c : c = phone[i].chatter
    OBVIOUS
  <2>6. (consequential /\ executed' # executed => i \in consented) /\ consented' = consented
    BY <2>2
  <2>7. /\ {x} \in SUBSET Frame
        /\ \A f \in {x} : f.from = "proxy" /\ f.s = i
        /\ \A f \in {x} : f.type \notin {"KK1", "KK2"} /\ f.n = phone[i].sendN
        /\ \A f \in {x} : f.type # "OperationCommit" /\ (f.type = "OperationPrepared" => i \in consented')
        /\ \A f \in {x} : f.type = "OperationResult" /\ f.status = "Completed" => executed'[i] = 1
        /\ \A f, g \in {x} : f = g
    BY <1>1, <2>1, <2>4
  <2>8. executed' = executed \/ executed' = [executed EXCEPT ![i] = 1]
    BY <2>4
  <2> QED
    BY <2>3, <2>5, <2>6, <2>7, <2>8, PhoneKeeps
<1>7. CASE PhoneCommit(i)
  <2>1. PICK status \in ResultStatus \ {"UserDenied"} :
          /\ PhoneTakes(i, "OperationCommit", "prepared", "done", <<Result(i, n, status)>>)
          /\ executed' \in IF status = "Completed" THEN {[executed EXCEPT ![i] = @ + 1]}
                           ELSE IF status = "Ambiguous"
                                THEN {executed, [executed EXCEPT ![i] = @ + 1]}
                                ELSE {executed}
          /\ UNCHANGED consented
    BY <1>1, <1>7 DEF PhoneCommit
  <2> DEFINE x == Result(i, n, status)
  <2>2. /\ x \in Frame /\ x.from = "proxy" /\ x.s = i /\ x.n = n /\ x.type = "OperationResult"
        /\ x.status = status
    BY <1>1, ResultFrame
  <2>3. PhoneTakes(i, "OperationCommit", "prepared", "done", <<x>>)
    BY <2>1
  <2> HIDE DEF x
  <2>4. PhoneInv' /\ PhoneEffect(i, "done", phone[i].chatter, {x}) /\ phone[i].pc = "prepared"
    BY <2>2, <2>3, PhoneWritesOne DEF Answers, PhoneSteps
  <2>5. /\ executed' = executed \/ executed' = [executed EXCEPT ![i] = 1]
        /\ status = "Completed" => executed'[i] = 1
    BY <1>2, <2>1, <2>4
  <2>6. i \in consented
    BY <2>4 DEF OperationInv, AgreedInv
  <2>7. PICK c : c = phone[i].chatter
    OBVIOUS
  <2> QED
    BY <1>1, <2>1, <2>2, <2>4, <2>5, <2>6, <2>7, PhoneKeeps
<1> QED
  BY <1>3, <1>4, <1>5, <1>6, <1>7

\* A ping or a status update takes a number like any other frame.
LEMMA ChatterKeeps ==
    ASSUME OperationInv, NEW i \in Sessions, PhoneChatter(i) PROVE OperationInv'
<1>1. PICK n : n = phone[i].sendN /\ n \in 0 .. MaxFrames
  BY NumbersFit, RappAssumption DEF MaxFrames
<1>2. PICK q \in PhoneRecord : q = phone[i] /\ q.sendN <= q.chatter + Answers(q.pc)
  BY DEF OperationInv, PhoneInv, PhoneRecord
<1>3. PICK type \in {"LivenessPing", "OperationStatus"} :
        wire' = wire \cup {Plain("proxy", i, n, type)}
  BY <1>1 DEF PhoneChatter
<1>4. /\ q.pc \in {"ready", "prompt", "prepared"} /\ q.chatter < MaxChatter
      /\ UNCHANGED <<requester, clock, consented, executed>>
      /\ phone' = [phone EXCEPT ![i].sendN = @ + 1, ![i].chatter = @ + 1]
  BY <1>2 DEF PhoneChatter, history
<1>5. PICK x : x = Plain("proxy", i, n, type)
  OBVIOUS
<1>6. x \in Frame /\ x.from = "proxy" /\ x.s = i /\ x.n = n /\ x.type = type
  BY <1>1, <1>5, PlainFrame DEF MessageType
<1>7. PICK c \in 0 .. MaxChatter, m \in Nat : c = q.chatter + 1 /\ m = q.sendN + 1
  BY <1>4, RappAssumption DEF PhoneRecord
<1> DEFINE r == [q EXCEPT !.sendN = m, !.chatter = c]
<1>8. r \in PhoneRecord
  BY DEF PhoneRecord
<1>9. r.pc = q.pc /\ r.sendN = q.sendN + 1 /\ r.chatter = q.chatter + 1
  BY <1>7 DEF PhoneRecord
<1>10. phone' = [phone EXCEPT ![i] = r]
  BY <1>2, <1>4, <1>7 DEF PhoneRecord, OperationInv, PhoneInv
<1> HIDE DEF r
<1>11. r.sendN <= r.chatter + Answers(r.pc)
  <2>1. q.sendN \in Nat /\ q.chatter \in Nat /\ Answers(q.pc) \in Nat
    BY DEF PhoneRecord, Answers
  <2> QED
    BY <1>2, <1>9, <2>1
<1>12. PICK u \in PhoneRecord : u = r
  BY <1>8
<1>13. PhoneInv' /\ phone'[i] = u /\ \A j \in Sessions \ {i} : phone'[j] = phone[j]
  BY <1>10, <1>11, <1>12, PhoneUpdated
<1>14. PhoneEffect(i, q.pc, c, {x})
  <2>1. q.sendN \in Nat
    BY DEF PhoneRecord
  <2>2. phone'[i].pc = q.pc /\ phone'[i].chatter = c /\ phone'[i].sendN = phone[i].sendN + 1
    BY <1>2, <1>7, <1>9, <1>12, <1>13
  <2>3. wire' = wire \cup {x} /\ UNCHANGED <<requester, clock>>
    BY <1>3, <1>4, <1>5
  <2>4. phone[i].sendN + 1 \in Nat /\ phone[i].sendN <= phone[i].sendN + 1
    BY <1>2, <2>1
  <2> QED
    BY <1>13, <2>2, <2>3, <2>4 DEF PhoneEffect
<1>15. q.pc = "prepared" => i \in consented
  BY <1>2 DEF OperationInv, AgreedInv
<1> QED
  BY <1>1, <1>2, <1>4, <1>6, <1>13, <1>14, <1>15, PhoneKeeps

\* The phone answers the handshake: KK2 has no number of its own.
LEMMA AcceptKeeps ==
    ASSUME OperationInv, NEW i \in Sessions, PhoneAccept(i) PROVE OperationInv'
<1>1. PICK q \in PhoneRecord : q = phone[i] /\ q.sendN <= q.chatter + Answers(q.pc)
  BY DEF OperationInv, PhoneInv, PhoneRecord
<1>2. PICK x : x = Plain("proxy", i, 0, "KK2")
  OBVIOUS
<1>3. x \in Frame /\ x.from = "proxy" /\ x.s = i /\ x.n = 0 /\ x.type = "KK2"
  BY <1>2, NumbersFit, PlainFrame DEF MessageType
<1>4. /\ q.pc = "none" /\ wire' = wire \cup {x}
      /\ UNCHANGED <<consequential, pc, phase, left, s, sendN, recvN, consumed, quiet, consented, executed>>
      /\ phone' = [phone EXCEPT ![i].pc = "hs"]
  BY <1>1, <1>2 DEF PhoneAccept, requester, clock, history
<1> DEFINE r == [q EXCEPT !.pc = "hs"]
<1>5. r \in PhoneRecord /\ r.pc = "hs" /\ r.sendN = q.sendN /\ r.chatter = q.chatter
  BY DEF PhoneRecord, PhoneSteps
<1>6. phone' = [phone EXCEPT ![i] = r]
  BY <1>1, <1>4
<1> HIDE DEF r
<1>7. r.sendN <= r.chatter + Answers(r.pc)
  BY <1>1, <1>4, <1>5 DEF Answers
<1>8. PICK u \in PhoneRecord : u = r
  BY <1>5
<1>9. PhoneInv' /\ phone'[i] = u /\ \A j \in Sessions \ {i} : phone'[j] = phone[j]
  BY <1>6, <1>7, <1>8, PhoneUpdated
<1>10. \A j \in Sessions : phone'[j].sendN = phone[j].sendN
  BY <1>1, <1>5, <1>8, <1>9
<1>11. ControlType' /\ LoopInv'
  BY <1>4 DEF OperationInv, ControlType, LoopInv
<1>12. CursorInv'
  BY <1>4, <1>10, NumbersFit DEF OperationInv, CursorInv
<1>13. WireInv'
  <2>1. \A f \in wire : f.s \in Sessions
    BY DEF OperationInv, WireInv, Frame
  <2> QED
    BY <1>3, <1>4, <1>10, <2>1 DEF OperationInv, WireInv
<1>14. AgreedInv'
  <2>1. executed[i] = 0
    BY <1>1, <1>4 DEF OperationInv, AgreedInv
  <2> QED
    BY <1>3, <1>4, <1>5, <1>8, <1>9, <2>1 DEF OperationInv, AgreedInv
<1> QED
  BY <1>9, <1>11, <1>12, <1>13, <1>14 DEF OperationInv

\* Every step of the phone keeps the invariant.
LEMMA AnyPhoneKeeps ==
    ASSUME OperationInv, NEW i \in Sessions, Phone(i) PROVE OperationInv'
BY AcceptKeeps, PhoneWrites, PhoneSilent, ChatterKeeps DEF Phone

-----------------------------------------------------------------------------
(* The theorems.                                                           *)

\* The invariant holds before the first operation.
LEMMA OperationInit == Init => OperationInv
<1> SUFFICES ASSUME Init PROVE OperationInv
  OBVIOUS
<1> USE RappAssumption
<1>1. ControlType /\ LoopInv
  BY DEF Init, ControlType, LoopInv, Waiting
<1>2. CursorInv
  BY DEF Init, CursorInv
<1>3. PhoneInv /\ \A i \in Sessions : phone[i].pc = "none"
  <2>1. [pc |-> "none", sendN |-> 0, recvN |-> 0, chatter |-> 0] \in PhoneRecord
    BY DEF PhoneRecord, PhoneSteps
  <2> QED
    BY <2>1 DEF Init, PhoneInv, PhoneRecord, Answers
<1>4. WireInv /\ AgreedInv
  BY <1>3 DEF Init, WireInv, AgreedInv
<1> QED
  BY <1>1, <1>2, <1>3, <1>4 DEF OperationInv

\* Every step of an operation keeps the invariant.
LEMMA OperationStep == OperationInv /\ [Next]_vars => OperationInv'
<1> SUFFICES ASSUME OperationInv, [Next]_vars PROVE OperationInv'
  OBVIOUS
<1>1. CASE UNCHANGED vars
  <2>1. UNCHANGED <<consequential, pc, phase, left, s, sendN, recvN, consumed, quiet, wire,
                    phone, consented, executed>>
    BY <1>1 DEF vars, requester, clock, history
  <2> QED
    BY <2>1, QuietKeeps DEF OperationInv, ControlType, LoopInv, history
<1>2. CASE Next
  BY <1>1, <1>2, RequesterKeeps, AnyPhoneKeeps DEF Next, Returned
<1> QED
  BY <1>1, <1>2

\* The invariant holds in every state of an operation.
LEMMA OperationInvariant == Spec => []OperationInv
<1> QED
  BY OperationInit, OperationStep, PTL DEF Spec

\* What the invariant is for: frames are taken in order and what the phone
\* executes was agreed.
LEMMA InvariantImplies == OperationInv => FramesInOrder /\ ExecutedAsAgreed
<1> SUFFICES ASSUME OperationInv PROVE FramesInOrder /\ ExecutedAsAgreed
  OBVIOUS
<1> USE DEF OperationInv
<1>1. TypeOK
  <2>1. /\ s \in 0 .. (Stored + MaxResolved) /\ left \in Nat
        /\ sendN \in 0 .. MaxFrames /\ recvN \in 0 .. MaxFrames
    BY NumbersFit, RappAssumption DEF LoopInv, MaxFrames
  <2>2. \A k \in DOMAIN consumed : consumed[k] \in wire
    BY DEF CursorInv
  <2> QED
    BY <2>1, <2>2 DEF TypeOK, ControlType, WireInv, AgreedInv
<1>2. ConsumedInOrder
  BY DEF ConsumedInOrder, CursorInv
<1>3. FramesNumberedOnce
  BY DEF FramesNumberedOnce, WireInv
<1>4. ExecutedAsAgreed
  <2>1. \A i \in Sessions : executed[i] > 0 => executed[i] = 1
    BY DEF AgreedInv
  <2> QED
    BY <2>1 DEF ExecutedAsAgreed, CommittedAfterConsent, OkMeansExecuted, AgreedInv
<1> QED
  BY <1>1, <1>2, <1>3, <1>4 DEF FramesInOrder

\* What pair_requester_over_stream and the commands around it do is, seen from
\* the operation, nothing or a step of execute_operation_with_pair.
THEOREM PairingRefinesOperation == PairingSpec => Spec
<1>1. PairingInit => Init
  BY DEF PairingInit
<1>2. [PairingNext]_allVars => [Next]_vars
  <2> SUFFICES ASSUME PairingNext \/ UNCHANGED allVars PROVE Next \/ UNCHANGED vars
    OBVIOUS
  <2>1. CASE UNCHANGED allVars \/ Over
    BY <2>1 DEF allVars, Over
  <2>2. CASE DeskStep
    BY <2>2 DEF DeskStep, BeginPairing, PairConnect, Message2, ProxyHello, ProxyConfirm,
       PairingError, PairingFails, SavePairing
  <2>3. ASSUME NEW a \in Attempts, DeviceStep(a) PROVE UNCHANGED vars
    BY <2>3 DEF DeviceStep, DeviceMessage1, DeviceStores, DeviceConfirms
  <2>4. CASE CallConnect \/ CallStep
    BY <2>4 DEF CallConnect, CallStep, Next, Requester
  <2>5. ASSUME NEW i \in Sessions, PhoneStep(i) PROVE Next
    BY <2>5 DEF PhoneStep, Next
  <2> QED
    BY <2>1, <2>2, <2>3, <2>4, <2>5 DEF PairingNext
<1> QED
  BY <1>1, <1>2, PTL DEF PairingSpec, Spec

\* The requester acts on the phone's frames of the current session only, in
\* order and each once, whatever the wire repeats or swaps, and numbers its own
\* frames once (SequenceGuard and the Noise nonce).
THEOREM FramesTakenInOrder == PairingSpec => []FramesInOrder
<1> QED
  BY PairingRefinesOperation, OperationInvariant, InvariantImplies, PTL

\* A consequential operation reaches the card only after the holder confirmed
\* in that session, a commit is sent only then, and Ok means that the card has
\* executed the operation, once, in the session the result came from.
THEOREM OperationsAgreed == PairingSpec => []ExecutedAsAgreed
<1> QED
  BY PairingRefinesOperation, OperationInvariant, InvariantImplies, PTL

(***************************************************************************)
(* The pairing: the two sides of a handshake as explicit terms             *)
(***************************************************************************)

\* A cipher under a chaining key, a symmetric state, and a handshake state of
\* the party x, which keeps its pattern, its part, its secret and its keys.
Cipher(key, n) == [key |-> key, counter |-> n]
Sym(ck, h, key, n) == [ck |-> ck, h |-> h, cipher |-> Cipher(key, n)]
Rekey(ck) == <<"rekey", ck>>
Hs(x, sym, rs, re, k) ==
    [sym |-> sym, pattern |-> x.pattern, initiator |-> x.initiator, psk |-> x.psk, s |-> x.s,
     e |-> x.e, rs |-> rs, re |-> re, message_index |-> k]
Writing(hs, out) == [hs |-> hs, out |-> out]
Reading(hs, in) == [hs |-> hs, in |-> in, err |-> FALSE]

\* A sealed field, and what it leaves in the hash.
Sealed(ck, n, aad, plain) == <<"sealed", Rekey(ck), n, aad, plain>>
Mixed(ck, n, plain) == <<Rekey(ck), n, plain>>
MixedKey(ck) == <<"mixed", ck>>

\* mix_hash, mix_key and mix_key_and_hash on such a state.
LEMMA SymMixHash ==
    ASSUME NEW ck, NEW h, NEW key, NEW n, NEW data
    PROVE  mix_hash(Sym(ck, h, key, n), data) = Sym(ck, Append(h, data), key, n)
  BY DEF mix_hash, Sym
LEMMA SymMixKey ==
    ASSUME NEW ck, NEW h, NEW key, NEW n, NEW data
    PROVE  mix_key(Sym(ck, h, key, n), data) = Sym(Append(ck, data), h, Rekey(Append(ck, data)), 0)
<1>1. PICK sym, c : sym = Sym(ck, h, key, n) /\ c = Append(ck, data)
  OBVIOUS
<1>2. sym.ck = ck
  BY <1>1 DEF Sym
<1>3. PICK cipher : cipher = initialize_key(<<"rekey", c>>)
  OBVIOUS
<1>4. mix_key(sym, data) = [sym EXCEPT !.ck = c, !.cipher = cipher]
  BY <1>1, <1>2, <1>3 DEF mix_key
<1>5. cipher = Cipher(Rekey(c), 0)
  BY <1>3, Zenon DEF Cipher, initialize_key, Rekey
<1>6. sym = [ck |-> ck, h |-> h, cipher |-> Cipher(key, n)]
  BY <1>1, Zenon DEF Sym
<1>7. [sym EXCEPT !.ck = c, !.cipher = cipher] = [ck |-> c, h |-> h, cipher |-> cipher]
  <2>1. PICK b : b = Cipher(key, n)
    OBVIOUS
  <2>2. sym = [ck |-> ck, h |-> h, cipher |-> b]
    BY <1>6, <2>1, Zenon
  <2>3. PICK r : r = [sym EXCEPT !.ck = c]
    OBVIOUS
  <2>4. r = [ck |-> c, h |-> h, cipher |-> b]
    BY ONLY <2>2, <2>3
  <2>5. [sym EXCEPT !.ck = c, !.cipher = cipher] = [r EXCEPT !.cipher = cipher]
    BY ONLY <2>2, <2>3
  <2>6. [r EXCEPT !.cipher = cipher] = [ck |-> c, h |-> h, cipher |-> cipher]
    BY ONLY <2>4
  <2> QED
    BY <2>5, <2>6
<1>8. Sym(c, h, Rekey(c), 0) = [ck |-> c, h |-> h, cipher |-> cipher]
  BY <1>5, Zenon DEF Sym
<1> QED
  BY <1>1, <1>4, <1>7, <1>8, Zenon
LEMMA SymMixKeyAndHash ==
    ASSUME NEW ck, NEW h, NEW key, NEW n, NEW data, NEW c, Append(ck, data) = c
    PROVE  mix_key_and_hash(Sym(ck, h, key, n), data) = Sym(c, Append(h, MixedKey(c)), Rekey(c), 0)
  BY DEF mix_key_and_hash, Sym, Cipher, initialize_key, Rekey, MixedKey

\* A key is there after the first mix_key.
LEMMA KeyIsThere ==
    ASSUME NEW ck
    PROVE  Rekey(ck) # None
  BY DEF Rekey, None

\* Sealing, opening what was sealed, and the hash after either.
LEMMA Seals ==
    ASSUME NEW ck, NEW h, NEW c, NEW n, NEW plain
    PROVE  encrypt(Sym(ck, h, Rekey(c), n).cipher, h, plain) = Sealed(c, n, h, plain)
  BY KeyIsThere DEF encrypt, Sym, Cipher, Sealed
LEMMA SymHashed ==
    ASSUME NEW ck, NEW h, NEW c, NEW n \in Nat, NEW aad, NEW plain
    PROVE  Hashed(Sym(ck, h, Rekey(c), n), Sealed(c, n, aad, plain)) =
             Sym(ck, Append(h, Mixed(c, n, plain)), Rekey(c), n + 1)
<1>1. PICK key : key = Rekey(c)
  OBVIOUS
<1>2. key # None
  BY <1>1, KeyIsThere
<1>3. PICK text : text = Sealed(c, n, aad, plain)
  OBVIOUS
<1>4. text[2] = key /\ text[3] = n /\ text[5] = plain
  BY <1>1, <1>3 DEF Sealed
<1>5. PICK sym : sym = Sym(ck, h, key, n)
  OBVIOUS
<1>6. sym.cipher = Cipher(key, n) /\ sym.cipher.key = key
  BY <1>5 DEF Sym, Cipher
<1>7. Used(Cipher(key, n)) = Cipher(key, n + 1)
  BY <1>2 DEF Used, Cipher
<1>8. [sym EXCEPT !.cipher = Used(sym.cipher)] = Sym(ck, h, key, n + 1)
  BY <1>5, <1>6, <1>7 DEF Sym
<1>9. Hashed(sym, text) = mix_hash(Sym(ck, h, key, n + 1), <<key, n, plain>>)
  BY <1>2, <1>4, <1>6, <1>8 DEF Hashed
<1> QED
  BY <1>1, <1>3, <1>5, <1>9, SymMixHash DEF Mixed
LEMMA Opens ==
    ASSUME NEW ck, NEW h, NEW c, NEW n, NEW d, NEW m, NEW aad, NEW plain, NEW text, text = Sealed(d, m, aad, plain)
    PROVE  LET p == decrypt(Sym(ck, h, Rekey(c), n).cipher, h, text) IN
           /\ c = d /\ n = m /\ h = aad => p = <<plain>>
           /\ p # None => p = <<plain>> /\ c = d /\ n = m /\ h = aad
<1>1. PICK key : key = Rekey(c)
  OBVIOUS
<1>2. key # None
  BY <1>1, KeyIsThere
<1>3. Len(text) = 5 /\ text[5] = plain
  BY DEF Sealed
<1>4. SubSeq(text, 1, 4) = <<"sealed", Rekey(d), m, aad>>
  <2>1. PICK key2 : key2 = Rekey(d)
    OBVIOUS
  <2>2. text = <<"sealed", key2, m, aad, plain>>
    BY <2>1 DEF Sealed
  <2>3. PICK t : t = SubSeq(text, 1, 4)
    OBVIOUS
  <2>4. /\ t = [i \in 1 .. 4 |-> text[i]]
    BY <2>2, <2>3
  <2>5. t = <<"sealed", key2, m, aad>>
    BY <2>2, <2>4
  <2> QED
    BY <2>1, <2>3, <2>5
<1>5. Sym(ck, h, key, n).cipher.key = key /\ Sym(ck, h, key, n).cipher.counter = n
  BY DEF Sym, Cipher
<1>6. PICK p : p = decrypt(Sym(ck, h, key, n).cipher, h, text)
  OBVIOUS
<1>7. p = IF <<"sealed", Rekey(d), m, aad>> = <<"sealed", key, n, h>> THEN <<plain>> ELSE None
  BY <1>2, <1>3, <1>4, <1>5, <1>6 DEF decrypt
<1>8. <<"sealed", Rekey(d), m, aad>> = <<"sealed", key, n, h>> <=> Rekey(d) = key /\ m = n /\ aad = h
  OBVIOUS
<1>9. Rekey(d) = Rekey(c) <=> c = d
  BY DEF Rekey
<1>10. <<plain>> # None
  BY DEF None
<1> QED
  BY <1>1, <1>6, <1>7, <1>8, <1>9, <1>10

\* One token of a message that is written: the ephemeral key, which in XXpsk3
\* goes into the chaining key too,
LEMMA WritesEphemeralXx ==
    ASSUME NEW x, x.pattern = "XxPsk3", NEW ck, NEW h, NEW key, NEW n, NEW rs, NEW re, NEW k, NEW out
    PROVE  WriteToken(Writing(Hs(x, Sym(ck, h, key, n), rs, re, k), out), "Ephemeral") =
             Writing(Hs(x, Sym(Append(ck, x.e), Append(h, x.e), Rekey(Append(ck, x.e)), 0), rs, re, k),
                     Append(out, x.e))
<1>1. PICK sym : sym = Sym(ck, h, key, n)
  OBVIOUS
<1>2. PICK hs : hs = Hs(x, sym, rs, re, k)
  OBVIOUS
<1>3. hs.sym = sym /\ hs.pattern = "XxPsk3" /\ hs.e = x.e
  BY <1>2 DEF Hs
<1>4. PICK new : new = mix_key(mix_hash(sym, x.e), x.e)
  OBVIOUS
<1>5. new = Sym(Append(ck, x.e), Append(h, x.e), Rekey(Append(ck, x.e)), 0)
  BY <1>1, <1>4, SymMixHash, SymMixKey
<1>6. MixEphemeral(hs, x.e) = Hs(x, new, rs, re, k)
  <2>1. MixEphemeral(hs, x.e) = [hs EXCEPT !.sym = new]
    BY <1>3, <1>4 DEF MixEphemeral
  <2> QED
    BY <1>2, <2>1 DEF Hs
<1>7. PICK st : st = Writing(hs, out)
  OBVIOUS
<1>8. st.hs = hs /\ st.out = out
  BY <1>7 DEF Writing
<1>9. WriteToken(st, "Ephemeral") = [hs |-> MixEphemeral(st.hs, st.hs.e), out |-> Append(st.out, st.hs.e)]
  BY DEF WriteToken
<1> QED
  BY <1>1, <1>2, <1>3, <1>5, <1>6, <1>7, <1>8, <1>9 DEF Writing
\* and in KK into the hash only;
LEMMA WritesEphemeralKk ==
    ASSUME NEW x, x.pattern = "Kk", NEW ck, NEW h, NEW key, NEW n, NEW rs, NEW re, NEW k, NEW out
    PROVE  WriteToken(Writing(Hs(x, Sym(ck, h, key, n), rs, re, k), out), "Ephemeral") =
             Writing(Hs(x, Sym(ck, Append(h, x.e), key, n), rs, re, k), Append(out, x.e))
<1>1. PICK sym : sym = Sym(ck, h, key, n)
  OBVIOUS
<1>2. PICK hs : hs = Hs(x, sym, rs, re, k)
  OBVIOUS
<1>3. hs.sym = sym /\ hs.pattern = "Kk" /\ hs.e = x.e
  BY <1>2 DEF Hs
<1>4. PICK new : new = mix_hash(sym, x.e)
  OBVIOUS
<1>5. new = Sym(ck, Append(h, x.e), key, n)
  BY <1>1, <1>4, SymMixHash
<1>6. MixEphemeral(hs, x.e) = Hs(x, new, rs, re, k)
  <2>1. MixEphemeral(hs, x.e) = [hs EXCEPT !.sym = new]
    BY <1>3, <1>4 DEF MixEphemeral
  <2> QED
    BY <1>2, <2>1 DEF Hs
<1>7. PICK st : st = Writing(hs, out)
  OBVIOUS
<1>8. st.hs = hs /\ st.out = out
  BY <1>7 DEF Writing
<1>9. WriteToken(st, "Ephemeral") = [hs |-> MixEphemeral(st.hs, st.hs.e), out |-> Append(st.out, st.hs.e)]
  BY DEF WriteToken
<1> QED
  BY <1>1, <1>2, <1>3, <1>5, <1>6, <1>7, <1>8, <1>9 DEF Writing
\* the static key, sealed;
LEMMA WritesStatic ==
    ASSUME NEW x, NEW ck, NEW h, NEW c, NEW n \in Nat, NEW rs, NEW re, NEW k, NEW out
    PROVE  WriteToken(Writing(Hs(x, Sym(ck, h, Rekey(c), n), rs, re, k), out), "StaticKey") =
             Writing(Hs(x, Sym(ck, Append(h, Mixed(c, n, x.s)), Rekey(c), n + 1), rs, re, k),
                     Append(out, Sealed(c, n, h, x.s)))
<1>1. PICK sym : sym = Sym(ck, h, Rekey(c), n)
  OBVIOUS
<1>2. PICK hs : hs = Hs(x, sym, rs, re, k)
  OBVIOUS
<1>3. hs.sym = sym /\ hs.s = x.s /\ sym.h = h
  BY <1>1, <1>2 DEF Hs, Sym
<1>4. PICK new : new = Hashed(sym, Sealed(c, n, h, x.s))
  OBVIOUS
<1>5. new = Sym(ck, Append(h, Mixed(c, n, x.s)), Rekey(c), n + 1)
  BY <1>1, <1>4, SymHashed
<1>6. encrypt(sym.cipher, sym.h, x.s) = Sealed(c, n, h, x.s)
  BY <1>1, <1>3, Seals
<1>7. PICK st : st = Writing(hs, out)
  OBVIOUS
<1>8. st.hs = hs /\ st.out = out
  BY <1>7 DEF Writing
<1>9. WriteToken(st, "StaticKey") = [hs |-> [hs EXCEPT !.sym = new], out |-> Append(out, Sealed(c, n, h, x.s))]
  BY <1>3, <1>4, <1>6, <1>8 DEF WriteToken
<1>10. [hs EXCEPT !.sym = new] = Hs(x, new, rs, re, k)
  BY <1>2 DEF Hs
<1> QED
  BY <1>1, <1>2, <1>5, <1>7, <1>9, <1>10 DEF Writing
\* and what both sides have in common, the same when it is read.
LEMMA MixesSecret ==
    ASSUME NEW x, NEW ck, NEW h, NEW key, NEW n, NEW rs, NEW re, NEW k, NEW token, NEW data,
           token # "Ephemeral", token # "StaticKey", token # "PresharedKey",
           NEW hs, hs = Hs(x, Sym(ck, h, key, n), rs, re, k), data = Material(hs, token)
    PROVE  MixSecret(hs, token) = Hs(x, Sym(Append(ck, data), h, Rekey(Append(ck, data)), 0), rs, re, k)
<1>1. PICK sym : sym = Sym(ck, h, key, n)
  OBVIOUS
<1>2. PICK new : new = mix_key(sym, data)
  OBVIOUS
<1>3. new = Sym(Append(ck, data), h, Rekey(Append(ck, data)), 0)
  BY <1>1, <1>2, SymMixKey
<1>4. hs.sym = sym
  BY <1>1 DEF Hs
<1>5. MixSecret(hs, token) = [hs EXCEPT !.sym = new]
  BY <1>2, <1>4 DEF MixSecret
<1>6. [hs EXCEPT !.sym = new] = Hs(x, new, rs, re, k)
  BY DEF Hs
<1> QED
  BY <1>3, <1>5, <1>6
LEMMA MixesPsk ==
    ASSUME NEW x, NEW ck, NEW h, NEW key, NEW n, NEW rs, NEW re, NEW k, NEW q, NEW c, x.psk = q, Append(ck, q) = c
    PROVE  MixSecret(Hs(x, Sym(ck, h, key, n), rs, re, k), "PresharedKey") =
             Hs(x, Sym(c, Append(h, MixedKey(c)), Rekey(c), 0), rs, re, k)
<1>1. PICK sym, hs : sym = Sym(ck, h, key, n) /\ hs = Hs(x, sym, rs, re, k)
  OBVIOUS
<1>2. PICK new : new = mix_key_and_hash(sym, x.psk)
  OBVIOUS
<1>3. new = Sym(c, Append(h, MixedKey(c)), Rekey(c), 0)
  <2>1. mix_key_and_hash(Sym(ck, h, key, n), q) =
          Sym(c, Append(h, MixedKey(c)), Rekey(c), 0)
    BY SymMixKeyAndHash
  <2> QED
    BY <1>1, <1>2, <2>1, Zenon
<1>4. hs.sym = sym /\ hs.psk = x.psk
  BY <1>1 DEF Hs
<1>5. MixSecret(hs, "PresharedKey") = [hs EXCEPT !.sym = new]
  BY <1>2, <1>4 DEF MixSecret
<1>6. [hs EXCEPT !.sym = new] = Hs(x, new, rs, re, k)
  BY <1>1 DEF Hs
<1> QED
  BY <1>1, <1>3, <1>5, <1>6
LEMMA WritesSecret ==
    ASSUME NEW hs, NEW out, NEW token, token \notin {"Ephemeral", "StaticKey"}
    PROVE  WriteToken(Writing(hs, out), token) = Writing(MixSecret(hs, token), out)
  BY DEF WriteToken, Writing
LEMMA ReadsSecret ==
    ASSUME NEW hs, NEW in, NEW token, token \notin {"Ephemeral", "StaticKey"}
    PROVE  ReadToken(Reading(hs, in), token) = Reading(MixSecret(hs, token), in)
  BY DEF ReadToken, Reading

\* Two fields of such a record are set.
Moved(st, u, i) == [st EXCEPT !.hs = u, !.in = i]
Advanced(hs, new, j) == [hs EXCEPT !.sym = new, !.message_index = j]
LEMMA ReadingMoves ==
    ASSUME NEW hs, NEW in, NEW u, NEW i
    PROVE  Moved(Reading(hs, in), u, i) = Reading(u, i)
<1>0. PICK no, st : no = FALSE /\ st = Reading(hs, in)
  OBVIOUS
<1>1. st = [hs |-> hs, in |-> in, err |-> no]
  BY <1>0, Zenon DEF Reading
<1>2. PICK r : r = [st EXCEPT !.hs = u]
  OBVIOUS
<1>3. r = [hs |-> u, in |-> in, err |-> no]
  BY ONLY <1>1, <1>2
<1>4. [st EXCEPT !.hs = u, !.in = i] = [r EXCEPT !.in = i]
  BY ONLY <1>1, <1>2
<1>5. [r EXCEPT !.in = i] = [hs |-> u, in |-> i, err |-> no]
  BY ONLY <1>3
<1> QED
  BY <1>0, <1>4, <1>5, Zenon DEF Reading, Moved
LEMMA HsMoves ==
    ASSUME NEW x, NEW sym, NEW rs, NEW re, NEW k, NEW new, NEW j
    PROVE  Advanced(Hs(x, sym, rs, re, k), new, j) = Hs(x, new, rs, re, j)
<1>0. PICK hs : hs = Hs(x, sym, rs, re, k)
  OBVIOUS
<1>1. PICK pattern, initiator, psk, s0, e : /\ pattern = x.pattern /\ initiator = x.initiator /\ psk = x.psk
                                           /\ s0 = x.s /\ e = x.e
  OBVIOUS
<1>2. hs = [sym |-> sym, pattern |-> pattern, initiator |-> initiator, psk |-> psk, s |-> s0, e |-> e,
            rs |-> rs, re |-> re, message_index |-> k]
  BY <1>0, <1>1, Zenon DEF Hs
<1>3. PICK r : r = [hs EXCEPT !.sym = new]
  OBVIOUS
<1>4. r = [sym |-> new, pattern |-> pattern, initiator |-> initiator, psk |-> psk, s |-> s0, e |-> e,
           rs |-> rs, re |-> re, message_index |-> k]
  BY ONLY <1>2, <1>3
<1>5. [hs EXCEPT !.sym = new, !.message_index = j] = [r EXCEPT !.message_index = j]
  BY ONLY <1>2, <1>3
<1>6. [r EXCEPT !.message_index = j] =
        [sym |-> new, pattern |-> pattern, initiator |-> initiator, psk |-> psk, s |-> s0, e |-> e,
         rs |-> rs, re |-> re, message_index |-> j]
  BY ONLY <1>4
<1> QED
  BY <1>0, <1>1, <1>5, <1>6, Zenon DEF Hs, Advanced

\* One token of a message that is read: the ephemeral key of the other side,
LEMMA ReadsEphemeralXx ==
    ASSUME NEW x, x.pattern = "XxPsk3", NEW ck, NEW h, NEW key, NEW n, NEW rs, NEW re, NEW k,
           NEW in, in # <<>>, NEW y, y = Head(in)
    PROVE  ReadToken(Reading(Hs(x, Sym(ck, h, key, n), rs, re, k), in), "Ephemeral") =
             Reading(Hs(x, Sym(Append(ck, y), Append(h, y), Rekey(Append(ck, y)), 0), rs, y, k), Tail(in))
<1>1. PICK sym : sym = Sym(ck, h, key, n)
  OBVIOUS
<1>2. PICK hs : hs = Hs(x, sym, rs, re, k)
  OBVIOUS
<1>3. PICK other : other = [hs EXCEPT !.re = y]
  OBVIOUS
<1>4. other = Hs(x, sym, rs, y, k)
  BY <1>2, <1>3 DEF Hs
<1>5. other.sym = sym /\ other.pattern = "XxPsk3"
  BY <1>4 DEF Hs
<1>6. PICK new : new = mix_key(mix_hash(sym, y), y)
  OBVIOUS
<1>7. new = Sym(Append(ck, y), Append(h, y), Rekey(Append(ck, y)), 0)
  BY <1>1, <1>6, SymMixHash, SymMixKey
<1>8. MixEphemeral(other, y) = Hs(x, new, rs, y, k)
  <2>1. MixEphemeral(other, y) = [other EXCEPT !.sym = new]
    BY <1>5, <1>6 DEF MixEphemeral
  <2> QED
    BY <1>4, <2>1 DEF Hs
<1>9. PICK st : st = Reading(hs, in)
  OBVIOUS
<1>10. st.hs = hs /\ st.in = in /\ st.err = FALSE
  BY <1>9 DEF Reading
<1>11. ReadToken(st, "Ephemeral") = [st EXCEPT !.hs = MixEphemeral(other, y), !.in = Tail(in)]
  BY <1>3, <1>10 DEF ReadToken
<1>12. Moved(st, MixEphemeral(other, y), Tail(in)) = Reading(MixEphemeral(other, y), Tail(in))
  BY <1>9, ReadingMoves
<1> QED
  BY <1>1, <1>2, <1>7, <1>8, <1>9, <1>11, <1>12, Zenon DEF Moved
LEMMA ReadsEphemeralKk ==
    ASSUME NEW x, x.pattern = "Kk", NEW ck, NEW h, NEW key, NEW n, NEW rs, NEW re, NEW k,
           NEW in, in # <<>>, NEW y, y = Head(in)
    PROVE  ReadToken(Reading(Hs(x, Sym(ck, h, key, n), rs, re, k), in), "Ephemeral") =
             Reading(Hs(x, Sym(ck, Append(h, y), key, n), rs, y, k), Tail(in))
<1>1. PICK sym : sym = Sym(ck, h, key, n)
  OBVIOUS
<1>2. PICK hs : hs = Hs(x, sym, rs, re, k)
  OBVIOUS
<1>3. PICK other : other = [hs EXCEPT !.re = y]
  OBVIOUS
<1>4. other = Hs(x, sym, rs, y, k)
  BY <1>2, <1>3 DEF Hs
<1>5. other.sym = sym /\ other.pattern = "Kk"
  BY <1>4 DEF Hs
<1>6. PICK new : new = mix_hash(sym, y)
  OBVIOUS
<1>7. new = Sym(ck, Append(h, y), key, n)
  BY <1>1, <1>6, SymMixHash
<1>8. MixEphemeral(other, y) = Hs(x, new, rs, y, k)
  <2>1. MixEphemeral(other, y) = [other EXCEPT !.sym = new]
    BY <1>5, <1>6 DEF MixEphemeral
  <2> QED
    BY <1>4, <2>1 DEF Hs
<1>9. PICK st : st = Reading(hs, in)
  OBVIOUS
<1>10. st.hs = hs /\ st.in = in /\ st.err = FALSE
  BY <1>9 DEF Reading
<1>11. ReadToken(st, "Ephemeral") = [st EXCEPT !.hs = MixEphemeral(other, y), !.in = Tail(in)]
  BY <1>3, <1>10 DEF ReadToken
<1>12. Moved(st, MixEphemeral(other, y), Tail(in)) = Reading(MixEphemeral(other, y), Tail(in))
  BY <1>9, ReadingMoves
<1> QED
  BY <1>1, <1>2, <1>7, <1>8, <1>9, <1>11, <1>12, Zenon DEF Moved

\* its static key, when it opens; once something did not, nothing is read any
\* more.
FailedToRead(st) == st.err = TRUE /\ "err" \in DOMAIN st
LEMMA ReadsStatic ==
    ASSUME NEW x, NEW ck, NEW h, NEW c, NEW n \in Nat, NEW rs, NEW re, NEW k, NEW in, in # <<>>,
           NEW plain, Head(in) = Sealed(c, n, h, plain)
    PROVE  ReadToken(Reading(Hs(x, Sym(ck, h, Rekey(c), n), rs, re, k), in), "StaticKey") =
             Reading(Hs(x, Sym(ck, Append(h, Mixed(c, n, plain)), Rekey(c), n + 1), plain, re, k), Tail(in))
<1>1. PICK sym : sym = Sym(ck, h, Rekey(c), n)
  OBVIOUS
<1>2. PICK hs : hs = Hs(x, sym, rs, re, k)
  OBVIOUS
<1>3. hs.sym = sym /\ sym.h = h
  BY <1>1, <1>2 DEF Hs, Sym
<1>4. PICK text : text = Head(in)
  OBVIOUS
<1>5. decrypt(sym.cipher, sym.h, text) = <<plain>>
  BY <1>1, <1>3, <1>4, Opens
<1>6. PICK new : new = Hashed(sym, text)
  OBVIOUS
<1>7. new = Sym(ck, Append(h, Mixed(c, n, plain)), Rekey(c), n + 1)
  BY <1>1, <1>4, <1>6, SymHashed
<1>8. PICK other : other = [hs EXCEPT !.rs = plain, !.sym = new]
  OBVIOUS
<1>9. other = Hs(x, new, plain, re, k)
  BY <1>2, <1>8 DEF Hs
<1>10. PICK st : st = Reading(hs, in)
  OBVIOUS
<1>11. st.hs = hs /\ st.in = in /\ st.err = FALSE
  BY <1>10 DEF Reading
<1>12. PICK p : p = decrypt(st.hs.sym.cipher, st.hs.sym.h, Head(st.in))
  OBVIOUS
<1>13. p = <<plain>> /\ p # None /\ p[1] = plain
  BY <1>3, <1>4, <1>5, <1>11, <1>12 DEF None
<1>14. ReadToken(st, "StaticKey") =
         [st EXCEPT !.hs = [st.hs EXCEPT !.rs = p[1], !.sym = Hashed(st.hs.sym, Head(st.in))], !.in = Tail(st.in)]
  <2>1. "StaticKey" # "Ephemeral" /\ st.in # <<>> /\ ~st.err
    BY <1>11
  <2>2. PICK done, refused :
          /\ done = [st EXCEPT !.hs = [st.hs EXCEPT !.rs = p[1], !.sym = Hashed(st.hs.sym, Head(st.in))],
                               !.in = Tail(st.in)]
          /\ refused = [st EXCEPT !.err = TRUE]
    OBVIOUS
  <2>3. ReadToken(st, "StaticKey") = ReadStatic(st)
    BY <2>1 DEF ReadToken
  <2>4. ReadStatic(st) = IF p = None THEN refused ELSE done
    BY <1>12, <2>2, Zenon DEF ReadStatic
  <2> QED
    BY <1>13, <2>2, <2>3, <2>4, Zenon
<1>15. ReadToken(st, "StaticKey") = [st EXCEPT !.hs = other, !.in = Tail(in)]
  BY <1>3, <1>4, <1>6, <1>8, <1>11, <1>13, <1>14, Zenon
<1>16. Moved(st, other, Tail(in)) = Reading(other, Tail(in))
  BY <1>10, ReadingMoves
<1> QED
  BY <1>1, <1>2, <1>7, <1>9, <1>10, <1>15, <1>16, Zenon DEF Moved
LEMMA ReadsNoStatic ==
    ASSUME NEW x, NEW sym, NEW rs, NEW re, NEW k, NEW in,
           in = <<>> \/ decrypt(sym.cipher, sym.h, Head(in)) = None
    PROVE  FailedToRead(ReadToken(Reading(Hs(x, sym, rs, re, k), in), "StaticKey"))
<1>1. PICK hs, st : hs = Hs(x, sym, rs, re, k) /\ st = Reading(hs, in)
  OBVIOUS
<1>2. hs.sym = sym
  BY <1>1 DEF Hs
<1>3. st.hs = hs /\ st.in = in /\ st.err = FALSE /\ "err" \in DOMAIN st
  BY <1>1 DEF Reading
<1>4. ReadToken(st, "StaticKey") = [st EXCEPT !.err = TRUE]
  <2>1. CASE in = <<>>
    BY <1>3, <2>1 DEF ReadToken
  <2>2. CASE in # <<>> /\ decrypt(sym.cipher, sym.h, Head(in)) = None
    <3>1. ReadToken(st, "StaticKey") = ReadStatic(st)
      BY <1>3, <2>2 DEF ReadToken
    <3>2. decrypt(st.hs.sym.cipher, st.hs.sym.h, Head(st.in)) = None
      BY <1>2, <1>3, <2>2, Zenon
    <3>3. ReadStatic(st) = [st EXCEPT !.err = TRUE]
      BY <3>2, Zenon DEF ReadStatic
    <3> QED
      BY <3>1, <3>3, Zenon
  <2> QED
    BY <2>1, <2>2
<1> QED
  BY <1>1, <1>3, <1>4 DEF FailedToRead
LEMMA ReadsNothing ==
    ASSUME NEW st, FailedToRead(st), NEW token
    PROVE  FailedToRead(ReadToken(st, token))
  BY DEF FailedToRead, ReadToken

\* The loops over one, three and four tokens.
LEMMA Writes1Tokens ==
    ASSUME NEW st, NEW a
    PROVE  WriteTokens(st, <<a>>) = WriteToken(st, a)
  BY DEF WriteTokens
LEMMA Writes3Tokens ==
    ASSUME NEW st, NEW a, NEW b, NEW c
    PROVE  WriteTokens(st, <<a, b, c>>) = WriteToken(WriteToken(WriteToken(st, a), b), c)
  BY DEF WriteTokens
LEMMA Writes4Tokens ==
    ASSUME NEW st, NEW a, NEW b, NEW c, NEW d
    PROVE  WriteTokens(st, <<a, b, c, d>>) = WriteToken(WriteToken(WriteToken(WriteToken(st, a), b), c), d)
  BY DEF WriteTokens
LEMMA Reads1Tokens ==
    ASSUME NEW st, NEW a
    PROVE  ReadTokens(st, <<a>>) = ReadToken(st, a)
  BY DEF ReadTokens
LEMMA Reads3Tokens ==
    ASSUME NEW st, NEW a, NEW b, NEW c
    PROVE  ReadTokens(st, <<a, b, c>>) = ReadToken(ReadToken(ReadToken(st, a), b), c)
  BY DEF ReadTokens
LEMMA Reads4Tokens ==
    ASSUME NEW st, NEW a, NEW b, NEW c, NEW d
    PROVE  ReadTokens(st, <<a, b, c, d>>) = ReadToken(ReadToken(ReadToken(ReadToken(st, a), b), c), d)
  BY DEF ReadTokens

\* The payload ends a message.
Payload == <<"payload">>
TokensOf(hs) == message_tokens(hs.pattern)[hs.message_index + 1]
Ended(x, ck, h, c, n, rs, re, k) ==
    Hs(x, Sym(ck, Append(h, Mixed(c, n, Payload)), Rekey(c), n + 1), rs, re, k + 1)
LEMMA WriteEnds ==
    ASSUME NEW hs, NEW x, NEW ck, NEW h, NEW c, NEW n \in Nat, NEW rs, NEW re, NEW k, NEW out,
           WriteTokens(Writing(hs, <<>>), TokensOf(hs)) = Writing(Hs(x, Sym(ck, h, Rekey(c), n), rs, re, k), out)
    PROVE  write_message(hs) = [hs |-> Ended(x, ck, h, c, n, rs, re, k),
                                message |-> Append(out, Sealed(c, n, h, Payload))]
<1>1. PICK end, e, sym : /\ end = WriteTokens([hs |-> hs, out |-> <<>>], message_tokens(hs.pattern)[hs.message_index + 1])
                         /\ sym = Sym(ck, h, Rekey(c), n) /\ e = Hs(x, sym, rs, re, k)
  OBVIOUS
<1>2. end = Writing(e, out)
  BY <1>1, Zenon DEF Writing, TokensOf
<1>3. end.hs = e /\ end.out = out
  BY <1>2 DEF Writing
<1>4. e.sym = sym /\ sym.h = h /\ e.message_index = k
  BY <1>1 DEF Hs, Sym
<1>5. PICK payload : payload = encrypt(end.hs.sym.cipher, end.hs.sym.h, <<"payload">>)
  OBVIOUS
<1>6. payload = Sealed(c, n, h, Payload)
  BY <1>1, <1>3, <1>4, <1>5, Seals DEF Payload
<1>7. PICK new : new = Hashed(sym, payload)
  OBVIOUS
<1>8. new = Sym(ck, Append(h, Mixed(c, n, Payload)), Rekey(c), n + 1)
  BY <1>1, <1>6, <1>7, SymHashed
<1>9. write_message(hs) = [hs |-> [end.hs EXCEPT !.sym = Hashed(end.hs.sym, payload),
                                                 !.message_index = end.hs.message_index + 1],
                           message |-> Append(end.out, payload)]
  BY <1>1, <1>5, Zenon DEF write_message
<1>10. Advanced(e, new, k + 1) = Hs(x, new, rs, re, k + 1)
  BY <1>1, HsMoves
<1> QED
  BY <1>3, <1>4, <1>6, <1>7, <1>8, <1>9, <1>10, Zenon DEF Ended, Advanced
LEMMA ReadEnds ==
    ASSUME NEW hs, ~is_complete(hs), ~local_writes_next(hs), NEW message, NEW end,
           end = ReadTokens(Reading(hs, message), TokensOf(hs)),
           NEW x, NEW ck, NEW h, NEW c, NEW n \in Nat, NEW rs, NEW re, NEW k, NEW text,
           end = Reading(Hs(x, Sym(ck, h, Rekey(c), n), rs, re, k), <<text>>),
           NEW d, NEW m, NEW aad, text = Sealed(d, m, aad, Payload), NEW r, r = read_message(hs, message)
    PROVE  /\ c = d /\ n = m /\ h = aad => r = <<Ended(x, ck, h, c, n, rs, re, k)>>
           /\ r # None => c = d /\ n = m /\ h = aad
<1>1. PICK e, sym : sym = Sym(ck, h, Rekey(c), n) /\ e = Hs(x, sym, rs, re, k)
  OBVIOUS
<1>2. end.hs = e /\ end.in = <<text>> /\ end.err = FALSE /\ Len(end.in) = 1 /\ end.in[1] = text
  <2>1. end = [hs |-> e, in |-> <<text>>, err |-> FALSE]
    BY <1>1, Zenon DEF Reading
  <2> QED
    BY ONLY <2>1
<1>3. e.sym = sym /\ sym.h = h /\ e.message_index = k
  BY <1>1 DEF Hs, Sym
<1>4. PICK p : p = decrypt(end.hs.sym.cipher, end.hs.sym.h, end.in[1])
  OBVIOUS
<1>5. p = decrypt(sym.cipher, h, text)
  BY <1>2, <1>3, <1>4
<1>6. /\ c = d /\ n = m /\ h = aad => p = <<Payload>>
      /\ p # None => p = <<Payload>> /\ c = d /\ n = m /\ h = aad
  BY <1>1, <1>5, Opens
<1>7. <<Payload>> # None
  BY DEF None
<1>8. r = IF end.err \/ Len(end.in) # 1 THEN None
          ELSE IF decrypt(end.hs.sym.cipher, end.hs.sym.h, end.in[1]) = None THEN None
          ELSE <<[end.hs EXCEPT !.sym = Hashed(end.hs.sym, end.in[1]), !.message_index = end.hs.message_index + 1]>>
  BY Zenon DEF read_message, Reading, TokensOf
<1>9. r = IF p = None THEN None ELSE <<[e EXCEPT !.sym = Hashed(sym, text), !.message_index = k + 1]>>
  BY <1>2, <1>3, <1>4, <1>8, Zenon
<1>10. ASSUME c = d, n = m, h = aad PROVE r = <<Ended(x, ck, h, c, n, rs, re, k)>>
  <2>1. PICK new : new = Hashed(sym, text)
    OBVIOUS
  <2>2. text = Sealed(c, n, aad, Payload)
    BY <1>10, Zenon
  <2>3. new = Sym(ck, Append(h, Mixed(c, n, Payload)), Rekey(c), n + 1)
    BY <1>1, <2>1, <2>2, SymHashed
  <2>4. Advanced(e, new, k + 1) = Hs(x, new, rs, re, k + 1)
    BY <1>1, HsMoves
  <2>5. r = <<[e EXCEPT !.sym = new, !.message_index = k + 1]>>
    BY <1>6, <1>7, <1>9, <1>10, <2>1, Zenon
  <2> QED
    BY <2>3, <2>4, <2>5, Zenon DEF Ended, Advanced
<1> QED
  BY <1>6, <1>9, <1>10, Zenon
LEMMA ReadFails ==
    ASSUME NEW hs, NEW message, FailedToRead(ReadTokens(Reading(hs, message), TokensOf(hs)))
    PROVE  read_message(hs, message) = None
<1>1. PICK end : end = ReadTokens([hs |-> hs, in |-> message, err |-> FALSE], message_tokens(hs.pattern)[hs.message_index + 1])
  OBVIOUS
<1>2. end.err = TRUE
  BY <1>1, Zenon DEF FailedToRead, Reading, TokensOf
<1>3. read_message(hs, message) = IF is_complete(hs) \/ local_writes_next(hs) THEN None
        ELSE IF end.err \/ Len(end.in) # 1 THEN None
        ELSE IF decrypt(end.hs.sym.cipher, end.hs.sym.h, end.in[1]) = None THEN None
        ELSE <<[end.hs EXCEPT !.sym = Hashed(end.hs.sym, end.in[1]), !.message_index = end.hs.message_index + 1]>>
  BY <1>1, Zenon DEF read_message
<1> QED
  BY <1>2, <1>3, Zenon

\* Tuples that grow.
LEMMA Grows2 ==
    ASSUME NEW a, NEW b
    PROVE  Append(<<a>>, b) = <<a, b>>
<1>1. PICK S, t, z, v : S = {a, b} /\ t = <<a>> /\ z = <<a, b>> /\ v = Append(t, b)
  OBVIOUS
<1>2. t \in Seq(S) /\ Len(t) = 1 /\ t[1] = a
  BY <1>1
<1>3. z \in Seq(S) /\ Len(z) = 2 /\ z[1] = a /\ z[2] = b
  BY <1>1
<1>4. v \in Seq(S) /\ Len(v) = 2 /\ v[1] = a /\ v[2] = b
  BY <1>1, <1>2
<1>5. z = v
  BY <1>3, <1>4
<1> QED
  BY <1>1, <1>5
LEMMA Grows3 ==
    ASSUME NEW a, NEW b, NEW c
    PROVE  Append(<<a, b>>, c) = <<a, b, c>>
<1>1. PICK S, t, z, v : S = {a, b, c} /\ t = <<a, b>> /\ z = <<a, b, c>> /\ v = Append(t, c)
  OBVIOUS
<1>2. t \in Seq(S) /\ Len(t) = 2 /\ t[1] = a /\ t[2] = b
  BY <1>1
<1>3. z \in Seq(S) /\ Len(z) = 3 /\ z[1] = a /\ z[2] = b /\ z[3] = c
  BY <1>1
<1>4. v \in Seq(S) /\ Len(v) = 3 /\ v[1] = a /\ v[2] = b /\ v[3] = c
  BY <1>1, <1>2
<1>5. z = v
  BY <1>3, <1>4
<1> QED
  BY <1>1, <1>5
LEMMA Grows4 ==
    ASSUME NEW a, NEW b, NEW c, NEW d
    PROVE  Append(<<a, b, c>>, d) = <<a, b, c, d>>
<1>1. PICK S, t, z, v : S = {a, b, c, d} /\ t = <<a, b, c>> /\ z = <<a, b, c, d>> /\ v = Append(t, d)
  OBVIOUS
<1>2. t \in Seq(S) /\ Len(t) = 3 /\ t[1] = a /\ t[2] = b /\ t[3] = c
  BY <1>1
<1>3. z \in Seq(S) /\ Len(z) = 4 /\ z[1] = a /\ z[2] = b /\ z[3] = c /\ z[4] = d
  BY <1>1
<1>4. v \in Seq(S) /\ Len(v) = 4 /\ v[1] = a /\ v[2] = b /\ v[3] = c /\ v[4] = d
  BY <1>1, <1>2
<1>5. z = v
  BY <1>3, <1>4
<1> QED
  BY <1>1, <1>5
LEMMA Grows5 ==
    ASSUME NEW a, NEW b, NEW c, NEW d, NEW e
    PROVE  Append(<<a, b, c, d>>, e) = <<a, b, c, d, e>>
<1>1. PICK S, t, z, v : S = {a, b, c, d, e} /\ t = <<a, b, c, d>> /\ z = <<a, b, c, d, e>> /\ v = Append(t, e)
  OBVIOUS
<1>2. t \in Seq(S) /\ Len(t) = 4 /\ t[1] = a /\ t[2] = b /\ t[3] = c /\ t[4] = d
  BY <1>1
<1>3. z \in Seq(S) /\ Len(z) = 5 /\ z[1] = a /\ z[2] = b /\ z[3] = c /\ z[4] = d /\ z[5] = e
  BY <1>1
<1>4. v \in Seq(S) /\ Len(v) = 5 /\ v[1] = a /\ v[2] = b /\ v[3] = c /\ v[4] = d /\ v[5] = e
  BY <1>1, <1>2
<1>5. z = v
  BY <1>3, <1>4
<1> QED
  BY <1>1, <1>5
LEMMA Grows6 ==
    ASSUME NEW a, NEW b, NEW c, NEW d, NEW e, NEW f
    PROVE  Append(<<a, b, c, d, e>>, f) = <<a, b, c, d, e, f>>
<1>1. PICK S, t, z, v : S = {a, b, c, d, e, f} /\ t = <<a, b, c, d, e>> /\ z = <<a, b, c, d, e, f>> /\ v = Append(t, f)
  OBVIOUS
<1>2. t \in Seq(S) /\ Len(t) = 5 /\ t[1] = a /\ t[2] = b /\ t[3] = c /\ t[4] = d /\ t[5] = e
  BY <1>1
<1>3. z \in Seq(S) /\ Len(z) = 6 /\ z[1] = a /\ z[2] = b /\ z[3] = c /\ z[4] = d /\ z[5] = e /\ z[6] = f
  BY <1>1
<1>4. v \in Seq(S) /\ Len(v) = 6 /\ v[1] = a /\ v[2] = b /\ v[3] = c /\ v[4] = d /\ v[5] = e /\ v[6] = f
  BY <1>1, <1>2
<1>5. z = v
  BY <1>3, <1>4
<1> QED
  BY <1>1, <1>5
LEMMA Grows7 ==
    ASSUME NEW a, NEW b, NEW c, NEW d, NEW e, NEW f, NEW g
    PROVE  Append(<<a, b, c, d, e, f>>, g) = <<a, b, c, d, e, f, g>>
<1>1. PICK S, t, z, v : S = {a, b, c, d, e, f, g} /\ t = <<a, b, c, d, e, f>> /\ z = <<a, b, c, d, e, f, g>> /\ v = Append(t, g)
  OBVIOUS
<1>2. t \in Seq(S) /\ Len(t) = 6 /\ t[1] = a /\ t[2] = b /\ t[3] = c /\ t[4] = d /\ t[5] = e /\ t[6] = f
  BY <1>1
<1>3. z \in Seq(S) /\ Len(z) = 7 /\ z[1] = a /\ z[2] = b /\ z[3] = c /\ z[4] = d /\ z[5] = e /\ z[6] = f /\ z[7] = g
  BY <1>1
<1>4. v \in Seq(S) /\ Len(v) = 7 /\ v[1] = a /\ v[2] = b /\ v[3] = c /\ v[4] = d /\ v[5] = e /\ v[6] = f /\ v[7] = g
  BY <1>1, <1>2
<1>5. z = v
  BY <1>3, <1>4
<1> QED
  BY <1>1, <1>5

\* A party of XXpsk3; whose turn it is, and what the message consists of.
Party(x) == x.pattern = "XxPsk3" /\ x.initiator \in BOOLEAN
LEMMA Turns ==
    ASSUME NEW x, Party(x), NEW sym, NEW rs, NEW re, NEW k \in 0 .. 2, NEW hs, hs = Hs(x, sym, rs, re, k)
    PROVE  /\ ~is_complete(hs)
           /\ k # 1 /\ ~x.initiator => ~local_writes_next(hs)
           /\ k = 1 /\ x.initiator => ~local_writes_next(hs)
           /\ k = 0 => TokensOf(hs) = <<"Ephemeral">>
           /\ k = 1 => TokensOf(hs) = <<"Ephemeral", "EphemeralEphemeral", "StaticKey", "EphemeralStatic">>
           /\ k = 2 => TokensOf(hs) = <<"StaticKey", "StaticEphemeral", "PresharedKey">>
<1>1. hs.pattern = "XxPsk3" /\ hs.message_index = k /\ hs.initiator = x.initiator
  BY DEF Party, Hs
<1>2. Len(message_tokens(hs.pattern)) = 3
  BY <1>1 DEF message_tokens
<1>3. ~is_complete(hs)
  <2>1. PICK n : n = Len(message_tokens(hs.pattern))
    OBVIOUS
  <2>2. is_complete(hs) <=> k >= n
    BY <1>1, <2>1, Zenon DEF is_complete
  <2>3. ~(k >= n)
    BY <1>2, <2>1
  <2> QED
    BY <2>2, <2>3, Zenon
<1>4. /\ k = 0 => TokensOf(hs) = <<"Ephemeral">>
      /\ k = 1 => TokensOf(hs) = <<"Ephemeral", "EphemeralEphemeral", "StaticKey", "EphemeralStatic">>
      /\ k = 2 => TokensOf(hs) = <<"StaticKey", "StaticEphemeral", "PresharedKey">>
  BY <1>1 DEF message_tokens, TokensOf
<1>5. /\ k # 1 /\ ~x.initiator => ~local_writes_next(hs)
      /\ k = 1 /\ x.initiator => ~local_writes_next(hs)
  <2>1. (k % 2 = 0) <=> (k # 1)
    OBVIOUS
  <2>2. local_writes_next(hs) = ((hs.message_index % 2 = 0) = hs.initiator)
    BY Zenon DEF local_writes_next
  <2>3. local_writes_next(hs) <=> ((k # 1) <=> x.initiator)
    BY <1>1, <2>1, <2>2, Zenon DEF Party
  <2> QED
    BY <2>3, Zenon
<1> QED
  BY <1>3, <1>4, <1>5, Zenon

\* The chaining keys and the hashes of XXpsk3, from the prologue p, the
\* ephemeral keys i and r, the static keys t of the responder and u of the
\* initiator, and the secret q.
C1(i) == <<PAIRING_SUITE, i>>
C2(i, r) == <<PAIRING_SUITE, i, r>>
C3(i, r) == <<PAIRING_SUITE, i, r, diffie_hellman(i, r)>>
C4(i, r, t) == <<PAIRING_SUITE, i, r, diffie_hellman(i, r), diffie_hellman(i, t)>>
C5(i, r, t, u) ==
    <<PAIRING_SUITE, i, r, diffie_hellman(i, r), diffie_hellman(i, t), diffie_hellman(u, r)>>
C6(i, r, t, u, q) ==
    <<PAIRING_SUITE, i, r, diffie_hellman(i, r), diffie_hellman(i, t), diffie_hellman(u, r), q>>
H0(p) == <<PAIRING_SUITE, p>>
H1(p, i) == <<PAIRING_SUITE, p, i>>
G1(p, i) == Append(H1(p, i), Mixed(C1(i), 0, Payload))
H2(p, i, r) == Append(G1(p, i), r)
H3(p, i, r, t) == Append(H2(p, i, r), Mixed(C3(i, r), 0, t))
G2(p, i, r, t) == Append(H3(p, i, r, t), Mixed(C4(i, r, t), 0, Payload))
H4(p, i, r, t, u) == Append(G2(p, i, r, t), Mixed(C4(i, r, t), 1, u))
H5(p, i, r, t, u, q) == Append(H4(p, i, r, t, u), MixedKey(C6(i, r, t, u, q)))
G3(p, i, r, t, u, q) == Append(H5(p, i, r, t, u, q), Mixed(C6(i, r, t, u, q), 0, Payload))

\* A side after each of the three messages, and the messages.
Start(x, p) == Hs(x, Sym(<<PAIRING_SUITE>>, H0(p), None, 0), None, None, 0)
After1(x, p, i, re) == Hs(x, Sym(C1(i), G1(p, i), Rekey(C1(i)), 1), None, re, 1)
After2(x, p, i, r, t, rs, re) == Hs(x, Sym(C4(i, r, t), G2(p, i, r, t), Rekey(C4(i, r, t)), 1), rs, re, 2)
After3(x, p, i, r, t, u, q, rs, re) ==
    Hs(x, Sym(C6(i, r, t, u, q), G3(p, i, r, t, u, q), Rekey(C6(i, r, t, u, q)), 1), rs, re, 3)
Msg1(p, i) == <<i, Sealed(C1(i), 0, H1(p, i), Payload)>>
Msg2(p, i, r, t) == <<r, Sealed(C3(i, r), 0, H2(p, i, r), t), Sealed(C4(i, r, t), 0, H3(p, i, r, t), Payload)>>
Msg3(p, i, r, t, u, q) ==
    <<Sealed(C4(i, r, t), 1, G2(p, i, r, t), u), Sealed(C6(i, r, t, u, q), 0, H5(p, i, r, t, u, q), Payload)>>

\* The first message is written,
LEMMA Writes1 ==
    ASSUME NEW x, Party(x), NEW p
    PROVE  write_message(Start(x, p)) = [hs |-> After1(x, p, x.e, None), message |-> Msg1(p, x.e)]
<1>1. PICK hs, sym, i : sym = Sym(<<PAIRING_SUITE>>, H0(p), None, 0) /\ hs = Hs(x, sym, None, None, 0) /\ i = x.e
  OBVIOUS
<1>2. TokensOf(hs) = <<"Ephemeral">>
  BY <1>1, Turns
<1>3. Append(<<PAIRING_SUITE>>, i) = C1(i) /\ Append(H0(p), i) = H1(p, i) /\ Append(<<>>, i) = <<i>>
  BY Grows2, Grows3 DEF C1, H0, H1
<1>4. WriteTokens(Writing(hs, <<>>), TokensOf(hs)) = WriteToken(Writing(hs, <<>>), "Ephemeral")
  BY <1>2, Writes1Tokens
<1>5. WriteToken(Writing(hs, <<>>), "Ephemeral") =
        Writing(Hs(x, Sym(C1(i), H1(p, i), Rekey(C1(i)), 0), None, None, 0), <<i>>)
  <2>1. x.pattern = "XxPsk3"
    BY DEF Party
  <2>2. PICK ck, h, key, out : ck = <<PAIRING_SUITE>> /\ h = H0(p) /\ key = None /\ out = <<>>
    OBVIOUS
  <2>3. WriteToken(Writing(Hs(x, Sym(ck, h, key, 0), None, None, 0), out), "Ephemeral") =
          Writing(Hs(x, Sym(Append(ck, x.e), Append(h, x.e), Rekey(Append(ck, x.e)), 0), None, None, 0),
                  Append(out, x.e))
    BY <2>1, WritesEphemeralXx
  <2> QED
    BY <1>1, <1>3, <2>2, <2>3, Zenon
<1>6. write_message(hs) = [hs |-> Ended(x, C1(i), H1(p, i), C1(i), 0, None, None, 0),
                           message |-> Append(<<i>>, Sealed(C1(i), 0, H1(p, i), Payload))]
  BY <1>4, <1>5, WriteEnds
<1>7. Append(<<i>>, Sealed(C1(i), 0, H1(p, i), Payload)) = Msg1(p, i)
  BY Grows2 DEF Msg1
<1>8. Ended(x, C1(i), H1(p, i), C1(i), 0, None, None, 0) = After1(x, p, i, None)
  BY DEF Ended, After1, G1
<1> QED
  BY <1>1, <1>6, <1>7, <1>8 DEF Start
\* and read: whatever has its shape is accepted exactly when the hashes agree.
LEMMA Reads1 ==
    ASSUME NEW y, Party(y), ~y.initiator, NEW p, NEW i, NEW d, NEW aad,
           NEW m, m = read_message(Start(y, p), <<i, Sealed(d, 0, aad, Payload)>>), m # None
    PROVE  d = C1(i) /\ aad = H1(p, i) /\ m = <<After1(y, p, i, i)>>
<1>1. PICK hs, sym, message, text : /\ sym = Sym(<<PAIRING_SUITE>>, H0(p), None, 0) /\ hs = Hs(y, sym, None, None, 0)
                                    /\ text = Sealed(d, 0, aad, Payload) /\ message = <<i, text>>
  OBVIOUS
<1>2. TokensOf(hs) = <<"Ephemeral">> /\ ~is_complete(hs) /\ ~local_writes_next(hs)
  BY <1>1, Turns
<1>3. Append(<<PAIRING_SUITE>>, i) = C1(i) /\ Append(H0(p), i) = H1(p, i)
  BY Grows2, Grows3 DEF C1, H0, H1
<1>4. message # <<>> /\ Head(message) = i /\ Tail(message) = <<text>>
  BY <1>1
<1>5. ReadTokens(Reading(hs, message), TokensOf(hs)) = ReadToken(Reading(hs, message), "Ephemeral")
  BY <1>2, Reads1Tokens
<1>6. ReadToken(Reading(hs, message), "Ephemeral") =
        Reading(Hs(y, Sym(C1(i), H1(p, i), Rekey(C1(i)), 0), None, i, 0), <<text>>)
  <2>1. y.pattern = "XxPsk3"
    BY DEF Party
  <2>2. ReadToken(Reading(Hs(y, Sym(<<PAIRING_SUITE>>, H0(p), None, 0), None, None, 0), message), "Ephemeral") =
          Reading(Hs(y, Sym(Append(<<PAIRING_SUITE>>, i), Append(H0(p), i),
                            Rekey(Append(<<PAIRING_SUITE>>, i)), 0), None, i, 0), Tail(message))
    BY <1>4, <2>1, ReadsEphemeralXx
  <2> QED
    BY <1>1, <1>3, <1>4, <2>2, Zenon
<1>7. m = read_message(hs, message)
  BY <1>1 DEF Start
<1>8. /\ C1(i) = d /\ H1(p, i) = aad => m = <<Ended(y, C1(i), H1(p, i), C1(i), 0, None, i, 0)>>
      /\ m # None => C1(i) = d /\ H1(p, i) = aad
  BY <1>1, <1>2, <1>5, <1>6, <1>7, ReadEnds
<1>9. Ended(y, C1(i), H1(p, i), C1(i), 0, None, i, 0) = After1(y, p, i, i)
  BY DEF Ended, After1, G1
<1> QED
  BY <1>8, <1>9

\* Both sides of a Diffie-Hellman secret have the same.
LEMMA DhSymmetric ==
    ASSUME NEW a, NEW b
    PROVE  diffie_hellman(a, b) = diffie_hellman(b, a)
<1>1. {a, b} = {b, a}
  OBVIOUS
<1> QED
  BY <1>1, Zenon DEF diffie_hellman
LEMMA Materials ==
    ASSUME NEW x, NEW sym, NEW rs, NEW re, NEW k, NEW hs, hs = Hs(x, sym, rs, re, k)
    PROVE  /\ Material(hs, "EphemeralEphemeral") = diffie_hellman(x.e, re)
           /\ Material(hs, "EphemeralStatic") = IF x.initiator THEN diffie_hellman(x.e, rs) ELSE diffie_hellman(x.s, re)
           /\ Material(hs, "StaticEphemeral") = IF x.initiator THEN diffie_hellman(x.s, re) ELSE diffie_hellman(x.e, rs)
           /\ Material(hs, "StaticStatic") = diffie_hellman(x.s, rs)
<1>1. hs.e = x.e /\ hs.re = re /\ hs.rs = rs /\ hs.s = x.s /\ hs.initiator = x.initiator
  BY DEF Hs
<1> QED
  BY <1>1 DEF Material

\* A token that mixes a secret, written or read.
LEMMA WritesMixed ==
    ASSUME NEW x, NEW ck, NEW h, NEW key, NEW n, NEW rs, NEW re, NEW k, NEW token, NEW data, NEW out, NEW c,
           token # "Ephemeral", token # "StaticKey", token # "PresharedKey",
           Material(Hs(x, Sym(ck, h, key, n), rs, re, k), token) = data, c = Append(ck, data)
    PROVE  WriteToken(Writing(Hs(x, Sym(ck, h, key, n), rs, re, k), out), token) =
             Writing(Hs(x, Sym(c, h, Rekey(c), 0), rs, re, k), out)
<1>1. PICK hs : hs = Hs(x, Sym(ck, h, key, n), rs, re, k)
  OBVIOUS
<1>2. token \notin {"Ephemeral", "StaticKey"}
  OBVIOUS
<1>3. MixSecret(hs, token) = Hs(x, Sym(c, h, Rekey(c), 0), rs, re, k)
  BY <1>1, MixesSecret
<1>4. WriteToken(Writing(hs, out), token) = Writing(MixSecret(hs, token), out)
  BY <1>2, WritesSecret
<1> QED
  BY <1>1, <1>3, <1>4, Zenon
LEMMA ReadsMixed ==
    ASSUME NEW x, NEW ck, NEW h, NEW key, NEW n, NEW rs, NEW re, NEW k, NEW token, NEW data, NEW out, NEW c,
           token # "Ephemeral", token # "StaticKey", token # "PresharedKey",
           Material(Hs(x, Sym(ck, h, key, n), rs, re, k), token) = data, c = Append(ck, data)
    PROVE  ReadToken(Reading(Hs(x, Sym(ck, h, key, n), rs, re, k), out), token) =
             Reading(Hs(x, Sym(c, h, Rekey(c), 0), rs, re, k), out)
<1>1. PICK hs : hs = Hs(x, Sym(ck, h, key, n), rs, re, k)
  OBVIOUS
<1>2. token \notin {"Ephemeral", "StaticKey"}
  OBVIOUS
<1>3. MixSecret(hs, token) = Hs(x, Sym(c, h, Rekey(c), 0), rs, re, k)
  BY <1>1, MixesSecret
<1>4. ReadToken(Reading(hs, out), token) = Reading(MixSecret(hs, token), out)
  BY <1>2, ReadsSecret
<1> QED
  BY <1>1, <1>3, <1>4, Zenon
LEMMA WritesPsk ==
    ASSUME NEW x, NEW ck, NEW h, NEW key, NEW n, NEW rs, NEW re, NEW k, NEW out, NEW q, NEW c,
           x.psk = q, Append(ck, q) = c
    PROVE  WriteToken(Writing(Hs(x, Sym(ck, h, key, n), rs, re, k), out), "PresharedKey") =
             Writing(Hs(x, Sym(c, Append(h, MixedKey(c)), Rekey(c), 0), rs, re, k), out)
<1>1. PICK hs, token : hs = Hs(x, Sym(ck, h, key, n), rs, re, k) /\ token = "PresharedKey"
  OBVIOUS
<1>2. token \notin {"Ephemeral", "StaticKey"}
  BY <1>1
<1>3. MixSecret(hs, token) = Hs(x, Sym(c, Append(h, MixedKey(c)), Rekey(c), 0), rs, re, k)
  <2>1. MixSecret(Hs(x, Sym(ck, h, key, n), rs, re, k), "PresharedKey") =
          Hs(x, Sym(c, Append(h, MixedKey(c)), Rekey(c), 0), rs, re, k)
    BY MixesPsk
  <2> QED
    BY <1>1, <2>1, Zenon
<1>4. WriteToken(Writing(hs, out), token) = Writing(MixSecret(hs, token), out)
  BY <1>2, WritesSecret
<1> QED
  BY <1>1, <1>3, <1>4, Zenon
LEMMA ReadsPsk ==
    ASSUME NEW x, NEW ck, NEW h, NEW key, NEW n, NEW rs, NEW re, NEW k, NEW out, NEW q, NEW c,
           x.psk = q, Append(ck, q) = c
    PROVE  ReadToken(Reading(Hs(x, Sym(ck, h, key, n), rs, re, k), out), "PresharedKey") =
             Reading(Hs(x, Sym(c, Append(h, MixedKey(c)), Rekey(c), 0), rs, re, k), out)
<1>1. PICK hs, token : hs = Hs(x, Sym(ck, h, key, n), rs, re, k) /\ token = "PresharedKey"
  OBVIOUS
<1>2. token \notin {"Ephemeral", "StaticKey"}
  BY <1>1
<1>3. MixSecret(hs, token) = Hs(x, Sym(c, Append(h, MixedKey(c)), Rekey(c), 0), rs, re, k)
  <2>1. MixSecret(Hs(x, Sym(ck, h, key, n), rs, re, k), "PresharedKey") =
          Hs(x, Sym(c, Append(h, MixedKey(c)), Rekey(c), 0), rs, re, k)
    BY MixesPsk
  <2> QED
    BY <1>1, <2>1, Zenon
<1>4. ReadToken(Reading(hs, out), token) = Reading(MixSecret(hs, token), out)
  BY <1>2, ReadsSecret
<1> QED
  BY <1>1, <1>3, <1>4, Zenon

\* The chaining keys, as they are mixed.
LEMMA ChainingKeys ==
    ASSUME NEW i, NEW r, NEW t, NEW z, NEW q
    PROVE  /\ Append(C1(i), r) = C2(i, r)
           /\ Append(C2(i, r), diffie_hellman(i, r)) = C3(i, r)
           /\ Append(C3(i, r), diffie_hellman(i, t)) = C4(i, r, t)
           /\ Append(C4(i, r, t), diffie_hellman(z, r)) = C5(i, r, t, z)
           /\ Append(C5(i, r, t, z), q) = C6(i, r, t, z, q)
<1>1. PICK ee, es, se : ee = diffie_hellman(i, r) /\ es = diffie_hellman(i, t) /\ se = diffie_hellman(z, r)
  OBVIOUS
<1>2. Append(C1(i), r) = C2(i, r)
  BY Grows3 DEF C1, C2
<1>3. Append(C2(i, r), ee) = C3(i, r)
  BY <1>1, Grows4 DEF C2, C3
<1>4. Append(C3(i, r), es) = C4(i, r, t)
  BY <1>1, Grows5 DEF C3, C4
<1>5. Append(C4(i, r, t), se) = C5(i, r, t, z)
  BY <1>1, Grows6 DEF C4, C5
<1>6. Append(C5(i, r, t, z), q) = C6(i, r, t, z, q)
  BY Grows7 DEF C5, C6
<1> QED
  BY <1>1, <1>2, <1>3, <1>4, <1>5, <1>6

\* The second message is written,
LEMMA Writes2 ==
    ASSUME NEW y, Party(y), ~y.initiator, NEW p, NEW i
    PROVE  write_message(After1(y, p, i, i)) =
             [hs |-> After2(y, p, i, y.e, y.s, None, i), message |-> Msg2(p, i, y.e, y.s)]
<1>1. PICK r, t, c1, c2, c3, c4, g1, h2, h3, no :
        /\ r = y.e /\ t = y.s /\ c1 = C1(i) /\ c2 = C2(i, r) /\ c3 = C3(i, r) /\ c4 = C4(i, r, t)
        /\ g1 = G1(p, i) /\ h2 = H2(p, i, r) /\ h3 = H3(p, i, r, t) /\ no = None
  OBVIOUS
<1>2. /\ Append(c1, r) = c2 /\ Append(c2, diffie_hellman(i, r)) = c3 /\ Append(c3, diffie_hellman(i, t)) = c4
  BY <1>1, ChainingKeys
<1>3. Append(g1, r) = h2 /\ Append(h2, Mixed(c3, 0, t)) = h3
  BY <1>1, Zenon DEF H2, H3
<1>4. y.pattern = "XxPsk3"
  BY DEF Party
<1>5. PICK s1, s2, s3, s4 : /\ s1 = Hs(y, Sym(c1, g1, Rekey(c1), 1), no, i, 1)
                            /\ s2 = Hs(y, Sym(c2, h2, Rekey(c2), 0), no, i, 1)
                            /\ s3 = Hs(y, Sym(c3, h2, Rekey(c3), 0), no, i, 1)
                            /\ s4 = Hs(y, Sym(c3, h3, Rekey(c3), 1), no, i, 1)
  OBVIOUS
<1>6. TokensOf(s1) = <<"Ephemeral", "EphemeralEphemeral", "StaticKey", "EphemeralStatic">>
  BY <1>5, Turns
<1>7. PICK out, f1 : out = <<>> /\ f1 = Append(out, r)
  OBVIOUS
<1>8. WriteToken(Writing(s1, out), "Ephemeral") = Writing(s2, f1)
  <2>1. WriteToken(Writing(Hs(y, Sym(c1, g1, Rekey(c1), 1), no, i, 1), out), "Ephemeral") =
          Writing(Hs(y, Sym(Append(c1, y.e), Append(g1, y.e), Rekey(Append(c1, y.e)), 0), no, i, 1), Append(out, y.e))
    BY <1>4, WritesEphemeralXx
  <2> QED
    BY <1>1, <1>2, <1>3, <1>5, <1>7, <2>1, Zenon
<1>9. WriteToken(Writing(s2, f1), "EphemeralEphemeral") = Writing(s3, f1)
  <2>1. Material(s2, "EphemeralEphemeral") = diffie_hellman(r, i)
    BY <1>1, <1>5, Materials
  <2> QED
    BY <1>2, <1>5, <2>1, DhSymmetric, WritesMixed
<1>10. PICK f2 : f2 = Append(f1, Sealed(c3, 0, h2, t))
  OBVIOUS
<1>11. WriteToken(Writing(s3, f1), "StaticKey") = Writing(s4, f2)
  <2>1. 0 \in Nat /\ 0 + 1 = 1
    OBVIOUS
  <2>2. WriteToken(Writing(Hs(y, Sym(c3, h2, Rekey(c3), 0), no, i, 1), f1), "StaticKey") =
          Writing(Hs(y, Sym(c3, Append(h2, Mixed(c3, 0, y.s)), Rekey(c3), 0 + 1), no, i, 1),
                  Append(f1, Sealed(c3, 0, h2, y.s)))
    BY <2>1, WritesStatic
  <2> QED
    BY <1>1, <1>3, <1>5, <1>10, <2>1, <2>2, Zenon
<1>12. WriteToken(Writing(s4, f2), "EphemeralStatic") = Writing(Hs(y, Sym(c4, h3, Rekey(c4), 0), no, i, 1), f2)
  <2>1. Material(s4, "EphemeralStatic") = diffie_hellman(t, i)
    BY <1>1, <1>5, Materials
  <2> QED
    BY <1>2, <1>5, <2>1, DhSymmetric, WritesMixed
<1>13. WriteTokens(Writing(s1, out), TokensOf(s1)) = Writing(Hs(y, Sym(c4, h3, Rekey(c4), 0), no, i, 1), f2)
  BY <1>6, <1>8, <1>9, <1>11, <1>12, Writes4Tokens
<1>14. write_message(s1) = [hs |-> Ended(y, c4, h3, c4, 0, no, i, 1),
                            message |-> Append(f2, Sealed(c4, 0, h3, Payload))]
  BY <1>7, <1>13, WriteEnds
<1>15. Ended(y, c4, h3, c4, 0, no, i, 1) = After2(y, p, i, r, t, None, i)
  BY <1>1 DEF Ended, After2, G2
<1>16. Append(f2, Sealed(c4, 0, h3, Payload)) = Msg2(p, i, r, t)
  <2>1. f1 = <<r>>
    BY <1>7
  <2>2. f2 = <<r, Sealed(c3, 0, h2, t)>>
    BY <1>10, <2>1, Grows2
  <2> QED
    BY <1>1, <2>2, Grows3 DEF Msg2
<1>17. s1 = After1(y, p, i, i)
  BY <1>1, <1>5 DEF After1
<1> QED
  BY <1>1, <1>14, <1>15, <1>16, <1>17, Zenon

\* Keys that agree were mixed from the same.
LEMMA C3Injective ==
    ASSUME NEW i, NEW r, NEW i2, NEW r2, C3(i, r) = C3(i2, r2)
    PROVE  i = i2 /\ r = r2
<1>1. PICK ee, ee2 : ee = diffie_hellman(i, r) /\ ee2 = diffie_hellman(i2, r2)
  OBVIOUS
<1> QED
  BY <1>1 DEF C3
LEMMA C4Injective ==
    ASSUME NEW i, NEW r, NEW t, NEW i2, NEW r2, NEW t2, C4(i, r, t) = C4(i2, r2, t2)
    PROVE  i = i2 /\ r = r2 /\ t = t2
<1>1. PICK ee, es, ee2, es2 : /\ ee = diffie_hellman(i, r) /\ es = diffie_hellman(i, t)
                              /\ ee2 = diffie_hellman(i2, r2) /\ es2 = diffie_hellman(i2, t2)
  OBVIOUS
<1>2. i = i2 /\ r = r2 /\ es = es2
  BY <1>1 DEF C4
<1>3. {i, t} = {i, t2}
  BY <1>1, <1>2 DEF diffie_hellman
<1> QED
  BY <1>2, <1>3
LEMMA C6Injective ==
    ASSUME NEW i, NEW r, NEW t, NEW z, NEW q, NEW i2, NEW r2, NEW t2, NEW z2, NEW q2,
           C6(i, r, t, z, q) = C6(i2, r2, t2, z2, q2)
    PROVE  i = i2 /\ r = r2 /\ q = q2
<1>1. PICK ee, es, se, ee2, es2, se2 :
        /\ ee = diffie_hellman(i, r) /\ es = diffie_hellman(i, t) /\ se = diffie_hellman(z, r)
        /\ ee2 = diffie_hellman(i2, r2) /\ es2 = diffie_hellman(i2, t2) /\ se2 = diffie_hellman(z2, r2)
  OBVIOUS
<1> QED
  BY <1>1 DEF C6
LEMMA C6NotC1 ==
    ASSUME NEW i, NEW r, NEW t, NEW z, NEW q, NEW i2
    PROVE  C6(i, r, t, z, q) # C1(i2)
<1>1. PICK ee, es, se : ee = diffie_hellman(i, r) /\ es = diffie_hellman(i, t) /\ se = diffie_hellman(z, r)
  OBVIOUS
<1>2. Len(C6(i, r, t, z, q)) = 7
  BY <1>1 DEF C6
<1>3. Len(C1(i2)) = 2
  BY DEF C1
<1> QED
  BY <1>2, <1>3

\* and read: only by the initiator whose key it answers.
LEMMA Reads2 ==
    ASSUME NEW x, Party(x), x.initiator, NEW p, NEW i2, NEW r, NEW t,
           NEW m, m = read_message(After1(x, p, x.e, None), Msg2(p, i2, r, t)), m # None
    PROVE  i2 = x.e /\ m = <<After2(x, p, x.e, r, t, t, r)>>
<1>1. PICK i, c1, c2, c3, c4, g1, h2, h3, no :
        /\ i = x.e /\ c1 = C1(i) /\ c2 = C2(i, r) /\ c3 = C3(i, r) /\ c4 = C4(i, r, t)
        /\ g1 = G1(p, i) /\ h2 = H2(p, i, r) /\ h3 = H3(p, i, r, t) /\ no = None
  OBVIOUS
<1>2. /\ Append(c1, r) = c2 /\ Append(c2, diffie_hellman(i, r)) = c3 /\ Append(c3, diffie_hellman(i, t)) = c4
  BY <1>1, ChainingKeys
<1>3. Append(g1, r) = h2 /\ Append(h2, Mixed(c3, 0, t)) = h3
  BY <1>1, Zenon DEF H2, H3
<1>4. x.pattern = "XxPsk3"
  BY DEF Party
<1>5. PICK s1, s2, s3 : /\ s1 = Hs(x, Sym(c1, g1, Rekey(c1), 1), no, no, 1)
                        /\ s2 = Hs(x, Sym(c2, h2, Rekey(c2), 0), no, r, 1)
                        /\ s3 = Hs(x, Sym(c3, h2, Rekey(c3), 0), no, r, 1)
  OBVIOUS
<1>6. /\ TokensOf(s1) = <<"Ephemeral", "EphemeralEphemeral", "StaticKey", "EphemeralStatic">>
      /\ ~is_complete(s1) /\ ~local_writes_next(s1)
  BY <1>5, Turns
<1>7. PICK f2, f3, in, in2 : /\ f2 = Sealed(C3(i2, r), 0, H2(p, i2, r), t)
                             /\ f3 = Sealed(C4(i2, r, t), 0, H3(p, i2, r, t), Payload)
                             /\ in = <<r, f2, f3>> /\ in2 = <<f2, f3>>
  OBVIOUS
<1>8. /\ in # <<>> /\ Head(in) = r /\ Tail(in) = in2
      /\ in2 # <<>> /\ Head(in2) = f2 /\ Tail(in2) = <<f3>>
  BY <1>7
<1>9. ReadToken(Reading(s1, in), "Ephemeral") = Reading(s2, in2)
  <2>1. ReadToken(Reading(Hs(x, Sym(c1, g1, Rekey(c1), 1), no, no, 1), in), "Ephemeral") =
          Reading(Hs(x, Sym(Append(c1, r), Append(g1, r), Rekey(Append(c1, r)), 0), no, r, 1), Tail(in))
    BY <1>4, <1>8, ReadsEphemeralXx
  <2> QED
    BY <1>2, <1>3, <1>5, <1>8, <2>1, Zenon
<1>10. ReadToken(Reading(s2, in2), "EphemeralEphemeral") = Reading(s3, in2)
  <2>1. Material(s2, "EphemeralEphemeral") = diffie_hellman(i, r)
    BY <1>1, <1>5, Materials
  <2> QED
    BY <1>2, <1>5, <2>1, ReadsMixed
<1>11. m = read_message(s1, in)
  BY <1>1, <1>5, <1>7, Zenon DEF After1, Msg2
<1>12. ReadTokens(Reading(s1, in), TokensOf(s1)) =
         ReadToken(ReadToken(Reading(s3, in2), "StaticKey"), "EphemeralStatic")
  BY <1>6, <1>9, <1>10, Reads4Tokens
<1>13. PICK sym3 : sym3 = Sym(c3, h2, Rekey(c3), 0)
  OBVIOUS
<1>14. decrypt(sym3.cipher, sym3.h, f2) # None
  <2>1. SUFFICES ASSUME decrypt(sym3.cipher, sym3.h, f2) = None PROVE FALSE
    OBVIOUS
  <2>2. FailedToRead(ReadToken(Reading(s3, in2), "StaticKey"))
    BY <1>5, <1>8, <1>13, <2>1, ReadsNoStatic
  <2>3. FailedToRead(ReadTokens(Reading(s1, in), TokensOf(s1)))
    BY <1>12, <2>2, ReadsNothing
  <2> QED
    BY <1>11, <2>3, ReadFails
<1>15. c3 = C3(i2, r)
  <2>1. sym3.h = h2
    BY <1>13 DEF Sym
  <2>2. decrypt(Sym(c3, h2, Rekey(c3), 0).cipher, h2, f2) # None
    BY <1>13, <1>14, <2>1
  <2> QED
    BY <1>7, <2>2, Opens
<1>16. i2 = i
  BY <1>1, <1>15, C3Injective
<1>17. f2 = Sealed(c3, 0, h2, t) /\ f3 = Sealed(c4, 0, h3, Payload)
  BY <1>1, <1>7, <1>16, Zenon
<1>18. ReadToken(Reading(s3, in2), "StaticKey") = Reading(Hs(x, Sym(c3, h3, Rekey(c3), 1), t, r, 1), <<f3>>)
  <2>1. 0 \in Nat /\ 0 + 1 = 1
    OBVIOUS
  <2>2. ReadToken(Reading(Hs(x, Sym(c3, h2, Rekey(c3), 0), no, r, 1), in2), "StaticKey") =
          Reading(Hs(x, Sym(c3, Append(h2, Mixed(c3, 0, t)), Rekey(c3), 0 + 1), t, r, 1), Tail(in2))
    <3>1. PICK n \in Nat : n = 0
      OBVIOUS
    <3>2. in2 # <<>> /\ Head(in2) = Sealed(c3, n, h2, t)
      BY <1>8, <1>17, <3>1, Zenon
    <3>3. ReadToken(Reading(Hs(x, Sym(c3, h2, Rekey(c3), n), no, r, 1), in2), "StaticKey") =
            Reading(Hs(x, Sym(c3, Append(h2, Mixed(c3, n, t)), Rekey(c3), n + 1), t, r, 1), Tail(in2))
      BY <3>2, ReadsStatic
    <3> QED
      BY <3>1, <3>3, Zenon
  <2> QED
    BY <1>3, <1>5, <1>8, <2>1, <2>2, Zenon
<1>19. ReadTokens(Reading(s1, in), TokensOf(s1)) = Reading(Hs(x, Sym(c4, h3, Rekey(c4), 0), t, r, 1), <<f3>>)
  <2>1. Material(Hs(x, Sym(c3, h3, Rekey(c3), 1), t, r, 1), "EphemeralStatic") = diffie_hellman(i, t)
    BY <1>1, Materials
  <2>2. ReadToken(Reading(Hs(x, Sym(c3, h3, Rekey(c3), 1), t, r, 1), <<f3>>), "EphemeralStatic") =
          Reading(Hs(x, Sym(c4, h3, Rekey(c4), 0), t, r, 1), <<f3>>)
    BY <1>2, <2>1, ReadsMixed
  <2> QED
    BY <1>12, <1>18, <2>2, Zenon
<1>20. m = <<Ended(x, c4, h3, c4, 0, t, r, 1)>>
  BY <1>6, <1>11, <1>17, <1>19, ReadEnds
<1>21. Ended(x, c4, h3, c4, 0, t, r, 1) = After2(x, p, i, r, t, t, r)
  BY <1>1 DEF Ended, After2, G2
<1> QED
  BY <1>1, <1>16, <1>20, <1>21, Zenon

\* The third message is written,
LEMMA Writes3 ==
    ASSUME NEW x, Party(x), x.initiator, NEW p, NEW r, NEW t
    PROVE  write_message(After2(x, p, x.e, r, t, t, r)) =
             [hs |-> After3(x, p, x.e, r, t, x.s, x.psk, t, r), message |-> Msg3(p, x.e, r, t, x.s, x.psk)]
<1>1. PICK i, z, q, c4, c5, c6, g2, h4, h5 :
        /\ i = x.e /\ z = x.s /\ q = x.psk /\ c4 = C4(i, r, t) /\ c5 = C5(i, r, t, z) /\ c6 = C6(i, r, t, z, q)
        /\ g2 = G2(p, i, r, t) /\ h4 = H4(p, i, r, t, z) /\ h5 = H5(p, i, r, t, z, q)
  OBVIOUS
<1>2. Append(c4, diffie_hellman(z, r)) = c5 /\ Append(c5, q) = c6
  BY <1>1, ChainingKeys
<1>3. Append(g2, Mixed(c4, 1, z)) = h4 /\ Append(h4, MixedKey(c6)) = h5
  BY <1>1, Zenon DEF H4, H5
<1>4. PICK s1, s2, s3 : /\ s1 = Hs(x, Sym(c4, g2, Rekey(c4), 1), t, r, 2)
                        /\ s2 = Hs(x, Sym(c4, h4, Rekey(c4), 2), t, r, 2)
                        /\ s3 = Hs(x, Sym(c5, h4, Rekey(c5), 0), t, r, 2)
  OBVIOUS
<1>5. TokensOf(s1) = <<"StaticKey", "StaticEphemeral", "PresharedKey">>
  BY <1>4, Turns
<1>6. PICK out, f1 : out = <<>> /\ f1 = Append(out, Sealed(c4, 1, g2, z))
  OBVIOUS
<1>7. WriteToken(Writing(s1, out), "StaticKey") = Writing(s2, f1)
  <2>1. 1 \in Nat /\ 1 + 1 = 2
    OBVIOUS
  <2>2. WriteToken(Writing(Hs(x, Sym(c4, g2, Rekey(c4), 1), t, r, 2), out), "StaticKey") =
          Writing(Hs(x, Sym(c4, Append(g2, Mixed(c4, 1, x.s)), Rekey(c4), 1 + 1), t, r, 2),
                  Append(out, Sealed(c4, 1, g2, x.s)))
    BY <2>1, WritesStatic
  <2> QED
    BY <1>1, <1>3, <1>4, <1>6, <2>1, <2>2, Zenon
<1>8. WriteToken(Writing(s2, f1), "StaticEphemeral") = Writing(s3, f1)
  <2>1. Material(s2, "StaticEphemeral") = diffie_hellman(z, r)
    BY <1>1, <1>4, Materials
  <2> QED
    BY <1>2, <1>4, <2>1, WritesMixed
<1>9. WriteToken(Writing(s3, f1), "PresharedKey") = Writing(Hs(x, Sym(c6, h5, Rekey(c6), 0), t, r, 2), f1)
  <2>1. WriteToken(Writing(Hs(x, Sym(c5, h4, Rekey(c5), 0), t, r, 2), f1), "PresharedKey") =
          Writing(Hs(x, Sym(c6, Append(h4, MixedKey(c6)), Rekey(c6), 0), t, r, 2), f1)
    BY <1>1, <1>2, WritesPsk
  <2> QED
    BY <1>3, <1>4, <2>1, Zenon
<1>10. WriteTokens(Writing(s1, out), TokensOf(s1)) = Writing(Hs(x, Sym(c6, h5, Rekey(c6), 0), t, r, 2), f1)
  BY <1>5, <1>7, <1>8, <1>9, Writes3Tokens
<1>11. write_message(s1) = [hs |-> Ended(x, c6, h5, c6, 0, t, r, 2),
                            message |-> Append(f1, Sealed(c6, 0, h5, Payload))]
  BY <1>6, <1>10, WriteEnds
<1>12. Ended(x, c6, h5, c6, 0, t, r, 2) = After3(x, p, i, r, t, z, q, t, r)
  BY <1>1 DEF Ended, After3, G3
<1>13. Append(f1, Sealed(c6, 0, h5, Payload)) = Msg3(p, i, r, t, z, q)
  <2>1. f1 = <<Sealed(c4, 1, g2, z)>>
    BY <1>6
  <2> QED
    BY <1>1, <2>1, Grows2 DEF Msg3
<1>14. s1 = After2(x, p, i, r, t, t, r)
  BY <1>1, <1>4 DEF After2
<1> QED
  BY <1>1, <1>11, <1>12, <1>13, <1>14, Zenon

\* and read: only by the responder whose second message it answers, and only
\* when both have the same secret.
LEMMA Reads3 ==
    ASSUME NEW y, Party(y), ~y.initiator, NEW p, NEW i, NEW i2, NEW r2, NEW t2, NEW z, NEW q,
           NEW m, m = read_message(After2(y, p, i, y.e, y.s, None, i), Msg3(p, i2, r2, t2, z, q)), m # None
    PROVE  /\ i2 = i /\ r2 = y.e /\ t2 = y.s /\ q = y.psk
           /\ m = <<After3(y, p, i, y.e, y.s, z, q, z, i)>>
<1>1. PICK r, t, c4, c5, c6, g2, h4, h5, no, psk :
        /\ r = y.e /\ t = y.s /\ psk = y.psk
        /\ c4 = C4(i, r, t) /\ c5 = C5(i, r, t, z) /\ c6 = C6(i, r, t, z, psk)
        /\ g2 = G2(p, i, r, t) /\ h4 = H4(p, i, r, t, z) /\ h5 = H5(p, i, r, t, z, psk) /\ no = None
  OBVIOUS
<1>2. Append(c4, diffie_hellman(z, r)) = c5 /\ Append(c5, psk) = c6
  BY <1>1, ChainingKeys
<1>3. Append(g2, Mixed(c4, 1, z)) = h4 /\ Append(h4, MixedKey(c6)) = h5
  BY <1>1, Zenon DEF H4, H5
<1>4. PICK s1, s2, s3 : /\ s1 = Hs(y, Sym(c4, g2, Rekey(c4), 1), no, i, 2)
                        /\ s2 = Hs(y, Sym(c4, h4, Rekey(c4), 2), z, i, 2)
                        /\ s3 = Hs(y, Sym(c5, h4, Rekey(c5), 0), z, i, 2)
  OBVIOUS
<1>5. /\ TokensOf(s1) = <<"StaticKey", "StaticEphemeral", "PresharedKey">>
      /\ ~is_complete(s1) /\ ~local_writes_next(s1)
  BY <1>4, Turns
<1>6. PICK f1, f2, in : /\ f1 = Sealed(C4(i2, r2, t2), 1, G2(p, i2, r2, t2), z)
                        /\ f2 = Sealed(C6(i2, r2, t2, z, q), 0, H5(p, i2, r2, t2, z, q), Payload)
                        /\ in = <<f1, f2>>
  OBVIOUS
<1>7. in # <<>> /\ Head(in) = f1 /\ Tail(in) = <<f2>>
  BY <1>6
<1>8. m = read_message(s1, in)
  BY <1>1, <1>4, <1>6, Zenon DEF After2, Msg3
<1>9. ReadTokens(Reading(s1, in), TokensOf(s1)) =
        ReadToken(ReadToken(ReadToken(Reading(s1, in), "StaticKey"), "StaticEphemeral"), "PresharedKey")
  BY <1>5, Reads3Tokens
<1>10. PICK sym : sym = Sym(c4, g2, Rekey(c4), 1)
  OBVIOUS
<1>11. decrypt(sym.cipher, sym.h, f1) # None
  <2>1. SUFFICES ASSUME decrypt(sym.cipher, sym.h, f1) = None PROVE FALSE
    OBVIOUS
  <2>2. FailedToRead(ReadToken(Reading(s1, in), "StaticKey"))
    BY <1>4, <1>7, <1>10, <2>1, ReadsNoStatic
  <2>3. FailedToRead(ReadTokens(Reading(s1, in), TokensOf(s1)))
    BY <1>9, <2>2, ReadsNothing
  <2> QED
    BY <1>8, <2>3, ReadFails
<1>12. c4 = C4(i2, r2, t2)
  <2>1. sym.h = g2
    BY <1>10 DEF Sym
  <2>2. decrypt(Sym(c4, g2, Rekey(c4), 1).cipher, g2, f1) # None
    BY <1>10, <1>11, <2>1
  <2> QED
    BY <1>6, <2>2, Opens
<1>13. i2 = i /\ r2 = r /\ t2 = t
  <2>1. C4(i, r, t) = C4(i2, r2, t2)
    BY <1>1, <1>12, Zenon
  <2> QED
    BY <2>1, C4Injective
<1>14. f1 = Sealed(c4, 1, g2, z) /\ f2 = Sealed(C6(i, r, t, z, q), 0, H5(p, i, r, t, z, q), Payload)
  BY <1>1, <1>6, <1>13, Zenon
<1>15. ReadToken(Reading(s1, in), "StaticKey") = Reading(s2, <<f2>>)
  <2>1. PICK n \in Nat : n = 1
    OBVIOUS
  <2>2. in # <<>> /\ Head(in) = Sealed(c4, n, g2, z)
    BY <1>7, <1>14, <2>1, Zenon
  <2>3. ReadToken(Reading(Hs(y, Sym(c4, g2, Rekey(c4), n), no, i, 2), in), "StaticKey") =
          Reading(Hs(y, Sym(c4, Append(g2, Mixed(c4, n, z)), Rekey(c4), n + 1), z, i, 2), Tail(in))
    BY <2>2, ReadsStatic
  <2>4. n + 1 = 2
    BY <2>1
  <2> QED
    BY <1>3, <1>4, <1>7, <2>1, <2>3, <2>4, Zenon
<1>16. ReadToken(Reading(s2, <<f2>>), "StaticEphemeral") = Reading(s3, <<f2>>)
  <2>1. Material(s2, "StaticEphemeral") = diffie_hellman(r, z)
    BY <1>1, <1>4, Materials
  <2> QED
    BY <1>2, <1>4, <2>1, DhSymmetric, ReadsMixed
<1>17. ReadToken(Reading(s3, <<f2>>), "PresharedKey") = Reading(Hs(y, Sym(c6, h5, Rekey(c6), 0), z, i, 2), <<f2>>)
  <2>1. ReadToken(Reading(Hs(y, Sym(c5, h4, Rekey(c5), 0), z, i, 2), <<f2>>), "PresharedKey") =
          Reading(Hs(y, Sym(c6, Append(h4, MixedKey(c6)), Rekey(c6), 0), z, i, 2), <<f2>>)
    BY <1>1, <1>2, ReadsPsk
  <2> QED
    BY <1>3, <1>4, <2>1, Zenon
<1>18. ReadTokens(Reading(s1, in), TokensOf(s1)) = Reading(Hs(y, Sym(c6, h5, Rekey(c6), 0), z, i, 2), <<f2>>)
  BY <1>9, <1>15, <1>16, <1>17, Zenon
<1>19. c6 = C6(i, r, t, z, q)
  BY <1>5, <1>8, <1>14, <1>18, ReadEnds
<1>20. psk = q
  <2>1. C6(i, r, t, z, psk) = C6(i, r, t, z, q)
    BY <1>1, <1>19, Zenon
  <2> QED
    BY <2>1, C6Injective
<1>21. m = <<Ended(y, c6, h5, c6, 0, z, i, 2)>>
  <2>1. f2 = Sealed(c6, 0, h5, Payload)
    BY <1>1, <1>14, <1>20, Zenon
  <2> QED
    BY <1>5, <1>8, <1>18, <2>1, ReadEnds
<1>22. Ended(y, c6, h5, c6, 0, z, i, 2) = After3(y, p, i, r, t, z, q, z, i)
  BY <1>1, <1>20 DEF Ended, After3, G3
<1> QED
  BY <1>1, <1>13, <1>20, <1>21, <1>22, Zenon

\* A first message is not taken for a third.
LEMMA Reads3No1 ==
    ASSUME NEW y, Party(y), NEW p, NEW p2, NEW i, NEW r, NEW t, NEW a, NEW b, NEW c
    PROVE  read_message(After2(y, p, i, r, t, None, i), Msg1(p2, <<a, b, c>>)) = None
<1>1. PICK c4, g2, s1, sym, no, f1, f2, in :
        /\ c4 = C4(i, r, t) /\ g2 = G2(p, i, r, t) /\ no = None
        /\ sym = Sym(c4, g2, Rekey(c4), 1) /\ s1 = Hs(y, sym, no, i, 2)
        /\ f1 = <<a, b, c>> /\ f2 = Sealed(C1(f1), 0, H1(p2, f1), Payload) /\ in = <<f1, f2>>
  OBVIOUS
<1>2. TokensOf(s1) = <<"StaticKey", "StaticEphemeral", "PresharedKey">>
  BY <1>1, Turns
<1>3. in # <<>> /\ Head(in) = f1 /\ Len(f1) = 3
  BY <1>1
<1>4. decrypt(sym.cipher, sym.h, f1) = None
  <2>1. PICK key : key = Rekey(c4)
    OBVIOUS
  <2>2. sym.cipher.key = key
    BY <1>1, <2>1 DEF Sym, Cipher
  <2>3. key # None
    BY <2>1, KeyIsThere
  <2> QED
    BY <1>3, <2>2, <2>3 DEF decrypt
<1>5. FailedToRead(ReadToken(Reading(s1, in), "StaticKey"))
  BY <1>1, <1>3, <1>4, ReadsNoStatic
<1>6. FailedToRead(ReadTokens(Reading(s1, in), TokensOf(s1)))
  BY <1>2, <1>5, Reads3Tokens, ReadsNothing
<1>7. read_message(s1, in) = None
  BY <1>6, ReadFails
<1> QED
  BY <1>1, <1>7, Zenon DEF After2, Msg1

\* KK: whose turn it is, and the two messages, each an ephemeral key and two
\* secrets d1 and d2.
Secrets == {"EphemeralEphemeral", "EphemeralStatic", "StaticEphemeral", "StaticStatic"}
KkParty(x) == x.pattern = "Kk" /\ x.initiator \in BOOLEAN
KkSecrets(x, rs, re, k, a, b, d1, d2) ==
    \A sym : Material(Hs(x, sym, rs, re, k), a) = d1 /\ Material(Hs(x, sym, rs, re, k), b) = d2
LEMMA KkTurns ==
    ASSUME NEW x, KkParty(x), NEW sym, NEW rs, NEW re, NEW k \in 0 .. 1,
           NEW hs, hs = Hs(x, sym, rs, re, k)
    PROVE  /\ ~is_complete(hs)
           /\ k = 0 /\ ~x.initiator => ~local_writes_next(hs)
           /\ k = 1 /\ x.initiator => ~local_writes_next(hs)
           /\ k = 0 => TokensOf(hs) = <<"Ephemeral", "EphemeralStatic", "StaticStatic">>
           /\ k = 1 => TokensOf(hs) = <<"Ephemeral", "EphemeralEphemeral", "StaticEphemeral">>
<1>1. hs.pattern = "Kk" /\ hs.message_index = k /\ hs.initiator = x.initiator
  BY DEF Hs, KkParty
<1>2. Len(message_tokens(hs.pattern)) = 2
  BY <1>1 DEF message_tokens
<1>3. ~is_complete(hs)
  <2>1. PICK n : n = Len(message_tokens(hs.pattern))
    OBVIOUS
  <2>2. is_complete(hs) <=> k >= n
    BY <1>1, <2>1, Zenon DEF is_complete
  <2>3. ~(k >= n)
    BY <1>2, <2>1
  <2> QED
    BY <2>2, <2>3, Zenon
<1>4. /\ k = 0 => TokensOf(hs) = <<"Ephemeral", "EphemeralStatic", "StaticStatic">>
      /\ k = 1 => TokensOf(hs) = <<"Ephemeral", "EphemeralEphemeral", "StaticEphemeral">>
  BY <1>1 DEF message_tokens, TokensOf
<1>5. /\ k = 0 /\ ~x.initiator => ~local_writes_next(hs)
      /\ k = 1 /\ x.initiator => ~local_writes_next(hs)
  <2>1. /\ (k % 2 = 0) <=> (k # 1)
        /\ k = 0 => k # 1
    OBVIOUS
  <2>2. local_writes_next(hs) = ((hs.message_index % 2 = 0) = hs.initiator)
    BY Zenon DEF local_writes_next
  <2>3. local_writes_next(hs) <=> ((k # 1) <=> x.initiator)
    BY <1>1, <2>1, <2>2, Zenon DEF KkParty
  <2> QED
    BY <2>1, <2>3, Zenon
<1> QED
  BY <1>3, <1>4, <1>5, Zenon
KkMixes(hs, x, ck, h, key, n, rs, re, k, e, y, a, b, d1, d2, c1, c2, h2) ==
    /\ KkParty(x) /\ hs = Hs(x, Sym(ck, h, key, n), rs, re, k)
    /\ a \in Secrets /\ b \in Secrets /\ TokensOf(hs) = <<"Ephemeral", a, b>>
    /\ KkSecrets(x, rs, y, k, a, b, d1, d2)
    /\ Append(ck, d1) = c1 /\ Append(c1, d2) = c2 /\ Append(h, e) = h2
LEMMA KkWrites ==
    ASSUME NEW hs, NEW x, NEW ck, NEW h, NEW key, NEW n, NEW rs, NEW re, NEW k, NEW a, NEW b, NEW d1, NEW d2,
           NEW c1, NEW c2, NEW h2, KkMixes(hs, x, ck, h, key, n, rs, re, k, x.e, re, a, b, d1, d2, c1, c2, h2)
    PROVE  write_message(hs) =
             [hs |-> Ended(x, c2, h2, c2, 0, rs, re, k), message |-> <<x.e, Sealed(c2, 0, h2, Payload)>>]
<1>0. /\ KkParty(x) /\ hs = Hs(x, Sym(ck, h, key, n), rs, re, k)
      /\ a \in Secrets /\ b \in Secrets /\ TokensOf(hs) = <<"Ephemeral", a, b>>
      /\ KkSecrets(x, rs, re, k, a, b, d1, d2)
      /\ Append(ck, d1) = c1 /\ Append(c1, d2) = c2 /\ Append(h, x.e) = h2
  BY Zenon DEF KkMixes
<1> USE <1>0
<1>1. PICK s1, s2, s3, s4 : /\ s1 = Hs(x, Sym(ck, h, key, n), rs, re, k)
                            /\ s2 = Hs(x, Sym(ck, h2, key, n), rs, re, k)
                            /\ s3 = Hs(x, Sym(c1, h2, Rekey(c1), 0), rs, re, k)
                            /\ s4 = Hs(x, Sym(c2, h2, Rekey(c2), 0), rs, re, k)
  OBVIOUS
<1>2. PICK out, f1 : out = <<>> /\ f1 = Append(out, x.e)
  OBVIOUS
<1>3. WriteToken(Writing(s1, out), "Ephemeral") = Writing(s2, f1)
  <2>1. WriteToken(Writing(Hs(x, Sym(ck, h, key, n), rs, re, k), out), "Ephemeral") =
          Writing(Hs(x, Sym(ck, Append(h, x.e), key, n), rs, re, k), Append(out, x.e))
    <3>1. x.pattern = "Kk"
      BY DEF KkParty
    <3> QED
      BY ONLY <3>1, WritesEphemeralKk
  <2> QED
    BY <1>1, <1>2, <2>1, Zenon
<1>4. WriteToken(Writing(s2, f1), a) = Writing(s3, f1)
  <2>1. Material(Hs(x, Sym(ck, h2, key, n), rs, re, k), a) = d1
    BY Zenon DEF KkSecrets
  <2>2. a # "Ephemeral" /\ a # "StaticKey" /\ a # "PresharedKey"
    BY DEF Secrets
  <2>0. Append(ck, d1) = c1 /\ Append(c1, d2) = c2
    OBVIOUS
  <2>3. WriteToken(Writing(Hs(x, Sym(ck, h2, key, n), rs, re, k), f1), a) =
          Writing(Hs(x, Sym(c1, h2, Rekey(c1), 0), rs, re, k), f1)
    BY ONLY <2>0, <2>1, <2>2, WritesMixed
  <2> QED
    BY <1>1, <2>3, Zenon
<1>5. WriteToken(Writing(s3, f1), b) = Writing(s4, f1)
  <2>1. Material(Hs(x, Sym(c1, h2, Rekey(c1), 0), rs, re, k), b) = d2
    BY Zenon DEF KkSecrets
  <2>2. b # "Ephemeral" /\ b # "StaticKey" /\ b # "PresharedKey"
    BY DEF Secrets
  <2>0. Append(ck, d1) = c1 /\ Append(c1, d2) = c2
    OBVIOUS
  <2>3. WriteToken(Writing(Hs(x, Sym(c1, h2, Rekey(c1), 0), rs, re, k), f1), b) =
          Writing(Hs(x, Sym(c2, h2, Rekey(c2), 0), rs, re, k), f1)
    BY ONLY <2>0, <2>1, <2>2, WritesMixed
  <2> QED
    BY <1>1, <2>3, Zenon
<1>6. WriteTokens(Writing(s1, out), TokensOf(s1)) = Writing(s4, f1)
  BY <1>1, <1>3, <1>4, <1>5, Writes3Tokens
<1>7. write_message(s1) = [hs |-> Ended(x, c2, h2, c2, 0, rs, re, k),
                           message |-> Append(f1, Sealed(c2, 0, h2, Payload))]
  <2>1. WriteTokens(Writing(s1, <<>>), TokensOf(s1)) = Writing(Hs(x, Sym(c2, h2, Rekey(c2), 0), rs, re, k), f1)
    BY <1>1, <1>2, <1>6, Zenon
  <2> QED
    BY ONLY <2>1, WriteEnds
<1>8. Append(f1, Sealed(c2, 0, h2, Payload)) = <<x.e, Sealed(c2, 0, h2, Payload)>>
  BY <1>2, Grows2
<1> QED
  BY <1>1, <1>7, <1>8, Zenon
LEMMA KkReads ==
    ASSUME NEW hs, ~is_complete(hs), ~local_writes_next(hs),
           NEW x, NEW ck, NEW h, NEW key, NEW n, NEW rs, NEW re, NEW k, NEW y, NEW a, NEW b, NEW d1, NEW d2,
           NEW c1, NEW c2, NEW h2, KkMixes(hs, x, ck, h, key, n, rs, re, k, y, y, a, b, d1, d2, c1, c2, h2)
    PROVE  read_message(hs, <<y, Sealed(c2, 0, h2, Payload)>>) = <<Ended(x, c2, h2, c2, 0, rs, y, k)>>
<1>0. /\ KkParty(x) /\ hs = Hs(x, Sym(ck, h, key, n), rs, re, k)
      /\ a \in Secrets /\ b \in Secrets /\ TokensOf(hs) = <<"Ephemeral", a, b>>
      /\ KkSecrets(x, rs, y, k, a, b, d1, d2)
      /\ Append(ck, d1) = c1 /\ Append(c1, d2) = c2 /\ Append(h, y) = h2
  BY Zenon DEF KkMixes
<1> USE <1>0
<1>1. PICK s2, s3, s4, f, in : /\ s2 = Hs(x, Sym(ck, h2, key, n), rs, y, k)
                               /\ s3 = Hs(x, Sym(c1, h2, Rekey(c1), 0), rs, y, k)
                               /\ s4 = Hs(x, Sym(c2, h2, Rekey(c2), 0), rs, y, k)
                               /\ f = Sealed(c2, 0, h2, Payload) /\ in = <<y, f>>
  OBVIOUS
<1>2. in # <<>> /\ Head(in) = y /\ Tail(in) = <<f>>
  BY <1>1
<1>3. ReadToken(Reading(hs, in), "Ephemeral") = Reading(s2, <<f>>)
  <2>1. ReadToken(Reading(Hs(x, Sym(ck, h, key, n), rs, re, k), in), "Ephemeral") =
          Reading(Hs(x, Sym(ck, Append(h, y), key, n), rs, y, k), Tail(in))
    <3>1. x.pattern = "Kk"
      BY DEF KkParty
    <3> QED
      BY ONLY <1>2, <3>1, ReadsEphemeralKk
  <2> QED
    BY <1>1, <1>2, <2>1, Zenon
<1>4. ReadToken(Reading(s2, <<f>>), a) = Reading(s3, <<f>>)
  <2>1. Material(Hs(x, Sym(ck, h2, key, n), rs, y, k), a) = d1
    BY Zenon DEF KkSecrets
  <2>2. a # "Ephemeral" /\ a # "StaticKey" /\ a # "PresharedKey"
    BY DEF Secrets
  <2>0. Append(ck, d1) = c1 /\ Append(c1, d2) = c2
    OBVIOUS
  <2>3. ReadToken(Reading(Hs(x, Sym(ck, h2, key, n), rs, y, k), <<f>>), a) =
          Reading(Hs(x, Sym(c1, h2, Rekey(c1), 0), rs, y, k), <<f>>)
    BY ONLY <2>0, <2>1, <2>2, ReadsMixed
  <2> QED
    BY <1>1, <2>3, Zenon
<1>5. ReadToken(Reading(s3, <<f>>), b) = Reading(s4, <<f>>)
  <2>1. Material(Hs(x, Sym(c1, h2, Rekey(c1), 0), rs, y, k), b) = d2
    BY Zenon DEF KkSecrets
  <2>2. b # "Ephemeral" /\ b # "StaticKey" /\ b # "PresharedKey"
    BY DEF Secrets
  <2>0. Append(ck, d1) = c1 /\ Append(c1, d2) = c2
    OBVIOUS
  <2>3. ReadToken(Reading(Hs(x, Sym(c1, h2, Rekey(c1), 0), rs, y, k), <<f>>), b) =
          Reading(Hs(x, Sym(c2, h2, Rekey(c2), 0), rs, y, k), <<f>>)
    BY ONLY <2>0, <2>1, <2>2, ReadsMixed
  <2> QED
    BY <1>1, <2>3, Zenon
<1>6. ReadTokens(Reading(hs, in), TokensOf(hs)) = Reading(s4, <<f>>)
  BY <1>3, <1>4, <1>5, Reads3Tokens
<1>7. read_message(hs, in) = <<Ended(x, c2, h2, c2, 0, rs, y, k)>>
  <2>1. ReadTokens(Reading(hs, in), TokensOf(hs)) = Reading(Hs(x, Sym(c2, h2, Rekey(c2), 0), rs, y, k), <<f>>)
    BY <1>1, <1>6, Zenon
  <2>2. f = Sealed(c2, 0, h2, Payload)
    BY <1>1
  <2>3. ~is_complete(hs) /\ ~local_writes_next(hs)
    OBVIOUS
  <2> QED
    BY ONLY <2>1, <2>2, <2>3, ReadEnds
<1> QED
  BY <1>1, <1>7, Zenon

\* Between the holders of records that mirror each other a session opens.
LEMMA SessionsOpen ==
    ASSUME NEW d, NEW p, Mirrors(d, p)
    PROVE  SessionOpens(d, p)
<1>1. PICK si, sr, ei, er, prologue, suite, no :
        /\ si = d.local_static /\ sr = d.remote_static /\ prologue = SessionPrologue(d)
        /\ ei = <<"ephemeral", "desk", 0>> /\ er = <<"ephemeral", "phone", 0>>
        /\ suite = <<SESSION_SUITE>> /\ no = None
  OBVIOUS
<1>2. SessionPrologue(p) = prologue /\ p.local_static = sr /\ p.remote_static = si
  BY <1>1, Zenon DEF Mirrors, SessionPrologue
<1>3. PICK x, y : /\ x = [pattern |-> "Kk", initiator |-> TRUE, psk |-> None, s |-> si, e |-> ei]
                  /\ y = [pattern |-> "Kk", initiator |-> FALSE, psk |-> None, s |-> sr, e |-> er]
  OBVIOUS
<1>4. /\ x.pattern = "Kk" /\ x.initiator = TRUE /\ x.s = si /\ x.e = ei
      /\ y.pattern = "Kk" /\ y.initiator = FALSE /\ y.s = sr /\ y.e = er
  BY <1>3
<1>23. KkParty(x) /\ KkParty(y) /\ x.psk = no /\ y.psk = no
  BY <1>1, <1>3 DEF KkParty
<1>5. PICK h : h = Append(Append(Append(suite, prologue), si), sr)
  OBVIOUS
<1>6. PICK i0, r0 : i0 = Hs(x, Sym(suite, h, no, 0), sr, no, 0) /\ r0 = Hs(y, Sym(suite, h, no, 0), si, no, 0)
  OBVIOUS
<1>25. mix_hash(mix_hash(mix_hash(Symmetric(SESSION_SUITE), prologue), si), sr) = Sym(suite, h, no, 0)
  <2>1. Symmetric(SESSION_SUITE) = Sym(suite, suite, no, 0)
    BY <1>1, Zenon DEF Symmetric, Sym, Cipher, initialize_key
  <2> QED
    BY <1>5, <2>1, SymMixHash
<1>7. Handshaking("Kk", SESSION_SUITE, prologue, TRUE, si, sr, no, ei) = i0
  BY <1>1, <1>4, <1>6, <1>23, <1>25, Zenon DEF Handshaking, Hs
<1>8. Handshaking("Kk", SESSION_SUITE, prologue, FALSE, sr, si, no, er) = r0
  BY <1>1, <1>4, <1>6, <1>23, <1>25, Zenon DEF Handshaking, Hs
<1>9. PICK es, ss, ee, se : /\ es = diffie_hellman(ei, sr) /\ ss = diffie_hellman(si, sr)
                            /\ ee = diffie_hellman(ei, er) /\ se = diffie_hellman(si, er)
  OBVIOUS
<1>10. PICK c1, c2, c3, c4, h1, g1, h2 :
         /\ Append(suite, es) = c1 /\ Append(c1, ss) = c2 /\ Append(c2, ee) = c3 /\ Append(c3, se) = c4
         /\ Append(h, ei) = h1 /\ Append(h1, Mixed(c2, 0, Payload)) = g1 /\ Append(g1, er) = h2
  OBVIOUS
<1>11. PICK m1, m2 : m1 = <<ei, Sealed(c2, 0, h1, Payload)>> /\ m2 = <<er, Sealed(c4, 0, h2, Payload)>>
  OBVIOUS
<1>12. PICK i1, r1 : i1 = Hs(x, Sym(c2, g1, Rekey(c2), 1), sr, no, 1) /\ r1 = Hs(y, Sym(c2, g1, Rekey(c2), 1), si, ei, 1)
  OBVIOUS
<1>24. PICK key : key = Rekey(c2)
  OBVIOUS
<1>13. /\ Ended(x, c2, h1, c2, 0, sr, no, 0) = i1
       /\ Ended(y, c2, h1, c2, 0, si, ei, 0) = r1
  <2>1. 0 + 1 = 1
    OBVIOUS
  <2> QED
    BY <1>10, <1>12, <2>1, Zenon DEF Ended
<1>14. write_message(i0) = [hs |-> i1, message |-> m1]
  <2>1. TokensOf(Hs(x, Sym(suite, h, no, 0), sr, no, 0)) = <<"Ephemeral", "EphemeralStatic", "StaticStatic">>
    BY <1>4, <1>23, KkTurns
  <2>2. KkSecrets(x, sr, no, 0, "EphemeralStatic", "StaticStatic", es, ss)
    BY <1>4, <1>9, Materials DEF KkSecrets
  <2>3. "EphemeralStatic" \in Secrets /\ "StaticStatic" \in Secrets
    BY DEF Secrets
  <2>4. KkMixes(i0, x, suite, h, no, 0, sr, no, 0, x.e, no, "EphemeralStatic", "StaticStatic",
                es, ss, c1, c2, h1)
    BY <1>4, <1>6, <1>10, <1>23, <2>1, <2>2, <2>3, Zenon DEF KkMixes
  <2>5. write_message(i0) =
          [hs |-> Ended(x, c2, h1, c2, 0, sr, no, 0), message |-> <<x.e, Sealed(c2, 0, h1, Payload)>>]
    BY ONLY <2>4, KkWrites
  <2> QED
    BY <1>4, <1>6, <1>11, <1>13, <2>5, Zenon
<1>15. read_message(r0, m1) = <<r1>>
  <2>1. TokensOf(r0) = <<"Ephemeral", "EphemeralStatic", "StaticStatic">> /\ ~is_complete(r0) /\ ~local_writes_next(r0)
    BY <1>4, <1>6, <1>23, KkTurns
  <2>2. KkSecrets(y, si, ei, 0, "EphemeralStatic", "StaticStatic", es, ss)
    BY <1>4, <1>9, Materials, DhSymmetric DEF KkSecrets
  <2>3. "EphemeralStatic" \in Secrets /\ "StaticStatic" \in Secrets
    BY DEF Secrets
  <2>5. KkMixes(r0, y, suite, h, no, 0, si, no, 0, ei, ei, "EphemeralStatic", "StaticStatic",
                es, ss, c1, c2, h1)
    BY <1>6, <1>10, <1>23, <2>1, <2>2, <2>3, Zenon DEF KkMixes
  <2>4. read_message(r0, <<ei, Sealed(c2, 0, h1, Payload)>>) = <<Ended(y, c2, h1, c2, 0, si, ei, 0)>>
    BY ONLY <2>1, <2>5, KkReads
  <2> QED
    BY <1>11, <1>13, <2>4, Zenon
<1>16. PICK i2, r2 : i2 = Ended(x, c4, h2, c4, 0, sr, er, 1) /\ r2 = Ended(y, c4, h2, c4, 0, si, ei, 1)
  OBVIOUS
<1>17. write_message(r1) = [hs |-> r2, message |-> m2]
  <2>1. TokensOf(Hs(y, Sym(c2, g1, key, 1), si, ei, 1)) = <<"Ephemeral", "EphemeralEphemeral", "StaticEphemeral">>
    BY <1>4, <1>23, KkTurns
  <2>2. KkSecrets(y, si, ei, 1, "EphemeralEphemeral", "StaticEphemeral", ee, se)
    BY <1>4, <1>9, Materials, DhSymmetric DEF KkSecrets
  <2>3. "EphemeralEphemeral" \in Secrets /\ "StaticEphemeral" \in Secrets
    BY DEF Secrets
  <2>4. KkMixes(r1, y, c2, g1, key, 1, si, ei, 1, y.e, ei, "EphemeralEphemeral", "StaticEphemeral",
                ee, se, c3, c4, h2)
    BY <1>4, <1>10, <1>12, <1>23, <1>24, <2>1, <2>2, <2>3, Zenon DEF KkMixes
  <2>5. write_message(r1) =
          [hs |-> Ended(y, c4, h2, c4, 0, si, ei, 1), message |-> <<y.e, Sealed(c4, 0, h2, Payload)>>]
    BY ONLY <2>4, KkWrites
  <2> QED
    BY <1>4, <1>11, <1>12, <1>16, <1>24, <2>5, Zenon
<1>18. read_message(i1, m2) = <<i2>>
  <2>1. /\ TokensOf(i1) = <<"Ephemeral", "EphemeralEphemeral", "StaticEphemeral">>
        /\ ~is_complete(i1) /\ ~local_writes_next(i1)
    BY <1>4, <1>12, <1>23, KkTurns
  <2>2. KkSecrets(x, sr, er, 1, "EphemeralEphemeral", "StaticEphemeral", ee, se)
    BY <1>4, <1>9, Materials DEF KkSecrets
  <2>3. "EphemeralEphemeral" \in Secrets /\ "StaticEphemeral" \in Secrets
    BY DEF Secrets
  <2>5. KkMixes(i1, x, c2, g1, key, 1, sr, no, 1, er, er, "EphemeralEphemeral", "StaticEphemeral",
                ee, se, c3, c4, h2)
    BY <1>10, <1>12, <1>23, <1>24, <2>1, <2>2, <2>3, Zenon DEF KkMixes
  <2>4. read_message(i1, <<er, Sealed(c4, 0, h2, Payload)>>) = <<Ended(x, c4, h2, c4, 0, sr, er, 1)>>
    BY ONLY <2>1, <2>5, KkReads
  <2> QED
    BY <1>11, <1>16, <2>4, Zenon
<1>19. split(i2).send = split(r2).recv
  <2>1. i2.initiator = TRUE /\ i2.sym.ck = c4 /\ r2.initiator = FALSE /\ r2.sym.ck = c4
    BY <1>4, <1>16 DEF Ended, Hs, Sym
  <2> QED
    BY <2>1 DEF split, initialize_key
<1>20. <<r1>> # None /\ <<i2>> # None /\ <<r1>>[1] = r1 /\ <<i2>>[1] = i2
  BY DEF None
<1>21. PICK w1, w2 : w1 = write_message(i0) /\ w2 = write_message(r1)
  OBVIOUS
<1>22. w1.hs = i1 /\ w1.message = m1 /\ w2.hs = r2 /\ w2.message = m2
  BY <1>14, <1>17, <1>21
<1> QED
  BY <1>1, <1>2, <1>7, <1>8, <1>15, <1>18, <1>19, <1>20, <1>21, <1>22, Zenon DEF SessionOpens

-----------------------------------------------------------------------------
(* The inductive invariant of the pairing.                                 *)

\* The keys of attempt c of the desktop and of the device d in attempt a, and
\* what both share once the three messages went through.
Ei(c) == <<"ephemeral", "desk", c>>
Si(c) == <<"static", "desk", c>>
Er(d, a) == <<"ephemeral", d, a>>
Sr(d) == <<"static", d, 0>>
Pro == pairing_prologue(offer_hash("code"), TRANSPORT_STREAM)
Secret == pairing_secret("code")
DeskParty(c) == [pattern |-> "XxPsk3", initiator |-> TRUE, psk |-> Secret, s |-> Si(c), e |-> Ei(c)]
DevParty(d, a) ==
    [pattern |-> "XxPsk3", initiator |-> FALSE, psk |-> pairing_secret(Knows(d).secret), s |-> Sr(d), e |-> Er(d, a)]
Chain(d, a, c) == C6(Ei(c), Er(d, a), Sr(d), Si(c), Secret)
DeskKey(d, a, c, n) == Cipher(<<"initiator", Chain(d, a, c)>>, n)
DevKey(d, a, c, n) == Cipher(<<"responder", Chain(d, a, c)>>, n)
DeskSent(c) == After1(DeskParty(c), Pro, Ei(c), None)
DevSent(d, a, c) == After2(DevParty(d, a), Pro, Ei(c), Er(d, a), Sr(d), None, Ei(c))
DeskDone(d, a, c) ==
    After3(DeskParty(c), Pro, Ei(c), Er(d, a), Sr(d), Si(c), Secret, Sr(d), Er(d, a))
DevDone(d, a, c) ==
    After3(DevParty(d, a), Pro, Ei(c), Er(d, a), Sr(d), Si(c), Secret, Si(c), Ei(c))
Granted(a, c, g) == PairRecord(DevDone("mine", a, c), granted_profiles(g), "-")

\* The states of the two sides.
Desk(at, n, mode, hs, send, recv) ==
    [pc |-> at, attempt |-> n, mode |-> mode, hs |-> hs, send |-> send, recv |-> recv]
Dev(at, peer, hs, recv, confirmed, kept, opens) ==
    [pc |-> at, peer |-> peer, hs |-> hs, recv |-> recv, confirmed |-> confirmed, record |-> kept, opens |-> opens]

\* What a frame sent before the pair is made can be: nothing but what the two
\* sides write, and a confirmation only for what the phone has confirmed.
DeskFrame(f) ==
    \/ \E c \in Attempts : f = Handshaked("desk", Msg1(Pro, Ei(c)))
    \/ \E d \in Devices, a, c \in Attempts :
         \/ f = Handshaked("desk", Msg3(Pro, Ei(c), Er(d, a), Sr(d), Si(c), Secret))
         \/ f = Envelope("desk", DeskKey(d, a, c, 0), "PairingHello", OFFER_PROFILES)
Confirmed(x, a, c, g) == x.peer = "mine" /\ x.confirmed = <<Granted(a, c, g)>>
DeviceFrame(dev, f) ==
    \/ \E d \in Devices, a, c \in Attempts : f = Handshaked("device", Msg2(Pro, Ei(c), Er(d, a), Sr(d)))
    \/ \E a, c \in Attempts : f = Envelope("device", DevKey("mine", a, c, 0), "PairingHello", None)
    \/ \E a, c \in Attempts, g \in GrantLists :
         f = Envelope("device", DevKey("mine", a, c, 1), "PairingConfirm", g) /\ Confirmed(dev[a], a, c, g)

\* A device waits, and has confirmed nothing; or it has, and is the phone.
DeviceWaits(x, b) ==
    \/ x = Closed
    \/ \E d \in Devices :
         \/ x = Dev("message 1", d, None, None, None, None, FALSE)
         \/ \E c \in Attempts : x = Dev("message 3", d, <<DevSent(d, b, c)>>, None, None, None, FALSE)
DeviceConfirmed(x, b) ==
    \E c \in Attempts, g \in GrantLists :
      x = Dev("confirm", "mine", None, DeskKey("mine", b, c, 1), <<Granted(b, c, g)>>, None, FALSE)

\* Where the command waits.
DeskWaits(x, n, mode) ==
    \/ x = Desk("off", n, mode, None, None, None) \/ x = Desk("failed", n, mode, None, None, None)
    \/ n \in Attempts /\ x = Desk("connect", n, mode, None, None, None)
    \/ n \in Attempts /\ x = Desk("message 2", n, mode, <<DeskSent(n)>>, None, None)
    \/ /\ n \in Attempts
       /\ \E d \in Devices, a \in Attempts :
            \/ x = Desk("hello", n, mode, <<DeskDone(d, a, n)>>, DeskKey(d, a, n, 1), DevKey(d, a, n, 0))
            \/ x = Desk("confirm", n, mode, <<DeskDone(d, a, n)>>, DeskKey(d, a, n, 1), DevKey(d, a, n, 1))

\* Before the pair is made: a device not yet connected is closed.
NotYetPaired ==
    /\ record = None /\ vault = None
    /\ \E n \in Nat, mode \in Modes \cup {"-"} : DeskWaits(desk, n, mode)
    /\ \A f \in frames : DeskFrame(f) \/ DeviceFrame(device, f)
    /\ \A b \in Attempts : DeviceWaits(device[b], b) \/ DeviceConfirmed(device[b], b)
    /\ \A b \in Attempts : b > desk.attempt \/ (b = desk.attempt /\ desk.pc = "connect") => device[b] = Closed

\* The pair is made with the phone of attempt a: only its confirmation is left
\* to be read, and only that phone keeps the pair.
PairMade(a, c, g, mode) ==
    /\ record = <<PairRecord(DeskDone("mine", a, c), granted_profiles(g), mode)>>
    /\ frames = {Envelope("desk", DeskKey("mine", a, c, 1), "PairingConfirm", granted_profiles(g))}
    /\ Confirmed(device[a], a, c, g)
    /\ \A b \in Attempts :
         \/ device[b] = Closed \/ DeviceConfirmed(device[b], b)
         \/ b = a /\ device[b] = Dev("closed", "mine", None, None, <<Granted(a, c, g)>>, <<Granted(a, c, g)>>, TRUE)
Paired ==
    /\ \E at \in {"certificate", "paired", "unsaved"}, n \in Nat, mode \in Modes \cup {"-"} :
         desk = Desk(at, n, mode, None, None, None)
    /\ \E a, c \in Attempts, g \in GrantLists, mode \in Modes \cup {"-"} : PairMade(a, c, g, mode)
    /\ vault # None => vault[1].pair_id = record[1].pair_id

\* Over a pair made earlier nothing of this happens.
Using ==
    /\ desk.pc = "use" /\ frames = {}
    /\ record = <<EarlierPair("desk")>> /\ vault = record
    /\ \A b \in Attempts : device[b] = Dev("closed", "mine", None, None, None, <<EarlierPair("mine")>>, TRUE)

PairInv ==
    /\ device = [b \in Attempts |-> device[b]]
    /\ NotYetPaired \/ Paired \/ Using

\* Keys that agree are those of the same attempts of the same device.
LEMMA ChainInjective ==
    ASSUME NEW d, NEW a, NEW c, NEW d2, NEW a2, NEW c2, Chain(d, a, c) = Chain(d2, a2, c2)
    PROVE  d = d2 /\ a = a2 /\ c = c2
<1>1. Ei(c) = Ei(c2) /\ Er(d, a) = Er(d2, a2)
  <2>1. C6(Ei(c), Er(d, a), Sr(d), Si(c), Secret) = C6(Ei(c2), Er(d2, a2), Sr(d2), Si(c2), Secret)
    BY Zenon DEF Chain
  <2> QED
    BY ONLY <2>1, C6Injective
<1> QED
  BY <1>1 DEF Ei, Er

LEMMA DeskPartyIs ==
    ASSUME NEW c, NEW x, x = DeskParty(c)
    PROVE  /\ Party(x) /\ x.initiator = TRUE /\ x.psk = Secret /\ x.s = Si(c) /\ x.e = Ei(c)
           /\ x.pattern = "XxPsk3"
<1>1. PICK si, ei, q : si = Si(c) /\ ei = Ei(c) /\ q = Secret
  OBVIOUS
<1>2. x = [pattern |-> "XxPsk3", initiator |-> TRUE, psk |-> q, s |-> si, e |-> ei]
  BY <1>1, Zenon DEF DeskParty
<1> QED
  BY <1>1, <1>2 DEF Party
LEMMA DevPartyIs ==
    ASSUME NEW d, NEW a, NEW y, y = DevParty(d, a)
    PROVE  /\ Party(y) /\ y.initiator = FALSE /\ y.psk = pairing_secret(Knows(d).secret) /\ y.s = Sr(d)
           /\ y.e = Er(d, a) /\ y.pattern = "XxPsk3"
<1>1. PICK sr, er, q : sr = Sr(d) /\ er = Er(d, a) /\ q = pairing_secret(Knows(d).secret)
  OBVIOUS
<1>2. y = [pattern |-> "XxPsk3", initiator |-> FALSE, psk |-> q, s |-> sr, e |-> er]
  BY <1>1, Zenon DEF DevParty
<1> QED
  BY <1>1, <1>2 DEF Party

\* Both start with the prologue of the offer they know.
LEMMA Starts ==
    ASSUME NEW p
    PROVE  mix_hash(Symmetric(PAIRING_SUITE), p) = Sym(<<PAIRING_SUITE>>, H0(p), None, 0)
<1>1. PICK suite : suite = <<PAIRING_SUITE>>
  OBVIOUS
<1>2. Symmetric(PAIRING_SUITE) = Sym(suite, suite, None, 0)
  BY <1>1, Zenon DEF Symmetric, Sym, Cipher, initialize_key
<1>3. mix_hash(Sym(suite, suite, None, 0), p) = Sym(suite, Append(suite, p), None, 0)
  BY SymMixHash
<1>4. Append(suite, p) = H0(p)
  BY <1>1, Grows2 DEF H0
<1> QED
  BY <1>1, <1>2, <1>3, <1>4, Zenon
LEMMA DeskStarts ==
    ASSUME NEW c
    PROVE  Handshaking("XxPsk3", PAIRING_SUITE, Pro, TRUE, Si(c), None, Secret, Ei(c)) = Start(DeskParty(c), Pro)
<1>1. PICK x : x = DeskParty(c)
  OBVIOUS
<1>2. /\ x.initiator = TRUE /\ x.psk = Secret /\ x.s = Si(c) /\ x.e = Ei(c) /\ x.pattern = "XxPsk3"
  BY <1>1, DeskPartyIs
<1>3. "XxPsk3" # "Kk"
  OBVIOUS
<1> QED
  BY <1>1, <1>2, <1>3, Starts, Zenon DEF Handshaking, Start, Hs
LEMMA DevStarts ==
    ASSUME NEW d, NEW a, NEW p
    PROVE  Handshaking("XxPsk3", PAIRING_SUITE, p, FALSE, Sr(d), None, pairing_secret(Knows(d).secret), Er(d, a)) =
             Start(DevParty(d, a), p)
<1>1. PICK y : y = DevParty(d, a)
  OBVIOUS
<1>2. /\ y.initiator = FALSE /\ y.psk = pairing_secret(Knows(d).secret) /\ y.s = Sr(d) /\ y.e = Er(d, a)
      /\ y.pattern = "XxPsk3"
  BY <1>1, DevPartyIs
<1>3. "XxPsk3" # "Kk"
  OBVIOUS
<1> QED
  BY <1>1, <1>2, <1>3, Starts, Zenon DEF Handshaking, Start, Hs

\* The first message.
LEMMA DeskWrites1 ==
    ASSUME NEW c
    PROVE  write_message(Start(DeskParty(c), Pro)) = [hs |-> DeskSent(c), message |-> Msg1(Pro, Ei(c))]
<1>1. PICK x : x = DeskParty(c)
  OBVIOUS
<1>2. Party(x) /\ x.e = Ei(c)
  BY <1>1, DeskPartyIs
<1>3. write_message(Start(x, Pro)) = [hs |-> After1(x, Pro, x.e, None), message |-> Msg1(Pro, x.e)]
  BY ONLY <1>2, Writes1
<1> QED
  BY <1>1, <1>2, <1>3, Zenon DEF DeskSent
LEMMA DevReads1 ==
    ASSUME NEW d, NEW a, NEW c, NEW p, NEW m, m = read_message(Start(DevParty(d, a), p), Msg1(Pro, Ei(c))), m # None
    PROVE  m = <<After1(DevParty(d, a), Pro, Ei(c), Ei(c))>>
<1>1. PICK y, i : y = DevParty(d, a) /\ i = Ei(c)
  OBVIOUS
<1>2. Party(y) /\ ~y.initiator
  BY <1>1, DevPartyIs
<1>3. m = read_message(Start(y, p), <<i, Sealed(C1(i), 0, H1(Pro, i), Payload)>>)
  BY <1>1, Zenon DEF Msg1
<1>4. H1(Pro, i) = H1(p, i) /\ m = <<After1(y, p, i, i)>>
  BY <1>2, <1>3, Reads1
<1>5. p = Pro
  BY <1>4 DEF H1
<1> QED
  BY <1>1, <1>4, <1>5, Zenon
LEMMA DevReadsNo3 ==
    ASSUME NEW d, NEW a, NEW p, NEW i, NEW r, NEW t, NEW z, NEW q
    PROVE  read_message(Start(DevParty(d, a), p), Msg3(Pro, i, r, t, z, q)) = None
<1>1. PICK y, m : y = DevParty(d, a) /\ m = read_message(Start(y, p), Msg3(Pro, i, r, t, z, q))
  OBVIOUS
<1>2. Party(y) /\ ~y.initiator
  BY <1>1, DevPartyIs
<1>3. PICK k, c, h : k = Sealed(C4(i, r, t), 1, G2(Pro, i, r, t), z) /\ c = C6(i, r, t, z, q) /\ h = H5(Pro, i, r, t, z, q)
  OBVIOUS
<1>4. m = read_message(Start(y, p), <<k, Sealed(c, 0, h, Payload)>>)
  BY <1>1, <1>3, Zenon DEF Msg3
<1>5. m # None => c = C1(k)
  BY <1>2, <1>4, Reads1
<1>6. c # C1(k)
  BY <1>3, C6NotC1
<1> QED
  BY <1>1, <1>5, <1>6, Zenon

\* The second.
LEMMA DevWrites2 ==
    ASSUME NEW d, NEW a, NEW c
    PROVE  write_message(After1(DevParty(d, a), Pro, Ei(c), Ei(c))) =
             [hs |-> DevSent(d, a, c), message |-> Msg2(Pro, Ei(c), Er(d, a), Sr(d))]
<1>1. PICK y, i : y = DevParty(d, a) /\ i = Ei(c)
  OBVIOUS
<1>2. Party(y) /\ ~y.initiator /\ y.s = Sr(d) /\ y.e = Er(d, a)
  BY <1>1, DevPartyIs
<1>3. write_message(After1(y, Pro, i, i)) = [hs |-> After2(y, Pro, i, y.e, y.s, None, i), message |-> Msg2(Pro, i, y.e, y.s)]
  BY ONLY <1>2, Writes2
<1> QED
  BY <1>1, <1>2, <1>3, Zenon DEF DevSent
LEMMA DeskReads2 ==
    ASSUME NEW n, NEW d, NEW a, NEW c, NEW m, m = read_message(DeskSent(n), Msg2(Pro, Ei(c), Er(d, a), Sr(d))), m # None
    PROVE  /\ c = n
           /\ m = <<After2(DeskParty(n), Pro, Ei(n), Er(d, a), Sr(d), Sr(d), Er(d, a))>>
<1>1. PICK x, i, i2, r, t : x = DeskParty(n) /\ i = Ei(n) /\ i2 = Ei(c) /\ r = Er(d, a) /\ t = Sr(d)
  OBVIOUS
<1>2. Party(x) /\ x.initiator /\ x.e = i
  BY <1>1, DeskPartyIs
<1>3. m = read_message(After1(x, Pro, x.e, None), Msg2(Pro, i2, r, t))
  BY <1>1, <1>2, Zenon DEF DeskSent
<1>4. i2 = x.e /\ m = <<After2(x, Pro, x.e, r, t, t, r)>>
  BY <1>2, <1>3, Reads2
<1>5. c = n
  BY <1>1, <1>2, <1>4 DEF Ei
<1> QED
  BY <1>1, <1>2, <1>4, <1>5, Zenon

\* The third.
LEMMA DeskWrites3 ==
    ASSUME NEW n, NEW d, NEW a
    PROVE  write_message(After2(DeskParty(n), Pro, Ei(n), Er(d, a), Sr(d), Sr(d), Er(d, a))) =
             [hs |-> DeskDone(d, a, n), message |-> Msg3(Pro, Ei(n), Er(d, a), Sr(d), Si(n), Secret)]
<1>1. PICK x, r, t : x = DeskParty(n) /\ r = Er(d, a) /\ t = Sr(d)
  OBVIOUS
<1>2. Party(x) /\ x.initiator /\ x.e = Ei(n) /\ x.s = Si(n) /\ x.psk = Secret
  BY <1>1, DeskPartyIs
<1>3. write_message(After2(x, Pro, x.e, r, t, t, r)) =
        [hs |-> After3(x, Pro, x.e, r, t, x.s, x.psk, t, r), message |-> Msg3(Pro, x.e, r, t, x.s, x.psk)]
  BY ONLY <1>2, Writes3
<1> QED
  BY <1>1, <1>2, <1>3, Zenon DEF DeskDone
LEMMA DevReads3 ==
    ASSUME NEW d, NEW a, NEW c, NEW d2, NEW a2, NEW c2, NEW m,
           m = read_message(DevSent(d, a, c), Msg3(Pro, Ei(c2), Er(d2, a2), Sr(d2), Si(c2), Secret)), m # None
    PROVE  d = "mine" /\ m = <<DevDone("mine", a, c)>>
<1>1. PICK y, i, i2, r2, t2, z : /\ y = DevParty(d, a) /\ i = Ei(c) /\ i2 = Ei(c2) /\ r2 = Er(d2, a2)
                                 /\ t2 = Sr(d2) /\ z = Si(c2)
  OBVIOUS
<1>2. Party(y) /\ ~y.initiator /\ y.s = Sr(d) /\ y.e = Er(d, a) /\ y.psk = pairing_secret(Knows(d).secret)
  BY <1>1, DevPartyIs
<1>3. m = read_message(After2(y, Pro, i, y.e, y.s, None, i), Msg3(Pro, i2, r2, t2, z, Secret))
  BY <1>1, <1>2, Zenon DEF DevSent
<1>4. i2 = i /\ Secret = y.psk /\ m = <<After3(y, Pro, i, y.e, y.s, z, Secret, z, i)>>
  BY <1>2, <1>3, Reads3
<1>5. c = c2
  BY <1>1, <1>4 DEF Ei
<1>6. d = "mine"
  <2>1. pairing_secret("code") = pairing_secret(Knows(d).secret)
    BY <1>2, <1>4 DEF Secret
  <2>2. Knows(d).secret = "code"
    BY <2>1 DEF pairing_secret
  <2>3. Knows(d).secret = IF d = "mine" THEN "code" ELSE "another"
    BY DEF Knows
  <2> QED
    BY <2>2, <2>3
<1> QED
  BY <1>1, <1>2, <1>4, <1>5, <1>6, Zenon DEF DevDone
LEMMA DevReadsNo1 ==
    ASSUME NEW d, NEW a, NEW c, NEW c2
    PROVE  read_message(DevSent(d, a, c), Msg1(Pro, Ei(c2))) = None
<1>1. PICK y, i, r, t : y = DevParty(d, a) /\ i = Ei(c) /\ r = Er(d, a) /\ t = Sr(d)
  OBVIOUS
<1>2. Party(y)
  BY <1>1, DevPartyIs
<1>3. read_message(After2(y, Pro, i, r, t, None, i), Msg1(Pro, <<"ephemeral", "desk", c2>>)) = None
  BY ONLY <1>2, Reads3No1
<1> QED
  BY <1>1, <1>3, Zenon DEF DevSent, Ei

\* The keys both sides end with, each the other's.
LEMMA DeskSplits ==
    ASSUME NEW d, NEW a, NEW c
    PROVE  split(DeskDone(d, a, c)) = [send |-> DeskKey(d, a, c, 0), recv |-> DevKey(d, a, c, 0)]
<1>1. PICK hs, x, ck, h : /\ hs = DeskDone(d, a, c) /\ x = DeskParty(c) /\ ck = Chain(d, a, c)
                          /\ h = G3(Pro, Ei(c), Er(d, a), Sr(d), Si(c), Secret)
  OBVIOUS
<1>2. hs = Hs(x, Sym(ck, h, Rekey(ck), 1), Sr(d), Er(d, a), 3)
  BY <1>1, Zenon DEF DeskDone, After3, Chain
<1>3. hs.sym.ck = ck /\ hs.initiator = x.initiator
  BY <1>2 DEF Hs, Sym
<1>4. hs.initiator = TRUE
  BY <1>1, <1>3, DeskPartyIs
<1>5. split(hs) = [send |-> initialize_key(<<"initiator", ck>>), recv |-> initialize_key(<<"responder", ck>>)]
  BY <1>3, <1>4 DEF split
<1> QED
  BY <1>1, <1>5, Zenon DEF DeskKey, DevKey, Cipher, initialize_key
LEMMA DevSplits ==
    ASSUME NEW d, NEW a, NEW c
    PROVE  split(DevDone(d, a, c)) = [send |-> DevKey(d, a, c, 0), recv |-> DeskKey(d, a, c, 0)]
<1>1. PICK hs, x, ck, h : /\ hs = DevDone(d, a, c) /\ x = DevParty(d, a) /\ ck = Chain(d, a, c)
                          /\ h = G3(Pro, Ei(c), Er(d, a), Sr(d), Si(c), Secret)
  OBVIOUS
<1>2. hs = Hs(x, Sym(ck, h, Rekey(ck), 1), Si(c), Ei(c), 3)
  BY <1>1, Zenon DEF DevDone, After3, Chain
<1>3. hs.sym.ck = ck /\ hs.initiator = x.initiator
  BY <1>2 DEF Hs, Sym
<1>4. hs.initiator = FALSE
  BY <1>1, <1>3, DevPartyIs
<1>5. split(hs) = [send |-> initialize_key(<<"responder", ck>>), recv |-> initialize_key(<<"initiator", ck>>)]
  BY <1>3, <1>4 DEF split
<1> QED
  BY <1>1, <1>5, Zenon DEF DeskKey, DevKey, Cipher, initialize_key
LEMMA KeysUsed ==
    ASSUME NEW d, NEW a, NEW c, NEW n \in Nat
    PROVE  /\ Used(DeskKey(d, a, c, n)) = DeskKey(d, a, c, n + 1)
           /\ Used(DevKey(d, a, c, n)) = DevKey(d, a, c, n + 1)
<1>1. PICK i, r : i = <<"initiator", Chain(d, a, c)>> /\ r = <<"responder", Chain(d, a, c)>>
  OBVIOUS
<1>2. i # None /\ r # None
  BY <1>1 DEF None
<1>3. Used(Cipher(i, n)) = Cipher(i, n + 1) /\ Used(Cipher(r, n)) = Cipher(r, n + 1)
  BY <1>2 DEF Used, Cipher
<1> QED
  BY <1>1, <1>3, Zenon DEF DeskKey, DevKey

\* Both records are of the same pair, seen from its two sides.
LEMMA DoneIs ==
    ASSUME NEW d, NEW a, NEW c, NEW hs, hs = DeskDone(d, a, c) \/ hs = DevDone(d, a, c)
    PROVE  /\ hs.sym.h = G3(Pro, Ei(c), Er(d, a), Sr(d), Si(c), Secret)
           /\ hs = DeskDone(d, a, c) => hs.s = Si(c) /\ hs.rs = Sr(d)
           /\ hs = DevDone(d, a, c) => hs.s = Sr(d) /\ hs.rs = Si(c)
<1>1. PICK x, y, ck, h : /\ x = DeskParty(c) /\ y = DevParty(d, a) /\ ck = Chain(d, a, c)
                         /\ h = G3(Pro, Ei(c), Er(d, a), Sr(d), Si(c), Secret)
  OBVIOUS
<1>2. DeskDone(d, a, c) = Hs(x, Sym(ck, h, Rekey(ck), 1), Sr(d), Er(d, a), 3)
  BY <1>1, Zenon DEF DeskDone, After3, Chain
<1>3. DevDone(d, a, c) = Hs(y, Sym(ck, h, Rekey(ck), 1), Si(c), Ei(c), 3)
  BY <1>1, Zenon DEF DevDone, After3, Chain
<1>4. x.s = Si(c) /\ y.s = Sr(d)
  BY <1>1, DeskPartyIs, DevPartyIs
<1>5. ASSUME hs = DeskDone(d, a, c) PROVE hs.sym.h = h /\ hs.s = Si(c) /\ hs.rs = Sr(d)
  <2>1. hs = Hs(x, Sym(ck, h, Rekey(ck), 1), Sr(d), Er(d, a), 3)
    BY <1>2, <1>5, Zenon
  <2>2. hs.sym.h = h /\ hs.s = x.s /\ hs.rs = Sr(d)
    BY ONLY <2>1 DEF Hs, Sym
  <2> QED
    BY <1>4, <2>2, Zenon
<1>6. ASSUME hs = DevDone(d, a, c) PROVE hs.sym.h = h /\ hs.s = Sr(d) /\ hs.rs = Si(c)
  <2>1. hs = Hs(y, Sym(ck, h, Rekey(ck), 1), Si(c), Ei(c), 3)
    BY <1>3, <1>6, Zenon
  <2>2. hs.sym.h = h /\ hs.s = y.s /\ hs.rs = Si(c)
    BY ONLY <2>1 DEF Hs, Sym
  <2> QED
    BY <1>4, <2>2, Zenon
<1> QED
  BY <1>1, <1>5, <1>6, Zenon
LEMMA RecordsMirror ==
    ASSUME NEW a, NEW c, NEW g, NEW mode
    PROVE  Mirrors(PairRecord(DeskDone("mine", a, c), granted_profiles(g), mode), Granted(a, c, g))
<1>1. PICK x, y, h, profiles : /\ x = DeskDone("mine", a, c) /\ y = DevDone("mine", a, c)
                               /\ h = G3(Pro, Ei(c), Er("mine", a), Sr("mine"), Si(c), Secret)
                               /\ profiles = granted_profiles(g)
  OBVIOUS
<1>2. x.sym.h = h /\ x.s = Si(c) /\ x.rs = Sr("mine")
  BY <1>1, DoneIs
<1>3. y.sym.h = h /\ y.s = Sr("mine") /\ y.rs = Si(c)
  BY <1>1, DoneIs
<1>4. PICK p, q : p = PairRecord(x, profiles, mode) /\ q = PairRecord(y, profiles, "-")
  OBVIOUS
<1>5. /\ p.pair_id = derive_pair_id(x.sym.h) /\ p.rendezvous_token = derive_rendezvous_token(x.sym.h)
      /\ p.local_static = x.s /\ p.remote_static = x.rs /\ p.grants_hash = derive_grants_hash(profiles)
  BY <1>4 DEF PairRecord
<1>6. /\ q.pair_id = derive_pair_id(y.sym.h) /\ q.rendezvous_token = derive_rendezvous_token(y.sym.h)
      /\ q.local_static = y.s /\ q.remote_static = y.rs /\ q.grants_hash = derive_grants_hash(profiles)
  BY <1>4 DEF PairRecord
<1>7. Mirrors(p, q)
  BY <1>2, <1>3, <1>5, <1>6, Zenon DEF Mirrors
<1> QED
  BY <1>1, <1>4, <1>7, Zenon DEF Granted

\* An envelope opens under the key, the counter and the type it was sealed
\* with, and no handshake message opens at all.
Enveloped(from, key, n, type, body) ==
    [from |-> from, kind |-> "envelope", text |-> <<"sealed", key, n, None, <<type, n, body>> >>]
LEMMA Envelopes ==
    ASSUME NEW from, NEW key, key # None, NEW n, NEW type, NEW body
    PROVE  Envelope(from, Cipher(key, n), type, body) = Enveloped(from, key, n, type, body)
<1>1. Cipher(key, n).key = key /\ Cipher(key, n).counter = n
  BY DEF Cipher
<1> QED
  BY <1>1, Zenon DEF Envelope, Enveloped, encrypt
LEMMA EnvelopeOpens ==
    ASSUME NEW from, NEW key, key # None, NEW n, NEW type, NEW body, NEW key2, key2 # None, NEW m, NEW type2,
           NEW f, f = Envelope(from, Cipher(key, n), type, body),
           Opened(f, Cipher(key2, m), type2) # None
    PROVE  key = key2 /\ n = m /\ type = type2 /\ Opened(f, Cipher(key2, m), type2) = <<body>>
<1>1. f = Enveloped(from, key, n, type, body)
  BY Envelopes
<1>2. PICK plain, text, no : plain = <<type, n, body>> /\ no = None /\ text = <<"sealed", key, n, no, plain>>
  OBVIOUS
<1>3. f.kind = "envelope" /\ f.text = text
  BY <1>1, <1>2 DEF Enveloped
<1>4. Cipher(key2, m).key = key2 /\ Cipher(key2, m).counter = m
  BY DEF Cipher
<1>5. PICK p : p = decrypt(Cipher(key2, m), None, text)
  OBVIOUS
<1>6. Len(text) = 5 /\ text[5] = plain
  BY <1>2
<1>7. SubSeq(text, 1, 4) = <<"sealed", key, n, no>>
  <2>1. PICK t : t = SubSeq(text, 1, 4)
    OBVIOUS
  <2>2. t = [i \in 1 .. 4 |-> text[i]]
    BY <1>2, <2>1
  <2>3. t = <<"sealed", key, n, no>>
    BY <1>2, <2>2
  <2> QED
    BY <2>1, <2>3
<1>8. p = IF <<"sealed", key, n, no>> = <<"sealed", key2, m, no>> THEN <<plain>> ELSE None
  BY <1>2, <1>4, <1>5, <1>6, <1>7 DEF decrypt
<1>9. <<"sealed", key, n, no>> = <<"sealed", key2, m, no>> <=> key = key2 /\ n = m
  OBVIOUS
<1>10. PICK o : o = Opened(f, Cipher(key2, m), type2)
  OBVIOUS
<1>11. o = IF p = None THEN None ELSE IF p[1][1] # type2 \/ p[1][2] # m THEN None ELSE <<p[1][3]>>
  BY <1>3, <1>4, <1>5, <1>10, Zenon DEF Opened
<1>12. p = <<plain>> /\ key = key2 /\ n = m
  BY <1>8, <1>9, <1>10, <1>11, Zenon
<1>13. p[1] = plain /\ plain[1] = type /\ plain[2] = n /\ plain[3] = body
  BY <1>2, <1>12
<1> QED
  BY <1>10, <1>11, <1>12, <1>13
LEMMA NoiseNotOpened ==
    ASSUME NEW from, NEW message, NEW cipher, NEW type
    PROVE  Opened(Handshaked(from, message), cipher, type) = None
<1>1. Handshaked(from, message).kind = "noise"
  BY DEF Handshaked
<1>2. "noise" # "envelope"
  OBVIOUS
<1> QED
  BY <1>1, <1>2, Zenon DEF Opened

\* The fields of a frame and of a state.
LEMMA FrameFields ==
    ASSUME NEW from, NEW message, NEW cipher, NEW type, NEW body
    PROVE  /\ Handshaked(from, message).from = from /\ Handshaked(from, message).kind = "noise"
           /\ Handshaked(from, message).text = message
           /\ Envelope(from, cipher, type, body).from = from
           /\ Envelope(from, cipher, type, body).kind = "envelope"
<1>1. PICK text : text = encrypt(cipher, None, <<type, cipher.counter, body>>)
  OBVIOUS
<1>2. Envelope(from, cipher, type, body) = [from |-> from, kind |-> "envelope", text |-> text]
  BY <1>1, Zenon DEF Envelope
<1> QED
  BY <1>2 DEF Handshaked
LEMMA FramesFrom ==
    ASSUME NEW dev, NEW f
    PROVE  /\ DeskFrame(f) => f.from = "desk"
           /\ DeviceFrame(dev, f) => f.from = "device"
<1>1. DeskFrame(f) => f.from = "desk"
  BY FrameFields DEF DeskFrame
<1>2. DeviceFrame(dev, f) => f.from = "device"
  BY FrameFields DEF DeviceFrame
<1> QED
  BY <1>1, <1>2
LEMMA DevFields ==
    ASSUME NEW at, NEW peer, NEW hs, NEW recv, NEW confirmed, NEW kept, NEW opens
    PROVE  LET x == Dev(at, peer, hs, recv, confirmed, kept, opens) IN
           /\ x.pc = at /\ x.peer = peer /\ x.hs = hs /\ x.recv = recv /\ x.confirmed = confirmed
           /\ x.record = kept /\ x.opens = opens
  BY DEF Dev
LEMMA DeskFields ==
    ASSUME NEW at, NEW n, NEW mode, NEW hs, NEW send, NEW recv
    PROVE  LET x == Desk(at, n, mode, hs, send, recv) IN
           x.pc = at /\ x.attempt = n /\ x.mode = mode /\ x.hs = hs /\ x.send = send /\ x.recv = recv
  BY DEF Desk
LEMMA ClosedIs ==
    Closed = Dev("closed", "-", None, None, None, None, FALSE)
  BY Zenon DEF Closed, Dev

\* A device that waits has confirmed nothing.
LEMMA WaitsUnconfirmed ==
    ASSUME NEW x, NEW b, DeviceWaits(x, b)
    PROVE  x.confirmed = None /\ x.record = None /\ x.pc \in {"closed", "message 1", "message 3"}
<1>1. CASE x = Closed
  BY <1>1 DEF Closed
<1>2. ASSUME NEW d \in Devices, x = Dev("message 1", d, None, None, None, None, FALSE)
      PROVE  x.confirmed = None /\ x.record = None /\ x.pc \in {"closed", "message 1", "message 3"}
  BY <1>2 DEF Dev
<1>3. ASSUME NEW d \in Devices, NEW c \in Attempts,
             x = Dev("message 3", d, <<DevSent(d, b, c)>>, None, None, None, FALSE)
      PROVE  x.confirmed = None /\ x.record = None /\ x.pc \in {"closed", "message 1", "message 3"}
  BY <1>3 DEF Dev
<1> QED
  BY <1>1, <1>2, <1>3, Zenon DEF DeviceWaits
LEMMA ConfirmedWaits ==
    ASSUME NEW x, NEW b, DeviceConfirmed(x, b)
    PROVE  x.confirmed # None /\ x.record = None /\ x.pc = "confirm"
<1>1. PICK c \in Attempts, g \in GrantLists :
        x = Dev("confirm", "mine", None, DeskKey("mine", b, c, 1), <<Granted(b, c, g)>>, None, FALSE)
  BY Zenon DEF DeviceConfirmed
<1>2. x.confirmed = <<Granted(b, c, g)>> /\ x.record = None /\ x.pc = "confirm"
  BY <1>1 DEF Dev
<1>3. <<Granted(b, c, g)>> # None
  BY DEF None
<1> QED
  BY <1>2, <1>3, Zenon

\* Frames stay what they were when a device that has confirmed nothing moves.
LEMMA FramesStay ==
    ASSUME NEW dev, NEW dev2, NEW f, DeviceFrame(dev, f),
           \A a \in Attempts : dev[a].confirmed # None => dev2[a] = dev[a]
    PROVE  DeviceFrame(dev2, f)
<1>1. ASSUME NEW a \in Attempts, NEW c, NEW g, Confirmed(dev[a], a, c, g) PROVE Confirmed(dev2[a], a, c, g)
  <2>1. dev[a].confirmed # None
    BY <1>1 DEF Confirmed, None
  <2> QED
    BY <1>1, <2>1, Zenon
<1> QED
  BY <1>1, Zenon DEF DeviceFrame

\* An envelope under a key of a pairing opens with that key only.
LEMMA DeskKeyOpens ==
    ASSUME NEW from, NEW d, NEW a, NEW c, NEW n, NEW type, NEW body, NEW f,
           f = Envelope(from, DeskKey(d, a, c, n), type, body),
           NEW d2, NEW a2, NEW c2, NEW m, NEW type2, Opened(f, DeskKey(d2, a2, c2, m), type2) # None
    PROVE  /\ d = d2 /\ a = a2 /\ c = c2 /\ n = m /\ type = type2
           /\ Opened(f, DeskKey(d2, a2, c2, m), type2) = <<body>>
<1>1. PICK k, k2 : k = <<"initiator", Chain(d, a, c)>> /\ k2 = <<"initiator", Chain(d2, a2, c2)>>
  OBVIOUS
<1>2. k # None /\ k2 # None
  BY <1>1 DEF None
<1>3. f = Envelope(from, Cipher(k, n), type, body) /\ DeskKey(d2, a2, c2, m) = Cipher(k2, m)
  BY <1>1, Zenon DEF DeskKey
<1>4. k = k2 /\ n = m /\ type = type2 /\ Opened(f, Cipher(k2, m), type2) = <<body>>
  BY <1>2, <1>3, EnvelopeOpens
<1>5. Chain(d, a, c) = Chain(d2, a2, c2)
  BY <1>1, <1>4
<1> QED
  BY <1>3, <1>4, <1>5, ChainInjective
LEMMA DevKeyOpens ==
    ASSUME NEW from, NEW d, NEW a, NEW c, NEW n, NEW type, NEW body, NEW f,
           f = Envelope(from, DevKey(d, a, c, n), type, body),
           NEW d2, NEW a2, NEW c2, NEW m, NEW type2, Opened(f, DevKey(d2, a2, c2, m), type2) # None
    PROVE  /\ d = d2 /\ a = a2 /\ c = c2 /\ n = m /\ type = type2
           /\ Opened(f, DevKey(d2, a2, c2, m), type2) = <<body>>
<1>1. PICK k, k2 : k = <<"responder", Chain(d, a, c)>> /\ k2 = <<"responder", Chain(d2, a2, c2)>>
  OBVIOUS
<1>2. k # None /\ k2 # None
  BY <1>1 DEF None
<1>3. f = Envelope(from, Cipher(k, n), type, body) /\ DevKey(d2, a2, c2, m) = Cipher(k2, m)
  BY <1>1, Zenon DEF DevKey
<1>4. k = k2 /\ n = m /\ type = type2 /\ Opened(f, Cipher(k2, m), type2) = <<body>>
  BY <1>2, <1>3, EnvelopeOpens
<1>5. Chain(d, a, c) = Chain(d2, a2, c2)
  BY <1>1, <1>4
<1> QED
  BY <1>3, <1>4, <1>5, ChainInjective

\* A step that leaves the pair unmade keeps the invariant when each side moves
\* to one of its states and every new frame is of a known form.
FreshDevices(k, dev) ==
    \A b \in Attempts : b > k.attempt \/ (b = k.attempt /\ k.pc = "connect") => dev[b] = Closed
LEMMA PairingMoves ==
    ASSUME PairInv, NotYetPaired, record' = record, vault' = vault,
           device' = [b \in Attempts |-> device'[b]],
           \A b \in Attempts : \/ device'[b] = device[b]
                               \/ /\ device[b].confirmed = None
                                  /\ DeviceWaits(device'[b], b) \/ DeviceConfirmed(device'[b], b),
           NEW n \in Nat, NEW mode \in Modes \cup {"-"}, DeskWaits(desk', n, mode),
           \A f \in frames' : f \in frames \/ DeskFrame(f) \/ DeviceFrame(device', f),
           FreshDevices(desk', device')
    PROVE  PairInv'
<1>1. record = None /\ vault = None
  BY Zenon DEF NotYetPaired
<1>2. \A a \in Attempts : device[a].confirmed # None => device'[a] = device[a]
  OBVIOUS
<1>3. \A f \in frames' : DeskFrame(f) \/ DeviceFrame(device', f)
  <2>1. \A f \in frames : DeviceFrame(device, f) => DeviceFrame(device', f)
    BY <1>2, FramesStay
  <2> QED
    BY <2>1, Zenon DEF NotYetPaired
<1>4. \A b \in Attempts : DeviceWaits(device'[b], b) \/ DeviceConfirmed(device'[b], b)
  BY Zenon DEF NotYetPaired
<1>5. NotYetPaired'
  BY <1>1, <1>3, <1>4, Zenon DEF NotYetPaired, FreshDevices
<1> QED
  BY <1>5, Zenon DEF PairInv

\* Where the desktop is, in each of the three phases.
Early == {"off", "failed", "connect", "message 2", "hello", "confirm"}
LEMMA DeskWaitsAt ==
    ASSUME NEW x, NEW n, NEW mode, DeskWaits(x, n, mode)
    PROVE  x.pc \in Early /\ x.attempt = n
<1>1. \A at, hs, send, recv : x = Desk(at, n, mode, hs, send, recv) => x.pc = at /\ x.attempt = n
  BY DEF Desk
<1> QED
  BY <1>1 DEF DeskWaits, Early
LEMMA EarlyIsUnpaired ==
    ASSUME PairInv, desk.pc \in Early
    PROVE  NotYetPaired
<1>1. CASE Paired
  <2>1. PICK at \in {"certificate", "paired", "unsaved"}, n \in Nat, mode \in Modes \cup {"-"} :
          desk = Desk(at, n, mode, None, None, None)
    BY <1>1, Zenon DEF Paired
  <2>2. desk.pc = at
    BY <2>1 DEF Desk
  <2> QED
    BY <2>1, <2>2 DEF Early
<1>2. CASE Using
  BY <1>2 DEF Using, Early
<1> QED
  BY <1>1, <1>2, Zenon DEF PairInv
\* Which state of the command it is.
LEMMA DeskAt ==
    ASSUME NotYetPaired
    PROVE  \E n \in Nat, mode \in Modes \cup {"-"} :
             /\ DeskWaits(desk, n, mode) /\ desk.attempt = n
             /\ desk.pc \in {"off", "failed"} =>
                  desk = Desk("off", n, mode, None, None, None) \/ desk = Desk("failed", n, mode, None, None, None)
             /\ desk.pc = "connect" => n \in Attempts /\ desk = Desk("connect", n, mode, None, None, None)
             /\ desk.pc = "message 2" =>
                  n \in Attempts /\ desk = Desk("message 2", n, mode, <<DeskSent(n)>>, None, None)
             /\ desk.pc = "hello" =>
                  /\ n \in Attempts
                  /\ \E d \in Devices, a \in Attempts :
                       desk = Desk("hello", n, mode, <<DeskDone(d, a, n)>>, DeskKey(d, a, n, 1), DevKey(d, a, n, 0))
             /\ desk.pc = "confirm" =>
                  /\ n \in Attempts
                  /\ \E d \in Devices, a \in Attempts :
                       desk = Desk("confirm", n, mode, <<DeskDone(d, a, n)>>, DeskKey(d, a, n, 1), DevKey(d, a, n, 1))
<1>1. PICK n \in Nat, mode \in Modes \cup {"-"} : DeskWaits(desk, n, mode)
  BY Zenon DEF NotYetPaired
<1>2. desk.attempt = n
  BY <1>1, DeskWaitsAt
<1>3. \A at, hs, send, recv : desk = Desk(at, n, mode, hs, send, recv) => desk.pc = at
  BY DEF Desk
<1>4. /\ DeskWaits(desk, n, mode) /\ desk.attempt = n
      /\ desk.pc \in {"off", "failed"} =>
           desk = Desk("off", n, mode, None, None, None) \/ desk = Desk("failed", n, mode, None, None, None)
      /\ desk.pc = "connect" => n \in Attempts /\ desk = Desk("connect", n, mode, None, None, None)
      /\ desk.pc = "message 2" =>
           n \in Attempts /\ desk = Desk("message 2", n, mode, <<DeskSent(n)>>, None, None)
  BY <1>1, <1>2, <1>3 DEF DeskWaits
<1>5. /\ desk.pc = "hello" =>
           /\ n \in Attempts
           /\ \E d \in Devices, a \in Attempts :
                desk = Desk("hello", n, mode, <<DeskDone(d, a, n)>>, DeskKey(d, a, n, 1), DevKey(d, a, n, 0))
      /\ desk.pc = "confirm" =>
           /\ n \in Attempts
           /\ \E d \in Devices, a \in Attempts :
                desk = Desk("confirm", n, mode, <<DeskDone(d, a, n)>>, DeskKey(d, a, n, 1), DevKey(d, a, n, 1))
  BY <1>1, <1>3 DEF DeskWaits
<1> QED
  BY <1>1, <1>4, <1>5, Zenon

\* The assignments of the command, and what they make of its state.
SetAll(x, at2, hs2, send2, recv2) == [x EXCEPT !.pc = at2, !.hs = hs2, !.send = send2, !.recv = recv2]
SetAttempt(x, at2, n2, mode2, hs2) == [x EXCEPT !.pc = at2, !.attempt = n2, !.mode = mode2, !.hs = hs2]
SetHs(x, at2, hs2) == [x EXCEPT !.pc = at2, !.hs = hs2]
SetRecv(x, at2, recv2) == [x EXCEPT !.pc = at2, !.recv = recv2]
SetAt(x, at2) == [x EXCEPT !.pc = at2]
LEMMA SetsAll ==
    ASSUME NEW at, NEW n, NEW mode, NEW hs, NEW send, NEW recv, NEW x, x = Desk(at, n, mode, hs, send, recv),
           NEW at2, NEW hs2, NEW send2, NEW recv2
    PROVE  SetAll(x, at2, hs2, send2, recv2) = Desk(at2, n, mode, hs2, send2, recv2)
<1>1. x = [pc |-> at, attempt |-> n, mode |-> mode, hs |-> hs, send |-> send, recv |-> recv]
  BY Zenon DEF Desk
<1>2. PICK r1 : r1 = [x EXCEPT !.pc = at2]
  OBVIOUS
<1>3. r1 = [pc |-> at2, attempt |-> n, mode |-> mode, hs |-> hs, send |-> send, recv |-> recv]
  BY ONLY <1>1, <1>2
<1>4. PICK r2 : r2 = [r1 EXCEPT !.hs = hs2]
  OBVIOUS
<1>5. r2 = [pc |-> at2, attempt |-> n, mode |-> mode, hs |-> hs2, send |-> send, recv |-> recv]
  BY ONLY <1>3, <1>4
<1>6. PICK r3 : r3 = [r2 EXCEPT !.send = send2]
  OBVIOUS
<1>7. r3 = [pc |-> at2, attempt |-> n, mode |-> mode, hs |-> hs2, send |-> send2, recv |-> recv]
  BY ONLY <1>5, <1>6
<1>8. [r3 EXCEPT !.recv = recv2] = [pc |-> at2, attempt |-> n, mode |-> mode, hs |-> hs2, send |-> send2, recv |-> recv2]
  BY ONLY <1>7
<1>9. SetAll(x, at2, hs2, send2, recv2) = [r3 EXCEPT !.recv = recv2]
  BY ONLY <1>2, <1>4, <1>6 DEF SetAll
<1> QED
  BY <1>8, <1>9, Zenon DEF Desk
LEMMA SetsAttempt ==
    ASSUME NEW at, NEW n, NEW mode, NEW hs, NEW send, NEW recv, NEW x, x = Desk(at, n, mode, hs, send, recv),
           NEW at2, NEW n2, NEW mode2, NEW hs2
    PROVE  SetAttempt(x, at2, n2, mode2, hs2) = Desk(at2, n2, mode2, hs2, send, recv)
<1>1. x = [pc |-> at, attempt |-> n, mode |-> mode, hs |-> hs, send |-> send, recv |-> recv]
  BY Zenon DEF Desk
<1>2. PICK r1 : r1 = [x EXCEPT !.pc = at2]
  OBVIOUS
<1>3. r1 = [pc |-> at2, attempt |-> n, mode |-> mode, hs |-> hs, send |-> send, recv |-> recv]
  BY ONLY <1>1, <1>2
<1>4. PICK r2 : r2 = [r1 EXCEPT !.attempt = n2]
  OBVIOUS
<1>5. r2 = [pc |-> at2, attempt |-> n2, mode |-> mode, hs |-> hs, send |-> send, recv |-> recv]
  BY ONLY <1>3, <1>4
<1>6. PICK r3 : r3 = [r2 EXCEPT !.mode = mode2]
  OBVIOUS
<1>7. r3 = [pc |-> at2, attempt |-> n2, mode |-> mode2, hs |-> hs, send |-> send, recv |-> recv]
  BY ONLY <1>5, <1>6
<1>8. [r3 EXCEPT !.hs = hs2] = [pc |-> at2, attempt |-> n2, mode |-> mode2, hs |-> hs2, send |-> send, recv |-> recv]
  BY ONLY <1>7
<1>9. SetAttempt(x, at2, n2, mode2, hs2) = [r3 EXCEPT !.hs = hs2]
  BY ONLY <1>2, <1>4, <1>6 DEF SetAttempt
<1> QED
  BY <1>8, <1>9, Zenon DEF Desk
LEMMA SetsHs ==
    ASSUME NEW at, NEW n, NEW mode, NEW hs, NEW send, NEW recv, NEW x, x = Desk(at, n, mode, hs, send, recv),
           NEW at2, NEW hs2
    PROVE  SetHs(x, at2, hs2) = Desk(at2, n, mode, hs2, send, recv)
<1>1. x = [pc |-> at, attempt |-> n, mode |-> mode, hs |-> hs, send |-> send, recv |-> recv]
  BY Zenon DEF Desk
<1>2. PICK r1 : r1 = [x EXCEPT !.pc = at2]
  OBVIOUS
<1>3. r1 = [pc |-> at2, attempt |-> n, mode |-> mode, hs |-> hs, send |-> send, recv |-> recv]
  BY ONLY <1>1, <1>2
<1>4. [r1 EXCEPT !.hs = hs2] = [pc |-> at2, attempt |-> n, mode |-> mode, hs |-> hs2, send |-> send, recv |-> recv]
  BY ONLY <1>3
<1>5. SetHs(x, at2, hs2) = [r1 EXCEPT !.hs = hs2]
  BY ONLY <1>2 DEF SetHs
<1> QED
  BY <1>4, <1>5, Zenon DEF Desk
LEMMA SetsRecv ==
    ASSUME NEW at, NEW n, NEW mode, NEW hs, NEW send, NEW recv, NEW x, x = Desk(at, n, mode, hs, send, recv),
           NEW at2, NEW recv2
    PROVE  SetRecv(x, at2, recv2) = Desk(at2, n, mode, hs, send, recv2)
<1>1. x = [pc |-> at, attempt |-> n, mode |-> mode, hs |-> hs, send |-> send, recv |-> recv]
  BY Zenon DEF Desk
<1>2. PICK r1 : r1 = [x EXCEPT !.pc = at2]
  OBVIOUS
<1>3. r1 = [pc |-> at2, attempt |-> n, mode |-> mode, hs |-> hs, send |-> send, recv |-> recv]
  BY ONLY <1>1, <1>2
<1>4. [r1 EXCEPT !.recv = recv2] = [pc |-> at2, attempt |-> n, mode |-> mode, hs |-> hs, send |-> send, recv |-> recv2]
  BY ONLY <1>3
<1>5. SetRecv(x, at2, recv2) = [r1 EXCEPT !.recv = recv2]
  BY ONLY <1>2 DEF SetRecv
<1> QED
  BY <1>4, <1>5, Zenon DEF Desk
LEMMA SetsAt ==
    ASSUME NEW at, NEW n, NEW mode, NEW hs, NEW send, NEW recv, NEW x, x = Desk(at, n, mode, hs, send, recv),
           NEW at2
    PROVE  SetAt(x, at2) = Desk(at2, n, mode, hs, send, recv)
<1>1. x = [pc |-> at, attempt |-> n, mode |-> mode, hs |-> hs, send |-> send, recv |-> recv]
  BY Zenon DEF Desk
<1>2. [x EXCEPT !.pc = at2] = [pc |-> at2, attempt |-> n, mode |-> mode, hs |-> hs, send |-> send, recv |-> recv]
  BY ONLY <1>1
<1> QED
  BY <1>2, Zenon DEF Desk, SetAt
\* The devices stay when the desktop alone moves.
LEMMA DeskMoves ==
    ASSUME PairInv, NotYetPaired, UNCHANGED <<device, record, vault>>,
           NEW n \in Nat, NEW mode \in Modes \cup {"-"}, DeskWaits(desk', n, mode), n = desk.attempt, desk'.pc # "connect",
           \A f \in frames' : f \in frames \/ DeskFrame(f)
    PROVE  PairInv'
<1>1. desk'.attempt = n
  BY DeskWaitsAt
<1>2. FreshDevices(desk', device')
  BY <1>1, Zenon DEF FreshDevices, NotYetPaired
<1>3. device' = [b \in Attempts |-> device'[b]]
  BY DEF PairInv
<1>4. \A b \in Attempts : \/ device'[b] = device[b]
                          \/ /\ device[b].confirmed = None
                             /\ DeviceWaits(device'[b], b) \/ DeviceConfirmed(device'[b], b)
  BY Zenon
<1>5. \A f \in frames' : f \in frames \/ DeskFrame(f) \/ DeviceFrame(device', f)
  BY Zenon
<1>6. record' = record /\ vault' = vault
  OBVIOUS
<1> QED
  BY <1>2, <1>3, <1>4, <1>5, <1>6, PairingMoves

\* An attempt begins,
LEMMA BeginPairingKeeps ==
    ASSUME PairInv, NEW mode \in Modes, BeginPairing(mode)
    PROVE  PairInv'
<1>1. /\ desk.pc \in {"off", "failed"} /\ desk.attempt < MaxAttempts
      /\ desk' = [desk EXCEPT !.pc = "connect", !.attempt = desk.attempt + 1, !.mode = mode, !.hs = None]
      /\ device' = device /\ frames' = frames /\ record' = record /\ vault' = vault
  BY DEF BeginPairing
<1>2. NotYetPaired
  BY <1>1, EarlyIsUnpaired DEF Early
<1>3. PICK n \in Nat, m \in Modes \cup {"-"} :
        /\ desk.attempt = n
        /\ desk = Desk("off", n, m, None, None, None) \/ desk = Desk("failed", n, m, None, None, None)
  BY <1>1, <1>2, DeskAt
<1>4. desk' = Desk("connect", n + 1, mode, None, None, None)
  <2>1. PICK at : desk = Desk(at, n, m, None, None, None)
    BY <1>3, Zenon
  <2> QED
    <3>1. desk' = SetAttempt(desk, "connect", desk.attempt + 1, mode, None)
      BY <1>1 DEF SetAttempt
    <3>2. SetAttempt(desk, "connect", desk.attempt + 1, mode, None) = Desk("connect", desk.attempt + 1, mode, None, None, None)
      BY <2>1, SetsAttempt
    <3> QED
      BY <1>3, <3>1, <3>2, Zenon
<1>5. n + 1 \in Attempts /\ n + 1 \in Nat
  BY <1>1, <1>3, PairingAssumption DEF Attempts
<1>6. DeskWaits(desk', n + 1, mode)
  BY <1>4, <1>5, Zenon DEF DeskWaits
<1>7. FreshDevices(desk', device')
  <2>1. desk'.attempt = n + 1
    BY <1>6, DeskWaitsAt
  <2>2. SUFFICES ASSUME NEW b \in Attempts, b > n + 1 \/ b = n + 1 PROVE device[b] = Closed
    BY <1>1, <2>1, Zenon DEF FreshDevices
  <2>3. b > n
    BY <2>2, PairingAssumption DEF Attempts
  <2> QED
    BY <1>2, <1>3, <2>3, Zenon DEF NotYetPaired
<1>8. device' = [b \in Attempts |-> device'[b]]
  BY <1>1 DEF PairInv
<1>9. /\ \A b \in Attempts : \/ device'[b] = device[b]
                             \/ /\ device[b].confirmed = None
                                /\ DeviceWaits(device'[b], b) \/ DeviceConfirmed(device'[b], b)
      /\ \A f \in frames' : f \in frames \/ DeskFrame(f) \/ DeviceFrame(device', f)
  BY <1>1, Zenon
<1>10. mode \in Modes \cup {"-"}
  OBVIOUS
<1> QED
  BY <1>1, <1>2, <1>5, <1>6, <1>7, <1>8, <1>9, <1>10, PairingMoves

\* or ends.
LEMMA PairingFailsKeeps ==
    ASSUME PairInv, desk.pc \in Early, PairingFails
    PROVE  PairInv'
<1>1. /\ desk' = [desk EXCEPT !.pc = "failed", !.hs = None, !.send = None, !.recv = None]
      /\ device' = device /\ frames' = frames /\ record' = record /\ vault' = vault
  BY DEF PairingFails
<1>2. NotYetPaired
  BY EarlyIsUnpaired
<1>3. PICK n \in Nat, m \in Modes \cup {"-"} : DeskWaits(desk, n, m) /\ desk.attempt = n
  BY <1>2, DeskAt
<1>4. PICK at, hs, send, recv : desk = Desk(at, n, m, hs, send, recv)
  BY <1>3, Zenon DEF DeskWaits
<1>5. desk' = Desk("failed", n, m, None, None, None)
  <2>1. desk' = SetAll(desk, "failed", None, None, None)
    BY <1>1 DEF SetAll
  <2>2. SetAll(desk, "failed", None, None, None) = Desk("failed", n, m, None, None, None)
    BY <1>4, SetsAll
  <2> QED
    BY <2>1, <2>2, Zenon
<1>6. DeskWaits(desk', n, m)
  BY <1>5, Zenon DEF DeskWaits
<1>7. desk'.pc # "connect"
  BY <1>5 DEF Desk
<1>8. UNCHANGED <<device, record, vault>> /\ \A f \in frames' : f \in frames \/ DeskFrame(f)
  BY <1>1
<1> QED
  BY <1>2, <1>3, <1>6, <1>7, <1>8, DeskMoves

\* The device of attempt a alone moves.
LEMMA DeviceMoves ==
    ASSUME PairInv, NotYetPaired, UNCHANGED <<desk, record, vault>>, NEW a \in Attempts,
           device[a].confirmed = None, device[a] # Closed,
           NEW x, device' = [device EXCEPT ![a] = x], DeviceWaits(x, a) \/ DeviceConfirmed(x, a),
           \A f \in frames' : f \in frames \/ DeskFrame(f) \/ DeviceFrame(device', f)
    PROVE  PairInv'
<1>1. device = [b \in Attempts |-> device[b]]
  BY DEF PairInv
<1>2. /\ device'[a] = x /\ \A b \in Attempts : b # a => device'[b] = device[b]
      /\ device' = [b \in Attempts |-> device'[b]]
  BY <1>1
<1>3. \A b \in Attempts : \/ device'[b] = device[b]
                          \/ /\ device[b].confirmed = None
                             /\ DeviceWaits(device'[b], b) \/ DeviceConfirmed(device'[b], b)
  BY <1>2, Zenon
<1>4. PICK n \in Nat, m \in Modes \cup {"-"} : DeskWaits(desk, n, m)
  BY Zenon DEF NotYetPaired
<1>5. DeskWaits(desk', n, m)
  BY <1>4, Zenon
<1>6. FreshDevices(desk', device')
  BY <1>2, Zenon DEF FreshDevices, NotYetPaired
<1>7. record' = record /\ vault' = vault
  OBVIOUS
<1> QED
  BY <1>2, <1>3, <1>5, <1>6, <1>7, PairingMoves

\* The stream is there: the device of this attempt is new.
LEMMA PairConnectKeeps ==
    ASSUME PairInv, NEW d \in Devices, PairConnect(d)
    PROVE  PairInv'
<1>1. desk.pc = "connect" /\ NotYetPaired
  BY EarlyIsUnpaired DEF PairConnect, Early
<1>2. PICK n \in Nat, m \in Modes \cup {"-"} :
        desk.attempt = n /\ n \in Attempts /\ desk = Desk("connect", n, m, None, None, None)
  BY <1>1, DeskAt
<1>3. PICK w : w = write_message(Handshaking("XxPsk3", PAIRING_SUITE, Pro, TRUE, Si(n), None, Secret, Ei(n)))
  OBVIOUS
<1>4. /\ desk' = [desk EXCEPT !.pc = "message 2", !.hs = <<w.hs>>]
      /\ frames' = frames \cup {Handshaked("desk", w.message)}
      /\ device' = [device EXCEPT ![n].pc = "message 1", ![n].peer = d]
      /\ record' = record /\ vault' = vault
  BY <1>2, <1>3 DEF PairConnect, Pro, Si, Ei, Secret
<1>5. w = [hs |-> DeskSent(n), message |-> Msg1(Pro, Ei(n))]
  BY <1>3, DeskStarts, DeskWrites1, Zenon
<1>6. w.hs = DeskSent(n) /\ w.message = Msg1(Pro, Ei(n))
  BY <1>5
<1>7. desk' = Desk("message 2", n, m, <<DeskSent(n)>>, None, None)
  <2>1. desk' = SetHs(desk, "message 2", <<DeskSent(n)>>)
    BY <1>4, <1>6 DEF SetHs
  <2>2. SetHs(desk, "message 2", <<DeskSent(n)>>) = Desk("message 2", n, m, <<DeskSent(n)>>, None, None)
    <3>1. PICK hs2, at2, no : hs2 = <<DeskSent(n)>> /\ at2 = "message 2" /\ no = None
      OBVIOUS
    <3>2. PICK at : desk = Desk(at, n, m, no, no, no)
      BY <1>2, <3>1, Zenon
    <3>3. SetHs(desk, at2, hs2) = Desk(at2, n, m, hs2, no, no)
      BY ONLY <3>2, SetsHs
    <3> QED
      BY <3>1, <3>3, Zenon
  <2> QED
    BY <2>1, <2>2, Zenon
<1>8. device[n] = Closed
  BY <1>1, <1>2, Zenon DEF NotYetPaired
<1>9. device = [b \in Attempts |-> device[b]]
  BY DEF PairInv
<1>10. device' = [device EXCEPT ![n] = Dev("message 1", d, None, None, None, None, FALSE)]
  <2>1. PICK x : x = [Closed EXCEPT !.pc = "message 1", !.peer = d]
    OBVIOUS
  <2>2. x = Dev("message 1", d, None, None, None, None, FALSE)
    BY <2>1 DEF Closed, Dev
  <2>3. device' = [device EXCEPT ![n] = x]
    BY <1>2, <1>4, <1>8, <1>9, <2>1
  <2> QED
    BY <2>2, <2>3, Zenon
<1>11. /\ device'[n] = Dev("message 1", d, None, None, None, None, FALSE)
       /\ \A b \in Attempts : b # n => device'[b] = device[b]
       /\ device' = [b \in Attempts |-> device'[b]]
  BY <1>2, <1>9, <1>10
<1>12. device[n].confirmed = None
  BY <1>8 DEF Closed
<1>13. \A b \in Attempts : \/ device'[b] = device[b]
                           \/ /\ device[b].confirmed = None
                              /\ DeviceWaits(device'[b], b) \/ DeviceConfirmed(device'[b], b)
  BY <1>11, <1>12, Zenon DEF DeviceWaits
<1>14. DeskWaits(desk', n, m)
  BY <1>2, <1>7, Zenon DEF DeskWaits
<1>15. \A f \in frames' : f \in frames \/ DeskFrame(f) \/ DeviceFrame(device', f)
  BY <1>2, <1>4, <1>6, Zenon DEF DeskFrame
<1>16. FreshDevices(desk', device')
  <2>1. desk'.attempt = n /\ desk'.pc = "message 2"
    BY <1>7 DEF Desk
  <2>2. SUFFICES ASSUME NEW b \in Attempts, b > n PROVE device'[b] = Closed
    BY <2>1 DEF FreshDevices
  <2>3. b # n
    BY <2>2
  <2> QED
    BY <1>1, <1>2, <1>11, <2>2, <2>3, Zenon DEF NotYetPaired
<1> QED
  BY <1>1, <1>4, <1>11, <1>13, <1>14, <1>15, <1>16, PairingMoves

\* The second message: it answers this attempt's first, or the attempt fails.
LEMMA Message2Reads ==
    ASSUME NotYetPaired, NEW f \in frames, f.from = "device", f.kind = "noise"
    PROVE  \E d \in Devices, a, c \in Attempts : f.text = Msg2(Pro, Ei(c), Er(d, a), Sr(d))
<1>1. DeviceFrame(device, f)
  <2>1. DeskFrame(f) \/ DeviceFrame(device, f)
    BY Zenon DEF NotYetPaired
  <2>2. DeskFrame(f) => f.from = "desk"
    BY FramesFrom
  <2> QED
    BY <2>1, <2>2
<1>2. \A from, cipher, type, body : f # Envelope(from, cipher, type, body)
  <2>1. SUFFICES ASSUME NEW from, NEW cipher, NEW type, NEW body, f = Envelope(from, cipher, type, body) PROVE FALSE
    OBVIOUS
  <2>2. f.kind = "envelope"
    BY <2>1, FrameFields
  <2> QED
    BY <2>2
<1>3. PICK d \in Devices, a, c \in Attempts : f = Handshaked("device", Msg2(Pro, Ei(c), Er(d, a), Sr(d)))
  BY <1>1, <1>2, Zenon DEF DeviceFrame
<1>4. f.text = Msg2(Pro, Ei(c), Er(d, a), Sr(d))
  BY <1>3, FrameFields
<1> QED
  BY <1>4, Zenon
LEMMA Message2Keeps ==
    ASSUME PairInv, NEW f \in frames, Message2(f)
    PROVE  PairInv'
<1>1. desk.pc = "message 2" /\ f.from = "device" /\ NotYetPaired /\ desk.pc \in Early
  BY EarlyIsUnpaired DEF Message2, Early
<1>2. PICK n \in Nat, m \in Modes \cup {"-"} :
        desk.attempt = n /\ n \in Attempts /\ desk = Desk("message 2", n, m, <<DeskSent(n)>>, None, None)
  BY <1>1, DeskAt
<1>3. desk.hs[1] = DeskSent(n)
  <2>1. PICK hs : hs = <<DeskSent(n)>>
    OBVIOUS
  <2>2. desk = Desk("message 2", n, m, hs, None, None)
    BY <1>2, <2>1, Zenon
  <2>3. desk.hs = hs
    BY <2>2 DEF Desk
  <2> QED
    BY <2>1, <2>3
<1>4. PICK r : /\ r = IF f.kind = "noise" THEN read_message(desk.hs[1], f.text) ELSE None
               /\ IF r = None THEN PairingFails
                  ELSE /\ \E w \in {write_message(r[1])} : \E c \in {split(w.hs)} :
                          /\ desk' = [desk EXCEPT !.pc = "hello", !.hs = <<w.hs>>, !.send = Used(c.send),
                                                  !.recv = c.recv]
                          /\ frames' = frames \cup {Handshaked("desk", w.message),
                                                    Envelope("desk", c.send, "PairingHello", OFFER_PROFILES)}
                       /\ UNCHANGED <<vars, device, record, vault, own>>
  BY Zenon DEF Message2
<1>5. CASE r = None
  BY <1>1, <1>4, <1>5, PairingFailsKeeps
<1>6. CASE r # None
  <2>1. f.kind = "noise" /\ r = read_message(DeskSent(n), f.text)
    BY <1>3, <1>4, <1>6
  <2>2. PICK d \in Devices, a \in Attempts :
          r[1] = After2(DeskParty(n), Pro, Ei(n), Er(d, a), Sr(d), Sr(d), Er(d, a))
    <3>1. r # None
      BY <1>6
    <3>2. PICK d \in Devices, a, c \in Attempts : f.text = Msg2(Pro, Ei(c), Er(d, a), Sr(d))
      BY <1>1, <2>1, Message2Reads, Zenon
    <3>3. r = read_message(DeskSent(n), Msg2(Pro, Ei(c), Er(d, a), Sr(d)))
      BY <2>1, <3>2, Zenon
    <3>4. r = <<After2(DeskParty(n), Pro, Ei(n), Er(d, a), Sr(d), Sr(d), Er(d, a))>>
      BY <3>1, <3>3, DeskReads2
    <3> QED
      BY <3>4
  <2>3. PICK w, k : /\ w = write_message(r[1]) /\ k = split(w.hs)
                    /\ desk' = [desk EXCEPT !.pc = "hello", !.hs = <<w.hs>>, !.send = Used(k.send), !.recv = k.recv]
                    /\ frames' = frames \cup {Handshaked("desk", w.message),
                                              Envelope("desk", k.send, "PairingHello", OFFER_PROFILES)}
    BY <1>4, <1>6
  <2>4. UNCHANGED <<device, record, vault>>
    BY <1>4, <1>6
  <2>5. w = [hs |-> DeskDone(d, a, n), message |-> Msg3(Pro, Ei(n), Er(d, a), Sr(d), Si(n), Secret)]
    BY <2>2, <2>3, DeskWrites3, Zenon
  <2>6. w.hs = DeskDone(d, a, n) /\ w.message = Msg3(Pro, Ei(n), Er(d, a), Sr(d), Si(n), Secret)
    BY <2>5
  <2>7. k = [send |-> DeskKey(d, a, n, 0), recv |-> DevKey(d, a, n, 0)]
    BY <2>3, <2>6, DeskSplits, Zenon
  <2>8. k.send = DeskKey(d, a, n, 0) /\ k.recv = DevKey(d, a, n, 0)
    BY <2>7
  <2>9. Used(k.send) = DeskKey(d, a, n, 1)
    <3>1. Used(DeskKey(d, a, n, 0)) = DeskKey(d, a, n, 0 + 1)
      BY ONLY KeysUsed
    <3> QED
      BY <2>8, <3>1
  <2>10. desk' = Desk("hello", n, m, <<DeskDone(d, a, n)>>, DeskKey(d, a, n, 1), DevKey(d, a, n, 0))
    <3>1. PICK at2, hs2, send2, recv2 :
            at2 = "hello" /\ hs2 = <<w.hs>> /\ send2 = Used(k.send) /\ recv2 = k.recv
      OBVIOUS
    <3>2. PICK at, hs, no : desk = Desk(at, n, m, hs, no, no)
      BY <1>2, Zenon
    <3>3. desk' = SetAll(desk, at2, hs2, send2, recv2)
      BY <2>3, <3>1 DEF SetAll
    <3>4. SetAll(desk, at2, hs2, send2, recv2) = Desk(at2, n, m, hs2, send2, recv2)
      BY ONLY <3>2, SetsAll
    <3> QED
      BY <2>6, <2>8, <2>9, <3>1, <3>3, <3>4, Zenon
  <2>11. DeskWaits(desk', n, m)
    BY <1>2, <2>10, Zenon DEF DeskWaits
  <2>12. desk'.pc # "connect"
    BY <2>10 DEF Desk
  <2>13. \A g \in frames' : g \in frames \/ DeskFrame(g)
    <3>1. DeskFrame(Handshaked("desk", w.message))
      BY <1>2, <2>6, Zenon DEF DeskFrame
    <3>2. DeskFrame(Envelope("desk", k.send, "PairingHello", OFFER_PROFILES))
      BY <1>2, <2>8, Zenon DEF DeskFrame
    <3> QED
      BY <2>3, <3>1, <3>2, Zenon
  <2> QED
    BY <1>1, <1>2, <2>4, <2>11, <2>12, <2>13, DeskMoves
<1> QED
  BY <1>5, <1>6

\* The phone's hello.
LEMMA ProxyHelloKeeps ==
    ASSUME PairInv, NEW f \in frames, ProxyHello(f)
    PROVE  PairInv'
<1>1. desk.pc = "hello" /\ NotYetPaired /\ desk.pc \in Early
  BY EarlyIsUnpaired DEF ProxyHello, Early
<1>2. PICK n \in Nat, m \in Modes \cup {"-"}, d \in Devices, a \in Attempts :
        /\ desk.attempt = n /\ n \in Attempts
        /\ desk = Desk("hello", n, m, <<DeskDone(d, a, n)>>, DeskKey(d, a, n, 1), DevKey(d, a, n, 0))
  BY <1>1, DeskAt
<1>3. CASE PairingFails
  BY <1>1, <1>3, PairingFailsKeeps
<1>4. CASE /\ desk' = [desk EXCEPT !.pc = "confirm", !.recv = Used(desk.recv)]
           /\ UNCHANGED <<vars, device, frames, record, vault, own>>
  <2>1. desk.recv = DevKey(d, a, n, 0)
    BY <1>2 DEF Desk
  <2>2. Used(desk.recv) = DevKey(d, a, n, 1)
    <3>1. Used(DevKey(d, a, n, 0)) = DevKey(d, a, n, 0 + 1)
      BY ONLY KeysUsed
    <3> QED
      BY <2>1, <3>1
  <2>3. desk' = Desk("confirm", n, m, <<DeskDone(d, a, n)>>, DeskKey(d, a, n, 1), DevKey(d, a, n, 1))
    <3>1. PICK at2, recv2, hs, send : /\ at2 = "confirm" /\ recv2 = Used(desk.recv)
                                      /\ hs = <<DeskDone(d, a, n)>> /\ send = DeskKey(d, a, n, 1)
      OBVIOUS
    <3>2. PICK at, recv : desk = Desk(at, n, m, hs, send, recv)
      BY <1>2, <3>1, Zenon
    <3>3. desk' = SetRecv(desk, at2, recv2)
      BY <1>4, <3>1 DEF SetRecv
    <3>4. SetRecv(desk, at2, recv2) = Desk(at2, n, m, hs, send, recv2)
      BY ONLY <3>2, SetsRecv
    <3> QED
      BY <2>2, <3>1, <3>3, <3>4, Zenon
  <2>4. DeskWaits(desk', n, m)
    BY <1>2, <2>3, Zenon DEF DeskWaits
  <2>5. desk'.pc # "connect"
    BY <2>3 DEF Desk
  <2>6. UNCHANGED <<device, record, vault>> /\ \A g \in frames' : g \in frames \/ DeskFrame(g)
    BY <1>4
  <2> QED
    BY <1>1, <1>2, <2>4, <2>5, <2>6, DeskMoves
<1> QED
  BY <1>3, <1>4 DEF ProxyHello

\* The confirmation that opens under the keys of this attempt is the phone's,
\* and what it grants is what the phone has confirmed.
LEMMA ConfirmOpens ==
    ASSUME NotYetPaired, NEW f \in frames, f.from = "device", NEW d, NEW a, NEW n,
           Opened(f, DevKey(d, a, n, 1), "PairingConfirm") # None
    PROVE  \E g \in GrantLists : /\ d = "mine" /\ Confirmed(device[a], a, n, g)
                                 /\ Opened(f, DevKey(d, a, n, 1), "PairingConfirm") = <<g>>
<1>1. DeviceFrame(device, f)
  <2>1. DeskFrame(f) \/ DeviceFrame(device, f)
    BY Zenon DEF NotYetPaired
  <2>2. DeskFrame(f) => f.from = "desk"
    BY FramesFrom
  <2> QED
    BY <2>1, <2>2
<1>2. ASSUME NEW e, NEW b, NEW c, f = Handshaked("device", Msg2(Pro, Ei(c), Er(e, b), Sr(e)))
      PROVE  FALSE
  BY <1>2, NoiseNotOpened, Zenon
<1>3. ASSUME NEW b, NEW c, f = Envelope("device", DevKey("mine", b, c, 0), "PairingHello", None)
      PROVE  FALSE
  <2>1. "PairingHello" = "PairingConfirm"
    BY ONLY <1>3, DevKeyOpens, Opened(f, DevKey(d, a, n, 1), "PairingConfirm") # None
  <2> QED
    BY <2>1
<1>4. PICK b, c \in Attempts, g \in GrantLists :
        f = Envelope("device", DevKey("mine", b, c, 1), "PairingConfirm", g) /\ Confirmed(device[b], b, c, g)
  BY <1>1, <1>2, <1>3, Zenon DEF DeviceFrame
<1>5. /\ "mine" = d /\ b = a /\ c = n
      /\ Opened(f, DevKey(d, a, n, 1), "PairingConfirm") = <<g>>
  BY ONLY <1>4, DevKeyOpens, Opened(f, DevKey(d, a, n, 1), "PairingConfirm") # None
<1> QED
  BY <1>4, <1>5, Zenon

\* The pair is made.
LEMMA ProxyConfirmKeeps ==
    ASSUME PairInv, NEW f \in frames, ProxyConfirm(f)
    PROVE  PairInv'
<1>1. desk.pc = "confirm" /\ f.from = "device" /\ NotYetPaired /\ desk.pc \in Early
  BY EarlyIsUnpaired DEF ProxyConfirm, Early
<1>2. PICK n \in Nat, m \in Modes \cup {"-"}, d \in Devices, a \in Attempts :
        /\ desk.attempt = n /\ n \in Attempts
        /\ desk = Desk("confirm", n, m, <<DeskDone(d, a, n)>>, DeskKey(d, a, n, 1), DevKey(d, a, n, 1))
  BY <1>1, DeskAt
<1>3. /\ desk.hs[1] = DeskDone(d, a, n) /\ desk.send = DeskKey(d, a, n, 1)
      /\ desk.recv = DevKey(d, a, n, 1) /\ desk.mode = m
  <2>1. PICK at, hs, send, recv : /\ hs = <<DeskDone(d, a, n)>> /\ send = DeskKey(d, a, n, 1)
                                  /\ recv = DevKey(d, a, n, 1) /\ desk = Desk(at, n, m, hs, send, recv)
    BY <1>2, Zenon
  <2>2. desk.hs = hs /\ desk.send = send /\ desk.recv = recv /\ desk.mode = m
    BY <2>1 DEF Desk
  <2> QED
    BY <2>1, <2>2
<1>4. PICK body : /\ body = Opened(f, desk.recv, "PairingConfirm")
                  /\ IF body = None THEN PairingFails
                     ELSE LET granted == granted_profiles(body[1]) IN
                          /\ record' = <<PairRecord(desk.hs[1], granted, desk.mode)>>
                          /\ frames' = {Envelope("desk", desk.send, "PairingConfirm", granted)}
                          /\ device' = [b \in Attempts |-> IF device[b].confirmed = None THEN Closed ELSE device[b]]
                          /\ desk' = [desk EXCEPT !.pc = "certificate", !.hs = None, !.send = None, !.recv = None]
                          /\ UNCHANGED <<vars, vault, own>>
  BY Zenon DEF ProxyConfirm
<1>5. CASE body = None
  BY <1>1, <1>4, <1>5, PairingFailsKeeps
<1>6. CASE body # None
  <2>1. Opened(f, DevKey(d, a, n, 1), "PairingConfirm") = body
    BY <1>3, <1>4, Zenon
  <2>2. PICK g \in GrantLists : d = "mine" /\ Confirmed(device[a], a, n, g) /\ body = <<g>>
    <3>1. Opened(f, DevKey(d, a, n, 1), "PairingConfirm") # None
      BY <1>6, <2>1, Zenon
    <3>2. \E g \in GrantLists : /\ d = "mine" /\ Confirmed(device[a], a, n, g)
                                /\ Opened(f, DevKey(d, a, n, 1), "PairingConfirm") = <<g>>
      BY ONLY <1>1, <3>1, f \in frames, ConfirmOpens
    <3> QED
      BY <2>1, <3>2, Zenon
  <2>3. body[1] = g
    BY <2>2
  <2>4. /\ record' = <<PairRecord(DeskDone("mine", a, n), granted_profiles(g), m)>>
        /\ frames' = {Envelope("desk", DeskKey("mine", a, n, 1), "PairingConfirm", granted_profiles(g))}
        /\ device' = [b \in Attempts |-> IF device[b].confirmed = None THEN Closed ELSE device[b]]
        /\ desk' = [desk EXCEPT !.pc = "certificate", !.hs = None, !.send = None, !.recv = None]
        /\ vault' = vault
    BY <1>3, <1>4, <1>6, <2>2, <2>3
  <2>5. desk' = Desk("certificate", n, m, None, None, None)
    <3>1. PICK at2, no : at2 = "certificate" /\ no = None
      OBVIOUS
    <3>2. PICK at, hs, send, recv : desk = Desk(at, n, m, hs, send, recv)
      BY <1>2, Zenon
    <3>3. desk' = SetAll(desk, at2, no, no, no)
      BY <2>4, <3>1 DEF SetAll
    <3>4. SetAll(desk, at2, no, no, no) = Desk(at2, n, m, no, no, no)
      BY ONLY <3>2, SetsAll
    <3> QED
      BY <3>1, <3>3, <3>4, Zenon
  <2>6. \A b \in Attempts : device'[b] = Closed \/ DeviceConfirmed(device'[b], b)
    <3>1. SUFFICES ASSUME NEW b \in Attempts PROVE device'[b] = Closed \/ DeviceConfirmed(device'[b], b)
      OBVIOUS
    <3>2. device'[b] = IF device[b].confirmed = None THEN Closed ELSE device[b]
      BY <2>4
    <3>3. DeviceWaits(device[b], b) \/ DeviceConfirmed(device[b], b)
      BY <1>1, Zenon DEF NotYetPaired
    <3>4. DeviceWaits(device[b], b) => device[b].confirmed = None
      BY WaitsUnconfirmed
    <3> QED
      BY <3>2, <3>3, <3>4, Zenon
  <2>7. Confirmed(device'[a], a, n, g)
    <3>1. device[a].confirmed # None
      BY <2>2 DEF Confirmed, None
    <3>2. device'[a] = device[a]
      BY <2>4, <3>1
    <3> QED
      BY <2>2, <3>2, Zenon
  <2>8. PairMade(a, n, g, m)'
    BY <2>4, <2>6, <2>7, Zenon DEF PairMade
  <2>9. vault' = None
    BY <1>1, <2>4, Zenon DEF NotYetPaired
  <2>10. device' = [b \in Attempts |-> device'[b]]
    BY <2>4
  <2>11. Paired'
    BY <1>2, <2>2, <2>5, <2>8, <2>9 DEF Paired
  <2> QED
    BY <2>10, <2>11, Zenon DEF PairInv
<1> QED
  BY <1>5, <1>6

\* Once it is, the desktop's own steps leave it alone.
LEMMA SavePairingKeeps ==
    ASSUME PairInv, NEW outcome, SavePairing(outcome)
    PROVE  PairInv'
<1>1. /\ desk.pc = "certificate" /\ UNCHANGED <<device, frames, record>>
      /\ \/ vault' = vault /\ desk' = [desk EXCEPT !.pc = "unsaved"]
         \/ /\ vault' = <<[record[1] EXCEPT !.cached_auth_cert = (pc = "ok")]>>
            /\ desk' = [desk EXCEPT !.pc = "paired"]
  BY DEF SavePairing
<1>2. Paired
  <2>1. ~Using
    BY <1>1 DEF Using
  <2>2. ~NotYetPaired
    <3>1. NotYetPaired => desk.pc \in Early
      BY DeskWaitsAt, Zenon DEF NotYetPaired
    <3> QED
      BY <1>1, <3>1 DEF Early
  <2> QED
    BY <2>1, <2>2, Zenon DEF PairInv
<1>3. PICK at \in {"certificate", "paired", "unsaved"}, n \in Nat, mode \in Modes \cup {"-"} :
        desk = Desk(at, n, mode, None, None, None)
  BY <1>2, Zenon DEF Paired
<1>4. PICK a, c \in Attempts, g \in GrantLists, m \in Modes \cup {"-"} : PairMade(a, c, g, m)
  BY <1>2, Zenon DEF Paired
<1>5. PairMade(a, c, g, m)'
  BY <1>1, <1>4 DEF PairMade
<1>6. desk' = Desk("unsaved", n, mode, None, None, None) \/ desk' = Desk("paired", n, mode, None, None, None)
  <2>1. PICK no : no = None
    OBVIOUS
  <2>2. desk = Desk(at, n, mode, no, no, no)
    BY <1>3, <2>1, Zenon
  <2>3. \A at2 : SetAt(desk, at2) = Desk(at2, n, mode, no, no, no)
    BY ONLY <2>2, SetsAt
  <2>4. desk' = SetAt(desk, "unsaved") \/ desk' = SetAt(desk, "paired")
    BY <1>1 DEF SetAt
  <2> QED
    BY <2>1, <2>3, <2>4, Zenon
<1>7. vault' # None => vault'[1].pair_id = record'[1].pair_id
  <2>1. CASE vault' = vault
    BY <1>1, <1>2, <2>1, Zenon DEF Paired
  <2>2. CASE vault' = <<[record[1] EXCEPT !.cached_auth_cert = (pc = "ok")]>>
    <3>1. PICK made, hs, profiles : record = <<made>> /\ made = PairRecord(hs, profiles, m)
      BY <1>4, Zenon DEF PairMade
    <3>2. record[1] = made
      BY <3>1
    <3>3. PICK saved : saved = [made EXCEPT !.cached_auth_cert = (pc = "ok")]
      OBVIOUS
    <3>4. saved.pair_id = made.pair_id
      BY <3>1, <3>3 DEF PairRecord
    <3>5. vault' = <<saved>>
      BY <2>2, <3>2, <3>3
    <3>6. vault'[1] = saved
      BY <3>5
    <3>7. record' = record
      BY <1>1
    <3> QED
      BY <3>2, <3>4, <3>6, <3>7, Zenon
  <2> QED
    BY <1>1, <2>1, <2>2
<1>8. device' = [b \in Attempts |-> device'[b]]
  BY <1>1 DEF PairInv
<1>9. Paired'
  BY <1>3, <1>4, <1>5, <1>6, <1>7 DEF Paired
<1> QED
  BY <1>8, <1>9, Zenon DEF PairInv

\* The assignments of a device.
Answered(x, at2, hs2) ==
    [x EXCEPT !.pc = at2, !.hs = hs2]
Confirming(x, at2, hs2, recv2, confirmed2) ==
    [x EXCEPT !.pc = at2, !.hs = hs2, !.recv = recv2, !.confirmed = confirmed2]
Storing(x, at2, recv2, kept2, opens2) ==
    [x EXCEPT !.pc = at2, !.recv = recv2, !.record = kept2, !.opens = opens2]
LEMMA AnsweredIs ==
    ASSUME NEW at, NEW peer, NEW hs, NEW recv, NEW confirmed, NEW kept, NEW opens,
           NEW x, x = Dev(at, peer, hs, recv, confirmed, kept, opens),
           NEW at2, NEW hs2
    PROVE  Answered(x, at2, hs2) = Dev(at2, peer, hs2, recv, confirmed, kept, opens)
<1>1. x = [pc |-> at, peer |-> peer, hs |-> hs, recv |-> recv, confirmed |-> confirmed, record |-> kept, opens |-> opens]
  BY Zenon DEF Dev
<1>2. PICK r1 : r1 = [x EXCEPT !.pc = at2]
  OBVIOUS
<1>3. r1 = [pc |-> at2, peer |-> peer, hs |-> hs, recv |-> recv, confirmed |-> confirmed, record |-> kept, opens |-> opens]
  BY ONLY <1>1, <1>2
<1>4. [r1 EXCEPT !.hs = hs2] = [pc |-> at2, peer |-> peer, hs |-> hs2, recv |-> recv, confirmed |-> confirmed, record |-> kept, opens |-> opens]
  BY ONLY <1>3
<1>5. Answered(x, at2, hs2) = [r1 EXCEPT !.hs = hs2]
  BY ONLY <1>2 DEF Answered
<1> QED
  BY <1>4, <1>5, Zenon DEF Dev
LEMMA ConfirmingIs ==
    ASSUME NEW at, NEW peer, NEW hs, NEW recv, NEW confirmed, NEW kept, NEW opens,
           NEW x, x = Dev(at, peer, hs, recv, confirmed, kept, opens),
           NEW at2, NEW hs2, NEW recv2, NEW confirmed2
    PROVE  Confirming(x, at2, hs2, recv2, confirmed2) = Dev(at2, peer, hs2, recv2, confirmed2, kept, opens)
<1>1. x = [pc |-> at, peer |-> peer, hs |-> hs, recv |-> recv, confirmed |-> confirmed, record |-> kept, opens |-> opens]
  BY Zenon DEF Dev
<1>2. PICK r1 : r1 = [x EXCEPT !.pc = at2]
  OBVIOUS
<1>3. r1 = [pc |-> at2, peer |-> peer, hs |-> hs, recv |-> recv, confirmed |-> confirmed, record |-> kept, opens |-> opens]
  BY ONLY <1>1, <1>2
<1>4. PICK r2 : r2 = [r1 EXCEPT !.hs = hs2]
  OBVIOUS
<1>5. r2 = [pc |-> at2, peer |-> peer, hs |-> hs2, recv |-> recv, confirmed |-> confirmed, record |-> kept, opens |-> opens]
  BY ONLY <1>3, <1>4
<1>6. PICK r3 : r3 = [r2 EXCEPT !.recv = recv2]
  OBVIOUS
<1>7. r3 = [pc |-> at2, peer |-> peer, hs |-> hs2, recv |-> recv2, confirmed |-> confirmed, record |-> kept, opens |-> opens]
  BY ONLY <1>5, <1>6
<1>8. [r3 EXCEPT !.confirmed = confirmed2] = [pc |-> at2, peer |-> peer, hs |-> hs2, recv |-> recv2, confirmed |-> confirmed2, record |-> kept, opens |-> opens]
  BY ONLY <1>7
<1>9. Confirming(x, at2, hs2, recv2, confirmed2) = [r3 EXCEPT !.confirmed = confirmed2]
  BY ONLY <1>2, <1>4, <1>6 DEF Confirming
<1> QED
  BY <1>8, <1>9, Zenon DEF Dev
LEMMA StoringIs ==
    ASSUME NEW at, NEW peer, NEW hs, NEW recv, NEW confirmed, NEW kept, NEW opens,
           NEW x, x = Dev(at, peer, hs, recv, confirmed, kept, opens),
           NEW at2, NEW recv2, NEW kept2, NEW opens2
    PROVE  Storing(x, at2, recv2, kept2, opens2) = Dev(at2, peer, hs, recv2, confirmed, kept2, opens2)
<1>1. x = [pc |-> at, peer |-> peer, hs |-> hs, recv |-> recv, confirmed |-> confirmed, record |-> kept, opens |-> opens]
  BY Zenon DEF Dev
<1>2. PICK r1 : r1 = [x EXCEPT !.pc = at2]
  OBVIOUS
<1>3. r1 = [pc |-> at2, peer |-> peer, hs |-> hs, recv |-> recv, confirmed |-> confirmed, record |-> kept, opens |-> opens]
  BY ONLY <1>1, <1>2
<1>4. PICK r2 : r2 = [r1 EXCEPT !.recv = recv2]
  OBVIOUS
<1>5. r2 = [pc |-> at2, peer |-> peer, hs |-> hs, recv |-> recv2, confirmed |-> confirmed, record |-> kept, opens |-> opens]
  BY ONLY <1>3, <1>4
<1>6. PICK r3 : r3 = [r2 EXCEPT !.record = kept2]
  OBVIOUS
<1>7. r3 = [pc |-> at2, peer |-> peer, hs |-> hs, recv |-> recv2, confirmed |-> confirmed, record |-> kept2, opens |-> opens]
  BY ONLY <1>5, <1>6
<1>8. [r3 EXCEPT !.opens = opens2] = [pc |-> at2, peer |-> peer, hs |-> hs, recv |-> recv2, confirmed |-> confirmed, record |-> kept2, opens |-> opens2]
  BY ONLY <1>7
<1>9. Storing(x, at2, recv2, kept2, opens2) = [r3 EXCEPT !.opens = opens2]
  BY ONLY <1>2, <1>4, <1>6 DEF Storing
<1> QED
  BY <1>8, <1>9, Zenon DEF Dev

\* Which state a device is in, by where it waits.
LEMMA DeviceAt ==
    ASSUME PairInv, NEW a \in Attempts
    PROVE  /\ device[a].pc \in {"message 1", "message 3"} => NotYetPaired
           /\ device[a].pc = "message 1" =>
                \E d \in Devices : device[a] = Dev("message 1", d, None, None, None, None, FALSE)
           /\ device[a].pc = "message 3" =>
                \E d \in Devices, c \in Attempts :
                  device[a] = Dev("message 3", d, <<DevSent(d, a, c)>>, None, None, None, FALSE)
           /\ device[a].pc = "confirm" => ~Using /\ DeviceConfirmed(device[a], a)
<1>1. \A x, at, peer, hs, recv, confirmed, kept, opens : x = Dev(at, peer, hs, recv, confirmed, kept, opens) => x.pc = at
  BY DEF Dev
<1>2. Closed.pc = "closed"
  BY DEF Closed
<1>3. DeviceConfirmed(device[a], a) => device[a].pc = "confirm"
  BY ConfirmedWaits
<1>4. Using => device[a].pc = "closed"
  <2>1. Using => device[a] = Dev("closed", "mine", None, None, None, <<EarlierPair("mine")>>, TRUE)
    BY Zenon DEF Using
  <2> QED
    BY <1>1, <2>1, Zenon
<1>5. ASSUME Paired PROVE device[a].pc = "closed" \/ DeviceConfirmed(device[a], a)
  <2>1. PICK b, c \in Attempts, g \in GrantLists, mode \in Modes \cup {"-"} : PairMade(b, c, g, mode)
    BY <1>5, Zenon DEF Paired
  <2>2. \/ device[a] = Closed \/ DeviceConfirmed(device[a], a)
        \/ device[a] = Dev("closed", "mine", None, None, <<Granted(b, c, g)>>, <<Granted(b, c, g)>>, TRUE)
    BY <2>1, Zenon DEF PairMade
  <2> QED
    BY <1>1, <1>2, <2>2, Zenon
<1>6. /\ "closed" # "message 1" /\ "closed" # "message 3" /\ "closed" # "confirm"
      /\ "confirm" # "message 1" /\ "confirm" # "message 3" /\ "message 1" # "message 3"
  OBVIOUS
<1>7. device[a].pc \in {"message 1", "message 3"} => NotYetPaired
  BY <1>3, <1>4, <1>5, <1>6 DEF PairInv
<1>8. ASSUME NotYetPaired
      PROVE  \/ device[a] = Closed \/ DeviceConfirmed(device[a], a)
             \/ \E d \in Devices : device[a] = Dev("message 1", d, None, None, None, None, FALSE)
             \/ \E d \in Devices, c \in Attempts :
                  device[a] = Dev("message 3", d, <<DevSent(d, a, c)>>, None, None, None, FALSE)
  BY <1>8, Zenon DEF NotYetPaired, DeviceWaits
<1>9. device[a].pc = "message 1" =>
        \E d \in Devices : device[a] = Dev("message 1", d, None, None, None, None, FALSE)
  BY <1>1, <1>2, <1>3, <1>6, <1>7, <1>8, Zenon
<1>10. device[a].pc = "message 3" =>
         \E d \in Devices, c \in Attempts :
           device[a] = Dev("message 3", d, <<DevSent(d, a, c)>>, None, None, None, FALSE)
  BY <1>1, <1>2, <1>3, <1>6, <1>7, <1>8, Zenon
<1>11. ASSUME device[a].pc = "confirm" PROVE ~Using /\ DeviceConfirmed(device[a], a)
  <2>1. ~Using
    BY <1>4, <1>6, <1>11, Zenon
  <2>2. NotYetPaired => DeviceConfirmed(device[a], a)
    BY <1>1, <1>2, <1>6, <1>8, <1>11, Zenon
  <2>3. Paired => DeviceConfirmed(device[a], a)
    BY <1>5, <1>6, <1>11, Zenon
  <2> QED
    BY <2>1, <2>2, <2>3, Zenon DEF PairInv
<1> QED
  BY <1>7, <1>9, <1>10, <1>11, Zenon

\* The handshake messages of the desktop.
LEMMA DeskNoise ==
    ASSUME NotYetPaired, NEW f \in frames, f.from = "desk", f.kind = "noise"
    PROVE  \/ \E c \in Attempts : f.text = Msg1(Pro, Ei(c))
           \/ \E d \in Devices, a, c \in Attempts : f.text = Msg3(Pro, Ei(c), Er(d, a), Sr(d), Si(c), Secret)
<1>1. DeskFrame(f)
  <2>1. DeskFrame(f) \/ DeviceFrame(device, f)
    BY Zenon DEF NotYetPaired
  <2>2. DeviceFrame(device, f) => f.from = "device"
    BY FramesFrom
  <2> QED
    BY <2>1, <2>2
<1>2. \A from, cipher, type, body : f # Envelope(from, cipher, type, body)
  <2>1. SUFFICES ASSUME NEW from, NEW cipher, NEW type, NEW body, f = Envelope(from, cipher, type, body) PROVE FALSE
    OBVIOUS
  <2>2. f.kind = "envelope"
    BY <2>1, FrameFields
  <2> QED
    BY <2>2
<1>3. \A message : f = Handshaked("desk", message) => f.text = message
  BY FrameFields
<1> QED
  BY <1>1, <1>2, <1>3, Zenon DEF DeskFrame

\* A device answers the first message,
LEMMA DeviceMessage1Keeps ==
    ASSUME PairInv, NEW a \in Attempts, NEW f \in frames, DeviceMessage1(a, f)
    PROVE  PairInv'
<1>1. device[a].pc = "message 1" /\ f.from = "desk" /\ f.kind = "noise" /\ UNCHANGED <<desk, record, vault>>
  BY DEF DeviceMessage1, DeviceReads
<1>2. NotYetPaired
  BY <1>1, DeviceAt
<1>3. PICK d \in Devices : device[a] = Dev("message 1", d, None, None, None, None, FALSE)
  BY <1>1, DeviceAt
<1>4. device[a].peer = d /\ device[a].confirmed = None
  <2>1. PICK was : was = device[a]
    OBVIOUS
  <2>2. was = Dev("message 1", d, None, None, None, None, FALSE)
    BY <1>3, <2>1, Zenon
  <2>3. was.peer = d /\ was.confirmed = None
    BY ONLY <2>2 DEF Dev
  <2> QED
    BY <2>1, <2>3, Zenon
<1>5. PICK p, hs : /\ p = pairing_prologue(offer_hash(Knows(d).offer), TRANSPORT_STREAM)
                   /\ hs = Handshaking("XxPsk3", PAIRING_SUITE, p, FALSE, Sr(d), None,
                                       pairing_secret(Knows(d).secret), Er(d, a))
  OBVIOUS
<1>6. PICK r, w : /\ r = read_message(hs, f.text) /\ r # None /\ w = write_message(r[1])
                  /\ device' = [device EXCEPT ![a].pc = "message 3", ![a].hs = <<w.hs>>]
                  /\ frames' = frames \cup {Handshaked("device", w.message)}
  BY <1>4, <1>5 DEF DeviceMessage1, Sr, Er
<1>7. hs = Start(DevParty(d, a), p)
  BY <1>5, DevStarts, Zenon
<1>8. PICK c \in Attempts : f.text = Msg1(Pro, Ei(c))
  <2>1. ASSUME NEW e, NEW b, NEW c, f.text = Msg3(Pro, Ei(c), Er(e, b), Sr(e), Si(c), Secret) PROVE FALSE
    BY <1>6, <1>7, <2>1, DevReadsNo3, Zenon
  <2> QED
    BY <1>1, <1>2, <2>1, DeskNoise, Zenon
<1>9. r[1] = After1(DevParty(d, a), Pro, Ei(c), Ei(c))
  <2>1. r = read_message(Start(DevParty(d, a), p), Msg1(Pro, Ei(c)))
    BY <1>6, <1>7, <1>8, Zenon
  <2>2. r = <<After1(DevParty(d, a), Pro, Ei(c), Ei(c))>>
    BY ONLY <1>6, <2>1, DevReads1
  <2> QED
    BY <2>2
<1>10. w = [hs |-> DevSent(d, a, c), message |-> Msg2(Pro, Ei(c), Er(d, a), Sr(d))]
  BY <1>6, <1>9, DevWrites2, Zenon
<1>11. w.hs = DevSent(d, a, c) /\ w.message = Msg2(Pro, Ei(c), Er(d, a), Sr(d))
  BY <1>10
<1>12. PICK x : x = Dev("message 3", d, <<DevSent(d, a, c)>>, None, None, None, FALSE)
  OBVIOUS
<1>13. device' = [device EXCEPT ![a] = x]
  <2>1. PICK hs2, y : hs2 = <<w.hs>> /\ y = [device[a] EXCEPT !.pc = "message 3", !.hs = hs2]
    OBVIOUS
  <2>2. y = Dev("message 3", d, hs2, None, None, None, FALSE)
    <3>1. PICK was, no, at, at2, opens :
            was = device[a] /\ no = None /\ at = "message 1" /\ at2 = "message 3" /\ opens = FALSE
      OBVIOUS
    <3>2. was = Dev(at, d, no, no, no, no, opens)
      BY <1>3, <3>1, Zenon
    <3>3. Answered(was, at2, hs2) = Dev(at2, d, hs2, no, no, no, opens)
      BY ONLY <3>2, AnsweredIs
    <3>4. y = Answered(was, at2, hs2)
      BY <2>1, <3>1 DEF Answered
    <3> QED
      BY <3>1, <3>3, <3>4, Zenon
  <2>3. y = x
    BY <1>11, <1>12, <2>1, <2>2, Zenon
  <2>4. device = [b \in Attempts |-> device[b]]
    BY DEF PairInv
  <2>5. device' = [device EXCEPT ![a] = y]
    BY ONLY <1>6, <2>1, <2>4, a \in Attempts
  <2> QED
    BY <2>3, <2>5, Zenon
<1>14. DeviceWaits(x, a)
  BY <1>12, Zenon DEF DeviceWaits
<1>15. \A g \in frames' : g \in frames \/ DeskFrame(g) \/ DeviceFrame(device', g)
  <2>1. DeviceFrame(device', Handshaked("device", w.message))
    BY <1>11, Zenon DEF DeviceFrame
  <2> QED
    BY <1>6, <2>1, Zenon
<1>16. device[a] # Closed
  <2>1. Closed.pc = "closed" /\ "closed" # "message 1"
    BY DEF Closed
  <2> QED
    BY <1>1, <2>1, Zenon
<1> QED
  BY <1>1, <1>2, <1>4, <1>13, <1>14, <1>15, <1>16, DeviceMoves

\* and the phone confirms, with what its holder grants.
LEMMA DeviceConfirmsKeeps ==
    ASSUME PairInv, NEW a \in Attempts, NEW f \in frames, NEW g \in frames, NEW granted \in GrantLists,
           DeviceConfirms(a, f, g, granted)
    PROVE  PairInv'
<1>1. device[a].pc = "message 3" /\ f.from = "desk" /\ f.kind = "noise" /\ UNCHANGED <<desk, record, vault>>
  BY DEF DeviceConfirms, DeviceReads
<1>2. NotYetPaired
  BY <1>1, DeviceAt
<1>3. PICK d \in Devices, c \in Attempts :
        device[a] = Dev("message 3", d, <<DevSent(d, a, c)>>, None, None, None, FALSE)
  BY <1>1, DeviceAt
<1>4. PICK was, no, at, hs, opens :
        was = device[a] /\ no = None /\ at = "message 3" /\ hs = <<DevSent(d, a, c)>> /\ opens = FALSE
  OBVIOUS
<1>5. was = Dev(at, d, hs, no, no, no, opens)
  BY <1>3, <1>4, Zenon
<1>6. device[a].hs[1] = DevSent(d, a, c) /\ device[a].confirmed = None
  <2>1. was.hs = hs /\ was.confirmed = no
    BY ONLY <1>5 DEF Dev
  <2>2. hs[1] = DevSent(d, a, c)
    BY <1>4
  <2> QED
    BY <1>4, <2>1, <2>2, Zenon
<1>7. PICK r, k : /\ r = read_message(DevSent(d, a, c), f.text) /\ r # None /\ k = split(r[1])
                  /\ device' = [device EXCEPT ![a].pc = "confirm", ![a].hs = None, ![a].recv = Used(k.recv),
                                              ![a].confirmed = <<PairRecord(r[1], granted_profiles(granted), "-")>>]
                  /\ frames' = frames \cup {Envelope("device", k.send, "PairingHello", None),
                                            Envelope("device", Used(k.send), "PairingConfirm", granted)}
  BY <1>6 DEF DeviceConfirms
<1>8. d = "mine" /\ r[1] = DevDone("mine", a, c)
  <2>1. ASSUME NEW c2, f.text = Msg1(Pro, Ei(c2)) PROVE FALSE
    BY <1>7, <2>1, DevReadsNo1, Zenon
  <2>2. PICK d2 \in Devices, a2, c2 \in Attempts : f.text = Msg3(Pro, Ei(c2), Er(d2, a2), Sr(d2), Si(c2), Secret)
    BY <1>1, <1>2, <2>1, DeskNoise, Zenon
  <2>3. r = read_message(DevSent(d, a, c), Msg3(Pro, Ei(c2), Er(d2, a2), Sr(d2), Si(c2), Secret))
    BY <1>7, <2>2, Zenon
  <2>4. d = "mine" /\ r = <<DevDone("mine", a, c)>>
    BY ONLY <1>7, <2>3, DevReads3
  <2> QED
    BY <2>4
<1>9. k = [send |-> DevKey("mine", a, c, 0), recv |-> DeskKey("mine", a, c, 0)]
  BY <1>7, <1>8, DevSplits, Zenon
<1>10. k.send = DevKey("mine", a, c, 0) /\ k.recv = DeskKey("mine", a, c, 0)
  BY <1>9
<1>11. Used(k.send) = DevKey("mine", a, c, 1) /\ Used(k.recv) = DeskKey("mine", a, c, 1)
  <2>1. /\ Used(DevKey("mine", a, c, 0)) = DevKey("mine", a, c, 0 + 1)
        /\ Used(DeskKey("mine", a, c, 0)) = DeskKey("mine", a, c, 0 + 1)
    BY ONLY KeysUsed
  <2> QED
    BY <1>10, <2>1
<1>12. PairRecord(r[1], granted_profiles(granted), "-") = Granted(a, c, granted)
  BY <1>8, Zenon DEF Granted
<1>13. PICK x : x = Dev("confirm", "mine", None, DeskKey("mine", a, c, 1), <<Granted(a, c, granted)>>, None, FALSE)
  OBVIOUS
<1>14. device' = [device EXCEPT ![a] = x]
  <2>1. PICK at2, recv2, confirmed2, y :
          /\ at2 = "confirm" /\ recv2 = Used(k.recv)
          /\ confirmed2 = <<PairRecord(r[1], granted_profiles(granted), "-")>>
          /\ y = Confirming(was, at2, no, recv2, confirmed2)
    OBVIOUS
  <2>2. Confirming(was, at2, no, recv2, confirmed2) = Dev(at2, d, no, recv2, confirmed2, no, opens)
    BY ONLY <1>5, ConfirmingIs
  <2>3. y = x
    BY <1>4, <1>8, <1>11, <1>12, <1>13, <2>1, <2>2, Zenon
  <2>4. device = [b \in Attempts |-> device[b]]
    BY DEF PairInv
  <2>5. y = [device[a] EXCEPT !.pc = at2, !.hs = no, !.recv = recv2, !.confirmed = confirmed2]
    BY <1>4, <2>1 DEF Confirming
  <2>6. device' = [device EXCEPT ![a].pc = at2, ![a].hs = no, ![a].recv = recv2, ![a].confirmed = confirmed2]
    BY <1>4, <1>7, <2>1
  <2>7. device' = [device EXCEPT ![a] = y]
    BY ONLY <2>4, <2>5, <2>6, a \in Attempts
  <2> QED
    BY <2>3, <2>7, Zenon
<1>15. DeviceConfirmed(x, a)
  BY <1>13, Zenon DEF DeviceConfirmed
<1>16. \A h \in frames' : h \in frames \/ DeskFrame(h) \/ DeviceFrame(device', h)
  <2>1. DeviceFrame(device', Envelope("device", k.send, "PairingHello", None))
    BY <1>10, Zenon DEF DeviceFrame
  <2>2. device'[a] = x
    <3>1. device = [b \in Attempts |-> device[b]]
      BY DEF PairInv
    <3> QED
      BY <1>14, <3>1
  <2>3. Confirmed(x, a, c, granted)
    BY <1>13 DEF Confirmed, Dev
  <2>4. DeviceFrame(device', Envelope("device", Used(k.send), "PairingConfirm", granted))
    BY <1>11, <2>2, <2>3, Zenon DEF DeviceFrame
  <2> QED
    BY <1>7, <2>1, <2>4, Zenon
<1>17. device[a] # Closed
  <2>1. Closed.pc = "closed" /\ "closed" # "message 3"
    BY DEF Closed
  <2> QED
    BY <1>1, <2>1, Zenon
<1> QED
  BY <1>1, <1>2, <1>6, <1>14, <1>15, <1>16, <1>17, DeviceMoves

\* The desktop's confirmation is read by the phone it was made with, and the
\* session between the two records opens.
LEMMA OpensIsTrue ==
    ASSUME NEW d, NEW p, Mirrors(d, p)
    PROVE  SessionOpens(d, p) = TRUE
<1>1. SessionOpens(d, p)
  BY SessionsOpen
<1>2. SessionOpens(d, p) \in BOOLEAN
  BY Zenon DEF SessionOpens
<1> QED
  BY <1>1, <1>2, Zenon
LEMMA StoresAfterConfirm ==
    ASSUME PairInv, NEW a \in Attempts, NEW f \in frames, DeviceStores(a, f)
    PROVE  \E c \in Attempts, g \in GrantLists, mode \in Modes \cup {"-"} :
             /\ PairMade(a, c, g, mode) /\ Paired
             /\ device[a] = Dev("confirm", "mine", None, DeskKey("mine", a, c, 1), <<Granted(a, c, g)>>, None, FALSE)
<1>1. device[a].pc = "confirm" /\ f.from = "desk" /\ Opened(f, device[a].recv, "PairingConfirm") # None
  BY DEF DeviceStores, DeviceReads
<1>2. ~Using /\ DeviceConfirmed(device[a], a)
  BY <1>1, DeviceAt
<1>3. PICK c \in Attempts, g \in GrantLists :
        device[a] = Dev("confirm", "mine", None, DeskKey("mine", a, c, 1), <<Granted(a, c, g)>>, None, FALSE)
  BY <1>2, Zenon DEF DeviceConfirmed
<1>4. device[a].recv = DeskKey("mine", a, c, 1) /\ device[a].confirmed = <<Granted(a, c, g)>>
  <2>1. PICK was, recv, confirmed : was = device[a] /\ recv = DeskKey("mine", a, c, 1) /\ confirmed = <<Granted(a, c, g)>>
    OBVIOUS
  <2>2. was = Dev("confirm", "mine", None, recv, confirmed, None, FALSE)
    BY <1>3, <2>1, Zenon
  <2>3. was.recv = recv /\ was.confirmed = confirmed
    BY ONLY <2>2 DEF Dev
  <2> QED
    BY <2>1, <2>3, Zenon
<1>5. Opened(f, DeskKey("mine", a, c, 1), "PairingConfirm") # None
  BY <1>1, <1>4, Zenon
<1>6. ~NotYetPaired
  <2>1. SUFFICES ASSUME NotYetPaired PROVE FALSE
    OBVIOUS
  <2>2. DeskFrame(f)
    <3>1. DeskFrame(f) \/ DeviceFrame(device, f)
      BY <2>1, Zenon DEF NotYetPaired
    <3>2. DeviceFrame(device, f) => f.from = "device"
      BY FramesFrom
    <3> QED
      BY <1>1, <3>1, <3>2
  <2>3. \A message : f # Handshaked("desk", message)
    BY <1>5, NoiseNotOpened, Zenon
  <2>4. PICK d2 \in Devices, a2, c2 \in Attempts :
          f = Envelope("desk", DeskKey(d2, a2, c2, 0), "PairingHello", OFFER_PROFILES)
    BY <2>2, <2>3, Zenon DEF DeskFrame
  <2>5. "PairingHello" = "PairingConfirm"
    BY ONLY <1>5, <2>4, DeskKeyOpens
  <2> QED
    BY <2>5
<1>7. Paired
  BY <1>2, <1>6, Zenon DEF PairInv
<1>8. PICK a2, c2 \in Attempts, g2 \in GrantLists, mode \in Modes \cup {"-"} : PairMade(a2, c2, g2, mode)
  BY <1>7, Zenon DEF Paired
<1>9. f = Envelope("desk", DeskKey("mine", a2, c2, 1), "PairingConfirm", granted_profiles(g2))
  BY <1>8 DEF PairMade
<1>10. a2 = a /\ c2 = c
  BY ONLY <1>5, <1>9, DeskKeyOpens
<1>11. PairMade(a, c, g2, mode)
  BY <1>8, <1>10, Zenon
<1>12. <<Granted(a, c, g)>> = <<Granted(a, c, g2)>>
  BY <1>4, <1>11, Zenon DEF PairMade, Confirmed
<1> QED
  BY <1>3, <1>7, <1>11, <1>12, Zenon
LEMMA DeviceStoresKeeps ==
    ASSUME PairInv, NEW a \in Attempts, NEW f \in frames, DeviceStores(a, f)
    PROVE  PairInv'
<1>1. PICK c \in Attempts, g \in GrantLists, mode \in Modes \cup {"-"} :
        /\ PairMade(a, c, g, mode) /\ Paired
        /\ device[a] = Dev("confirm", "mine", None, DeskKey("mine", a, c, 1), <<Granted(a, c, g)>>, None, FALSE)
  BY StoresAfterConfirm, Zenon
<1>2. PICK was, no, at, recv, confirmed, opens :
        /\ was = device[a] /\ no = None /\ at = "confirm" /\ recv = DeskKey("mine", a, c, 1)
        /\ confirmed = <<Granted(a, c, g)>> /\ opens = FALSE
  OBVIOUS
<1>3. PICK peer : peer = "mine"
  OBVIOUS
<1>4. was = Dev(at, peer, no, recv, confirmed, no, opens)
  BY <1>1, <1>2, <1>3, Zenon
<1>5. device[a].confirmed = confirmed /\ device[a].confirmed[1] = Granted(a, c, g)
  <2>1. was.confirmed = confirmed
    BY ONLY <1>4 DEF Dev
  <2>2. confirmed[1] = Granted(a, c, g)
    BY <1>2
  <2> QED
    BY <1>2, <2>1, <2>2, Zenon
<1>6. record[1] = PairRecord(DeskDone("mine", a, c), granted_profiles(g), mode)
  BY <1>1 DEF PairMade
<1>7. SessionOpens(record[1], device[a].confirmed[1]) = TRUE
  <2>1. Mirrors(record[1], device[a].confirmed[1])
    BY <1>5, <1>6, RecordsMirror, Zenon
  <2> QED
    BY <2>1, OpensIsTrue
<1>8. PICK y : y = Dev("closed", "mine", None, None, <<Granted(a, c, g)>>, <<Granted(a, c, g)>>, TRUE)
  OBVIOUS
<1>9. device' = [device EXCEPT ![a] = y]
  <2>1. PICK at2, opens2 : at2 = "closed" /\ opens2 = SessionOpens(record[1], device[a].confirmed[1])
    OBVIOUS
  <2>2. Storing(was, at2, no, confirmed, opens2) = Dev(at2, peer, no, no, confirmed, confirmed, opens2)
    BY ONLY <1>4, StoringIs
  <2>3. y = Storing(was, at2, no, confirmed, opens2)
    BY <1>2, <1>3, <1>7, <1>8, <2>1, <2>2, Zenon
  <2>4. y = [device[a] EXCEPT !.pc = at2, !.recv = no, !.record = confirmed, !.opens = opens2]
    BY <1>2, <2>3 DEF Storing
  <2>5. device' = [device EXCEPT ![a].pc = at2, ![a].recv = no, ![a].record = confirmed, ![a].opens = opens2]
    BY <1>2, <1>5, <2>1 DEF DeviceStores
  <2>6. device = [b \in Attempts |-> device[b]]
    BY DEF PairInv
  <2> QED
    BY ONLY <2>4, <2>5, <2>6, a \in Attempts
<1>10. /\ device'[a] = y /\ \A b \in Attempts : b # a => device'[b] = device[b]
       /\ device' = [b \in Attempts |-> device'[b]]
  <2>1. device = [b \in Attempts |-> device[b]]
    BY DEF PairInv
  <2> QED
    BY <1>9, <2>1
<1>11. record' = record /\ frames' = frames /\ desk' = desk /\ vault' = vault
  BY DEF DeviceStores
<1>12. Confirmed(y, a, c, g)
  BY <1>8 DEF Confirmed, Dev
<1>13. PairMade(a, c, g, mode)'
  <2>1. Confirmed(device'[a], a, c, g)
    BY <1>10, <1>12, Zenon
  <2>2. \A b \in Attempts :
          \/ device'[b] = Closed \/ DeviceConfirmed(device'[b], b)
          \/ /\ b = a
             /\ device'[b] = Dev("closed", "mine", None, None, <<Granted(a, c, g)>>, <<Granted(a, c, g)>>, TRUE)
    BY <1>1, <1>8, <1>10, Zenon DEF PairMade
  <2> QED
    BY <1>1, <1>11, <2>1, <2>2, Zenon DEF PairMade
<1>14. Paired'
  BY <1>1, <1>11, <1>13, Zenon DEF Paired
<1> QED
  BY <1>10, <1>14, Zenon DEF PairInv

\* An operation leaves the pair alone, and saves the record it was given.
LEMMA CallKeeps ==
    ASSUME PairInv, UNCHANGED <<desk, device, frames, record>>,
           vault' = vault \/ (vault' = record /\ desk.pc \in {"certificate", "use"})
    PROVE  PairInv'
<1>1. desk' = desk /\ device' = device /\ frames' = frames /\ record' = record
  OBVIOUS
<1>2. CASE Using
  <2>1. vault' = record'
    BY <1>1, <1>2, Zenon DEF Using
  <2>2. Using'
    BY <1>1, <1>2, <2>1, Zenon DEF Using
  <2> QED
    BY <1>1, <2>2, Zenon DEF PairInv
<1>3. CASE Paired
  <2>1. vault' # None => vault'[1].pair_id = record'[1].pair_id
    BY <1>1, <1>3, Zenon DEF Paired
  <2>2. \A a, c \in Attempts, g \in GrantLists, m \in Modes \cup {"-"} : PairMade(a, c, g, m) => PairMade(a, c, g, m)'
    <3>1. SUFFICES ASSUME NEW a \in Attempts, NEW c \in Attempts, NEW g \in GrantLists, NEW m \in Modes \cup {"-"},
                          PairMade(a, c, g, m)
                   PROVE  PairMade(a, c, g, m)'
      BY Zenon
    <3> QED
      BY <1>1, <3>1 DEF PairMade
  <2>3. Paired'
    BY <1>1, <1>3, <2>1, <2>2, Zenon DEF Paired
  <2> QED
    BY <1>1, <2>3, Zenon DEF PairInv
<1>4. CASE NotYetPaired
  <2>1. desk.pc \in Early
    BY <1>4, DeskWaitsAt, Zenon DEF NotYetPaired
  <2>2. vault' = vault
    BY <2>1 DEF Early
  <2>3. NotYetPaired'
    BY <1>1, <1>4, <2>2, Zenon DEF NotYetPaired
  <2> QED
    BY <1>1, <2>3, Zenon DEF PairInv
<1> QED
  BY <1>2, <1>3, <1>4, Zenon DEF PairInv

LEMMA EarlierPairsMirror == Mirrors(EarlierPair("desk"), EarlierPair("mine"))
<1>1. PICK x, y, id, token, hash, profiles, d, m :
        /\ x = EarlierPair("desk") /\ y = EarlierPair("mine") /\ id = derive_pair_id(None)
        /\ token = derive_rendezvous_token(None) /\ hash = derive_grants_hash(OFFER_PROFILES) /\ profiles = OFFER_PROFILES
        /\ d = <<"static", "desk", 0>> /\ m = <<"static", "mine", 0>>
  OBVIOUS
<1>2. x = [pair_id |-> id, rendezvous_token |-> token, local_static |-> d, remote_static |-> m,
           grants_hash |-> hash, profiles |-> profiles, mode |-> "rendezvous", cached_auth_cert |-> TRUE]
  BY <1>1 DEF EarlierPair
<1>3. y = [pair_id |-> id, rendezvous_token |-> token, local_static |-> m, remote_static |-> d,
           grants_hash |-> hash, profiles |-> profiles, mode |-> "rendezvous", cached_auth_cert |-> TRUE]
  BY <1>1 DEF EarlierPair
<1>4. Mirrors(x, y)
  BY ONLY <1>2, <1>3 DEF Mirrors
<1> QED
  BY <1>1, <1>4, Zenon

LEMMA PairInvStarts == PairingInit => PairInv
<1>1. SUFFICES ASSUME PairingInit PROVE PairInv
  OBVIOUS
<1>2. PICK d : /\ d = [pc |-> "off", attempt |-> 0, mode |-> "-", hs |-> None, send |-> None, recv |-> None]
               /\ \/ /\ desk = [d EXCEPT !.pc = "use"]
                     /\ record = <<EarlierPair("desk")>> /\ vault = record
                     /\ device = [a \in Attempts |->
                                    [Closed EXCEPT !.peer = "mine", !.record = <<EarlierPair("mine")>>,
                                                   !.opens = SessionOpens(EarlierPair("desk"), EarlierPair("mine"))]]
                  \/ /\ desk = d /\ record = None /\ vault = None
                     /\ device = [a \in Attempts |-> Closed]
  BY <1>1 DEF PairingInit
<1>3. frames = {}
  BY <1>1 DEF PairingInit
<1>4. CASE /\ desk = [d EXCEPT !.pc = "use"]
           /\ record = <<EarlierPair("desk")>> /\ vault = record
           /\ device = [a \in Attempts |->
                          [Closed EXCEPT !.peer = "mine", !.record = <<EarlierPair("mine")>>,
                                         !.opens = SessionOpens(EarlierPair("desk"), EarlierPair("mine"))]]
  <2>1. desk.pc = "use"
    BY <1>2, <1>4
  <2>2. SessionOpens(EarlierPair("desk"), EarlierPair("mine")) = TRUE
    BY EarlierPairsMirror, OpensIsTrue
  <2>3. PICK peer, kept, opens, no, at : /\ peer = "mine" /\ kept = <<EarlierPair("mine")>> /\ no = None /\ at = "closed"
                                         /\ opens = SessionOpens(EarlierPair("desk"), EarlierPair("mine"))
    OBVIOUS
  <2>4. PICK x : x = [Closed EXCEPT !.peer = peer, !.record = kept, !.opens = opens]
    OBVIOUS
  <2>5. x = Dev(at, peer, no, no, no, kept, opens)
    <3>1. PICK r1, shut, old : r1 = [Closed EXCEPT !.peer = peer] /\ shut = FALSE /\ old = "-"
      OBVIOUS
    <3>2. Closed = [pc |-> at, peer |-> old, hs |-> no, recv |-> no, confirmed |-> no, record |-> no, opens |-> shut]
      BY <2>3, <3>1, Zenon DEF Closed
    <3>3. r1 = [pc |-> at, peer |-> peer, hs |-> no, recv |-> no, confirmed |-> no, record |-> no, opens |-> shut]
      BY <3>1, <3>2
    <3>4. PICK r2 : r2 = [r1 EXCEPT !.record = kept]
      OBVIOUS
    <3>5. r2 = [pc |-> at, peer |-> peer, hs |-> no, recv |-> no, confirmed |-> no, record |-> kept, opens |-> shut]
      BY ONLY <3>3, <3>4
    <3>6. [r2 EXCEPT !.opens = opens] =
            [pc |-> at, peer |-> peer, hs |-> no, recv |-> no, confirmed |-> no, record |-> kept, opens |-> opens]
      BY ONLY <3>5
    <3>7. x = [r2 EXCEPT !.opens = opens]
      BY <2>4, <3>1, <3>4
    <3> QED
      BY <3>6, <3>7, Zenon DEF Dev
  <2>6. device = [a \in Attempts |-> x]
    BY <1>4, <2>3, <2>4
  <2>7. x = Dev("closed", "mine", None, None, None, <<EarlierPair("mine")>>, TRUE)
    BY <2>2, <2>3, <2>5, Zenon
  <2>8. device = [b \in Attempts |-> device[b]] /\ \A b \in Attempts : device[b] = x
    BY <2>6
  <2>9. Using
    BY <1>3, <1>4, <2>1, <2>7, <2>8, Zenon DEF Using
  <2> QED
    BY <2>8, <2>9, Zenon DEF PairInv
<1>5. CASE /\ desk = d /\ record = None /\ vault = None
           /\ device = [a \in Attempts |-> Closed]
  <2>1. PICK zero \in Nat : zero = 0
    OBVIOUS
  <2>2. desk = Desk("off", zero, "-", None, None, None)
    BY <1>2, <1>5, <2>1, Zenon DEF Desk
  <2>3. DeskWaits(desk, zero, "-")
    BY <2>2, Zenon DEF DeskWaits
  <2>4. "-" \in Modes \cup {"-"}
    OBVIOUS
  <2>5. device = [b \in Attempts |-> device[b]] /\ \A b \in Attempts : device[b] = Closed
    BY <1>5
  <2>6. NotYetPaired
    BY <1>3, <1>5, <2>3, <2>4, <2>5 DEF NotYetPaired, DeviceWaits
  <2> QED
    BY <2>5, <2>6, Zenon DEF PairInv
<1> QED
  BY <1>2, <1>4, <1>5

LEMMA PairInvKept == PairInv /\ [PairingNext]_allVars => PairInv'
<1>1. SUFFICES ASSUME PairInv, [PairingNext]_allVars PROVE PairInv'
  OBVIOUS
<1>2. CASE DeskStep
  <2>1. ASSUME NEW mode \in Modes, BeginPairing(mode) PROVE PairInv'
    BY <1>1, <2>1, BeginPairingKeeps
  <2>2. ASSUME NEW d \in Devices, PairConnect(d) PROVE PairInv'
    BY <1>1, <2>2, PairConnectKeeps
  <2>3. ASSUME NEW f \in frames, Message2(f) PROVE PairInv'
    BY <1>1, <2>3, Message2Keeps
  <2>4. ASSUME NEW f \in frames, ProxyHello(f) PROVE PairInv'
    BY <1>1, <2>4, ProxyHelloKeeps
  <2>5. ASSUME NEW f \in frames, ProxyConfirm(f) PROVE PairInv'
    BY <1>1, <2>5, ProxyConfirmKeeps
  <2>6. CASE PairingError
    <3>1. desk.pc \in Early /\ PairingFails
      BY <2>6 DEF PairingError, Early
    <3> QED
      BY <1>1, <3>1, PairingFailsKeeps
  <2>7. ASSUME NEW outcome \in {"ok", "fails"}, SavePairing(outcome) PROVE PairInv'
    BY <1>1, <2>7, SavePairingKeeps
  <2> QED
    BY <1>2, <2>1, <2>2, <2>3, <2>4, <2>5, <2>6, <2>7, Zenon DEF DeskStep
<1>3. ASSUME NEW a \in Attempts, DeviceStep(a) PROVE PairInv'
  <2>1. ASSUME NEW f \in frames, DeviceMessage1(a, f) PROVE PairInv'
    BY <1>1, <2>1, DeviceMessage1Keeps
  <2>2. ASSUME NEW f \in frames, DeviceStores(a, f) PROVE PairInv'
    BY <1>1, <2>2, DeviceStoresKeeps
  <2>3. ASSUME NEW f \in frames, NEW g \in frames, NEW granted \in GrantLists, DeviceConfirms(a, f, g, granted)
        PROVE  PairInv'
    BY <1>1, <2>3, DeviceConfirmsKeeps
  <2> QED
    BY <1>3, <2>1, <2>2, <2>3, Zenon DEF DeviceStep
<1>4. CASE CallConnect
  BY <1>1, <1>4, CallKeeps DEF CallConnect, Calling
<1>5. CASE UNCHANGED pairing
  BY <1>1, <1>5, CallKeeps DEF pairing
<1> QED
  BY <1>1, <1>2, <1>3, <1>4, <1>5 DEF PairingNext, CallStep, PhoneStep, Over, allVars

LEMMA PairInvAgrees == PairInv => PairsAgree
<1>1. CASE NotYetPaired
  <2>1. record = None /\ vault = None
    BY <1>1, Zenon DEF NotYetPaired
  <2>2. \A a \in Attempts : device[a].record = None
    BY <1>1, WaitsUnconfirmed, ConfirmedWaits, Zenon DEF NotYetPaired
  <2> QED
    BY <2>1, <2>2, Zenon DEF PairsAgree
<1>2. CASE Paired
  <2>1. PICK a, c \in Attempts, g \in GrantLists, mode \in Modes \cup {"-"} : PairMade(a, c, g, mode)
    BY <1>2, Zenon DEF Paired
  <2>2. record[1] = PairRecord(DeskDone("mine", a, c), granted_profiles(g), mode) /\ record # None
    BY <2>1 DEF PairMade, None
  <2>3. Mirrors(record[1], Granted(a, c, g))
    BY <2>2, RecordsMirror, Zenon
  <2>4. \A b \in Attempts : device[b].record # None =>
          Mirrors(record[1], device[b].record[1]) /\ device[b].opens
    <3>1. SUFFICES ASSUME NEW b \in Attempts, device[b].record # None
                   PROVE  Mirrors(record[1], device[b].record[1]) /\ device[b].opens
      BY Zenon
    <3>2. device[b] # Closed
      <4>1. Closed.record = None
        BY DEF Closed
      <4> QED
        BY <3>1, <4>1, Zenon
    <3>3. ~DeviceConfirmed(device[b], b)
      BY <3>1, ConfirmedWaits
    <3>4. device[b] = Dev("closed", "mine", None, None, <<Granted(a, c, g)>>, <<Granted(a, c, g)>>, TRUE)
      BY <2>1, <3>2, <3>3, Zenon DEF PairMade
    <3>5. PICK was, kept : was = device[b] /\ kept = <<Granted(a, c, g)>>
      OBVIOUS
    <3>6. was = Dev("closed", "mine", None, None, kept, kept, TRUE)
      BY <3>4, <3>5, Zenon
    <3>7. was.record = kept /\ was.opens
      BY ONLY <3>6 DEF Dev
    <3>8. kept[1] = Granted(a, c, g)
      BY <3>5
    <3> QED
      BY <2>3, <3>5, <3>7, <3>8, Zenon
  <2>5. /\ device[a].peer = "mine" /\ device[a].confirmed # None
        /\ Mirrors(record[1], device[a].confirmed[1])
    <3>1. device[a].peer = "mine" /\ device[a].confirmed = <<Granted(a, c, g)>>
      BY <2>1, Zenon DEF PairMade, Confirmed
    <3>2. <<Granted(a, c, g)>> # None /\ <<Granted(a, c, g)>>[1] = Granted(a, c, g)
      BY DEF None
    <3> QED
      BY <2>3, <3>1, <3>2, Zenon
  <2>6. vault # None => vault[1].pair_id = record[1].pair_id
    BY <1>2, Zenon DEF Paired
  <2> QED
    BY <2>2, <2>4, <2>5, <2>6, Zenon DEF PairsAgree
<1>3. CASE Using
  <2>1. record[1] = EarlierPair("desk") /\ record # None /\ vault = record /\ desk.pc = "use"
    BY <1>3 DEF Using, None
  <2>2. \A b \in Attempts : Mirrors(record[1], device[b].record[1]) /\ device[b].opens
    <3>1. SUFFICES ASSUME NEW b \in Attempts PROVE Mirrors(record[1], device[b].record[1]) /\ device[b].opens
      OBVIOUS
    <3>2. PICK was, kept : was = device[b] /\ kept = <<EarlierPair("mine")>>
      OBVIOUS
    <3>3. was = Dev("closed", "mine", None, None, None, kept, TRUE)
      BY <1>3, <3>2, Zenon DEF Using
    <3>4. was.record = kept /\ was.opens
      BY ONLY <3>3 DEF Dev
    <3>5. kept[1] = EarlierPair("mine")
      BY <3>2
    <3> QED
      BY <2>1, <3>2, <3>4, <3>5, EarlierPairsMirror, Zenon
  <2> QED
    BY <2>1, <2>2, Zenon DEF PairsAgree
<1> QED
  BY <1>1, <1>2, <1>3, Zenon DEF PairInv

(***************************************************************************)
(* A pair is with the phone whose holder typed the code, and both sides    *)
(* keep the same one, whatever devices answer, however often pairing is    *)
(* tried with the same code and whichever frames of any attempt a read of  *)
(* pair_requester_over_stream returns: what the desktop makes mirrors what *)
(* that phone confirmed, what a phone keeps mirrors the record made, and a *)
(* session over the two opens.                                             *)
(***************************************************************************)
THEOREM PairsAgreeHolds == PairingSpec => []PairsAgree
  BY PairInvStarts, PairInvKept, PairInvAgrees, PTL DEF PairingSpec
=============================================================================
