------------------------------ MODULE FixSession ------------------------------
(***************************************************************************)
(* One client's byte stream through the server: EventLoop::handleReadable  *)
(* gathers what recv() returns in recvBuffer, cuts complete messages off   *)
(* it and hands them to the pool, whose workers parse and answer them in   *)
(* any order (EventLoop.hpp, 165-246, with FixParser).                     *)
(*                                                                         *)
(* TCP delivers the stream in order but in arbitrary pieces.  The fault    *)
(* model is one damaged token: the stream may have one token replaced by   *)
(* another whose bytes do not add up to the same sum.  What becomes of the *)
(* connection when the client leaves is the subject of EventLoop.          *)
(***************************************************************************)
EXTENDS FixParser

CONSTANTS
    Scripts,    \* the sequences of message bodies a client may send
    Noise(_),   \* tokens that a damaged token of a script may turn into
    Workers,    \* how many messages are handled at a time
    Reasons     \* why validate() may reject an order

Vocabulary(s) == UNION {Range(s[k]) : k \in DOMAIN s}

\* A script is a sequence of bodies, and a message fits in a size_t, the start
\* of another included.
ASSUME FixAssumption ==
    \A s \in Scripts : /\ s \in Seq(Seq(Vocabulary(s)))
                       /\ \A k \in DOMAIN s : Len(s[k]) + 12 < 2^Width

VARIABLES
    script,     \* the bodies of the messages the client sends
    sent,       \* the messages they make
    fault,      \* <<k, i, token>>: token i of message k is damaged; or NoFault
    wire,       \* what recv() has still to return
    recvBuffer, \* Connection::recvBuffer
    loop,       \* "wait" in epoll_wait, or "extract"
    jobs,       \* the raw messages dispatched so far
    answers,    \* number of a job -> the message sent back and the order behind it
    nextOrderId \* FixParser::nextOrderId_

client  == <<script, sent, fault>>
fixVars == <<client, wire, recvBuffer, loop, jobs, answers, nextOrderId>>

NoFault == <<0, 0, SOH>>

\* The messages as they arrive.
Delivered ==
    [k \in DOMAIN sent |-> IF k = fault[1] THEN ReplaceAt(sent[k], fault[2], fault[3]) ELSE sent[k]]

FixInit ==
    /\ script \in Scripts
    /\ sent = [k \in DOMAIN script |-> BuildMessage(script[k])]
    /\ \/ fault = NoFault
       \/ \E k \in DOMAIN sent : \E i \in DOMAIN sent[k], t \in Noise(script) :
             /\ Weight(t) % 256 # Weight(sent[k][i]) % 256
             /\ fault = <<k, i, t>>
    /\ wire        = FlattenSeq(Delivered)
    /\ recvBuffer  = << >>
    /\ loop        = "wait"
    /\ jobs        = << >>
    /\ answers     = << >>
    /\ nextOrderId = 1

-----------------------------------------------------------------------------
(* The loop thread: handleReadable()                                       *)

\* recv() until EAGAIN, n tokens in all.
Readable(n) ==
    /\ loop = "wait"
    /\ recvBuffer' = recvBuffer \o SubSeq(wire, 1, n)
    /\ wire' = SubSeq(wire, n + 1, Len(wire))
    /\ loop' = "extract"
    /\ UNCHANGED <<client, jobs, answers, nextOrderId>>

Extract ==
    LET total == TryExtractMessage(recvBuffer)
    IN  /\ loop = "extract"
        /\ total # NoMessage
        /\ jobs' = Append(jobs, SubSeq(recvBuffer, 1, total))
        /\ recvBuffer' = SubSeq(recvBuffer, total + 1, Len(recvBuffer))
        /\ UNCHANGED <<client, wire, loop, answers, nextOrderId>>

\* Mutant: what is left in the buffer is thrown away.
ExtractNone_Clears ==
    /\ loop = "extract"
    /\ TryExtractMessage(recvBuffer) = NoMessage
    /\ loop' = "wait"
    /\ recvBuffer' = << >>
    /\ UNCHANGED <<client, wire, jobs, answers, nextOrderId>>

ExtractNone ==
    /\ loop = "extract"
    /\ TryExtractMessage(recvBuffer) = NoMessage
    /\ loop' = "wait"
    /\ UNCHANGED <<client, wire, recvBuffer, jobs, answers, nextOrderId>>

-----------------------------------------------------------------------------
(* A worker: the job dispatchToWorker() submits                            *)

Unanswered(k) == k \in DOMAIN jobs \ DOMAIN answers

\* The queue is first-in first-out: job k is running or about to when fewer
\* than Workers older ones are unanswered.
Running(k) == Unanswered(k) /\ Cardinality({i \in 1 .. k - 1 : Unanswered(i)}) < Workers

Nak(reason) == BuildMessage(Field(35, Num(3)) \o Field(58, Txt(reason)))

\* Mutant: the reason is added to the finished message.
Report_ReasonOutside(orderId, verdict) ==
    BuildMessage(Field(35, Num(8)) \o Field(37, Num(orderId)) \o
                 Field(39, Num(IF verdict = "" THEN 0 ELSE 8))) \o
    (IF verdict = "" THEN << >> ELSE Field(58, Txt(verdict)))

Report(orderId, verdict) ==
    BuildMessage(Field(35, Num(8)) \o Field(37, Num(orderId)) \o
                 Field(39, Num(IF verdict = "" THEN 0 ELSE 8)) \o
                 (IF verdict = "" THEN << >> ELSE Field(58, Txt(verdict))))

NoOrder == << >>

\* parseOrder(), validate() and safeSend() of job k; the verdict of validate()
\* is left open ("" accepts).
Respond(k, verdict) ==
    LET reason == RejectReason(jobs[k])
        answer == IF reason # "" THEN [order |-> NoOrder, reply |-> Nak(reason)]
                  ELSE [order |-> OrderOf(jobs[k], nextOrderId), reply |-> Report(nextOrderId, verdict)]
    IN  /\ Running(k)
        /\ answers' = [l \in DOMAIN answers \cup {k} |-> IF l = k THEN answer ELSE answers[l]]
        /\ nextOrderId' = nextOrderId + (IF DrawsOrderId(jobs[k]) THEN 1 ELSE 0)
        /\ UNCHANGED <<client, wire, recvBuffer, loop, jobs>>

-----------------------------------------------------------------------------
FixNext ==
    \/ \E n \in 1 .. Len(wire) : Readable(n)
    \/ Extract
    \/ ExtractNone
    \/ \E k \in DOMAIN jobs, verdict \in Reasons \cup {""} : Respond(k, verdict)

FixSpec == FixInit /\ [][FixNext]_fixVars

-----------------------------------------------------------------------------
(* Properties                                                              *)

\* How many messages come before any damage.
Intact == IF fault = NoFault THEN Len(sent) ELSE fault[1] - 1

AtRest == wire = << >> /\ loop = "wait"

\* "You know exactly where a message ends": however the stream is cut into
\* reads, the messages before any damage are dispatched one by one exactly as
\* sent, all of them once the stream has been read, with nothing left over.
FramingExact ==
    /\ \A k \in 1 .. Min({Intact, Len(jobs)}) : jobs[k] = sent[k]
    /\ AtRest => Len(jobs) >= Intact
    /\ AtRest /\ fault = NoFault => Len(jobs) = Len(sent) /\ recvBuffer = << >>

\* A list of fields, each with a number or a text as its value, as the test
\* client writes them between the header and the checksum.
IsValue(t) == (t = Num(t[2]) /\ t[2] \in Int) \/ t = Txt(t[2])

IsFieldList(body) ==
    \E n \in 0 .. Len(body) :
        /\ Len(body) = 3 * n
        /\ \A i \in 1 .. n : /\ body[3 * i - 2] = Tag(body[3 * i - 2][2])
                              /\ IsValue(body[3 * i - 1])
                              /\ body[3 * i] = SOH

ClientsSendFields == \A s \in Scripts : \A k \in DOMAIN s : IsFieldList(s[k])

\* buildMessage() writes BodyLength and CheckSum; the bodies have neither.  A
\* damaged token is still one, of some kind and content.
BodiesAreInner == \A s \in Scripts : \A k \in DOMAIN s : Tag(9) \notin Range(s[k]) /\ Tag(10) \notin Range(s[k])
NoiseIsTokens  == \A s \in Scripts : \A t \in Noise(s) : t = <<t[1], t[2]>>

\* The reference for one such body: what the client said, last mention first.
Absent == <<"absent", 0>>

Said(body, tag) ==
    LET at == {i \in DOMAIN body : body[i] = Tag(tag)}
    IN  IF at = {} THEN Absent ELSE body[Max(at) + 1]

Expected(body) ==
    IF Said(body, 35) # Txt("D") THEN "unsupported_msgtype"
    ELSE IF \/ \E tag \in Required : Said(body, tag) = Absent
            \/ \E tag \in {1, 38} : ~(/\ Said(body, tag)[1] = "num"
                                      /\ Said(body, tag)[2] \in 1 - 2^Width .. 2^Width - 1)
            \/ Said(body, 44)[1] # "num" /\ Said(body, 44) # Txt("nan")
         THEN "malformed_message"
    ELSE ""

\* An intact message is answered for what it says: the rejection the field
\* list calls for, or an order with the account, side, quantity and price the
\* client wrote (accounts that are not negative, quantities up to the width of
\* Order::qty).
AnsweredAsSent ==
    \A k \in DOMAIN answers : k <= Intact =>
        LET order == answers[k].order
            said(tag) == Said(script[k], tag)
        IN  IF Expected(script[k]) # "" THEN order = NoOrder
            ELSE /\ order # NoOrder
                 /\ said(1)[2] >= 0 => Num(order.accountId) = said(1)
                 /\ order.side = "BUY" <=> said(54) = Num(1)
                 /\ said(38)[2] \in 0 .. 2^QtyWidth - 1 => Num(order.qty) = said(38)
                 /\ order.price # NaN => Num(order.price) = said(44)

\* BodyLength does not become another number.  Where it does, messages are cut
\* off where they do not end, and two that run together may happen to have the
\* checksum of the second: eight bits do not tell.
LengthIsKnown == fault[2] # 5 \/ fault[3][1] # "num"

\* A message the client did not send never becomes an order: whichever token is
\* damaged, separators and tags of the header included, its message is never cut
\* off or fails the checksum.  Not so if BodyLength becomes another number.
NoOrderFromDamage ==
    LengthIsKnown =>
        \A k \in DOMAIN answers :
            answers[k].order # NoOrder => jobs[k] \in Range(sent)

\* Every reply is itself one complete message with a valid checksum, and no
\* two orders share the id their reports carry.
RepliesWellFormed ==
    /\ \A k \in DOMAIN answers :
           LET reply == answers[k].reply
           IN  TryExtractMessage(reply) = Len(reply) /\ VerifyChecksum(reply)
    /\ \A k, l \in DOMAIN answers :
           answers[k].order # NoOrder /\ answers[l].order # NoOrder /\ k # l
           => answers[k].order.orderId # answers[l].order.orderId
=============================================================================
