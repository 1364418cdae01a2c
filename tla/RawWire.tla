------------------------------ MODULE RawWire ------------------------------
(***************************************************************************)
(* The raw wire layer: one call of a RawConnection method, or one of the   *)
(* two abandon assertions on a RawSession, against a server that answers   *)
(* late, in pieces, in parallel, closes the connection or says nothing.    *)
(*                                                                         *)
(* The server's bytes are the PDUs in sent, each of them a head and a tail *)
(* (two octets, so to speak): position 2k is the head of PDU k+1.  What    *)
(* the client has read is the number of positions taken, and what one recv *)
(* returned is the positions from one value of taken to the next.          *)
(***************************************************************************)
EXTENDS Naturals, Sequences, SequencesExt

CONSTANTS
  Methods,     \* the calls considered
  MaxSent,     \* bound: no entry or notice once so many PDUs were sent
  Fragmented,  \* the calls whose recv may return a part of a PDU
  Notices      \* the server may send a Notice of Disconnection

AllMethods == {"bind", "raw_send", "send_malformed", "bind_then_send",
               "bind_then_send_raw", "abandon_in_progress", "abandon_unknown"}
ASSUME WireAssumption ==
  /\ Methods \subseteq AllMethods
  /\ MaxSent \in Nat
  /\ Fragmented \subseteq AllMethods /\ Notices \in BOOLEAN

VARIABLES
  method,    \* the call
  pc,        \* where the client is in it
  step,      \* the request it is at, an index into Script
  requests,  \* requests on their way to the server
  working,   \* requests the server is working on
  sent,      \* the PDUs the server has sent
  link,      \* "up", or "closed" by the server
  taken,     \* how much of sent the client has read
  start,     \* where the bytes kept by bind_then_send_raw begin
  result     \* what the call returned

vars == <<method, pc, step, requests, working, sent, link, taken, start, result>>
serverVars == <<working, sent, link>>

\* The requests of each call, in order; request i has messageID i.
Script ==
  CASE method = "bind" -> <<"bind">>
    [] method = "raw_send" -> <<"op">>
    [] method = "send_malformed" -> <<"garbage">>
    [] method = "bind_then_send" -> <<"bind", "op">>
    [] method = "bind_then_send_raw" -> <<"bind", "search">>
    [] method = "abandon_unknown" -> <<"bind", "abandon", "search">>
    [] method = "abandon_in_progress" -> <<"bind", "search", "abandon", "search">>

Available == 2 * Len(sent) - taken

\* What a parser makes of n positions read from position from, when it takes
\* a message of one of the kinds.  It looks at the first message only, and
\* not at its messageID.  A message cut off before its result code has ended
\* raises, is refused, or, cut right before the code, reads as code 0.
Parsed(from, n, kinds) ==
  LET first == sent[from \div 2 + 1] IN
  IF n = 0 \/ from % 2 = 1 THEN {"no_answer"}
  ELSE IF n = 1
    THEN {"raised", "no_answer"}
           \cup (IF first.kind \in kinds THEN {"success", first.code} ELSE {})
  ELSE IF first.kind \in kinds THEN {first.code} ELSE {"no_answer"}

ParsedBindResponse(from, n) == Parsed(from, n, {"bind"})
ParsedLDAPResult(from, n) == Parsed(from, n, {"bind", "final", "notice"})

Init ==
  /\ method \in Methods
  /\ pc = "connect"
  /\ step = 1
  /\ requests = <<>>
  /\ working = {}
  /\ sent = <<>>
  /\ link = "up"
  /\ taken = 0
  /\ start = 0
  /\ result = "none_yet"

-----------------------------------------------------------------------------
\* The client.

Return(r) ==
  /\ pc' = "returned"
  /\ result' = r
  /\ UNCHANGED <<step, start>>

NextRequest ==
  /\ pc' = "send"
  /\ step' = step + 1
  /\ UNCHANGED <<start, result>>

Connect ==
  /\ pc = "connect"
  /\ \/ pc' = "send" /\ UNCHANGED result
     \/ pc' = "returned" /\ result' = "raised"
  /\ UNCHANGED <<method, step, requests, serverVars, taken, start>>

\* sendall: to a connection the server has closed it may still succeed, or
\* raise, which no method catches.
Send ==
  /\ pc = "send"
  /\ \/ /\ requests' = Append(requests, step)
        /\ pc' = "recv"
        /\ UNCHANGED <<step, start, result>>
     \/ /\ link = "closed"
        /\ Return("raised")
        /\ UNCHANGED requests
  /\ UNCHANGED <<method, serverVars, taken>>

\* Each method with the n positions its recv returned; none when it timed out
\* or the connection was lost (broken) and none at the end of the stream.
Bind(n) ==
  /\ method = "bind"
  /\ \E o \in ParsedBindResponse(taken, n) : Return(o)

RawSend(n) ==
  /\ method = "raw_send"
  /\ \E o \in ParsedLDAPResult(taken, n) : Return(o)

SendMalformed(n) ==
  /\ method = "send_malformed"
  /\ Return(IF n = 0 THEN "disconnected" ELSE "bytes")

\* Mutant: without an answer to the bind the operation is sent all the same.
BindThenSendRegardless(n) ==
  /\ method = "bind_then_send"
  /\ IF step = 1
       THEN IF n = 0 THEN NextRequest
            ELSE \E o \in ParsedBindResponse(taken, n) :
                   IF o = "success" THEN NextRequest ELSE Return(o)
       ELSE \E o \in ParsedLDAPResult(taken, n) : Return(o)

BindThenSend(n) ==
  /\ method = "bind_then_send"
  /\ IF step = 1
       THEN \E o \in ParsedBindResponse(taken, n) :
              IF o = "success" THEN NextRequest ELSE Return(o)
       ELSE \E o \in ParsedLDAPResult(taken, n) : Return(o)

\* Mutant: the bytes of the bind response are kept with the rest.
BindThenSendRawKeeping(n, broken) ==
  /\ method = "bind_then_send_raw"
  /\ IF step = 1 /\ ~broken THEN NextRequest
     ELSE IF n > 0 THEN UNCHANGED <<pc, step, start, result>>
     ELSE Return("stream")

\* The bind response is read once and thrown away, whatever it says; then
\* everything is kept until the server closes or pauses.
BindThenSendRaw(n, broken) ==
  /\ method = "bind_then_send_raw"
  /\ IF step = 1
       THEN /\ start' = taken + n
            /\ IF broken
                 THEN pc' = "returned" /\ result' = "stream" /\ UNCHANGED step
                 ELSE pc' = "send" /\ step' = 2 /\ UNCHANGED result
       ELSE IF n > 0 THEN UNCHANGED <<pc, step, start, result>>
            ELSE Return("stream")

\* Mutant: the step after the last request is still one with a request.
AbandonOneMore(n) ==
  /\ method \in {"abandon_unknown", "abandon_in_progress"}
  /\ IF step = 1
       THEN \E o \in ParsedBindResponse(taken, n) :
              IF o = "success" THEN NextRequest
              ELSE Return(IF o = "raised" THEN o ELSE "BLOCKED")
     ELSE IF step <= Len(Script) THEN NextRequest
     ELSE Return(IF n = 0 THEN "FAIL" ELSE "PASS")

\* Mutant: a bind that got no answer does not block.
AbandonRegardless(n) ==
  /\ method \in {"abandon_unknown", "abandon_in_progress"}
  /\ IF step = 1
       THEN \E o \in ParsedBindResponse(taken, n) :
              IF o \in {"success", "no_answer"} THEN NextRequest
              ELSE Return(IF o = "raised" THEN o ELSE "BLOCKED")
     ELSE IF step < Len(Script) THEN NextRequest
     ELSE Return(IF n = 0 THEN "FAIL" ELSE "PASS")

\* abandon_unknown_message_id and abandon_in_progress.
Abandon(n) ==
  /\ method \in {"abandon_unknown", "abandon_in_progress"}
  /\ IF step = 1
       THEN \E o \in ParsedBindResponse(taken, n) :
              IF o = "success" THEN NextRequest
              ELSE Return(IF o = "raised" THEN o ELSE "BLOCKED")
     ELSE IF step < Len(Script) THEN NextRequest
     ELSE Return(IF n = 0 THEN "FAIL" ELSE "PASS")

Proceed(n, broken) ==
  /\ \/ Bind(n) \/ RawSend(n) \/ SendMalformed(n) \/ BindThenSend(n)
     \/ BindThenSendRaw(n, broken) \/ Abandon(n)
  /\ taken' = taken + n
  /\ UNCHANGED <<method, requests, serverVars>>

Receive ==
  /\ pc = "recv"
  /\ \E n \in 1..Available :
       /\ method \notin Fragmented => n % 2 = 0
       /\ Proceed(n, FALSE)

\* The timeout passes before anything arrives; what has been sent may be on
\* its way still.
TimeOut ==
  /\ pc = "recv"
  /\ link = "up" \/ Available > 0
  /\ Proceed(0, TRUE)

\* Mutant: the end of the stream is taken for one more empty piece of it.
EndOfStreamIgnored ==
  /\ pc = "recv" /\ link = "closed" /\ Available = 0
  /\ ~(method = "bind_then_send_raw" /\ step = 2)
  /\ \E broken \in BOOLEAN : Proceed(0, broken)

\* The server has closed: recv returns nothing, or raises after a reset.
EndOfStream ==
  /\ pc = "recv" /\ link = "closed" /\ Available = 0
  /\ \E broken \in BOOLEAN : Proceed(0, broken)

-----------------------------------------------------------------------------
\* The server under test.

\* It takes the next request.  It may give up an abandoned one, or not.  What
\* it cannot parse makes it close, or, wrongly, do nothing.
Accept ==
  /\ link = "up" /\ requests # <<>>
  /\ LET r == Head(requests) IN
       CASE Script[r] = "abandon" ->
              working' \in {working, working \ {r - 1}} /\ UNCHANGED link
         [] Script[r] = "garbage" ->
              link' \in {"up", "closed"} /\ UNCHANGED working
         [] Script[r] \in {"bind", "op", "search"} ->
              working' = working \cup {r} /\ UNCHANGED link
  /\ requests' = Tail(requests)
  /\ UNCHANGED <<method, pc, step, sent, taken, start, result>>

Emit(pdu) ==
  /\ link = "up"
  /\ sent' = Append(sent, pdu)
  /\ UNCHANGED <<method, pc, step, requests, taken, start, result>>

SendEntry ==
  /\ Len(sent) < MaxSent
  /\ \E r \in working :
       Script[r] = "search" /\ Emit([to |-> r, kind |-> "entry", code |-> "none"])
  /\ UNCHANGED <<working, link>>

Finish ==
  /\ \E r \in working, c \in {"success", "refused"} :
       /\ Emit([to |-> r, kind |-> IF Script[r] = "bind" THEN "bind" ELSE "final",
                code |-> c])
       /\ working' = working \ {r}
  /\ UNCHANGED link

\* Notice of Disconnection, an unsolicited response with messageID 0.
Notify ==
  /\ Notices /\ Len(sent) < MaxSent
  /\ Emit([to |-> 0, kind |-> "notice", code |-> "unavailable"])
  /\ link' = "closed"
  /\ UNCHANGED working

Close ==
  /\ link = "up" /\ pc # "connect"
  /\ link' = "closed"
  /\ UNCHANGED <<method, pc, step, requests, working, sent, taken, start, result>>

-----------------------------------------------------------------------------
ClientStep == Connect \/ Send \/ Receive \/ TimeOut \/ EndOfStream
ServerStep == Accept \/ SendEntry \/ Finish \/ Notify \/ Close
Next == ClientStep \/ ServerStep

\* The client goes on: a socket call returns, recv after its timeout at the
\* latest.  Nothing is assumed of the server.
Spec == Init /\ [][Next]_vars /\ WF_vars(ClientStep)

-----------------------------------------------------------------------------
\* Properties.

Codes == {"success", "refused", "unavailable"}
PDUs == [to : 0..4, kind : {"bind", "final", "entry", "notice"},
         code : Codes \cup {"none"}]
Results == Codes \cup {"none_yet", "raised", "no_answer", "disconnected",
                       "bytes", "stream", "PASS", "FAIL", "BLOCKED"}

TypeOK ==
  /\ method \in AllMethods
  /\ pc \in {"connect", "send", "recv", "returned"}
  /\ step \in 1..Len(Script)
  /\ requests \in Seq(1..Len(Script))
  /\ working \subseteq 1..Len(Script)
  /\ sent \in Seq(PDUs)
  /\ link \in {"up", "closed"}
  /\ taken \in 0..2 * Len(sent)
  /\ start \in 0..taken
  /\ result \in Results

Returned == pc = "returned"
Answer(r, c) == \E m \in Range(sent) : m.to = r /\ m.code = c

\* A success a method reports is the server's answer to the operation itself;
\* a refusal is that too, or the answer to the bind, and then the operation
\* was never sent.  (raw.py, bind, raw_send and bind_then_send)
ReportedCodeIsTheAnswer ==
  (Returned /\ result \in {"success", "refused"}) =>
    \/ Answer(Len(Script), result)
    \/ result = "refused" /\ step = 1 /\ Answer(1, "refused")

\* The PDUs of which bind_then_send_raw returns octets, of those before end.
Returns(end) == {sent[p \div 2 + 1] : p \in start..end - 1}

\* The PDUs whose octets _split_messages and _last_complete_message may take for
\* a message or a part of one.  From the head of a PDU they find the PDUs that
\* are there whole.  From inside a PDU they go on wherever an octet looks like
\* the tag of a SEQUENCE, and what they find then may be made of anything.
MayBeParsed == IF start % 2 = 0 THEN Returns(2 * (taken \div 2)) ELSE Returns(taken)

\* An abandon assertion passes on bytes that the server sent after it answered
\* the bind, never on a late answer to the bind: the server outlived the abandon
\* or was still answering when it came.  (That the follow-up search is answered
\* is more than the code makes sure of: a late answer to the abandoned search or
\* a notice passes too.)
PassIsNotTheBind ==
  (Returned /\ result = "PASS") => \E m \in Range(sent) : m.kind # "bind"

\* What is parsed of the bytes that bind_then_send_raw returns belongs to the
\* operation's answer or is a notice, however the bytes came and however many
\* reads they took: only a PDU that the read for the bind cut through may have
\* left its rest among them.
StreamIsTheAnswer ==
  (Returned /\ result = "stream") =>
    \A m \in MayBeParsed :
      m.to \in {0, 2} \/ (start % 2 = 1 /\ m = sent[start \div 2 + 1])

\* Every call returns, whatever the server does and leaves undone, once it
\* stops sending.
CallReturns == <>Returned

=============================================================================
