--------------------------- MODULE RawWireProofs ---------------------------
(***************************************************************************)
(* Theorems about RawWire: type correctness, and that what a call reports  *)
(* or keeps belongs to the request it was made for.  The first holds       *)
(* without restriction, the second when recv returns whole PDUs, the third *)
(* when the server sends no Notice of Disconnection.                       *)
(***************************************************************************)
EXTENDS RawWire, TLAPS

\* A bind comes first in a script or not at all, and a script has at most
\* four requests.
LEMMA ScriptShape ==
  ASSUME method \in AllMethods
  PROVE  /\ Len(Script) \in 1..4
         /\ method \in {"bind", "raw_send", "send_malformed"} => Len(Script) = 1
         /\ method \in {"bind_then_send", "bind_then_send_raw"} => Len(Script) = 2
         /\ method \in {"abandon_unknown", "abandon_in_progress"} => Len(Script) \in 3..4
         /\ \A r \in 1..Len(Script) : Script[r] = "bind" => r = 1
         /\ Script[1] \notin {"search", "abandon"}
         /\ \A r \in 1..Len(Script) :
              Script[r] \in {"bind", "op", "search", "abandon", "garbage"}
<1>1. CASE method \in {"bind", "raw_send", "send_malformed"}
  BY <1>1 DEF Script
<1>2. CASE method \in {"bind_then_send", "bind_then_send_raw"}
  BY <1>2 DEF Script
<1>3. CASE method = "abandon_unknown"
  BY <1>3 DEF Script
<1>4. CASE method = "abandon_in_progress"
  BY <1>4 DEF Script
<1> QED
  BY <1>1, <1>2, <1>3, <1>4 DEF AllMethods

LEMMA AppendElements ==
  ASSUME NEW S, NEW s \in Seq(S), NEW e \in S
  PROVE  /\ Append(s, e) \in Seq(S)
         /\ Len(Append(s, e)) = Len(s) + 1 /\ Len(s) \in Nat
         /\ \A i \in 1..Len(s) : Append(s, e)[i] = s[i]
         /\ Append(s, e)[Len(s) + 1] = e
         /\ \A i \in 1..(Len(s) + 1) : i \in 1..Len(s) \/ i = Len(s) + 1
OBVIOUS

LEMMA TailElements ==
  ASSUME NEW S, NEW s \in Seq(S), s # <<>>
  PROVE  /\ Tail(s) \in Seq(S) /\ Head(s) = s[1] /\ Head(s) \in S
         /\ 1 \in 1..Len(s) /\ Len(Tail(s)) = Len(s) - 1 /\ Len(s) \in Nat
         /\ \A i \in 1..Len(Tail(s)) : i + 1 \in 1..Len(s) /\ Tail(s)[i] = s[i + 1]
OBVIOUS

-----------------------------------------------------------------------------
\* Type correctness.  A parser hands out a PDU's code field as a result, so
\* the invariant has to know which kinds of PDU carry which codes.

Sensible(m) ==
  \/ m.kind = "notice" /\ m.to = 0 /\ m.code = "unavailable"
  \/ m.kind = "entry" /\ m.to # 0 /\ m.code = "none"
  \/ m.kind \in {"bind", "final"} /\ m.to # 0 /\ m.code \in {"success", "refused"}

Typed ==
  /\ TypeOK
  /\ \A k \in 1..Len(sent) : Sensible(sent[k])
  /\ pc # "returned" => result = "none_yet"

\* The first PDU that n positions read now begin with.
First == sent[taken \div 2 + 1]

LEMMA FirstIsSent ==
  ASSUME Typed, NEW n \in 1..Available
  PROVE  /\ taken \div 2 + 1 \in 1..Len(sent) /\ First \in PDUs /\ Sensible(First)
         /\ taken + n \in 0..2 * Len(sent) /\ n \in Nat /\ taken \in Nat
<1>1. taken \in Nat /\ Len(sent) \in Nat /\ n \in Nat
      /\ n >= 1 /\ n <= 2 * Len(sent) - taken
  BY DEF Typed, TypeOK, Available
<1>2. taken \div 2 + 1 \in 1..Len(sent)
  BY <1>1
<1> QED
  BY <1>1, <1>2 DEF Typed, TypeOK, First

\* What a parser may make of a read.
LEMMA ParsedRange ==
  ASSUME Typed, NEW n \in 0..Available, NEW kinds \in SUBSET {"bind", "final", "notice"}
  PROVE  Parsed(taken, n, kinds) \subseteq Codes \cup {"raised", "no_answer"}
<1>1. CASE n = 0
  BY <1>1 DEF Parsed
<1>2. CASE n # 0
  <2>1. n \in 1..Available
    BY <1>2 DEF Typed, TypeOK, Available
  <2>2. First.kind \in kinds => First.code \in Codes
    BY <2>1, FirstIsSent DEF Sensible, Codes
  <2> QED
    BY <1>2, <2>2 DEF Parsed, First, Codes
<1> QED
  BY <1>1, <1>2

\* What one recv does, whatever the method.
LEMMA ProceedEffect ==
  ASSUME Typed, pc = "recv", NEW n \in 0..Available, NEW broken \in BOOLEAN,
         Proceed(n, broken)
  PROVE  /\ UNCHANGED <<method, requests, working, sent, link>>
         /\ taken' = taken + n
         /\ start' \in {start, taken'}
         /\ \/ pc' = "returned" /\ step' = step /\ result' \in Results \ {"none_yet"}
            \/ pc' = "send" /\ step' = step + 1 /\ step < Len(Script) /\ result' = result
            \/ UNCHANGED <<pc, step, result>>
<1> DEFINE Moves ==
      \/ pc' = "returned" /\ step' = step /\ result' \in Results \ {"none_yet"}
      \/ pc' = "send" /\ step' = step + 1 /\ step < Len(Script) /\ result' = result
      \/ UNCHANGED <<pc, step, result>>
<1>0. /\ UNCHANGED <<method, requests, working, sent, link>> /\ taken' = taken + n
      /\ method \in AllMethods /\ step \in 1..Len(Script)
  BY DEF Proceed, Typed, TypeOK, serverVars
<1>1. /\ ParsedBindResponse(taken, n) \subseteq Results \ {"none_yet"}
      /\ ParsedLDAPResult(taken, n) \subseteq Results \ {"none_yet"}
  BY ParsedRange DEF ParsedBindResponse, ParsedLDAPResult, Codes, Results
<1> SUFFICES start' \in {start, taken'} /\ Moves
  BY <1>0
<1>2. CASE Bind(n)
  BY <1>1, <1>2 DEF Bind, Return
<1>3. CASE RawSend(n)
  BY <1>1, <1>3 DEF RawSend, Return
<1>4. CASE SendMalformed(n)
  BY <1>4 DEF SendMalformed, Return, Results
<1>5. CASE BindThenSend(n)
  <2>1. Len(Script) = 2
    BY <1>0, <1>5, ScriptShape DEF BindThenSend
  <2> QED
    BY <1>1, <1>5, <2>1 DEF BindThenSend, Return, NextRequest
<1>6. CASE BindThenSendRaw(n, broken)
  <2>1. Len(Script) = 2
    BY <1>0, <1>6, ScriptShape DEF BindThenSendRaw
  <2> QED
    BY <1>0, <1>6, <2>1 DEF BindThenSendRaw, Return, Results
<1>7. CASE Abandon(n)
  <2>1. Len(Script) \in 3..4
    BY <1>0, <1>7, ScriptShape DEF Abandon
  <2>2. CASE step = 1
    BY <1>1, <1>7, <2>1, <2>2 DEF Abandon, Return, NextRequest, Results
  <2>3. CASE step # 1
    BY <1>7, <2>3 DEF Abandon, Return, NextRequest, Results
  <2> QED
    BY <2>2, <2>3
<1> QED
  BY <1>2, <1>3, <1>4, <1>5, <1>6, <1>7 DEF Proceed

\* A read: what one recv returned, and what is known when it returned nothing.
Reads(n, broken) ==
  /\ pc = "recv" /\ Proceed(n, broken)
  /\ method \notin Fragmented => n % 2 = 0
  /\ broken => n = 0
  /\ n = 0 /\ ~broken => link = "closed" /\ Available = 0

LEMMA OneRead ==
  ASSUME Typed, Receive \/ TimeOut \/ EndOfStream
  PROVE  \E n \in 0..Available, broken \in BOOLEAN : Reads(n, broken)
<1>1. Available \in Nat
  BY DEF Available, Typed, TypeOK
<1>2. CASE Receive
  <2>1. PICK n \in 1..Available : Proceed(n, FALSE) /\ (method \notin Fragmented => n % 2 = 0)
    BY <1>2 DEF Receive
  <2>2. n \in 0..Available /\ n # 0
    BY <1>1, <2>1
  <2>3. Reads(n, FALSE) /\ FALSE \in BOOLEAN
    BY <1>2, <2>1, <2>2 DEF Receive, Reads
  <2> QED
    BY ZenonT(30), <2>2, <2>3
<1>3. CASE TimeOut
  <2>1. pc = "recv" /\ Proceed(0, TRUE)
    BY <1>3 DEF TimeOut
  <2>2. 0 % 2 = 0 /\ 0 \in 0..Available
    BY <1>1
  <2>3. Reads(0, TRUE) /\ TRUE \in BOOLEAN
    BY ZenonT(30), <2>1, <2>2 DEF Reads
  <2> QED
    BY ZenonT(30), <2>2, <2>3
<1>4. CASE EndOfStream
  <2>1. pc = "recv" /\ link = "closed" /\ Available = 0 /\ 0 \in 0..Available
    BY <1>1, <1>4 DEF EndOfStream
  <2>2. PICK broken \in BOOLEAN : Proceed(0, broken)
    BY <1>4 DEF EndOfStream
  <2>3. Reads(0, broken)
    BY <2>1, <2>2 DEF Reads
  <2> QED
    BY ZenonT(30), <2>1, <2>3
<1> QED
  BY <1>2, <1>3, <1>4

LEMMA EmitEffect ==
  ASSUME Typed, NEW m \in PDUs, Sensible(m), Emit(m)
  PROVE  /\ sent' \in Seq(PDUs) /\ Len(sent') = Len(sent) + 1 /\ Len(sent) \in Nat
         /\ \A k \in 1..Len(sent') : Sensible(sent'[k])
         /\ taken \in 0..2 * Len(sent')
<1>1. sent' = Append(sent, m) /\ sent \in Seq(PDUs) /\ taken \in 0..2 * Len(sent)
  BY DEF Emit, Typed, TypeOK
<1>2. \A k \in 1..Len(sent) : Sensible(sent[k])
  BY DEF Typed
<1> QED
  BY <1>1, <1>2, AppendElements DEF Sensible

\* What the server may emit.
LEMMA PDUShape ==
  ASSUME method \in AllMethods
  PROVE  /\ \A r \in 1..Len(Script) :
              LET m == [to |-> r, kind |-> "entry", code |-> "none"]
              IN  m \in PDUs /\ Sensible(m)
         /\ \A r \in 1..Len(Script), c \in {"success", "refused"} :
              LET m == [to |-> r, kind |-> IF Script[r] = "bind" THEN "bind" ELSE "final",
                        code |-> c]
              IN  m \in PDUs /\ Sensible(m)
         /\ LET m == [to |-> 0, kind |-> "notice", code |-> "unavailable"]
            IN  m \in PDUs /\ Sensible(m)
<1>1. Len(Script) \in 1..4
  BY ScriptShape
<1>2. 1..Len(Script) \subseteq 1..4 /\ 1..4 \subseteq 0..4 /\ 0 \in 0..4 /\ 0 \notin 1..4
  <2>1. \A n \in 1..4 : 1..n \subseteq 1..4
    OBVIOUS
  <2>2. 1..4 \subseteq 0..4 /\ 0 \in 0..4 /\ 0 \notin 1..4
    OBVIOUS
  <2> QED
    BY ZenonT(30), <1>1, <2>1, <2>2
<1>3. \A r \in 1..4 : /\ [to |-> r, kind |-> "entry", code |-> "none"] \in PDUs
                      /\ Sensible([to |-> r, kind |-> "entry", code |-> "none"])
  BY <1>2 DEF PDUs, Codes, Sensible
<1>4. \A r \in 1..4, k \in {"bind", "final"}, c \in {"success", "refused"} :
         /\ [to |-> r, kind |-> k, code |-> c] \in PDUs
         /\ Sensible([to |-> r, kind |-> k, code |-> c])
  BY <1>2 DEF PDUs, Codes, Sensible
<1>5. /\ [to |-> 0, kind |-> "notice", code |-> "unavailable"] \in PDUs
      /\ Sensible([to |-> 0, kind |-> "notice", code |-> "unavailable"])
  BY <1>2 DEF PDUs, Codes, Sensible
<1> QED
  BY <1>2, <1>3, <1>4, <1>5

\* The invariant behind type correctness, and that every step keeps it.
LEMMA TypedStep ==
  ASSUME Typed, [Next]_vars
  PROVE  Typed'
<1>0. /\ method' = method /\ Script' = Script
      /\ method \in AllMethods /\ Len(Script) \in 1..4
  <2>1. method' = method
    BY ProceedEffect
       DEF Next, ClientStep, ServerStep, Connect, Send, Receive, TimeOut, EndOfStream,
           Accept, SendEntry, Finish, Notify, Close, Emit, vars, Proceed
  <2>2. Script' = Script
    BY <2>1 DEF Script
  <2> QED
    BY <2>1, <2>2, ScriptShape DEF Typed, TypeOK
<1>1. CASE Connect
  BY <1>0, <1>1 DEF Connect, Typed, TypeOK, serverVars, Results
<1>2. CASE Send
  <2>1. requests' \in Seq(1..Len(Script))
    <3>1. requests' = requests \/ requests' = Append(requests, step)
      BY <1>2 DEF Send
    <3>2. requests \in Seq(1..Len(Script)) /\ step \in 1..Len(Script)
      BY DEF Typed, TypeOK
    <3> QED
      BY <3>1, <3>2, AppendElements
  <2> QED
    BY <1>0, <1>2, <2>1 DEF Send, Return, Typed, TypeOK, serverVars, Results
<1>3. CASE Receive \/ TimeOut \/ EndOfStream
  <2>1. PICK n \in 0..Available, broken \in BOOLEAN : Reads(n, broken)
    BY <1>3, OneRead
  <2>read. pc = "recv" /\ Proceed(n, broken)
    BY <2>1 DEF Reads
  <2>2. taken' \in 0..2 * Len(sent') /\ taken' >= taken /\ taken \in Nat
    BY <2>read, ProceedEffect DEF Typed, TypeOK, Available
  <2>3. start' \in 0..taken'
    <3>1. start' \in {start, taken'}
      BY <2>read, ProceedEffect
    <3>2. start \in 0..taken /\ taken' \in Nat
      BY <2>2 DEF Typed, TypeOK
    <3> QED
      BY <2>2, <3>1, <3>2
  <2>4. step' \in 1..Len(Script)
    BY <1>0, <2>read, ProceedEffect DEF Typed, TypeOK
  <2> QED
    BY <1>0, <2>read, <2>2, <2>3, <2>4, ProceedEffect DEF Typed, TypeOK, Results
<1>4. CASE Accept
  <2>1. /\ requests' \in Seq(1..Len(Script)) /\ Head(requests) \in 1..Len(Script)
    BY <1>4, TailElements DEF Accept, Typed, TypeOK
  <2>2. working' \subseteq 1..Len(Script) /\ link' \in {"up", "closed"}
    BY <1>0, <1>4, <2>1, ScriptShape DEF Accept, Typed, TypeOK
  <2> QED
    BY <1>0, <1>4, <2>1, <2>2 DEF Accept, Typed, TypeOK
<1>5. CASE SendEntry \/ Finish \/ Notify
  <2>1. PICK m \in PDUs : Sensible(m) /\ Emit(m)
    BY <1>0, <1>5, PDUShape DEF SendEntry, Finish, Notify, Typed, TypeOK
  <2>2. working' \subseteq 1..Len(Script) /\ link' \in {"up", "closed"}
    BY <1>5 DEF SendEntry, Finish, Notify, Typed, TypeOK
  <2> QED
    BY <1>0, <2>1, <2>2, EmitEffect DEF Emit, Typed, TypeOK
<1>6. CASE Close
  BY <1>0, <1>6 DEF Close, Typed, TypeOK
<1>7. CASE UNCHANGED vars
  BY <1>0, <1>7 DEF vars, Typed, TypeOK
<1> QED
  BY <1>1, <1>2, <1>3, <1>4, <1>5, <1>6, <1>7 DEF Next, ClientStep, ServerStep

LEMMA TypedHolds == Spec => []Typed
<1>1. Init => Typed
  <2> SUFFICES ASSUME Init PROVE Typed
    OBVIOUS
  <2>1. method \in AllMethods /\ Len(Script) \in 1..4
    BY WireAssumption, ScriptShape DEF Init
  <2> QED
    BY <2>1 DEF Init, Typed, TypeOK, Results
<1>2. Typed /\ [Next]_vars => Typed'
  BY TypedStep
<1> QED
  BY <1>1, <1>2, PTL DEF Spec

\* Every reachable state has its type, for every set of methods and every
\* bound.
THEOREM TypeCorrect == Spec => []TypeOK
<1>1. Typed => TypeOK
  BY DEF Typed
<1> QED
  BY <1>1, TypedHolds, PTL

-----------------------------------------------------------------------------
\* The flow of requests: the server works on, and answers, only what has been
\* sent, and the first request of a script is answered once.

Past(r) == r < step \/ (r = step /\ pc \in {"recv", "returned"})

Flow ==
  /\ \A i \in 1..Len(requests) : Past(requests[i])
  /\ \A r \in working : Past(r)
  /\ \A k \in 1..Len(sent) :
       /\ sent[k].to # 0 => Past(sent[k].to)
       /\ sent[k].kind = "bind" => sent[k].to = 1

Once ==
  /\ \A i, j \in 1..Len(requests) : requests[i] = 1 /\ requests[j] = 1 => i = j
  /\ 1 \in working => \A i \in 1..Len(requests) : requests[i] # 1
  /\ \A k \in 1..Len(sent) : sent[k].to = 1 =>
       /\ 1 \notin working
       /\ \A i \in 1..Len(requests) : requests[i] # 1
       /\ \A l \in 1..Len(sent) : sent[l].to = 1 => l = k

\* The PDU m, addressed to request r, is sent.
LEMMA EmitFlow ==
  ASSUME Typed, Flow, Once, NEW m \in PDUs, Emit(m),
         m.to = 0 \/ m.to \in working,
         m.kind = "bind" => m.to = 1,
         working' \subseteq working, m.to = 1 => 1 \notin working'
  PROVE  Flow' /\ Once'
<1>1. /\ sent' = Append(sent, m) /\ sent \in Seq(PDUs)
      /\ UNCHANGED <<pc, step, requests>>
  BY DEF Emit, Typed, TypeOK
<1>2. /\ Len(sent') = Len(sent) + 1 /\ sent'[Len(sent) + 1] = m
      /\ \A k \in 1..Len(sent) : sent'[k] = sent[k]
      /\ \A k \in 1..Len(sent') : k \in 1..Len(sent) \/ k = Len(sent) + 1
  BY <1>1, AppendElements
<1>3. \A r : Past(r)' <=> Past(r)
  BY <1>1 DEF Past
<1>4. Flow'
  BY <1>1, <1>2, <1>3 DEF Flow
<1>5. m.to = 1 => \A k \in 1..Len(sent) : sent[k].to # 1
  BY DEF Once
<1>6. Once'
  BY <1>1, <1>2, <1>5 DEF Once
<1> QED
  BY <1>4, <1>6

LEMMA FlowHolds == Spec => [](Flow /\ Once)
<1>1. Init => Flow /\ Once
  BY DEF Init, Flow, Once
<1>2. Typed /\ Flow /\ Once /\ [Next]_vars => Flow' /\ Once'
  <2> SUFFICES ASSUME Typed, Flow, Once, [Next]_vars PROVE Flow' /\ Once'
    OBVIOUS
  <2>0. /\ requests \in Seq(1..Len(Script)) /\ working \subseteq 1..Len(Script)
        /\ sent \in Seq(PDUs) /\ step \in Nat /\ Len(Script) \in 1..4
        /\ method \in AllMethods
    BY ScriptShape DEF Typed, TypeOK
  <2>1. CASE Connect
    <3>1. \A r : Past(r) => Past(r)'
      BY <2>1 DEF Connect, Past
    <3> QED
      BY <2>1, <3>1 DEF Connect, Flow, Once, serverVars
  <2>2. CASE Send
    <3>1. /\ \A r : Past(r) => Past(r)'
          /\ working' = working /\ sent' = sent /\ step' = step
      BY <2>2 DEF Send, Return, Past, serverVars
    <3>2. CASE requests' = requests
      BY <3>1, <3>2 DEF Flow, Once
    <3>3. CASE requests' = Append(requests, step) /\ pc = "send" /\ pc' = "recv"
      <4>1. /\ Len(requests') = Len(requests) + 1 /\ requests'[Len(requests) + 1] = step
            /\ \A i \in 1..Len(requests) : requests'[i] = requests[i]
            /\ \A i \in 1..Len(requests') : i \in 1..Len(requests) \/ i = Len(requests) + 1
        <5>1. step \in 1..Len(Script)
          BY DEF Typed, TypeOK
        <5> QED
          BY <2>0, <3>3, <5>1, AppendElements
      <4>2. Past(step)'
        BY <3>1, <3>3 DEF Past
      <4>3. step = 1 => /\ 1 \notin working
                        /\ \A i \in 1..Len(requests) : requests[i] # 1
                        /\ \A k \in 1..Len(sent) : sent[k].to # 1
        BY <3>3 DEF Flow, Past
      <4>4. Flow'
        BY <3>1, <4>1, <4>2 DEF Flow
      <4>5. Once'
        BY <3>1, <4>1, <4>3 DEF Once
      <4> QED
        BY <4>4, <4>5
    <3> QED
      BY <2>2, <3>2, <3>3 DEF Send
  <2>3. CASE Receive \/ TimeOut \/ EndOfStream
    <3>1. PICK n \in 0..Available, broken \in BOOLEAN : Reads(n, broken)
      BY <2>3, OneRead
    <3>2. pc = "recv" /\ Proceed(n, broken)
      BY <3>1 DEF Reads
    <3>3. \A r \in Nat : Past(r) => Past(r)'
      BY <2>0, <3>2, ProceedEffect DEF Past
    <3>4. UNCHANGED <<requests, working, sent>>
      BY <3>2, ProceedEffect
    <3>5. /\ \A i \in 1..Len(requests) : requests[i] \in Nat
          /\ \A r \in working : r \in Nat
          /\ \A k \in 1..Len(sent) : sent[k].to \in Nat
      <4>1. \A k \in 1..Len(sent) : sent[k] \in PDUs
        BY <2>0
      <4>2. \A i \in 1..Len(requests) : requests[i] \in 1..Len(Script)
        BY <2>0
      <4>3. 1..Len(Script) \subseteq Nat
        BY <2>0
      <4> QED
        BY SMTT(30), <2>0, <4>1, <4>2, <4>3 DEF PDUs
    <3> QED
      BY <3>3, <3>4, <3>5 DEF Flow, Once
  <2>4. CASE Accept
    <3>1. /\ requests # <<>> /\ requests' = Tail(requests)
          /\ UNCHANGED <<pc, step, sent>>
      BY <2>4 DEF Accept
    <3>2. /\ Head(requests) = requests[1] /\ 1 \in 1..Len(requests)
          /\ \A i \in 1..Len(requests') : i + 1 \in 1..Len(requests)
                                         /\ requests'[i] = requests[i + 1] /\ i + 1 # 1
      BY <2>0, <3>1, TailElements
    <3>3. working' \subseteq working \cup {requests[1]}
      <4>1. requests[1] \in 1..Len(Script)
        BY <2>0, <3>2
      <4>2. Script[requests[1]] \in {"bind", "op", "search", "abandon", "garbage"}
        BY <2>0, <4>1, ScriptShape
      <4> QED
        BY <2>4, <3>2, <4>2 DEF Accept
    <3>4. \A r : Past(r)' <=> Past(r)
      BY <3>1 DEF Past
    <3>5. Flow'
      BY <3>1, <3>2, <3>3, <3>4 DEF Flow
    <3>6. \A i, j \in 1..Len(requests') : requests'[i] = 1 /\ requests'[j] = 1 => i = j
      BY SMTT(30), <3>2 DEF Once
    <3>7. 1 \in working' => \A i \in 1..Len(requests') : requests'[i] # 1
      BY <3>2, <3>3 DEF Once
    <3>8. \A k \in 1..Len(sent) : sent[k].to = 1 =>
            1 \notin working' /\ \A i \in 1..Len(requests') : requests'[i] # 1
      BY <3>2, <3>3 DEF Once
    <3> QED
      BY <3>1, <3>5, <3>6, <3>7, <3>8 DEF Once
  <2>5. CASE SendEntry
    <3>1. PICK r \in working : /\ Script[r] = "search"
                               /\ Emit([to |-> r, kind |-> "entry", code |-> "none"])
      BY <2>5 DEF SendEntry
    <3>2. r # 1 /\ working' = working
          /\ [to |-> r, kind |-> "entry", code |-> "none"] \in PDUs
      BY <2>0, <2>5, <3>1, ScriptShape, PDUShape DEF SendEntry
    <3> QED
      BY <3>1, <3>2, EmitFlow
  <2>6. CASE Finish
    <3>1. PICK r \in working, c \in {"success", "refused"} :
            /\ Emit([to |-> r, code |-> c,
                     kind |-> IF Script[r] = "bind" THEN "bind" ELSE "final"])
            /\ working' = working \ {r}
      BY <2>6 DEF Finish
    <3> DEFINE m == [to |-> r, code |-> c,
                     kind |-> IF Script[r] = "bind" THEN "bind" ELSE "final"]
    <3>2. m \in PDUs /\ (m.kind = "bind" => m.to = 1)
      BY <2>0, <3>1, ScriptShape, PDUShape
    <3> QED
      BY <3>1, <3>2, EmitFlow
  <2>7. CASE Notify
    <3>1. /\ Emit([to |-> 0, kind |-> "notice", code |-> "unavailable"])
          /\ working' = working
      BY <2>7 DEF Notify
    <3> QED
      BY <2>0, <3>1, PDUShape, EmitFlow
  <2>8. CASE Close \/ UNCHANGED vars
    <3>1. UNCHANGED <<pc, step, requests, working, sent>>
      BY <2>8 DEF Close, vars
    <3> QED
      BY <3>1 DEF Flow, Once, Past
  <2> QED
    BY <2>1, <2>2, <2>3, <2>4, <2>5, <2>6, <2>7, <2>8 DEF Next, ClientStep, ServerStep
<1> QED
  BY <1>1, <1>2, TypedHolds, PTL DEF Spec

-----------------------------------------------------------------------------
\* What a step leaves alone: the call, the PDUs already sent, and, unless it
\* is a step of the client, everything the client has.

LEMMA Frame ==
  ASSUME Typed, [Next]_vars
  PROVE  /\ method' = method /\ Script' = Script
         /\ \A k \in 1..Len(sent) : k \in 1..Len(sent') /\ sent'[k] = sent[k]
         /\ ~ClientStep => UNCHANGED <<pc, step, taken, start, result>>
         /\ ClientStep => UNCHANGED <<sent, link, working>>
<1>1. CASE ClientStep
  <2>1. UNCHANGED <<method, sent, link, working>>
    <3>1. CASE Connect \/ Send
      BY <3>1 DEF Connect, Send, serverVars
    <3>2. CASE Receive \/ TimeOut \/ EndOfStream
      BY <3>2 DEF Receive, TimeOut, EndOfStream, Proceed, serverVars
    <3> QED
      BY <1>1, <3>1, <3>2 DEF ClientStep
  <2> QED
    BY <1>1, <2>1 DEF Script
<1>2. CASE ~ClientStep
  <2>1. UNCHANGED <<method, pc, step, taken, start, result>>
    BY <1>2 DEF Next, ServerStep, Accept, SendEntry, Finish, Notify, Close, Emit, vars
  <2>2. sent' = sent \/ \E m \in PDUs : sent' = Append(sent, m)
    <3>1. CASE SendEntry \/ Finish \/ Notify
      <4>1. working \subseteq 1..Len(Script) /\ method \in AllMethods
        BY DEF Typed, TypeOK
      <4>2. PICK m \in PDUs : Emit(m)
        BY <3>1, <4>1, PDUShape DEF SendEntry, Finish, Notify
      <4> QED
        BY <4>2 DEF Emit
    <3>2. CASE Accept \/ Close \/ UNCHANGED vars
      BY <3>2 DEF Accept, Close, vars
    <3> QED
      BY <1>2, <3>1, <3>2 DEF Next, ServerStep
  <2>3. \A k \in 1..Len(sent) : k \in 1..Len(sent') /\ sent'[k] = sent[k]
    <3>1. sent \in Seq(PDUs)
      BY DEF Typed, TypeOK
    <3> QED
      BY <2>2, <3>1, AppendElements
  <2> QED
    BY <1>2, <2>1, <2>3 DEF Script
<1> QED
  BY <1>1, <1>2

\* A code that a whole PDU was read for is that PDU's, and the PDU is the
\* answer to one of the requests sent so far.
LEMMA CodeOfFirst ==
  ASSUME Typed, Flow, NEW n \in 0..Available, n % 2 = 0, taken % 2 = 0,
         NEW kinds \in SUBSET {"bind", "final", "notice"},
         NEW o \in Parsed(taken, n, kinds), o \in {"success", "refused"}
  PROVE  /\ n \in 1..Available
         /\ First.kind \in kinds /\ First.code = o
         /\ First.to \in 1..step
<1>1. n # 0
  BY DEF Parsed
<1>2. n \in 1..Available /\ n # 1
  BY <1>1 DEF Typed, TypeOK, Available
<1>3. First.kind \in kinds /\ First.code = o
  BY <1>1, <1>2 DEF Parsed, First
<1>4. First \in PDUs /\ Sensible(First) /\ taken \div 2 + 1 \in 1..Len(sent)
  BY <1>2, FirstIsSent
<1>5. First.to # 0
  BY <1>3, <1>4 DEF Sensible
<1>6. Past(First.to)
  BY <1>4, <1>5 DEF Flow, First
<1>7. First.to \in 1..step
  BY <1>4, <1>5, <1>6 DEF Past, PDUs, Typed, TypeOK
<1> QED
  BY <1>2, <1>3, <1>7

\* Reads stop between PDUs, and bind_then_send sends its operation only when
\* the answer to the bind lies behind it.
Aligned ==
  /\ method # "bind_then_send_raw" => taken % 2 = 0
  /\ method = "bind_then_send" =>
       /\ step = 1 /\ pc # "returned" => taken = 0
       /\ step = 2 => \E k \in 1..Len(sent) : sent[k].to = 1 /\ 2 * k <= taken

LEMMA AlignedStep ==
  ASSUME Typed, Flow, Once, Aligned, NEW n \in 0..Available, NEW broken \in BOOLEAN,
         Reads(n, broken), method # "bind_then_send_raw" => n % 2 = 0
  PROVE  Aligned' /\ ReportedCodeIsTheAnswer'
<1>0. /\ pc = "recv" /\ Proceed(n, broken) /\ taken' = taken + n
      /\ UNCHANGED <<method, sent>> /\ Script' = Script
      /\ taken \in Nat /\ n \in Nat /\ step \in 1..Len(Script) /\ method \in AllMethods
  <2>1. pc = "recv" /\ Proceed(n, broken)
    BY DEF Reads
  <2>2. taken' = taken + n /\ UNCHANGED <<method, sent>>
    BY <2>1 DEF Proceed, serverVars
  <2>3. Script' = Script
    BY <2>2 DEF Script
  <2>4. taken \in Nat /\ step \in 1..Len(Script) /\ method \in AllMethods /\ Available \in Int
    BY DEF Typed, TypeOK, Available
  <2> QED
    BY <2>1, <2>2, <2>3, <2>4
<1>1. method # "bind_then_send_raw" => taken' % 2 = 0
  BY <1>0 DEF Aligned
<1>2. \A r, c : Answer(r, c)' <=> Answer(r, c)
  BY <1>0 DEF Answer
<1>3. ASSUME NEW k \in 1..Len(sent) PROVE Answer(sent[k].to, sent[k].code)
  <2>1. sent[k] \in Range(sent)
    BY DEF Typed, TypeOK, Range
  <2> QED
    BY <2>1 DEF Answer
<1>4. n \in 1..Available => taken \div 2 + 1 \in 1..Len(sent)
  BY FirstIsSent
<1>5. CASE Bind(n)
  <2>1. PICK o \in ParsedBindResponse(taken, n) : Return(o)
    BY <1>5 DEF Bind
  <2>2. Len(Script) = 1 /\ method = "bind"
    BY <1>0, <1>5, ScriptShape DEF Bind
  <2>3. o \in {"success", "refused"} => Answer(1, o)
    <3>1. o \in {"success", "refused"} =>
            n \in 1..Available /\ First.to = 1 /\ First.code = o
      BY <1>0, <2>2, CodeOfFirst DEF ParsedBindResponse, Aligned
    <3> QED
      BY <1>3, <1>4, <3>1 DEF First
  <2> QED
    BY <1>0, <1>1, <1>2, <2>1, <2>2, <2>3
       DEF Aligned, ReportedCodeIsTheAnswer, Return
<1>6. CASE RawSend(n)
  <2>1. PICK o \in ParsedLDAPResult(taken, n) : Return(o)
    BY <1>6 DEF RawSend
  <2>2. Len(Script) = 1 /\ method = "raw_send"
    BY <1>0, <1>6, ScriptShape DEF RawSend
  <2>3. o \in {"success", "refused"} => Answer(1, o)
    <3>1. o \in {"success", "refused"} =>
            n \in 1..Available /\ First.to = 1 /\ First.code = o
      BY <1>0, <2>2, CodeOfFirst DEF ParsedLDAPResult, Aligned
    <3> QED
      BY <1>3, <1>4, <3>1 DEF First
  <2> QED
    BY <1>0, <1>1, <1>2, <2>1, <2>2, <2>3
       DEF Aligned, ReportedCodeIsTheAnswer, Return
<1>7. CASE BindThenSend(n) /\ step = 1
  <2>1. PICK o \in ParsedBindResponse(taken, n) :
          IF o = "success" THEN NextRequest ELSE Return(o)
    BY <1>7 DEF BindThenSend
  <2>2. taken = 0 /\ Len(Script) = 2 /\ method = "bind_then_send"
    BY <1>0, <1>7, ScriptShape DEF BindThenSend, Aligned
  <2>3. o \in {"success", "refused"} =>
          n \in 1..Available /\ First.to = 1 /\ First.code = o /\ n >= 2
    <3>1. o \in {"success", "refused"} =>
            n \in 1..Available /\ First.to \in 1..step /\ First.code = o
      BY <2>2, CodeOfFirst DEF ParsedBindResponse, Aligned
    <3>2. n \in 1..Available => n >= 2
      BY <1>0, <2>2
    <3> QED
      BY <1>0, <1>7, <3>1, <3>2
  <2>4. CASE o = "success"
    <3>1. 1 \in 1..Len(sent) /\ sent[1].to = 1 /\ 2 * 1 <= taken'
      BY <1>0, <1>4, <2>2, <2>3, <2>4 DEF First
    <3>2. pc' = "send" /\ step' = 2
      BY <1>7, <2>1, <2>4 DEF NextRequest
    <3> QED
      BY <1>0, <1>1, <3>1, <3>2 DEF Aligned, ReportedCodeIsTheAnswer, Returned
  <2>5. CASE o # "success"
    <3>1. pc' = "returned" /\ result' = o /\ step' = 1
      BY <1>7, <2>1, <2>5 DEF Return
    <3>2. o = "refused" => Answer(1, o)
      BY <1>3, <1>4, <2>3 DEF First
    <3> QED
      BY <1>0, <1>1, <1>2, <2>5, <3>1, <3>2 DEF Aligned, ReportedCodeIsTheAnswer, Returned
  <2> QED
    BY <2>4, <2>5
<1>8. CASE BindThenSend(n) /\ step # 1
  <2>1. PICK o \in ParsedLDAPResult(taken, n) : Return(o)
    BY <1>8 DEF BindThenSend
  <2>2. step = 2 /\ Len(Script) = 2 /\ method = "bind_then_send"
    <3>1. method = "bind_then_send"
      BY <1>8 DEF BindThenSend
    <3>2. Len(Script) = 2
      BY <1>0, <3>1, ScriptShape
    <3> QED
      BY <1>0, <1>8, <3>1, <3>2
  <2>3. PICK k \in 1..Len(sent) : sent[k].to = 1 /\ 2 * k <= taken
    BY <2>2 DEF Aligned
  <2>4. o \in {"success", "refused"} => Answer(2, o)
    <3>1. SUFFICES ASSUME o \in {"success", "refused"} PROVE Answer(2, o)
      OBVIOUS
    <3>2. n \in 1..Available /\ First.to \in 1..2 /\ First.code = o
      BY <2>2, <3>1, CodeOfFirst DEF ParsedLDAPResult, Aligned
    <3>3. taken \div 2 + 1 # k
      BY <1>0, <2>3
    <3>4. First.to # 1
      BY <1>4, <2>3, <3>2, <3>3 DEF Once, First
    <3> QED
      BY <1>3, <1>4, <3>2, <3>4 DEF First
  <2> QED
    BY <1>0, <1>1, <1>2, <2>1, <2>2, <2>3, <2>4
       DEF Aligned, ReportedCodeIsTheAnswer, Return
<1>9. CASE SendMalformed(n) \/ BindThenSendRaw(n, broken) \/ Abandon(n)
  <2>1. method' # "bind_then_send"
    BY <1>0, <1>9 DEF SendMalformed, BindThenSendRaw, Abandon
  <2>2. Returned' => result' \notin {"success", "refused"}
    BY <1>0, <1>9
       DEF SendMalformed, BindThenSendRaw, Abandon, Return, NextRequest, Returned
  <2> QED
    BY <1>0, <1>1, <2>1, <2>2 DEF Aligned, ReportedCodeIsTheAnswer
<1> QED
  BY <1>0, <1>5, <1>6, <1>7, <1>8, <1>9 DEF Proceed

\* Where recv returns whole PDUs (but for bind_then_send_raw, which reports no
\* code), a result code a call reports is the one the server gave to the
\* operation, or to the bind it refused before it.
THEOREM ReportedCodeHolds ==
  ASSUME Fragmented \subseteq {"bind_then_send_raw"}
  PROVE  Spec => []ReportedCodeIsTheAnswer
<1>1. Init => Aligned /\ ReportedCodeIsTheAnswer
  BY DEF Init, Aligned, ReportedCodeIsTheAnswer, Returned
<1>2. Typed /\ Flow /\ Once /\ Aligned /\ ReportedCodeIsTheAnswer /\ [Next]_vars
        => Aligned' /\ ReportedCodeIsTheAnswer'
  <2> SUFFICES ASSUME Typed, Flow, Once, Aligned, ReportedCodeIsTheAnswer, [Next]_vars
               PROVE  Aligned' /\ ReportedCodeIsTheAnswer'
    OBVIOUS
  <2>1. CASE Receive \/ TimeOut \/ EndOfStream
    <3>1. PICK n \in 0..Available, broken \in BOOLEAN : Reads(n, broken)
      BY <2>1, OneRead
    <3> QED
      BY <3>1, AlignedStep DEF Reads
  <2>2. CASE Connect \/ Send
    <3>1. /\ UNCHANGED <<method, step, sent, taken>>
          /\ pc # "returned" /\ (Returned' => result' = "raised")
      BY <2>2 DEF Connect, Send, Return, serverVars, Returned
    <3> QED
      BY <3>1 DEF Aligned, ReportedCodeIsTheAnswer
  <2>3. CASE ~ClientStep
    <3>1. /\ UNCHANGED <<method, pc, step, taken, result>> /\ Script' = Script
          /\ \A k \in 1..Len(sent) : k \in 1..Len(sent') /\ sent'[k] = sent[k]
      BY <2>3, Frame
    <3>2. ASSUME NEW r, NEW c, Answer(r, c) PROVE Answer(r, c)'
      <4>1. PICK k \in 1..Len(sent) : sent[k].to = r /\ sent[k].code = c
        BY <3>2 DEF Answer, Range, Typed, TypeOK
      <4>2. sent'[k] \in Range(sent')
        <5>1. sent' \in Seq(PDUs)
          BY TypedStep DEF Typed, TypeOK
        <5> QED
          BY <3>1, <5>1 DEF Range
      <4> QED
        BY <3>1, <4>1, <4>2 DEF Answer
    <3>3. Aligned'
      BY <3>1 DEF Aligned
    <3>4. ReportedCodeIsTheAnswer'
      BY <3>1, <3>2 DEF ReportedCodeIsTheAnswer, Returned
    <3> QED
      BY <3>3, <3>4
  <2> QED
    BY <2>1, <2>2, <2>3 DEF ClientStep
<1> QED
  BY <1>1, <1>2, TypedHolds, FlowHolds, PTL DEF Spec

-----------------------------------------------------------------------------
\* The abandon assertions go past the bind only with its answer behind them.
Abandoning == method \in {"abandon_unknown", "abandon_in_progress"}
Behind ==
  Abandoning =>
    /\ taken % 2 = 0
    /\ step = 1 /\ pc # "returned" => taken = 0
    /\ step # 1 => \E k \in 1..Len(sent) : sent[k].to = 1 /\ 2 * k <= taken

LEMMA BehindStep ==
  ASSUME Typed, Flow, Once, Behind, NEW n \in 0..Available, NEW broken \in BOOLEAN,
         Reads(n, broken), Abandoning => n % 2 = 0
  PROVE  Behind' /\ PassIsNotTheBind'
<1>0. /\ pc = "recv" /\ Proceed(n, broken) /\ taken' = taken + n
      /\ UNCHANGED <<method, sent>> /\ Script' = Script /\ sent \in Seq(PDUs)
      /\ taken \in Nat /\ n \in Nat /\ step \in 1..Len(Script) /\ Len(Script) \in 1..4
  <2>1. pc = "recv" /\ Proceed(n, broken)
    BY DEF Reads
  <2>2. taken' = taken + n /\ UNCHANGED <<method, sent>>
    BY <2>1 DEF Proceed, serverVars
  <2>3. Script' = Script
    BY <2>2 DEF Script
  <2>4. /\ taken \in Nat /\ step \in 1..Len(Script) /\ sent \in Seq(PDUs)
        /\ method \in AllMethods /\ Available \in Int
    BY DEF Typed, TypeOK, Available
  <2> QED
    BY <2>1, <2>2, <2>3, <2>4, ScriptShape
<1>1. n \in 1..Available => taken \div 2 + 1 \in 1..Len(sent)
  BY FirstIsSent
<1>2. CASE ~Abandon(n)
  <2>1. ~Abandoning' /\ (Returned' => result' # "PASS")
    <3>1. CASE Bind(n)
      <4>1. PICK o \in ParsedBindResponse(taken, n) : Return(o)
        BY <3>1 DEF Bind
      <4>2. o \in Codes \cup {"raised", "no_answer"}
        BY ParsedRange DEF ParsedBindResponse
      <4> QED
        BY <1>0, <3>1, <4>1, <4>2 DEF Bind, Abandoning, Return, Codes
    <3>2. CASE RawSend(n)
      <4>1. PICK o \in ParsedLDAPResult(taken, n) : Return(o)
        BY <3>2 DEF RawSend
      <4>2. o \in Codes \cup {"raised", "no_answer"}
        BY ParsedRange DEF ParsedLDAPResult
      <4> QED
        BY <1>0, <3>2, <4>1, <4>2 DEF RawSend, Abandoning, Return, Codes
    <3>3. CASE SendMalformed(n) \/ BindThenSendRaw(n, broken)
      BY <1>0, <3>3 DEF SendMalformed, BindThenSendRaw, Abandoning, Return, Returned
    <3>4. CASE BindThenSend(n)
      <4>1. /\ \A o \in ParsedBindResponse(taken, n) : o # "PASS"
            /\ \A o \in ParsedLDAPResult(taken, n) : o # "PASS"
        BY ParsedRange DEF ParsedBindResponse, ParsedLDAPResult, Codes
      <4> QED
        BY <1>0, <3>4, <4>1 DEF BindThenSend, Abandoning, Return, NextRequest, Returned
    <3> QED
      BY <1>0, <1>2, <3>1, <3>2, <3>3, <3>4 DEF Proceed
  <2> QED
    BY <2>1 DEF Behind, PassIsNotTheBind
<1>3. CASE Abandon(n) /\ step = 1
  <2>1. PICK o \in ParsedBindResponse(taken, n) :
          IF o = "success" THEN NextRequest
          ELSE Return(IF o = "raised" THEN o ELSE "BLOCKED")
    BY <1>3 DEF Abandon
  <2>2. taken = 0 /\ Abandoning
    BY <1>0, <1>3 DEF Abandon, Behind, Abandoning
  <2>3. CASE o = "success"
    <3>1. n \in 1..Available /\ First.to \in 1..step
      BY <1>0, <2>2, <2>3, CodeOfFirst DEF ParsedBindResponse
    <3>2. 1 \in 1..Len(sent) /\ sent[1].to = 1 /\ 2 * 1 <= taken'
      BY <1>0, <1>1, <1>3, <2>2, <3>1 DEF First
    <3>3. pc' = "send" /\ step' = 2 /\ taken' % 2 = 0
      BY <1>0, <1>3, <2>1, <2>2, <2>3 DEF NextRequest
    <3> QED
      BY <1>0, <3>2, <3>3 DEF Behind, PassIsNotTheBind, Returned
  <2>4. CASE o # "success"
    BY <1>0, <1>3, <2>1, <2>2, <2>4 DEF Return, Behind, PassIsNotTheBind, Returned
  <2> QED
    BY <2>3, <2>4
<1>4. CASE Abandon(n) /\ step # 1
  <2>1. Abandoning
    BY <1>4 DEF Abandon, Abandoning
  <2>2. PICK k \in 1..Len(sent) : sent[k].to = 1 /\ 2 * k <= taken
    BY <1>4, <2>1 DEF Behind
  <2>3. Behind'
    <3>1. step' # 1 /\ taken' % 2 = 0 /\ 2 * k <= taken'
      BY <1>0, <1>4, <2>1, <2>2 DEF Abandon, NextRequest, Return, Behind
    <3> QED
      BY <1>0, <2>2, <3>1 DEF Behind
  <2>4. n # 0 => \E m \in Range(sent) : m.kind # "bind"
    <3>1. SUFFICES ASSUME n # 0 PROVE \E m \in Range(sent) : m.kind # "bind"
      OBVIOUS
    <3>2. n \in 1..Available /\ taken \div 2 + 1 # k
      BY <1>0, <2>2, <3>1 DEF Available
    <3>3. First.kind # "bind" /\ First \in Range(sent)
      <4>1. First.to # 1
        BY <1>1, <2>2, <3>2 DEF Once, First
      <4> QED
        BY <1>0, <1>1, <3>2, <4>1 DEF Flow, First, Range
    <3> QED
      BY <3>3
  <2>5. PassIsNotTheBind'
    BY <1>0, <1>4, <2>4 DEF Abandon, NextRequest, Return, PassIsNotTheBind, Returned
  <2> QED
    BY <2>3, <2>5
<1> QED
  BY <1>0, <1>2, <1>3, <1>4

\* Where recv returns whole PDUs, an abandon assertion never passes on a late
\* answer to its bind: abandon.py, abandon_unknown_message_id and
\* abandon_in_progress.
THEOREM PassHolds ==
  ASSUME Fragmented \subseteq {"bind_then_send_raw"}
  PROVE  Spec => []PassIsNotTheBind
<1>1. Init => Behind /\ PassIsNotTheBind
  BY DEF Init, Behind, PassIsNotTheBind, Returned
<1>2. Typed /\ Flow /\ Once /\ Behind /\ PassIsNotTheBind /\ [Next]_vars
        => Behind' /\ PassIsNotTheBind'
  <2> SUFFICES ASSUME Typed, Flow, Once, Behind, PassIsNotTheBind, [Next]_vars
               PROVE  Behind' /\ PassIsNotTheBind'
    OBVIOUS
  <2>1. CASE Receive \/ TimeOut \/ EndOfStream
    <3>1. PICK n \in 0..Available, broken \in BOOLEAN : Reads(n, broken)
      BY <2>1, OneRead
    <3> QED
      BY <3>1, BehindStep DEF Reads, Abandoning
  <2>2. CASE Connect \/ Send
    <3>1. /\ UNCHANGED <<method, step, sent, taken>>
          /\ pc # "returned" /\ (Returned' => result' = "raised")
      BY <2>2 DEF Connect, Send, Return, serverVars, Returned
    <3> QED
      BY <3>1 DEF Behind, Abandoning, PassIsNotTheBind
  <2>3. CASE ~ClientStep
    <3>1. /\ UNCHANGED <<method, pc, step, taken, result>>
          /\ \A k \in 1..Len(sent) : k \in 1..Len(sent') /\ sent'[k] = sent[k]
      BY <2>3, Frame
    <3>2. sent \in Seq(PDUs) /\ sent' \in Seq(PDUs)
      BY TypedStep DEF Typed, TypeOK
    <3>3. Behind'
      BY <3>1 DEF Behind, Abandoning
    <3>4. PassIsNotTheBind'
      BY <3>1, <3>2 DEF PassIsNotTheBind, Returned, Range
    <3> QED
      BY <3>3, <3>4
  <2> QED
    BY <2>1, <2>2, <2>3 DEF ClientStep
<1> QED
  BY <1>1, <1>2, TypedHolds, FlowHolds, PTL DEF Spec

-----------------------------------------------------------------------------
\* What bind_then_send_raw keeps.  A notice is the last PDU of a connection;
\* otherwise the bind's answer is the first one, and the bytes kept start
\* behind the first octet of the first PDU at the earliest.

Kept ==
  /\ \A k \in 1..Len(sent) : sent[k].to = 0 => k = Len(sent) /\ link = "closed"
  /\ result = "stream" => method = "bind_then_send_raw"
  /\ method = "bind_then_send_raw" =>
       /\ step = 1 => taken = 0 /\ start = 0
       /\ step = 2 => \/ Len(sent) = 0 /\ link = "closed"
                      \/ start >= 1 /\ 1 \in 1..Len(sent) /\ sent[1].to \in {0, 1}

LEMMA KeptImplies ==
  ASSUME Typed, Flow, Once, Kept
  PROVE  StreamIsTheAnswer
<1> SUFFICES ASSUME result = "stream", NEW m \in MayBeParsed,
                    ~(start % 2 = 1 /\ m = sent[start \div 2 + 1])
             PROVE  m.to \in {0, 2}
  BY DEF StreamIsTheAnswer
<1>0. /\ sent \in Seq(PDUs) /\ Len(sent) \in Nat /\ taken \in 0..2 * Len(sent)
      /\ start \in 0..taken /\ method = "bind_then_send_raw" /\ method \in AllMethods
      /\ step \in 1..Len(Script)
  BY DEF Typed, TypeOK, Kept
<1>1. step \in {1, 2}
  <2>1. Len(Script) = 2
    BY <1>0, ScriptShape
  <2> QED
    BY <1>0, <2>1
<1>2. PICK q \in start..taken - 1 : m = sent[q \div 2 + 1]
  <2>1. 2 * (taken \div 2) <= taken /\ 2 * (taken \div 2) \in Nat
    BY <1>0
  <2>2. PICK end \in {taken, 2 * (taken \div 2)} : m \in Returns(end)
    BY DEF MayBeParsed
  <2> QED
    BY <1>0, <2>1, <2>2 DEF Returns
<1> DEFINE i == q \div 2 + 1
<1>i. i \in 1..Len(sent) /\ m = sent[i]
  BY <1>0, <1>2
<1>3. step = 2 /\ start >= 1 /\ 1 \in 1..Len(sent) /\ sent[1].to \in {0, 1}
  BY <1>0, <1>1, <1>2, <1>i DEF Kept
<1>4. i # 1
  <2>1. ASSUME i = 1 PROVE FALSE
    <3>1. q \in Nat /\ q >= 1 /\ start \in Nat /\ q \div 2 = 0
      BY <1>0, <1>2, <1>3, <2>1
    <3>2. q = 1
      BY <3>1
    <3>3. start = 1
      BY <1>2, <1>3, <3>1, <3>2
    <3> QED
      BY <1>i, <2>1, <3>3
  <2> QED
    BY <2>1
<1>5. m.to # 1
  <2>1. sent[1].to = 1
    BY <1>0, <1>i, <1>3, <1>4 DEF Kept
  <2> QED
    BY <1>i, <1>3, <1>4, <2>1 DEF Once
<1>6. m.to # 0 => Past(m.to) /\ m.to \in Nat
  <2>1. m \in PDUs
    BY <1>0, <1>2
  <2> QED
    BY <1>i, <1>5, <2>1 DEF Flow, PDUs
<1> QED
  BY <1>3, <1>5, <1>6 DEF Past

LEMMA KeptStep ==
  ASSUME Typed, Flow, Once, Kept, NEW n \in 0..Available, NEW broken \in BOOLEAN,
         Reads(n, broken)
  PROVE  Kept'
<1>0. pc = "recv" /\ Proceed(n, broken) /\ taken' = taken + n
      /\ UNCHANGED <<method, sent, link>>
  BY DEF Reads, Proceed, serverVars
<1>1. /\ taken \in Nat /\ n \in Nat /\ n <= 2 * Len(sent) - taken /\ Len(sent) \in Nat
      /\ step \in 1..Len(Script) /\ method \in AllMethods
  BY DEF Typed, TypeOK, Available
<1>2. CASE BindThenSendRaw(n, broken) /\ step = 1
  <2>1. taken = 0 /\ start = 0 /\ method = "bind_then_send_raw" /\ start' = n
    BY <1>1, <1>2 DEF BindThenSendRaw, Kept
  <2>2. CASE broken
    BY <1>0, <1>1, <1>2, <2>1, <2>2 DEF BindThenSendRaw, Kept, Reads
  <2>3. CASE ~broken
    <3>1. step' = 2 /\ result' = result
      BY <1>2, <2>3 DEF BindThenSendRaw
    <3>2. CASE n = 0
      <4>1. link = "closed" /\ Len(sent) = 0
        BY <1>1, <2>1, <2>3, <3>2 DEF Reads, Available
      <4> QED
        BY <1>0, <3>1, <4>1 DEF Kept
    <3>3. CASE n # 0
      <4>1. 1 \in 1..Len(sent) /\ n >= 1
        BY <1>1, <2>1, <3>3
      <4>2. sent[1] \in PDUs /\ (sent[1].to # 0 => Past(sent[1].to))
        <5>1. sent[1] \in PDUs
          BY <4>1 DEF Typed, TypeOK
        <5> QED
          BY <4>1, <5>1 DEF Flow
      <4>3. sent[1].to \in {0, 1}
        BY <1>2, <4>2 DEF Past, PDUs
      <4> QED
        BY <1>0, <2>1, <3>1, <4>1, <4>3 DEF Kept
    <3> QED
      BY <3>2, <3>3
  <2> QED
    BY <2>2, <2>3
<1>3. CASE BindThenSendRaw(n, broken) /\ step # 1
  BY <1>0, <1>1, <1>3 DEF BindThenSendRaw, Kept, Return
<1>4. CASE Bind(n) \/ RawSend(n) \/ SendMalformed(n) \/ BindThenSend(n) \/ Abandon(n)
  <2>1. /\ ParsedBindResponse(taken, n) \subseteq Codes \cup {"raised", "no_answer"}
        /\ ParsedLDAPResult(taken, n) \subseteq Codes \cup {"raised", "no_answer"}
    BY ParsedRange DEF ParsedBindResponse, ParsedLDAPResult
  <2>2. method # "bind_then_send_raw" /\ result = "none_yet"
    BY <1>0, <1>4 DEF Bind, RawSend, SendMalformed, BindThenSend, Abandon, Typed
  <2>3. result' # "stream"
    BY <1>4, <2>1, <2>2
       DEF Bind, RawSend, SendMalformed, BindThenSend, Abandon, Return, NextRequest, Codes
  <2> QED
    BY <1>0, <2>2, <2>3 DEF Kept
<1> QED
  BY <1>0, <1>2, <1>3, <1>4 DEF Proceed

\* What is split from the bytes that bind_then_send_raw keeps answers the search
\* or is a notice, wherever recv cut the stream.
THEOREM StreamHolds == Spec => []StreamIsTheAnswer
<1>1. Init => Kept
  BY DEF Init, Kept
<1>2. Typed /\ Flow /\ Once /\ Kept /\ [Next]_vars => Kept'
  <2> SUFFICES ASSUME Typed, Flow, Once, Kept, [Next]_vars PROVE Kept'
    OBVIOUS
  <2>1. CASE Receive \/ TimeOut \/ EndOfStream
    <3>1. PICK n \in 0..Available, broken \in BOOLEAN : Reads(n, broken)
      BY <2>1, OneRead
    <3> QED
      BY <3>1, KeptStep
  <2>2. CASE Connect \/ Send
    <3>1. /\ UNCHANGED <<method, step, sent, link, taken, start>>
          /\ result' \in {result, "raised"}
      BY <2>2 DEF Connect, Send, Return, serverVars
    <3> QED
      BY <3>1 DEF Kept
  <2>3. CASE ~ClientStep
    <3>1. /\ UNCHANGED <<method, step, taken, start, result>>
          /\ \A k \in 1..Len(sent) : k \in 1..Len(sent') /\ sent'[k] = sent[k]
      BY <2>3, Frame
    <3>2. link = "closed" => link' = "closed" /\ sent' = sent
      BY <2>3 DEF Next, ServerStep, Accept, SendEntry, Finish, Notify, Close, Emit, vars
    <3>3. \A k \in 1..Len(sent') : sent'[k].to = 0 => k = Len(sent') /\ link' = "closed"
      <4>1. CASE SendEntry \/ Finish \/ Notify
        <5>1. PICK m \in PDUs : Emit(m) /\ (m.to # 0 \/ link' = "closed")
          <6>1. working \subseteq 1..Len(Script) /\ method \in AllMethods
            BY DEF Typed, TypeOK
          <6>2. \A r \in working : r # 0
            BY <6>1, ScriptShape
          <6> QED
            BY <4>1, <6>1, <6>2, PDUShape DEF SendEntry, Finish, Notify
        <5>2. sent' = Append(sent, m) /\ sent \in Seq(PDUs) /\ link = "up"
          BY <5>1 DEF Emit, Typed, TypeOK
        <5> QED
          BY <5>1, <5>2, AppendElements DEF Kept
      <4>2. CASE Accept \/ Close \/ UNCHANGED vars
        BY <4>2 DEF Accept, Close, vars, Kept
      <4> QED
        BY <2>3, <4>1, <4>2 DEF Next, ServerStep
    <3> QED
      BY <3>1, <3>2, <3>3 DEF Kept
  <2> QED
    BY <2>1, <2>2, <2>3 DEF ClientStep
<1>3. Typed /\ Flow /\ Once /\ Kept => StreamIsTheAnswer
  BY KeptImplies
<1> QED
  BY <1>1, <1>2, <1>3, TypedHolds, FlowHolds, PTL DEF Spec

=============================================================================
