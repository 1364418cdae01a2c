---------------------------- MODULE SuitesProofs ----------------------------
(***************************************************************************)
(* For every table of scripts, every server and every number of faults:    *)
(* type correctness of Suites, and that a server that is not writable      *)
(* changes only under an assertion that sends an update undeclared.  For   *)
(* every table of scripts that follow the discipline and any number of     *)
(* runs: on a conformant server the suites leave the seed intact, a        *)
(* finally clause does its work whatever happened in the try block, and a  *)
(* server that was declared read-only is not touched.  And for scripts     *)
(* that are blameless, whatever the server does and however often: an      *)
(* assertion fails only for one of the reasons FailsForAReason names.      *)
(***************************************************************************)
EXTENDS Blame, WellFoundedInduction, TLAPS

LEMMA StepsWithMonotonic ==
  ASSUME NEW A, NEW B, A \subseteq B
  PROVE  StepsWith(A) \subseteq StepsWith(B)
  BY DEF StepsWith

\* A step without undo is a step, and a finally clause is a script.
LEMMA PlainStepsAreSteps == Seq(PlainSteps) \subseteq Seq(AnySteps)
<1>1. {<<>>} \subseteq Seq(PlainSteps)
  OBVIOUS
<1>2. StepsWith({<<>>}) \subseteq StepsWith(Seq(PlainSteps))
  BY <1>1, StepsWithMonotonic
<1>3. PlainSteps \subseteq AnySteps
  BY <1>2, Zenon DEF PlainSteps, AnySteps
<1> QED
  BY <1>3

LEMMA ScriptTyped ==
  ASSUME NEW i \in 1..Len(Table)
  PROVE  /\ Table[i].script \in Seq(AnySteps)
         /\ Table[i].id \in STRING
<1>1. Table[i] \in Assertions
  BY TableAssumption
<1> QED
  BY <1>1 DEF Assertions

\* The step under way and what is left after it.
LEMMA StepTyped ==
  ASSUME TypeOK, todo # <<>>
  PROVE  /\ step \in AnySteps
         /\ step.req \in Requests
         /\ step.undo \in Seq(PlainSteps)
         /\ step.undo \in Seq(AnySteps)
         /\ step.ret \in [Codes -> Statuses \cup {"go"}]
         /\ Tail(todo) \in Seq(AnySteps)
<1>1. step \in AnySteps /\ Tail(todo) \in Seq(AnySteps)
  BY DEF TypeOK, step
<1> QED
  BY <1>1, PlainStepsAreSteps DEF AnySteps, StepsWith

LEMMA EffectTyped ==
  ASSUME TypeOK, NEW r \in Requests, NEW applied \in BOOLEAN, Effect(r, applied)
  PROVE  present' \subseteq STRING /\ altered' \subseteq Seed
<1>1. r.on \subseteq STRING /\ r.to \in STRING
  BY DEF Requests
<1>2. CASE ~applied
  BY <1>2 DEF TypeOK, Effect, directory
<1>3. CASE applied
  BY <1>1, <1>3 DEF TypeOK, Effect
<1> QED
  BY <1>2, <1>3

LEMMA ServedTyped ==
  ASSUME TypeOK, NEW r \in Requests, NEW applied \in BOOLEAN, Served(r, applied)
  PROVE  link' \in {"closed", "open", "dead"} /\ identity' \in Identities
<1>1. Named(r.to) \in Identities
  BY DEF Named, Identities
<1> QED
  BY <1>1 DEF TypeOK, Served, Identities, session

LEMMA ConformantTyped ==
  ASSUME NEW r \in Requests, NEW a \in Conformant(r)
  PROVE  a[1] \in Codes /\ a[2] \in BOOLEAN
<1>1. r.codes \subseteq Codes
  BY DEF Requests
<1>2. {16} \subseteq Codes /\ Objections(r) \subseteq Codes
  BY DEF Objections, Codes
<1>3. ConformantCodes(r) \subseteq Codes
  BY <1>1, <1>2 DEF ConformantCodes
<1>4. PICK c \in ConformantCodes(r) : a = <<c, c = 0>>
  BY DEF Conformant
<1> QED
  BY <1>3, <1>4

LEMMA AnsweredTyped ==
  ASSUME TypeOK, Calling, NEW c \in Codes, NEW applied \in BOOLEAN, Answered(c, applied),
         facts' \subseteq Facts, faults' \in 0..MaxFaults
  PROVE  TypeOK'
<1>1. /\ present' \subseteq STRING /\ altered' \subseteq Seed
      /\ link' \in {"closed", "open", "dead"} /\ identity' \in Identities
  BY StepTyped, EffectTyped, ServedTyped DEF Answered, Calling
<1>2. todo' \in Seq(AnySteps) /\ final' \in Seq(PlainSteps) /\ verdict' \in Verdicts
  BY StepTyped DEF Answered, Continue, Calling, TypeOK, Verdicts
<1> QED
  BY <1>1, <1>2 DEF Answered, Calling, TypeOK, server

-----------------------------------------------------------------------------
THEOREM InitTyped == Init => TypeOK
<1>1. <<>> \in Seq(AnySteps) /\ <<>> \in Seq(PlainSteps)
  OBVIOUS
<1>2. Len(Table) \in Nat
  BY TableAssumption
<1> QED
  BY <1>1, <1>2, SeedAssumption, BoundsAssumption, ServerAssumption
     DEF Init, TypeOK, Identities, Verdicts

THEOREM StepTypeOK == TypeOK /\ [Next]_vars => TypeOK'
<1> SUFFICES ASSUME TypeOK, [Next]_vars PROVE TypeOK'
  OBVIOUS
<1> USE BoundsAssumption
<1>0. Len(Table) \in Nat
  BY TableAssumption
<1>1. CASE Probe
  BY <1>1 DEF Probe, TypeOK, directory, server, Identities
<1>2. CASE Start
  <2>1. cursor + 1 \in 1..Len(Table)
    BY <1>0, <1>2 DEF Start, TypeOK
  <2>2. todo' \in Seq(AnySteps) /\ final' \in Seq(PlainSteps)
    BY <1>2, <2>1, ScriptTyped DEF Start
  <2> QED
    BY <1>0, <1>2, <2>1, <2>2
       DEF Start, TypeOK, directory, session, server, Verdicts, Statuses, Facts
<1>3. CASE PassOver
  BY <1>0, <1>3 DEF PassOver, TypeOK, directory, session, server, Verdicts
<1>4. CASE NewRun
  BY <1>0, <1>4 DEF NewRun, TypeOK, directory, server, Identities, Verdicts
<1>5. CASE Drop
  BY <1>5 DEF Drop, TypeOK, directory, server, Identities, Facts
<1>6. CASE Call
  <2>1. PICK a \in Conformant(step.req) : Answered(a[1], a[2])
    BY <1>6 DEF Call
  <2>2. a[1] \in Codes /\ a[2] \in BOOLEAN
    BY <1>6, StepTyped, ConformantTyped DEF Call, Calling
  <2>3. facts' \subseteq Facts /\ faults' \in 0..MaxFaults
    BY <1>6 DEF Call, TypeOK, Bearing, Facts
  <2> QED
    BY <1>6, <2>1, <2>2, <2>3, AnsweredTyped DEF Call
<1>7. CASE Deviate
  <2>1. PICK a \in Deviant(step.req) : Answered(a[1], a[2])
    BY <1>7 DEF Deviate
  <2>2. a[1] \in Codes /\ a[2] \in BOOLEAN
    BY DEF Deviant, Codes
  <2>3. facts' \subseteq Facts /\ faults' \in 0..MaxFaults
    BY <1>7 DEF Deviate, TypeOK, Bearing, Deviation, Facts
  <2> QED
    BY <1>7, <2>1, <2>2, <2>3, AnsweredTyped DEF Deviate
<1>8. CASE Raise
  <2>1. todo # <<>>
    BY <1>8 DEF Raise, Calling
  <2>2. /\ present' \subseteq STRING /\ altered' \subseteq Seed
        /\ link' \in {"closed", "open", "dead"} /\ identity' \in Identities
    <3>1. CASE UNCHANGED <<directory, session, faults>>
      BY <3>1 DEF TypeOK, directory, session
    <3>2. CASE \E applied \in BOOLEAN : Effect(step.req, applied) /\ Served(step.req, applied)
      BY <2>1, <3>2, StepTyped, EffectTyped, ServedTyped
    <3> QED
      BY <1>8, <3>1, <3>2 DEF Raise
  <2>3. /\ facts' \subseteq Facts
        /\ faults' \in 0..MaxFaults
    <3>1. Deviation \cup {"raised"} \subseteq Facts
      BY DEF Deviation, Facts
    <3>2. facts' = facts \/ facts' = facts \cup Deviation \cup {"raised"}
      BY <1>8 DEF Raise
    <3>3. faults' = faults \/ (faults < MaxFaults /\ faults' = faults + 1)
      BY <1>8 DEF Raise
    <3>4. faults \in 0..MaxFaults /\ facts \subseteq Facts
      BY DEF TypeOK
    <3>5. faults' \in 0..MaxFaults
      BY <3>3, <3>4
    <3> QED
      BY <3>1, <3>2, <3>4, <3>5
  <2>4. <<>> \in Seq(AnySteps)
    OBVIOUS
  <2>5. todo' \in Seq(AnySteps) /\ verdict' \in Verdicts
    BY <1>8, <2>1, <2>4, StepTyped DEF Raise, TypeOK, Verdicts, Statuses
  <2> QED
    BY <1>8, <2>2, <2>3, <2>5 DEF Raise, TypeOK, server
<1>9. CASE EnterTry
  BY <1>9, StepTyped DEF EnterTry, TypeOK, directory, session, server
<1>10. CASE Finally
  BY <1>10, PlainStepsAreSteps DEF Finally, TypeOK, directory, session, server
<1>11. CASE Return
  <2>1. Table[cursor].id \in STRING
    BY <1>11, ScriptTyped DEF Return, TypeOK
  <2> QED
    BY <1>11, <2>1 DEF Return, TypeOK, directory, session, server
<1>12. CASE UNCHANGED vars
  BY <1>12 DEF vars, TypeOK
<1> QED
  BY <1>1, <1>2, <1>3, <1>4, <1>5, <1>6, <1>7, <1>8, <1>9, <1>10, <1>11, <1>12 DEF Next

\* Every variable keeps its type: the session has an identity that exists, the
\* verdict is one a runner may return.
THEOREM SuitesTypeCorrect == Spec => []TypeOK
  BY InitTyped, StepTypeOK, PTL DEF Spec

-----------------------------------------------------------------------------
\* What runs on a server that is not writable is not declared as mutating.
AllowedToRun == phase = "running" /\ ~writable => ~Table[cursor].mutates

LEMMA AnAnswer ==
  ASSUME Call \/ Deviate
  PROVE  Calling /\ \E c : \E applied \in BOOLEAN : Answered(c, applied)
<1>1. CASE Call
  <2>1. PICK a \in Conformant(step.req) : Answered(a[1], a[2])
    BY <1>1 DEF Call
  <2>2. PICK c : a = <<c, c = 0>>
    BY DEF Conformant
  <2>3. a[2] \in BOOLEAN
    BY <2>2
  <2> QED
    BY <1>1, <2>1, <2>3 DEF Call
<1>2. CASE Deviate
  <2>1. PICK a \in Deviant(step.req) : Answered(a[1], a[2])
    BY <1>2 DEF Deviate
  <2>2. a[2] \in BOOLEAN
    BY DEF Deviant
  <2> QED
    BY <1>2, <2>1, <2>2 DEF Deviate
<1> QED
  BY <1>1, <1>2

LEMMA InitAllowed == Init => AllowedToRun
  BY DEF Init, AllowedToRun

LEMMA StepAllowed == AllowedToRun /\ [Next]_vars => AllowedToRun'
<1> SUFFICES ASSUME AllowedToRun, [Next]_vars PROVE AllowedToRun'
  OBVIOUS
<1>1. CASE Start
  BY <1>1 DEF Start, Runnable, server, AllowedToRun
<1>2. CASE Probe \/ PassOver \/ NewRun \/ Return
  BY <1>2 DEF Probe, PassOver, NewRun, Return, AllowedToRun
<1>3. CASE Drop \/ EnterTry \/ Finally \/ Raise
  BY <1>3 DEF Drop, EnterTry, Finally, Raise, server, AllowedToRun
<1>4. CASE Call \/ Deviate
  BY <1>4, AnAnswer DEF Answered, server, AllowedToRun
<1>5. CASE UNCHANGED vars
  BY <1>5 DEF vars, server, AllowedToRun
<1> QED
  BY <1>1, <1>2, <1>3, <1>4, <1>5 DEF Next

-----------------------------------------------------------------------------
\* The operators of the discipline from one position to the next.

LEMMA MadeNext ==
  ASSUME NEW s, NEW n \in Nat \ {0}
  PROVE  Made(s, n + 1) = Made(s, n) \cup Makes(s, n)
<1>1. 1..((n + 1) - 1) = (1..(n - 1)) \cup {n}
  BY SMT
<1> QED
  BY <1>1 DEF Made

LEMMA LeftNext ==
  ASSUME NEW s, NEW n \in Nat \ {0}
  PROVE  /\ Makes(s, n) \subseteq Left(s, n + 1)
         /\ \A e \in Left(s, n) : ~Removes(s, n, e) => e \in Left(s, n + 1)
<1>1. (n + 1)..((n + 1) - 1) = {} /\ n \in 1..((n + 1) - 1)
  BY SMT
<1>2. ASSUME NEW e \in Makes(s, n) PROVE e \in Left(s, n + 1)
  BY <1>1, <1>2, MadeNext DEF Left
<1>3. ASSUME NEW e \in Left(s, n), ~Removes(s, n, e) PROVE e \in Left(s, n + 1)
  <2>1. PICK k \in 1..(n - 1) : /\ e \in Makes(s, k)
                                /\ \A j \in (k + 1)..(n - 1) : ~Removes(s, j, e)
    BY <1>3 DEF Left
  <2>2. k \in 1..((n + 1) - 1) /\ (k + 1)..((n + 1) - 1) = ((k + 1)..(n - 1)) \cup {n}
    BY SMT
  <2>3. e \in Made(s, n + 1)
    BY <1>3, MadeNext DEF Left
  <2>4. \A j \in (k + 1)..((n + 1) - 1) : ~Removes(s, j, e)
    BY <1>3, <2>1, <2>2
  <2> QED
    BY <2>1, <2>2, <2>3, <2>4 DEF Left
<1> QED
  BY <1>2, <1>3

LEMMA LeftAreLeaves ==
  ASSUME NEW s, NEW n
  PROVE  Left(s, n) \subseteq LeftLeaves(s, n) /\ Left(s, n) \subseteq Made(s, n)
BY DEF Left, LeftLeaves, Removes

LEMMA ChangedNext ==
  ASSUME NEW s, NEW n \in Nat \ {0}
  PROVE  /\ AltersAt(s, n) \cap Seed \subseteq Changed(s, n + 1)
         /\ \A e \in Changed(s, n) : ~Restores(s, n, e) => e \in Changed(s, n + 1)
<1>1. (n + 1)..((n + 1) - 1) = {} /\ n \in 1..((n + 1) - 1)
  BY SMT
<1>2. ASSUME NEW e \in AltersAt(s, n) \cap Seed PROVE e \in Changed(s, n + 1)
  BY <1>1, <1>2 DEF Changed
<1>3. ASSUME NEW e \in Changed(s, n), ~Restores(s, n, e) PROVE e \in Changed(s, n + 1)
  <2>1. PICK k \in 1..(n - 1) : /\ e \in AltersAt(s, k)
                                /\ \A j \in (k + 1)..(n - 1) : ~Restores(s, j, e)
    BY <1>3 DEF Changed
  <2>2. k \in 1..((n + 1) - 1) /\ (k + 1)..((n + 1) - 1) = ((k + 1)..(n - 1)) \cup {n}
    BY SMT
  <2>3. \A j \in (k + 1)..((n + 1) - 1) : ~Restores(s, j, e)
    BY <1>3, <2>1, <2>2
  <2> QED
    BY <1>3, <2>1, <2>2, <2>3 DEF Changed
<1> QED
  BY <1>2, <1>3

LEMMA AdminNext ==
  ASSUME NEW s, NEW n \in Nat \ {0}, AsAdmin(s, n + 1)
  PROVE  \/ Rebinds(s[n]) /\ s[n].req = Bind("admin")
         \/ ~Rebinds(s[n]) /\ AsAdmin(s, n)
<1>1. PICK b \in 1..((n + 1) - 1) :
        /\ Rebinds(s[b]) /\ s[b].req = Bind("admin")
        /\ \A j \in (b + 1)..((n + 1) - 1) : ~Rebinds(s[j])
  BY DEF AsAdmin
<1>2. CASE b = n
  BY <1>1, <1>2
<1>3. CASE b # n
  <2>1. b \in 1..(n - 1) /\ n \in (b + 1)..((n + 1) - 1)
        /\ (b + 1)..(n - 1) \subseteq (b + 1)..((n + 1) - 1)
    BY <1>3, SMT
  <2> QED
    BY <1>1, <2>1 DEF AsAdmin
<1> QED
  BY <1>2, <1>3

-----------------------------------------------------------------------------
\* What a conformant server does with a request.

LEMMA ConformantAnswer ==
  ASSUME NEW r \in Requests, NEW a \in Conformant(r)
  PROVE  /\ a[1] \in Codes /\ a[1] \in ConformantCodes(r)
         /\ a[2] \in BOOLEAN /\ (a[2] <=> a[1] = 0)
         /\ a[2] => Objections(r) = {} /\ Accepted(r)
<1>1. PICK c \in ConformantCodes(r) : a = <<c, c = 0>>
  BY DEF Conformant
<1>2. a[1] = c /\ a[2] \in BOOLEAN /\ (a[2] <=> c = 0)
  BY <1>1
<1>3. 0 \notin Objections(r)
  BY DEF Objections
<1>4. ASSUME c = 0 PROVE Objections(r) = {} /\ Accepted(r)
  BY <1>3, <1>4 DEF ConformantCodes, Accepted
<1> QED
  BY <1>2, <1>4, ConformantTyped

LEMMA ConformantEffect ==
  ASSUME NEW r \in Requests, NEW a \in Conformant(r), Effect(r, a[2])
  PROVE  /\ present' \subseteq present \cup Grows(r)
         /\ altered' \subseteq altered \cup Alters(r)
         /\ SparesSeed(r) /\ Seed \subseteq present => Seed \subseteq present'
         /\ ~a[2] => present' = present /\ altered' = altered
         /\ r.kind = "add" /\ a[2] => \A e \in r.on : Above(e) \in present
<1>1. CASE ~a[2]
  BY <1>1 DEF Effect, directory
<1>2. CASE a[2]
  <2>1. Objections(r) = {} /\ Accepted(r)
    BY <1>2, ConformantAnswer
  <2>2. present' \subseteq present \cup Entries(r)
    BY <1>2 DEF Effect, Entries
  <2>3. altered' \subseteq altered \cup Alters(r)
    BY <1>2, <2>1 DEF Effect, Alters
  <2>4. SparesSeed(r) /\ Seed \subseteq present => Seed \subseteq present'
    BY <1>2, <2>1 DEF Effect, SparesSeed
  <2>5. r.kind = "add" => \A e \in r.on : Above(e) \in present
    BY <2>1 DEF Objections
  <2> QED
    BY <1>2, <2>1, <2>2, <2>3, <2>4, <2>5 DEF Grows
<1>3. a[2] \in BOOLEAN
  BY ConformantAnswer
<1> QED
  BY <1>1, <1>2, <1>3

LEMMA DeleteSucceeds ==
  ASSUME NEW st, NEW e, For(st, "delete", e), st.req \in Requests,
         identity = "admin", e \in present, \A f \in present : Above(f) # e,
         NEW a \in Conformant(st.req), Effect(st.req, a[2])
  PROVE  a[1] = 0 /\ e \notin present'
<1>1. Objections(st.req) = {}
  BY DEF Objections, For, Who
<1>2. ConformantCodes(st.req) = {0}
  BY <1>1 DEF ConformantCodes, For
<1>3. a[1] = 0 /\ a[2]
  BY <1>2, ConformantAnswer
<1> QED
  BY <1>3 DEF Effect, For

LEMMA RenameSucceeds ==
  ASSUME NEW st, NEW e, For(st, "rename", e), st.req \in Requests,
         identity = "admin", e \in present, st.req.to \notin present,
         NEW a \in Conformant(st.req), Effect(st.req, a[2])
  PROVE  a[1] = 0 /\ e \notin present'
<1>1. Objections(st.req) = {}
  BY DEF Objections, For, Who
<1>2. ConformantCodes(st.req) = {0}
  BY <1>1 DEF ConformantCodes, For
<1>3. a[1] = 0 /\ a[2]
  BY <1>2, ConformantAnswer
<1> QED
  BY <1>3 DEF Effect, For

LEMMA RestoreSucceeds ==
  ASSUME NEW st, NEW e, For(st, "resetpw", e), st.req \in Requests,
         identity = "admin", e \in present,
         NEW a \in Conformant(st.req), Effect(st.req, a[2])
  PROVE  a[1] = 0 /\ e \notin altered'
<1>1. Objections(st.req) = {}
  BY DEF Objections, For, Who
<1>2. ConformantCodes(st.req) = {0}
  BY <1>1 DEF ConformantCodes, For
<1>3. a[1] = 0 /\ a[2]
  BY <1>2, ConformantAnswer
<1> QED
  BY <1>3 DEF Effect, For

LEMMA BindSucceeds ==
  ASSUME NEW r \in Requests, r = Bind("admin"), "admin" \notin altered,
         NEW a \in Conformant(r), Served(r, a[2])
  PROVE  a[1] = 0 /\ identity' = "admin"
<1>1. /\ r.kind = "bind" /\ r.as = "shared" /\ r.on = {} /\ r.to = "admin" /\ r.codes = {0}
  BY DEF Bind, Request
<1>2. Objections(r) = {}
  BY <1>1 DEF Objections, Works, Writes
<1>3. ConformantCodes(r) = {0}
  BY <1>1, <1>2 DEF ConformantCodes
<1>4. a[1] = 0 /\ a[2]
  BY <1>3, ConformantAnswer
<1>5. Named("admin") = "admin"
  BY DEF Named, Identities
<1> QED
  BY <1>1, <1>4, <1>5 DEF Served

\* The bind with the new password is refused only if bob still has the old one.
LEMMA RefusalDisproves ==
  ASSUME NEW st, NEW e, Disproves(st, e), st.req \in Requests,
         NEW a \in Conformant(st.req), a[1] # 0
  PROVE  e \notin altered
<1>1. ASSUME e \in altered PROVE Objections(st.req) = {}
  BY <1>1 DEF Objections, Works, Writes, Disproves
<1>2. ASSUME Objections(st.req) = {} PROVE ConformantCodes(st.req) = {0}
  BY <1>2 DEF ConformantCodes, Disproves
<1> QED
  BY <1>1, <1>2, ConformantAnswer

\* Only a bind and an unbind of the shared session change who it is bound as, and
\* no answer leaves its connection dead.
LEMMA ServedSession ==
  ASSUME NEW st, st.kind # "try", NEW applied, Served(st.req, applied)
  PROVE  /\ ~Rebinds(st) => identity' = identity
         /\ link # "dead" => link' # "dead"
BY DEF Served, Rebinds, session

-----------------------------------------------------------------------------
\* A step of the script before any try block.

LEMMA BodyTyped ==
  ASSUME TypeOK, phase = "running"
  PROVE  /\ cursor \in DOMAIN Table
         /\ Body \in Seq(AnySteps) /\ Len(Body) \in Nat /\ DOMAIN Body = 1..Len(Body)
         /\ Disciplined(Body)
         /\ ~Table[cursor].mutates => Innocent(Table[cursor])
<1>1. cursor \in 1..Len(Table)
  BY TableAssumption DEF TypeOK
<1>2. cursor \in DOMAIN Table
  BY <1>1, TableAssumption
<1>3. Body \in Seq(AnySteps)
  BY <1>1, ScriptTyped DEF Body
<1> QED
  BY <1>2, <1>3, DisciplineAssumption DEF Body

LEMMA OpenStep ==
  ASSUME TypeOK, phase = "running", todo # <<>>,
         NEW n \in 1..(Len(Body) + 1), InTheOpen(n)
  PROVE  /\ n \in 1..Len(Body) /\ n \in Nat \ {0} /\ n \in DOMAIN Body
         /\ step = Body[n] /\ step \in AnySteps /\ step.req \in Requests
         /\ Len(Tail(todo)) = Len(Body) + 1 - (n + 1)
         /\ \A i \in DOMAIN Tail(todo) : Tail(todo)[i] = Body[(n + 1) - 1 + i]
<1>1. todo \in Seq(AnySteps) /\ Len(todo) = Len(Body) + 1 - n
      /\ \A i \in DOMAIN todo : todo[i] = Body[n - 1 + i]
  BY DEF TypeOK, InTheOpen
<1>2. Len(Body) \in Nat /\ DOMAIN Body = 1..Len(Body)
  BY BodyTyped
<1>3. Len(todo) \in Nat /\ Len(todo) # 0 /\ 1 \in DOMAIN todo /\ Head(todo) = todo[1]
  BY <1>1
<1>4. n \in 1..Len(Body) /\ n \in Nat \ {0} /\ n - 1 + 1 = n
  BY <1>1, <1>2, <1>3
<1>5. step = Body[n]
  BY <1>1, <1>3, <1>4 DEF step
<1>6. Len(Tail(todo)) = Len(Body) + 1 - (n + 1)
  BY <1>1, <1>2, <1>3, <1>4
<1>7. ASSUME NEW i \in DOMAIN Tail(todo) PROVE Tail(todo)[i] = Body[(n + 1) - 1 + i]
  <2>1. i \in Nat /\ i + 1 \in DOMAIN todo /\ Tail(todo)[i] = todo[i + 1]
    BY <1>1, <1>3
  <2>2. todo[i + 1] = Body[n - 1 + (i + 1)]
    BY <1>1, <2>1
  <2>3. n - 1 + (i + 1) = (n + 1) - 1 + i
    BY <1>4, <2>1
  <2> QED
    BY <2>1, <2>2, <2>3
<1> QED
  BY <1>2, <1>4, <1>5, <1>6, <1>7, StepTyped

\* Nothing that is there and was not seeded is above an entry of the seed.
LEMMA NoneBelow ==
  ASSUME NEW e \in Extra, Childless(e)
  PROVE  \A f \in present : Above(f) # e
BY DisciplineAssumption DEF Extra, Childless, Above

LEMMA RemovedIsGone ==
  ASSUME TypeOK, phase = "running", NEW n \in Nat, InTheOpen(n), step = Body[n],
         step.req \in Requests, NEW e \in Extra, Removes(Body, n, e),
         NEW a \in Conformant(step.req), Effect(step.req, a[2])
  PROVE  a[1] = 0 /\ e \notin present'
<1>1. e \in present /\ e \notin Seed /\ Extra \subseteq Left(Body, n)
  BY DEF Extra, InTheOpen
<1>2. AsAdmin(Body, n) /\ identity = "admin"
  BY DEF Removes, RemovesLeaf, InTheOpen
<1>3. CASE For(step, "delete", e) /\ Childless(e)
  BY <1>1, <1>2, <1>3, NoneBelow, DeleteSucceeds
<1>4. CASE For(step, "rename", e) /\ step.req.to \notin Seed \cup Made(Body, n)
  <2>1. step.req.to \notin present
    BY <1>1, <1>4, LeftAreLeaves DEF Extra
  <2> QED
    BY <1>1, <1>2, <1>4, <2>1, RenameSucceeds
<1>5. CASE /\ For(step, "delete", e)
           /\ \A f \in DOMAIN Parent : Parent[f] = e => f \notin Seed \cup LeftLeaves(Body, n)
  <2>1. ASSUME NEW f \in present PROVE Above(f) # e
    <3>1. f \in Seed \cup LeftLeaves(Body, n)
      BY <1>1, LeftAreLeaves DEF Extra
    <3> QED
      BY <1>1, <1>5, <3>1, DisciplineAssumption DEF Above
  <2> QED
    BY <1>1, <1>2, <1>5, <2>1, DeleteSucceeds
<1> QED
  BY <1>3, <1>4, <1>5 DEF Removes, RemovesLeaf

LEMMA RestoredIsBack ==
  ASSUME TypeOK, phase = "running", NEW n \in Nat, InTheOpen(n), step = Body[n],
         step.req \in Requests, Seed \subseteq present,
         NEW e \in altered, Restores(Body, n, e),
         NEW a \in Conformant(step.req), Effect(step.req, a[2])
  PROVE  a[1] = 0 /\ e \notin altered'
<1>1. e \in present /\ identity = "admin" /\ For(step, "resetpw", e)
  BY DEF TypeOK, Restores, InTheOpen
<1> QED
  BY <1>1, RestoreSucceeds

\* What a request puts in, the step is known to make: an entry whose parent nothing
\* makes is refused.
LEMMA PutInIsMade ==
  ASSUME TypeOK, phase = "running", NEW n \in DOMAIN Body, InTheOpen(n), step = Body[n],
         step.kind # "try", step.req \in Requests,
         NEW a \in Conformant(step.req), Effect(step.req, a[2]),
         NEW e \in present' \ present
  PROVE  a[2] /\ e \in Makes(Body, n)
<1>1. a[2] /\ e \in Grows(step.req)
  BY ConformantEffect, ConformantAnswer
<1>2. ASSUME step.req.kind = "add"
      PROVE  Above(e) \in Seed \cup UNION {Grows(Body[j].req) : j \in DOMAIN Body}
  <2>1. e \in step.req.on
    BY <1>1, <1>2 DEF Grows, Entries
  <2>2. Above(e) \in present
    BY <1>1, <1>2, <2>1, ConformantEffect
  <2>3. Made(Body, n) \subseteq UNION {Grows(Body[j].req) : j \in DOMAIN Body}
    <3>1. \A k \in 1..(n - 1) : k \in DOMAIN Body
      BY BodyTyped
    <3>2. \A k \in 1..(n - 1) : Makes(Body, k) \subseteq Grows(Body[k].req)
      BY DEF Makes
    <3> QED
      BY <3>1, <3>2 DEF Made
  <2> QED
    BY <2>2, <2>3, LeftAreLeaves DEF InTheOpen, Extra
<1> QED
  BY <1>1, <1>2 DEF Makes

\* What is there after a step, whether it goes on or not, is what the discipline
\* says may be left.
LEMMA LeftAfterStep ==
  ASSUME TypeOK, phase = "running", NEW n \in DOMAIN Body, n \in Nat \ {0}, InTheOpen(n),
         step = Body[n], step.kind # "try", step.req \in Requests,
         NEW a \in Conformant(step.req), Effect(step.req, a[2])
  PROVE  /\ Extra' \subseteq Left(Body, n + 1)
         /\ step.ret[a[1]] # "go" => Extra' \subseteq LeftOnReturn(Body, n)
<1> SUFFICES ASSUME NEW e \in Extra'
             PROVE  /\ e \in Left(Body, n + 1)
                    /\ step.ret[a[1]] # "go" => e \in LeftOnReturn(Body, n)
  OBVIOUS
<1>1. e \in present' /\ e \notin Seed
  BY DEF Extra
<1>2. CASE e \in present
  <2>1. e \in Extra /\ e \in Left(Body, n)
    BY <1>1, <1>2 DEF Extra, InTheOpen
  <2>2. ~Removes(Body, n, e)
    BY <1>1, <2>1, RemovedIsGone
  <2> QED
    BY <2>1, <2>2, LeftNext DEF LeftOnReturn
<1>3. CASE e \notin present
  <2>1. a[2] /\ e \in Makes(Body, n)
    BY <1>1, <1>3, PutInIsMade
  <2>2. a[1] = 0
    BY <2>1, ConformantAnswer
  <2> QED
    BY <2>1, <2>2, LeftNext DEF LeftOnReturn
<1> QED
  BY <1>2, <1>3

LEMMA ChangedAfterStep ==
  ASSUME TypeOK, TypeOK', phase = "running", NEW n \in DOMAIN Body, n \in Nat \ {0},
         InTheOpen(n), Seed \subseteq present,
         step = Body[n], step.kind # "try", step.req \in Requests,
         NEW a \in Conformant(step.req), Effect(step.req, a[2])
  PROVE  /\ altered' \subseteq Changed(Body, n + 1)
         /\ step.ret[a[1]] # "go" => altered' \subseteq ChangedOnReturn(Body, n)
<1> SUFFICES ASSUME NEW e \in altered'
             PROVE  /\ e \in Changed(Body, n + 1)
                    /\ step.ret[a[1]] # "go" => e \in ChangedOnReturn(Body, n)
  OBVIOUS
<1>1. e \in Seed
  BY DEF TypeOK
<1>2. CASE e \in altered
  <2>1. e \in Changed(Body, n)
    BY <1>2 DEF InTheOpen
  <2>2. ~Restores(Body, n, e)
    BY <1>2, RestoredIsBack
  <2>3. ASSUME step.ret[a[1]] # "go", step.ret[0] = "go" PROVE ~Disproves(step, e)
    BY <1>2, <2>3, RefusalDisproves
  <2> QED
    BY <2>1, <2>2, <2>3, ChangedNext DEF ChangedOnReturn
<1>3. CASE e \notin altered
  <2>1. e \in AltersAt(Body, n)
    BY <1>3, ConformantEffect DEF AltersAt
  <2>2. a[1] = 0
    BY <1>3, ConformantEffect, ConformantAnswer
  <2> QED
    BY <1>1, <2>1, <2>2, ChangedNext DEF ChangedOnReturn
<1> QED
  BY <1>2, <1>3

LEMMA AdminAfterStep ==
  ASSUME TypeOK, phase = "running", NEW n \in Nat \ {0}, InTheOpen(n),
         step = Body[n], step.kind # "try", step.req \in Requests,
         NEW a \in Conformant(step.req), Served(step.req, a[2]), AsAdmin(Body, n + 1)
  PROVE  identity' = "admin"
<1>1. CASE Rebinds(step) /\ step.req = Bind("admin")
  <2>1. "admin" \notin altered
    BY DisciplineAssumption DEF TypeOK
  <2> QED
    BY <1>1, <2>1, BindSucceeds
<1>2. CASE ~Rebinds(step) /\ AsAdmin(Body, n)
  BY <1>2, ServedSession DEF InTheOpen
<1> QED
  BY <1>1, <1>2, AdminNext

\* An answer of a conformant server before the try block: the next step of the
\* script, or the steps before an early return, which leave nothing.
LEMMA CallInTheOpen ==
  ASSUME TypeOK, TypeOK', Call, Seed \subseteq present,
         NEW n \in 1..(Len(Body) + 1), InTheOpen(n)
  PROVE  /\ Seed \subseteq present'
         /\ \/ InTheOpen(n + 1)' /\ n + 1 \in 1..(Len(Body) + 1)
            \/ CleaningUp' /\ Extra' = {}
<1>1. phase = "running" /\ todo # <<>> /\ step.kind # "try"
  BY DEF Call, Calling
<1>2. PICK a \in Conformant(step.req) : Answered(a[1], a[2])
  BY DEF Call
<1>3. /\ n \in 1..Len(Body) /\ n \in Nat \ {0} /\ n \in DOMAIN Body
      /\ step = Body[n] /\ step \in AnySteps /\ step.req \in Requests
      /\ Len(Tail(todo)) = Len(Body) + 1 - (n + 1)
      /\ \A i \in DOMAIN Tail(todo) : Tail(todo)[i] = Body[(n + 1) - 1 + i]
  BY <1>1, OpenStep
<1>4. Effect(step.req, a[2]) /\ Served(step.req, a[2]) /\ Continue(a[1]) /\ Body' = Body
  BY <1>2 DEF Answered, Body
<1>5. Outside(Body, n) /\ final = <<>>
  BY DEF InTheOpen
<1>6. /\ SparesSeed(step.req)
      /\ Returns(step) => /\ LeftOnReturn(Body, n) = {} /\ ChangedOnReturn(Body, n) = {}
                          /\ Tidy(step.undo)
  BY <1>1, <1>3, <1>5, BodyTyped DEF Disciplined
<1>7. Seed \subseteq present'
  BY <1>3, <1>4, <1>6, ConformantEffect
<1>8. /\ Extra' \subseteq Left(Body, n + 1)
      /\ step.ret[a[1]] # "go" => Extra' \subseteq LeftOnReturn(Body, n)
  BY <1>1, <1>3, <1>4, LeftAfterStep
<1>9. /\ altered' \subseteq Changed(Body, n + 1)
      /\ step.ret[a[1]] # "go" => altered' \subseteq ChangedOnReturn(Body, n)
  BY <1>1, <1>3, <1>4, ChangedAfterStep
<1>10. CASE todo' = Tail(todo)
  <2>1. Outside(Body, n + 1)
    <3>1. \A t \in 1..((n + 1) - 1) : t \in 1..(n - 1) \/ t = n
      BY <1>3
    <3> QED
      BY <1>1, <1>3, <1>5, <3>1 DEF Outside
  <2>2. AsAdmin(Body, n + 1) => identity' = "admin"
    BY <1>1, <1>3, <1>4, AdminAfterStep
  <2>3. final' = <<>>
    BY <1>4, <1>5 DEF Continue
  <2>4. n + 1 \in 1..(Len(Body) + 1)
    BY <1>1, <1>3, BodyTyped
  <2> QED
    BY <1>3, <1>4, <1>7, <1>8, <1>9, <1>10, <2>1, <2>2, <2>3, <2>4 DEF InTheOpen
<1>11. CASE todo' # Tail(todo)
  <2>1. step.ret[a[1]] # "go" /\ step.stop /\ todo' = step.undo /\ final' = <<>>
    BY <1>4, <1>5, <1>11 DEF Continue
  <2>2. Returns(step)
    BY <2>1, <1>3, ConformantAnswer DEF Returns
  <2>3. Extra' = {} /\ altered' = {} /\ Tidy(todo')
    BY <1>6, <1>8, <1>9, <2>1, <2>2
  <2> QED
    BY <1>7, <2>1, <2>3 DEF CleaningUp
<1> QED
  BY <1>10, <1>11

-----------------------------------------------------------------------------
\* A step of a try block, whatever the server answers and does.

LEMMA BoundedEffect ==
  ASSUME NEW st \in AnySteps, NEW clause, Bounded(st, clause), NEW applied \in BOOLEAN,
         Effect(st.req, applied), Served(st.req, applied),
         Seed \subseteq present, link # "dead",
         Extra \subseteq Wiped(clause), altered = {}, identity = "admin"
  PROVE  /\ Seed \subseteq present' /\ link' # "dead"
         /\ Extra' \subseteq Wiped(clause) /\ altered' = {} /\ identity' = "admin"
<1>1. identity' = identity /\ link' # "dead"
  BY ServedSession DEF Bounded
<1>2. CASE ~applied
  BY <1>1, <1>2 DEF Effect, directory, Extra
<1>3. CASE applied
  <2>1. present' \subseteq present \cup Entries(st.req)
    BY <1>3 DEF Effect, Entries
  <2>2. Seed \subseteq present'
    BY <1>3 DEF Effect, Bounded
  <2>3. altered' = {}
    BY <1>3 DEF Effect, Bounded
  <2> QED
    BY <1>1, <2>1, <2>2, <2>3 DEF Extra, Bounded
<1> QED
  BY <1>2, <1>3

LEMMA HeadAndTail ==
  ASSUME NEW S, NEW q \in Seq(S), q # <<>>
  PROVE  /\ 1 \in DOMAIN q /\ Head(q) = q[1]
         /\ \A i \in DOMAIN Tail(q) : i + 1 \in DOMAIN q /\ Tail(q)[i] = q[i + 1]
         /\ \A i \in DOMAIN q : i # 1 => i - 1 \in DOMAIN Tail(q) /\ Tail(q)[i - 1] = q[i]
OBVIOUS

LEMMA AnswerGuarded ==
  ASSUME TypeOK, Call \/ Deviate \/ Raise, Guarded, Seed \subseteq present, link # "dead"
  PROVE  Seed \subseteq present' /\ link' # "dead" /\ Guarded'
<1>1. todo # <<>> /\ todo \in Seq(AnySteps) /\ step \in AnySteps
  BY StepTyped DEF Call, Deviate, Raise, Calling, TypeOK
<1>2. Bounded(step, final) /\ \A i \in DOMAIN Tail(todo) : Bounded(Tail(todo)[i], final)
  BY <1>1, HeadAndTail DEF Guarded, step
<1>3. /\ \E applied \in BOOLEAN : Effect(step.req, applied) /\ Served(step.req, applied)
      /\ todo' = Tail(todo) \/ DOMAIN todo' = {}
      /\ final' = final
  <2>1. CASE Call \/ Deviate
    BY <1>2, <2>1, AnAnswer DEF Answered, Continue, Bounded
  <2>2. CASE Raise
    BY <2>2 DEF Raise
  <2> QED
    BY <2>1, <2>2
<1>4. PICK applied \in BOOLEAN : Effect(step.req, applied) /\ Served(step.req, applied)
  BY <1>3
<1>5. /\ Seed \subseteq present' /\ link' # "dead"
      /\ Extra' \subseteq Wiped(final) /\ altered' = {} /\ identity' = "admin"
  BY <1>1, <1>2, <1>4, BoundedEffect DEF Guarded
<1>6. \A i \in DOMAIN todo' : Bounded(todo'[i], final)
  <2>1. CASE todo' = Tail(todo)
    BY <1>2, <2>1
  <2>2. CASE DOMAIN todo' = {}
    BY <2>2
  <2> QED
    BY <1>3, <2>1, <2>2
<1> QED
  BY <1>3, <1>5, <1>6 DEF Guarded

-----------------------------------------------------------------------------
\* A step of a clause that cleans up, when the server is conformant: what it is
\* there to wipe is gone after it.

LEMMA CallCleaningUp ==
  ASSUME TypeOK, Call, CleaningUp, Seed \subseteq present
  PROVE  Seed \subseteq present' /\ CleaningUp' /\ (Extra = {} => Extra' = {})
<1>1. todo # <<>> /\ todo \in Seq(AnySteps) /\ step \in AnySteps /\ step.req \in Requests
      /\ step.kind # "try"
  BY StepTyped DEF Call, Calling, TypeOK
<1>2. PICK a \in Conformant(step.req) : Answered(a[1], a[2])
  BY DEF Call
<1>3. Effect(step.req, a[2]) /\ Served(step.req, a[2]) /\ Continue(a[1]) /\ a[1] \in Codes
  BY <1>1, <1>2, ConformantAnswer DEF Answered
<1>4. Tidies(step) /\ Tidy(Tail(todo))
  BY <1>1, HeadAndTail DEF CleaningUp, Tidy, step
<1>5. todo' = Tail(todo) /\ final' = <<>>
  BY <1>3, <1>4 DEF Continue, Tidies, Returns, CleaningUp
<1>6. Seed \subseteq present' /\ Extra' \subseteq Extra /\ altered' = {}
  BY <1>1, <1>3, <1>4, ConformantEffect DEF Tidies, Extra, CleaningUp
<1>7. ASSUME NEW e \in Extra'
      PROVE  e \in Wiped(Tail(todo)) /\ identity' = "admin" /\ KeepsIdentity(Tail(todo))
  <2>1. /\ e \in Extra /\ identity = "admin" /\ KeepsIdentity(todo)
        /\ e \notin Seed /\ Childless(e)
    BY <1>6, <1>7 DEF CleaningUp, Wiped
  <2>2. PICK i \in DOMAIN todo : For(todo[i], "delete", e)
    BY <1>6, <1>7 DEF CleaningUp, Wiped
  <2>3. i # 1
    <3>1. ASSUME i = 1 PROVE FALSE
      <4>1. For(step, "delete", e)
        BY <1>1, <2>2, <3>1, HeadAndTail DEF step
      <4>2. \A f \in present : Above(f) # e
        BY <2>1, NoneBelow
      <4>3. e \notin present'
        BY <1>1, <1>3, <2>1, <4>1, <4>2, DeleteSucceeds DEF Extra
      <4> QED
        BY <1>7, <4>3 DEF Extra
    <3> QED
      BY <3>1
  <2>4. i - 1 \in DOMAIN Tail(todo) /\ For(Tail(todo)[i - 1], "delete", e)
    BY <1>1, <2>2, <2>3, HeadAndTail
  <2>5. e \in Tail(todo)[i - 1].req.on
    BY <2>4 DEF For
  <2>6. ~Rebinds(step) /\ KeepsIdentity(Tail(todo))
    BY <1>1, <2>1, HeadAndTail DEF KeepsIdentity, step
  <2>7. identity' = "admin"
    BY <1>1, <1>3, <2>1, <2>6, ServedSession
  <2> QED
    BY <2>1, <2>4, <2>5, <2>6, <2>7 DEF Wiped
<1> QED
  BY <1>4, <1>5, <1>6, <1>7 DEF CleaningUp

-----------------------------------------------------------------------------
\* The steps of an assertion that are no request.

LEMMA StartCovered ==
  ASSUME TypeOK, Start, Sound'
  PROVE  Seed \subseteq present' /\ link' # "dead" /\ InTheOpen(1)' /\ 1 \in 1..(Len(Body') + 1)
<1>1. OnTheSeed /\ link # "dead"
  BY DEF Start, Sound
<1>2. /\ Body' = Table[cursor + 1].script /\ todo' = Body' /\ final' = <<>>
      /\ UNCHANGED <<present, altered, link>>
  BY DEF Start, Body, directory, session
<1>3. cursor + 1 \in 1..Len(Table)
  BY TableAssumption DEF Start, TypeOK
<1>4. Body' \in Seq(AnySteps)
  BY <1>2, <1>3, ScriptTyped
<1>5. 1..(1 - 1) = {} /\ Len(Body') \in Nat /\ \A i \in DOMAIN Body' : 1 - 1 + i = i
  BY <1>4
<1>6. ~AsAdmin(Body', 1) /\ Outside(Body', 1)
  BY <1>5 DEF AsAdmin, Outside
<1>7. Extra' = {} /\ altered' = {} /\ Seed \subseteq present'
  BY <1>1, <1>2 DEF OnTheSeed, directory, Extra
<1> QED
  BY <1>1, <1>2, <1>5, <1>6, <1>7 DEF InTheOpen

LEMMA TryIsGuarded ==
  ASSUME TypeOK, EnterTry, NEW n \in 1..(Len(Body) + 1), InTheOpen(n)
  PROVE  Guarded'
<1>1. phase = "running" /\ todo # <<>> /\ step.kind = "try"
      /\ todo' = Tail(todo) /\ final' = step.undo /\ UNCHANGED <<present, altered, identity>>
  BY DEF EnterTry, directory, session
<1>2. /\ n \in 1..Len(Body) /\ n \in DOMAIN Body /\ step = Body[n]
      /\ Len(Tail(todo)) = Len(Body) + 1 - (n + 1)
      /\ \A i \in DOMAIN Tail(todo) : Tail(todo)[i] = Body[(n + 1) - 1 + i]
  BY <1>1, OpenStep
<1>3. OpensTry(Body, n)
  BY <1>1, <1>2, BodyTyped DEF InTheOpen, Disciplined
<1>4. ASSUME NEW i \in DOMAIN Tail(todo) PROVE Bounded(Tail(todo)[i], step.undo)
  <2>1. Tail(todo) \in Seq(AnySteps) /\ Len(Body) \in Nat
    BY <1>1, StepTyped, BodyTyped
  <2>2. i \in 1..Len(Tail(todo))
    BY <2>1
  <2>3. (n + 1) - 1 + i \in (n + 1)..Len(Body)
    BY <1>2, <2>1, <2>2
  <2> QED
    BY <1>2, <1>3, <2>3 DEF OpensTry
<1> QED
  BY <1>1, <1>2, <1>3, <1>4 DEF OpensTry, Guarded, InTheOpen, Extra

LEMMA FinallyCleansUp ==
  ASSUME Finally, Guarded
  PROVE  CleaningUp'
BY DEF Finally, Guarded, CleaningUp, directory, session, Extra

LEMMA ReturnOnTheSeed ==
  ASSUME TypeOK, Return, Covered, Sound
  PROVE  OnTheSeed
<1>1. todo = <<>> /\ final = <<>> /\ phase = "running"
  BY DEF Return
<1>2. Seed \subseteq present
  BY <1>1 DEF Covered, Secure
<1>3. ASSUME Extra = {}, altered = {} PROVE OnTheSeed
  BY <1>2, <1>3 DEF Extra, OnTheSeed, directory
<1>4. ASSUME NEW n \in 1..(Len(Body) + 1), InTheOpen(n) PROVE OnTheSeed
  <2>1. n = Len(Body) + 1
    BY <1>1, <1>4, BodyTyped DEF InTheOpen
  <2>2. Left(Body, n) = {} /\ Changed(Body, n) = {}
    BY <1>1, <1>4, <2>1, BodyTyped DEF InTheOpen, Disciplined
  <2> QED
    BY <1>3, <1>4, <2>2 DEF InTheOpen
<1>5. ASSUME CleaningUp PROVE OnTheSeed
  <2>1. Wiped(todo) = {}
    BY <1>1 DEF Wiped
  <2> QED
    BY <1>3, <1>5, <2>1 DEF CleaningUp
<1> QED
  BY <1>1, <1>4, <1>5 DEF Covered, Secure, Guarded

-----------------------------------------------------------------------------
\* The invariant.

THEOREM InitCovered == Init => Covered /\ Intact /\ Unstained
  BY DEF Init, Covered, Ended, Intact, OnTheSeed, directory, Unstained

\* What an assertion may still say of itself is what it could say before.
LEMMA SoundBefore ==
  ASSUME Call \/ Deviate \/ Raise \/ EnterTry \/ Finally, Sound'
  PROVE  Sound
BY DEF Call, Deviate, Raise, EnterTry, Finally, Sound

LEMMA DeviationIsGuarded ==
  ASSUME TypeOK, Covered, Deviate \/ Raise, Sound'
  PROVE  Guarded /\ Seed \subseteq present /\ link # "dead"
<1>1. phase = "running" /\ Sound
  BY SoundBefore DEF Deviate, Raise, Calling
<1>2. Seed \subseteq present /\ link # "dead"
  BY <1>1 DEF Covered, Secure
<1>3. Deviation \subseteq facts'
  <2>1. CASE Deviate
    BY <2>1 DEF Deviate
  <2>2. CASE Raise
    BY <1>2, <2>2 DEF Raise
  <2> QED
    BY <2>1, <2>2
<1>4. final # <<>>
  BY <1>3 DEF Deviation, Sound
<1> QED
  BY <1>1, <1>2, <1>4 DEF Covered, Secure, InTheOpen, CleaningUp

LEMMA RequestCovered ==
  ASSUME TypeOK, TypeOK', Covered, Call \/ Deviate \/ Raise
  PROVE  Covered'
<1>1. phase = "running" /\ phase' = "running"
  BY DEF Call, Deviate, Raise, Calling, Answered
<1> SUFFICES ASSUME Sound' PROVE Secure'
  BY <1>1 DEF Covered, Ended
<1>2. Sound /\ Secure
  BY <1>1, SoundBefore DEF Covered
<1>3. CASE Guarded
  BY <1>2, <1>3, AnswerGuarded DEF Secure
<1>4. CASE Deviate \/ Raise
  BY <1>4, AnswerGuarded, DeviationIsGuarded DEF Secure
<1>5. ASSUME Call, NEW n \in 1..(Len(Body) + 1), InTheOpen(n) PROVE Secure'
  <2>1. link' # "dead"
    BY <1>2, <1>5, ServedSession DEF Call, Calling, Answered, Secure
  <2>2. Body' = Body
    BY <1>5 DEF Call, Answered, Body
  <2>3. /\ Seed \subseteq present'
        /\ (InTheOpen(n + 1)' /\ n + 1 \in 1..(Len(Body) + 1)) \/ CleaningUp'
    BY <1>2, <1>5, CallInTheOpen DEF Secure
  <2> QED
    BY <2>1, <2>2, <2>3 DEF Secure
<1>6. ASSUME Call, CleaningUp PROVE Secure'
  <2>1. link' # "dead"
    BY <1>2, <1>6, ServedSession DEF Call, Calling, Answered, Secure
  <2> QED
    BY <1>2, <1>6, <2>1, CallCleaningUp DEF Secure
<1> QED
  BY <1>2, <1>3, <1>4, <1>5, <1>6 DEF Secure

THEOREM StepCovered == TypeOK /\ Covered /\ [Next]_vars => Covered'
<1> SUFFICES ASSUME TypeOK, Covered, [Next]_vars PROVE Covered'
  OBVIOUS
<1>0. TypeOK'
  BY StepTypeOK
<1>1. CASE Probe \/ PassOver \/ NewRun
  BY <1>1 DEF Probe, PassOver, NewRun, Covered, Ended
<1>2. CASE Start
  <2>1. phase' = "running"
    BY <1>2 DEF Start
  <2> QED
    BY <1>2, <2>1, StartCovered DEF Covered, Secure, Ended
<1>3. CASE Drop
  BY <1>3 DEF Drop, Covered, Sound, Ended, OnTheSeed, directory
<1>4. CASE Call \/ Deviate \/ Raise
  BY <1>0, <1>4, RequestCovered
<1>5. CASE EnterTry
  <2>1. phase = "running" /\ phase' = "running" /\ UNCHANGED <<present, link>>
    BY <1>5 DEF EnterTry, directory, session
  <2>2. ASSUME Sound' PROVE Guarded' /\ Secure
    <3>1. Secure
      BY <1>5, <2>1, <2>2, SoundBefore DEF Covered
    <3>2. todo \in Seq(AnySteps) /\ todo # <<>> /\ step.kind = "try"
      BY <1>5 DEF EnterTry, TypeOK
    <3>3. ~Guarded /\ ~CleaningUp
      BY <3>2, HeadAndTail DEF Guarded, CleaningUp, Bounded, Tidy, Tidies, step
    <3> QED
      BY <1>5, <3>1, <3>3, TryIsGuarded DEF Secure
  <2> QED
    BY <2>1, <2>2 DEF Covered, Secure, Ended
<1>6. CASE Finally
  <2>1. phase = "running" /\ phase' = "running" /\ UNCHANGED <<present, link>> /\ final # <<>>
    BY <1>6 DEF Finally, directory, session
  <2>2. ASSUME Sound' PROVE CleaningUp' /\ Secure
    <3>1. Secure
      BY <1>6, <2>1, <2>2, SoundBefore DEF Covered
    <3>2. Guarded
      BY <2>1, <3>1 DEF Secure, InTheOpen, CleaningUp
    <3> QED
      BY <1>6, <3>1, <3>2, FinallyCleansUp
  <2> QED
    BY <2>1, <2>2 DEF Covered, Secure, Ended
<1>7. CASE Return
  BY <1>7, ReturnOnTheSeed DEF Return, Covered, Ended, Sound, OnTheSeed, directory
<1>8. CASE UNCHANGED vars
  BY <1>8 DEF vars, Covered, Secure, Sound, Ended, OnTheSeed, directory, InTheOpen, Guarded,
              CleaningUp, Extra, Body
<1> QED
  BY <1>1, <1>2, <1>3, <1>4, <1>5, <1>6, <1>7, <1>8 DEF Next

THEOREM StepIntact == TypeOK /\ Covered /\ Intact /\ [Next]_vars => Intact'
<1> SUFFICES ASSUME TypeOK, Covered, Intact, [Next]_vars, faults' = 0 PROVE Intact'
  BY DEF Intact
<1>0. faults \in Nat
  BY BoundsAssumption DEF TypeOK
<1>1. CASE Probe \/ PassOver \/ NewRun
  BY <1>1 DEF Probe, PassOver, NewRun, Intact, OnTheSeed, directory, session
<1>2. CASE Start
  BY <1>2 DEF Start, Intact, Sound, OnTheSeed, directory, session
<1>3. CASE Drop \/ Deviate
  BY <1>0, <1>3 DEF Drop, Deviate
<1>4. CASE Call
  <2>1. PICK applied : Served(step.req, applied)
    BY <1>4 DEF Call, Answered
  <2>2. link # "dead" => link' # "dead"
    BY <1>4, <2>1, ServedSession DEF Call, Calling
  <2> QED
    BY <1>4, <2>2 DEF Call, Calling, Answered, Intact, Sound, Bearing
<1>5. CASE Raise
  BY <1>0, <1>5 DEF Raise, Calling, Intact
<1>6. CASE EnterTry \/ Finally
  BY <1>6 DEF EnterTry, Finally, Intact, Sound, session
<1>7. CASE Return
  BY <1>7, ReturnOnTheSeed DEF Return, Intact, OnTheSeed, directory, session
<1>8. CASE UNCHANGED vars
  BY <1>8 DEF vars, Intact, Sound, OnTheSeed, directory
<1> QED
  BY <1>1, <1>2, <1>3, <1>4, <1>5, <1>6, <1>7, <1>8 DEF Next

\* What an innocent script may have left, and altered.
LEMMA InnocentLeavesNothing ==
  ASSUME TypeOK, phase = "running", Innocent(Table[cursor]), NEW n \in 1..(Len(Body) + 1)
  PROVE  /\ Left(Body, n) = {}
         /\ Changed(Body, n) # {} => Changed(Body, n) = {"bob"} /\ Table[cursor].id = "3062.2.1"
<1>1. \A k \in 1..(n - 1) : k \in DOMAIN Body
  BY BodyTyped
<1>2. \A k \in 1..(n - 1) :
        /\ Makes(Body, k) = {}
        /\ AltersAt(Body, k) # {} => Table[cursor].id = "3062.2.1" /\ AltersAt(Body, k) = {"bob"}
  BY <1>1 DEF Innocent, Body
<1>3. Left(Body, n) = {}
  BY <1>2 DEF Left
<1>4. ASSUME NEW e \in Changed(Body, n) PROVE e = "bob" /\ Table[cursor].id = "3062.2.1"
  BY <1>2 DEF Changed
<1> QED
  BY <1>3, <1>4

THEOREM StepUnstained == TypeOK /\ Covered /\ Unstained /\ [Next]_vars => Unstained'
<1> SUFFICES ASSUME TypeOK, Covered, Unstained, [Next]_vars,
                    phase' = "running", Sound', Innocent(Table[cursor])'
             PROVE  final' = <<>> /\ Extra' = {}
  BY DEF Unstained
<1>0. TypeOK'
  BY StepTypeOK
<1>1. CASE Probe \/ PassOver \/ NewRun \/ Return
  BY <1>1 DEF Probe, PassOver, NewRun, Return
<1>2. CASE Start
  BY <1>2 DEF Start, Sound, OnTheSeed, directory, Extra
<1>3. CASE Drop
  BY <1>3 DEF Drop, Sound
<1>4. CASE Call \/ Deviate \/ Raise \/ EnterTry \/ Finally
  <2>1. phase = "running" /\ cursor' = cursor
    BY <1>4 DEF Call, Deviate, Raise, EnterTry, Finally, Calling, Answered
  <2>2. Sound /\ Innocent(Table[cursor]) /\ final = <<>> /\ Extra = {} /\ Secure
    BY <1>4, <2>1, SoundBefore DEF Unstained, Covered
  <2>3. Seed \subseteq present /\ Body' = Body
    BY <2>1, <2>2 DEF Secure, Body
  <2>4. CASE Deviate \/ Raise
    <3>1. Guarded
      BY <2>1, <2>2, <2>4, DeviationIsGuarded
    <3> QED
      BY <2>2, <3>1 DEF Guarded
  <2>5. CASE Call
    <3>1. final' = <<>>
      BY <2>2, <2>5 DEF Call, Answered, Continue
    <3>2. CASE CleaningUp
      BY <2>3, <2>5, <3>1, <3>2, <2>2, CallCleaningUp
    <3>3. ASSUME NEW n \in 1..(Len(Body) + 1), InTheOpen(n) PROVE Extra' = {}
      <4>1. CASE InTheOpen(n + 1)' /\ n + 1 \in 1..(Len(Body) + 1)
        <5>1. Left(Body, n + 1) = {}
          BY <2>1, <2>2, <4>1, InnocentLeavesNothing
        <5> QED
          BY <2>3, <4>1, <5>1 DEF InTheOpen
      <4>2. \/ InTheOpen(n + 1)' /\ n + 1 \in 1..(Len(Body) + 1)
            \/ Extra' = {}
        BY <1>0, <2>3, <2>5, <3>3, CallInTheOpen
      <4> QED
        BY <4>1, <4>2
    <3> QED
      BY <2>2, <3>1, <3>2, <3>3 DEF Secure, Guarded
  <2>6. CASE EnterTry
    <3>0. todo # <<>> /\ step.kind = "try"
      BY <2>6 DEF EnterTry
    <3>1. ASSUME NEW n \in 1..(Len(Body) + 1), InTheOpen(n) PROVE FALSE
      <4>1. n \in DOMAIN Body /\ step = Body[n]
        BY <2>1, <3>0, <3>1, OpenStep
      <4>2. Body[n].kind # "try"
        BY <2>2, <4>1 DEF Innocent, Body
      <4> QED
        BY <3>0, <4>1, <4>2
    <3>2. ~CleaningUp
      <4>1. todo \in Seq(AnySteps)
        BY DEF TypeOK
      <4> QED
        BY <3>0, <4>1, HeadAndTail DEF CleaningUp, Tidy, Tidies, step
    <3> QED
      BY <2>2, <3>1, <3>2 DEF Secure, Guarded
  <2>7. CASE Finally
    BY <2>2, <2>7 DEF Finally
  <2> QED
    BY <1>4, <2>4, <2>5, <2>6, <2>7
<1>5. CASE UNCHANGED vars
  BY <1>5 DEF vars, Unstained, Sound, Extra
<1> QED
  BY <1>1, <1>2, <1>3, <1>4, <1>5 DEF Next

-----------------------------------------------------------------------------
\* The theorems.

LEMMA Invariants == Spec => [](TypeOK /\ AllowedToRun /\ Covered /\ Intact /\ Unstained)
<1>1. Init => TypeOK /\ AllowedToRun /\ Covered /\ Intact /\ Unstained
  BY InitTyped, InitAllowed, InitCovered
<1>2. /\ TypeOK /\ AllowedToRun /\ Covered /\ Intact /\ Unstained /\ [Next]_vars
      => TypeOK' /\ AllowedToRun' /\ Covered' /\ Intact' /\ Unstained'
  BY StepTypeOK, StepAllowed, StepCovered, StepIntact, StepUnstained
<1> QED
  BY <1>1, <1>2, PTL DEF Spec

\* At every step of every assertion, whatever the server did in a try block, what
\* was made so far is going to be removed by what is still to be done.
THEOREM AlwaysCovered == Spec => []Covered
  BY Invariants, PTL

\* CHANGELOG.md, "Full runs leave the seed intact": on a conformant server, for every
\* registry that follows the discipline and every selection from it, each assertion
\* and each run ends on the directory that the first one found.
THEOREM SeedStaysIntact == Spec => []SeedIntact
<1>1. Covered /\ Intact => SeedIntact
  BY DEF Intact, SeedIntact
<1> QED
  BY <1>1, Invariants, PTL

\* A try block whose finally clause wipes all that the block may make leaves nothing,
\* however often the server deviates in it: wrong codes, effects that contradict
\* them, exceptions.
THEOREM FinallyAlwaysCleans == Spec => []FinallyCleans
<1>1. Covered => FinallyCleans
  BY DEF Covered, FinallyCleans, Sound
<1> QED
  BY <1>1, Invariants, PTL

\* A conformant server that was not declared writable keeps every entry it had, at
\* every step; only 3062.2.1 may have changed bob's password meanwhile.
THEOREM ReadOnlyStaysUntouched == Spec => []ReadOnlyUntouched
<1>1. TypeOK /\ AllowedToRun /\ Covered /\ Intact /\ Unstained => ReadOnlyUntouched
  <2> SUFFICES ASSUME TypeOK, AllowedToRun, Covered, Intact, Unstained, ~writable, faults = 0
               PROVE  /\ present = Seed /\ altered \subseteq {"bob"}
                      /\ phase = "running" /\ altered # {} => Table[cursor].id = "3062.2.1"
    BY DEF ReadOnlyUntouched
  <2>1. CASE phase # "running"
    BY <2>1 DEF Intact, OnTheSeed, directory
  <2>2. CASE phase = "running"
    <3>1. Sound /\ Secure /\ Innocent(Table[cursor])
      BY <2>2, BodyTyped DEF Intact, Covered, AllowedToRun
    <3>2. final = <<>> /\ Extra = {} /\ present = Seed
      BY <2>2, <3>1 DEF Unstained, Secure, Extra
    <3>3. ASSUME NEW n \in 1..(Len(Body) + 1), InTheOpen(n)
          PROVE  altered \subseteq {"bob"} /\ (altered # {} => Table[cursor].id = "3062.2.1")
      BY <2>2, <3>1, <3>3, InnocentLeavesNothing DEF InTheOpen
    <3> QED
      BY <3>1, <3>2, <3>3 DEF Secure, Guarded, CleaningUp
  <2> QED
    BY <2>1, <2>2
<1> QED
  BY <1>1, Invariants, PTL

-----------------------------------------------------------------------------
\* What a FAIL may mean.

\* A set of natural numbers that is not empty has a least one.
LEMMA LeastNumber ==
  ASSUME NEW T \in SUBSET Nat, T # {}
  PROVE  \E m \in T : \A j \in T : m <= j
<1> DEFINE R == OpToRel(<, Nat)
<1>1. IsWellFoundedOn(R, Nat)
  BY NatLessThanWellFounded
<1>2. \A x, y \in Nat : x < y => <<x, y>> \in R
  BY DEF OpToRel
<1> HIDE DEF R
<1>3. PICK m \in T : \A j \in T : ~(<<j, m>> \in R)
  BY <1>1, WFMin
<1>4. ASSUME NEW j \in T PROVE m <= j
  <2>1. m \in Nat /\ j \in Nat
    OBVIOUS
  <2>2. ~(j < m)
    BY <1>2, <1>3, <2>1, Zenon
  <2> QED
    BY <2>1, <2>2
<1> QED
  BY <1>4

\* What is known of a script: before its first step what it begins with, and after
\* each step what that adds.
LEMMA KnownUnfolds ==
  ASSUME NEW s, Len(s) \in Nat, NEW start
  PROVE  /\ Known(s, start)[0] = start
         /\ \A n \in 1..Len(s) : Known(s, start)[n] = After(Known(s, start)[n - 1], s[n])
<1> DEFINE N == Len(s)
           Unfolds(m, g) ==
             g = [n \in 0..m |-> IF n = 0 THEN start ELSE After(g[n - 1], s[n])]
           Missing == {m \in 0..N : ~ \E g : Unfolds(m, g)}
<1>1. Missing = {}
  <2> SUFFICES ASSUME Missing # {} PROVE FALSE
    OBVIOUS
  <2>1. PICK m \in Missing : \A j \in Missing : m <= j
    <3>1. Missing \in SUBSET Nat
      OBVIOUS
    <3> HIDE DEF Missing
    <3> QED
      BY <3>1, LeastNumber
  <2>2. m \in 0..N /\ ~ \E g : Unfolds(m, g)
    BY <2>1
  <2>3. CASE m = 0
    <3> DEFINE f == [n \in 0..0 |-> start]
    <3>1. Unfolds(0, f)
      <4>1. \A n \in 0..0 : n = 0
        OBVIOUS
      <4> QED
        BY <4>1
    <3> HIDE DEF Unfolds, f
    <3> QED
      BY <2>2, <2>3, <3>1
  <2>4. CASE m # 0
    <3>1. m - 1 \in 0..N /\ m - 1 \notin Missing /\ m \in 1..N
      <4>1. m - 1 \in 0..N /\ m \in 1..N /\ ~(m <= m - 1)
        BY <2>2, <2>4
      <4> HIDE DEF Missing
      <4> QED
        BY <2>1, <4>1
    <3>2. PICK g : Unfolds(m - 1, g)
      BY <3>1
    <3> DEFINE f == [n \in 0..m |-> IF n = m THEN After(g[m - 1], s[m]) ELSE g[n]]
    <3>3. \A n \in 0..(m - 1) :
            f[n] = g[n] /\ g[n] = IF n = 0 THEN start ELSE After(g[n - 1], s[n])
      <4>1. \A n \in 0..(m - 1) : n \in 0..m /\ n # m
        BY <3>1
      <4>2. \A n \in 0..(m - 1) : g[n] = IF n = 0 THEN start ELSE After(g[n - 1], s[n])
        BY <3>2
      <4> QED
        BY <4>1, <4>2
    <3>4. ASSUME NEW n \in 0..m
          PROVE  f[n] = IF n = 0 THEN start ELSE After(f[n - 1], s[n])
      <4>1. CASE n = m
        <5>1. f[n] = After(g[n - 1], s[n]) /\ n # 0 /\ n - 1 \in 0..(m - 1)
          BY <4>1, <3>1
        <5>2. f[n - 1] = g[n - 1]
          BY <5>1, <3>3
        <5> QED
          BY <5>1, <5>2
      <4>2. CASE n # m
        <5>1. n \in 0..(m - 1)
          BY <3>1, <4>2
        <5>2. n = 0 \/ n - 1 \in 0..(m - 1)
          BY <5>1, <3>1
        <5> QED
          BY <5>1, <5>2, <3>3
      <4> QED
        BY <4>1, <4>2
    <3>5. Unfolds(m, f)
      BY <3>4
    <3> HIDE DEF Unfolds, f
    <3> QED
      BY <2>2, <3>5
  <2> QED
    BY <2>3, <2>4
<1>2. \E g : Unfolds(N, g)
  BY <1>1
<1>3. Unfolds(N, Known(s, start))
  <2>1. Known(s, start) = CHOOSE g : Unfolds(N, g)
    BY DEF Known
  <2> HIDE DEF Unfolds
  <2> QED
    BY <1>2, <2>1
<1> HIDE DEF Missing
<1> DEFINE known == Known(s, start)
<1> HIDE DEF known
<1>4. Unfolds(N, known)
  BY <1>3 DEF known
<1>5. \A n \in 0..N : known[n] = IF n = 0 THEN start ELSE After(known[n - 1], s[n])
  BY <1>4
<1>6. 0 \in 0..N /\ \A n \in 1..N : n \in 0..N /\ n # 0
  OBVIOUS
<1> QED
  BY <1>5, <1>6 DEF known

\* Whatever a request does, it leaves no more than litter.
LEMMA EffectLitters ==
  ASSUME NEW r \in AllSent, NEW applied \in BOOLEAN, Effect(r, applied),
         Seed \subseteq present, present \subseteq Seed \cup Litter, altered \subseteq Scribbles
  PROVE  /\ Seed \subseteq present' /\ present' \subseteq Seed \cup Litter
         /\ altered' \subseteq Scribbles
<1>1. Entries(r) \subseteq Litter
  BY DEF Litter
<1>2. r.kind \in {"modify", "setpw"} => r.on \cap Seed \subseteq Scribbles
  BY DEF Scribbles
<1>3. r.kind \in {"delete", "rename"} => r.on \cap Seed = {}
  BY BlamelessAssumption
<1>4. CASE ~applied
  BY <1>4 DEF Effect, directory
<1>5. CASE applied
  <2>1. altered' \subseteq Scribbles
    BY <1>2, <1>5 DEF Effect
  <2>2. CASE r.kind = "add"
    BY <1>1, <1>5, <2>1, <2>2 DEF Effect, Entries
  <2>3. CASE r.kind = "delete"
    BY <1>3, <1>5, <2>1, <2>3 DEF Effect
  <2>4. CASE r.kind = "rename"
    BY <1>1, <1>3, <1>5, <2>1, <2>4 DEF Effect, Entries
  <2>5. CASE r.kind \notin {"add", "delete", "rename"}
    BY <1>5, <2>1, <2>5 DEF Effect
  <2> QED
    BY <2>2, <2>3, <2>4, <2>5
<1> QED
  BY <1>4, <1>5

\* The steps of an undo or a clause have no undo of their own.
LEMMA PlainUndone ==
  ASSUME NEW s \in Seq(PlainSteps)
  PROVE  Undone(s) = {} /\ \A i \in DOMAIN s : s[i].undo = <<>>
<1>1. ASSUME NEW i \in DOMAIN s PROVE s[i].undo = <<>>
  <2>1. s[i] \in PlainSteps
    OBVIOUS
  <2> QED
    BY <2>1 DEF PlainSteps, StepsWith
<1>2. ASSUME NEW i \in DOMAIN s PROVE Sent(s[i].undo) = {}
  BY <1>1 DEF Sent
<1> QED
  BY <1>1, <1>2 DEF Undone

\* What is left of a script sends nothing else.
LEMMA TailSends ==
  ASSUME NEW S, NEW s \in Seq(S), s # <<>>
  PROVE  /\ Head(s).req \in Sent(s) /\ Sent(Head(s).undo) \subseteq Undone(s)
         /\ Sent(Tail(s)) \subseteq Sent(s) /\ Undone(Tail(s)) \subseteq Undone(s)
<1>1. /\ 1 \in DOMAIN s /\ Head(s) = s[1]
      /\ \A i \in DOMAIN Tail(s) : i + 1 \in DOMAIN s /\ Tail(s)[i] = s[i + 1]
  BY HeadAndTail
<1> QED
  BY <1>1 DEF Sent, Undone

\* The directory of the first run is the seed.
LEMMA InitLittered == Init => Littered
<1>1. Sent(<<>>) = {} /\ Undone(<<>>) = {}
  BY DEF Sent, Undone
<1> QED
  BY <1>1 DEF Init, Littered

\* Every step leaves the seed in place and adds only what some script sends.
LEMMA StepLittered == TypeOK /\ Littered /\ [Next]_vars => Littered'
<1> SUFFICES ASSUME TypeOK, Littered, [Next]_vars PROVE Littered'
  OBVIOUS
<1>0. Sent(<<>>) = {} /\ Undone(<<>>) = {}
  BY DEF Sent, Undone
<1>1. CASE Probe \/ PassOver \/ NewRun \/ Return \/ Drop
  BY <1>1 DEF Probe, PassOver, NewRun, Return, Drop, Littered, directory
<1>2. CASE Start
  <2>1. cursor + 1 \in DOMAIN Table
    BY <1>2, TableAssumption DEF Start, TypeOK
  <2>2. Sent(Table[cursor + 1].script) \cup Undone(Table[cursor + 1].script) \subseteq AllSent
    BY <2>1 DEF AllSent
  <2>3. todo' = Table[cursor + 1].script /\ final' = <<>> /\ UNCHANGED <<present, altered>>
    BY <1>2 DEF Start, directory
  <2> QED
    BY <1>0, <2>2, <2>3 DEF Littered
<1>3. CASE Call \/ Deviate
  <2>1. Calling /\ \E c : \E applied \in BOOLEAN : Answered(c, applied)
    BY <1>3, AnAnswer
  <2>8. PICK c : \E applied \in BOOLEAN : Answered(c, applied)
    BY <2>1
  <2>2. PICK applied \in BOOLEAN : Answered(c, applied)
    BY <2>8
  <2>3. todo # <<>> /\ todo \in Seq(AnySteps) /\ step.undo \in Seq(PlainSteps)
    BY <2>1, StepTyped DEF Calling, TypeOK
  <2>4. /\ step.req \in AllSent /\ Sent(step.undo) \subseteq AllSent
        /\ Sent(Tail(todo)) \subseteq AllSent /\ Undone(Tail(todo)) \subseteq AllSent
    BY <2>3, TailSends DEF Littered, step
  <2>5. Undone(step.undo) = {}
    BY <2>3, PlainUndone
  <2>6. Effect(step.req, applied) /\ (todo' = Tail(todo) \/ todo' = step.undo) /\ final' = final
    BY <2>2 DEF Answered, Continue
  <2>7. /\ Seed \subseteq present' /\ present' \subseteq Seed \cup Litter
        /\ altered' \subseteq Scribbles
    BY <2>4, <2>6, EffectLitters DEF Littered
  <2> QED
    BY <2>4, <2>5, <2>6, <2>7 DEF Littered
<1>4. CASE Raise
  <2>1. todo # <<>> /\ todo \in Seq(AnySteps)
    BY <1>4 DEF Raise, Calling, TypeOK
  <2>2. /\ step.req \in AllSent
        /\ Sent(Tail(todo)) \subseteq AllSent /\ Undone(Tail(todo)) \subseteq AllSent
    BY <2>1, TailSends DEF Littered, step
  <2>3. /\ Seed \subseteq present' /\ present' \subseteq Seed \cup Litter
        /\ altered' \subseteq Scribbles
    <3>1. CASE UNCHANGED directory
      BY <3>1 DEF Littered, directory
    <3>2. CASE \E applied \in BOOLEAN : Effect(step.req, applied)
      BY <2>2, <3>2, EffectLitters DEF Littered
    <3> QED
      BY <1>4, <3>1, <3>2 DEF Raise
  <2>4. (todo' = Tail(todo) \/ todo' = <<>>) /\ final' = final
    BY <1>4 DEF Raise
  <2> QED
    BY <1>0, <2>2, <2>3, <2>4 DEF Littered
<1>5. CASE EnterTry
  <2>1. todo # <<>> /\ todo \in Seq(AnySteps)
    BY <1>5 DEF EnterTry, TypeOK
  <2>2. /\ Sent(step.undo) \subseteq AllSent
        /\ Sent(Tail(todo)) \subseteq AllSent /\ Undone(Tail(todo)) \subseteq AllSent
    BY <2>1, TailSends DEF Littered, step
  <2> QED
    BY <1>5, <2>2 DEF EnterTry, Littered, directory
<1>6. CASE Finally
  <2>1. Undone(final) = {}
    BY PlainUndone DEF TypeOK
  <2> QED
    BY <1>0, <1>6, <2>1 DEF Finally, Littered, directory
<1>7. CASE UNCHANGED vars
  BY <1>7 DEF vars, Littered
<1> QED
  BY <1>1, <1>2, <1>3, <1>4, <1>5, <1>6, <1>7 DEF Next

\* A server has no objection that is not foreseen, and has one where one is due.
LEMMA ObjectionsForeseen ==
  ASSUME NEW r \in Requests, NEW k, Holds(k), Unbound(k, r) => anonReads
  PROVE  /\ Objections(r) \subseteq MayObject(k, r)
         /\ MustObject(k, r) => Objections(r) # {}
<1>1. Who(r) \in Whos(k, r)
  BY DEF Holds, Who, Whos
<1>2. /\ k.sure \subseteq present /\ present \subseteq k.may
      /\ k.changed \subseteq altered /\ altered \subseteq k.altered
  BY DEF Holds
<1>3. ASSUME NEW c \in Objections(r) PROVE c \in MayObject(k, r)
  <2>1. c \in {32, 49, 50, 66, 68}
    BY <1>3 DEF Objections
  <2>2. CASE c = 50
    <3>1. \/ r.kind \in Writes /\ Who(r) # "admin"
          \/ r.kind = "read" /\ Who(r) = "anonymous" /\ ~anonReads
      BY <1>3, <2>2 DEF Objections
    <3>2. \/ r.kind \in Writes /\ ~(Whos(k, r) \subseteq {"admin"})
          \/ r.kind = "read" /\ "anonymous" \in Whos(k, r) /\ ~Unbound(k, r)
      BY <1>1, <3>1
    <3> QED
      BY <2>2, <3>2 DEF MayObject
  <2>3. CASE c = 32
    <3>1. \/ r.kind \in (Writes \ {"add"}) \cup {"read"} /\ ~(r.on \subseteq present)
          \/ r.kind = "add" /\ \E e \in r.on : Above(e) \notin present
      BY <1>3, <2>3 DEF Objections
    <3>2. \/ r.kind \in (Writes \ {"add"}) \cup {"read"} /\ ~(r.on \subseteq k.sure)
          \/ r.kind = "add" /\ \E e \in r.on : Above(e) \notin k.sure
      BY <1>2, <3>1
    <3> QED
      BY <2>3, <3>2 DEF MayObject
  <2>4. CASE c = 66
    <3>1. r.kind = "delete" /\ \E f \in present : Above(f) \in r.on
      BY <1>3, <2>4 DEF Objections
    <3>2. \E f \in k.may : Above(f) \in r.on
      BY <1>2, <3>1
    <3> QED
      BY <2>4, <3>1, <3>2 DEF MayObject
  <2>5. CASE c = 68
    <3>1. \/ r.kind = "add" /\ r.on \cap present # {}
          \/ r.kind = "rename" /\ r.to \in present
      BY <1>3, <2>5 DEF Objections
    <3>2. \/ r.kind = "add" /\ r.on \cap k.may # {}
          \/ r.kind = "rename" /\ r.to \in k.may
      BY <1>2, <3>1
    <3> QED
      BY <2>5, <3>2 DEF MayObject
  <2>6. CASE c = 49
    <3>1. r.kind = "bind" /\ ~Works(r.to)
      BY <1>3, <2>6 DEF Objections
    <3>2. \/ r.to = "bob-new" /\ "bob" \notin k.changed
          \/ r.to # "bob-new" /\ r.to \in k.altered
      BY <1>2, <3>1 DEF Works
    <3> QED
      BY <2>6, <3>1, <3>2 DEF MayObject
  <2> QED
    BY <2>1, <2>2, <2>3, <2>4, <2>5, <2>6
<1>4. ASSUME MustObject(k, r) PROVE \E c \in {32, 49, 66, 68} : c \in Objections(r)
  <2>1. CASE \/ r.kind \in (Writes \ {"add"}) \cup {"read"} /\ ~(r.on \subseteq k.may)
             \/ r.kind = "add" /\ \E e \in r.on : Above(e) \notin k.may
    <3>1. \/ r.kind \in (Writes \ {"add"}) \cup {"read"} /\ ~(r.on \subseteq present)
          \/ r.kind = "add" /\ \E e \in r.on : Above(e) \notin present
      BY <1>2, <2>1
    <3>2. 32 \in Objections(r)
      BY <3>1 DEF Objections
    <3> QED
      BY <3>2
  <2>2. CASE r.kind = "delete" /\ \E f \in k.sure : Above(f) \in r.on
    <3>1. \E f \in present : Above(f) \in r.on
      BY <1>2, <2>2
    <3>2. 66 \in Objections(r)
      BY <2>2, <3>1 DEF Objections
    <3> QED
      BY <3>2
  <2>3. CASE \/ r.kind = "add" /\ r.on \cap k.sure # {}
             \/ r.kind = "rename" /\ r.to \in k.sure
    <3>1. \/ r.kind = "add" /\ r.on \cap present # {}
          \/ r.kind = "rename" /\ r.to \in present
      BY <1>2, <2>3
    <3>2. 68 \in Objections(r)
      BY <3>1 DEF Objections
    <3> QED
      BY <3>2
  <2>4. CASE \/ r.kind = "bind" /\ r.to = "bob-new" /\ "bob" \notin k.altered
             \/ r.kind = "bind" /\ r.to # "bob-new" /\ r.to \in k.changed
    <3>1. r.kind = "bind" /\ ~Works(r.to)
      BY <1>2, <2>4 DEF Works
    <3>2. 49 \in Objections(r)
      BY <3>1 DEF Objections
    <3> QED
      BY <3>2
  <2> QED
    BY <1>4, <2>1, <2>2, <2>3, <2>4 DEF MustObject
<1> QED
  BY <1>3, <1>4

\* The code of a conformant server is an expected one.
LEMMA CodeExpected ==
  ASSUME NEW r \in Requests, NEW k, Holds(k), Unbound(k, r) => anonReads,
         NEW c \in ConformantCodes(r)
  PROVE  c \in Expected(k, r)
<1>1. Objections(r) \subseteq MayObject(k, r) /\ (MustObject(k, r) => Objections(r) # {})
  BY ObjectionsForeseen
<1>2. CASE Objections(r) # {}
  BY <1>1, <1>2 DEF ConformantCodes, Expected
<1>3. CASE Objections(r) = {}
  <2>1. ~MustObject(k, r)
    BY <1>1, <1>3
  <2>2. c \in r.codes \/ (c = 16 /\ r.kind = "read" /\ r.on \cap altered # {})
    BY <1>3 DEF ConformantCodes
  <2>3. r.on \cap altered # {} => r.on \cap k.altered # {}
    BY DEF Holds
  <2> QED
    BY <2>1, <2>2, <2>3 DEF Expected
<1> QED
  BY <1>2, <1>3

\* When the function goes on, what the answer it goes on after did.
LEMMA EffectKnown ==
  ASSUME NEW st, st.req \in Requests, NEW k, Holds(k), NEW a \in Conformant(st.req),
         a[1] \in Passing(k, st)
  PROVE  /\ a[2] => Can(k, st)
         /\ Must(k, st) => a[2]
         /\ Gone(k, st) /\ ~a[2] /\ st.req.kind \in {"delete", "rename"} =>
              st.req.on \cap present = {}
<1>1. (a[2] <=> a[1] = 0) /\ a[2] \in BOOLEAN /\ a[1] \in ConformantCodes(st.req)
  BY ConformantAnswer
<1>2. (a[2] => Can(k, st)) /\ (Must(k, st) => a[2])
  BY <1>1 DEF Can, Must
<1>3. ASSUME Gone(k, st), ~a[2], st.req.kind \in {"delete", "rename"}
      PROVE  st.req.on \cap present = {}
  <2>1. a[1] = 32 /\ st.req.codes = {0} /\ \A d, e \in st.req.on : d = e
    BY <1>1, <1>3 DEF Gone
  <2>2. 32 \in Objections(st.req)
    BY <1>1, <1>3, <2>1 DEF ConformantCodes
  <2>3. ~(st.req.on \subseteq present)
    BY <1>3, <2>2 DEF Objections
  <2> QED
    BY <2>1, <2>3
<1> QED
  BY <1>2, <1>3

\* The entries that are there afterwards are between those that surely are and
\* those that may be.
LEMMA PresentAfter ==
  ASSUME NEW st, st.req \in Requests, NEW k, Holds(k), NEW a \in Conformant(st.req),
         Effect(st.req, a[2]), a[1] \in Passing(k, st)
  PROVE  SureAfter(k, st) \subseteq present' /\ present' \subseteq MayAfter(k, st)
<1> DEFINE r == st.req
<1>1. k.sure \subseteq present /\ present \subseteq k.may
  BY DEF Holds
<1>2. /\ a[2] => Can(k, st)
      /\ Must(k, st) => a[2]
      /\ Gone(k, st) /\ ~a[2] /\ r.kind \in {"delete", "rename"} => r.on \cap present = {}
  BY EffectKnown
<1>3. CASE a[2]
  <2>1. Can(k, st)
    BY <1>2, <1>3
  <2>2. present' = CASE r.kind = "add" -> present \cup r.on
                     [] r.kind = "delete" -> present \ r.on
                     [] r.kind = "rename" -> (present \ r.on) \cup {r.to}
                     [] OTHER -> present
    BY <1>3 DEF Effect
  <2>3. CASE r.kind = "add"
    BY <1>1, <2>1, <2>2, <2>3 DEF MayAfter, SureAfter, When
  <2>4. CASE r.kind = "delete"
    BY <1>1, <2>1, <2>2, <2>4 DEF MayAfter, SureAfter, When
  <2>5. CASE r.kind = "rename"
    BY <1>1, <2>1, <2>2, <2>5 DEF MayAfter, SureAfter, When
  <2>6. CASE r.kind \notin {"add", "delete", "rename"}
    BY <1>1, <2>2, <2>6 DEF MayAfter, SureAfter
  <2> QED
    BY <2>3, <2>4, <2>5, <2>6
<1>4. CASE ~a[2]
  <2>1. ~Must(k, st)
    BY <1>2, <1>4
  <2>2. present' = present
    BY <1>4 DEF Effect, directory
  <2>3. CASE r.kind = "add"
    BY <1>1, <2>1, <2>2, <2>3 DEF MayAfter, SureAfter, When
  <2>4. CASE r.kind = "delete"
    <3>1. Gone(k, st) => r.on \cap present = {}
      BY <1>2, <1>4, <2>4
    <3> QED
      BY <1>1, <2>1, <2>2, <2>4, <3>1 DEF MayAfter, SureAfter, When
  <2>5. CASE r.kind = "rename"
    <3>1. Gone(k, st) => r.on \cap present = {}
      BY <1>2, <1>4, <2>5
    <3> QED
      BY <1>1, <2>1, <2>2, <2>5, <3>1 DEF MayAfter, SureAfter, When
  <2>6. CASE r.kind \notin {"add", "delete", "rename"}
    BY <1>1, <2>2, <2>6 DEF MayAfter, SureAfter
  <2> QED
    BY <2>3, <2>4, <2>5, <2>6
<1> QED
  BY <1>3, <1>4

\* So are those that are altered.
LEMMA AlterationsAfter ==
  ASSUME NEW st, st.req \in Requests, NEW k, Holds(k), NEW a \in Conformant(st.req),
         Effect(st.req, a[2]), a[1] \in Passing(k, st)
  PROVE  ChangedAfter(k, st) \subseteq altered' /\ altered' \subseteq AlteredAfter(k, st)
<1> DEFINE r == st.req
<1>1. k.changed \subseteq altered /\ altered \subseteq k.altered
  BY DEF Holds
<1>2. (a[2] => Can(k, st)) /\ (Must(k, st) => a[2])
  BY EffectKnown
<1>3. CASE a[2]
  <2>1. altered' = CASE r.kind \in {"modify", "setpw"} -> altered \cup (r.on \cap Seed)
                     [] r.kind = "resetpw" -> altered \ r.on
                     [] OTHER -> altered
    BY <1>3 DEF Effect
  <2>2. Can(k, st)
    BY <1>2, <1>3
  <2> QED
    BY <1>1, <2>1, <2>2 DEF ChangedAfter, AlteredAfter, When
<1>4. CASE ~a[2]
  <2>1. altered' = altered /\ ~Must(k, st)
    BY <1>2, <1>4 DEF Effect, directory
  <2> QED
    BY <1>1, <2>1 DEF ChangedAfter, AlteredAfter, When
<1> QED
  BY <1>3, <1>4

\* Whom the shared connection is bound as afterwards.
LEMMA IdentityAfter ==
  ASSUME NEW st, st.req \in Requests, NEW k, Holds(k), NEW a \in Conformant(st.req),
         Served(st.req, a[2]), a[1] \in Passing(k, st)
  PROVE  identity' \in WhoAfter(k, st)
<1> DEFINE r == st.req
<1>1. identity \in k.who
  BY DEF Holds
<1>2. (a[2] => Can(k, st)) /\ (Must(k, st) => a[2])
  BY EffectKnown
<1>3. CASE Binds(r)
  <2>1. identity' = IF a[2] THEN Named(r.to) ELSE "anonymous"
    BY <1>3, ConformantAnswer DEF Served, Binds
  <2>2. WhoAfter(k, st) = When(Can(k, st), {Named(r.to)}) \cup When(~Must(k, st), {"anonymous"})
    <3>1. Binds(st.req) /\ st.req.kind # "unbind"
      BY <1>3 DEF Binds
    <3> QED
      BY <3>1 DEF WhoAfter
  <2>3. CASE a[2]
    BY <1>2, <2>1, <2>2, <2>3 DEF When
  <2>4. CASE ~a[2]
    BY <1>2, <2>1, <2>2, <2>4 DEF When
  <2> QED
    BY <2>3, <2>4, ConformantAnswer
<1>4. CASE r.kind = "unbind" /\ r.as = "shared"
  BY <1>4 DEF Served, WhoAfter, Binds
<1>5. CASE ~Binds(r) /\ ~(r.kind = "unbind" /\ r.as = "shared")
  <2>1. identity' = identity
    BY <1>5 DEF Served, Binds, session
  <2> QED
    BY <1>1, <1>5, <2>1 DEF WhoAfter
<1> QED
  BY <1>3, <1>4, <1>5

\* What follows from what is known and the request that was answered is so.
LEMMA AfterHolds ==
  ASSUME NEW st, st.kind # "try", st.req \in Requests, NEW k, Holds(k),
         NEW a \in Conformant(st.req), a[1] \in Passing(k, st),
         Effect(st.req, a[2]), Served(st.req, a[2]), facts' = facts \cup Bearing(st.req)
  PROVE  Holds(After(k, st))'
<1> DEFINE n == After(k, st)
<1>1. /\ n.may = MayAfter(k, st) /\ n.sure = SureAfter(k, st)
      /\ n.altered = AlteredAfter(k, st) /\ n.changed = ChangedAfter(k, st)
      /\ n.who = WhoAfter(k, st)
      /\ n.bound = (k.bound \/ Binds(st.req)) /\ n.unbound = Unbound(k, st.req)
  BY DEF After
<1>2. /\ "bound" \in facts' <=> "bound" \in facts \/ Binds(st.req)
      /\ "unbound" \in facts' <=> "unbound" \in facts \/ "unbound" \in Bearing(st.req)
  BY DEF Bearing, Binds
<1>3. (k.bound <=> "bound" \in facts) /\ (k.unbound <=> "unbound" \in facts)
  BY DEF Holds
<1>4. Unbound(k, st.req) <=> "unbound" \in facts'
  BY <1>2, <1>3 DEF Unbound, Bearing
<1>5. (k.bound \/ Binds(st.req)) <=> "bound" \in facts'
  BY <1>2, <1>3
<1>6. /\ SureAfter(k, st) \subseteq present' /\ present' \subseteq MayAfter(k, st)
      /\ ChangedAfter(k, st) \subseteq altered' /\ altered' \subseteq AlteredAfter(k, st)
      /\ identity' \in WhoAfter(k, st)
  BY PresentAfter, AlterationsAfter, IdentityAfter
<1> HIDE DEF n
<1>7. Holds(n)'
  BY <1>1, <1>4, <1>5, <1>6 DEF Holds
<1> QED
  BY <1>7 DEF n

\* Where the assertion is in its script.
LEMMA NextStep ==
  ASSUME TypeOK, phase = "running", todo # <<>>, NEW n \in 0..Len(Body), Done(n)
  PROVE  /\ n + 1 \in 1..Len(Body) /\ n + 1 \in 0..Len(Body) /\ step = Body[n + 1]
         /\ Len(Tail(todo)) = Len(Body) - (n + 1)
         /\ \A i \in DOMAIN Tail(todo) : Tail(todo)[i] = Body[(n + 1) + i]
<1>1. /\ todo \in Seq(AnySteps) /\ Len(todo) = Len(Body) - n
      /\ \A i \in DOMAIN todo : todo[i] = Body[n + i]
  BY DEF TypeOK, Done
<1>2. Len(Body) \in Nat
  BY BodyTyped
<1>3. Len(todo) \in Nat /\ Len(todo) # 0 /\ 1 \in DOMAIN todo /\ Head(todo) = todo[1]
  BY <1>1
<1>4. n + 1 \in 1..Len(Body) /\ n + 1 \in 0..Len(Body)
  BY <1>1, <1>2, <1>3
<1>5. step = Body[n + 1]
  BY <1>1, <1>3 DEF step
<1>6. Len(Tail(todo)) = Len(Body) - (n + 1)
  BY <1>1, <1>2, <1>3
<1>7. ASSUME NEW i \in DOMAIN Tail(todo) PROVE Tail(todo)[i] = Body[(n + 1) + i]
  <2>1. i \in Nat /\ i + 1 \in DOMAIN todo /\ Tail(todo)[i] = todo[i + 1]
    BY <1>1, <1>3
  <2>2. todo[i + 1] = Body[n + (i + 1)]
    BY <1>1, <2>1
  <2>3. n + (i + 1) = (n + 1) + i
    BY <2>1
  <2> QED
    BY <2>1, <2>2, <2>3
<1> QED
  BY <1>4, <1>5, <1>6, <1>7

\* The assertion under way is a blameless one.
LEMMA BodyBlameless ==
  ASSUME TypeOK, phase = "running", ~Excused, NEW m \in 1..Len(Body)
  PROVE  /\ BlamelessAt(Table[cursor], m, Known(Body, Beginning)[m - 1])
         /\ \A i \in DOMAIN Body[m].undo : NeverFails(Body[m].undo[i])
<1>1. cursor \in DOMAIN Table /\ DOMAIN Body = 1..Len(Body)
  BY BodyTyped
<1>2. /\ Blameless(Table[cursor], OnSeed)
      /\ WipesFirst(Table[cursor]) => Blameless(Table[cursor], OnLitter)
  BY <1>1, BlamelessAssumption
<1>3. "dirty" \in facts => WipesFirst(Table[cursor])
  BY DEF Excused, FoundLitter
<1>4. Blameless(Table[cursor], Beginning)
  <2>1. Beginning = OnSeed \/ ("dirty" \in facts /\ Beginning = OnLitter)
    BY DEF Beginning
  <2> QED
    BY <1>2, <1>3, <2>1
<1> QED
  BY <1>1, <1>4 DEF Blameless, Body

\* An assertion starts knowing what it begins with.
LEMMA StartUnblamed ==
  ASSUME TypeOK, TypeOK', Littered, Start
  PROVE  Unblamed'
<1>1. /\ phase' = "running" /\ todo' = Body' /\ final' = <<>> /\ verdict' = "pass"
      /\ facts' = {f \in {"dirty", "dead"} : IF f = "dead" THEN link = "dead" ELSE ~OnTheSeed}
      /\ UNCHANGED <<present, altered, link, identity>>
  BY DEF Start, Body, directory, session
<1>2. Len(Body') \in Nat /\ DOMAIN Body' = 1..Len(Body')
  <2>1. todo' \in Seq(AnySteps)
    BY DEF TypeOK
  <2> QED
    BY <1>1, <2>1
<1>3. Known(Body', Beginning')[0] = Beginning'
  BY <1>2, KnownUnfolds
<1>4. Holds(Beginning)'
  <2>1. "bound" \notin facts' /\ "unbound" \notin facts' /\ ("dirty" \in facts' <=> ~OnTheSeed)
    BY <1>1
  <2>2. identity' \in Identities
    BY DEF TypeOK
  <2>3. CASE OnTheSeed
    <3>1. Beginning' = OnSeed /\ present' = Seed /\ altered' = {}
      BY <1>1, <2>1, <2>3 DEF Beginning, OnTheSeed, directory
    <3> QED
      BY <2>1, <2>2, <3>1 DEF Holds, OnSeed
  <2>4. CASE ~OnTheSeed
    <3>1. Beginning' = OnLitter
      BY <2>1, <2>4 DEF Beginning
    <3>2. /\ Seed \subseteq present' /\ present' \subseteq Seed \cup Litter
          /\ altered' \subseteq Scribbles
      BY <1>1 DEF Littered
    <3> QED
      BY <2>1, <2>2, <3>1, <3>2 DEF Holds, OnLitter, OnSeed
  <2> QED
    BY <2>3, <2>4
<1>5. Done(0)' /\ 0 \in 0..Len(Body')
  <2>1. DOMAIN final' = {}
    BY <1>1
  <2>2. Len(todo') = Len(Body') - 0 /\ \A i \in DOMAIN todo' : todo'[i] = Body'[0 + i]
    BY <1>1, <1>2
  <2>3. Holds(Known(Body, Beginning)[0])'
    BY <1>3, <1>4 DEF Holds
  <2>4. 0 \in 0..Len(Body')
    BY <1>2
  <2> QED
    BY <2>1, <2>2, <2>3, <2>4 DEF Done
<1>6. "dead" \in facts' <=> link' = "dead"
  BY <1>1
<1>7. ~Ended'
  BY <1>1 DEF Ended
<1> QED
  BY <1>1, <1>5, <1>6, <1>7 DEF Unblamed, FailsForAReason

\* Within an assertion an excuse stays one.
LEMMA ExcusesStay ==
  ASSUME facts \subseteq facts', "dirty" \in facts' => "dirty" \in facts,
         UNCHANGED <<anonReads, cursor>>, ~Excused'
  PROVE  ~Excused /\ Beginning' = Beginning
<1>1. ~Excused
  BY DEF Excused, Deviated, FoundLitter, WasUnbound
<1>2. "dirty" \in facts' <=> "dirty" \in facts
  OBVIOUS
<1> QED
  BY <1>1, <1>2 DEF Beginning

\* An answer to the next step of the script: the function goes on, or has formed a
\* verdict that is none of failure.
LEMMA CallUnblamed ==
  ASSUME TypeOK, Call, ~Excused, ~Excused', NEW n \in 0..Len(Body), Done(n), verdict # "fail"
  PROVE  verdict' # "fail" /\ (Leaving' \/ (n + 1 \in 0..Len(Body') /\ Done(n + 1)'))
<1>1. /\ phase = "running" /\ todo # <<>> /\ step.kind # "try"
      /\ \E a \in Conformant(step.req) : Answered(a[1], a[2])
      /\ facts' = facts \cup Bearing(step.req)
  BY DEF Call, Calling
<1>2. /\ n + 1 \in 1..Len(Body) /\ n + 1 \in 0..Len(Body) /\ step = Body[n + 1]
      /\ Len(Tail(todo)) = Len(Body) - (n + 1)
      /\ \A i \in DOMAIN Tail(todo) : Tail(todo)[i] = Body[(n + 1) + i]
  BY <1>1, NextStep
<1>3. PICK a \in Conformant(step.req) : Answered(a[1], a[2])
  BY <1>1
<1>4. /\ Effect(step.req, a[2]) /\ Served(step.req, a[2]) /\ final' = final
      /\ verdict' = IF step.ret[a[1]] = "go" THEN verdict ELSE step.ret[a[1]]
      /\ todo' = IF step.ret[a[1]] = "go" \/ ~step.stop THEN Tail(todo) ELSE step.undo
      /\ UNCHANGED <<anonReads, writable, phase, cursor>>
  BY <1>3 DEF Answered, Continue, server
<1>5. Body' = Body /\ Beginning' = Beginning
  <2>1. "dirty" \notin Bearing(step.req)
    BY DEF Bearing
  <2>2. Beginning' = Beginning
    BY <1>1, <2>1 DEF Beginning
  <2> QED
    BY <1>4, <2>2 DEF Body
<1>6. PICK k : k = Known(Body, Beginning)[n]
  OBVIOUS
<1>7. PICK st : st = Body[n + 1]
  OBVIOUS
<1>8. Holds(k) /\ st = step /\ st.req \in Requests /\ st.undo \in Seq(PlainSteps)
  BY <1>1, <1>2, <1>6, <1>7, StepTyped DEF Done
<1>9. Unbound(k, st.req) => anonReads
  <2>1. SUFFICES ASSUME Unbound(k, st.req) PROVE anonReads
    OBVIOUS
  <2>2. k.unbound => "unbound" \in facts
    BY <1>8 DEF Holds
  <2>3. k.bound <=> "bound" \in facts
    BY <1>8 DEF Holds
  <2>4. "unbound" \in facts \cup Bearing(st.req)
    BY <2>1, <2>2, <2>3 DEF Unbound, Bearing
  <2>5. "unbound" \in facts' /\ anonReads' = anonReads
    BY <1>1, <1>4, <1>8, <2>4
  <2> QED
    BY <2>5 DEF Excused, WasUnbound
<1>10. a[1] \in Codes /\ a[1] \in Expected(k, st.req)
  <2>1. a[1] \in Codes /\ a[1] \in ConformantCodes(st.req)
    BY <1>3, <1>8, ConformantAnswer
  <2> QED
    BY <1>8, <1>9, <2>1, CodeExpected
<1>11. step.ret[a[1]] # "fail"
  <2>1. BlamelessAt(Table[cursor], n + 1, k)
    <3>1. BlamelessAt(Table[cursor], n + 1, Known(Body, Beginning)[(n + 1) - 1])
      BY <1>1, <1>2, BodyBlameless
    <3>2. (n + 1) - 1 = n
      BY <1>2
    <3> QED
      BY <1>6, <3>1, <3>2
  <2>2. Table[cursor].script[n + 1] = st
    BY <1>7 DEF Body
  <2>3. CASE Table[cursor].id = "4511.4.8.4" /\ Unbound(k, st.req)
    <3>1. k.unbound => "unbound" \in facts
      BY <1>8 DEF Holds
    <3>2. k.bound <=> "bound" \in facts
      BY <1>8 DEF Holds
    <3>3. "unbound" \in facts \cup Bearing(st.req)
      BY <2>3, <3>1, <3>2 DEF Unbound, Bearing
    <3>4. "unbound" \in facts' /\ cursor' = cursor
      BY <1>1, <1>4, <1>8, <3>3
    <3> QED
      BY <2>3, <3>4 DEF Excused, WasUnbound
  <2>4. CASE \A c \in Expected(k, st.req) : st.ret[c] # "fail"
    BY <1>8, <1>10, <2>4
  <2> QED
    BY <1>1, <1>8, <2>1, <2>2, <2>3, <2>4 DEF BlamelessAt
<1>12. verdict' # "fail"
  BY <1>4, <1>11
<1>13. \A i \in DOMAIN final' : NeverFails(final'[i])
  BY <1>4 DEF Done
<1>14. CASE step.ret[a[1]] = "go" \/ ~step.stop
  <2>1. a[1] \in Passing(k, st)
    BY <1>8, <1>10, <1>14 DEF Passing, GoesOn
  <2>2. Holds(After(k, st))'
    BY <1>1, <1>3, <1>4, <1>8, <2>1, AfterHolds
  <2>3. Known(Body, Beginning)[n + 1] = After(k, st)
    <3>1. Len(Body) \in Nat
      BY <1>1, BodyTyped
    <3>2. Known(Body, Beginning)[n + 1] = After(Known(Body, Beginning)[(n + 1) - 1], Body[n + 1])
      BY <1>2, <3>1, KnownUnfolds
    <3>3. (n + 1) - 1 = n
      BY <1>2
    <3> QED
      BY <1>6, <1>7, <3>2, <3>3
  <2>4. Known(Body, Beginning)'[n + 1] = After(k, st)
    BY <1>5, <2>3
  <2>5. Holds(Known(Body, Beginning)[n + 1])'
    BY <2>2, <2>4 DEF Holds
  <2>6. todo' = Tail(todo)
    BY <1>4, <1>14
  <2>7. Done(n + 1)'
    BY <1>2, <1>5, <1>13, <2>5, <2>6 DEF Done
  <2> QED
    BY <1>2, <1>5, <1>12, <2>7
<1>15. CASE ~(step.ret[a[1]] = "go" \/ ~step.stop)
  <2>1. todo' = st.undo
    BY <1>4, <1>8, <1>15
  <2>2. \A i \in DOMAIN st.undo : NeverFails(st.undo[i])
    BY <1>1, <1>2, <1>7, BodyBlameless
  <2>3. \A i \in DOMAIN st.undo : st.undo[i].undo = <<>>
    BY <1>8, PlainUndone
  <2>4. Leaving'
    BY <1>13, <2>1, <2>2, <2>3 DEF Leaving
  <2> QED
    BY <1>12, <2>4
<1> QED
  BY <1>14, <1>15

\* The steps of an undo or a finally clause never fail.
LEMMA CallLeaving ==
  ASSUME TypeOK, Call, Leaving, verdict # "fail"
  PROVE  verdict' # "fail" /\ Leaving'
<1>1. /\ todo # <<>> /\ todo \in Seq(AnySteps)
      /\ \E a \in Conformant(step.req) : Answered(a[1], a[2])
  BY DEF Call, Calling, TypeOK
<1>2. PICK a \in Conformant(step.req) : Answered(a[1], a[2])
  BY <1>1
<1>3. a[1] \in Codes
  BY <1>1, <1>2, StepTyped, ConformantTyped
<1>4. /\ 1 \in DOMAIN todo /\ step = todo[1]
      /\ \A i \in DOMAIN Tail(todo) : i + 1 \in DOMAIN todo /\ Tail(todo)[i] = todo[i + 1]
  BY <1>1, HeadAndTail DEF step
<1>5. NeverFails(step) /\ step.undo = <<>>
  BY <1>4 DEF Leaving
<1>6. /\ verdict' = IF step.ret[a[1]] = "go" THEN verdict ELSE step.ret[a[1]]
      /\ todo' = Tail(todo) \/ todo' = step.undo
      /\ final' = final
  BY <1>2 DEF Answered, Continue
<1>7. verdict' # "fail"
  BY <1>3, <1>5, <1>6 DEF NeverFails
<1>8. \A i \in DOMAIN todo' : NeverFails(todo'[i]) /\ todo'[i].undo = <<>>
  <2>1. CASE todo' = Tail(todo)
    BY <1>4, <2>1 DEF Leaving
  <2>2. CASE todo' = step.undo
    <3>1. DOMAIN todo' = {}
      BY <1>5, <2>2
    <3> QED
      BY <3>1
  <2> QED
    BY <1>6, <2>1, <2>2
<1> QED
  BY <1>6, <1>7, <1>8 DEF Leaving

\* The shared connection is found dead only by an assertion that knows of it.
LEMMA LinkNoticed ==
  ASSUME TypeOK, Unblamed, Call \/ Deviate \/ Raise
  PROVE  phase' = "running" /\ link' = "dead" => "dead" \in facts'
<1>1. phase = "running" /\ facts \subseteq facts'
  BY DEF Call, Deviate, Raise, Calling
<1>2. link' = "dead" => link = "dead"
  <2>1. CASE UNCHANGED session
    BY <2>1 DEF session
  <2>2. CASE \E applied \in BOOLEAN : Served(step.req, applied)
    BY <2>2 DEF Served, session
  <2>3. CASE \E c : \E applied \in BOOLEAN : Answered(c, applied)
    BY <2>3 DEF Answered, Served, session
  <2> QED
    BY <2>1, <2>2, <2>3, AnAnswer DEF Raise
<1> QED
  BY <1>1, <1>2 DEF Unblamed

\* Every deviation of the server is a reason.
LEMMA DeviationExcuses ==
  ASSUME TypeOK, Unblamed, Deviate \/ Raise
  PROVE  Excused'
<1>1. Deviation \cap {"fault", "guarded", "uncleaned", "dead"} # {}
  BY DEF Deviation
<1>2. CASE Deviation \subseteq facts'
  BY <1>1, <1>2 DEF Excused, Deviated
<1>3. CASE link = "dead" /\ phase = "running" /\ facts' = facts
  BY <1>3 DEF Excused, Deviated, Unblamed
<1> QED
  BY <1>2, <1>3 DEF Deviate, Raise, Calling

\* Nothing has run, nothing has failed.
LEMMA InitUnblamed == Init => Unblamed
  BY DEF Init, Unblamed, FailsForAReason, Ended

\* No step makes an assertion fail that has no reason to.
LEMMA StepUnblamed ==
  TypeOK /\ TypeOK' /\ Littered /\ Covered /\ Unblamed /\ [Next]_vars => Unblamed'
<1> SUFFICES ASSUME TypeOK, TypeOK', Littered, Covered, Unblamed, [Next]_vars PROVE Unblamed'
  OBVIOUS
<1>1. CASE Start
  BY <1>1, StartUnblamed
<1>2. CASE Probe
  <2>1. phase' # "running" /\ verdict' = "none"
    BY <1>2 DEF Probe, Covered
  <2> QED
    BY <2>1 DEF Unblamed, FailsForAReason, Ended
<1>3. CASE PassOver \/ NewRun
  <2>1. phase' # "running" /\ verdict' = "none"
    BY <1>3 DEF PassOver, NewRun
  <2> QED
    BY <2>1 DEF Unblamed, FailsForAReason, Ended
<1>4. CASE Drop
  <2>1. CASE phase = "running"
    <3>1. phase' = "running" /\ "dead" \in facts'
      BY <1>4, <2>1 DEF Drop
    <3>2. Excused' /\ ~Ended'
      BY <3>1 DEF Excused, Deviated, Ended
    <3> QED
      BY <3>1, <3>2 DEF Unblamed, FailsForAReason
  <2>2. CASE phase # "running"
    <3>1. UNCHANGED <<phase, facts, anonReads, cursor, verdict>>
      BY <1>4, <2>2 DEF Drop, server
    <3> QED
      BY <2>2, <3>1 DEF Unblamed, FailsForAReason, Ended
  <2> QED
    BY <2>1, <2>2
<1>5. CASE Deviate \/ Raise
  <2>1. Excused' /\ ~Ended'
    BY <1>5, DeviationExcuses DEF Ended, Deviate, Raise, Calling, Answered
  <2> QED
    BY <1>5, <2>1, LinkNoticed DEF Unblamed, FailsForAReason
<1>6. CASE Call
  <2>1. /\ phase = "running" /\ phase' = "running" /\ facts \subseteq facts'
        /\ "dirty" \in facts' => "dirty" \in facts
        /\ UNCHANGED <<anonReads, cursor>>
    BY <1>6 DEF Call, Calling, Answered, Bearing, server
  <2>2. ~Ended'
    BY <2>1 DEF Ended
  <2>3. ASSUME ~Excused'
        PROVE  verdict' # "fail" /\ (Leaving' \/ \E n \in 0..Len(Body') : Done(n)')
    <3>1. ~Excused
      BY <2>1, <2>3, ExcusesStay
    <3>2. verdict # "fail" /\ (Leaving \/ \E n \in 0..Len(Body) : Done(n))
      BY <2>1, <3>1 DEF Unblamed
    <3>3. CASE Leaving
      BY <1>6, <3>2, <3>3, CallLeaving
    <3>4. CASE \E n \in 0..Len(Body) : Done(n)
      <4>1. PICK n \in 0..Len(Body) : Done(n)
        BY <3>4
      <4>2. verdict' # "fail" /\ (Leaving' \/ (n + 1 \in 0..Len(Body') /\ Done(n + 1)'))
        BY <1>6, <2>3, <3>1, <3>2, <4>1, CallUnblamed
      <4> QED
        BY <4>2
    <3> QED
      BY <3>2, <3>3, <3>4
  <2> QED
    BY <1>6, <2>2, <2>3, LinkNoticed DEF Unblamed, FailsForAReason
<1>7. CASE EnterTry
  <2>1. /\ phase = "running" /\ todo # <<>> /\ step.kind = "try"
        /\ todo' = Tail(todo) /\ final' = step.undo
        /\ UNCHANGED <<present, altered, link, identity, anonReads, phase, cursor, verdict, facts>>
    BY <1>7 DEF EnterTry, directory, session, server
  <2>2. Body' = Body /\ Beginning' = Beginning /\ (Excused' <=> Excused)
    BY <2>1 DEF Body, Beginning, Excused, Deviated, FoundLitter, WasUnbound
  <2>3. ASSUME Leaving PROVE Leaving'
    <3>1. todo \in Seq(AnySteps)
      BY DEF TypeOK
    <3>2. /\ 1 \in DOMAIN todo /\ step = todo[1]
          /\ \A i \in DOMAIN Tail(todo) : i + 1 \in DOMAIN todo /\ Tail(todo)[i] = todo[i + 1]
      BY <2>1, <3>1, HeadAndTail DEF step
    <3>3. DOMAIN final' = {}
      BY <2>1, <2>3, <3>2 DEF Leaving
    <3> QED
      BY <2>1, <2>3, <3>2, <3>3 DEF Leaving
  <2>4. ASSUME NEW n \in 0..Len(Body), Done(n), ~Excused
        PROVE  n + 1 \in 0..Len(Body') /\ Done(n + 1)'
    <3>1. /\ n + 1 \in 1..Len(Body) /\ n + 1 \in 0..Len(Body) /\ step = Body[n + 1]
          /\ Len(Tail(todo)) = Len(Body) - (n + 1)
          /\ \A i \in DOMAIN Tail(todo) : Tail(todo)[i] = Body[(n + 1) + i]
      BY <2>1, <2>4, NextStep
    <3>2. Known(Body, Beginning)[n + 1] = Known(Body, Beginning)[n]
      <4>1. Len(Body) \in Nat
        BY <2>1, BodyTyped
      <4>2. Known(Body, Beginning)[n + 1] = After(Known(Body, Beginning)[(n + 1) - 1], Body[n + 1])
        BY <3>1, <4>1, KnownUnfolds
      <4>3. (n + 1) - 1 = n
        BY <2>4
      <4> QED
        BY <2>1, <3>1, <4>2, <4>3 DEF After
    <3>3. Holds(Known(Body, Beginning)[n + 1])'
      BY <2>1, <2>2, <2>4, <3>2 DEF Done, Holds
    <3>4. \A i \in DOMAIN final' : NeverFails(final'[i])
      BY <2>1, <2>4, <3>1, BodyBlameless
    <3> QED
      BY <2>1, <2>2, <3>1, <3>3, <3>4 DEF Done
  <2>5. ~Ended'
    BY <2>1 DEF Ended
  <2> QED
    BY <2>1, <2>2, <2>3, <2>4, <2>5 DEF Unblamed, FailsForAReason
<1>8. CASE Finally
  <2>1. /\ phase = "running" /\ todo' = final /\ final' = <<>> /\ DOMAIN final' = {}
        /\ UNCHANGED <<link, anonReads, phase, cursor, verdict, facts>>
    BY <1>8 DEF Finally, session, server
  <2>2. Excused' <=> Excused
    BY <2>1 DEF Excused, Deviated, FoundLitter, WasUnbound
  <2>3. ASSUME Leaving \/ \E n \in 0..Len(Body) : Done(n) PROVE Leaving'
    <3>1. \A i \in DOMAIN final : NeverFails(final[i])
      BY <2>3 DEF Leaving, Done
    <3>2. \A i \in DOMAIN final : final[i].undo = <<>>
      BY PlainUndone DEF TypeOK
    <3> QED
      BY <2>1, <3>1, <3>2 DEF Leaving
  <2>4. ~Ended'
    BY <2>1 DEF Ended
  <2> QED
    BY <2>1, <2>2, <2>3, <2>4 DEF Unblamed, FailsForAReason
<1>9. CASE Return
  <2>1. phase = "running" /\ phase' = "idle" /\ UNCHANGED <<anonReads, cursor, verdict, facts>>
    BY <1>9 DEF Return, server
  <2>2. verdict' = "fail" => Excused
    BY <2>1 DEF Unblamed
  <2>3. Excused <=> Excused'
    BY <2>1 DEF Excused, Deviated, FoundLitter, WasUnbound
  <2> QED
    BY <2>1, <2>2, <2>3 DEF Unblamed, FailsForAReason, Excused, Deviated, FoundLitter, WasUnbound
<1>10. CASE UNCHANGED vars
  <2>1. UNCHANGED <<present, altered, link, identity, anonReads, phase, cursor, todo, final,
                    verdict, facts>>
    BY <1>10 DEF vars
  <2> QED
    BY <2>1 DEF Unblamed, FailsForAReason, Ended, Excused, Deviated, FoundLitter, WasUnbound,
              Leaving, Done, Holds, Beginning, Body
<1> QED
  BY <1>1, <1>2, <1>3, <1>4, <1>5, <1>6, <1>7, <1>8, <1>9, <1>10 DEF Next

\* Whatever the server does, and however often: an assertion that returns FAIL has met
\* a fault of the server, or has one of the reasons that the suites leave to the
\* operator.  None of the about 170 blames a conformant server, unless it found the
\* leftover of another and did not wipe first, or was not bound as it should be.
THEOREM FailuresHaveReasons == Spec => []FailsForAReason
<1>1. Init => TypeOK /\ Littered /\ Covered /\ Unblamed
  BY InitTyped, InitLittered, InitCovered, InitUnblamed
<1>2. TypeOK /\ Littered /\ Covered /\ Unblamed /\ [Next]_vars
      => (TypeOK /\ Littered /\ Covered /\ Unblamed)'
  BY StepTypeOK, StepLittered, StepCovered, StepUnblamed
<1>3. Unblamed => FailsForAReason
  BY DEF Unblamed
<1> QED
  BY <1>1, <1>2, <1>3, PTL DEF Spec

=============================================================================
