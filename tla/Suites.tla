------------------------------- MODULE Suites -------------------------------
(***************************************************************************)
(* A run of the suites against a server: runner.main probes the server and *)
(* then executes the selected assertions one after the other on ONE        *)
(* LdapSession (harness.py), whose connection and identity every assertion *)
(* inherits from the one before it.  Which assertions are selected and     *)
(* whether the engine executes them is Engine.tla's subject: here it may   *)
(* pass over any of them, and must pass over those that mutate a server    *)
(* not declared writable or lack a prerequisite.  A directory may see      *)
(* several runs, as a container that is reused does.                       *)
(*                                                                         *)
(* The server answers as a conformant one does, except for at most         *)
(* MaxFaults deviations: a wrong code, an effect that contradicts the      *)
(* code, an exception, a connection that is closed.                        *)
(***************************************************************************)
EXTENDS Steps, FiniteSets

CONSTANTS
  Table,      \* the assertions in the order they run: see SuiteTable
  Seed,       \* the entries of the seed that the assertions name
  Parent,     \* entry |-> the entry above it, where that is not one of the seed
  Readable,   \* the choices for anonReads
  Writable,   \* the choices for writable
  MaxFaults,  \* how often the server or the network deviates
  MaxRuns     \* how many runs the directory sees

ASSUME TableAssumption == Table \in Seq(Assertions)
ASSUME SeedAssumption == Seed \subseteq STRING
ASSUME BoundsAssumption == MaxFaults \in Nat /\ MaxRuns \in Nat
ASSUME ServerAssumption == Readable \subseteq BOOLEAN /\ Writable \subseteq BOOLEAN

VARIABLES
  anonReads,  \* whether the server lets an anonymous client read
  writable,   \* the capability statement: mutating assertions are executed
  present,    \* the entries in the directory
  altered,    \* the entries of the seed that are not as they were seeded
  link,       \* the shared connection: "closed", "open", or "dead", closed by
              \* the server while LdapSession._opened is still true
  identity,   \* who the shared connection is bound as
  phase,      \* "probing", "idle", between two assertions, or "running"
  cursor,     \* how many assertions the run is through with, or in
  todo,       \* the steps the assertion still has before it
  final,      \* the finally clause of the try block it is in
  verdict,    \* what it returns as things stand, or returned
  passed,     \* the ids of the assertions that passed
  faults, runs,
  facts       \* about the assertion under way, or the last one: see Facts

directory == <<present, altered>>
session == <<link, identity>>
server == <<anonReads, writable>>
vars == <<anonReads, writable, present, altered, link, identity, phase, cursor,
          todo, final, verdict, passed, faults, runs, facts>>

Verdicts == Statuses \cup {"none"}
Identities == {"anonymous", "admin", "alice", "bob"}
\* It started on a directory that is not the seed; it met a dead connection; it
\* bound the shared session; it used it as it found it, or an anonymous one of its
\* own; the server deviated while it was in a try block, in a cleanup, or elsewhere.
Facts == {"dirty", "dead", "bound", "unbound", "guarded", "uncleaned", "fault",
          "raised"}

TypeOK ==
  /\ anonReads \in BOOLEAN /\ writable \in BOOLEAN
  /\ present \subseteq STRING /\ altered \subseteq Seed
  /\ link \in {"closed", "open", "dead"} /\ identity \in Identities
  /\ phase \in {"probing", "idle", "running"}
  /\ cursor \in 0..Len(Table) /\ (phase = "running" => cursor # 0)
  /\ todo \in Seq(AnySteps) /\ final \in Seq(PlainSteps)
  /\ verdict \in Verdicts /\ passed \subseteq STRING
  /\ faults \in 0..MaxFaults /\ runs \in Nat
  /\ facts \subseteq Facts

Init ==
  /\ anonReads \in Readable /\ writable \in Writable
  /\ present = Seed /\ altered = {}
  /\ link = "closed" /\ identity = "anonymous"
  /\ phase = "probing" /\ cursor = 0
  /\ todo = <<>> /\ final = <<>> /\ verdict = "none" /\ passed = {}
  /\ faults = 0 /\ runs = 1 /\ facts = {}

-----------------------------------------------------------------------------
\* What the server answers.

Above(e) == IF e \in DOMAIN Parent THEN Parent[e] ELSE "people"
Who(r) == IF r.as = "shared" THEN identity ELSE r.as
Writes == {"add", "delete", "modify", "rename", "setpw", "resetpw"}
\* bob has two passwords, the one of the seed and the one 3062.2.1 gives him.
Works(who) == IF who = "bob-new" THEN "bob" \in altered ELSE who \notin altered
\* Mutant: the session remembers the name it was given.
NamedAsGiven(who) == who
Named(who) == CASE who = "bob-new" -> "bob" [] who \in Identities -> who
                [] OTHER -> "anonymous"

\* The codes with which a conformant server refuses r in its present state.
Objections(r) ==
  {c \in {32, 49, 50, 66, 68} :
     \/ c = 50 /\ r.kind \in Writes /\ Who(r) # "admin"
     \/ c = 50 /\ r.kind = "read" /\ Who(r) = "anonymous" /\ ~anonReads
     \/ c = 32 /\ r.kind \in (Writes \ {"add"}) \cup {"read"} /\ ~(r.on \subseteq present)
     \/ c = 32 /\ r.kind = "add" /\ \E e \in r.on : Above(e) \notin present
     \/ c = 66 /\ r.kind = "delete" /\ \E f \in present : Above(f) \in r.on
     \/ c = 68 /\ r.kind = "add" /\ r.on \cap present # {}
     \/ c = 68 /\ r.kind = "rename" /\ r.to \in present
     \/ c = 49 /\ r.kind = "bind" /\ ~Works(r.to)}

ConformantCodes(r) ==
  IF Objections(r) # {} THEN Objections(r)
  ELSE r.codes \cup (IF r.kind = "read" /\ r.on \cap altered # {} THEN {16} ELSE {})

\* An answer is a code and whether the request took effect.
Conformant(r) == {<<c, c = 0>> : c \in ConformantCodes(r)}
\* The codes of a deviating server: one of those the assertions look for, or
\* another one.
Deviant(r) == {-1, 0, 16, 80} \X BOOLEAN

Effect(r, applied) ==
  IF ~applied THEN UNCHANGED directory
  ELSE /\ present' = CASE r.kind = "add" -> present \cup r.on
                       [] r.kind = "delete" -> present \ r.on
                       [] r.kind = "rename" -> (present \ r.on) \cup {r.to}
                       [] OTHER -> present
       /\ altered' = CASE r.kind \in {"modify", "setpw"} -> altered \cup (r.on \cap Seed)
                       [] r.kind = "resetpw" -> altered \ r.on
                       [] OTHER -> altered

\* Mutant: a session that is bound is not bound again.
ServedOnce(r, applied) ==
  IF r.as # "shared" THEN UNCHANGED session
  ELSE /\ link' = IF r.kind = "unbind" THEN "closed" ELSE "open"
       /\ identity' = CASE r.kind = "bind" /\ applied /\ identity = "anonymous" -> Named(r.to)
                        [] r.kind = "bind" /\ ~applied -> "anonymous"
                        [] r.kind = "unbind" -> "anonymous"
                        [] OTHER -> identity

\* harness.py: _ensure_open before every operation, bind, unbind.  The
\* identity is that of the connection, not of the session object.
Served(r, applied) ==
  IF r.as # "shared" THEN UNCHANGED session
  ELSE /\ link' = IF r.kind = "unbind" THEN "closed" ELSE "open"
       /\ identity' = CASE r.kind = "bind" /\ applied -> Named(r.to)
                        [] r.kind = "bind" /\ ~applied -> "anonymous"
                        [] r.kind = "unbind" -> "anonymous"
                        [] OTHER -> identity

\* ldap3 raises for every operation on a connection that the server closed, except
\* that a bind may open it again; unbind is always possible.
Reachable(r) == r.as # "shared" \/ link # "dead" \/ r.kind \in {"bind", "unbind"}

-----------------------------------------------------------------------------
\* The run.

\* capability.probe_capability: the root DSE under the identity of a fresh
\* connection, and as administrator when that is denied.  The session stays
\* bound.
Probe ==
  /\ phase = "probing"
  /\ phase' = "idle" /\ link' = "open"
  /\ identity' = IF anonReads THEN "anonymous" ELSE "admin"
  /\ UNCHANGED <<directory, server, cursor, todo, final, verdict, passed, faults, runs, facts>>

OnTheSeed == directory = <<Seed, {}>>
\* Mutant: the declaration of the assertion is not looked at.
RunnableUndeclared(a) == a.requires \subseteq passed
Runnable(a) == (a.mutates => writable) /\ a.requires \subseteq passed

\* runner.run: the next assertion is executed ...
Start ==
  /\ phase = "idle" /\ cursor < Len(Table)
  /\ Runnable(Table[cursor + 1])
  /\ phase' = "running" /\ cursor' = cursor + 1
  /\ todo' = Table[cursor + 1].script /\ final' = <<>> /\ verdict' = "pass"
  /\ facts' = {f \in {"dirty", "dead"} : IF f = "dead" THEN link = "dead" ELSE ~OnTheSeed}
  /\ UNCHANGED <<directory, session, server, passed, faults, runs>>

\* ... or gets its verdict without.
PassOver ==
  /\ phase = "idle" /\ cursor < Len(Table)
  /\ cursor' = cursor + 1 /\ verdict' = "none" /\ facts' = {}
  /\ UNCHANGED <<directory, session, server, phase, todo, final, passed, faults, runs>>

\* main's finally clause unbinds; the next run has a session of its own and
\* finds the directory as this one left it.
NewRun ==
  /\ phase = "idle" /\ cursor = Len(Table) /\ runs < MaxRuns
  /\ runs' = runs + 1 /\ phase' = "probing" /\ cursor' = 0
  /\ link' = "closed" /\ identity' = "anonymous"
  /\ verdict' = "none" /\ passed' = {} /\ facts' = {}
  /\ UNCHANGED <<directory, server, todo, final, faults>>

\* The server closes the shared connection.
Drop ==
  /\ link = "open" /\ faults < MaxFaults
  /\ link' = "dead" /\ identity' = "anonymous" /\ faults' = faults + 1
  /\ facts' = IF phase = "running" THEN facts \cup {"dead"} ELSE facts
  /\ UNCHANGED <<directory, server, phase, cursor, todo, final, verdict, passed, runs>>

-----------------------------------------------------------------------------
\* The assertion: one step after the other, each a request and what the function
\* does about the answer.

step == Head(todo)
Calling == phase = "running" /\ todo # <<>> /\ step.kind # "try"

\* What a request tells of the assertion that sends it.
Bearing(r) ==
  IF r.kind = "bind" THEN IF r.as = "shared" THEN {"bound"} ELSE {}
  ELSE IF r.as = "anonymous" \/ (r.as = "shared" /\ "bound" \notin facts)
       THEN {"unbound"} ELSE {}
Deviation ==
  IF step.kind = "cleanup" THEN {"uncleaned"}
  ELSE IF final # <<>> THEN {"guarded"} ELSE {"fault"}

\* Mutant: a return leaves the try block without its finally clause.
ContinueUnguarded(c) ==
  /\ verdict' = IF step.ret[c] = "go" THEN verdict ELSE step.ret[c]
  /\ todo' = IF step.ret[c] = "go" \/ ~step.stop THEN Tail(todo) ELSE step.undo
  /\ final' = IF step.ret[c] = "go" \/ ~step.stop THEN final ELSE <<>>

\* Go on, note the verdict and go on, or return it: what is left of the body is
\* then undo, and the finally clause in any case.
Continue(c) ==
  /\ verdict' = IF step.ret[c] = "go" THEN verdict ELSE step.ret[c]
  /\ todo' = IF step.ret[c] = "go" \/ ~step.stop THEN Tail(todo) ELSE step.undo
  /\ UNCHANGED final

Answered(c, applied) ==
  /\ Effect(step.req, applied) /\ Served(step.req, applied)
  /\ Continue(c)
  /\ UNCHANGED <<server, phase, cursor, passed, runs>>

Call ==
  /\ Calling /\ Reachable(step.req)
  /\ \E a \in Conformant(step.req) : Answered(a[1], a[2])
  /\ facts' = facts \cup Bearing(step.req) /\ UNCHANGED faults

Deviate ==
  /\ Calling /\ Reachable(step.req) /\ faults < MaxFaults
  /\ \E a \in Deviant(step.req) : Answered(a[1], a[2])
  /\ facts' = facts \cup Bearing(step.req) \cup Deviation /\ faults' = faults + 1

\* Mutant: an exception leaves the try block without its finally clause.
RaiseThrough ==
  /\ Calling
  /\ \/ /\ step.req.as = "shared" /\ link = "dead" /\ step.req.kind # "unbind"
        /\ facts' = facts /\ UNCHANGED <<directory, session, faults>>
     \/ /\ Reachable(step.req) /\ faults < MaxFaults /\ faults' = faults + 1
        /\ facts' = facts \cup Deviation \cup {"raised"}
        /\ \E applied \in BOOLEAN : Effect(step.req, applied) /\ Served(step.req, applied)
  /\ todo' = IF step.kind = "cleanup" THEN Tail(todo) ELSE <<>>
  /\ verdict' = IF step.kind = "cleanup" THEN verdict ELSE "fail"
  /\ final' = IF step.kind = "cleanup" THEN final ELSE <<>>
  /\ UNCHANGED <<server, phase, cursor, passed, runs>>

\* An exception: ignored in a cleanup, the end of the body and a FAIL of the
\* engine (runner._decide) elsewhere.  The request may have had its effect.
Raise ==
  /\ Calling
  /\ \/ /\ step.req.as = "shared" /\ link = "dead" /\ step.req.kind # "unbind"
        /\ facts' = facts /\ UNCHANGED <<directory, session, faults>>
     \/ /\ Reachable(step.req) /\ faults < MaxFaults /\ faults' = faults + 1
        /\ facts' = facts \cup Deviation \cup {"raised"}
        /\ \E applied \in BOOLEAN : Effect(step.req, applied) /\ Served(step.req, applied)
  /\ todo' = IF step.kind = "cleanup" THEN Tail(todo) ELSE <<>>
  /\ verdict' = IF step.kind = "cleanup" THEN verdict ELSE "fail"
  /\ UNCHANGED <<server, phase, cursor, final, passed, runs>>

\* Mutant: a try without its finally clause.
EnterTryBare ==
  /\ phase = "running" /\ todo # <<>> /\ step.kind = "try"
  /\ todo' = Tail(todo)
  /\ UNCHANGED <<directory, session, server, phase, cursor, final, verdict, passed, faults, runs, facts>>
EnterTry ==
  /\ phase = "running" /\ todo # <<>> /\ step.kind = "try"
  /\ todo' = Tail(todo) /\ final' = step.undo
  /\ UNCHANGED <<directory, session, server, phase, cursor, verdict, passed, faults, runs, facts>>

Finally ==
  /\ phase = "running" /\ todo = <<>> /\ final # <<>>
  /\ todo' = final /\ final' = <<>>
  /\ UNCHANGED <<directory, session, server, phase, cursor, verdict, passed, faults, runs, facts>>

\* Only the verdicts that another assertion asks for are kept.
Prerequisites == UNION {Table[i].requires : i \in DOMAIN Table}
Return ==
  /\ phase = "running" /\ todo = <<>> /\ final = <<>>
  /\ phase' = "idle"
  /\ passed' = passed \cup
       (IF verdict = "pass" THEN {Table[cursor].id} \cap Prerequisites ELSE {})
  /\ UNCHANGED <<directory, session, server, cursor, todo, final, verdict, faults, runs, facts>>

Next ==
  \/ Probe \/ Start \/ PassOver \/ NewRun \/ Drop
  \/ Call \/ Deviate \/ Raise \/ EnterTry \/ Finally \/ Return

Spec == Init /\ [][Next]_vars

-----------------------------------------------------------------------------
\* Properties.

Ended == phase = "idle" /\ verdict # "none"

\* A run leaves the seed intact (CHANGELOG.md: "Full runs leave the seed intact"):
\* whatever is selected, and in the second run as in the first, on a conformant
\* server every assertion ends on the directory it found, the passwords of the
\* accounts included.
SeedIntact == phase = "idle" /\ faults = 0 => OnTheSeed

\* When the server was declared read-only and conforms, no entry is added, removed
\* or modified: the one exception is bob's password, which 3062.2.1 changes and
\* restores without being declared as mutating.
ReadOnlyUntouched ==
  ~writable /\ faults = 0 => present = Seed /\ altered \subseteq {"bob"}
               /\ (phase = "running" /\ altered # {} => Table[cursor].id = "3062.2.1")

\* A finally clause does its work: one wrong answer or exception inside the try
\* block, whatever its effect, leaves nothing behind.
FinallyCleans ==
  Ended /\ "guarded" \in facts /\ facts \cap {"dirty", "dead", "fault", "uncleaned"} = {}
    => OnTheSeed

\* An assertion that wipes its entry before it starts.
WipesFirst(a) ==
  \E i \in DOMAIN a.script :
    a.script[i].kind = "cleanup" /\ \A j \in 1..i : a.script[j].req.kind # "add"

\* A FAIL is the server's fault, or has one of the reasons the suites leave to
\* the operator: the connection died, an assertion that does not wipe first found
\* the leftover of an earlier run, or one that uses the session as it found it
\* was run before any bind on a server that refuses anonymous reads.  Where
\* anonymous reads are allowed only 4511.4.8.4 depends on what ran before it.
FailsForAReason ==
  Ended /\ verdict = "fail" =>
    \/ facts \cap {"fault", "guarded", "uncleaned", "dead"} # {}
    \/ "dirty" \in facts /\ ~WipesFirst(Table[cursor])
    \/ "unbound" \in facts /\ (anonReads => Table[cursor].id = "4511.4.8.4")

\* design-notes.md: "When `writable` is false, mutating assertions
\* `NOT_APPLICABLE`"; a server under test is one "whose data must not be touched".
ReadOnlyMeansReadOnly == ~writable => OnTheSeed
=============================================================================
