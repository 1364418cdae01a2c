------------------------------- MODULE Command -------------------------------
(***************************************************************************)
(* One invocation of bauble, from its arguments to its exit code:          *)
(* runner.main for the commands run and probe, with resolve_capability,    *)
(* _probe_and_merge, _render and _conformance_failed.  The engine is       *)
(* Verdicts, what run promises (Engine.tla implements it); the fixture     *)
(* comes up or raises (Fixture.tla); a session is its connection.          *)
(*                                                                         *)
(* The journal of an earlier invocation may lie where this one is to write *)
(* its own, as in ci/artifacts.                                            *)
(***************************************************************************)
EXTENDS Report, Sequences, Functions

CONSTANTS
  Options,     \* the argument vectors considered
  Selections,  \* what selectors may select
  Unbinding,   \* the assertions that unbind the session: 4511.4.3.1
  Earlier      \* the journals that may lie at --out

\* where: what the assertions are to run against.  caps: --capability, which file,
\* and what it says of writable.
OptionRecords ==
  [command : {"run", "probe"},
   where : {"nowhere", "server", "writable fixture", "read-only fixture"},
   caps : {"none", "missing", "silent", "writable", "read-only"},
   starttls : BOOLEAN, allow : BOOLEAN, dry : BOOLEAN, gate : BOOLEAN, out : {"stdout", "journal"}]

ASSUME OptionsAssumption == Options \subseteq OptionRecords
ASSUME SelectionsAssumption == Selections \subseteq SUBSET Ids
ASSUME UnbindingAssumption == Unbinding \subseteq Ids
ASSUME EarlierAssumption == Earlier \subseteq Seq(Records)

VARIABLES
  options, stage,
  writable,   \* capability.writable, declared and merged
  plan,       \* the selection and its prerequisites, as Verdicts wants them
  verdict,    \* Verdicts: the verdict of each assertion
  results,    \* the list that run returns: the ids in their order
  link,       \* of the session: "none", "half", connected with _opened still
              \* false, "open", "closed"
  raised,     \* the exception that leaves main: the stage it left, and whether
              \* it is an interrupt from the keyboard
  file,       \* the journal at --out
  wrote,      \* how much of it is of this run: "nothing", "part", "all"
  exit        \* the exit code, -1 before

vars == <<options, stage, writable, plan, verdict, results, link, raised, file, wrote, exit>>
running == <<plan, verdict, results>>
output == <<file, wrote>>

V == INSTANCE Verdicts

Stages == {"parsed", "fixture", "probing", "running", "closing", "reporting",
           "judging", "exited"}

NoException == [at |-> "nowhere", interrupt |-> FALSE]
Exceptions == [at : Stages \cup {"nowhere"}, interrupt : BOOLEAN]

TypeOK ==
  /\ options \in Options /\ stage \in Stages /\ writable \in BOOLEAN
  /\ plan \in [selected : SUBSET Ids, requires : [Ids -> SUBSET Ids]]
  /\ verdict \in [Ids -> Statuses \cup {"none"}]
  /\ results \in Seq(Ids) /\ \A i, j \in DOMAIN results : results[i] = results[j] => i = j
  /\ Range(results) = {a \in Ids : verdict[a] # "none"}
  /\ link \in {"none", "half", "open", "closed"}
  /\ raised \in Exceptions
  /\ file \in Seq(Records) /\ wrote \in {"nothing", "part", "all"}
  /\ exit \in {-1, 0, 1, 2, 130} /\ (exit # -1 <=> stage = "exited")

Init ==
  /\ options \in Options
  /\ stage = "parsed" /\ writable = FALSE
  /\ \E s \in Selections :
       plan = [selected |-> s, requires |-> [a \in Ids |-> Catalogue[a].requires]]
  /\ verdict = [a \in Ids |-> "none"] /\ results = <<>>
  /\ link = "none" /\ raised = NoException
  /\ file \in Earlier /\ wrote = "nothing"
  /\ exit = -1

Exit(code) == stage' = "exited" /\ exit' = code
Raise(interrupt) == raised' = [at |-> stage, interrupt |-> interrupt]
\* An exception that nobody catches: the interpreter exits with 1, or 130 for an
\* interrupt.
Leave(exception) ==
  /\ raised' = exception
  /\ Exit(IF exception.interrupt THEN 130 ELSE 1)
Uncaught(interrupt) == Leave([at |-> stage, interrupt |-> interrupt])
GoTo(s) == stage' = s /\ UNCHANGED exit

-----------------------------------------------------------------------------
\* Before the session.

ProbeArguments ==
  /\ stage = "parsed" /\ options.command = "probe"
  /\ IF options.where = "server" THEN GoTo("probing") ELSE Exit(2)
  /\ UNCHANGED <<options, writable, running, link, raised, output>>

\* resolve_capability.  A file that does not mention writable declares it.
\* Mutant: Capability() where nothing is declared, as CHANGELOG.md has it of the past.
DeclaredWritableByDefault ==
  \/ options.caps \in {"silent", "writable"}
  \/ options.caps = "none" /\ options.where # "read-only fixture"
DeclaredWritable ==
  \/ options.caps \in {"silent", "writable"}
  \/ options.caps = "none" /\ options.where = "writable fixture"
  \/ options.caps = "none" /\ options.where \in {"server", "nowhere"} /\ options.allow

\* merged_with: the probed statement, never writable, adds features only.
Resolve ==
  /\ stage = "parsed" /\ options.command = "run" /\ options.caps # "missing"
  /\ writable' = DeclaredWritable
  /\ CASE options.dry -> Exit(0)
       [] ~options.dry /\ options.where = "nowhere" -> Exit(2)
       [] ~options.dry /\ options.where = "server" -> GoTo("probing")
       [] OTHER -> GoTo("fixture")
  /\ UNCHANGED <<options, running, link, raised, output>>

ResolveRaises ==
  /\ stage = "parsed" /\ options.command = "run" /\ options.caps = "missing"
  /\ Uncaught(FALSE)
  /\ UNCHANGED <<options, writable, running, link, output>>

FixtureUp ==
  /\ stage = "fixture" /\ GoTo("probing")
  /\ UNCHANGED <<options, writable, running, link, raised, output>>

FixtureRaises ==
  /\ stage = "fixture"
  /\ \E interrupt \in BOOLEAN : Uncaught(interrupt)
  /\ UNCHANGED <<options, writable, running, link, output>>

-----------------------------------------------------------------------------
\* The session.  The command probe has its probe inside the try, run before it.

Probe ==
  /\ stage = "probing"
  /\ link' = "open"
  /\ GoTo(IF options.command = "run" THEN "running" ELSE "closing")
  /\ UNCHANGED <<options, writable, running, raised, output>>

\* What an exception leaves of a session that was to be opened: _opened stays
\* false while StartTLS is outstanding, and for an instant after opening.
HalfOpened(interrupt) == IF options.starttls \/ interrupt THEN {"half"} ELSE {}

ProbeRaises ==
  /\ stage = "probing"
  /\ \E interrupt \in BOOLEAN :
       /\ link' \in {"none", "open"} \cup HalfOpened(interrupt)
       /\ IF options.command = "run" THEN Uncaught(interrupt)
          ELSE Raise(interrupt) /\ GoTo("closing")
  /\ UNCHANGED <<options, writable, running, output>>

\* The verdicts that are possible when no prerequisite stands in the way
\* (_decide; see Engine for the features).
Possible(a) ==
  CASE Catalogue[a].test_class \in {"B", "D"} -> {"untestable"}
    [] Catalogue[a].test_class \in {"A", "C"} /\ Catalogue[a].mutates
         /\ ~writable /\ ~options.allow -> {"not_applicable"}
    [] OTHER -> {"pass", "fail", "not_applicable"}

Executes(a) == "pass" \in Possible(a)

\* The session behind a runner, or in it when an interrupt comes: one that is not
\* open is opened again (_ensure_open), which may fail, as may StartTLS after it.
SessionAfter(a, interrupt) ==
  IF link = "open" THEN {"open"} \cup (IF a \in Unbinding THEN {"closed"} ELSE {})
  ELSE {"open", "closed"} \cup HalfOpened(interrupt)

\* Mutant: a blocked assertion is left out of the list that run returns.
DecideListingTested ==
  /\ stage = "running"
  /\ \E a \in Ids :
       \/ V!Block(a) /\ UNCHANGED results
       \/ \E v \in Possible(a) : V!Judge(a, v) /\ results' = Append(results, a)
  /\ UNCHANGED <<options, stage, writable, link, raised, output, exit>>

\* What a runner raises, that of opening the session included, becomes a FAIL.
Decide ==
  /\ stage = "running"
  /\ \E a \in Ids :
       /\ \/ V!Block(a) /\ UNCHANGED link
          \/ \E v \in Possible(a) : V!Judge(a, v) /\
               link' \in IF Executes(a) THEN SessionAfter(a, FALSE) ELSE {link}
       /\ results' = Append(results, a)
  /\ UNCHANGED <<options, stage, writable, raised, output, exit>>

RunReturns ==
  /\ stage = "running" /\ ~\E a \in Ids : V!Pending(a)
  /\ GoTo("closing")
  /\ UNCHANGED <<options, writable, running, link, raised, output>>

\* Mutant: the unbind is not in a finally clause.
InterruptedForGood ==
  /\ stage = "running"
  /\ Uncaught(TRUE)
  /\ UNCHANGED <<options, writable, running, link, output>>

\* An interrupt is the one exception that run lets through, between two
\* assertions or in a runner.
Interrupted ==
  /\ stage = "running"
  /\ link' \in {link} \cup
       UNION {SessionAfter(a, TRUE) : a \in {b \in Ids : V!Pending(b) /\ Executes(b)}}
  /\ Raise(TRUE) /\ GoTo("closing")
  /\ UNCHANGED <<options, writable, running, output>>

\* finally: session.unbind(), which looks at _opened; then the exception goes on.
Closed == IF link = "open" THEN "closed" ELSE link
Unbind ==
  /\ stage = "closing"
  /\ link' = Closed
  /\ CASE raised # NoException -> Leave(raised)
       [] raised = NoException /\ options.command = "probe" -> Exit(0) /\ UNCHANGED raised
       [] OTHER -> GoTo("reporting") /\ UNCHANGED raised
  /\ UNCHANGED <<options, writable, running, output>>

\* The unbind itself raises, on a connection that broke, or is interrupted, before
\* or after the connection is closed; its exception takes the place of another.
UnbindRaises ==
  /\ stage = "closing"
  /\ link' \in {link, Closed}
  /\ \E interrupt \in BOOLEAN : (interrupt \/ link = "open") /\ Uncaught(interrupt)
  /\ UNCHANGED <<options, writable, running, output>>

-----------------------------------------------------------------------------
\* The report and the exit code.

RecordOf(a) == [id |-> a, status |-> verdict[a]]
\* to_records
RunRecords == {RecordOf(a) : a \in Range(results)}
Journal == [i \in DOMAIN results |-> RecordOf(results[i])]
Lines(n) == SubSeq(Journal, 1, n)

PrintReport ==
  /\ stage = "reporting" /\ options.out = "stdout"
  /\ GoTo("judging")
  /\ UNCHANGED <<options, writable, running, link, raised, output>>

\* Mutant: the file is opened for appending.
AppendJournal ==
  /\ stage = "reporting" /\ options.out = "journal"
  /\ file' = file \o Journal /\ wrote' = "all"
  /\ GoTo("judging")
  /\ UNCHANGED <<options, writable, running, link, raised>>

WriteJournal ==
  /\ stage = "reporting" /\ options.out = "journal"
  /\ file' = Journal /\ wrote' = "all"
  /\ GoTo("judging")
  /\ UNCHANGED <<options, writable, running, link, raised>>

\* except OSError: a message, and on.  open fails and leaves the file alone, or
\* the file keeps what was written before the error (a line cut short is no
\* record: journal_loads skips it).
JournalFails ==
  /\ stage = "reporting" /\ options.out = "journal"
  /\ \/ UNCHANGED output
     \/ \E n \in 0..Len(results) : file' = Lines(n) /\ wrote' = "part"
  /\ GoTo("judging")
  /\ UNCHANGED <<options, writable, running, link, raised>>

\* An interrupt, or an error on stdout, which is not caught.
ReportRaises ==
  /\ stage = "reporting"
  /\ \E interrupt \in BOOLEAN :
       (interrupt \/ options.out = "stdout") /\ Uncaught(interrupt)
  /\ \/ UNCHANGED output
     \/ /\ options.out = "journal"
        /\ \E n \in 0..Len(results) : file' = Lines(n) /\ wrote' = "part"
  /\ UNCHANGED <<options, writable, running, link>>

\* return 1 if (args.exit_code and _conformance_failed(results, registry)) else 0
Judge ==
  /\ stage = "judging"
  /\ Exit(IF options.gate /\ ConformanceFailed(RunRecords) THEN 1 ELSE 0)
  /\ UNCHANGED <<options, writable, running, link, raised, output>>

Next ==
  \/ ProbeArguments \/ Resolve \/ ResolveRaises \/ FixtureUp \/ FixtureRaises
  \/ Probe \/ ProbeRaises \/ Decide \/ RunReturns \/ Interrupted
  \/ Unbind \/ UnbindRaises \/ PrintReport \/ WriteJournal \/ JournalFails \/ ReportRaises \/ Judge

Spec == Init /\ [][Next]_vars

-----------------------------------------------------------------------------
\* Properties.

Exited == stage = "exited"
\* The assertions were run, and main returned.
Completed == Exited /\ raised = NoException /\ options.command = "run" /\ exit # 2 /\ ~options.dry

\* However the invocation ends, and whatever the assertions did with the session,
\* it is not left open, except by an exception in the probe of a run, which stands
\* before the try, or in the unbind itself; and not connected with _opened false,
\* where unbind does nothing, except under --starttls or by an interrupt.
ConnectionGivenBack ==
  Exited =>
    /\ link = "open" =>
         raised.at = "closing" \/ (raised.at = "probing" /\ options.command = "run")
    /\ link = "half" => options.starttls \/ raised.interrupt

\* --exit-code, "exits 1 when a MUST class-A assertion fails" (CHANGELOG.md): 0
\* means that every selected assertion has a verdict and no mandatory one failed,
\* and the summary is CONFORMANT unless a mandatory assertion could not be tested;
\* 1 without an exception means that the summary is not.
ExitCodeIsDeserved ==
  Completed /\ options.gate =>
    /\ exit = 1 => ~Overall(RunRecords)
    /\ exit = 0 =>
         /\ Range(results) = plan.selected
         /\ \A a \in plan.selected :
              verdict[a] = "fail" =>
                Catalogue[a].severity # "must" \/ Catalogue[a].test_class # "A"
         /\ ~Overall(RunRecords) => Having(MustA(RunRecords), {"blocked", "untestable"}) # {}

\* Whatever the results of the run, the lines of its summary agree with each other
\* (reporter.SummaryReporter counts every line from the records anew).
SummaryAgrees == stage = "reporting" => LinesAgree(RunRecords)

\* A test case of the JUnit report is failed, skipped or passed, and only passed
\* assertions are passed.
JUnitIsComplete == stage = "reporting" => JUnitAddsUp(RunRecords)

\* The journal, "the source of truth", once this run has written to it: it begins
\* as the run's records do, in their order, so that what is missing is missing at
\* the end; and that can turn NON-CONFORMANT into CONFORMANT, never the other way.
JournalErrsOneWay ==
  wrote # "nothing" =>
    /\ Len(file) \in 0..Len(results) /\ file = Lines(Len(file))
    /\ wrote = "all" => file = Journal
    /\ Overall(RunRecords) => Overall(Range(file))

\* A server about which nothing was declared, neither a capability file nor a
\* fixture given, and one declared with writable = false: without --allow-mutation
\* no assertion that modifies entries is executed there.
UndeclaredServersAreSpared ==
  (/\ ~options.allow
   /\ \/ options.caps = "read-only"
      \/ options.caps = "none" /\ options.where \in {"server", "read-only fixture"})
  => \A a \in Ids : Catalogue[a].mutates => verdict[a] \notin {"pass", "fail"}

\* CHANGELOG.md, of a run against --server: "mutations require `--allow-mutation`
\* or a capability file declaring `writable = true`".
NoWriteWithoutConsent ==
  options.where = "server" /\ (\E a \in Ids : Catalogue[a].mutates /\ verdict[a] \in {"pass", "fail"})
  => options.allow \/ options.caps = "writable"
=============================================================================
