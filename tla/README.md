# Formal models of bauble

bauble is a conformance test runner for LDAP servers: a registry of assertions
translated from the RFCs, an engine that selects, orders and runs them against
one server, a client layer (ldap3, and hand-made BER on bare sockets),
disposable podman targets to test against, and reporters that turn the verdicts
into a statement about conformance. This directory holds TLA+ models of it, the
TLC configurations that check them, and proofs for the TLA+ proof system. Paths
below are relative to `src/bauble/` of the repository, or to its root for
`docs/`, `tests/` and `CHANGELOG.md`.

Run a check with `tlc -config MCEngine_graphs.cfg MCEngine`, a proof with
`tlapm EngineProofs.tla`.

## Inventory

| Component | State | Operations | What is hard about it | What makes it correct |
|---|---|---|---|---|
| Execution engine (`runner.py`: `run`, `_topo_sort`, `_decide`) | selection, sort stack and `done`, results in order | select, sort by `requires`, gate, call runner, record | cycles and dangling ids in `requires`; a runner that raises, hangs or is interrupted | each selected assertion gets one final verdict, never before its prerequisites; the gates decide as `Verdicts` says |
| Registry and selector (`registry.py`, `selector.py`, `model.py`) | tables filled at import | register, match | registration order is arbitrary | unique ids; every dimension of the selector applied |
| Capability (`capability.py`) | declared statement, probed statement | load, probe the root DSE, merge, `supports` | the probe changes the identity on the connection; four sources of `writable` | nothing writes to a server that was declared read-only or not at all |
| Session harness (`harness.py`, `session.py`) | one ldap3 connection, `_opened`, bound identity | bind, search, add, modify, delete, ..., unbind | all assertions share it: identity and loss carry over | a FAIL is the server's fault |
| Suites (`suites/`) | entries in the directory, passwords | add, assert, clean up | an answer or exception between adding and removing; order of assertions; a second run | what an assertion adds it removes |
| Raw wire layer, connections (`raw.py`) | a socket per call, messageID counter | send, receive | pieces, late and unsolicited PDUs, timeout against close | a reported code is the server's answer to that request; every call returns |
| Raw wire layer, BER (`raw.py`) | none | build a PDU, parse a part of a stream | lengths and numbers at their boundaries; cuts anywhere; forms the client does not use itself | a server reads what the caller meant, the client what the server sent |
| Container fixtures (`fixtures/`) | the named container, its directory | build, start, ensure_running, seed | container boots and seeds beside the program; reuse after a failure | a fresh run begins on the seed; start ends |
| Reporters (`reporter.py`) | records | to_records, journal, profile_verdict, summary, JUnit | empty profiles; several views of one run; a journal cut short | the views agree with each other |
| Command line (`runner.py`: `main`) | the journal at `--out` | target or server, probe, run, render, judge | exceptions and Ctrl-C between the steps | the connection is given back, the exit code is deserved |
| Corpus, coverage, audit (`requirements/`, `coverage.py`, `audit.py`) | static tables | compare corpus with registry | none | counts add up |
| Scenarios and fake (`scenarios.py`, `_fake.py`) | in-memory directory | support for unit tests | none | behaves as a Session |
| Goldens (`ci/golden/`) | recorded verdicts | compare with a run | the journal compared may be an old one | see below |

**How they interact.** `main` starts or finds a container (`fixtures`), opens
one `LdapSession`, probes the capability over it, and calls `run` with the
selector, the registry, the merged capability and the session. `run` calls
runner functions of the suites one after the other, in one thread. A runner
uses the shared session, or opens a socket of its own through `raw`. `main`
finally unbinds, renders the results and chooses the exit code. The only
concurrency is with the outside: the container's entrypoint, the directory
server, the network and the operator's Ctrl-C. Nothing but the container and the
journal outlives an invocation.

The hazards of each component are in `PROJECT.json`, each at its line, with the
properties that would catch it going wrong.

## Modules

| Module | Models | Extends or uses |
|---|---|---|
| `Verdicts` | abstract: what a run promises | |
| `Engine` | `run`, `_topo_sort`, `_decide`; selector, registry and capability as inputs | implements `Verdicts` |
| `Fixture` | the four podman targets over many invocations | |
| `RawWire` | `RawConnection`, `RawSession` as the abandon assertions use it | |
| `Ber` | every builder and parser of `raw.py`, and the stream between them | |
| `Steps` | the vocabulary of a runner function: requests, codes, undo, finally | |
| `Rfc4511Scripts`, `SchemaScripts`, `ExtensionScripts` | each assertion as a script | `Steps` |
| `SuiteTable` | the registry in the order of registration | the three |
| `Suites` | a run of scripts on one session and one directory | `Steps` |
| `Discipline` | what the scripts have in common that leaves the seed intact, and the invariant of `Suites` it gives | `Suites` |
| `Blame` | what a script may take for granted before each of its steps, and so which codes it can meet; the invariant of `Suites` it gives | `Discipline` |
| `Report` | `profile_verdict`, summary, JUnit counts, gate, as operators on sets of records | |
| `Command` | `main` for `run` and `probe`, from arguments to exit code | `Report`, `Verdicts` |
| `EngineProofs`, `FixtureProofs`, `RawWireProofs`, `BerProofs`, `SuitesProofs` (with `Discipline` and `Blame`), `CommandProofs` (with `Report`) | theorems | each its module |
| `BerStreamProofs` | theorems about the messages in the stream of `Ber` | `BerProofs` |
| `BerAnswerProofs` | theorems about what is read out of the messages | `BerStreamProofs` |
| `MCEngine`, `MCFixture`, `MCRawWire`, `MCBer`, `MCSuites`, `MCCommand` | instances for TLC | each its module |

The modules meet where the program's parts do: `Command` has a run as `Verdicts`
describes it, which `Engine` implements; `Suites` executes the scripts of the
assertions that an engine may call, in the order of the registry; `RawWire` has
PDUs without octets, `Ber` octets without sockets.

### Engine

`setup` is the arguments of `run`; it is chosen initially and never changes.
`phase` says which loop runs and `cursor` where it is. The recursion of `visit`
is an explicit stack: `path` holds the nodes of the active Python frames,
`nextReq[a]` the position of a's frame in `for req in node.requires`. One
action is one iteration: `SelectNext`/`SelectionComplete` (the list
comprehension), `VisitSelected`/`VisitRequirement`/`FinishNode`/`SortComplete`
(`_topo_sort`), then one action per branch of `_decide`: `DecideBlocked`,
`DecideUntestable`, `DecideNotWritable`, `DecideUnsupported`, `CallRunner`.
A called runner is the state `phase = "running"`, from which `RunnerReturns`
(any status the suites use), `RunnerRaises` or `Interrupt` (Ctrl-C is not an
`Exception` and aborts the run) leads on. `results` is the dict, `out` the list,
and `cause` remembers the branch a verdict came from.

`Verdicts` is the promise without the algorithm: pending assertions are judged
when every prerequisite is satisfied, and blocked when one is outside the run or
has a verdict that does not satisfy, never before all prerequisites in the run
have theirs. `ImplementsVerdicts` is the refinement.

### Fixture

One container name over any number of invocations. `host` is the program's
place in `ensure_running`/`start`: inspect, build, remove (`podman rm -f`, whose
failure is ignored), create (`podman run`), `_wait_ready`, and for OpenDJ
and LLDAP the seeding by the program. In `_wait_ready` it is at the loop's test
(`wait`) or in a `podman exec` (`probing`), and `late` says that the deadline has
passed: the clock runs on in a probe, but only the test looks at it. Beside it run the container
(`container`, `listening`), its `entrypoint`, and the loading of the seed entry
by entry (`loaded`, `dit`). The four classes share the actions and differ in
`Load`, `Initial` and in what `Ready` looks at. `Interrupt` may strike between
any two steps; `Create` may fail and leave a container behind; `Remove` may do
nothing. `RunEnds` may leave an entry of a mutating assertion in the directory;
what the assertions do in between is `Suites`.

### RawWire

One call against one server. `Script` lists the requests of each method.
`sent` is what the server has sent; a PDU is a head and a tail, `taken` counts
how much the client has read, and one `recv` reads any nonempty part of what is
there (the calls in `Fragmented`) or any number of whole PDUs. `Returns` is what
`bind_then_send_raw` has of each PDU among the bytes it keeps, and `MayBeParsed`
what the parsers can make of them: from the head of a PDU on, the PDUs that are
there whole; from inside a PDU, anything, as `_last_complete_message` skips to the
next octet 0x30 wherever that stands. `Parsed` gives
what the parsers make of such a read: they look at the first message only,
ignore its messageID, and, on a message cut off, raise, refuse, or read a missing
result code as 0. `TimeOut` may happen at any time while something can still
arrive, as bytes may be on their way longer than the timeout. The server takes
requests in order, answers them in parallel, honours an abandon or not, may
close at any point and may send a Notice of Disconnection. `modify_increment` is
`bind_then_send` or `raw_send` with a particular request.

### Ber

Octets are numbers, texts are sequences of octets. The first half is the
builders, each the expression the method computes. `Elements` and `Meant` are
the other side: a server's BER decoder, and the tree of elements that the caller
of a builder asked for. The second half is the parsers. They all walk the data
with a position, a length and early returns, so they are written on a cursor:
`Enter` steps past an expected tag and its length, `Skip` past a whole element,
`Optional` past one that may be missing; a cursor gives up on another tag and
raises where the code indexes beyond the data. The loops over messages and lists
are recursive functions. `Wire` is the server: any form of length, not only the
shortest. The behaviour is a request that is built, or a stream of messages that
arrives octet by octet, so that every prefix is a state in which every parser is
judged. Bounds of the module: numbers are below 2^31, as those of LDAP are
(`RequestsAssumption`, which otherwise only says that a method is called with
arguments of its signature); a server writes a messageID and a code of one
octet, and each length in a form that has room for it (`AnswersAssumption`; it
demands that of the whole message, whose contents are as long as any of its parts);
a request is `Encodable`: all of it is at most 65539 octets, of which 65535 are contents
(beyond that the length wraps, see `LengthsWrap`), the controls and the filter that a caller
hands over are elements themselves, and the characters of an extensible filter, which
the code counts, are octets (every request of the run is);
object identifiers and the names of attributes are ASCII, so that decoding them
changes nothing (`Names`), and an entry has each attribute once, as the dict has that
the code makes of it (`Entries`).

### Suites and the scripts

A runner function is a script: the sequence of its requests, each with what the
function does about every result code (go on, note, or return a verdict), the
undo before a return, the cleanups whose failure is ignored, and the `try` with
its `finally`. Requests name the entries they are about, by their RDN, and the
set of codes with which a conformant server may answer when everything is in
place; what they carry beyond that (filters, attributes, controls, octets) shows
in those codes. A code 16 stands for a well-formed answer without what the code
looks for. A script is thus shorter than its function and has all its control.
`SuiteTable` lists the about 170 assertions that have a runner in the order of
registration.

`Suites` runs them: `Probe` leaves the session bound as it does in
`probe_capability`; `Start` and `PassOver` are the engine's choice;
`Call` is a request the server answers as a conformant one, given the
entries, the passwords and the identity of the connection it came on; `Deviate`
one it answers otherwise, with or without the effect; `Raise` an exception,
which a dead connection always gives; `Drop` the loss of the shared connection,
after which `_opened` is still true. `EnterTry`, `Finally` and `Return` are the
Python. `NewRun` is another invocation on the same directory.

`Discipline` says of a script, without executing it, what its steps may leave
behind and where that is removed again, and what makes it a disciplined one:

* before a `try`, a step that may return does so only where everything made so
  far has been removed and every password put back, or where the answer it
  returns on shows that there was nothing (`LeftOnReturn`, `ChangedOnReturn`);
  nothing deletes or renames an entry of the seed;
* the deletions that count are sent with the administrator's identity, bound by
  the script itself (`AsAdmin`), and those of a parent come after those of its
  children (`Removes`);
* a `try` is entered with nothing left that its `finally` does not delete; no
  step of the block rebinds the session, touches the seed or makes an entry that
  the clause does not delete, and no step of the clause can end it early
  (`OpensTry`, `Bounded`, `Tidy`);
* an assertion that is not declared to mutate makes nothing that a conformant
  server would accept, and none but 3062.2.1 changes a password (`Innocent`).

`DisciplineAssumption` is that every script of the table is like that. TLC
evaluates it on the registry in the run `registry`: a new assertion that cleans up
on one path only breaks the assumption, and with it the proofs' reach, at once.

`Blame` asks of a script which codes a conformant server may answer at each of its
steps, again without executing it. `Known(s, start)[n]` is what is known after n
steps: the entries that may be in the directory and those that surely are, the
same for the entries that are altered, whom the connection may be bound as, and
whether the assertion has bound it or used it as it was. `MayObject` and
`MustObject` are `Objections` between these two bounds, `Expected` the codes that
follow from them, and `After` what a step adds: whether the request can have had
its effect, or must have, given that the function goes on. A script begins on the
seed (`OnSeed`), or on the seed with everything that any script may leave or alter
(`OnLitter`). `BlamelessAssumption` is that no expected code makes an
assertion fail: no assertion that begins on the seed, and none that wipes first
whatever it begins on; that the steps of an undo or a finally clause fail nothing; and
that no request deletes or renames an entry of the seed. 4511.4.8.4 is excepted, as
it deletes under whatever identity it finds. TLC evaluates this on the registry, too.

### Report and Command

`Report` has the reporters as operators on sets of records. `Command` is one
invocation: `stage` is the place in `main`, each action one call from there with
all it may do: `Resolve` (`resolve_capability`), `FixtureUp`, `Probe`, `Decide`
(a step of `run`, as `Verdicts` has it), `RunReturns`, `Unbind`, `PrintReport`,
`WriteJournal`, `Judge`; and for each stage what an exception or Ctrl-C there
does (`ResolveRaises`, `FixtureRaises`, `ProbeRaises`, `Interrupted`,
`UnbindRaises`, `JournalFails`, `ReportRaises`): `raised` remembers where it
was and which of the two. `link` is the session's connection, `half`
being one on which StartTLS failed after the connect: `_opened` is still false.
A runner changes it too (`SessionAfter`): 4511.4.3.1, in `Unbinding`, unbinds, and
the next operation opens the connection again, or fails to.
`file` is what lies at `--out`, maybe from an earlier invocation.

## Runs

| Run | Question | Bounds |
|---|---|---|
| `graphs` | has each assertion one well-founded, final verdict on every `requires` graph, and does the run end unless a runner hangs? | three assertions, up to two prerequisites each in every order, cycles and self references, each assertion in turn excluded |
| `gates` | is every verdict that the mutation, feature and class gates give one that `Verdicts` allows? | four assertions in four graphs, every mixture of four kinds, capabilities and `--allow-mutation`, with a runner missing or not |
| `targets` | do fresh runs begin on the seed, do reused containers hold it, does `start()` end? | all four targets, unbounded invocations |
| `race389` | violation: a run on 389 DS begins before its seed is loaded | 389 DS |
| `wire` | is a reported success the operation's own answer, does what `bind_then_send_raw` keeps answer the search, does every call return? | all seven calls, notices; reads cut anywhere in the call that keeps a stream; no entry or notice once five PDUs were sent |
| `ber` | does a server read what the caller meant, and do the parsers find exactly what is in the stream? | every builder with texts of 0, 1, 127, 128, 255 and 256 octets and numbers around 2^7, 2^8, 2^15 and 2^23; every prefix of the streams of one or two of nine messages |
| `abandon` | violation: the AbandonRequest names another operation | every AbandonRequest of `ber` |
| `creds` | violation: `serverSaslCreds` are not found | one message |
| `registry` | what does a run leave behind, whom does that hurt, what may a FAIL mean? | the whole registry, any part of it selected, two runs on one directory, one deviation, exception or lost connection anywhere; the discipline of every script |
| `read_only` | violation: an assertion writes to a server declared read-only | that assertion |
| `exits` | are exit code, summary, JUnit report and journal those of what happened, is the connection given back as far as `unbind` gets, is a server spared of which nothing was declared? | every combination of the options, four assertions, four selections, exceptions and interrupts at every stage, an earlier journal or none |
| `consent` | violation: writes to a server under a capability file silent on `writable` | as in `exits` |

**Why the bounds suffice.** A cycle through three nodes, a self loop, two routes
to one prerequisite and a prerequisite reached before its own turn all occur
with three assertions; the gates read one assertion and its prerequisites only,
and the chain behind a prerequisite shows in four. `Fixture` has no bound: its
counters are bounded by the length of the seed, and the leftovers of any number
of runs are one entry. In `RawWire` the longest script has four requests, and
five PDUs let the stream be cut in every place of an entry sequence, with a
notice or a late answer in it. `MaxSent` also makes the server stop sending:
`CallReturns` says that a call returns once the server is quiet, and nothing
about `bind_then_send_raw` on a server that never pauses. In `Ber` the sizes are
those at which an encoding changes, for the text itself and for the elements
around it, and two messages are enough for one to be taken for the other; the
lengths above are proved. In `Suites` a second run sees what the first left, and
the third starts where the second did, as the seed or one leftover is all a
single deviation can leave; two deviations, as in one `try` block and its
clause, are left to the theorems, which are about any number of them. In `Command` the four assertions have three
RFCs, two profiles, three layers, two OIDs and a prerequisite, so that every
line of the summary has something to count and something to leave out.

The runs that stop (a process after its return, `Suites` after its last run) say
`CHECK_DEADLOCK FALSE`; `Fixture` never stops and is checked for deadlock.

**What the properties of `Suites` say.** `SeedIntact`: on a conformant server every
assertion ends on the seed, passwords included, whatever is selected and however
often it is run. `FinallyCleans`: one wrong answer or exception inside a `try`
leaves nothing behind. `ReadOnlyUntouched`: without the capability nothing is
written, but by the one assertion that does not declare it.
`FailsForAReason` names all the reasons for which a FAIL may not be the server's
fault: the connection died, a leftover of an earlier run was met by an assertion
that does not wipe first, or the identity was inherited on a server that refuses
anonymous reads. Where it allows them, 4511.4.8.4 alone depends on what ran before.
These reasons are hazards of the code, and `FailsForAReason` does not catch them: it
says that there are no others.

**What the properties of `Command` leave open.** `ConnectionGivenBack` excepts an
exception in the probe of a run, which stands before the `try`, and one in `unbind`
itself; nothing could be given back there. `JournalErrsOneWay` is about a journal this
run has written to: an earlier one that could not be replaced stays as it is
(`JournalFails`), and nothing in it tells the reader. A journal cut short is allowed
too; what is missing is missing at the end, and can only make the verdict better.
`UndeclaredServersAreSpared` is about servers of which nothing was declared, or
`writable = false`; that a file silent on `writable` counts as declaring it is what
`consent` shows.

## Fairness

* `Engine`: weak fairness of the engine's own steps, a sequential program that
  keeps executing. A runner's return is not assumed, as ldap3 is given no
  receive timeout: `RunEnds` is conditional on runners that do not hang.
* `Fixture`: weak fairness of the loop's test between two probes, by which the
  program goes on or gives up, and of the clock. No podman command is assumed to
  return, a probe included, as `subprocess.run` is given no timeout; so `StartEnds`
  has that for its premise (again and again the program waits for none). It says that the
  loop of readiness ends however often it is entered and whatever the probes say. The
  container is never assumed to boot, to load or to survive.
* `RawWire`: weak fairness of the client's steps: `connect`, `sendall` and
  `recv` return, the last one after its timeout at the latest. Nothing is assumed
  of the server.
* `Ber`, `Suites`, `Command`: no liveness property, none needed. That an
  invocation ends is a matter of its parts, and is checked there.

## Proofs

Everything below is checked by `tlapm` for every value of the constants, from
the assumptions named in the modules: finitely many ids and setups of their type
in which no id is registered twice, which `Registry.register` enforces
(`IdsAssumption`, `SetupsAssumption`), targets that exist
(`TargetsAssumption`), scripts that follow the discipline
and blame no conformant server (`DisciplineAssumption`, `BlamelessAssumption`), requests within the signatures of the methods and
messages in a form of length with room for them (`RequestsAssumption`,
`AnswersAssumption`), and types (`WireAssumption`, `BerAssumption`,
`TableAssumption`, `OptionsAssumption` and the like).

`EngineProofs`:

* `TypeCorrect`.
* `VerdictsStay`, `OneVerdictEach`: from an invariant that ties the selection to
  the positions already scanned, the nodes on the stack and in `done` to the
  selection, and the output to the prefix of `ordered` before the cursor. The
  stack holds no node twice, which is what makes cycles harmless.
* `VerdictsAreGrounded`, `CyclesStayBlocked`: a verdict not caused by a
  prerequisite was recorded when every prerequisite had one that satisfies;
  in a set of assertions each of which needs another of the set, none can be the
  first to get such a verdict.
* `PrerequisitesComeFirst`, `BlockingIsDeserved`: with a rank function on an
  acyclic graph, a node on the stack outranks those above it, so a prerequisite
  found in progress is impossible and each finished node stands behind its own.
* `RunImplementsVerdicts`: initial states map to initial states, each recording
  step to `Judge` or `Block`, every other step to a stutter. It assumes that no
  setup's graph has a cycle; on a cycle the code blocks an assertion behind one
  that has not had its turn, which `Verdicts` does not allow.

`FixtureProofs`, where 389 DS is not among the targets (for it `race389` shows
the opposite):

* `FreshStart`: inside `start()` the directory is what the image brought and
  what has been loaded so far (`SeedingInv`); the loop of readiness can leave
  only with nothing loaded, the seeding only with everything.
* `ReuseFindsTheSeedHolds`: between two starts nothing takes an entry of the
  seed away, and a container runs only because a start created it
  (`ReuseInv`); the start before must not have been broken off.

`RawWireProofs`:

* `TypeCorrect`, from `Typed`: a call hands out a PDU's code, so the invariant
  knows which kinds of PDU carry which codes.
* `ReportedCodeHolds`, where `recv` returns whole PDUs to every call but
  `bind_then_send_raw`. `Flow` says that the server works on and answers only
  requests already sent, `Once` that the first request of a script is answered
  once, `Aligned` that reads stop between PDUs and that `bind_then_send` sends its
  operation only with the bind's answer behind it: so a late answer to the bind
  is never read as the operation's.
* `PassHolds`, under the same condition: what an abandon assertion takes for the
  answer to its follow-up stands behind the whole answer to its bind (`Behind`).
* `StreamHolds`, for reads of any size, notices included. `Kept` says that the
  bind's answer is the first PDU and that the bytes kept begin behind its first
  octet at the earliest: so they hold none of it, or its rest at their very front.

`BerProofs` begins with what the library lacks. Its theorems about induction and
about recursive functions have operators as parameters, which the provers cannot instantiate. The same facts
are stated here about sets and functions and derived from the minimality of a
well-founded relation, which is a theorem about sets: `AllBelow` is induction for
the numbers in a set, `RecursiveFunction` says that a recursive definition with one
call, on an argument with a smaller measure, is satisfied by some function, and
`FlattenGrows` that `FlattenSeq` of one more sequence is that sequence appended.
The rest is about the operators that everything else in `Ber` is made of:

* `LengthsReadBack`: every length below 65536 is read back, whatever follows it;
  `LengthsWrap`: every one from there on is read back as a smaller one.
* `NumbersReadBack`: one to four octets, the first without its top bit.
* `ElementsReadBack`: what is put into an element is taken out of it, and the
  cursor goes on exactly behind it. The argument is where the two slices fall
  (`SliceAtBorder`) once the length is known to be read back.
* `CookiesReadBack`: from these, that the cookie of a paged search survives
  `paged_results_control_value` and `parse_paged_cookie`.
* `SplitUnfolds`, `LastUnfolds`: each loop of the parsers satisfies its own
  definition, on data of any length. What is left to read gets shorter with every
  turn (`EnterTyped`), so `RecursiveFunction` gives such a function.
* `PdusAndStreamTyped`: `TypeOK` of every builder and of everything the server
  writes, one lemma for each (`BuildTyped`, `WireTyped`). That the buffer is a
  beginning of the stream survives a message more (`BeginningStays`) and an octet
  more (`OneMore`).
* `RequestsAreUnderstood`: `RequestsDecode` for every request but the AbandonRequest.
  `Elements` is a recursive function on texts that calls itself for what is inside an
  element and for what is behind it, both shorter; that it satisfies its own
  definition (`ElementsUnfold`) comes from approximations, functions that satisfy it on all texts up to a
  length. From there the argument is about texts and never about the decoder:
  `Decodes(x, y)` says that a text x is read as the elements y wherever it stands,
  whatever follows it, up to the size three octets of length have room for.
  Nothing decodes to nothing, an octet string, a number and an element around
  something that decodes do (`StringDecodes`, and those beside it), and so do two texts
  one behind the other and a list (`ListDecodes`), by induction over the list. Each
  builder is then an expression made of these (`BuildDecodes`), and `Sending` says that
  what the client has sent is what the builder returned.

`BerStreamProofs`: `WholeMessagesAreFound`, for any number of messages of any size,
each in its own form of length. `ServerLengthReads` says that each of the five
forms is read back; `Framed`, that the parsers take a message off whole whatever
follows it, and find it cut if they get only a part of it with at least two octets
(`FrameTakenWhole`, `FrameCut`: the part may end within the length itself, whose
first octet alone then already reaches beyond the end). `ReadsThrough` is the
induction over the messages: what a loop makes of k messages and anything behind
them is these k and what it makes of the rest. `CutPoint` says what the rest is: a
beginning of the next message that is shorter than it. No induction over the states
is needed beyond `TypeOK`; that is what makes the property hold wherever the stream
is cut.

`BerAnswerProofs`, about what the parsers make of a message inside:

* `AnswersAreReadBack`: `StreamIsReadBack`, whatever texts, entries and controls the
  messages carry, in every form of length. (The code is proved to be that of the last
  message that has one, of whatever kind, in `CodeOfStream`; the property says what
  that is good for: it is the search's, where the search's result is that message.) One step is `ElementTaken`: `Enter` on an
  element that fits its form (`Fits`) leaves a cursor on its contents and, behind
  it, on what follows (`Took`). A parser is a sequence of such steps along the
  fields of a message, so there is a lemma for each kind of thing that is read:
  an attribute, an entry, a cookie, a sort result, a control, a code
  (`AttributeReads` to `CodeReads`). The loops over lists are `ListReads`, by
  induction over the list as in `ReadsThrough`; the loops over messages come from
  `WholeMessagesAreFound`, and what is read from each message is put together in
  the order of the stream (`ControlsOfStream`).
* `CutAnswersAreNoOther`: `CutAnswerIsNoOther`, wherever the read stops. The
  argument carries through a parser that what it has stepped over and what is still
  to come of the first message make the same text as what has been read and
  what is still to be read (`Midway`). Each step then ends in one of two ways
  (`Reached`): the header of the element has come whole, its length is the
  server's, and the cursor is on that part of its contents that has come; or the read
  ends within the header, and everything from there on is empty (`LengthCut`).
  The code is read as zero only where the read ends within the code's own header or
  right behind it: that is the range of lengths the property names (`AtCode`).

`SuitesProofs`, for every table of assertions, every server and any number of
faults and runs: `SuitesTypeCorrect`.

For every table whose scripts follow the discipline, every
tree of entries and any number of faults and runs: `SeedStaysIntact`,
`FinallyAlwaysCleans`, `ReadOnlyStaysUntouched`, and `AlwaysCovered`, the invariant
that they rest on. None of the three is inductive: in the middle of an assertion
the directory is not the seed. `Covered` says in which of three places the
assertion is. `InTheOpen(n)`: at step n of its script, with no more in the directory
than the steps before n may have left according to `Left` and `Changed`, and as the
administrator if `AsAdmin` says so. `Guarded`: in a `try` block, with nothing but
what the clause deletes, and as the administrator, however the server behaves.
`CleaningUp`: in the clause or on the way out of an early return, with nothing but
what the rest of it deletes. There is one lemma for each way a step leads from one
place to another, on an answer, a deviation, an exception and a lost
connection; a conformant answer leaves the open by a return only where the
discipline has nothing left. The analysis is by quantifiers over positions
(what is made at k and not removed at any j in between) and not by recursion over
the script, so that a step from n to n + 1 needs no induction. `Intact` adds
that without faults no assertion starts on anything but the seed, `Unstained` that
an innocent one never has anything to clean up.

`FailuresHaveReasons`, for every table that is disciplined and blameless, every server and any
number of faults and runs: `FailsForAReason`. What an assertion does after a
deviation is of no interest, as that is a reason; what others have left after theirs
is, and `Littered` bounds it: the seed is there whatever the server does, and what is
beside it some script adds. The invariant `Unblamed` says that an assertion without
an excuse so far has not formed the verdict FAIL, and that it is either at a step n where
what is known holds (`Done(n)`), or on its way out through steps that fail nothing
(`Leaving`). `ObjectionsForeseen` is that the server's objections lie between
`MayObject` and `MustObject` when what is known holds, `CodeExpected` that its code
is then an expected one, and `AfterHolds` that what `After` adds holds behind the
step. `Known` is a function defined by recursion over the script; `KnownUnfolds`
shows that such a function exists, by the least length for which there is none.

`CommandProofs`, for every finite set of records: `LinesAlwaysAgree`,
`JUnitAlwaysAddsUp`, `GateAlwaysMatches`; for every catalogue and every set of options:
`CommandTypeCorrect`, `SummariesAgree`, `JUnitReportsAddUp`, and from one inductive invariant
(`IInv`: what each stage knows of the connection, of the verdicts and of the
file) `ConnectionsAreGivenBack`, `ExitCodesAreDeserved`, `JournalsErrOneWay`,
`UndeclaredServersStaySpared`.

Every invariant and every action property of a passing run is proved, under the
conditions named above. The liveness
properties (`RunEnds`, `StartEnds`, `CallReturns`) are only model-checked: temporal
reasoning under fairness is out of the provers' reach.

## Disagreements between the code and what is written about it

The runs marked "violation" each show one; `findings` in `PROJECT.json` quotes
the line. In short: an AbandonRequest wraps the messageID into an INTEGER, where
the tag is implicit, and names another operation (the disconnect that
`docs/server-findings.md:34` blames on OpenLDAP begins where this element outgrows
four octets); serverSaslCreds are looked for under [0] instead of [7], so the
assertion that they are absent cannot fail; a 389 DS run can start on part of its
seed; 3062.2.1 writes to a server declared read-only; a capability file silent on
`writable` lets a run write to a `--server`, where `docs/operator-guide.md:102-104` and
`docs/design-notes.md:134-136` want it to say so.

Others that the models show or that came up in writing them, without a run:

* `docs/design-notes.md:165-167` has "every run starts from identical state".
  `ensure_running` asks podman whether the container runs and nothing else: one whose
  `start` was broken off before or in its seeding is used as it is (`mishap`), and one
  reused after a run may hold more than the seed (`RunEnds` leaves an entry).
* `verify_dit`, which nothing calls, "queries the server for all entries and compares
  against the base seed (6 entries)" (`CHANGELOG.md:17`). A search answers the referral
  entry `ou=remote` with a reference, so it counts as missing, and the exact seed is
  rejected.
* `bind_then_send_raw` discards the bind response by one `recv` (`raw.py:920`), which
  may return a part of it; what comes later of it is at the front of the bytes that the
  docstring calls "the raw operation-response bytes" (`start` odd, `MayBeParsed`).
* What comes in reply to the follow-up search is not looked at
  (`suites/rfc4511/abandon.py:88`): a late answer to the abandoned search passes for the
  "follow-up search succeeds" that line 71 expects.
* "`resultCode` comes from the SearchResultDone PDU" (`raw.py:690`): `ParseSearchCode` has
  it from the last message with a code, which may be a Notice of Disconnection.
* `Remove`: `start` removes and reseeds a container whose capability file says
  `resettable = false`; nothing reads that flag (`docs/design-notes.md:177`).
* "Each mutating assertion [...] removes it in a `finally` block"
  (`docs/design-notes.md:171-174`): add, delete, modify and modify DN in `suites/rfc4511`
  clean up after the assertion and outside any such clause, so that an exception
  leaves the entry. A refused rename leaves it under the name that is not cleaned up.
* 4511.4.8.4 has the precondition "Admin bound." and does not bind
  (`suites/rfc4511/delete.py:109`): on an anonymous connection it fails on a server that
  conforms.
* 4513.4.1.1 claims a "fresh session with no Bind performed" (`suites/rfc4513.py:23`) and runs
  on the shared one, with whatever identity that has.
* `tests/test_verdict_golden.py:6` says that it passes only when the run produces the
  golden verdicts. When `--out` cannot be written, `_render` says so on stderr, the
  exit code is 0 (`runner.py:306`), and the test compares the journal of an
  earlier run (`JournalFails` with `UNCHANGED output`).
* A silent server counts as one that disconnected (`raw.py:866`), and
  `suites/rfc4511/bind.py:225` passes it.
* `Parsed`, `CutAnswerIsNoOther`: a response cut in or behind the length of its result
  code is taken for a success, as the missing octet reads as 0 (`raw.py:394`).
  This is why only one call is in `Fragmented`: for the others
  `ReportedCodeIsTheAnswer` fails.
* `SplitIsExact`: one octet of a further message makes `_split_messages` raise.
* `Characters`: `build_extensible_match_filter` writes lengths in characters, not octets
  (`raw.py:768`); no suite passes it anything but ASCII, and the run has no other.
* `_encode_integer` raises for a negative number; no caller has one.
* `Satisfying`: NOT_APPLICABLE satisfies a prerequisite, of which `model.py:166`
  says that it "must pass". `Unsatisfied`: a prerequisite outside the selection
  blocks, so BLOCKED, "a prerequisite failed" in `model.py:67`, occurs without a
  failure.
* An exception exits with 1, as a failed gate does. A run whose summary is
  NON-CONFORMANT exits with 0 where mandatory assertions were blocked or not tested
  and none failed. The JUnit report counts failed SHOULD and MAY assertions as
  failures.
* `main` has its `try` after `_probe_and_merge`: an exception in the probe leaves the
  connection open (`ProbeRaises`).
* `_ensure_open` ignores what `start_tls` returns (`harness.py:97`), and when that
  raises, `_opened` is false and `unbind` does nothing (`half` in `Command`).

## Not modelled

* The texts of reports, TOML and JSON parsing, argument parsing: input and output.
* ldap3 itself, podman, the directory servers: external, modelled only by what
  the code can observe of them.
* The class B assertions, which have no runner, and the values an answer contains
  beyond what an assertion looks for.
* Two invocations at the same time on one container name: the code has no lock and
  no promise about it; the hazard stands in the list without a property.
* LLDAP's two listeners: readiness is asked of one and the run connects to the
  other, and neither code nor docs say how the image orders them.
* `requirements/`, `coverage.py`, `audit.py`: pure functions of tables that never
  change. `scenarios.py`, `_fake.py`: support of the unit tests. `ci/golden`: data.
* Registration at import and the registry's queries that no run uses.
