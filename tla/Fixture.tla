------------------------------ MODULE Fixture ------------------------------
(***************************************************************************)
(* The life of a podman fixture target: the container that bauble run      *)
(* --target and --fresh-target test against.  One container outlives many  *)
(* invocations of the program, and an invocation may fail or be            *)
(* interrupted anywhere between two podman commands.  Beside the program   *)
(* run, without any synchronisation but the polling in _wait_ready, the    *)
(* container's own entrypoint and the directory server in it.              *)
(*                                                                         *)
(* The four target classes share one course of actions and differ in who   *)
(* seeds the directory: the image (OpenLDAP), the entrypoint (389 DS) or   *)
(* the program (OpenDJ, LLDAP), and in what _wait_ready takes for ready.   *)
(***************************************************************************)
EXTENDS Naturals, Sequences, FiniteSets, Functions

CONSTANT Targets   \* the target types (--target-type) considered

TargetTypes == {"openldap", "389ds", "opendj", "lldap"}
ASSUME TargetsAssumption == Targets \subseteq TargetTypes

VARIABLES
  target,      \* the target type of every invocation
  host,        \* where the running invocation is; "idle" between two
  late,        \* the deadline of _wait_ready has passed
  started,     \* this invocation went through start()
  container,   \* podman's state of the container with the target's name
  listening,   \* the listeners in the container that accept connections
  entrypoint,  \* progress of the container's entrypoint
  loaded,      \* how many entries of the seed have been loaded one by one
  dit,         \* the entries in the directory
  mishap       \* some start() ended in an exception or an interrupt

vars == <<target, host, late, started, container, listening, entrypoint, loaded,
          dit, mishap>>
hostVars == <<target, host, late, started, mishap>>
podVars == <<container, listening, entrypoint, loaded, dit>>

Polling == {"wait", "probing"}   \* inside _wait_ready: at the loop's test, in a probe
Starting == {"build", "remove", "create", "seed_check", "seed"} \cup Polling
HostStates == {"idle", "inspect", "run"} \cup Starting

\* Here the program waits for a podman command, none of which it gives a timeout.
Commands == {"inspect", "build", "remove", "create", "probing", "seed_check", "seed"}

\* seed.ldif and seed-389.ldif, in the order of the file, and the entry a
\* mutating assertion adds and should remove.
SeedFile == <<"base", "people", "alice", "bob", "alias", "remote">>
ExpectedDNs == Range(SeedFile)
Leftover == "leftover"
Entries == ExpectedDNs \cup {Leftover}

\* What is loaded entry by entry after the container started: LLDAP's
\* bootstrap creates the two users, its two branches are built in.
Load(t) ==
  CASE t \in {"389ds", "opendj"} -> SeedFile
    [] t = "lldap" -> <<"alice", "bob">>
    [] t = "openldap" -> <<>>

\* The directory before that loading.
Initial(t) ==
  CASE t = "openldap" -> ExpectedDNs
    [] t = "lldap" -> {"base", "people"}
    [] t \in {"389ds", "opendj"} -> {}

Seed(t) == Initial(t) \cup Range(Load(t))

\* Whether the capability file of the target lets a run write.
Writable(t) == t # "lldap"

Serves == "ldap" \in listening

\* What the probe of _wait_ready finds, one definition per target class.
OpenLDAPReady == Serves
Directory389Ready == Serves /\ "base" \in dit
OpenDJReady == Serves
LLDAPReady == "http" \in listening

Ready ==
  CASE target = "openldap" -> OpenLDAPReady
    [] target = "389ds" -> Directory389Ready
    [] target = "opendj" -> OpenDJReady
    [] target = "lldap" -> LLDAPReady

Init ==
  /\ target \in Targets
  /\ host = "idle"
  /\ late = FALSE
  /\ started = FALSE
  /\ container = "absent"
  /\ listening = {}
  /\ entrypoint = "none"
  /\ loaded = 0
  /\ dit = {}
  /\ mishap = FALSE

-----------------------------------------------------------------------------
\* An invocation of bauble run.

\* main: --fresh-target builds and starts, --target ensures it is running.
Invoke ==
  /\ host = "idle"
  /\ host' \in {"inspect", "build"}
  /\ started' = FALSE
  /\ UNCHANGED <<target, late, mishap, podVars>>

\* The invocation ends in an exception inside ensure_running or start.
Raise ==
  /\ host' = "idle"
  /\ mishap' = TRUE
  /\ late' = FALSE
  /\ UNCHANGED <<target, started>>

GoTo(next) ==
  /\ host' = next
  /\ late' = (late /\ next \in Polling)
  /\ UNCHANGED <<target, started, mishap>>

\* ensure_running: a container that runs is used as it is.
EnsureRunning ==
  /\ host = "inspect"
  /\ GoTo(IF container = "running" THEN "run" ELSE "build")
  /\ UNCHANGED podVars

\* build: podman build for the two targets with an image of their own.
Build ==
  /\ host = "build"
  /\ \/ GoTo("remove")
     \/ target \in {"openldap", "389ds"} /\ Raise
  /\ UNCHANGED podVars

\* start, first stop: podman rm -f, whose failure nobody looks at.
Remove ==
  /\ host = "remove"
  /\ GoTo("create")
  /\ \/ /\ container' = "absent"
        /\ listening' = {}
        /\ entrypoint' = "none"
        /\ loaded' = 0
        /\ dit' = {}
     \/ UNCHANGED podVars

\* Mutant: a container that is still there is started again.
CreateOrRestart ==
  /\ host = "create"
  /\ container' = "running"
  /\ entrypoint' = "booting"
  /\ listening' = {}
  /\ dit' = dit \cup Initial(target)
  /\ host' = "wait"
  /\ started' = TRUE
  /\ UNCHANGED <<target, late, mishap, loaded>>

\* start, then podman run: refused while the name is taken; it may fail
\* after the container was created (the host port is in use).
Create ==
  /\ host = "create"
  /\ \/ /\ container = "absent"
        /\ container' = "running"
        /\ entrypoint' = "booting"
        /\ dit' = Initial(target)
        /\ host' = "wait"
        /\ started' = TRUE
        /\ UNCHANGED <<target, late, mishap, listening, loaded>>
     \/ /\ container = "absent"
        /\ container' \in {"absent", "exited"}
        /\ Raise
        /\ UNCHANGED <<listening, entrypoint, loaded, dit>>
     \/ /\ container # "absent"
        /\ Raise
        /\ UNCHANGED podVars

\* _wait_ready: before the deadline, one more probe by podman exec.
Probe ==
  /\ host = "wait" /\ ~late
  /\ GoTo("probing")
  /\ UNCHANGED podVars

\* The probe returns 0.
ProbeSucceeds ==
  /\ host = "probing"
  /\ Ready
  /\ GoTo(CASE target \in {"openldap", "389ds"} -> "run"
            [] target = "opendj" -> "seed_check"
            [] target = "lldap" -> "seed")
  /\ UNCHANGED podVars

\* Mutant: every probe sets a new deadline.
ProbeFailsAnew ==
  /\ host = "probing"
  /\ host' = "wait" /\ late' = FALSE
  /\ UNCHANGED <<target, started, mishap, podVars>>

\* The probe returns something else; it may have asked too early.
ProbeFails ==
  /\ host = "probing"
  /\ GoTo("wait")
  /\ UNCHANGED podVars

\* The clock reaches the deadline.
DeadlinePasses ==
  /\ host \in Polling /\ ~late
  /\ late' = TRUE
  /\ UNCHANGED <<target, host, started, mishap, podVars>>

\* The loop's test finds the deadline passed.
WaitTimesOut ==
  /\ host = "wait" /\ late
  /\ Raise
  /\ UNCHANGED podVars

\* Mutant: the search's return code is taken for the presence of the entry.
SeedCheckServes ==
  /\ host = "seed_check"
  /\ GoTo(IF Serves THEN "run" ELSE "seed")
  /\ UNCHANGED podVars

\* OpenDJTarget._seed: nothing to do when the base entry can be read.
SeedCheck ==
  /\ host = "seed_check"
  /\ GoTo(IF Serves /\ "base" \in dit THEN "run" ELSE "seed")
  /\ UNCHANGED podVars

\* Mutant: the loader does not notice that it is through.
LoadAgain ==
  /\ loaded' = loaded + 1
  /\ dit' = dit \cup Range(Load(target))
  /\ UNCHANGED <<container, listening, entrypoint>>

LoadNext ==
  /\ loaded < Len(Load(target))
  /\ loaded' = loaded + 1
  /\ dit' = dit \cup {Load(target)[loaded + 1]}
  /\ UNCHANGED <<container, listening, entrypoint>>

\* _seed of OpenDJ (ldapmodify) and LLDAP (bootstrap.sh), entry by entry.
SeedEntry ==
  /\ host = "seed"
  /\ container = "running" /\ listening # {}
  /\ LoadNext
  /\ UNCHANGED hostVars

SeedReturns ==
  /\ host = "seed"
  /\ loaded = Len(Load(target))
  /\ GoTo("run")
  /\ UNCHANGED podVars

\* The command fails, on its first entry or after its last.
SeedFails ==
  /\ host = "seed"
  /\ Raise
  /\ UNCHANGED podVars

\* The run is over, or was cut short.  The container is left running.  Every
\* mutating assertion has removed what it added, or, as the deletion is
\* best-effort and follows the assertion, has not.
RunEnds ==
  /\ host = "run"
  /\ GoTo("idle")
  /\ \/ UNCHANGED podVars
     \/ /\ Writable(target) /\ Serves
        /\ dit' = dit \cup {Leftover}
        /\ UNCHANGED <<container, listening, entrypoint, loaded>>

\* Ctrl-C, or the program is killed.
Interrupt ==
  /\ host # "idle"
  /\ host' = "idle"
  /\ late' = FALSE
  /\ mishap' = (mishap \/ host \in Starting)
  /\ UNCHANGED <<target, started, podVars>>

-----------------------------------------------------------------------------
\* The container.

\* The server, still booting, opens a listener.  LLDAP opens one for LDAP and
\* one for HTTP, in no particular order.
Listen ==
  /\ container = "running" /\ entrypoint = "booting"
  /\ \E l \in (IF target = "lldap" THEN {"ldap", "http"} ELSE {"ldap"}) \ listening :
       listening' = listening \cup {l}
  /\ entrypoint' = IF target = "lldap" /\ Cardinality(listening') < 2
                     THEN "booting"
                     ELSE IF target = "389ds" THEN "serving" ELSE "complete"
  /\ UNCHANGED <<hostVars, container, loaded, dit>>

\* entrypoint-389.sh: the suffix is there from an earlier start, or a backend
\* is created and ldapadd loads the seed.
CreateBackend ==
  /\ entrypoint = "serving"
  /\ entrypoint' = IF "base" \in dit THEN "complete" ELSE "loading"
  /\ UNCHANGED <<hostVars, container, listening, loaded, dit>>

EntrypointLoads ==
  /\ entrypoint = "loading"
  /\ LoadNext
  /\ UNCHANGED hostVars

EntrypointComplete ==
  /\ entrypoint = "loading"
  /\ loaded = Len(Load(target))
  /\ entrypoint' = "complete"
  /\ UNCHANGED <<hostVars, container, listening, loaded, dit>>

\* The container's first process ends, and the container with it: the server
\* dies, 389 DS is not there after the entrypoint's own deadline or refuses
\* the backend, or somebody stops it.
ContainerExits ==
  /\ container = "running"
  /\ container' = "exited"
  /\ listening' = {}
  /\ entrypoint' = "none"
  /\ UNCHANGED <<hostVars, loaded, dit>>

\* entrypoint.sh of OpenLDAP: slapd is a daemon beside "exec sleep infinity",
\* so the container survives it.
SlapdDies ==
  /\ target = "openldap" /\ container = "running" /\ Serves
  /\ listening' = {}
  /\ UNCHANGED <<hostVars, container, entrypoint, loaded, dit>>

-----------------------------------------------------------------------------
HostStep ==
  \/ EnsureRunning \/ Build \/ Remove \/ Create
  \/ Probe \/ ProbeSucceeds \/ ProbeFails \/ WaitTimesOut
  \/ SeedCheck \/ SeedEntry \/ SeedReturns \/ SeedFails

ContainerStep ==
  \/ Listen \/ CreateBackend \/ EntrypointLoads \/ EntrypointComplete
  \/ ContainerExits \/ SlapdDies

Next ==
  HostStep \/ ContainerStep \/ DeadlinePasses \/ Invoke \/ RunEnds \/ Interrupt

\* Between two probes the program goes on by itself, and the clock does.  Nothing
\* is assumed of podman, whose commands may hang, or of the container, which may
\* boot for ever.
Spec ==
  /\ Init /\ [][Next]_vars
  /\ WF_vars(Probe \/ WaitTimesOut)
  /\ WF_vars(DeadlinePasses)

-----------------------------------------------------------------------------
\* Properties.

TypeOK ==
  /\ target \in TargetTypes
  /\ host \in HostStates
  /\ late \in BOOLEAN /\ started \in BOOLEAN /\ mishap \in BOOLEAN
  /\ container \in {"absent", "running", "exited"}
  /\ listening \subseteq {"ldap", "http"}
  /\ entrypoint \in {"none", "booting", "serving", "loading", "complete"}
  /\ loaded \in 0..Len(SeedFile)
  /\ dit \subseteq Entries

\* Every target but 389 DS, whose entrypoint seeds the directory beside the
\* program and after the entry that start() waits for.
SeedsInTime == target # "389ds"

RunStarts == host # "run" /\ host' = "run"

\* A run that went through start() begins on exactly the seed, whatever
\* earlier invocations left in the container and wherever they broke off.
FreshRunsBeginOnTheSeed ==
  [][SeedsInTime /\ RunStarts /\ started => dit' = Seed(target)]_vars

\* A run that reuses the container finds the whole seed (and perhaps more),
\* as long as no start() before it was broken off.
ReuseFindsTheSeed ==
  SeedsInTime /\ host = "run" /\ ~mishap => Seed(target) \subseteq dit

\* If no podman command hangs, start() comes to an end, even on a container that
\* never gets ready: _wait_ready stops probing once its deadline has passed.
StartEnds ==
  []<>(host \notin Commands) => ((host \in Starting) ~> (host \notin Starting))

\* directory389.py: "A disposable, containerized 389 DS seeded with the bauble
\* base DIT".  start() returns once the base entry can be read.
EveryFreshRunBeginsOnTheSeed ==
  [][RunStarts /\ started => dit' = Seed(target)]_vars
=============================================================================
