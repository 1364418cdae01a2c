--------------------------- MODULE FixtureProofs ---------------------------
(***************************************************************************)
(* Theorems about Fixture: type correctness, and, for a target whose seed  *)
(* is in place before the program asks whether it is ready (every target   *)
(* type but 389 DS), that a fresh run begins on exactly the seed, and a    *)
(* run on a reused container on at least the seed.                         *)
(***************************************************************************)
EXTENDS Fixture, SequenceTheorems, TLAPS

\* seed.ldif and seed-389.ldif hold six entries.
LEMMA SeedFileLength == Len(SeedFile) \in Nat /\ 0 \in 0..Len(SeedFile)
<1>1. Len(SeedFile) = 6
  BY DEF SeedFile
<1> QED
  BY <1>1

\* What Load and Initial are for each target type.
LEMMA LoadShape ==
  ASSUME NEW t \in TargetTypes
  PROVE  /\ Load(t) \in Seq(ExpectedDNs)
         /\ Len(Load(t)) <= Len(SeedFile)
         /\ Initial(t) \subseteq ExpectedDNs
<1>1. SeedFile \in Seq(ExpectedDNs) /\ Len(SeedFile) = 6
  BY DEF SeedFile, ExpectedDNs, Range
<1>2. {"alice", "bob", "base", "people"} \subseteq ExpectedDNs
  <2>1. SeedFile[1] = "base" /\ SeedFile[2] = "people" /\ SeedFile[3] = "alice"
        /\ SeedFile[4] = "bob" /\ 1..4 \subseteq DOMAIN SeedFile
    BY DEF SeedFile
  <2>2. SeedFile[1] \in Range(SeedFile) /\ SeedFile[2] \in Range(SeedFile)
        /\ SeedFile[3] \in Range(SeedFile) /\ SeedFile[4] \in Range(SeedFile)
    BY <2>1 DEF Range
  <2> QED
    BY <2>1, <2>2 DEF ExpectedDNs
<1>3. CASE t \in {"389ds", "opendj"}
  <2>1. Load(t) = SeedFile
    BY <1>3 DEF Load
  <2>2. Initial(t) = {}
    BY <1>3 DEF Initial
  <2>3. Len(SeedFile) <= Len(SeedFile)
    BY <1>1
  <2> QED
    BY <1>1, <2>1, <2>2, <2>3
<1>4. CASE t = "lldap"
  BY <1>1, <1>2, <1>4 DEF Load, Initial
<1>5. CASE t = "openldap"
  BY <1>1, <1>5 DEF Load, Initial
<1> QED
  BY <1>3, <1>4, <1>5 DEF TargetTypes

\* The podman and directory part of a step that loads one more entry.
LEMMA LoadNextType ==
  ASSUME TypeOK, LoadNext
  PROVE  loaded' \in 0..Len(SeedFile) /\ dit' \subseteq Entries
<1>1. /\ Load(target) \in Seq(ExpectedDNs)
      /\ Len(Load(target)) <= Len(SeedFile)
      /\ Len(SeedFile) \in Nat /\ loaded \in Nat
  BY LoadShape, SeedFileLength DEF TypeOK
<1>2. loaded + 1 \in DOMAIN Load(target)
  BY <1>1 DEF LoadNext
<1>3. Load(target)[loaded + 1] \in ExpectedDNs
  BY <1>1, <1>2
<1> QED
  BY <1>1, <1>3 DEF LoadNext, TypeOK, Entries

\* Every reachable state has its type, for every set of target types.
THEOREM TypeCorrect == Spec => []TypeOK
<1>1. Init => TypeOK
  BY TargetsAssumption, SeedFileLength DEF Init, TypeOK, HostStates
<1>2. TypeOK /\ [Next]_vars => TypeOK'
  <2> SUFFICES ASSUME TypeOK, [Next]_vars PROVE TypeOK'
    OBVIOUS
  <2>1. CASE SeedEntry \/ EntrypointLoads
    <3>1. LoadNext /\ UNCHANGED hostVars
      BY <2>1 DEF SeedEntry, EntrypointLoads
    <3> QED
      BY <3>1, LoadNextType DEF LoadNext, hostVars, TypeOK
  <2>2. CASE Create
    <3>1. Initial(target) \subseteq Entries
      BY LoadShape DEF TypeOK, Entries
    <3> QED
      BY <2>2, <3>1 DEF Create, Raise, podVars, TypeOK, HostStates, Starting, Polling
  <2>3. CASE Remove
    BY <2>3, SeedFileLength DEF Remove, GoTo, podVars, TypeOK, HostStates, Starting, Polling
  <2>4. CASE Invoke \/ EnsureRunning \/ Build
    BY <2>4 DEF Invoke, EnsureRunning, Build, Raise, GoTo, podVars, TypeOK,
       HostStates, Starting, Polling
  <2>10. CASE Probe \/ ProbeFails \/ DeadlinePasses \/ WaitTimesOut
    BY <2>10 DEF Probe, ProbeFails, DeadlinePasses, WaitTimesOut, Raise, GoTo,
       podVars, TypeOK, HostStates, Starting, Polling
  <2>11. CASE ProbeSucceeds
    <3>1. host' \in {"run", "seed_check", "seed"} /\ late' = FALSE
          /\ UNCHANGED <<target, started, mishap, podVars>>
      BY <2>11 DEF ProbeSucceeds, GoTo, Polling, TypeOK, TargetTypes
    <3> QED
      BY <3>1 DEF podVars, TypeOK, HostStates, Starting
  <2>5. CASE SeedCheck \/ SeedReturns \/ SeedFails \/ Interrupt
    BY <2>5 DEF SeedCheck, SeedReturns, SeedFails, Interrupt, Raise,
       GoTo, podVars, TypeOK, HostStates, Starting, Polling
  <2>6. CASE RunEnds
    BY <2>6 DEF RunEnds, GoTo, podVars, TypeOK, HostStates, Entries
  <2>7. CASE Listen
    BY <2>7 DEF Listen, hostVars, TypeOK
  <2>8. CASE CreateBackend \/ EntrypointComplete \/ ContainerExits \/ SlapdDies
    BY <2>8 DEF CreateBackend, EntrypointComplete, ContainerExits, SlapdDies,
       hostVars, TypeOK
  <2>9. CASE UNCHANGED vars
    BY <2>9 DEF vars, TypeOK
  <2> QED
    BY <2>1, <2>2, <2>3, <2>4, <2>5, <2>6, <2>7, <2>8, <2>9, <2>10, <2>11
       DEF Next, HostStep, ContainerStep
<1> QED
  BY <1>1, <1>2, PTL DEF Spec

-----------------------------------------------------------------------------
\* The entries the first n steps of the loading add.
Loaded(t, n) == {Load(t)[i] : i \in 1..n}

\* While the program is inside start(), the directory holds what the image
\* brought and what has been loaded so far, and nothing else.
Seeding ==
  /\ entrypoint \notin {"serving", "loading"}
  /\ host \in {"inspect", "build", "remove", "create"} => ~started
  /\ container = "absent" => loaded = 0
  /\ host \in Polling \cup {"seed_check", "seed"} =>
       started /\ dit = Initial(target) \cup Loaded(target, loaded)
  /\ host \in Polling \cup {"seed_check"} => loaded = 0
  /\ host = "seed_check" => target = "opendj"
  /\ host = "seed" => target \in {"opendj", "lldap"}
SeedingInv == SeedsInTime => Seeding

\* One container, one target type: no step changes it.
LEMMA TargetStays == [Next]_vars => target' = target
BY DEF Next, HostStep, ContainerStep, Invoke, EnsureRunning, Build, Remove,
   Create, Probe, ProbeSucceeds, ProbeFails, DeadlinePasses, WaitTimesOut, SeedCheck, SeedEntry, SeedReturns,
   SeedFails, RunEnds, Interrupt, Listen, CreateBackend, EntrypointLoads,
   EntrypointComplete, ContainerExits, SlapdDies, Raise, GoTo, hostVars, vars

\* Once everything is loaded, the directory is the seed.
LEMMA AllLoadedIsTheSeed ==
  ASSUME NEW t \in TargetTypes
  PROVE  Initial(t) \cup Loaded(t, Len(Load(t))) = Seed(t)
<1>1. DOMAIN Load(t) = 1..Len(Load(t))
  BY LoadShape
<1> QED
  BY <1>1 DEF Seed, Loaded, Range

\* SeedingInv is an inductive invariant beside TypeOK.
LEMMA SeedingInvHolds == Spec => []SeedingInv
<1>1. Init => SeedingInv
  BY DEF Init, SeedingInv, Seeding, Polling
<1>2. TypeOK /\ SeedingInv /\ [Next]_vars => SeedingInv'
  <2> SUFFICES ASSUME TypeOK, Seeding, SeedsInTime, [Next]_vars PROVE Seeding'
    BY TargetStays DEF SeedingInv, SeedsInTime
  <2> USE DEF Polling
  <2>1. CASE SeedEntry
    <3>1. /\ host = "seed" /\ host' = "seed" /\ target' = target
          /\ loaded' = loaded + 1 /\ loaded \in Nat
          /\ dit' = dit \cup {Load(target)[loaded + 1]}
          /\ UNCHANGED <<container, entrypoint, started>>
      BY <2>1, SeedFileLength DEF SeedEntry, LoadNext, hostVars, TypeOK
    <3>2. container # "absent"
      BY <2>1 DEF SeedEntry
    <3>3. Loaded(target, loaded + 1)
            = Loaded(target, loaded) \cup {Load(target)[loaded + 1]}
      BY <3>1 DEF Loaded
    <3> QED
      BY <3>1, <3>2, <3>3 DEF Seeding
  <2>2. CASE Create
    <3>1. Loaded(target, 0) = {}
      BY DEF Loaded
    <3> QED
      BY <2>2, <3>1 DEF Create, Raise, podVars, Seeding
  <2>3. CASE Remove
    BY <2>3 DEF Remove, GoTo, podVars, Seeding
  <2>4. CASE \/ Invoke \/ EnsureRunning \/ Build \/ Probe \/ ProbeFails
             \/ DeadlinePasses \/ WaitTimesOut
    BY <2>4 DEF Invoke, EnsureRunning, Build, Probe, ProbeFails, DeadlinePasses,
       WaitTimesOut, Raise, GoTo, podVars, Seeding
  <2>5. CASE ProbeSucceeds
    BY <2>5 DEF ProbeSucceeds, GoTo, podVars, Seeding, SeedsInTime,
       TypeOK, TargetTypes
  <2>6. CASE SeedCheck
    BY <2>6 DEF SeedCheck, GoTo, podVars, Seeding
  <2>7. CASE SeedReturns \/ SeedFails \/ Interrupt
    BY <2>7 DEF SeedReturns, SeedFails, Interrupt, Raise, GoTo, podVars, Seeding
  <2>8. CASE RunEnds
    BY <2>8 DEF RunEnds, GoTo, podVars, Seeding
  <2>9. CASE Listen
    BY <2>9 DEF Listen, hostVars, Seeding, SeedsInTime
  <2>10. CASE CreateBackend \/ EntrypointLoads \/ EntrypointComplete
    BY <2>10 DEF CreateBackend, EntrypointLoads, EntrypointComplete, Seeding,
       SeedsInTime
  <2>11. CASE ContainerExits \/ SlapdDies \/ UNCHANGED vars
    BY <2>11 DEF ContainerExits, SlapdDies, hostVars, vars, Seeding
  <2> QED
    BY <2>1, <2>2, <2>3, <2>4, <2>5, <2>6, <2>7, <2>8, <2>9, <2>10, <2>11
       DEF Next, HostStep, ContainerStep
<1> QED
  BY <1>1, <1>2, TypeCorrect, PTL DEF Spec

\* A run that went through start() begins on exactly the seed, on every target
\* but 389 DS: container.py, opendj.py and lldap.py, start.
THEOREM FreshStart == Spec => FreshRunsBeginOnTheSeed
<1>1. TypeOK /\ SeedingInv /\ [Next]_vars =>
        [SeedsInTime /\ RunStarts /\ started => dit' = Seed(target)]_vars
  <2> SUFFICES ASSUME TypeOK, Seeding, SeedsInTime, Next,
                      host # "run", host' = "run", started
               PROVE  dit' = Seed(target)
    BY DEF vars, SeedingInv, RunStarts
  <2> USE DEF GoTo, podVars, Seeding, SeedsInTime, Polling
  <2>1. Initial(target) \cup Loaded(target, Len(Load(target))) = Seed(target)
    BY AllLoadedIsTheSeed DEF TypeOK
  <2>2. CASE ProbeSucceeds
    <3>1. target = "openldap" /\ dit' = dit /\ loaded = 0
      BY <2>2 DEF ProbeSucceeds, TypeOK, TargetTypes
    <3>2. Load(target) = <<>>
      BY <3>1 DEF Load
    <3> QED
      BY <2>1, <2>2, <3>1, <3>2 DEF ProbeSucceeds
  <2>3. CASE SeedCheck
    <3>1. target = "opendj" /\ dit = Initial(target) \cup Loaded(target, 0)
          /\ "base" \in dit
      BY <2>3 DEF SeedCheck
    <3>2. Initial(target) = {} /\ Loaded(target, 0) = {}
      BY <3>1 DEF Initial, Loaded
    <3> QED
      BY <3>1, <3>2
  <2>4. CASE SeedReturns
    BY <2>1, <2>4 DEF SeedReturns
  <2>5. CASE EnsureRunning
    BY <2>5 DEF EnsureRunning
  <2>6. CASE \/ Invoke \/ Build \/ Remove \/ Create \/ Probe \/ ProbeFails
             \/ DeadlinePasses \/ WaitTimesOut
    BY <2>6 DEF Invoke, Build, Remove, Create, Probe, ProbeFails, DeadlinePasses,
       WaitTimesOut, Raise
  <2>7. CASE SeedEntry \/ SeedFails \/ RunEnds \/ Interrupt
    BY <2>7 DEF SeedEntry, SeedFails, RunEnds, Interrupt, Raise, hostVars
  <2>8. CASE ContainerStep
    BY <2>8 DEF ContainerStep, Listen, CreateBackend, EntrypointLoads,
       EntrypointComplete, ContainerExits, SlapdDies, hostVars
  <2> QED
    BY <2>2, <2>3, <2>4, <2>5, <2>6, <2>7, <2>8 DEF Next, HostStep
<1> QED
  BY <1>1, TypeCorrect, SeedingInvHolds, PTL DEF Spec, FreshRunsBeginOnTheSeed

-----------------------------------------------------------------------------
\* Between two starts nothing takes an entry of the seed away, and a container
\* runs only because a start() created it.
ReuseInv ==
  (/\ SeedsInTime /\ ~mishap
   /\ host \in {"idle", "inspect", "run"}
   /\ container = "running" \/ host = "run") => Seed(target) \subseteq dit

\* On every target but 389 DS a run finds at least the seed, on a
\* container of its own or a reused one, unless a start() was broken off:
\* container.py, ensure_running.
THEOREM ReuseFindsTheSeedHolds == Spec => []ReuseFindsTheSeed
<1>1. Init => ReuseInv
  BY DEF Init, ReuseInv
<1>2. /\ TypeOK /\ SeedingInv /\ ReuseInv /\ [Next]_vars
      /\ [SeedsInTime /\ RunStarts /\ started => dit' = Seed(target)]_vars
      => ReuseInv'
  <2> SUFFICES ASSUME TypeOK, Seeding, SeedsInTime, ReuseInv, [Next]_vars,
                      [RunStarts /\ started => dit' = Seed(target)]_vars
               PROVE  ReuseInv'
    BY TargetStays DEF SeedingInv, SeedsInTime, ReuseInv, vars
  <2>1. target' = target
    BY TargetStays
  <2>2. Seed(target') = Seed(target)
    BY <2>1
  <2> USE <2>2 DEF GoTo, podVars, ReuseInv, RunStarts, Polling
  <2>3. CASE host # "run" /\ host' = "run" /\ started
    <3>1. dit' = Seed(target)
      BY <2>3 DEF vars
    <3> QED
      BY <3>1
  <2>4. CASE \/ Invoke \/ EnsureRunning \/ Build \/ Probe \/ ProbeFails
             \/ DeadlinePasses \/ WaitTimesOut
    BY <2>4 DEF Invoke, EnsureRunning, Build, Probe, ProbeFails, DeadlinePasses,
       WaitTimesOut, Raise
  <2>5. CASE Remove \/ Create
    BY <2>5 DEF Remove, Create, Raise
  <2>6. CASE (ProbeSucceeds \/ SeedCheck \/ SeedReturns)
             /\ ~(host # "run" /\ host' = "run" /\ started)
    <3>1. host # "run" /\ started
      BY <2>6 DEF ProbeSucceeds, SeedCheck, SeedReturns, Seeding
    <3>2. host' \in {"run", "seed_check", "seed"}
      BY <2>6 DEF ProbeSucceeds, SeedCheck, SeedReturns, TypeOK, TargetTypes,
         Seeding, SeedsInTime
    <3> QED
      BY <2>6, <3>1, <3>2
  <2>7. CASE SeedEntry \/ SeedFails
    BY <2>7 DEF SeedEntry, SeedFails, Raise, hostVars
  <2>8. CASE RunEnds
    BY <2>8 DEF RunEnds
  <2>9. CASE Interrupt
    BY <2>9 DEF Interrupt, Starting, Polling, TypeOK, HostStates
  <2>10. CASE Listen \/ CreateBackend \/ EntrypointLoads \/ EntrypointComplete
    BY <2>10 DEF Listen, CreateBackend, EntrypointLoads, EntrypointComplete,
       hostVars, Seeding
  <2>11. CASE ContainerExits \/ SlapdDies \/ UNCHANGED vars
    BY <2>11 DEF ContainerExits, SlapdDies, hostVars, vars
  <2> QED
    BY <2>3, <2>4, <2>5, <2>6, <2>7, <2>8, <2>9, <2>10, <2>11
       DEF Next, HostStep, ContainerStep
<1>3. ReuseInv => ReuseFindsTheSeed
  BY DEF ReuseInv, ReuseFindsTheSeed
<1> QED
  BY <1>1, <1>2, <1>3, TypeCorrect, SeedingInvHolds, FreshStart, PTL
     DEF Spec, FreshRunsBeginOnTheSeed
=============================================================================
