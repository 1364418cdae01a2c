---------------------------- MODULE EngineProofs ----------------------------
(* Theorems about Engine, for every set of assertions, every requires graph *)
(* and every capability statement.                                          *)
EXTENDS Engine, SequenceTheorems, FiniteSetTheorems, TLAPS

-----------------------------------------------------------------------------
\* Sequences: what Append and dropping the last element do to the set of
\* elements.

LEMMA AppendElements ==
  ASSUME NEW S, NEW s \in Seq(S), NEW e \in S
  PROVE  /\ Append(s, e) \in Seq(S)
         /\ Len(Append(s, e)) = Len(s) + 1
         /\ \A i \in 1..Len(s) : Append(s, e)[i] = s[i]
         /\ Append(s, e)[Len(s) + 1] = e
         /\ \A i \in DOMAIN s : i < Len(s) + 1 /\ Append(s, e)[i] = s[i]
         /\ \A i \in DOMAIN Append(s, e) : i \in DOMAIN s \/ i = Len(s) + 1
         /\ \A i, j \in DOMAIN Append(s, e) : i < j => i \in DOMAIN s
         /\ Range(Append(s, e)) = Range(s) \cup {e}
<1>1. /\ Append(s, e) \in Seq(S)
      /\ Len(Append(s, e)) = Len(s) + 1
      /\ \A i \in 1..Len(s) : Append(s, e)[i] = s[i]
      /\ Append(s, e)[Len(s) + 1] = e
  OBVIOUS
<1>2. DOMAIN Append(s, e) = 1..(Len(s) + 1) /\ DOMAIN s = 1..Len(s)
  BY <1>1
<1>3. Range(Append(s, e)) \subseteq Range(s) \cup {e}
  BY <1>1, <1>2 DEF Range
<1>4. Range(s) \cup {e} \subseteq Range(Append(s, e))
  BY <1>1, <1>2 DEF Range
<1>5. \A i \in DOMAIN s : i < Len(s) + 1 /\ Append(s, e)[i] = s[i]
  BY <1>1, <1>2
<1>6. \A i \in DOMAIN Append(s, e) : i \in DOMAIN s \/ i = Len(s) + 1
  BY <1>1, <1>2
<1>7. \A i, j \in DOMAIN Append(s, e) : i < j => i \in DOMAIN s
  BY <1>1, <1>2
<1> QED
  BY <1>1, <1>3, <1>4, <1>5, <1>6, <1>7

LEMMA AppendNoDuplicates ==
  ASSUME NEW S, NEW s \in Seq(S), NEW e \in S,
         NoDuplicates(s), e \notin Range(s)
  PROVE  NoDuplicates(Append(s, e))
BY AppendElements DEF NoDuplicates, Range

LEMMA PopElements ==
  ASSUME NEW S, NEW s \in Seq(S), s # <<>>, NoDuplicates(s)
  PROVE  LET t == SubSeq(s, 1, Len(s) - 1)
         IN  /\ t \in Seq(S)
             /\ Len(t) = Len(s) - 1
             /\ \A i \in DOMAIN t : i \in DOMAIN s /\ t[i] = s[i]
             /\ NoDuplicates(t)
             /\ Range(t) = Range(s) \ {s[Len(s)]}
<1> DEFINE t == SubSeq(s, 1, Len(s) - 1)
<1>1. Len(s) \in Nat \ {0}
  OBVIOUS
<1>2. t \in Seq(S) /\ Len(t) = Len(s) - 1 /\ \A i \in 1..Len(t) : t[i] = s[i]
  <2>1. PICK n \in Nat : Len(s) = n + 1
    BY <1>1
  <2>2. Len(s) - 1 = n /\ \A i \in 1..n : s[i] \in S /\ 1 + i - 1 = i
    BY <2>1
  <2>3. t = SubSeq(s, 1, n)
    BY <2>2
  <2>4. n - 1 + 1 = n /\ (1 <= n \/ n = 0)
    BY <2>1
  <2> HIDE DEF t
  <2>5. /\ t \in Seq(S)
        /\ Len(t) = IF 1 <= n THEN n - 1 + 1 ELSE 0
        /\ \A i \in 1..(n - 1 + 1) : t[i] = s[1 + i - 1]
    BY <2>2, <2>3, SubSeqProperties
  <2>6. Len(t) = n
    BY <2>1, <2>4, <2>5
  <2> QED
    BY <2>2, <2>4, <2>5, <2>6
<1> HIDE DEF t
<1>3. DOMAIN t = 1..(Len(s) - 1) /\ DOMAIN s = 1..Len(s)
  BY <1>1, <1>2
<1>4. NoDuplicates(t)
  BY <1>1, <1>2, <1>3 DEF NoDuplicates
<1>5. Range(t) \subseteq Range(s) \ {s[Len(s)]}
  BY <1>1, <1>2, <1>3 DEF NoDuplicates, Range
<1>6. Range(s) \ {s[Len(s)]} \subseteq Range(t)
  <2>1. SUFFICES ASSUME NEW x \in Range(s), x # s[Len(s)] PROVE x \in Range(t)
    OBVIOUS
  <2>2. PICK i \in 1..Len(s) : x = s[i]
    BY <1>3, <2>1 DEF Range
  <2>3. i \in 1..(Len(s) - 1)
    BY <1>1, <2>1, <2>2
  <2> QED
    BY <1>2, <1>3, <2>2, <2>3 DEF Range
<1>7. \A i \in DOMAIN t : i \in DOMAIN s /\ t[i] = s[i]
  BY <1>1, <1>2, <1>3
<1> QED
  BY <1>2, <1>4, <1>5, <1>6, <1>7 DEF t

-----------------------------------------------------------------------------
\* The shape of the arguments and of the state.

LEMMA SetupShape ==
  ASSUME setup \in SetupSpace, NEW a \in Ids
  PROVE  /\ Requires(a) \in Seq(Ids)
         /\ Prerequisites(a) \subseteq Ids
         /\ setup.registry.order \in Seq(Ids)
<1>1. Assertion(a) \in AssertionRecord
  BY DEF SetupSpace, Registry, Assertion
<1>2. Requires(a) \in Seq(Ids)
  BY <1>1 DEF AssertionRecord, Requires
<1> QED
  BY <1>2 DEF SetupSpace, Registry, Prerequisites, Range

\* What _decide appends is a Result, whichever of its branches made it.
LEMMA RecordType ==
  ASSUME TypeOK, NEW a \in Ids, NEW status \in Statuses, NEW cause \in Causes,
         NEW blamed \in Ids \cup {NoId}, Record(a, status, cause, blamed)
  PROVE  TypeOK'
<1>1. results' \in [Ids -> ResultRecord]
  BY DEF TypeOK, Record, ResultRecord
<1>2. out' \in Seq(Ids) /\ cursor' \in Nat \ {0}
  BY DEF TypeOK, Record
<1> QED
  BY <1>1, <1>2 DEF TypeOK, Record, Phases, sortVars

\* Every variable of the engine keeps the type its Python object has.
THEOREM TypeCorrect == Spec => []TypeOK
<1>1. Init => TypeOK
  <2> SUFFICES ASSUME Init PROVE TypeOK
    OBVIOUS
  <2>1. results \in [Ids -> ResultRecord]
    BY DEF Init, ResultRecord, NoResult, Statuses, Causes
  <2> QED
    BY <2>1, SetupsAssumption DEF Init, TypeOK, Phases
<1>2. TypeOK /\ [Next]_vars => TypeOK'
  <2> SUFFICES ASSUME TypeOK, [Next]_vars PROVE TypeOK'
    OBVIOUS
  <2>1. CASE SelectNext
    <3>1. setup.registry.order[cursor] \in Ids
      BY <2>1 DEF TypeOK, SelectNext, SetupSpace, Registry
    <3> QED
      BY <2>1, <3>1 DEF TypeOK, SelectNext, sortVars, runVars
  <2>2. CASE SelectionComplete
    BY <2>2 DEF TypeOK, SelectionComplete, sortVars, runVars, Phases
  <2>3. CASE VisitSelected
    BY <2>3 DEF TypeOK, VisitSelected, runVars
  <2>4. CASE VisitRequirement
    <3> DEFINE node == path[Len(path)]
               req == Requires(node)[nextReq[node]]
    <3>1. node \in Ids
      BY <2>4 DEF TypeOK, VisitRequirement
    <3>2. req \in Ids
      BY <2>4, <3>1, SetupShape DEF TypeOK, VisitRequirement
    <3>3. path' \in Seq(Ids)
      BY <2>4, <3>2 DEF TypeOK, VisitRequirement
    <3>4. nextReq' \in [Ids -> Nat \ {0}]
      BY <2>4, <3>1 DEF TypeOK, VisitRequirement
    <3> QED
      BY <2>4, <3>3, <3>4 DEF TypeOK, VisitRequirement, runVars
  <2>5. CASE FinishNode
    <3>1. path[Len(path)] \in Ids
      BY <2>5 DEF TypeOK, FinishNode
    <3>2. path' \in Seq(Ids)
      BY <2>5 DEF TypeOK, FinishNode
    <3>3. done' \in SUBSET Ids /\ ordered' \in Seq(Ids)
      BY <2>5, <3>1 DEF TypeOK, FinishNode
    <3> QED
      BY <2>5, <3>2, <3>3 DEF TypeOK, FinishNode, runVars
  <2>6. CASE SortComplete
    BY <2>6 DEF TypeOK, SortComplete, sortVars, runVars, Phases
  <2>7. CASE Decide
    <3>1. PICK a \in Ids : \/ DecideBlocked(a)
                           \/ DecideUntestable(a)
                           \/ DecideNotWritable(a)
                           \/ DecideUnsupported(a)
                           \/ CallRunner(a)
      BY <2>7 DEF Decide
    <3>2. CASE DecideBlocked(a)
      <4>1. PICK i \in DOMAIN Requires(a) :
              Record(a, "blocked", "prerequisite", Requires(a)[i])
        BY <3>2 DEF DecideBlocked
      <4>2. Requires(a)[i] \in Ids
        BY SetupShape DEF TypeOK
      <4> QED
        BY <4>1, <4>2, RecordType DEF Statuses, Causes
    <3>3. CASE DecideUntestable(a)
      BY <3>3, RecordType DEF DecideUntestable, Statuses, Causes
    <3>4. CASE DecideNotWritable(a)
      BY <3>4, RecordType DEF DecideNotWritable, Statuses, Causes
    <3>5. CASE DecideUnsupported(a)
      BY <3>5, RecordType DEF DecideUnsupported, Statuses, Causes
    <3>6. CASE CallRunner(a)
      BY <3>6 DEF TypeOK, CallRunner, Phases, sortVars
    <3> QED
      BY <3>1, <3>2, <3>3, <3>4, <3>5, <3>6
  <2>8. CASE RunComplete
    BY <2>8 DEF TypeOK, RunComplete, sortVars, runVars, Phases
  <2>9. CASE RunnerStep
    <3>1. PICK a \in Ids : \/ \E status \in RunnerStatuses : RunnerReturns(a, status)
                           \/ RunnerRaises(a)
      BY <2>9 DEF RunnerStep
    <3>2. CASE \E status \in RunnerStatuses : RunnerReturns(a, status)
      BY <3>2, RecordType DEF RunnerReturns, RunnerStatuses, Causes
    <3>3. CASE RunnerRaises(a)
      BY <3>3, RecordType DEF RunnerRaises, Statuses, Causes
    <3> QED
      BY <3>1, <3>2, <3>3
  <2>10. CASE Interrupt
    BY <2>10 DEF TypeOK, Interrupt, sortVars, runVars, Phases
  <2>11. CASE UNCHANGED vars
    BY <2>11 DEF TypeOK, vars
  <2> QED
    BY <2>1, <2>2, <2>3, <2>4, <2>5, <2>6, <2>7, <2>8, <2>9, <2>10, <2>11
       DEF Next, EngineStep
<1> QED
  BY <1>1, <1>2, PTL DEF Spec

\* The arguments of run stay in the set they were taken from.
LEMMA SetupFixed == Spec => [](setup \in Setups)
<1>1. Init => setup \in Setups
  BY DEF Init
<1>2. setup \in Setups /\ [Next]_vars => (setup \in Setups)'
  BY DEF Next, vars, EngineStep, RunnerStep, Decide, SelectNext,
     SelectionComplete, VisitSelected, VisitRequirement, FinishNode,
     SortComplete, RunComplete, DecideBlocked, DecideUntestable,
     DecideNotWritable, DecideUnsupported, CallRunner, RunnerReturns,
     RunnerRaises, Interrupt, Record
<1> QED
  BY <1>1, <1>2, PTL DEF Spec

-----------------------------------------------------------------------------
\* While a runner executes, its assertion is the one the decision loop has
\* reached, and none of the gates held it back.
RunningInv ==
  /\ phase = "running" => running \in Ids
  /\ running # NoId =>
       /\ phase \in {"running", "aborted"}
       /\ cursor \in DOMAIN ordered
       /\ running = ordered[cursor]
       /\ ~Blocked(running)
       /\ ~MutationRefused(running)

LEMMA RunningInvHolds == Spec => []RunningInv
<1>1. Init => RunningInv
  BY DEF Init, RunningInv
<1>2. TypeOK /\ RunningInv /\ [Next]_vars => RunningInv'
  <2> SUFFICES ASSUME TypeOK, RunningInv, [Next]_vars PROVE RunningInv'
    OBVIOUS
  <2>1. CASE \/ SelectNext \/ SelectionComplete \/ VisitSelected
             \/ VisitRequirement \/ FinishNode \/ SortComplete \/ RunComplete
    BY <2>1 DEF RunningInv, SelectNext, SelectionComplete, VisitSelected,
       VisitRequirement, FinishNode, SortComplete, RunComplete, runVars
  <2>2. CASE Decide
    <3>1. PICK a \in Ids : \/ DecideBlocked(a)
                           \/ DecideUntestable(a)
                           \/ DecideNotWritable(a)
                           \/ DecideUnsupported(a)
                           \/ CallRunner(a)
      BY <2>2 DEF Decide
    <3>2. CASE \/ DecideBlocked(a) \/ DecideUntestable(a)
               \/ DecideNotWritable(a) \/ DecideUnsupported(a)
      <4>1. running' = NoId /\ phase' = "decide"
        BY <3>2 DEF DecideBlocked, DecideUntestable, DecideNotWritable,
           DecideUnsupported, Record
      <4> QED
        BY <4>1 DEF RunningInv
    <3>3. CASE CallRunner(a)
      BY <3>3 DEF RunningInv, CallRunner, Deciding, Blocked, Prerequisites,
         Requires, Assertion, Unsatisfied, MutationRefused, sortVars
    <3> QED
      BY <3>1, <3>2, <3>3
  <2>3. CASE RunnerStep
    <3>1. running' = NoId /\ phase' = "decide"
      BY <2>3 DEF RunnerStep, RunnerReturns, RunnerRaises, Record
    <3> QED
      BY <3>1 DEF RunningInv
  <2>4. CASE Interrupt \/ UNCHANGED vars
    BY <2>4 DEF RunningInv, Interrupt, Blocked, Prerequisites, Requires,
       Assertion, Unsatisfied, MutationRefused, sortVars, runVars, vars
  <2> QED
    BY <2>1, <2>2, <2>3, <2>4 DEF Next, EngineStep
<1> QED
  BY <1>1, <1>2, TypeCorrect, PTL DEF Spec

\* A step of the decision loop that records the verdict of a: which assertion
\* it is about, and what the verdict says of its prerequisites.
Settles(a) ==
  \E status \in RunnerStatuses, cause \in Causes \ {"none"}, r \in Ids \cup {NoId} :
    /\ cursor \in DOMAIN ordered
    /\ a = ordered[cursor]
    /\ phase \in {"decide", "running"}
    /\ Record(a, status, cause, r)
    /\ cause = "prerequisite" =>
         status = "blocked" /\ r \in Prerequisites(a) /\ Unsatisfied(r)
    /\ cause # "prerequisite" => ~Blocked(a)
    /\ cause \in {"runner", "runner raised"} => ~MutationRefused(a)

LEMMA SettlesWithoutBlame ==
  ASSUME NEW a, cursor \in DOMAIN ordered, a = ordered[cursor],
         phase \in {"decide", "running"}, ~Blocked(a),
         NEW status \in RunnerStatuses,
         NEW cause \in Causes \ {"none", "prerequisite"},
         Record(a, status, cause, NoId),
         cause \in {"runner", "runner raised"} => ~MutationRefused(a)
  PROVE  Settles(a)
BY DEF Settles

LEMMA SettlesBlaming ==
  ASSUME NEW a, NEW r \in Ids, cursor \in DOMAIN ordered, a = ordered[cursor],
         phase = "decide", r \in Prerequisites(a), Unsatisfied(r),
         Record(a, "blocked", "prerequisite", r)
  PROVE  Settles(a)
<1>1. "blocked" \in RunnerStatuses /\ "prerequisite" \in Causes \ {"none"}
  BY DEF RunnerStatuses, Statuses, Causes
<1> QED
  BY <1>1 DEF Settles

\* Every step of _decide and of a runner either calls a runner or settles.
LEMMA DecisionCases ==
  ASSUME TypeOK, RunningInv, Decide \/ RunnerStep
  PROVE  \E a \in Ids : CallRunner(a) \/ Settles(a)
<1>1. CASE Decide
  <2>1. PICK a \in Ids : \/ DecideBlocked(a)
                         \/ DecideUntestable(a)
                         \/ DecideNotWritable(a)
                         \/ DecideUnsupported(a)
                         \/ CallRunner(a)
    BY <1>1 DEF Decide
  <2>2. CASE DecideBlocked(a)
    <3>1. PICK i \in DOMAIN Requires(a) :
            /\ Unsatisfied(Requires(a)[i])
            /\ Record(a, "blocked", "prerequisite", Requires(a)[i])
      BY <2>2 DEF DecideBlocked
    <3>2. Requires(a)[i] \in Prerequisites(a) /\ Requires(a)[i] \in Ids
      BY SetupShape DEF TypeOK, Prerequisites, Range
    <3> QED
      BY <2>2, <3>1, <3>2, SettlesBlaming DEF DecideBlocked, Deciding
  <2>3. CASE DecideUntestable(a)
    BY <2>3, SettlesWithoutBlame
       DEF DecideUntestable, Deciding, RunnerStatuses, Statuses, Causes
  <2>4. CASE DecideNotWritable(a)
    BY <2>4, SettlesWithoutBlame
       DEF DecideNotWritable, Deciding, RunnerStatuses, Statuses, Causes
  <2>5. CASE DecideUnsupported(a)
    BY <2>5, SettlesWithoutBlame
       DEF DecideUnsupported, Deciding, RunnerStatuses, Statuses, Causes
  <2> QED
    BY <2>1, <2>2, <2>3, <2>4, <2>5
<1>2. CASE RunnerStep
  <2>1. PICK a \in Ids : \/ \E status \in RunnerStatuses : RunnerReturns(a, status)
                         \/ RunnerRaises(a)
    BY <1>2 DEF RunnerStep
  <2>2. /\ phase = "running"
        /\ cursor \in DOMAIN ordered
        /\ a = ordered[cursor]
        /\ ~Blocked(a)
        /\ ~MutationRefused(a)
    BY <2>1, IdsAssumption DEF RunnerReturns, RunnerRaises, RunningInv
  <2>3. CASE \E status \in RunnerStatuses : RunnerReturns(a, status)
    BY <2>2, <2>3, SettlesWithoutBlame DEF RunnerReturns, Causes
  <2>4. CASE RunnerRaises(a)
    BY <2>2, <2>4, SettlesWithoutBlame
       DEF RunnerRaises, RunnerStatuses, Statuses, Causes
  <2> QED
    BY <2>1, <2>3, <2>4
<1> QED
  BY <1>1, <1>2

-----------------------------------------------------------------------------
\* The sort.  SelectionInv: the list selected holds the registered matching
\* assertions up to the cursor.  SortInv: every selected assertion the outer
\* loop has passed is done or in progress, the frames and the finished nodes
\* are distinct selected assertions, and when the sort is over all are done.

Chosen(s, n) ==
  {s.registry.order[i] : i \in {k \in 1..n : Matches(s, s.registry.order[k])}}

SelectionInv ==
  /\ NoDuplicates(setup.registry.order)
  /\ NoDuplicates(selected)
  /\ phase = "select" => cursor <= Len(setup.registry.order) + 1
                         /\ Selected = Chosen(setup, cursor - 1)
  /\ phase \notin {"select", "aborted"} =>
       Selected = Chosen(setup, Len(setup.registry.order))

SortInv ==
  /\ NoDuplicates(path)
  /\ NoDuplicates(ordered)
  /\ Range(ordered) = done
  /\ done \cap InProgress = {}
  /\ done \cup InProgress \subseteq Selected
  /\ phase = "select" => path = <<>> /\ ordered = <<>>
  /\ phase = "sort" =>
       \A i \in DOMAIN selected : i < cursor => selected[i] \in done \cup InProgress
  /\ phase \in {"decide", "running", "finished"} => path = <<>> /\ done = Selected

\* The steps that leave the selection and the sort alone.
LEMMA DecisionKeepsSort ==
  ASSUME TypeOK, RunningInv, Decide \/ RunnerStep
  PROVE  /\ UNCHANGED <<setup, selected, path, nextReq, done, ordered>>
         /\ phase \in {"decide", "running"} /\ phase' \in {"decide", "running"}
<1>1. PICK a \in Ids : CallRunner(a) \/ Settles(a)
  BY DecisionCases
<1>2. CASE CallRunner(a)
  BY <1>2 DEF CallRunner, Deciding, sortVars
<1>3. CASE Settles(a)
  BY <1>3 DEF Settles, Record, sortVars
<1> QED
  BY <1>1, <1>2, <1>3

LEMMA SelectionInvHolds == Spec => []SelectionInv
<1>1. Init => SelectionInv
  BY SetupsAssumption
     DEF Init, SelectionInv, NoDuplicates, Chosen, Selected, Range, SetupSpace, Registry
<1>2. TypeOK /\ RunningInv /\ SelectionInv /\ [Next]_vars => SelectionInv'
  <2> SUFFICES ASSUME TypeOK, RunningInv, SelectionInv, [Next]_vars
               PROVE  SelectionInv'
    OBVIOUS
  <2> DEFINE order == setup.registry.order
  <2>0. order \in Seq(Ids) /\ Len(order) \in Nat
    BY DEF TypeOK, SetupSpace, Registry
  <2>1. CASE SelectNext
    <3> DEFINE a == order[cursor]
    <3>1. /\ cursor \in 1..Len(order) /\ a \in Ids
          /\ setup' = setup /\ phase' = "select" /\ cursor' = cursor + 1
          /\ phase = "select"
      BY <2>0, <2>1 DEF SelectNext
    <3>2. Selected = Chosen(setup, cursor - 1)
      BY <3>1 DEF SelectionInv
    <3>3. a \notin Selected
      BY <2>0, <3>1, <3>2 DEF Chosen, SelectionInv, NoDuplicates
    <3>4. CASE Matches(setup, a)
      <4>1. selected' = Append(selected, a)
        BY <2>1, <3>4 DEF SelectNext
      <4>2. Selected' = Selected \cup {a} /\ NoDuplicates(selected')
        <5>1. selected \in Seq(Ids) /\ NoDuplicates(selected) /\ a \notin Range(selected)
          BY <3>3 DEF TypeOK, SelectionInv, Selected
        <5>2. Range(selected') = Range(selected) \cup {a}
          BY ONLY <3>1, <4>1, <5>1, AppendElements
        <5>3. NoDuplicates(selected')
          BY ONLY <3>1, <4>1, <5>1, AppendNoDuplicates
        <5> QED
          BY <5>2, <5>3 DEF Selected
      <4>3. Chosen(setup, cursor) = Chosen(setup, cursor - 1) \cup {a}
        BY <2>0, <3>1, <3>4 DEF Chosen
      <4>4. cursor' - 1 = cursor /\ cursor' <= Len(order) + 1
        BY <2>0, <3>1
      <4> QED
        BY <3>1, <3>2, <4>2, <4>3, <4>4 DEF SelectionInv
    <3>5. CASE ~Matches(setup, a)
      <4>1. selected' = selected
        BY <2>1, <3>5 DEF SelectNext
      <4>3. Chosen(setup, cursor) = Chosen(setup, cursor - 1)
        BY <2>0, <3>1, <3>5 DEF Chosen
      <4>4. cursor' - 1 = cursor /\ cursor' <= Len(order) + 1
        BY <2>0, <3>1
      <4> QED
        BY <3>1, <3>2, <4>1, <4>3, <4>4 DEF SelectionInv, Selected
    <3> QED
      BY <3>4, <3>5
  <2>2. CASE SelectionComplete
    <3>1. cursor - 1 = Len(order)
      <4>1. cursor > Len(order) /\ cursor <= Len(order) + 1 /\ cursor \in Nat
        BY <2>2 DEF SelectionComplete, SelectionInv, TypeOK
      <4> HIDE DEF order
      <4> QED
        BY <2>0, <4>1
    <3> QED
      BY <2>2, <3>1 DEF SelectionComplete, SelectionInv, Selected, Chosen
  <2>3. CASE Decide \/ RunnerStep
    BY <2>3, DecisionKeepsSort DEF SelectionInv, Selected, Chosen
  <2>4. CASE \/ VisitSelected \/ VisitRequirement \/ FinishNode
             \/ SortComplete \/ RunComplete
    BY <2>4 DEF SelectionInv, Selected, Chosen, VisitSelected, VisitRequirement,
       FinishNode, SortComplete, RunComplete
  <2>5. CASE Interrupt \/ UNCHANGED vars
    BY <2>5 DEF SelectionInv, Selected, Chosen, Interrupt, vars
  <2> QED
    BY <2>1, <2>2, <2>3, <2>4, <2>5 DEF Next, EngineStep
<1> QED
  BY <1>1, <1>2, TypeCorrect, RunningInvHolds, PTL DEF Spec

LEMMA EmptyAndSingleton ==
  ASSUME NEW e
  PROVE  /\ Range(<<>>) = {} /\ NoDuplicates(<<>>)
         /\ Range(<<e>>) = {e} /\ NoDuplicates(<<e>>)
BY DEF Range, NoDuplicates

LEMMA SortInvHolds == Spec => []SortInv
<1>1. Init => SortInv
  BY EmptyAndSingleton DEF Init, SortInv, InProgress
<1>2. TypeOK /\ RunningInv /\ SortInv /\ [Next]_vars => SortInv'
  <2> SUFFICES ASSUME TypeOK, RunningInv, SortInv, [Next]_vars
               PROVE  SortInv'
    OBVIOUS
  <2>1. CASE SelectNext
    <3>1. /\ path' = <<>> /\ ordered' = <<>> /\ done' = {}
          /\ phase' = "select"
      BY <2>1, EmptyAndSingleton DEF SelectNext, SortInv, sortVars
    <3> QED
      BY <3>1, EmptyAndSingleton DEF SortInv, InProgress
  <2>2. CASE SelectionComplete
    <3>1. \A i \in DOMAIN selected : ~(i < 1)
      BY DEF TypeOK
    <3> QED
      BY <2>2, <3>1 DEF SelectionComplete, SortInv, InProgress, Selected, sortVars
  <2>3. CASE VisitSelected
    <3> DEFINE a == selected[cursor]
    <3>1. /\ a \in Selected /\ phase = "sort" /\ phase' = "sort"
          /\ path = <<>> /\ InProgress = {} /\ selected' = selected
          /\ done' = done /\ ordered' = ordered /\ cursor' = cursor + 1
      BY <2>3, EmptyAndSingleton DEF VisitSelected, Selected, InProgress, Range
    <3>2. CASE Fresh(a)
      <4>1. path' = <<a>>
        BY <2>3, <3>2 DEF VisitSelected
      <4>2. NoDuplicates(path') /\ InProgress' = {a}
        BY <4>1, EmptyAndSingleton DEF InProgress
      <4>3. a \notin done
        BY <3>2 DEF Fresh
      <4>4. \A i \in DOMAIN selected : i < cursor + 1 => i < cursor \/ selected[i] = a
        BY DEF TypeOK
      <4> QED
        BY <3>1, <4>2, <4>3, <4>4 DEF SortInv, Selected
    <3>3. CASE ~Fresh(a)
      <4>1. path' = path /\ InProgress' = InProgress
        BY <2>3, <3>1, <3>3 DEF VisitSelected, InProgress
      <4>2. a \in done \cup InProgress
        BY <3>3 DEF Fresh
      <4>3. \A i \in DOMAIN selected : i < cursor + 1 => i < cursor \/ selected[i] = a
        BY DEF TypeOK
      <4> QED
        BY <3>1, <4>1, <4>2, <4>3 DEF SortInv, Selected
    <3> QED
      BY <3>2, <3>3
  <2>4. CASE VisitRequirement
    <3> DEFINE node == path[Len(path)]
               req == Requires(node)[nextReq[node]]
    <3>1. /\ phase = "sort" /\ phase' = "sort" /\ selected' = selected
          /\ done' = done /\ ordered' = ordered /\ cursor' = cursor
          /\ path' = IF req \in Selected /\ Fresh(req) THEN Append(path, req) ELSE path
      BY <2>4 DEF VisitRequirement
    <3>2. CASE req \in Selected /\ Fresh(req)
      <4>1. req \in Ids /\ req \notin InProgress /\ req \notin done
        BY <3>2 DEF Fresh, Selected, Range, TypeOK
      <4>2. NoDuplicates(path') /\ InProgress' = InProgress \cup {req}
        BY <3>1, <3>2, <4>1, AppendElements, AppendNoDuplicates
           DEF InProgress, TypeOK, SortInv
      <4> QED
        BY <3>1, <3>2, <4>1, <4>2 DEF SortInv, Selected
    <3>3. CASE ~(req \in Selected /\ Fresh(req))
      BY <3>1, <3>3 DEF SortInv, Selected, InProgress
    <3> QED
      BY <3>2, <3>3
  <2>5. CASE FinishNode
    <3> DEFINE node == path[Len(path)]
    <3>1. /\ phase = "sort" /\ phase' = "sort" /\ selected' = selected
          /\ done' = done \cup {node} /\ cursor' = cursor
          /\ ordered' = Append(ordered, node)
          /\ path' = SubSeq(path, 1, Len(path) - 1)
          /\ path # <<>>
      BY <2>5 DEF FinishNode
    <3>2. node \in Ids /\ node \in InProgress
      BY <3>1 DEF TypeOK, InProgress, Range
    <3>3. NoDuplicates(path') /\ InProgress' = InProgress \ {node}
      BY <3>1, PopElements DEF TypeOK, InProgress, SortInv
    <3>4. node \notin done
      BY <3>2 DEF SortInv
    <3>5. NoDuplicates(ordered') /\ Range(ordered') = Range(ordered) \cup {node}
      BY <3>1, <3>2, <3>4, AppendElements, AppendNoDuplicates DEF TypeOK, SortInv
    <3> QED
      BY <3>1, <3>2, <3>3, <3>4, <3>5 DEF SortInv, Selected
  <2>6. CASE SortComplete
    <3>1. path = <<>> /\ InProgress = {}
      BY <2>6, EmptyAndSingleton DEF SortComplete, InProgress
    <3>2. \A i \in DOMAIN selected : i < cursor
      BY <2>6 DEF SortComplete, TypeOK
    <3>3. Selected \subseteq done
      BY <2>6, <3>1, <3>2 DEF SortComplete, SortInv, Selected, Range
    <3> QED
      BY <2>6, <3>1, <3>3 DEF SortComplete, SortInv, Selected, InProgress, sortVars
  <2>7. CASE Decide \/ RunnerStep
    BY <2>7, DecisionKeepsSort DEF SortInv, Selected, InProgress
  <2>8. CASE RunComplete
    BY <2>8 DEF RunComplete, SortInv, Selected, InProgress, sortVars
  <2>9. CASE Interrupt \/ UNCHANGED vars
    BY <2>9 DEF Interrupt, vars, SortInv, Selected, InProgress, sortVars
  <2> QED
    BY <2>1, <2>2, <2>3, <2>4, <2>5, <2>6, <2>7, <2>8, <2>9 DEF Next, EngineStep
<1> QED
  BY <1>1, <1>2, TypeCorrect, RunningInvHolds, PTL DEF Spec

-----------------------------------------------------------------------------
\* The decision loop.  The output follows the order of the sort, up to the
\* cursor, and the dict results has entries for exactly the ids in it.

OutputInv ==
  /\ phase \in {"select", "sort"} => out = <<>>
  /\ Len(out) <= Len(ordered)
  /\ \A i \in DOMAIN out : out[i] = ordered[i]
  /\ phase \in {"decide", "running"} => Len(out) + 1 = cursor
  /\ phase = "finished" => Len(out) = Len(ordered)
  /\ \A a \in Ids : results[a].status # "none" <=> a \in Range(out)
  /\ \A a \in Ids : /\ results[a].cause = "none" <=> results[a].status = "none"
                    /\ results[a].cause = "prerequisite" => results[a].status = "blocked"

\* What recording a verdict does: the assertion had none before, and no other
\* verdict changes.
LEMMA SettleEffect ==
  ASSUME TypeOK, SortInv, OutputInv, NEW a \in Ids, Settles(a)
  PROVE  /\ a \notin Range(out)
         /\ results[a].status = "none"
         /\ cursor \in DOMAIN ordered /\ a = ordered[cursor]
         /\ Len(out) + 1 = cursor
         /\ out' \in Seq(Ids) /\ Len(out') = cursor
         /\ \A i \in DOMAIN out' : i \in DOMAIN out \/ i = cursor
         /\ \A i \in DOMAIN out : i \in 1..(cursor - 1) /\ out'[i] = out[i]
         /\ out'[cursor] = a
         /\ Range(out') = Range(out) \cup {a}
         /\ results'[a].status # "none" /\ results'[a].cause # "none"
         /\ results'[a].cause = "prerequisite" =>
              /\ results'[a].status = "blocked"
              /\ results'[a].blamed \in Prerequisites(a)
              /\ Unsatisfied(results'[a].blamed)
         /\ results'[a].cause # "prerequisite" => ~Blocked(a)
         /\ results'[a].cause \in {"runner", "runner raised"} => ~MutationRefused(a)
         /\ results' \in [Ids -> ResultRecord]
         /\ \A b \in Ids \ {a} : results'[b] = results[b]
         /\ phase' = "decide" /\ cursor' = cursor + 1 /\ running' = NoId
         /\ UNCHANGED <<setup, selected, ordered>>
<1>1. PICK status \in RunnerStatuses, cause \in Causes \ {"none"}, r \in Ids \cup {NoId} :
        /\ cursor \in DOMAIN ordered
        /\ a = ordered[cursor]
        /\ phase \in {"decide", "running"}
        /\ Record(a, status, cause, r)
        /\ cause = "prerequisite" =>
             status = "blocked" /\ r \in Prerequisites(a) /\ Unsatisfied(r)
        /\ cause # "prerequisite" => ~Blocked(a)
        /\ cause \in {"runner", "runner raised"} => ~MutationRefused(a)
  BY DEF Settles
<1>2. /\ cursor \in DOMAIN ordered /\ a = ordered[cursor]
      /\ phase \in {"decide", "running"}
  BY <1>1
<1>3. Len(out) + 1 = cursor /\ Len(out) \in Nat /\ out \in Seq(Ids)
  BY <1>2 DEF OutputInv, TypeOK
<1>4. \A i \in DOMAIN out : i \in DOMAIN ordered /\ i # cursor /\ out[i] = ordered[i]
  BY SMTT(30), <1>3 DEF OutputInv, TypeOK
<1>5. a \notin Range(out)
  BY <1>2, <1>4 DEF SortInv, NoDuplicates, Range
<1>6. results[a].status = "none"
  BY <1>5 DEF OutputInv
<1>7. /\ out' = Append(out, a)
      /\ results' = [results EXCEPT ![a] = [status |-> status, cause |-> cause, blamed |-> r]]
      /\ phase' = "decide" /\ cursor' = cursor + 1 /\ running' = NoId
      /\ UNCHANGED <<setup, selected, ordered>>
  BY <1>1 DEF Record, sortVars
<1>8. /\ out' \in Seq(Ids)
      /\ Len(out') = cursor
      /\ \A i \in 1..Len(out) : out'[i] = out[i]
      /\ out'[cursor] = a
      /\ Range(out') = Range(out) \cup {a}
  BY <1>3, <1>7, AppendElements
<1>9. \A i \in DOMAIN out : i \in 1..(cursor - 1) /\ out'[i] = out[i]
  BY <1>3, <1>8
<1>10. \A i \in DOMAIN out' : i \in DOMAIN out \/ i = cursor
  BY <1>3, <1>8
<1>11. [status |-> status, cause |-> cause, blamed |-> r] \in ResultRecord
  BY DEF RunnerStatuses, ResultRecord
<1>12. results' \in [Ids -> ResultRecord] /\ \A b \in Ids \ {a} : results'[b] = results[b]
  BY <1>7, <1>11 DEF TypeOK
<1>13. results'[a].status = status /\ results'[a].cause = cause /\ results'[a].blamed = r
  BY <1>7 DEF TypeOK
<1>14. status # "none" /\ cause # "none"
  BY DEF RunnerStatuses
<1>15. /\ results'[a].cause = "prerequisite" =>
            /\ results'[a].status = "blocked"
            /\ results'[a].blamed \in Prerequisites(a)
            /\ Unsatisfied(results'[a].blamed)
       /\ results'[a].cause # "prerequisite" => ~Blocked(a)
       /\ results'[a].cause \in {"runner", "runner raised"} => ~MutationRefused(a)
  BY <1>1, <1>13
<1> QED
  BY <1>2, <1>3, <1>5, <1>6, <1>7, <1>8, <1>9, <1>10, <1>12, <1>13, <1>14, <1>15

LEMMA OutputInvHolds == Spec => []OutputInv
<1>1. Init => OutputInv
  <2> SUFFICES ASSUME Init PROVE OutputInv
    OBVIOUS
  <2>1. /\ out = <<>> /\ ordered = <<>> /\ phase = "select" /\ Range(out) = {}
        /\ \A a \in Ids : results[a].status = "none" /\ results[a].cause = "none"
    BY EmptyAndSingleton DEF Init, NoResult
  <2>2. Len(out) <= Len(ordered) /\ \A i \in DOMAIN out : FALSE
    BY <2>1
  <2> QED
    BY <2>1, <2>2 DEF OutputInv
<1>2. TypeOK /\ RunningInv /\ SortInv /\ OutputInv /\ [Next]_vars => OutputInv'
  <2> SUFFICES ASSUME TypeOK, RunningInv, SortInv, OutputInv, [Next]_vars
               PROVE  OutputInv'
    OBVIOUS
  <2>1. CASE \/ SelectNext \/ SelectionComplete \/ VisitSelected \/ VisitRequirement
    <3>1. /\ phase \in {"select", "sort"} /\ phase' \in {"select", "sort"}
          /\ out' = out /\ results' = results /\ ordered' = ordered
      BY <2>1 DEF SelectNext, SelectionComplete, VisitSelected,
         VisitRequirement, sortVars, runVars
    <3> QED
      BY <3>1 DEF OutputInv
  <2>2. CASE FinishNode
    <3>1. out = <<>> /\ out' = <<>> /\ results' = results /\ phase' = "sort"
      BY <2>2 DEF OutputInv, FinishNode, runVars
    <3>2. ordered' \in Seq(Ids)
      BY <2>2 DEF FinishNode, TypeOK
    <3> QED
      BY <3>1, <3>2 DEF OutputInv
  <2>3. CASE SortComplete
    <3>1. out = <<>> /\ out' = <<>> /\ results' = results /\ phase' = "decide"
          /\ cursor' = 1 /\ ordered' = ordered
      BY <2>3 DEF OutputInv, SortComplete, sortVars, runVars
    <3> QED
      BY <3>1 DEF OutputInv
  <2>4. CASE Decide \/ RunnerStep
    <3>1. PICK a \in Ids : CallRunner(a) \/ Settles(a)
      BY <2>4, DecisionCases
    <3>2. CASE CallRunner(a)
      BY <3>2 DEF CallRunner, Deciding, OutputInv, sortVars
    <3>3. CASE Settles(a)
      <4>1. /\ phase' = "decide" /\ cursor' = cursor + 1 /\ ordered' = ordered
            /\ Len(out') + 1 = cursor' /\ Len(out') <= Len(ordered')
        <5>1. /\ phase' = "decide" /\ cursor' = cursor + 1 /\ ordered' = ordered
              /\ Len(out') = cursor /\ cursor \in DOMAIN ordered
          BY <3>3, SettleEffect
        <5> QED
          BY <5>1 DEF TypeOK
      <4>2. \A i \in DOMAIN out' : out'[i] = ordered'[i]
        <5>1. \A i \in DOMAIN out' : i \in DOMAIN out \/ i = cursor
          BY <3>3, SettleEffect
        <5>2. ordered' = ordered /\ out'[cursor] = ordered[cursor]
          BY <3>3, SettleEffect
        <5>3. \A i \in DOMAIN out : out'[i] = ordered[i]
          BY ZenonT(60), <3>3, SettleEffect DEF OutputInv
        <5> QED
          BY <5>1, <5>2, <5>3
      <4>3. \A b \in Ids : /\ results'[b].status # "none" <=> b \in Range(out')
                           /\ results'[b].cause = "none" <=> results'[b].status = "none"
                           /\ results'[b].cause = "prerequisite" =>
                                results'[b].status = "blocked"
        <5>1. /\ results'[a].status # "none" /\ results'[a].cause # "none"
              /\ results'[a].cause = "prerequisite" => results'[a].status = "blocked"
              /\ \A b \in Ids \ {a} : results'[b] = results[b]
              /\ Range(out') = Range(out) \cup {a}
          BY <3>3, SettleEffect
        <5> QED
          BY <5>1 DEF OutputInv
      <4> QED
        BY <4>1, <4>2, <4>3 DEF OutputInv
    <3> QED
      BY <3>1, <3>2, <3>3
  <2>5. CASE RunComplete
    <3>1. Len(out) = Len(ordered)
      BY <2>5 DEF RunComplete, OutputInv, TypeOK
    <3> QED
      BY <2>5, <3>1 DEF RunComplete, OutputInv, sortVars, runVars
  <2>6. CASE Interrupt \/ UNCHANGED vars
    BY <2>6 DEF Interrupt, vars, OutputInv, sortVars, runVars
  <2> QED
    BY <2>1, <2>2, <2>3, <2>4, <2>5, <2>6 DEF Next, EngineStep
<1> QED
  BY <1>1, <1>2, TypeCorrect, RunningInvHolds, SortInvHolds, PTL DEF Spec

\* A run that finishes has given each selected assertion exactly one verdict,
\* and no other assertion any, for every requires graph.
THEOREM OneVerdictEach == Spec => []ExactlyOneVerdict
<1>1. TypeOK /\ SortInv /\ OutputInv => ExactlyOneVerdict
  <2> SUFFICES ASSUME TypeOK, SortInv, OutputInv PROVE ExactlyOneVerdict
    OBVIOUS
  <2>1. \A i \in DOMAIN out : i \in DOMAIN ordered /\ out[i] = ordered[i]
    BY DEF OutputInv, TypeOK
  <2>2. NoDuplicates(out)
    BY <2>1 DEF SortInv, NoDuplicates
  <2>3. Range(out) \subseteq Selected
    BY <2>1 DEF SortInv, Range
  <2>4. ASSUME phase = "finished" PROVE Range(out) = Selected
    <3>1. DOMAIN out = DOMAIN ordered /\ Range(ordered) = Selected
      BY <2>4 DEF OutputInv, SortInv, TypeOK
    <3> QED
      BY <2>1, <3>1 DEF Range
  <2> QED
    BY <2>2, <2>3, <2>4 DEF ExactlyOneVerdict, OutputInv
<1> QED
  BY <1>1, TypeCorrect, SortInvHolds, OutputInvHolds, PTL

\* A recorded verdict is never rewritten.
THEOREM VerdictsStay == Spec => VerdictsAreFinal
<1>1. TypeOK /\ RunningInv /\ SortInv /\ OutputInv /\ [Next]_vars =>
        [\A a \in Ids : results[a].status # "none" => results'[a] = results[a]]_vars
  <2> SUFFICES ASSUME TypeOK, RunningInv, SortInv, OutputInv, Next,
                      NEW a \in Ids, results[a].status # "none"
               PROVE  results'[a] = results[a]
    OBVIOUS
  <2>1. CASE Decide \/ RunnerStep
    <3>1. PICK b \in Ids : CallRunner(b) \/ Settles(b)
      BY <2>1, DecisionCases
    <3>2. CASE CallRunner(b)
      BY <3>2 DEF CallRunner
    <3>3. CASE Settles(b)
      BY <3>3, SettleEffect
    <3> QED
      BY <3>1, <3>2, <3>3
  <2>2. CASE ~(Decide \/ RunnerStep)
    BY <2>2 DEF Next, EngineStep, SelectNext, SelectionComplete, VisitSelected,
       VisitRequirement, FinishNode, SortComplete, RunComplete, Interrupt, runVars
  <2> QED
    BY <2>1, <2>2
<1> QED
  BY <1>1, TypeCorrect, RunningInvHolds, SortInvHolds, OutputInvHolds, PTL
     DEF Spec, VerdictsAreFinal

-----------------------------------------------------------------------------
\* Prerequisites.

\* The steps that neither call a runner nor record a verdict.
LEMMA OtherSteps ==
  ASSUME [Next]_vars, ~(Decide \/ RunnerStep)
  PROVE  UNCHANGED <<setup, results, out, running>>
BY DEF Next, EngineStep, SelectNext, SelectionComplete, VisitSelected,
   VisitRequirement, FinishNode, SortComplete, RunComplete, Interrupt, runVars, vars

\* A prerequisite that satisfies has its place in the output.
LEMMA SatisfiedIsSettled ==
  ASSUME TypeOK, OutputInv, NEW a \in Ids, ~Blocked(a), NEW r \in Prerequisites(a)
  PROVE  /\ r \in Ids
         /\ results[r].status \in Satisfying
         /\ \E j \in DOMAIN out : out[j] = r
<1>1. r \in Ids
  BY SetupShape DEF TypeOK
<1>2. results[r].status \in Satisfying
  BY DEF Blocked, Unsatisfied
<1>3. r \in Range(out)
  BY <1>1, <1>2 DEF OutputInv, Satisfying
<1> QED
  BY <1>1, <1>2, <1>3 DEF Range

\* Every verdict other than "blocked by a prerequisite" rests on verdicts
\* given before it, on cyclic requires graphs as well.
THEOREM VerdictsAreGrounded == Spec => []GroundedVerdicts
<1>1. Init => GroundedVerdicts
  BY DEF Init, GroundedVerdicts
<1>2. TypeOK /\ RunningInv /\ SortInv /\ OutputInv /\ GroundedVerdicts /\ [Next]_vars
        => GroundedVerdicts'
  <2> SUFFICES ASSUME TypeOK, RunningInv, SortInv, OutputInv, GroundedVerdicts, [Next]_vars
               PROVE  GroundedVerdicts'
    OBVIOUS
  <2>1. CASE Decide \/ RunnerStep
    <3>1. PICK a \in Ids : CallRunner(a) \/ Settles(a)
      BY <2>1, DecisionCases
    <3>2. CASE CallRunner(a)
      BY <3>2 DEF CallRunner, GroundedVerdicts, Prerequisites, Requires, Assertion
    <3>3. CASE Settles(a)
      <4> SUFFICES ASSUME NEW i \in DOMAIN out', results'[out'[i]].cause # "prerequisite",
                          NEW r \in Prerequisites(out'[i])
                   PROVE  \E j \in 1..(i - 1) : out'[j] = r /\ results'[r].status \in Satisfying
        BY <3>3, SettleEffect DEF GroundedVerdicts, Prerequisites, Requires, Assertion
      <4>1. /\ i \in DOMAIN out \/ i = cursor
            /\ \A j \in DOMAIN out : j \in 1..(cursor - 1) /\ out'[j] = out[j]
            /\ \A b \in Ids \ {a} : results'[b] = results[b]
            /\ results[a].status = "none"
        BY <3>3, SettleEffect
      <4>2. CASE i \in DOMAIN out
        <5>1. out'[i] = out[i] /\ out[i] \in Ids /\ out[i] # a
          <6>1. out[i] # a
            <7>1. a \notin Range(out)
              BY <3>3, SettleEffect
            <7> QED
              BY <4>2, <7>1 DEF Range
          <6> QED
            BY <4>1, <4>2, <6>1 DEF TypeOK
        <5>2. PICK j \in 1..(i - 1) : out[j] = r /\ results[r].status \in Satisfying
          BY <4>1, <4>2, <5>1 DEF GroundedVerdicts
        <5>3. j \in DOMAIN out /\ r \in Ids /\ r # a
          BY SMTT(30), <4>1, <4>2, <5>2 DEF TypeOK, Satisfying
        <5> QED
          BY <4>1, <5>2, <5>3
      <4>3. CASE i = cursor
        <5>1. out'[i] = a /\ ~Blocked(a)
          BY <3>3, <4>3, SettleEffect
        <5>2. r \in Ids /\ results[r].status \in Satisfying /\ \E j \in DOMAIN out : out[j] = r
          BY <5>1, SatisfiedIsSettled
        <5>3. r # a
          BY <4>1, <5>2 DEF Satisfying
        <5> QED
          BY <4>1, <4>3, <5>2, <5>3
      <4> QED
        BY <4>1, <4>2, <4>3
    <3> QED
      BY <3>1, <3>2, <3>3
  <2>2. CASE ~(Decide \/ RunnerStep)
    BY <2>2, OtherSteps DEF GroundedVerdicts, Prerequisites, Requires, Assertion
  <2> QED
    BY <2>1, <2>2
<1> QED
  BY <1>1, <1>2, TypeCorrect, RunningInvHolds, SortInvHolds, OutputInvHolds, PTL
     DEF Spec

\* Nothing on a cycle of requirements, and nothing downstream of one or of an
\* unselected prerequisite, is ever executed.
THEOREM CyclesStayBlocked == Spec => []DoomedNeverRun
<1>1. Init => DoomedNeverRun
  BY IdsAssumption, SetupsAssumption DEF Init, DoomedNeverRun, NoResult
<1>2. TypeOK /\ RunningInv /\ SortInv /\ OutputInv /\ DoomedNeverRun /\ [Next]_vars
        => DoomedNeverRun'
  <2> SUFFICES ASSUME TypeOK, RunningInv, SortInv, OutputInv, DoomedNeverRun, [Next]_vars,
                      NEW C \in SUBSET Ids, Doomed(C)', NEW c \in C
               PROVE  results'[c].cause \in {"none", "prerequisite"} /\ running' # c
    BY DEF DoomedNeverRun
  <2>1. CASE SelectNext
    <3>1. out = <<>> /\ results' = results /\ running' = running /\ running = NoId
      BY <2>1 DEF SelectNext, OutputInv, RunningInv, runVars
    <3>2. results[c].status = "none"
      BY <3>1, EmptyAndSingleton DEF OutputInv
    <3> QED
      BY <3>1, <3>2, IdsAssumption DEF OutputInv
  <2>2. CASE ~SelectNext
    <3>1. setup' = setup /\ selected' = selected
      BY <2>2, DecisionKeepsSort DEF Next, EngineStep, SelectionComplete,
         VisitSelected, VisitRequirement, FinishNode, SortComplete, RunComplete,
         Interrupt, vars
    <3>2. Doomed(C)
      BY <3>1 DEF Doomed, Prerequisites, Requires, Assertion, Selected
    <3>3. \A b \in C : results[b].cause \in {"none", "prerequisite"} /\ running # b
      BY <3>2 DEF DoomedNeverRun
    <3>4. \A b \in C : Blocked(b)
      <4> SUFFICES ASSUME NEW b \in C, ~Blocked(b) PROVE FALSE
        OBVIOUS
      <4>1. PICK r \in Prerequisites(b) : r \in C \/ r \notin Selected
        BY <3>2 DEF Doomed
      <4>2. r \in Ids /\ results[r].status \in Satisfying /\ r \in Range(out)
        BY SatisfiedIsSettled DEF Range
      <4>3. Range(out) \subseteq Selected
        BY SMTT(30) DEF OutputInv, SortInv, TypeOK, Range
      <4>4. r \in C
        BY <4>1, <4>2, <4>3
      <4> QED
        BY <3>3, <4>2, <4>4 DEF OutputInv, Satisfying
    <3>5. CASE Decide \/ RunnerStep
      <4>1. PICK a \in Ids : CallRunner(a) \/ Settles(a)
        BY <3>5, DecisionCases
      <4>2. CASE CallRunner(a)
        BY <3>3, <3>4, <4>2 DEF CallRunner
      <4>3. CASE Settles(a)
        <5>1. /\ running' = NoId
              /\ results'[a].cause # "prerequisite" => ~Blocked(a)
              /\ \A b \in Ids \ {a} : results'[b] = results[b]
          BY <4>3, SettleEffect
        <5>2. c \in Ids /\ c # NoId
          BY IdsAssumption
        <5> QED
          BY <3>3, <3>4, <5>1, <5>2
      <4> QED
        BY <4>1, <4>2, <4>3
    <3>6. CASE ~(Decide \/ RunnerStep)
      BY <3>3, <3>6, OtherSteps
    <3> QED
      BY <3>5, <3>6
  <2> QED
    BY <2>1, <2>2
<1> QED
  BY <1>1, <1>2, TypeCorrect, RunningInvHolds, SortInvHolds, OutputInvHolds, PTL
     DEF Spec

-----------------------------------------------------------------------------
\* Without cycles.

\* A requirement its dependent's frame has passed is done or in progress.
FrameInv ==
  /\ \A a \in Ids : a \notin done \cup InProgress => nextReq[a] = 1
  /\ \A a \in InProgress : \A k \in DOMAIN Requires(a) :
       k < nextReq[a] /\ Requires(a)[k] \in Selected =>
         Requires(a)[k] \in done \cup InProgress

\* The frames of visit descend in rank, for every ranking of the graph.
DescentInv ==
  \A rank \in Ranks(setup) : \A i, j \in DOMAIN path :
    i < j => rank[path[j]] < rank[path[i]]

LEMMA RankDecreases ==
  ASSUME TypeOK, NEW rank \in Ranks(setup), NEW a \in Ids, NEW r \in Prerequisites(a)
  PROVE  rank[r] < rank[a] /\ rank[r] \in Int /\ rank[a] \in Int
<1>1. Cardinality(Ids) \in Nat
  BY IdsAssumption, FS_CardinalityType
<1>2. r \in Ids
  BY SetupShape DEF TypeOK
<1> QED
  BY <1>1, <1>2 DEF Ranks, Prerequisites, Requires, Assertion

\* A step of the sort, seen from the frames.
LEMMA FrameInvHolds == Spec => []FrameInv
<1>1. Init => FrameInv
  BY EmptyAndSingleton DEF Init, FrameInv, InProgress
<1>2. TypeOK /\ RunningInv /\ SortInv /\ FrameInv /\ [Next]_vars => FrameInv'
  <2> SUFFICES ASSUME TypeOK, RunningInv, SortInv, FrameInv, [Next]_vars
               PROVE  FrameInv'
    OBVIOUS
  <2>1. CASE SelectNext
    <3>1. InProgress = {} /\ InProgress' = {} /\ done' = done
          /\ nextReq' = nextReq
      BY <2>1, EmptyAndSingleton DEF SelectNext, SortInv, InProgress, sortVars
    <3> QED
      BY <3>1 DEF FrameInv
  <2>2. CASE VisitSelected
    <3> DEFINE a == selected[cursor]
    <3>0. a \in Ids
      BY <2>2 DEF VisitSelected, TypeOK
    <3>1. /\ a \in Ids /\ InProgress = {} /\ setup' = setup
          /\ selected' = selected /\ done' = done /\ nextReq' = nextReq
          /\ path' = IF Fresh(a) THEN <<a>> ELSE path
      BY <2>2, <3>0, EmptyAndSingleton DEF VisitSelected, InProgress
    <3>2. CASE Fresh(a)
      <4>1. InProgress' = {a} /\ nextReq[a] = 1
        BY <3>1, <3>2, EmptyAndSingleton DEF InProgress, FrameInv, Fresh
      <4>2. \A k \in DOMAIN Requires(a) : ~(k < 1)
        BY <3>1, SetupShape DEF TypeOK
      <4> QED
        BY <3>1, <4>1, <4>2 DEF FrameInv, Requires, Assertion
    <3>3. CASE ~Fresh(a)
      BY <3>1, <3>3 DEF FrameInv, InProgress
    <3> QED
      BY <3>2, <3>3
  <2>3. CASE VisitRequirement
    <3> DEFINE node == path[Len(path)]
               req == Requires(node)[nextReq[node]]
    <3>1. /\ setup' = setup /\ selected' = selected /\ done' = done
          /\ nextReq[node] \in DOMAIN Requires(node)
          /\ nextReq' = [nextReq EXCEPT ![node] = @ + 1]
          /\ path' = IF req \in Selected /\ Fresh(req) THEN Append(path, req) ELSE path
      BY <2>3 DEF VisitRequirement
    <3>2. node \in Ids /\ node \in InProgress
      BY <2>3 DEF VisitRequirement, TypeOK, InProgress, Range
    <3>3. req \in Ids
      BY <3>1, <3>2, SetupShape DEF TypeOK
    <3>4. /\ InProgress \subseteq InProgress'
          /\ InProgress' \subseteq InProgress \cup {req}
          /\ req \in Selected => req \in done \cup InProgress'
          /\ req \in InProgress' \ InProgress => req \notin done
      <4>1. CASE req \in Selected /\ Fresh(req)
        <5>1. InProgress' = InProgress \cup {req}
          BY <3>1, <3>3, <4>1, AppendElements DEF InProgress, TypeOK
        <5> QED
          BY <4>1, <5>1 DEF Fresh
      <4>2. CASE ~(req \in Selected /\ Fresh(req))
        BY <3>1, <4>2 DEF InProgress, Fresh
      <4> QED
        BY <4>1, <4>2
    <3>5. ASSUME NEW a \in Ids, a \notin done' \cup InProgress' PROVE nextReq'[a] = 1
      BY <3>1, <3>2, <3>4, <3>5 DEF FrameInv, TypeOK
    <3>6. ASSUME NEW a \in InProgress', NEW k \in DOMAIN Requires(a),
                 k < nextReq'[a], Requires(a)[k] \in Selected
          PROVE  Requires(a)[k] \in done \cup InProgress'
      <4>1. CASE a = node
        <5>1. k < nextReq[node] \/ k = nextReq[node]
          BY <3>1, <3>2, <3>6, <4>1, SetupShape DEF TypeOK
        <5>2. CASE k < nextReq[node]
          BY <3>2, <3>4, <3>6, <4>1, <5>2 DEF FrameInv
        <5>3. CASE k = nextReq[node]
          BY <3>4, <3>6, <4>1, <5>3
        <5> QED
          BY <5>1, <5>2, <5>3
      <4>2. CASE a # node /\ a \in InProgress
        <5>1. nextReq'[a] = nextReq[a]
          BY <3>1, <4>2 DEF TypeOK, InProgress, Range
        <5> QED
          BY <3>4, <3>6, <4>2, <5>1 DEF FrameInv
      <4>3. CASE a # node /\ a \notin InProgress
        <5>1. a = req /\ req \notin done
          BY <3>4, <3>6, <4>3
        <5>2. nextReq'[a] = 1
          BY <3>1, <3>3, <4>3, <5>1 DEF FrameInv, TypeOK
        <5>3. k \in Nat \ {0}
          <6>1. Requires(a) \in Seq(Ids)
            BY <3>3, <5>1, SetupShape DEF TypeOK
          <6> QED
            BY <3>6, <6>1
        <5> QED
          BY <3>6, <5>2, <5>3
      <4> QED
        BY <4>1, <4>2, <4>3
    <3> QED
      BY <3>1, <3>5, <3>6 DEF FrameInv, Requires, Assertion, Selected
  <2>4. CASE FinishNode
    <3> DEFINE node == path[Len(path)]
    <3>1. /\ setup' = setup /\ selected' = selected /\ nextReq' = nextReq
          /\ done' = done \cup {node} /\ path # <<>>
          /\ path' = SubSeq(path, 1, Len(path) - 1)
      BY <2>4 DEF FinishNode
    <3>2. InProgress' = InProgress \ {node}
      BY <3>1, PopElements DEF TypeOK, SortInv, InProgress
    <3> QED
      BY <3>1, <3>2 DEF FrameInv, Requires, Assertion, Selected
  <2>5. CASE Decide \/ RunnerStep
    BY <2>5, DecisionKeepsSort DEF FrameInv, InProgress, Selected, Requires, Assertion
  <2>6. CASE SelectionComplete \/ SortComplete \/ RunComplete \/ Interrupt \/ UNCHANGED vars
    <3>1. UNCHANGED <<setup, selected, sortVars>>
      BY <2>6 DEF SelectionComplete, SortComplete, RunComplete, Interrupt, vars, sortVars
    <3> QED
      BY <3>1 DEF FrameInv, InProgress, Selected, Requires, Assertion, sortVars
  <2> QED
    BY <2>1, <2>2, <2>3, <2>4, <2>5, <2>6 DEF Next, EngineStep
<1> QED
  BY <1>1, <1>2, TypeCorrect, RunningInvHolds, SortInvHolds, PTL DEF Spec

LEMMA DescentInvHolds == Spec => []DescentInv
<1>1. Init => DescentInv
  BY DEF Init, DescentInv
<1>2. TypeOK /\ RunningInv /\ SortInv /\ DescentInv /\ [Next]_vars => DescentInv'
  <2> SUFFICES ASSUME TypeOK, RunningInv, SortInv, DescentInv, [Next]_vars
               PROVE  DescentInv'
    OBVIOUS
  <2>1. CASE VisitSelected
    <3>1. setup' = setup /\ \A i, j \in DOMAIN path' : i = j
      BY <2>1 DEF VisitSelected
    <3>2. \A i, j \in DOMAIN path' : ~(i < j)
      BY <2>1 DEF VisitSelected
    <3> QED
      BY <3>1, <3>2 DEF DescentInv
  <2>2. CASE VisitRequirement
    <3> DEFINE node == path[Len(path)]
               req == Requires(node)[nextReq[node]]
    <3>1. /\ setup' = setup /\ path # <<>>
          /\ nextReq[node] \in DOMAIN Requires(node)
          /\ path' = IF req \in Selected /\ Fresh(req) THEN Append(path, req) ELSE path
      BY <2>2 DEF VisitRequirement
    <3>2. node \in Ids /\ req \in Ids /\ req \in Prerequisites(node)
      BY <3>1, SetupShape DEF TypeOK, Prerequisites, Range
    <3>3. CASE path' = path
      BY <3>1, <3>3 DEF DescentInv
    <3>4. CASE path' = Append(path, req)
      <4> SUFFICES ASSUME NEW rank \in Ranks(setup), NEW i \in DOMAIN path',
                          NEW j \in DOMAIN path', i < j
                   PROVE  rank[path'[j]] < rank[path'[i]]
        BY <3>1 DEF DescentInv
      <4>1. /\ rank[req] < rank[node] /\ rank[req] \in Int /\ rank[node] \in Int
        BY <3>2, RankDecreases
      <4>2. /\ path'[Len(path) + 1] = req
            /\ \A k \in DOMAIN path : path'[k] = path[k]
            /\ \A k \in DOMAIN path' : k \in DOMAIN path \/ k = Len(path) + 1
        BY SMTT(30), <3>2, <3>4, AppendElements DEF TypeOK
      <4>3. i \in DOMAIN path /\ path'[i] = path[i]
        BY <3>2, <3>4, AppendElements DEF TypeOK
      <4>4. CASE j = Len(path) + 1
        <5>1. CASE i = Len(path)
          BY <4>1, <4>2, <4>3, <4>4, <5>1
        <5>2. CASE i # Len(path)
          <6>1. i < Len(path) /\ Len(path) \in DOMAIN path /\ i \in DOMAIN path
            BY <4>2, <4>3, <5>2 DEF TypeOK
          <6>2. rank[node] < rank[path[i]]
            BY <6>1 DEF DescentInv
          <6>3. rank[path[i]] \in Int
            BY <6>1, FS_CardinalityType, IdsAssumption DEF Ranks, TypeOK
          <6> QED
            BY <4>1, <4>2, <4>3, <4>4, <6>2, <6>3
        <5> QED
          BY <5>1, <5>2
      <4>5. CASE j # Len(path) + 1
        <5>1. j \in DOMAIN path /\ path'[j] = path[j]
          BY <4>2, <4>5
        <5> QED
          BY <4>3, <5>1 DEF DescentInv
      <4> QED
        BY <4>4, <4>5
    <3> QED
      BY <3>1, <3>3, <3>4
  <2>3. CASE FinishNode
    <3>1. /\ setup' = setup
          /\ \A i \in DOMAIN path' : i \in DOMAIN path /\ path'[i] = path[i]
      BY <2>3, PopElements DEF FinishNode, TypeOK, SortInv
    <3> QED
      BY <3>1 DEF DescentInv
  <2>4. CASE Decide \/ RunnerStep
    BY <2>4, DecisionKeepsSort DEF DescentInv
  <2>5. CASE \/ SelectNext \/ SelectionComplete \/ SortComplete \/ RunComplete
             \/ Interrupt \/ UNCHANGED vars
    <3>1. UNCHANGED <<setup, path>>
      BY <2>5 DEF SelectNext, SelectionComplete, SortComplete, RunComplete,
         Interrupt, vars, sortVars
    <3> QED
      BY <3>1 DEF DescentInv
  <2> QED
    BY <2>1, <2>2, <2>3, <2>4, <2>5 DEF Next, EngineStep
<1> QED
  BY <1>1, <1>2, TypeCorrect, RunningInvHolds, SortInvHolds, PTL DEF Spec

\* On an acyclic graph, a node that finishes has all its selected
\* requirements done: one in progress would be a frame below or above its own.
LEMMA FinishedRequirementsDone ==
  ASSUME TypeOK, SortInv, FrameInv, DescentInv, FinishNode, Acyclic(setup),
         NEW r \in Prerequisites(path[Len(path)]) \cap Selected
  PROVE  r \in done
<1> DEFINE node == path[Len(path)]
<1>1. node \in Ids /\ Len(path) \in DOMAIN path
  BY DEF FinishNode, TypeOK
<1>2. node \in InProgress
  BY <1>1 DEF InProgress, Range
<1>3. PICK k \in DOMAIN Requires(node) : r = Requires(node)[k]
  BY DEF Prerequisites, Range
<1>4. k < nextReq[node]
  <2>1. Requires(node) \in Seq(Ids) /\ nextReq[node] > Len(Requires(node))
    BY <1>1, SetupShape DEF FinishNode, TypeOK
  <2> QED
    BY <1>1, <1>3, <2>1 DEF TypeOK
<1>5. r \in done \cup InProgress
  BY <1>2, <1>3, <1>4 DEF FrameInv
<1>6. r \notin InProgress
  <2> SUFFICES ASSUME r \in InProgress PROVE FALSE
    OBVIOUS
  <2>1. PICK rank \in Ranks(setup) : TRUE
    BY DEF Acyclic
  <2>2. rank[r] < rank[node] /\ rank[r] \in Int /\ rank[node] \in Int
    BY <1>1, RankDecreases
  <2>3. PICK j \in DOMAIN path : r = path[j]
    BY DEF InProgress, Range
  <2>4. j = Len(path) \/ j < Len(path)
    BY <2>3 DEF TypeOK
  <2>5. CASE j = Len(path)
    BY <2>2, <2>3, <2>5
  <2>6. CASE j < Len(path)
    <3>1. rank[node] < rank[r]
      BY <1>1, <2>3, <2>6 DEF DescentInv
    <3> QED
      BY <2>2, <3>1
  <2> QED
    BY <2>4, <2>5, <2>6
<1> QED
  BY <1>5, <1>6

\* On every acyclic requires graph the sort puts each selected prerequisite
\* before its dependents.
THEOREM PrerequisitesComeFirst == Spec => []DependencyOrder
<1>1. Init => DependencyOrder
  BY DEF Init, DependencyOrder
<1>2. TypeOK /\ RunningInv /\ SortInv /\ FrameInv /\ DescentInv
        /\ DependencyOrder /\ [Next]_vars
        => DependencyOrder'
  <2> SUFFICES ASSUME TypeOK, RunningInv, SortInv, FrameInv, DescentInv,
                      DependencyOrder, [Next]_vars
               PROVE  DependencyOrder'
    OBVIOUS
  <2>1. CASE FinishNode
    <3> DEFINE node == path[Len(path)]
    <3>1. /\ setup' = setup /\ selected' = selected
          /\ ordered' = Append(ordered, node) /\ node \in Ids
      BY <2>1 DEF FinishNode, TypeOK
    <3>2. /\ ordered'[Len(ordered) + 1] = node
          /\ \A i \in DOMAIN ordered : i < Len(ordered) + 1 /\ ordered'[i] = ordered[i]
          /\ \A i \in DOMAIN ordered' : i \in DOMAIN ordered \/ i = Len(ordered) + 1
      BY <3>1, AppendElements DEF TypeOK
    <3> SUFFICES ASSUME Acyclic(setup), NEW i \in DOMAIN ordered',
                        NEW r \in Prerequisites(ordered'[i]) \cap Selected
                 PROVE  \E j \in 1..(i - 1) : ordered'[j] = r
      BY <3>1 DEF DependencyOrder, Prerequisites, Requires, Assertion, Selected
    <3>3. CASE i \in DOMAIN ordered
      <4>1. PICK j \in 1..(i - 1) : ordered[j] = r
        BY <3>2, <3>3 DEF DependencyOrder
      <4>2. j \in DOMAIN ordered
        BY <3>3, <4>1 DEF TypeOK
      <4> QED
        BY <3>2, <4>1, <4>2
    <3>4. CASE i = Len(ordered) + 1
      <4>1. r \in done
        BY <2>1, <3>2, <3>4, FinishedRequirementsDone
      <4>2. PICK j \in DOMAIN ordered : ordered[j] = r
        BY <4>1 DEF SortInv, Range
      <4>3. j \in 1..(i - 1)
        BY <3>4, <4>2 DEF TypeOK
      <4> QED
        BY <3>2, <4>2, <4>3
    <3> QED
      BY <3>2, <3>3, <3>4
  <2>2. CASE SelectNext
    <3>1. setup' = setup /\ ordered' = <<>>
      BY <2>2 DEF SelectNext, SortInv, sortVars
    <3> QED
      BY <3>1 DEF DependencyOrder
  <2>3. CASE Decide \/ RunnerStep
    BY <2>3, DecisionKeepsSort DEF DependencyOrder, Prerequisites, Requires, Assertion, Selected
  <2>4. CASE \/ VisitSelected \/ VisitRequirement \/ SelectionComplete
             \/ SortComplete \/ RunComplete \/ Interrupt \/ UNCHANGED vars
    <3>1. UNCHANGED <<setup, selected, ordered>>
      BY <2>4 DEF VisitSelected, VisitRequirement, SelectionComplete,
         SortComplete, RunComplete, Interrupt, vars, sortVars
    <3> QED
      BY <3>1 DEF DependencyOrder, Prerequisites, Requires, Assertion, Selected
  <2> QED
    BY <2>1, <2>2, <2>3, <2>4 DEF Next, EngineStep
<1> QED
  BY <1>1, <1>2, TypeCorrect, RunningInvHolds, SortInvHolds, FrameInvHolds,
     DescentInvHolds, PTL DEF Spec

\* When a verdict is recorded, every selected prerequisite has its own.
LEMMA PrerequisitesSettled ==
  ASSUME TypeOK, SortInv, OutputInv, DependencyOrder, Acyclic(setup),
         NEW a \in Ids, Settles(a), NEW r \in Prerequisites(a) \cap Selected
  PROVE  r \in Ids /\ results[r].status # "none"
<1>1. cursor \in DOMAIN ordered /\ a = ordered[cursor] /\ Len(out) + 1 = cursor
  BY SettleEffect
<1>2. PICK j \in 1..(cursor - 1) : ordered[j] = r
  BY <1>1 DEF DependencyOrder
<1>3. j \in DOMAIN out /\ out[j] = r
  BY SMTT(30), <1>1, <1>2 DEF OutputInv, TypeOK
<1>4. r \in Range(out) /\ r \in Ids
  BY <1>3 DEF Range, TypeOK
<1> QED
  BY <1>4 DEF OutputInv

\* On every acyclic requires graph, BLOCKED names a prerequisite that was not
\* selected or has a verdict that does not satisfy.
THEOREM BlockingIsDeserved == Spec => []BlockedIsDeserved
<1>1. Init => BlockedIsDeserved
  BY DEF Init, BlockedIsDeserved, NoResult
<1>2. TypeOK /\ RunningInv /\ SortInv /\ OutputInv /\ DependencyOrder
        /\ BlockedIsDeserved /\ [Next]_vars
        => BlockedIsDeserved'
  <2> SUFFICES ASSUME TypeOK, RunningInv, SortInv, OutputInv, DependencyOrder,
                      BlockedIsDeserved, [Next]_vars, Acyclic(setup)',
                      NEW b \in Ids, results'[b].cause = "prerequisite"
               PROVE  /\ results'[b].blamed \in Prerequisites(b)'
                      /\ \/ results'[b].blamed \notin Selected'
                         \/ results'[results'[b].blamed].status
                              \notin Satisfying \cup {"none"}
    BY DEF BlockedIsDeserved
  <2>1. CASE SelectNext
    <3>1. out = <<>> /\ results' = results
      BY <2>1 DEF SelectNext, OutputInv, runVars
    <3>2. results[b].status = "none"
      BY <3>1, EmptyAndSingleton DEF OutputInv
    <3> QED
      BY <3>1, <3>2 DEF OutputInv
  <2>2. CASE ~SelectNext
    <3>1. setup' = setup /\ selected' = selected
      BY <2>2, DecisionKeepsSort DEF Next, EngineStep, SelectionComplete,
         VisitSelected, VisitRequirement, FinishNode, SortComplete, RunComplete,
         Interrupt, vars
    <3>2. /\ Acyclic(setup) /\ Selected' = Selected
          /\ Prerequisites(b)' = Prerequisites(b)
      BY <3>1 DEF Acyclic, Ranks, Selected, Prerequisites, Requires, Assertion
    <3>3. CASE Decide \/ RunnerStep
      <4>1. PICK a \in Ids : CallRunner(a) \/ Settles(a)
        BY <3>3, DecisionCases
      <4>2. CASE CallRunner(a)
        BY <3>2, <4>2 DEF CallRunner, BlockedIsDeserved
      <4>3. CASE Settles(a) /\ b = a
        <5> DEFINE r == results'[a].blamed
        <5>1. r \in Prerequisites(a) /\ Unsatisfied(r) /\ r \in Ids
          BY <4>3, SettleEffect, SetupShape DEF TypeOK
        <5>2. CASE r \notin Selected
          BY <3>2, <4>3, <5>1, <5>2
        <5>3. CASE r \in Selected
          <6>1. results[r].status \notin Satisfying \cup {"none"}
            BY <3>2, <4>3, <5>1, <5>3, PrerequisitesSettled DEF Unsatisfied
          <6>2. r # a /\ results'[r] = results[r]
            BY ZenonT(60), <4>3, <5>1, <6>1, SettleEffect
          <6> QED
            BY <3>2, <4>3, <5>1, <6>1, <6>2
        <5> QED
          BY <5>2, <5>3
      <4>4. CASE Settles(a) /\ b # a
        <5> DEFINE r == results[b].blamed
        <5>0. /\ results[a].status = "none"
              /\ \A c \in Ids \ {a} : results'[c] = results[c]
          BY <4>4, SettleEffect
        <5>1. results'[b] = results[b]
          BY <4>4, <5>0
        <5>2. /\ r \in Prerequisites(b)
              /\ r \notin Selected \/ results[r].status \notin Satisfying \cup {"none"}
          BY <3>2, <5>1 DEF BlockedIsDeserved
        <5>3. r \in Ids
          BY <5>2, SetupShape DEF TypeOK
        <5> QED
          <6>1. CASE r \notin Selected
            BY <3>2, <5>1, <5>2, <6>1
          <6>2. CASE r \in Selected
            <7>1. r # a
              BY <5>0, <5>2, <6>2
            <7>2. results'[r] = results[r]
              BY <5>0, <5>3, <7>1
            <7> QED
              BY <3>2, <5>1, <5>2, <6>2, <7>2
          <6> QED
            BY <6>1, <6>2
      <4> QED
        BY <4>1, <4>2, <4>3, <4>4
    <3>4. CASE ~(Decide \/ RunnerStep)
      BY <3>2, <3>4, OtherSteps DEF BlockedIsDeserved
    <3> QED
      BY <3>3, <3>4
  <2> QED
    BY <2>1, <2>2
<1> QED
  BY <1>1, <1>2, TypeCorrect, RunningInvHolds, SortInvHolds, OutputInvHolds,
     PrerequisitesComeFirst, PTL DEF Spec

-----------------------------------------------------------------------------
\* The run implements the promise of Verdicts.

\* Where no requires graph has a cycle, every behaviour of the engine is one
\* that Verdicts allows.
THEOREM RunImplementsVerdicts ==
  ASSUME \A s \in Setups : Acyclic(s)
  PROVE  Spec => ImplementsVerdicts
<1>1. Init => Promise!Init
  <2> SUFFICES ASSUME Init PROVE Promise!Init
    OBVIOUS
  <2>1. setup \in SetupSpace
    BY SetupsAssumption DEF Init
  <2>2. PlanOf(setup).selected \subseteq Ids
    BY <2>1 DEF PlanOf, SetupSpace, Registry, Range
  <2>3. \A a \in Ids : Range(setup.registry.assertions[a].requires) \subseteq Ids
    BY <2>1, SetupShape DEF Prerequisites, Requires, Assertion
  <2>4. PlanOf(setup) \in [selected : SUBSET Ids, requires : [Ids -> SUBSET Ids]]
    BY <2>2, <2>3 DEF PlanOf
  <2>5. [a \in Ids |-> results[a].status] = [a \in Ids |-> "none"]
    BY DEF Init, NoResult
  <2> QED
    BY <2>4, <2>5 DEF Promise!Init
<1>2. setup \in Setups /\ TypeOK /\ RunningInv /\ SelectionInv /\ SortInv
        /\ OutputInv /\ DependencyOrder /\ [Next]_vars
        => [Promise!Next]_<<PlanOf(setup), [a \in Ids |-> results[a].status]>>
  <2> SUFFICES ASSUME setup \in Setups, TypeOK, RunningInv, SelectionInv, SortInv,
                      OutputInv, DependencyOrder, [Next]_vars
               PROVE  [Promise!Next]_<<PlanOf(setup), [a \in Ids |-> results[a].status]>>
    OBVIOUS
  <2>1. setup' = setup /\ results' = results =>
          UNCHANGED <<PlanOf(setup), [a \in Ids |-> results[a].status]>>
    BY DEF PlanOf, Matches
  <2>2. CASE ~(Decide \/ RunnerStep)
    BY <2>1, <2>2, OtherSteps
  <2>3. CASE Decide \/ RunnerStep
    <3>1. PICK a \in Ids : CallRunner(a) \/ Settles(a)
      BY <2>3, DecisionCases
    <3>2. CASE CallRunner(a)
      BY <2>1, <3>2 DEF CallRunner
    <3>3. CASE Settles(a)
      <4> DEFINE verdict == [b \in Ids |-> results[b].status]
                 plan == PlanOf(setup)
                 v == results'[a].status
      <4>1. /\ phase \in {"decide", "running"} /\ cursor \in DOMAIN ordered
            /\ a = ordered[cursor]
        BY <3>3 DEF Settles
      <4>2. plan.selected = Selected
        <5>1. Selected = Chosen(setup, Len(setup.registry.order))
          BY <4>1 DEF SelectionInv
        <5>2. setup.registry.order \in Seq(Ids)
          BY DEF TypeOK, SetupSpace, Registry
        <5> QED
          BY <5>1, <5>2 DEF PlanOf, Chosen, Range
      <4>3. a \in Selected /\ verdict[a] = "none"
        BY <3>3, <4>1, SettleEffect DEF SortInv, Range
      <4>4. plan.requires[a] = Prerequisites(a)
        BY DEF PlanOf, Prerequisites, Requires, Assertion
      <4>5. \A r \in Prerequisites(a) \cap Selected : verdict[r] # "none"
        BY <3>3, PrerequisitesSettled
      <4>6. /\ plan' = plan
            /\ verdict' = [verdict EXCEPT ![a] = v]
        <5>1. setup' = setup /\ \A b \in Ids \ {a} : results'[b] = results[b]
          BY <3>3, SettleEffect
        <5> QED
          BY <5>1 DEF PlanOf, Matches
      <4>7. Prerequisites(a) \subseteq Ids
        BY SetupShape DEF TypeOK
      <4>8. CASE results'[a].cause = "prerequisite"
        <5>1. PICK r \in Prerequisites(a) : results[r].status \notin Satisfying
          BY <3>3, <4>8, SettleEffect DEF Unsatisfied
        <5>2. v = "blocked" /\ verdict[r] \notin Satisfying
          BY <3>3, <4>7, <4>8, <5>1, SettleEffect
        <5>3. Promise!Block(a)
          BY <4>2, <4>3, <4>4, <4>5, <4>6, <5>1, <5>2
             DEF Promise!Block, Promise!Pending, Promise!Due, Promise!Satisfying, Satisfying
        <5> QED
          BY <5>3 DEF Promise!Next
      <4>9. CASE results'[a].cause # "prerequisite"
        <5>1. \A r \in Prerequisites(a) : verdict[r] \in Satisfying
          BY <3>3, <4>7, <4>9, SettleEffect DEF Blocked, Unsatisfied
        <5>2. PICK w \in Promise!Statuses : w = v
          <6>1. results'[a] \in ResultRecord /\ results'[a].status # "none"
            BY <3>3, SettleEffect
          <6> QED
            BY <6>1 DEF ResultRecord, Statuses, Promise!Statuses
        <5>3. Promise!Judge(a, w)
          BY <4>2, <4>3, <4>4, <4>5, <4>6, <5>1, <5>2
             DEF Promise!Judge, Promise!Pending, Promise!Due, Promise!Satisfying, Satisfying
        <5> QED
          BY <5>3 DEF Promise!Next
      <4> QED
        BY <4>8, <4>9
    <3> QED
      BY <3>1, <3>2, <3>3
  <2> QED
    BY <2>2, <2>3
<1> QED
  BY <1>1, <1>2, SetupFixed, TypeCorrect, RunningInvHolds, SelectionInvHolds,
     SortInvHolds, OutputInvHolds, PrerequisitesComeFirst, PTL
     DEF Spec, ImplementsVerdicts, Promise!Spec

=============================================================================
