------------------------------- MODULE Engine -------------------------------
(***************************************************************************)
(* The execution engine of bauble: runner.run with its helpers _topo_sort  *)
(* and _decide.  One call of run selects assertions from the registry,     *)
(* orders them so that prerequisites come first, and gives each of them a  *)
(* verdict, either by itself (BLOCKED, UNTESTABLE, NOT_APPLICABLE) or by   *)
(* calling the runner function registered for the assertion.               *)
(*                                                                         *)
(* What run is given (registry, selector, capability) is the record setup, *)
(* chosen in the initial state and never changed.  The recursion of visit  *)
(* in _topo_sort is an explicit stack: path holds the nodes of the Python  *)
(* frames, outermost first, and nextReq[a] is the position a's frame has   *)
(* reached in its loop over a.requires (a node has at most one frame).     *)
(***************************************************************************)
EXTENDS Naturals, Sequences, FiniteSets, Functions

CONSTANTS
  Ids,        \* assertion ids, registered or only mentioned in a requires
  Features,   \* names that may occur in requires_features
  Labels,     \* values the selector's dimensions range over
  Setups,     \* the (registry, selector, capability) triples considered
  NoId        \* "no assertion"

\* The dimensions of selector.Selector; a dimension that holds the empty set
\* does not restrict the selection.
Dimensions == {"profiles", "rfcs", "scenarios", "assertions", "categories",
               "severities", "test_classes"}

\* model.Assertion, as far as the engine reads it.  labels[d] is the set of
\* values the assertion has in dimension d of the selector.
AssertionRecord ==
  [requires : Seq(Ids), test_class : {"A", "B", "C", "D"}, mutates : BOOLEAN,
   requires_features : SUBSET Features, labels : [Dimensions -> SUBSET Labels]]

Registry == [order : Seq(Ids), assertions : [Ids -> AssertionRecord],
             runners : SUBSET Ids]

Selector == [wanted : [Dimensions -> SUBSET Labels], exclude : SUBSET Ids,
             allow_mutation : BOOLEAN]

\* capability.Capability: the features for which supports answers True.
Capability == [writable : BOOLEAN, supported : SUBSET Features]

SetupSpace == [registry : Registry, selector : Selector, capability : Capability]

\* Registry.register refuses an id that is already registered.
NoDuplicates(s) == \A i, j \in DOMAIN s : s[i] = s[j] => i = j

ASSUME IdsAssumption == IsFiniteSet(Ids) /\ NoId \notin Ids
ASSUME SetupsAssumption ==
  \A s \in Setups : s \in SetupSpace /\ NoDuplicates(s.registry.order)

VARIABLES
  setup,      \* the arguments of run
  phase,      \* which loop of run is executing
  cursor,     \* position of that loop in the list it walks
  selected,   \* run: the list comprehension over registry.all()
  path,       \* _topo_sort: nodes of the active frames of visit
  nextReq,    \* _topo_sort: position of each frame in node.requires
  done,       \* _topo_sort: the set done
  ordered,    \* _topo_sort: its list out, run's ordered
  results,    \* run: the dict results
  out,        \* run: the list out (ids; the Result itself is results[id])
  running     \* the assertion whose runner function is executing

vars == <<setup, phase, cursor, selected, path, nextReq, done, ordered,
          results, out, running>>
runVars == <<results, out, running>>
sortVars == <<path, nextReq, done, ordered>>

Phases == {"select", "sort", "decide", "running", "finished", "aborted"}

\* model.Status, with "none" for an assertion that has no Result yet.  SKIP
\* and NA exist in the enumeration but nothing in the program produces them.
Statuses == {"none", "pass", "fail", "not_applicable", "blocked", "untestable"}
RunnerStatuses == Statuses \ {"none"}
Causes == {"none", "prerequisite", "no portable test", "server not writable",
           "feature not supported", "runner", "runner raised"}
Satisfying == {"pass", "not_applicable"}

\* A Result: its status, and in place of the detail text what led to it and,
\* for a prerequisite, which one the detail names.
ResultRecord == [status : Statuses, cause : Causes, blamed : Ids \cup {NoId}]
NoResult == [status |-> "none", cause |-> "none", blamed |-> NoId]

Assertion(a) == setup.registry.assertions[a]
Requires(a) == Assertion(a).requires
Prerequisites(a) == Range(Requires(a))
Selected == Range(selected)
InProgress == Range(path)

\* Selector.matches: AND across the dimensions, OR within one.
Matches(s, a) ==
  /\ a \notin s.selector.exclude
  /\ \A d \in Dimensions :
       \/ s.selector.wanted[d] = {}
       \/ s.selector.wanted[d] \cap s.registry.assertions[a].labels[d] # {}

Init ==
  /\ setup \in Setups
  /\ phase = "select"
  /\ cursor = 1
  /\ selected = <<>>
  /\ path = <<>>
  /\ nextReq = [a \in Ids |-> 1]
  /\ done = {}
  /\ ordered = <<>>
  /\ results = [a \in Ids |-> NoResult]
  /\ out = <<>>
  /\ running = NoId

-----------------------------------------------------------------------------
\* run: selected = [a for a in registry.all() if selector.matches(a)]

SelectNext ==
  /\ phase = "select"
  /\ cursor \in DOMAIN setup.registry.order
  /\ LET a == setup.registry.order[cursor]
     IN  selected' = IF Matches(setup, a) THEN Append(selected, a) ELSE selected
  /\ cursor' = cursor + 1
  /\ UNCHANGED <<setup, phase, sortVars, runVars>>

SelectionComplete ==
  /\ phase = "select"
  /\ cursor > Len(setup.registry.order)
  /\ phase' = "sort"
  /\ cursor' = 1
  /\ UNCHANGED <<setup, selected, sortVars, runVars>>

-----------------------------------------------------------------------------
\* _topo_sort: a depth-first visit of the selected assertions.

\* Mutant: the test against done is forgotten.
FreshUnlessInProgress(a) == a \notin InProgress

Fresh(a) == a \notin done /\ a \notin InProgress

\* Mutant: the outer loop does not ask whether the assertion was visited.
VisitSelectedAgain ==
  /\ phase = "sort"
  /\ path = <<>>
  /\ cursor \in DOMAIN selected
  /\ path' = <<selected[cursor]>>
  /\ cursor' = cursor + 1
  /\ UNCHANGED <<setup, phase, selected, nextReq, done, ordered, runVars>>

\* The outer loop calls visit on the next selected assertion, which returns
\* at once when the assertion was reached as somebody's prerequisite before.
VisitSelected ==
  /\ phase = "sort"
  /\ path = <<>>
  /\ cursor \in DOMAIN selected
  /\ LET a == selected[cursor]
     IN  path' = IF Fresh(a) THEN <<a>> ELSE <<>>
  /\ cursor' = cursor + 1
  /\ UNCHANGED <<setup, phase, selected, nextReq, done, ordered, runVars>>

\* Mutant: the loop waits for a requirement in progress instead of passing on.
VisitRequirementWaiting ==
  /\ phase = "sort"
  /\ path # <<>>
  /\ LET node == path[Len(path)]
     IN  /\ nextReq[node] \in DOMAIN Requires(node)
         /\ LET req == Requires(node)[nextReq[node]]
            IN  /\ req \notin InProgress
                /\ path' = IF req \in Selected /\ Fresh(req)
                             THEN Append(path, req) ELSE path
         /\ nextReq' = [nextReq EXCEPT ![node] = @ + 1]
  /\ UNCHANGED <<setup, phase, cursor, selected, done, ordered, runVars>>

\* Mutant: the loop looks at the first requirement only.
VisitFirstRequirement ==
  /\ phase = "sort"
  /\ path # <<>>
  /\ LET node == path[Len(path)]
     IN  /\ nextReq[node] \in DOMAIN Requires(node)
         /\ LET req == Requires(node)[nextReq[node]]
            IN  path' = IF req \in Selected /\ Fresh(req) /\ nextReq[node] = 1
                          THEN Append(path, req) ELSE path
         /\ nextReq' = [nextReq EXCEPT ![node] = @ + 1]
  /\ UNCHANGED <<setup, phase, cursor, selected, done, ordered, runVars>>

\* One iteration of "for req in node.requires" in the innermost frame: an
\* unselected prerequisite is passed over, one that is done or in progress
\* makes the recursive visit return at once, any other gets a frame.
VisitRequirement ==
  /\ phase = "sort"
  /\ path # <<>>
  /\ LET node == path[Len(path)]
     IN  /\ nextReq[node] \in DOMAIN Requires(node)
         /\ LET req == Requires(node)[nextReq[node]]
            IN  path' = IF req \in Selected /\ Fresh(req)
                          THEN Append(path, req) ELSE path
         /\ nextReq' = [nextReq EXCEPT ![node] = @ + 1]
  /\ UNCHANGED <<setup, phase, cursor, selected, done, ordered, runVars>>

\* Mutant: the node is put in front, as if requires were followed backwards.
FinishNodeInFront ==
  /\ phase = "sort"
  /\ path # <<>>
  /\ LET node == path[Len(path)]
     IN  /\ nextReq[node] > Len(Requires(node))
         /\ done' = done \cup {node}
         /\ ordered' = <<node>> \o ordered
  /\ path' = SubSeq(path, 1, Len(path) - 1)
  /\ UNCHANGED <<setup, phase, cursor, selected, nextReq, runVars>>

\* The innermost frame has walked its requirements and returns.
FinishNode ==
  /\ phase = "sort"
  /\ path # <<>>
  /\ LET node == path[Len(path)]
     IN  /\ nextReq[node] > Len(Requires(node))
         /\ done' = done \cup {node}
         /\ ordered' = Append(ordered, node)
  /\ path' = SubSeq(path, 1, Len(path) - 1)
  /\ UNCHANGED <<setup, phase, cursor, selected, nextReq, runVars>>

\* Mutant: the decision loop starts before the first position.
SortCompleteOffByOne ==
  /\ phase = "sort"
  /\ path = <<>>
  /\ cursor > Len(selected)
  /\ phase' = "decide"
  /\ cursor' = 0
  /\ UNCHANGED <<setup, selected, sortVars, runVars>>

SortComplete ==
  /\ phase = "sort"
  /\ path = <<>>
  /\ cursor > Len(selected)
  /\ phase' = "decide"
  /\ cursor' = 1
  /\ UNCHANGED <<setup, selected, sortVars, runVars>>

-----------------------------------------------------------------------------
\* run: one iteration of "for assertion in ordered" is one call of _decide.
\* The gates are tried in the order of the code; the first that applies wins.

Deciding(a) == phase = "decide" /\ cursor \in DOMAIN ordered /\ a = ordered[cursor]

\* Mutant: a prerequisite without a result passes the gate.
UnsatisfiedIfJudged(r) == results[r].status \notin Satisfying \cup {"none"}

\* prior is None or prior.status not in (PASS, NOT_APPLICABLE)
Unsatisfied(r) == results[r].status \notin Satisfying

\* Mutant: the gate looks at the first requirement only.
BlockedByFirst(a) == Requires(a) # <<>> /\ Unsatisfied(Requires(a)[1])

Blocked(a) == \E r \in Prerequisites(a) : Unsatisfied(r)
Untestable(a) ==
  Assertion(a).test_class \in {"B", "D"} \/ a \notin setup.registry.runners

MutationRefused(a) ==
  /\ Assertion(a).mutates
  /\ ~setup.capability.writable
  /\ ~setup.selector.allow_mutation
FeatureMissing(a) ==
  ~(Assertion(a).requires_features \subseteq setup.capability.supported)

\* results[assertion.id] = result; out.append(result)
Record(a, status, cause, blamed) ==
  /\ results' = [results EXCEPT ![a] =
                   [status |-> status, cause |-> cause, blamed |-> blamed]]
  /\ out' = Append(out, a)
  /\ cursor' = cursor + 1
  /\ phase' = "decide"
  /\ running' = NoId
  /\ UNCHANGED <<setup, selected, sortVars>>

DecideBlocked(a) ==
  /\ Deciding(a)
  /\ \E i \in DOMAIN Requires(a) :
       /\ Unsatisfied(Requires(a)[i])
       /\ \A j \in 1..(i - 1) : ~Unsatisfied(Requires(a)[j])
       /\ Record(a, "blocked", "prerequisite", Requires(a)[i])

DecideUntestable(a) ==
  /\ Deciding(a)
  /\ ~Blocked(a)
  /\ Untestable(a)
  /\ Record(a, "untestable", "no portable test", NoId)

DecideNotWritable(a) ==
  /\ Deciding(a)
  /\ ~Blocked(a) /\ ~Untestable(a)
  /\ MutationRefused(a)
  /\ Record(a, "not_applicable", "server not writable", NoId)

DecideUnsupported(a) ==
  /\ Deciding(a)
  /\ ~Blocked(a) /\ ~Untestable(a) /\ ~MutationRefused(a)
  /\ FeatureMissing(a)
  /\ Record(a, "not_applicable", "feature not supported", NoId)

CallRunner(a) ==
  /\ Deciding(a)
  /\ ~Blocked(a) /\ ~Untestable(a) /\ ~MutationRefused(a) /\ ~FeatureMissing(a)
  /\ phase' = "running"
  /\ running' = a
  /\ UNCHANGED <<setup, cursor, selected, sortVars, results, out>>

\* The runner returns a Result of its own making.  The registered runners
\* return PASS, FAIL, NOT_APPLICABLE, UNTESTABLE and (bind.py, abandon.py)
\* BLOCKED.
RunnerReturns(a, status) ==
  /\ phase = "running" /\ running = a
  /\ Record(a, status, "runner", NoId)

\* "except Exception": the runner raised, which counts as a failure.
RunnerRaises(a) ==
  /\ phase = "running" /\ running = a
  /\ Record(a, "fail", "runner raised", NoId)

RunComplete ==
  /\ phase = "decide"
  /\ cursor > Len(ordered)
  /\ phase' = "finished"
  /\ UNCHANGED <<setup, cursor, selected, sortVars, runVars>>

\* An exception that is not an Exception (KeyboardInterrupt, SystemExit)
\* passes through every handler of run; its results are lost.
Interrupt ==
  /\ phase \notin {"finished", "aborted"}
  /\ phase' = "aborted"
  /\ UNCHANGED <<setup, cursor, selected, sortVars, runVars>>

-----------------------------------------------------------------------------
Decide ==
  \E a \in Ids :
    \/ DecideBlocked(a)
    \/ DecideUntestable(a)
    \/ DecideNotWritable(a)
    \/ DecideUnsupported(a)
    \/ CallRunner(a)

\* The steps the engine takes by itself.
EngineStep ==
  \/ SelectNext
  \/ SelectionComplete
  \/ VisitSelected
  \/ VisitRequirement
  \/ FinishNode
  \/ SortComplete
  \/ Decide
  \/ RunComplete

RunnerStep ==
  \E a \in Ids :
    \/ \E status \in RunnerStatuses : RunnerReturns(a, status)
    \/ RunnerRaises(a)

Next == EngineStep \/ RunnerStep \/ Interrupt

\* The engine is straight-line Python, so it always takes its next step.
\* Nothing obliges a runner to return: ldap3 is given no receive timeout.
Spec == Init /\ [][Next]_vars /\ WF_vars(EngineStep)

-----------------------------------------------------------------------------
\* Properties.

TypeOK ==
  /\ setup \in SetupSpace
  /\ phase \in Phases
  /\ cursor \in Nat \ {0}
  /\ selected \in Seq(Ids)
  /\ path \in Seq(Ids)
  /\ nextReq \in [Ids -> Nat \ {0}]
  /\ done \in SUBSET Ids
  /\ ordered \in Seq(Ids)
  /\ results \in [Ids -> ResultRecord]
  /\ out \in Seq(Ids)
  /\ running \in Ids \cup {NoId}

\* A run that finishes gives every selected assertion exactly one verdict and
\* gives no verdict to any other: the depth-first order neither drops an
\* assertion nor visits one twice, whatever the requires graph looks like
\* (cycles, prerequisites outside the selection).
ExactlyOneVerdict ==
  /\ NoDuplicates(out)
  /\ \A a \in Ids : results[a].status # "none" <=> a \in Range(out)
  /\ Range(out) \subseteq Selected
  /\ phase = "finished" => Range(out) = Selected

\* A verdict other than "blocked by a prerequisite" rests on verdicts that
\* were there before it: each prerequisite stands earlier in the run's
\* output with PASS or NOT_APPLICABLE.
GroundedVerdicts ==
  \A i \in DOMAIN out :
    results[out[i]].cause # "prerequisite" =>
      \A r \in Prerequisites(out[i]) :
        \E j \in 1..(i - 1) : out[j] = r /\ results[r].status \in Satisfying

\* A set of assertions each of which needs another one of the set, or one
\* that is not selected: a cycle, a chain into a cycle, a dangling chain.
Doomed(C) ==
  \A a \in C : \E r \in Prerequisites(a) : r \in C \/ r \notin Selected

\* No runner of a doomed assertion is ever called, on a cycle in requires or
\* downstream of an unselected prerequisite: _topo_sort breaks cycles at an
\* arbitrary edge, and still the verdict of every member is BLOCKED.
DoomedNeverRun ==
  \A C \in SUBSET Ids :
    Doomed(C) => \A a \in C : /\ results[a].cause \in {"none", "prerequisite"}
                              /\ running # a

\* An assignment of ranks under which every prerequisite ranks below its
\* dependents; there is one exactly when the requires graph has no cycle.
Ranks(s) ==
  {rank \in [Ids -> 0..Cardinality(Ids)] :
     \A a \in Ids : \A r \in Range(s.registry.assertions[a].requires) :
       rank[r] < rank[a]}
Acyclic(s) == Ranks(s) # {}

\* Tests run in dependency order: without cycles, a selected prerequisite
\* always stands before its dependents in the order the sort builds.
DependencyOrder ==
  Acyclic(setup) =>
    \A i \in DOMAIN ordered : \A r \in Prerequisites(ordered[i]) \cap Selected :
      \E j \in 1..(i - 1) : ordered[j] = r

\* An assertion is blocked only by a prerequisite that was left out of the
\* selection or that has a verdict of its own, and a bad one: never by one
\* that merely had not had its turn.
BlockedIsDeserved ==
  Acyclic(setup) =>
    \A a \in Ids :
      results[a].cause = "prerequisite" =>
        LET r == results[a].blamed
        IN  /\ r \in Prerequisites(a)
            /\ \/ r \notin Selected
               \/ results[r].status \notin Satisfying \cup {"none"}

\* A verdict, once recorded, is never rewritten, by a later one of the same
\* assertion either.
VerdictsAreFinal ==
  [][\A a \in Ids : results[a].status # "none" => results'[a] = results[a]]_vars

\* The run as module Verdicts sees it: what was asked for, and the verdicts.
PlanOf(s) ==
  [selected |-> {a \in Range(s.registry.order) : Matches(s, a)},
   requires |-> [a \in Ids |-> Range(s.registry.assertions[a].requires)]]

Promise == INSTANCE Verdicts WITH
             plan <- PlanOf(setup),
             verdict <- [a \in Ids |-> results[a].status]

\* On an acyclic requires graph, run implements the promise of Verdicts: its
\* depth-first order and its gates judge no assertion before its time and
\* block none without reason.
ImplementsVerdicts == Promise!Spec

\* If no runner hangs, the run ends: the sort terminates on every requires
\* graph, cyclic ones included, and the decision loop gets through.
RunEnds ==
  []<>(phase # "running") => <>(phase \in {"finished", "aborted"})

=============================================================================
