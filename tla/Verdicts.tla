------------------------------ MODULE Verdicts ------------------------------
(***************************************************************************)
(* What a run of bauble promises, without saying how it is done: every     *)
(* selected assertion gets one verdict, in an order in which prerequisites *)
(* come first; an assertion is judged on its own merits only when all its  *)
(* prerequisites are satisfied, and is blocked only when one of them is    *)
(* known not to be.  Engine implements this for every acyclic graph of     *)
(* requirements; see ImplementsVerdicts there.                             *)
(***************************************************************************)
CONSTANT Ids   \* assertion ids

VARIABLES
  plan,     \* which assertions are selected, and what each of them requires
  verdict   \* the verdict of each assertion, "none" until it has one

Statuses == {"pass", "fail", "not_applicable", "blocked", "untestable"}
Satisfying == {"pass", "not_applicable"}

Init ==
  /\ plan \in [selected : SUBSET Ids, requires : [Ids -> SUBSET Ids]]
  /\ verdict = [a \in Ids |-> "none"]

Pending(a) == a \in plan.selected /\ verdict[a] = "none"

\* Every prerequisite that takes part in the run has its verdict.
Due(a) == \A r \in plan.requires[a] \cap plan.selected : verdict[r] # "none"

\* All prerequisites are satisfied: a is tested, or found not to be testable
\* or not to apply.
Judge(a, v) ==
  /\ Pending(a) /\ Due(a)
  /\ \A r \in plan.requires[a] : verdict[r] \in Satisfying
  /\ verdict' = [verdict EXCEPT ![a] = v]
  /\ UNCHANGED plan

\* A prerequisite is outside the run, or has a verdict that does not satisfy.
Block(a) ==
  /\ Pending(a) /\ Due(a)
  /\ \E r \in plan.requires[a] :
       r \notin plan.selected \/ verdict[r] \notin Satisfying
  /\ verdict' = [verdict EXCEPT ![a] = "blocked"]
  /\ UNCHANGED plan

Next == \E a \in Ids : Block(a) \/ \E v \in Statuses : Judge(a, v)

Spec == Init /\ [][Next]_<<plan, verdict>>
=============================================================================
