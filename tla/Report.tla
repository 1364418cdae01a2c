------------------------------- MODULE Report -------------------------------
(***************************************************************************)
(* What reporter.py and the exit code make of the results of a run: the    *)
(* verdict of a profile, the lines of the summary, the counts of the JUnit *)
(* report, and runner._conformance_failed.                                 *)
(*                                                                         *)
(* A record is the id of an assertion and its status; the static metadata  *)
(* that to_records copies into it are looked up in Catalogue instead.  A   *)
(* run yields at most one record per assertion, so records are a set.      *)
(***************************************************************************)
EXTENDS Naturals, FiniteSets

CONSTANTS
  Ids,        \* the registered assertions
  Catalogue   \* what the registry says of each of them

\* model.Status without SKIP and NA, which nothing in the program produces.
Statuses == {"pass", "fail", "not_applicable", "blocked", "untestable"}
Layers == {"wire", "semantic", "capability"}
Metadata ==
  [rfc : Nat, severity : {"must", "should", "may"}, test_class : {"A", "B", "C", "D"},
   profiles : SUBSET STRING, layer : Layers, oid : STRING, requires : SUBSET Ids,
   mutates : BOOLEAN]

ASSUME IdsFinite == IsFiniteSet(Ids)
\* Every assertion of the suites names at least one profile.
ASSUME CatalogueAssumption ==
  Catalogue \in [Ids -> Metadata] /\ \A a \in Ids : Catalogue[a].profiles # {}

Records == [id : Ids, status : Statuses]
About(r) == Catalogue[r.id]

-----------------------------------------------------------------------------
\* profile_verdict

MustA(R) == {r \in R : About(r).severity = "must" /\ About(r).test_class = "A"}
Having(R, statuses) == {r \in R : r.status \in statuses}
Ok(R) == Having(R, {"pass", "not_applicable"})
InProfile(R, p) == {r \in R : p \in About(r).profiles}
\* must_a_ok == len(must_a)
AllOk(R) == Cardinality(Ok(MustA(R))) = Cardinality(MustA(R))
Conformant(R, p) == AllOk(InProfile(R, p))
ProfilesIn(R) == UNION {About(r).profiles : r \in R}

\* SummaryReporter.render: a line per RFC, per profile, per layer and per OID.
OfRfc(R, n) == {r \in R : About(r).rfc = n}
OfLayer(R, l) == {r \in R : About(r).layer = l}
OfOid(R, o) == {r \in R : About(r).oid = o}

\* Mutant: any of the profiles is enough for the line of an RFC.
AnyProfileConformant(R) == \E p \in ProfilesIn(R) : Conformant(R, p)
AllProfilesConformant(R) == \A p \in ProfilesIn(R) : Conformant(R, p)
\* Mutant: see AnyProfileConformant.
RfcLineOfAny(R, n) == AnyProfileConformant(OfRfc(R, n))
RfcLine(R, n) == AllProfilesConformant(OfRfc(R, n))
Overall(R) == AllProfilesConformant(R)

LayerLine(R, l) ==
  [ok |-> Cardinality(Ok(MustA(OfLayer(R, l)))), total |-> Cardinality(MustA(OfLayer(R, l))),
   fail |-> Cardinality(Having(MustA(OfLayer(R, l)), {"fail"}))]

\* Advertised: a capability assertion passed, or another one was exercised.
Advertised(r) ==
  IF About(r).layer = "capability" THEN r.status = "pass" ELSE r.status \in {"pass", "fail"}
OidLine(R, o) ==
  IF Having(OfOid(R, o), {"fail"}) # {} THEN "fail"
  ELSE IF \E r \in OfOid(R, o) : Advertised(r) THEN "conformant" ELSE "not advertised"

\* JUnitReporter.render
\* Mutant: a blocked assertion is an ordinary test case.
JUnitBlockedPasses(R) ==
  [tests |-> Cardinality(R), failures |-> Cardinality(Having(R, {"fail"})),
   skipped |-> Cardinality(Having(R, {"untestable", "not_applicable"}))]
JUnit(R) ==
  [tests |-> Cardinality(R), failures |-> Cardinality(Having(R, {"fail"})),
   skipped |-> Cardinality(Having(R, {"blocked", "untestable", "not_applicable"}))]

\* Mutant: a failed SHOULD counts as well.
AnyFailed(R) == \E r \in Having(R, {"fail"}) : About(r).test_class = "A"
\* runner._conformance_failed
ConformanceFailed(R) ==
  \E r \in Having(R, {"fail"}) : About(r).severity = "must" /\ About(r).test_class = "A"

-----------------------------------------------------------------------------
\* What the parts of a report have to do with one another.

\* The lines agree: CONFORMANT overall is CONFORMANT for every RFC and complete
\* in every layer, and an OID is "not advertised" exactly when no assertion
\* about it was exercised.
LinesAgree(R) ==
  /\ Overall(R) <=> \A n \in {About(r).rfc : r \in R} : RfcLine(R, n)
  /\ Overall(R) <=> \A l \in Layers : LayerLine(R, l).ok = LayerLine(R, l).total
  /\ \A o \in {About(r).oid : r \in R} \ {""} :
       OidLine(R, o) = "not advertised" <=> Having(OfOid(R, o), {"pass", "fail"}) = {}

\* The test cases of the JUnit report that are neither failed nor skipped passed.
JUnitAddsUp(R) ==
  JUnit(R).tests = JUnit(R).failures + JUnit(R).skipped + Cardinality(Having(R, {"pass"}))

\* A mandatory assertion failed, so its profile is NON-CONFORMANT; the converse
\* fails where a mandatory assertion was not tested.
GateMatchesSummary(R) ==
  /\ ConformanceFailed(R) => ~Overall(R)
  /\ ~Overall(R) =>
       ConformanceFailed(R) \/ Having(MustA(R), {"blocked", "untestable"}) # {}
=============================================================================
