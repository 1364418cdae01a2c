--------------------------- MODULE CommandProofs ----------------------------
(***************************************************************************)
(* For every registry and every finite set of records: the lines of the    *)
(* summary agree, the JUnit counts add up, and the exit code and the       *)
(* summary disagree only about mandatory assertions that were not tested.  *)
(* What all of it comes down to is OverallMeans: a count that is compared  *)
(* with the size of the set it counts in says that nothing was left out.   *)
(* For every selection and all arguments: what the exit code, the report,  *)
(* the journal and the connection say at the end of an invocation is       *)
(* right.                                                                  *)
(***************************************************************************)
EXTENDS Command, FiniteSetTheorems, TLAPS

LEMMA AllOkMeans ==
  ASSUME NEW R, IsFiniteSet(R)
  PROVE  AllOk(R) <=> MustA(R) \subseteq Ok(R)
<1>1. Ok(MustA(R)) \subseteq MustA(R) /\ MustA(R) \subseteq R
  BY DEF Ok, Having, MustA
<1>2. IsFiniteSet(MustA(R))
  BY <1>1, FS_Subset
<1>3. AllOk(R) <=> Ok(MustA(R)) = MustA(R)
  BY <1>1, <1>2, FS_Subset DEF AllOk
<1>4. Ok(MustA(R)) = MustA(R) <=> MustA(R) \subseteq Ok(R)
  BY <1>1 DEF Ok, Having
<1> QED
  BY <1>3, <1>4

LEMMA RecordTyped ==
  ASSUME NEW r \in Records
  PROVE  About(r) \in Metadata /\ About(r).profiles # {} /\ About(r).layer \in Layers
  BY CatalogueAssumption DEF Records, About, Metadata

\* CONFORMANT overall means that every mandatory class A record is PASS or
\* NOT_APPLICABLE, because every assertion is in some profile.
THEOREM OverallMeans ==
  ASSUME NEW R \in SUBSET Records, IsFiniteSet(R)
  PROVE  Overall(R) <=> MustA(R) \subseteq Ok(R)
<1>1. ASSUME NEW p PROVE Conformant(R, p) <=> MustA(InProfile(R, p)) \subseteq Ok(InProfile(R, p))
  <2>1. InProfile(R, p) \subseteq R
    BY DEF InProfile
  <2>2. IsFiniteSet(InProfile(R, p))
    BY <2>1, FS_Subset
  <2> QED
    BY <2>2, AllOkMeans DEF Conformant
<1>2. ASSUME MustA(R) \subseteq Ok(R), NEW p PROVE Conformant(R, p)
  BY <1>1, <1>2 DEF MustA, Ok, Having, InProfile
<1>3. ASSUME Overall(R) PROVE MustA(R) \subseteq Ok(R)
  <2> SUFFICES ASSUME NEW r \in MustA(R) PROVE r \in Ok(R)
    OBVIOUS
  <2>1. r \in R /\ r \in Records
    BY DEF MustA
  <2>2. PICK p : p \in About(r).profiles
    BY <2>1, RecordTyped
  <2>3. p \in ProfilesIn(R)
    BY <2>1, <2>2 DEF ProfilesIn
  <2>4. Conformant(R, p)
    BY <1>3, <2>3 DEF Overall, AllProfilesConformant
  <2>5. r \in MustA(InProfile(R, p))
    BY <2>1, <2>2 DEF MustA, InProfile
  <2> QED
    BY <1>1, <2>4, <2>5 DEF Ok, Having, InProfile
<1> QED
  BY <1>2, <1>3 DEF Overall, AllProfilesConformant

LEMMA RfcLineMeans ==
  ASSUME NEW R \in SUBSET Records, IsFiniteSet(R), NEW n
  PROVE  RfcLine(R, n) <=> MustA(OfRfc(R, n)) \subseteq Ok(OfRfc(R, n))
<1>1. OfRfc(R, n) \subseteq R
  BY DEF OfRfc
<1>2. IsFiniteSet(OfRfc(R, n)) /\ OfRfc(R, n) \in SUBSET Records
  BY <1>1, FS_Subset
<1> QED
  BY <1>2, OverallMeans DEF RfcLine, Overall

LEMMA LayerLineMeans ==
  ASSUME NEW R, IsFiniteSet(R), NEW l
  PROVE  LayerLine(R, l).ok = LayerLine(R, l).total
           <=> MustA(OfLayer(R, l)) \subseteq Ok(OfLayer(R, l))
<1>1. OfLayer(R, l) \subseteq R
  BY DEF OfLayer
<1>2. IsFiniteSet(OfLayer(R, l))
  BY <1>1, FS_Subset
<1> QED
  BY <1>2, AllOkMeans DEF AllOk, LayerLine

\* The verdict of each line is counted from the records anew, and they agree.
THEOREM LinesAlwaysAgree ==
  ASSUME NEW R \in SUBSET Records, IsFiniteSet(R)
  PROVE  LinesAgree(R)
<1>1. Overall(R) <=> \A n \in {About(r).rfc : r \in R} : RfcLine(R, n)
  <2>1. MustA(R) \subseteq Ok(R) <=>
          \A n \in {About(r).rfc : r \in R} : MustA(OfRfc(R, n)) \subseteq Ok(OfRfc(R, n))
    BY DEF MustA, Ok, Having, OfRfc
  <2> QED
    BY <2>1, OverallMeans, RfcLineMeans
<1>2. Overall(R) <=> \A l \in Layers : LayerLine(R, l).ok = LayerLine(R, l).total
  <2>1. ASSUME \A l \in Layers : MustA(OfLayer(R, l)) \subseteq Ok(OfLayer(R, l))
        PROVE  MustA(R) \subseteq Ok(R)
    <3> SUFFICES ASSUME NEW r \in MustA(R) PROVE r \in Ok(R)
      OBVIOUS
    <3>1. About(r).layer \in Layers /\ r \in MustA(OfLayer(R, About(r).layer))
      BY RecordTyped DEF MustA, OfLayer
    <3> QED
      BY <2>1, <3>1 DEF Ok, Having, OfLayer
  <2>2. ASSUME MustA(R) \subseteq Ok(R), NEW l
        PROVE  MustA(OfLayer(R, l)) \subseteq Ok(OfLayer(R, l))
    BY <2>2 DEF MustA, Ok, Having, OfLayer
  <2> QED
    BY <2>1, <2>2, OverallMeans, LayerLineMeans
<1>3. ASSUME NEW o
      PROVE  OidLine(R, o) = "not advertised" <=> Having(OfOid(R, o), {"pass", "fail"}) = {}
  <2>1. Having(OfOid(R, o), {"fail"}) \subseteq Having(OfOid(R, o), {"pass", "fail"})
    BY DEF Having
  <2>2. \A r \in OfOid(R, o) : Advertised(r) => r \in Having(OfOid(R, o), {"pass", "fail"})
    BY DEF Advertised, Having
  <2>3. \A r \in Having(OfOid(R, o), {"pass", "fail"}) :
          r \in OfOid(R, o) /\ (Advertised(r) \/ r \in Having(OfOid(R, o), {"fail"}))
    BY DEF Advertised, Having
  <2> QED
    BY <2>1, <2>2, <2>3 DEF OidLine
<1> QED
  BY <1>1, <1>2, <1>3 DEF LinesAgree

\* Every record is counted as failed, as skipped, or passed.
THEOREM JUnitAlwaysAddsUp ==
  ASSUME NEW R \in SUBSET Records, IsFiniteSet(R)
  PROVE  JUnitAddsUp(R)
<1> DEFINE F == Having(R, {"fail"})
           S == Having(R, {"blocked", "untestable", "not_applicable"})
           P == Having(R, {"pass"})
<1>1. R = (F \cup S) \cup P /\ (F \cup S) \cap P = {} /\ F \cap S = {}
  BY DEF Having, Records, Statuses
<1>2. F \subseteq R /\ S \subseteq R /\ P \subseteq R /\ F \cup S \subseteq R
  BY DEF Having
<1>3. IsFiniteSet(F) /\ IsFiniteSet(S) /\ IsFiniteSet(P) /\ IsFiniteSet(F \cup S)
  BY <1>2, FS_Subset
<1>4. Cardinality(F \cup S) = Cardinality(F) + Cardinality(S) - Cardinality(F \cap S)
  BY <1>3, FS_Union
<1>5. Cardinality((F \cup S) \cup P) =
        Cardinality(F \cup S) + Cardinality(P) - Cardinality((F \cup S) \cap P)
  BY <1>3, FS_Union
<1>6. Cardinality({}) = 0
  BY FS_EmptySet
<1>7. Cardinality(F) \in Nat /\ Cardinality(S) \in Nat /\ Cardinality(P) \in Nat
  BY <1>3, FS_CardinalityType
<1>8. Cardinality(R) = Cardinality(F) + Cardinality(S) + Cardinality(P)
  <2> HIDE DEF F, S, P
  <2>1. Cardinality(F \cap S) = 0 /\ Cardinality((F \cup S) \cap P) = 0
    BY <1>1, <1>6, Zenon
  <2>2. Cardinality(R) = Cardinality((F \cup S) \cup P)
    BY <1>1, Zenon
  <2> QED
    BY <1>4, <1>5, <1>7, <2>1, <2>2
<1> QED
  BY <1>8 DEF JUnitAddsUp, JUnit

\* The exit code and the summary.
THEOREM GateAlwaysMatches ==
  ASSUME NEW R \in SUBSET Records, IsFiniteSet(R)
  PROVE  GateMatchesSummary(R)
<1>1. ASSUME ConformanceFailed(R) PROVE ~(MustA(R) \subseteq Ok(R))
  BY <1>1 DEF ConformanceFailed, Having, MustA, Ok
<1>2. ASSUME ~(MustA(R) \subseteq Ok(R)), ~ConformanceFailed(R)
      PROVE  Having(MustA(R), {"blocked", "untestable"}) # {}
  <2>1. PICK r \in MustA(R) : r \notin Ok(R)
    BY <1>2
  <2>2. r \in R /\ r.status \in Statuses
    BY DEF MustA, Records
  <2>3. r.status # "fail"
    BY <1>2, <2>2 DEF ConformanceFailed, Having, MustA
  <2>4. r.status \in {"blocked", "untestable"}
    BY <2>1, <2>2, <2>3 DEF Ok, Having, Statuses
  <2> QED
    BY <2>4 DEF Having
<1>3. Overall(R) <=> MustA(R) \subseteq Ok(R)
  BY OverallMeans
<1> QED
  BY <1>1, <1>2, <1>3 DEF GateMatchesSummary

\* Records that are lost can only make the verdict better.
LEMMA FewerRecords ==
  ASSUME NEW S \in SUBSET Records, IsFiniteSet(S), NEW R \in SUBSET S, Overall(S)
  PROVE  Overall(R)
<1>1. IsFiniteSet(R)
  BY FS_Subset
<1>2. MustA(R) \subseteq Ok(R)
  BY OverallMeans DEF MustA, Ok, Having
<1> QED
  BY <1>1, <1>2, OverallMeans

-----------------------------------------------------------------------------
\* One invocation.


LEMMA RecordsTyped ==
  ASSUME TypeOK
  PROVE  RunRecords \in SUBSET Records /\ IsFiniteSet(RunRecords)
<1>1. Range(results) \subseteq Ids /\ \A a \in Range(results) : verdict[a] \in Statuses
  BY DEF TypeOK
<1>2. RunRecords \subseteq Records
  BY <1>1 DEF RunRecords, RecordOf, Records
<1>3. IsFiniteSet(Range(results))
  BY <1>1, IdsFinite, FS_Subset
<1>4. IsFiniteSet(RunRecords)
  <2>1. [a \in Range(results) |-> RecordOf(a)] \in Surjection(Range(results), RunRecords)
    BY DEF Surjection, RunRecords
  <2> QED
    BY <1>3, <2>1, FS_Surjection
<1> QED
  BY <1>2, <1>4

\* Whatever the run returns, its report is coherent.
LEMMA ReportRight ==
  ASSUME TypeOK
  PROVE  SummaryAgrees /\ JUnitIsComplete
  BY RecordsTyped, LinesAlwaysAgree, JUnitAlwaysAddsUp DEF SummaryAgrees, JUnitIsComplete

-----------------------------------------------------------------------------
\* Type correctness.

LEMMA DecideTyped ==
  ASSUME TypeOK, Decide
  PROVE  /\ UNCHANGED plan /\ link' \in {"none", "half", "open", "closed"}
         /\ link' = "half" => link = "half" \/ options.starttls
         /\ verdict' \in [Ids -> Statuses \cup {"none"}]
         /\ \E a \in plan.selected :
              /\ verdict[a] = "none" /\ results' = Append(results, a)
              /\ \E v \in Statuses : verdict' = [verdict EXCEPT ![a] = v]
              /\ verdict'[a] \in {"pass", "fail"} => verdict'[a] \in Possible(a)
<1>1. PICK a \in Ids : /\ V!Block(a) \/ \E v \in Possible(a) : V!Judge(a, v)
                       /\ results' = Append(results, a)
                       /\ link' \in SessionAfter(a, FALSE) \cup {link}
  BY DEF Decide
<1>5. link' \in {"none", "half", "open", "closed"}
      /\ (link' = "half" => link = "half" \/ options.starttls)
  BY <1>1 DEF SessionAfter, HalfOpened, TypeOK
<1>2. Possible(a) \subseteq Statuses
  BY DEF Possible, Statuses
<1>3. CASE V!Block(a)
  <2>1. verdict' = [verdict EXCEPT ![a] = "blocked"] /\ UNCHANGED plan
        /\ a \in plan.selected /\ verdict[a] = "none"
    BY <1>3 DEF V!Block, V!Pending
  <2> QED
    BY <1>1, <1>5, <2>1, ZenonT(60) DEF TypeOK, Statuses
<1>4. CASE \E v \in Possible(a) : V!Judge(a, v)
  <2>1. PICK v \in Possible(a) : V!Judge(a, v)
    BY <1>4
  <2>2. verdict' = [verdict EXCEPT ![a] = v] /\ UNCHANGED plan
        /\ a \in plan.selected /\ verdict[a] = "none"
    BY <2>1 DEF V!Judge, V!Pending
  <2> QED
    BY <1>1, <1>2, <1>5, <2>1, <2>2, ZenonT(60) DEF TypeOK
<1> QED
  BY <1>1, <1>3, <1>4

LEMMA AppendOnce ==
  ASSUME NEW S, NEW s \in Seq(S), NEW a \in S, a \notin Range(s),
         \A i, j \in DOMAIN s : s[i] = s[j] => i = j
  PROVE  /\ Append(s, a) \in Seq(S)
         /\ Range(Append(s, a)) = Range(s) \cup {a}
         /\ \A i, j \in DOMAIN Append(s, a) : Append(s, a)[i] = Append(s, a)[j] => i = j
<1>1. DOMAIN Append(s, a) = DOMAIN s \cup {Len(s) + 1} /\ DOMAIN s = 1..Len(s)
  OBVIOUS
<1>2. \A i \in DOMAIN s : Append(s, a)[i] = s[i] /\ s[i] # a
  BY DEF Range
<1>3. Append(s, a)[Len(s) + 1] = a
  OBVIOUS
<1> QED
  BY <1>1, <1>2, <1>3 DEF Range

LEMMA LinesTyped ==
  ASSUME TypeOK, NEW n \in 0..Len(results)
  PROVE  /\ Lines(n) \in Seq(Records) /\ Range(Lines(n)) \subseteq RunRecords
         /\ Len(Lines(n)) = n
<1>1. Journal \in Seq(RunRecords) /\ Len(Journal) = Len(results)
  BY DEF TypeOK, Journal, RunRecords, Range
<1>2. Lines(n) \in Seq(RunRecords) /\ Len(Lines(n)) = n
  BY <1>1 DEF Lines
<1> QED
  BY <1>2, RecordsTyped DEF Range

LEMMA JournalTyped ==
  ASSUME TypeOK
  PROVE  /\ Journal \in Seq(Records) /\ Range(Journal) = RunRecords
         /\ Len(Journal) = Len(results) /\ Journal = Lines(Len(Journal))
<1>1. Journal \in Seq(RunRecords) /\ Len(Journal) = Len(results)
  BY DEF TypeOK, Journal, RunRecords, Range
<1>2. Range(Journal) = RunRecords
  BY DEF Journal, RunRecords, Range, TypeOK
<1>3. Journal = SubSeq(Journal, 1, Len(Journal))
  BY <1>1
<1> QED
  BY <1>1, <1>2, <1>3, RecordsTyped DEF Lines

THEOREM InitTyped == Init => TypeOK
<1> SUFFICES ASSUME Init PROVE TypeOK
  OBVIOUS
<1>1. PICK s \in Selections :
        plan = [selected |-> s, requires |-> [a \in Ids |-> Catalogue[a].requires]]
  BY DEF Init
<1>2. plan \in [selected : SUBSET Ids, requires : [Ids -> SUBSET Ids]]
  BY <1>1, SelectionsAssumption, CatalogueAssumption DEF Metadata
<1>3. verdict \in [Ids -> Statuses \cup {"none"}] /\ \A a \in Ids : verdict[a] = "none"
  BY DEF Init
<1>4. Range(results) = {} /\ DOMAIN results = {} /\ results \in Seq(Ids)
  BY DEF Init, Range
<1>5. Range(results) = {a \in Ids : verdict[a] # "none"}
  BY <1>3, <1>4
<1> QED
  BY <1>2, <1>3, <1>4, <1>5, EarlierAssumption DEF Init, TypeOK, Stages, NoException, Exceptions

THEOREM StepTypeOK == TypeOK /\ [Next]_vars => TypeOK'
<1> SUFFICES ASSUME TypeOK, [Next]_vars PROVE TypeOK'
  OBVIOUS
<1> USE DEF Stages, GoTo, Exit, Uncaught, Leave, Raise, Exceptions, running, output
<1>1. CASE ProbeArguments \/ ResolveRaises
  <2>1. CASE ProbeArguments
    BY <2>1 DEF ProbeArguments, TypeOK
  <2>2. CASE ResolveRaises
    <3>1. raised' \in Exceptions
      BY <2>2 DEF ResolveRaises, TypeOK
    <3> QED
      BY <2>2, <3>1 DEF ResolveRaises, TypeOK
  <2> QED
    BY <1>1, <2>1, <2>2
<1>0. CASE Resolve
  <2>1. DeclaredWritable \in BOOLEAN
    BY OptionsAssumption DEF TypeOK, DeclaredWritable, OptionRecords
  <2>2. \/ stage' = "exited" /\ exit' \in {0, 2}
        \/ stage' \in {"probing", "fixture"} /\ UNCHANGED exit
    BY <1>0 DEF Resolve
  <2> QED
    BY <1>0, <2>1, <2>2 DEF Resolve, TypeOK
<1>2. CASE FixtureUp \/ FixtureRaises \/ Probe \/ ProbeRaises
  BY <1>2 DEF FixtureUp, FixtureRaises, Probe, ProbeRaises, HalfOpened, TypeOK
<1>3. CASE Decide
  <2>1. PICK a \in plan.selected :
          /\ verdict[a] = "none" /\ results' = Append(results, a)
          /\ \E v \in Statuses : verdict' = [verdict EXCEPT ![a] = v]
    BY <1>3, DecideTyped
  <2>2. a \in Ids /\ a \notin Range(results)
    BY <2>1 DEF TypeOK
  <2>3. /\ results' \in Seq(Ids) /\ Range(results') = Range(results) \cup {a}
        /\ \A i, j \in DOMAIN results' : results'[i] = results'[j] => i = j
    BY <2>1, <2>2, AppendOnce DEF TypeOK
  <2>4. "none" \notin Statuses
    BY DEF Statuses
  <2>5. Range(results') = {b \in Ids : verdict'[b] # "none"}
    BY <2>1, <2>2, <2>3, <2>4 DEF TypeOK
  <2>6. link' \in {"none", "half", "open", "closed"}
        /\ plan' \in [selected : SUBSET Ids, requires : [Ids -> SUBSET Ids]]
        /\ verdict' \in [Ids -> Statuses \cup {"none"}]
    BY <1>3, DecideTyped DEF TypeOK
  <2> QED
    BY <1>3, <2>3, <2>5, <2>6 DEF Decide, TypeOK
<1>4. CASE RunReturns \/ Unbind \/ UnbindRaises
  BY <1>4 DEF RunReturns, Unbind, UnbindRaises, Closed, TypeOK
<1>10. CASE Interrupted
  <2>1. link' \in {"none", "half", "open", "closed"}
    BY <1>10 DEF Interrupted, SessionAfter, HalfOpened, TypeOK
  <2> QED
    BY <1>10, <2>1 DEF Interrupted, TypeOK
<1>5. CASE PrintReport \/ Judge
  BY <1>5 DEF PrintReport, Judge, TypeOK
<1>6. CASE WriteJournal
  BY <1>6, JournalTyped DEF WriteJournal, TypeOK
<1>7. CASE JournalFails
  BY <1>7, LinesTyped DEF JournalFails, TypeOK
<1>8. CASE ReportRaises
  BY <1>8, LinesTyped DEF ReportRaises, TypeOK
<1>9. CASE UNCHANGED vars
  BY <1>9 DEF vars, TypeOK
<1> QED
  BY <1>0, <1>1, <1>2, <1>3, <1>4, <1>5, <1>6, <1>7, <1>8, <1>9, <1>10 DEF Next

\* Every variable keeps its type; the list that run returns has the assertions
\* with a verdict, each once.
THEOREM CommandTypeCorrect == Spec => []TypeOK
  BY InitTyped, StepTypeOK, PTL DEF Spec

\* At the end of every run the lines of the summary agree with each other.
THEOREM SummariesAgree == Spec => []SummaryAgrees
  BY CommandTypeCorrect, ReportRight, PTL

\* At the end of every run the JUnit report counts each record once.
THEOREM JUnitReportsAddUp == Spec => []JUnitIsComplete
  BY CommandTypeCorrect, ReportRight, PTL

-----------------------------------------------------------------------------
\* The course of an invocation: what each stage knows of the ones before it.

Complete == Range(results) = plan.selected
Course ==
  /\ Range(results) \subseteq plan.selected
  /\ stage \in {"parsed", "fixture", "probing"} =>
       results = <<>> /\ link = "none" /\ raised = NoException
  /\ stage = "fixture" => options.command = "run"
  /\ stage = "running" => raised = NoException /\ options.command = "run"
  /\ stage = "closing" =>
       IF options.command = "run" THEN raised = NoException => Complete ELSE results = <<>>
  /\ stage \in {"reporting", "judging"} =>
       link # "open" /\ raised = NoException /\ options.command = "run" /\ Complete
  /\ link = "half" => options.starttls \/ raised.interrupt
  /\ Completed => Complete /\ exit \in {0, 1}
                 /\ (exit = 1 <=> options.gate /\ ConformanceFailed(RunRecords))
Written ==
  wrote # "nothing" =>
    /\ stage \in {"judging", "exited"}
    /\ Len(file) \in 0..Len(results) /\ file = Lines(Len(file))
    /\ wrote = "all" => file = Journal
Consent ==
  \/ options.allow
  \/ options.caps \in {"writable", "silent"}
  \/ options.caps = "none" /\ options.where = "writable fixture"
Consented ==
  /\ writable => Consent
  /\ \A a \in Ids : Catalogue[a].mutates /\ verdict[a] \in {"pass", "fail"} => Consent

IInv == TypeOK /\ Course /\ ConnectionGivenBack /\ Written /\ Consented

THEOREM InitIInv == Init => IInv
<1> SUFFICES ASSUME Init PROVE IInv
  OBVIOUS
<1>1. TypeOK
  BY InitTyped
<1>2. Range(results) = {} /\ \A a \in Ids : verdict[a] = "none"
  BY DEF Init, Range
<1> QED
  BY <1>1, <1>2 DEF Init, IInv, Course, ConnectionGivenBack, Exited, Completed, Written,
                    Consented

\* Where neither the results nor the verdicts change, the records do not.
LEMMA SameRecords ==
  ASSUME UNCHANGED running
  PROVE  /\ RunRecords' = RunRecords /\ Complete' = Complete
         /\ ConformanceFailed(RunRecords)' = ConformanceFailed(RunRecords)
         /\ Journal' = Journal /\ \A n : Lines(n)' = Lines(n)
<1>1. RunRecords' = RunRecords /\ Complete' = Complete /\ Journal' = Journal
      /\ \A n : Lines(n)' = Lines(n)
  BY DEF running, RunRecords, RecordOf, Complete, Journal, Lines
<1> QED
  BY <1>1 DEF ConformanceFailed, Having, About

LEMMA OptionTyped ==
  ASSUME TypeOK
  PROVE  /\ options \in OptionRecords /\ options.command \in {"run", "probe"}
         /\ options.caps \in {"none", "missing", "silent", "writable", "read-only"}
         /\ options.where \in {"nowhere", "server", "writable fixture", "read-only fixture"}
<1>1. options \in OptionRecords
  BY OptionsAssumption DEF TypeOK
<1> QED
  BY <1>1 DEF OptionRecords

LEMMA StepCourse ==
  ASSUME TypeOK, Course, [Next]_vars
  PROVE  Course'
<1> USE DEF GoTo, Exit, Uncaught, Leave, Raise, NoException, Course, Completed, Exited
<1>1. CASE ProbeArguments \/ ResolveRaises \/ FixtureUp \/ FixtureRaises
  BY <1>1, SameRecords
     DEF ProbeArguments, ResolveRaises, FixtureUp, FixtureRaises, running, Complete
<1>2. CASE Resolve
  <2>1. \/ stage' = "exited" /\ (options.dry \/ exit' = 2)
        \/ stage' \in {"probing", "fixture"}
    BY <1>2 DEF Resolve
  <2> QED
    BY <1>2, <2>1, SameRecords DEF Resolve, running, Complete
<1>3. CASE Probe
  BY <1>3, SameRecords DEF Probe, running, Complete
<1>4. CASE ProbeRaises
  BY <1>4, SameRecords DEF ProbeRaises, HalfOpened, running, Complete
<1>5. CASE Decide
  <2>1. PICK a \in plan.selected :
          /\ verdict[a] = "none" /\ results' = Append(results, a) /\ UNCHANGED plan
          /\ link' = "half" => link = "half" \/ options.starttls
    BY <1>5, DecideTyped
  <2>2. a \in Ids /\ a \notin Range(results)
    BY <2>1 DEF TypeOK
  <2>3. Range(results') = Range(results) \cup {a}
    BY <2>1, <2>2, AppendOnce DEF TypeOK
  <2> QED
    BY <1>5, <2>1, <2>3 DEF Decide
<1>6. CASE RunReturns
  <2>1. \A a \in plan.selected : verdict[a] # "none"
    BY <1>6 DEF RunReturns, V!Pending, TypeOK
  <2>2. Complete
    BY <2>1 DEF TypeOK, Complete
  <2> QED
    BY <1>6, <2>2, SameRecords DEF RunReturns, running
<1>7. CASE Interrupted
  BY <1>7, SameRecords DEF Interrupted, running
<1>8. CASE Unbind
  <2>1. CASE raised # NoException
    BY <1>8, <2>1, SameRecords DEF Unbind, Closed, running
  <2>2. CASE raised = NoException /\ options.command = "probe"
    BY <1>8, <2>2, SameRecords DEF Unbind, Closed, running
  <2>3. CASE raised = NoException /\ options.command # "probe"
    <3>1. options.command = "run"
      BY <2>3, OptionTyped
    <3>2. GoTo("reporting") /\ UNCHANGED raised /\ link' = Closed
      BY <1>8, <2>3, <3>1 DEF Unbind
    <3> QED
      BY <1>8, <2>3, <3>1, <3>2, SameRecords DEF Unbind, Closed, running
  <2> QED
    BY <2>1, <2>2, <2>3
<1>9. CASE PrintReport \/ WriteJournal \/ JournalFails
  BY <1>9, SameRecords DEF PrintReport, WriteJournal, JournalFails, running
<1>10. CASE ReportRaises
  BY <1>10, SameRecords DEF ReportRaises, running
<1>11. CASE Judge
  BY <1>11, SameRecords DEF Judge, running
<1>13. CASE UnbindRaises
  BY <1>13, SameRecords DEF UnbindRaises, Closed, running
<1>12. CASE UNCHANGED vars
  BY <1>12, SameRecords DEF vars, running
<1> QED
  BY <1>1, <1>2, <1>3, <1>4, <1>5, <1>6, <1>7, <1>8, <1>9, <1>10, <1>11, <1>12, <1>13 DEF Next

LEMMA StepGivesBack ==
  ASSUME TypeOK, Course, Course', ConnectionGivenBack, [Next]_vars
  PROVE  ConnectionGivenBack'
<1> USE DEF GoTo, Exit, Uncaught, Leave, Raise, NoException
<1> SUFFICES ASSUME Exited', link' = "open"
             PROVE  \/ raised'.at = "closing"
                    \/ raised'.at = "probing" /\ options'.command = "run"
  BY DEF ConnectionGivenBack, Course
<1>1. CASE ProbeArguments \/ ResolveRaises \/ Resolve \/ FixtureUp \/ FixtureRaises
  BY <1>1 DEF ProbeArguments, ResolveRaises, Resolve, FixtureUp, FixtureRaises, Course
<1>2. CASE Probe \/ Decide \/ RunReturns \/ Interrupted
  BY <1>2 DEF Probe, Decide, RunReturns, Interrupted, Exited, Course
<1>3. CASE ProbeRaises
  BY <1>3 DEF ProbeRaises, Exited, Course
<1>4. CASE Unbind \/ UnbindRaises
  BY <1>4 DEF Unbind, UnbindRaises, Closed, Exited, Course
<1>5. CASE PrintReport \/ WriteJournal \/ JournalFails \/ ReportRaises \/ Judge
  BY <1>5 DEF PrintReport, WriteJournal, JournalFails, ReportRaises, Judge, Course
<1>6. CASE UNCHANGED vars
  BY <1>6 DEF vars, ConnectionGivenBack, Exited
<1> QED
  BY <1>1, <1>2, <1>3, <1>4, <1>5, <1>6 DEF Next

LEMMA StepWritten ==
  ASSUME TypeOK, Course, Written, [Next]_vars
  PROVE  Written'
<1> USE DEF GoTo, Exit, Uncaught, Leave, Raise, output, Written
<1>1. CASE ProbeArguments \/ ResolveRaises \/ Resolve \/ FixtureUp \/ FixtureRaises
           \/ Probe \/ ProbeRaises \/ Decide \/ RunReturns \/ Interrupted \/ Unbind
           \/ UnbindRaises
  BY <1>1 DEF ProbeArguments, ResolveRaises, Resolve, FixtureUp, FixtureRaises, Probe,
              ProbeRaises, Decide, RunReturns, Interrupted, Unbind, UnbindRaises
<1>2. CASE PrintReport
  BY <1>2 DEF PrintReport
<1>3. CASE WriteJournal
  BY <1>3, JournalTyped, SameRecords DEF WriteJournal, running, TypeOK
<1>4. CASE JournalFails
  BY <1>4, LinesTyped, SameRecords DEF JournalFails, running
<1>5. CASE ReportRaises
  BY <1>5, LinesTyped, SameRecords DEF ReportRaises, running
<1>6. CASE Judge
  BY <1>6, SameRecords DEF Judge, running
<1>7. CASE UNCHANGED vars
  BY <1>7, SameRecords DEF vars, running
<1> QED
  BY <1>1, <1>2, <1>3, <1>4, <1>5, <1>6, <1>7 DEF Next

LEMMA PossibleWrites ==
  ASSUME NEW a \in Ids, Catalogue[a].mutates, ~writable, ~options.allow
  PROVE  Possible(a) \cap {"pass", "fail"} = {}
<1>1. Catalogue[a].test_class \in {"A", "B", "C", "D"}
  BY CatalogueAssumption DEF Metadata
<1>2. CASE Catalogue[a].test_class \in {"B", "D"}
  BY <1>2 DEF Possible
<1>3. CASE Catalogue[a].test_class \in {"A", "C"}
  BY <1>3 DEF Possible
<1> QED
  BY <1>1, <1>2, <1>3

LEMMA StepConsented ==
  ASSUME TypeOK, Consented, [Next]_vars
  PROVE  Consented'
<1> USE DEF Consented, Consent
<1>1. CASE Resolve
  <2>1. DeclaredWritable => Consent
    BY OptionTyped DEF DeclaredWritable
  <2> QED
    BY <1>1, <2>1 DEF Resolve, running
<1>2. CASE Decide
  <2>1. PICK a \in plan.selected :
          /\ \E v \in Statuses : verdict' = [verdict EXCEPT ![a] = v]
          /\ verdict'[a] \in {"pass", "fail"} => verdict'[a] \in Possible(a)
    BY <1>2, DecideTyped
  <2>2. verdict'[a] \in {"pass", "fail"} /\ Catalogue[a].mutates => writable \/ options.allow
    BY <2>1, PossibleWrites DEF TypeOK
  <2>3. a \in Ids /\ \A b \in Ids \ {a} : verdict'[b] = verdict[b]
    BY <2>1, ZenonT(60) DEF TypeOK
  <2> QED
    BY <1>2, <2>2, <2>3 DEF Decide
<1>3. CASE UNCHANGED <<options, writable, verdict>>
  BY <1>3
<1> QED
  BY <1>1, <1>2, <1>3
     DEF Next, vars, running, ProbeArguments, ResolveRaises, FixtureUp, FixtureRaises, Probe,
         ProbeRaises, RunReturns, Interrupted, Unbind, UnbindRaises, PrintReport, WriteJournal,
         JournalFails, ReportRaises, Judge

THEOREM StepIInv == IInv /\ [Next]_vars => IInv'
  BY StepTypeOK, StepCourse, StepGivesBack, StepWritten, StepConsented DEF IInv

THEOREM Inductive == Spec => []IInv
  BY InitIInv, StepIInv, PTL DEF Spec

-----------------------------------------------------------------------------
\* What follows for the reader of an exit code, a journal or a connection.

LEMMA ExitCodeFollows ==
  ASSUME IInv
  PROVE  ExitCodeIsDeserved
<1> SUFFICES ASSUME Completed, options.gate
             PROVE  /\ exit = 1 => ~Overall(RunRecords)
                    /\ exit = 0 =>
                         /\ Complete
                         /\ \A a \in plan.selected :
                              verdict[a] = "fail" => Catalogue[a].severity # "must"
                                                     \/ Catalogue[a].test_class # "A"
                         /\ ~Overall(RunRecords) =>
                              Having(MustA(RunRecords), {"blocked", "untestable"}) # {}
  BY DEF ExitCodeIsDeserved, Complete
<1>1. Complete /\ (exit = 1 <=> ConformanceFailed(RunRecords))
  BY DEF IInv, Course
<1>2. GateMatchesSummary(RunRecords)
  BY RecordsTyped, GateAlwaysMatches DEF IInv
<1>3. ASSUME NEW a \in plan.selected, verdict[a] = "fail",
             Catalogue[a].severity = "must", Catalogue[a].test_class = "A"
      PROVE  ConformanceFailed(RunRecords)
  <2>1. RecordOf(a) \in RunRecords
    BY <1>1 DEF Complete, RunRecords
  <2> QED
    BY <1>3, <2>1 DEF RecordOf, ConformanceFailed, Having, About
<1> QED
  BY <1>1, <1>2, <1>3 DEF GateMatchesSummary

LEMMA JournalFollows ==
  ASSUME IInv
  PROVE  JournalErrsOneWay
<1>1. RunRecords \in SUBSET Records /\ IsFiniteSet(RunRecords)
  BY RecordsTyped DEF IInv
<1>2. wrote # "nothing" => Range(file) \subseteq RunRecords
  BY LinesTyped DEF IInv, Written
<1> QED
  BY <1>1, <1>2, FewerRecords DEF IInv, Written, JournalErrsOneWay

LEMMA SparingFollows ==
  ASSUME IInv
  PROVE  UndeclaredServersAreSpared
  BY DEF IInv, Consented, Consent, UndeclaredServersAreSpared

\* However an invocation ends, a connection is left open only by an exception in
\* the probe of a run, which stands before the try, or in the unbind itself; and
\* half open only under --starttls or by an interrupt.
THEOREM ConnectionsAreGivenBack == Spec => []ConnectionGivenBack
  BY Inductive, PTL DEF IInv

\* With --exit-code, 0 means a verdict for every selected assertion and no
\* mandatory failure, 1 a summary that is NON-CONFORMANT.
THEOREM ExitCodesAreDeserved == Spec => []ExitCodeIsDeserved
  BY Inductive, ExitCodeFollows, PTL

\* The journal that a run wrote to has the first of its records in their order,
\* all of them if nothing failed; cut short, it never makes a conformant run
\* NON-CONFORMANT.
THEOREM JournalsErrOneWay == Spec => []JournalErrsOneWay
  BY Inductive, JournalFollows, PTL

\* Without --allow-mutation no mutating assertion is executed on a server for
\* which no capability was given, or one that says writable = false.  (A file that
\* does not mention writable counts as declaring it, which the documentation
\* does not say: the run consent refutes NoWriteWithoutConsent.)
THEOREM UndeclaredServersStaySpared == Spec => []UndeclaredServersAreSpared
  BY Inductive, SparingFollows, PTL

=============================================================================
