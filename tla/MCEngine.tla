------------------------------ MODULE MCEngine ------------------------------
(* Small instances of Engine.  TLC visits every setup of the set it is      *)
(* given: every requires graph of a few assertions in the first two, every  *)
(* mixture of assertion kinds and capabilities in the third.                *)
EXTENDS Engine, SequencesExt

CONSTANTS one, two, three, outside, feat, wanted, other

\* Every assertion has the label "wanted" in its rfcs dimension, except outside.
MCLabels == {wanted, other}
LabelsOf(id) ==
  [d \in Dimensions |-> IF d = "rfcs" THEN {IF id = outside THEN other ELSE wanted}
                        ELSE {}]

Kind(class, mutates, features) ==
  [test_class |-> class, mutates |-> mutates, requires_features |-> features]
Plain == Kind("A", FALSE, {})
KindsOfAssertion ==
  {Plain, Kind("B", FALSE, {}), Kind("C", TRUE, {}), Kind("A", FALSE, {feat})}

Record4(id, requires, kind) ==
  [requires |-> requires, test_class |-> kind.test_class,
   mutates |-> kind.mutates, requires_features |-> kind.requires_features,
   labels |-> LabelsOf(id)]

MCSetup(order, requires, kinds, runners, exclude, allow, capability) ==
  [registry |->
     [order |-> order, runners |-> runners,
      assertions |-> [id \in Ids |-> Record4(id, requires[id], kinds[id])]],
   selector |->
     [wanted |-> [d \in Dimensions |-> IF d = "rfcs" THEN {wanted} ELSE {}],
      exclude |-> exclude, allow_mutation |-> allow],
   capability |-> capability]

Permissive == [writable |-> TRUE, supported |-> {feat}]

\* requires tuples without repetition, of at most n ids.
Tuples(n) ==
  {s \in UNION {[1..k -> Ids] : k \in 0..n} : NoDuplicates(s)}

\* Every requires graph over three registered assertions (self references
\* and cycles included), each in turn possibly excluded by the selector.
GraphSetups ==
  {MCSetup(<<one, two, three>>, requires, [id \in Ids |-> Plain], Ids, exclude, FALSE,
           Permissive) :
     requires \in [{one, two, three} -> Tuples(2)], exclude \in {{}, {one}, {two}, {three}}}

\* Requirement graphs over three assertions and one that the rfcs dimension leaves
\* out: a chain, a fork, two routes to the same prerequisite, a prerequisite
\* outside the selection.
GateGraphs ==
  {one :> <<>> @@ two :> <<one>> @@ three :> <<two>> @@ outside :> <<>>,
   one :> <<>> @@ two :> <<>> @@ three :> <<one, two>> @@ outside :> <<>>,
   one :> <<>> @@ two :> <<one>> @@ three :> <<two, one>> @@ outside :> <<>>,
   one :> <<>> @@ two :> <<one, outside>> @@ three :> <<one>> @@ outside :> <<>>}

\* Every kind of assertion, with and without a runner, under every
\* capability statement.
GateSetups ==
  {MCSetup(<<three, outside, two, one>>, requires,
           (one :> ka @@ two :> kb @@ three :> kc @@ outside :> Plain), runners, {}, allow,
           [writable |-> writable, supported |-> supported]) :
     requires \in GateGraphs, ka \in KindsOfAssertion,
     kb \in KindsOfAssertion, kc \in KindsOfAssertion,
     runners \in {Ids, {one, three}}, allow \in BOOLEAN, writable \in BOOLEAN,
     supported \in {{}, {feat}}}
=============================================================================
