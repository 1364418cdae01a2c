------------------------------ MODULE MCCommand ------------------------------
(* Command for TLC: four assertions of three RFCs, one of which another one  *)
(* requires, with every combination of options.                              *)
EXTENDS Command, TLC

About4(rfc, severity, class, profiles, layer, oid, requires, mutates) ==
  [rfc |-> rfc, severity |-> severity, test_class |-> class, profiles |-> profiles,
   layer |-> layer, oid |-> oid, requires |-> requires, mutates |-> mutates]
MCCatalogue ==
  ("bind" :> About4(4511, "must", "A", {"interop", "core"}, "wire", "", {}, FALSE) @@
   "sort" :> About4(2891, "should", "A", {"core"}, "capability", "1.2", {}, FALSE) @@
   "key" :> About4(2891, "must", "A", {"extended"}, "semantic", "1.2", {"sort"}, TRUE) @@
   "text" :> About4(4512, "must", "B", {"core"}, "semantic", "", {"bind"}, FALSE))
MCIds == DOMAIN MCCatalogue
MCSelections == {MCIds, MCIds \ {"sort"}, {"bind", "sort"}, {}}
MCUnbinding == {"bind"}
FailedEarlier == <<[id |-> "bind", status |-> "fail"]>>
MCEarlier == {<<>>, FailedEarlier}
==============================================================================
