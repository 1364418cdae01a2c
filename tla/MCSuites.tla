------------------------------ MODULE MCSuites ------------------------------
(* Suites for TLC: the whole registry, in two runs with one deviation       *)
(* anywhere, and the one assertion that writes without being declared to.   *)
EXTENDS Blame, SuiteTable

MCSeed == {"root", "people", "alice", "bob", "alice-alias"}
MCParent ==
  [e \in {"child", "orphan", "test-move,root"} |->
     CASE e = "child" -> "test-del-3" [] e = "orphan" -> "nonexistent" [] OTHER -> "root"]

JustPasswords == <<password_modify_accepted>>
=============================================================================
