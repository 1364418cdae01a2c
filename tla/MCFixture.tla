----------------------------- MODULE MCFixture -----------------------------
(* Fixture for TLC: every target type at once, and one of them alone.  The  *)
(* model has no bound of its own.                                           *)
EXTENDS Fixture
=============================================================================
