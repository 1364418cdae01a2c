----------------------------- MODULE MCRawWire -----------------------------
(* RawWire for TLC.  MaxSent bounds the entries and notices a server sends.  *)
EXTENDS RawWire
=============================================================================
