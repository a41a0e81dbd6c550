----------------------------- MODULE MCDjLookup -----------------------------
(* Instances of DjLookup for TLC: every ascending table of five entries    *)
(* out of eight ids, every id looked for.                                  *)
EXTENDS DjLookup

Ids == 1 .. 8
=============================================================================
