----------------------------- MODULE MCConsole -----------------------------
(* Consoles of a few cells, two pixels high each.                           *)
EXTENDS Console

NoAreas == {}

=============================================================================
