-------------------------- MODULE MCDataPublisher --------------------------
(* Two messages; the run publishes two in a row.                           *)
EXTENDS DataPublisher

CONSTANTS m1, m2

MCMessages == {m1, m2}
=============================================================================
