-------------------------- MODULE MCSharedPartial --------------------------
(* What two receivers may be offered. *)
EXTENDS SharedPartial

CONSTANTS a, b

MCContents == {<<a, b>>, <<b, a>>}
=============================================================================
