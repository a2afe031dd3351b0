----------------------------- MODULE MCTransfer -----------------------------
(* Contents for model checking Transfer: two of the same length that share *)
(* a prefix, and a shorter one.                                            *)
EXTENDS Transfer

CONSTANTS a, b

MCBlock == {a, b}
MCContents == {<<a, a, b>>, <<a, b, b>>, <<b>>}
MCContentsShort == {<<a, b>>, <<b, b>>}
=============================================================================
