--------------------------- MODULE MCFileKvEngine ---------------------------
(***************************************************************************)
(* Small instances of FileKvEngine for TLC.                                *)
(***************************************************************************)
EXTENDS FileKvEngine

CONSTANTS k1, k2

\* A prefix of one key, and the empty one, of every string.
OneOrAll == {<<k1, {k1}>>, <<EmptyString, String>>}

\* Once the log is spoiled: one line, which later ones may continue, one mutation at
\* a time, one of unknown outcome.
SpoiledIsShort ==
  Spoiled => Len(log) <= 1 /\ Len(batch) <= 1 /\ Cardinality(maybe) <= 1
=============================================================================
