--------------------------- MODULE MCArchiveLinks ---------------------------
(* Instance of ArchiveLinks for TLC: two nodes of which one is enough, so  *)
(* that a reconnect, a restore and an alternative node meet.               *)
EXTENDS ArchiveLinks

CONSTANTS a1, a2

MCNodes == {a1, a2}
=============================================================================
