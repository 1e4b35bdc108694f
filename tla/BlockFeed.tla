------------------------------ MODULE BlockFeed ------------------------------
(***************************************************************************)
(* What the queue of finalized blocks promises to a reader.  Entries get a *)
(* place each and stay where they are; a block has one entry.  The reader  *)
(* keeps a mark that only moves forward, never beyond the last entry.  An  *)
(* archival node is given exactly the blocks its mark moves over.  The     *)
(* polling client of another node gets blocks first, also its own, and     *)
(* moves its mark over an entry only when it has the block, has skipped    *)
(* it, or the entry came late: after one with a higher place.              *)
(***************************************************************************)
EXTENDS Naturals

CONSTANTS
  \* The blocks that may be queued.
  Blocks

VARIABLES
  \* Which reader it is.
  reader,
  \* The entries, pairs of a place and a block.
  queue,
  \* The blocks whose entry came after one with a higher place.
  late,
  \* The place up to which the reader has read.
  mark,
  \* The blocks the reader has.
  had,
  \* The blocks the reader could not take and passed over.
  skipped

feedVars == <<reader, queue, late, mark, had, skipped>>

Init ==
  /\ reader \in {"client", "archival"}
  /\ queue = {}
  /\ late = {}
  /\ mark = 0
  /\ had = {}
  /\ skipped = {}

\* A block that has no entry gets one, at a place nobody has.
Enqueue ==
  /\ \E new \in queue' :
       /\ new[2] \in Blocks
       /\ \A e \in queue : e[1] # new[1] /\ e[2] # new[2]
       /\ queue' = queue \cup {new}
       /\ late' = IF \E e \in queue : e[1] > new[1] THEN late \cup {new[2]} ELSE late
  /\ UNCHANGED <<reader, mark, had, skipped>>

\* The client gets a block, from the queue or as an attestor of it.
Obtain(b) ==
  /\ reader = "client"
  /\ had' = had \cup {b}
  /\ UNCHANGED <<reader, queue, late, mark, skipped>>

\* Only what lies ahead is skipped.
Skip(b) ==
  /\ reader = "client"
  /\ \E e \in queue : e[2] = b /\ mark < e[1]
  /\ skipped' = skipped \cup {b}
  /\ UNCHANGED <<reader, queue, late, mark, had>>

\* The entries between the mark and the next mark.
Passed == {e \in queue : mark < e[1] /\ e[1] <= mark'}

Forward ==
  /\ mark' >= mark
  /\ \E e \in queue : mark' <= e[1]
  /\ UNCHANGED <<reader, queue, late, skipped>>

\* The client has dealt with what it moves over.
Advance ==
  /\ reader = "client"
  /\ Forward
  /\ \A e \in Passed : e[2] \in had \cup skipped \cup late
  /\ UNCHANGED had

\* The archival node is given what it moves over.
Receive ==
  /\ reader = "archival"
  /\ Forward
  /\ had' = had \cup {e[2] : e \in Passed}

Next ==
  \/ Enqueue
  \/ \E b \in Blocks : Obtain(b) \/ Skip(b)
  \/ Advance
  \/ Receive

Spec == Init /\ [][Next]_feedVars
=============================================================================
