------------------------- MODULE BlockQueue_proofs -------------------------
(***************************************************************************)
(* Proofs about BlockQueue, for any number of inserts, blocks, connections *)
(* and any page size.                                                      *)
(*                                                                         *)
(* A mark is an id up to which a reader takes itself to have read.  The    *)
(* proofs rest on this: a mark never passes the highest id that is stored  *)
(* (Marks).  A row that commits with an id at or below a mark is then late *)
(* by definition, so that new rows never break what a mark promises.       *)
(***************************************************************************)
EXTENDS BlockQueue, TLAPS

AtOrBelowARow(mark) == mark = 0 \/ \E r \in Rows : mark <= id[r]

\* Inserts that have started have ids of their own.
Ids ==
  /\ \A i \in Inserts : insert[i] # "idle" => id[i] \in 1..lastId
  /\ \A i, j \in Inserts :
       insert[i] # "idle" /\ insert[j] # "idle" /\ i # j => id[i] # id[j]

Marks == AtOrBelowARow(offset) /\ AtOrBelowARow(upTo) /\ AtOrBelowARow(cursor)

\* A page is being accepted: what it covers is in local or still on the page.
PageCovers ==
  /\ page \subseteq Rows
  /\ poll # "accept" => page = {}
  /\ poll = "accept" =>
       \A i \in Rows \ (late \cup lost) :
         id[i] <= upTo => local[BlockOf[i]] > 0 \/ i \in page

(* Each queue holds a block once, although inserts of the same block       *)
(* overlap, pages are read again after a poll that broke off, and the      *)
(* client's node publishes blocks of its own.                              *)
OneRowPerBlock ==
  /\ \A i, j \in Rows : i # j => BlockOf[i] # BlockOf[j] /\ id[i] # id[j]
  /\ \A b \in Blocks : local[b] <= 1

IInv ==
  /\ TypeOK
  /\ Ids
  /\ OneRowPerBlock
  /\ Marks
  /\ PageCovers
  /\ OffsetCovers
  /\ CursorCovers

-----------------------------------------------------------------------------
(* A page and its last id: every row above the mark is on the page or      *)
(* above its last id.                                                      *)
LEMMA PageIsAPrefix ==
  ASSUME id \in [Inserts -> Nat], NEW mark \in Nat, NEW p, NEW n \in Nat,
         IsPage(p, mark), IsLastOf(n, p)
  PROVE  /\ p \subseteq Rows
         /\ AtOrBelowARow(n)
         /\ \A i \in Rows : id[i] > mark /\ id[i] <= n => i \in p
<1>1. p \subseteq Rows
  BY DEF IsPage, RowsAfter
<1>2. PICK last \in p : id[last] = n
  BY DEF IsLastOf
<1>3. last \in Inserts /\ last \in Rows
  BY <1>1, <1>2 DEF Rows
<1>4. AtOrBelowARow(n)
  BY <1>2, <1>3 DEF AtOrBelowARow
<1>5. ASSUME NEW i \in Rows, id[i] > mark, id[i] <= n, i \notin p PROVE FALSE
  <2>1. i \in RowsAfter(mark) \ p /\ i \in Inserts
    BY <1>5 DEF RowsAfter, Rows
  <2>2. id[last] < id[i]
    BY <1>2, <2>1 DEF IsPage
  <2> QED
    BY <1>2, <1>3, <1>5, <2>1, <2>2
<1> QED
  BY <1>1, <1>4, <1>5

\* The initial state satisfies the invariant.
LEMMA InitIInv == Init => IInv
<1> SUFFICES ASSUME Init PROVE IInv
  OBVIOUS
<1>1. TypeOK
  <2>1. 0 \in 0..0 /\ 0 \in 0..(MaxRequests - 1) /\ 0 \in 0..MaxFaults
    BY QueueAssumption
  <2>2. insert \in [Inserts -> InsertState] /\ id \in [Inserts -> 0..lastId]
    BY <2>1 DEF Init, InsertState
  <2>3. local \in [Blocks -> Nat]
    BY DEF Init
  <2> QED
    BY <2>1, <2>2, <2>3 DEF Init, TypeOK, PollState
<1>2. Rows = {}
  BY DEF Init, Rows
<1>3. Ids /\ Marks
  BY DEF Init, Ids, Marks, AtOrBelowARow
<1>4. OneRowPerBlock /\ PageCovers /\ OffsetCovers /\ CursorCovers
  BY <1>2 DEF Init, OneRowPerBlock, PageCovers, OffsetCovers, CursorCovers
<1> QED
  BY <1>1, <1>3, <1>4 DEF IInv

-----------------------------------------------------------------------------
(* Steps that leave the rows alone keep all that speaks of rows only.      *)
LEMMA SameRows ==
  ASSUME IInv, UNCHANGED serverVars
  PROVE  /\ Rows' = Rows
         /\ Ids'
         /\ \A i, j \in Rows' : i # j => BlockOf[i] # BlockOf[j] /\ id'[i] # id'[j]
         /\ \A m : AtOrBelowARow(m) => AtOrBelowARow(m)'
<1>1. Rows' = Rows
  BY DEF serverVars, Rows
<1>2. Ids'
  BY DEF IInv, Ids, serverVars
<1>3. \A i, j \in Rows' : i # j => BlockOf[i] # BlockOf[j] /\ id'[i] # id'[j]
  BY <1>1 DEF IInv, OneRowPerBlock, serverVars
<1> QED
  BY <1>1, <1>2, <1>3 DEF AtOrBelowARow, serverVars

(* A row that commits is late or above all marks.                          *)
LEMMA CommitIInv ==
  ASSUME IInv, NEW i \in Inserts, Commit(i)
  PROVE  IInv'
<1> USE DEF IInv
<1>1. TypeOK'
  BY DEF Commit, TypeOK, InsertState, pollVars, archivalVars
<1>2. id \in [Inserts -> Nat] /\ offset \in Nat /\ upTo \in Nat /\ cursor \in Nat
      /\ lastId \in Nat
  BY DEF TypeOK
<1>3. Ids'
  <2>1. \A j \in Inserts : insert'[j] # "idle" => insert[j] # "idle"
    BY DEF Commit, TypeOK
  <2>2. UNCHANGED <<id, lastId>>
    BY DEF Commit
  <2> QED
    BY <2>1, <2>2 DEF Ids
<1>4. UNCHANGED <<id, lastId, offset, poll, requests, page, upTo, local, lost, cursor, given>>
  BY DEF Commit, pollVars, archivalVars
<1>5. CASE insert' = [insert EXCEPT ![i] = "duplicate"] /\ UNCHANGED late
  <2>1. Rows' = Rows
    BY <1>5 DEF Commit, Rows, TypeOK
  <2> QED
    BY <1>1, <1>3, <1>4, <1>5, <2>1
       DEF OneRowPerBlock, Marks, AtOrBelowARow, PageCovers, OffsetCovers, CursorCovers
<1>6. CASE /\ \A j \in Rows : BlockOf[j] # BlockOf[i]
           /\ insert' = [insert EXCEPT ![i] = "stored"]
           /\ late' = IF \E j \in Rows : id[j] > id[i] THEN late \cup {i} ELSE late
  <2>1. Rows' = Rows \cup {i} /\ i \notin Rows
    BY <1>6 DEF Commit, Rows, TypeOK
  <2>2. id[i] \in 1..lastId /\ \A j \in Rows : id[j] # id[i]
    BY DEF Commit, Ids, Rows
  <2>3. OneRowPerBlock'
    BY <1>4, <1>6, <2>1, <2>2 DEF OneRowPerBlock
  <2>4. Marks'
    BY <1>4, <2>1 DEF Marks, AtOrBelowARow
  <2>5. late \subseteq late'
    BY <1>6
  <2>6. ASSUME NEW mark \in Nat, AtOrBelowARow(mark), i \notin late'
        PROVE  mark < id[i]
    <3>1. \A j \in Rows : ~(id[j] > id[i])
      BY <1>6, <2>6
    <3>2. \A j \in Rows : id[j] \in Nat /\ id[j] < id[i]
      BY <1>2, <2>2, <3>1 DEF Rows
    <3> QED
      BY <1>2, <2>2, <2>6, <3>2 DEF AtOrBelowARow
  <2>7. i \in late' \/ (offset < id[i] /\ upTo < id[i] /\ cursor < id[i])
    BY <1>2, <2>6 DEF Marks
  <2>8. PageCovers'
    BY <1>2, <1>4, <2>1, <2>2, <2>5, <2>7 DEF PageCovers
  <2>9. OffsetCovers'
    BY <1>2, <1>4, <2>1, <2>2, <2>5, <2>7 DEF OffsetCovers
  <2>10. CursorCovers'
    BY <1>2, <1>4, <2>1, <2>2, <2>5, <2>7 DEF CursorCovers
  <2> QED
    BY <1>1, <1>3, <2>3, <2>4, <2>8, <2>9, <2>10
<1> QED
  BY <1>5, <1>6 DEF Commit

LEMMA StartInsertIInv ==
  ASSUME IInv, NEW i \in Inserts, StartInsert(i)
  PROVE  IInv'
<1> USE DEF IInv
<1>1. TypeOK'
  BY DEF StartInsert, TypeOK, InsertState, pollVars, archivalVars
<1>2. UNCHANGED <<offset, poll, page, upTo, local, lost, late, cursor, given>>
  BY DEF StartInsert, pollVars, archivalVars
<1>3. Rows' = Rows /\ \A j \in Rows : id'[j] = id[j]
  BY DEF StartInsert, Rows, TypeOK
<1>4. Ids'
  <2>1. \A j \in Inserts : j # i => insert'[j] = insert[j] /\ id'[j] = id[j]
    BY DEF StartInsert, TypeOK
  <2>2. id'[i] = lastId + 1 /\ lastId' = lastId + 1 /\ lastId \in Nat
    BY DEF StartInsert, TypeOK
  <2>3. \A j \in Inserts : j # i /\ insert'[j] # "idle" => id'[j] \in 1..lastId
    BY <2>1 DEF Ids
  <2> QED
    BY <2>1, <2>2, <2>3 DEF Ids
<1>5. OneRowPerBlock'
  BY <1>2, <1>3 DEF OneRowPerBlock
<1>6. Marks'
  BY <1>2, <1>3 DEF Marks, AtOrBelowARow
<1>7. PageCovers' /\ OffsetCovers' /\ CursorCovers'
  BY <1>2, <1>3 DEF PageCovers, OffsetCovers, CursorCovers
<1> QED
  BY <1>1, <1>4, <1>5, <1>6, <1>7

LEMMA InsertFailsIInv ==
  ASSUME IInv, NEW i \in Inserts, InsertFails(i)
  PROVE  IInv'
<1> USE DEF IInv
<1>1. TypeOK'
  BY QueueAssumption DEF InsertFails, Fault, TypeOK, InsertState, pollVars, archivalVars
<1>2. UNCHANGED <<id, lastId, offset, poll, page, upTo, local, lost, late, cursor, given>>
  BY DEF InsertFails, pollVars, archivalVars
<1>3. Rows' = Rows
  BY DEF InsertFails, Rows, TypeOK
<1>4. Ids'
  BY <1>2 DEF Ids, InsertFails, TypeOK
<1>5. OneRowPerBlock' /\ Marks'
  BY <1>2, <1>3 DEF OneRowPerBlock, Marks, AtOrBelowARow
<1>6. PageCovers' /\ OffsetCovers' /\ CursorCovers'
  BY <1>2, <1>3 DEF PageCovers, OffsetCovers, CursorCovers
<1> QED
  BY <1>1, <1>4, <1>5, <1>6

-----------------------------------------------------------------------------
(* What a step of the client leaves in place when it does not touch the    *)
(* archival reader, and the other way round.                               *)
LEMMA CursorKept ==
  ASSUME IInv, UNCHANGED <<serverVars, cursor, given>>
  PROVE  CursorCovers'
BY SameRows DEF IInv, CursorCovers, serverVars

LEMMA OffsetKept ==
  ASSUME IInv, UNCHANGED <<serverVars, offset>>, lost \subseteq lost',
         \A b \in Blocks : local[b] > 0 => local'[b] > 0
  PROVE  OffsetCovers'
<1>1. Rows' = Rows /\ UNCHANGED <<id, late>>
  BY SameRows DEF serverVars
<1>2. \A i \in Rows : BlockOf[i] \in Blocks
  BY QueueAssumption DEF Rows
<1> QED
  BY <1>1, <1>2 DEF IInv, OffsetCovers

LEMMA StartPollIInv ==
  ASSUME IInv, StartPoll
  PROVE  IInv'
<1> USE DEF IInv
<1>1. TypeOK'
  BY DEF StartPoll, TypeOK, PollState, serverVars, archivalVars
<1>2. Ids' /\ OneRowPerBlock' /\ Rows' = Rows
  BY SameRows DEF StartPoll, OneRowPerBlock
<1>3. Marks'
  BY SameRows DEF StartPoll, Marks, AtOrBelowARow, archivalVars
<1>4. PageCovers'
  BY <1>2 DEF StartPoll, PageCovers
<1>5. OffsetCovers' /\ CursorCovers'
  BY OffsetKept, CursorKept DEF StartPoll, archivalVars
<1> QED
  BY <1>1, <1>2, <1>3, <1>4, <1>5

(* The page covers what lies between the offset and its last id; the       *)
(* offset covers what lies below.                                          *)
LEMMA ReadItemsIInv ==
  ASSUME IInv, ReadItems
  PROVE  IInv'
<1> USE DEF IInv
<1>1. PICK p \in SUBSET Inserts : \E n \in 1..lastId :
        IsPage(p, offset) /\ IsLastOf(n, p) /\ page' = p /\ upTo' = n
  BY DEF ReadItems
<1>2. PICK n \in 1..lastId :
        IsPage(p, offset) /\ IsLastOf(n, p) /\ page' = p /\ upTo' = n
  BY <1>1
<1>3. UNCHANGED <<serverVars, reader, offset, requests, local, lost, faults, cursor, seeking, given>>
      /\ poll' = "accept"
  BY DEF ReadItems, archivalVars
<1>4. lastId \in Nat /\ offset \in Nat /\ n \in Nat /\ id \in [Inserts -> Nat]
  BY DEF TypeOK
<1>5. TypeOK'
  BY <1>2, <1>3, <1>4 DEF TypeOK, PollState, serverVars
<1>6. Ids' /\ OneRowPerBlock' /\ Rows' = Rows
  BY <1>3, SameRows DEF OneRowPerBlock
<1>7. /\ p \subseteq Rows
      /\ AtOrBelowARow(n)
      /\ \A i \in Rows : id[i] > offset /\ id[i] <= n => i \in p
  BY <1>2, <1>4, PageIsAPrefix
<1>8. Marks'
  BY <1>2, <1>3, <1>7, SameRows DEF Marks, AtOrBelowARow
<1>9. PageCovers'
  <2>1. ASSUME NEW i \in Rows \ (late \cup lost), id[i] <= n, i \notin p
        PROVE  local[BlockOf[i]] > 0
    <3>1. i \in Inserts /\ id[i] \in Nat
      BY <1>4 DEF Rows
    <3>2. id[i] <= offset
      BY <1>4, <1>7, <2>1, <3>1
    <3> QED
      BY <2>1, <3>2 DEF OffsetCovers
  <2> QED
    BY <1>2, <1>3, <1>6, <1>7, <2>1 DEF PageCovers, serverVars
<1>10. OffsetCovers' /\ CursorCovers'
  BY <1>3, OffsetKept, CursorKept
<1> QED
  BY <1>5, <1>6, <1>8, <1>9, <1>10

LEMMA ReadNothingIInv ==
  ASSUME IInv, ReadNothing
  PROVE  IInv'
<1> USE DEF IInv
<1>1. TypeOK'
  BY QueueAssumption DEF ReadNothing, TypeOK, PollState, serverVars, archivalVars
<1>2. Ids' /\ OneRowPerBlock' /\ Rows' = Rows
  BY SameRows DEF ReadNothing, OneRowPerBlock
<1>3. Marks'
  BY SameRows DEF ReadNothing, Marks, AtOrBelowARow, archivalVars
<1>4. PageCovers'
  BY <1>2 DEF ReadNothing, PageCovers
<1>5. OffsetCovers' /\ CursorCovers'
  BY OffsetKept, CursorKept DEF ReadNothing, archivalVars
<1> QED
  BY <1>1, <1>2, <1>3, <1>4, <1>5

LEMMA AcceptItemIInv ==
  ASSUME IInv, NEW i \in Inserts, AcceptItem(i)
  PROVE  IInv'
<1> USE DEF IInv
<1>1. BlockOf[i] \in Blocks /\ i \in page /\ page \subseteq Inserts
  BY QueueAssumption DEF AcceptItem, IsNext, TypeOK
<1>2. local' = [local EXCEPT ![BlockOf[i]] = 1] /\ page' = page \ {i}
      /\ UNCHANGED <<serverVars, reader, offset, poll, requests, upTo, lost, faults, cursor, seeking, given>>
  BY DEF AcceptItem, archivalVars
<1>3. TypeOK'
  BY <1>1, <1>2 DEF TypeOK, serverVars
<1>4. \A b \in Blocks : local'[b] = IF b = BlockOf[i] THEN 1 ELSE local[b]
  BY <1>2 DEF TypeOK
<1>5. \A b \in Blocks : local[b] > 0 => local'[b] > 0
  BY <1>4
<1>6. Ids' /\ Rows' = Rows /\ OneRowPerBlock'
  BY <1>2, <1>4, SameRows DEF OneRowPerBlock
<1>7. Marks'
  BY <1>2, SameRows DEF Marks, AtOrBelowARow
<1>8. PageCovers'
  <2>1. ASSUME NEW j \in Rows \ (late \cup lost), id[j] <= upTo, poll = "accept"
        PROVE  local'[BlockOf[j]] > 0 \/ j \in page \ {i}
    <3>1. BlockOf[j] \in Blocks
      BY QueueAssumption DEF Rows
    <3>2. local[BlockOf[j]] > 0 \/ j \in page
      BY <2>1 DEF PageCovers
    <3> QED
      BY <1>4, <1>5, <3>1, <3>2
  <2> QED
    BY <1>2, <1>6, <2>1 DEF PageCovers, serverVars
<1>9. OffsetCovers' /\ CursorCovers'
  BY <1>2, <1>5, OffsetKept, CursorKept
<1> QED
  BY <1>3, <1>6, <1>7, <1>8, <1>9

LEMMA AcceptThrowsIInv ==
  ASSUME IInv, NEW i \in Inserts, AcceptThrows(i)
  PROVE  IInv'
<1> USE DEF IInv
<1>1. lost' = lost \cup {i} /\ page' = page \ {i}
      /\ UNCHANGED <<serverVars, reader, offset, poll, requests, upTo, local, cursor, seeking, given>>
  BY DEF AcceptThrows, archivalVars
<1>2. TypeOK'
  BY <1>1, QueueAssumption DEF AcceptThrows, Fault, TypeOK, serverVars
<1>3. Ids' /\ Rows' = Rows /\ OneRowPerBlock'
  BY <1>1, SameRows DEF OneRowPerBlock
<1>4. Marks'
  BY <1>1, SameRows DEF Marks, AtOrBelowARow
<1>5. PageCovers'
  BY <1>1, <1>3 DEF PageCovers, serverVars
<1>6. OffsetCovers' /\ CursorCovers'
  BY <1>1, OffsetKept, CursorKept
<1> QED
  BY <1>2, <1>3, <1>4, <1>5, <1>6

(* Nothing is left on the page, so what it covered is in local.            *)
LEMMA SaveOffsetIInv ==
  ASSUME IInv, SaveOffset
  PROVE  IInv'
<1> USE DEF IInv
<1>1. poll = "accept" /\ page = {} /\ offset' = upTo /\ upTo' = 0 /\ poll' # "accept"
      /\ UNCHANGED <<serverVars, reader, page, local, lost, faults, cursor, seeking, given>>
  BY DEF SaveOffset, archivalVars
<1>2. poll' \in PollState /\ requests' \in 0..(MaxRequests - 1)
  BY QueueAssumption DEF SaveOffset, TypeOK, PollState
<1>3. TypeOK'
  BY <1>1, <1>2 DEF TypeOK, serverVars
<1>4. Ids' /\ Rows' = Rows /\ OneRowPerBlock'
  BY <1>1, SameRows DEF OneRowPerBlock
<1>5. Marks'
  BY <1>1, SameRows DEF Marks, AtOrBelowARow
<1>6. PageCovers'
  BY <1>1, <1>4 DEF PageCovers
<1>7. OffsetCovers'
  BY <1>1, <1>4 DEF PageCovers, OffsetCovers, serverVars
<1>8. CursorCovers'
  BY <1>1, CursorKept
<1> QED
  BY <1>3, <1>4, <1>5, <1>6, <1>7, <1>8

LEMMA PollBreaksOffIInv ==
  ASSUME IInv, PollBreaksOff
  PROVE  IInv'
<1> USE DEF IInv
<1>1. poll' = "idle" /\ page' = {} /\ upTo' = 0 /\ requests' = 0
      /\ UNCHANGED <<serverVars, reader, offset, local, lost, cursor, seeking, given>>
  BY DEF PollBreaksOff, archivalVars
<1>2. TypeOK'
  BY <1>1, QueueAssumption DEF PollBreaksOff, Fault, TypeOK, PollState, serverVars
<1>3. Ids' /\ Rows' = Rows /\ OneRowPerBlock'
  BY <1>1, SameRows DEF OneRowPerBlock
<1>4. Marks'
  BY <1>1, SameRows DEF Marks, AtOrBelowARow
<1>5. PageCovers'
  BY <1>1 DEF PageCovers
<1>6. OffsetCovers' /\ CursorCovers'
  BY <1>1, OffsetKept, CursorKept
<1> QED
  BY <1>2, <1>3, <1>4, <1>5, <1>6

LEMMA PublishIInv ==
  ASSUME IInv, NEW b \in Blocks, PublishFinalizedBlock(b)
  PROVE  IInv'
<1> USE DEF IInv
<1>1. local' = [local EXCEPT ![b] = 1]
      /\ UNCHANGED <<serverVars, reader, offset, poll, requests, page, upTo, lost, faults, cursor, seeking, given>>
  BY DEF PublishFinalizedBlock, pollVars, archivalVars
<1>2. TypeOK'
  BY <1>1 DEF TypeOK, serverVars
<1>3. \A c \in Blocks : local'[c] = IF c = b THEN 1 ELSE local[c]
  BY <1>1 DEF TypeOK
<1>4. \A c \in Blocks : local[c] > 0 => local'[c] > 0
  BY <1>3
<1>5. Ids' /\ Rows' = Rows /\ OneRowPerBlock'
  BY <1>1, <1>3, SameRows DEF OneRowPerBlock
<1>6. Marks'
  BY <1>1, SameRows DEF Marks, AtOrBelowARow
<1>7. PageCovers'
  <2>1. \A i \in Rows : BlockOf[i] \in Blocks
    BY QueueAssumption DEF Rows
  <2> QED
    BY <1>1, <1>4, <1>5, <2>1 DEF PageCovers, serverVars
<1>8. OffsetCovers' /\ CursorCovers'
  BY <1>1, <1>4, OffsetKept, CursorKept
<1> QED
  BY <1>2, <1>5, <1>6, <1>7, <1>8

LEMMA ReadBlockQueueIInv ==
  ASSUME IInv, ReadBlockQueue
  PROVE  IInv'
<1> USE DEF IInv
<1>1. UNCHANGED <<serverVars, reader, offset, poll, requests, page, upTo, local, lost, faults>>
  BY DEF ReadBlockQueue, pollVars
<1>2. Ids' /\ Rows' = Rows /\ OneRowPerBlock'
  BY <1>1, SameRows DEF OneRowPerBlock
<1>3. PageCovers' /\ OffsetCovers'
  BY <1>1, <1>2, OffsetKept DEF PageCovers, serverVars
<1>4. CASE seeking' = TRUE /\ UNCHANGED <<cursor, given>>
  <2>1. TypeOK'
    BY <1>1, <1>4 DEF TypeOK, serverVars
  <2>2. Marks' /\ CursorCovers'
    BY <1>1, <1>4, SameRows, CursorKept DEF Marks, AtOrBelowARow
  <2> QED
    BY <1>2, <1>3, <2>1, <2>2
<1>5. ASSUME NEW p \in SUBSET Inserts, NEW n \in 1..lastId,
             IsPage(p, cursor), IsLastOf(n, p),
             cursor' = n, given' = given \cup p, UNCHANGED seeking
      PROVE  IInv'
  <2>1. lastId \in Nat /\ cursor \in Nat /\ n \in Nat /\ id \in [Inserts -> Nat]
    BY DEF TypeOK
  <2>2. TypeOK'
    BY <1>1, <1>5, <2>1 DEF TypeOK, serverVars
  <2>3. /\ AtOrBelowARow(n)
        /\ \A i \in Rows : id[i] > cursor /\ id[i] <= n => i \in p
    BY <1>5, <2>1, PageIsAPrefix
  <2>4. Marks'
    BY <1>1, <1>5, <2>3, SameRows DEF Marks, AtOrBelowARow
  <2>5. ASSUME NEW i \in Rows \ late, id[i] <= n PROVE i \in given \cup p
    <3>1. i \in Inserts /\ id[i] \in Nat
      BY <2>1 DEF Rows
    <3> QED
      BY <2>1, <2>3, <2>5, <3>1 DEF CursorCovers
  <2>6. CursorCovers'
    BY <1>1, <1>2, <1>5, <2>5 DEF CursorCovers, serverVars
  <2> QED
    BY <1>2, <1>3, <2>2, <2>4, <2>6
<1>6. CASE \E p \in SUBSET Inserts, n \in 1..lastId :
             /\ IsPage(p, cursor)
             /\ IsLastOf(n, p)
             /\ cursor' = n
             /\ given' = given \cup p
             /\ UNCHANGED seeking
  <2>1. PICK p \in SUBSET Inserts : \E n \in 1..lastId :
               IsPage(p, cursor) /\ IsLastOf(n, p) /\ cursor' = n
               /\ given' = given \cup p /\ UNCHANGED seeking
    BY <1>6
  <2> QED
    BY <1>5, <2>1
<1> QED
  BY <1>4, <1>6 DEF ReadBlockQueue

(* No row lies between the cursor and the first row after it.              *)
LEMMA GetFirstRowIdAfterIInv ==
  ASSUME IInv, GetFirstRowIdAfter
  PROVE  IInv'
<1> USE DEF IInv
<1>1. UNCHANGED <<serverVars, reader, offset, poll, requests, page, upTo, local, lost, faults, given>>
      /\ seeking' = FALSE
  BY DEF GetFirstRowIdAfter, pollVars
<1>2. Ids' /\ Rows' = Rows /\ OneRowPerBlock'
  BY <1>1, SameRows DEF OneRowPerBlock
<1>3. PageCovers' /\ OffsetCovers'
  BY <1>1, <1>2, OffsetKept DEF PageCovers, serverVars
<1>4. CASE UNCHANGED cursor
  <2>1. TypeOK'
    BY <1>1, <1>4 DEF TypeOK, serverVars
  <2>2. Marks' /\ CursorCovers'
    BY <1>1, <1>4, SameRows, CursorKept DEF Marks, AtOrBelowARow
  <2> QED
    BY <1>2, <1>3, <2>1, <2>2
<1>5. ASSUME NEW i \in RowsAfter(cursor),
             \A j \in RowsAfter(cursor) : id[i] <= id[j],
             cursor' = id[i] - 1
      PROVE  IInv'
  <2>1. /\ lastId \in Nat /\ cursor \in Nat
        /\ i \in Rows /\ \A j \in Rows : id[j] \in 0..lastId
        /\ id[i] > cursor
    BY <1>5 DEF TypeOK, RowsAfter, Rows
  <2>2. cursor' \in 0..lastId /\ cursor' <= id[i] /\ cursor' < id[i]
    BY <1>5, <2>1
  <2>3. TypeOK'
    BY <1>1, <2>2 DEF TypeOK, serverVars
  <2>4. Marks'
    BY <1>1, <2>1, <2>2, SameRows DEF Marks, AtOrBelowARow
  <2>5. ASSUME NEW j \in Rows \ late, id[j] <= cursor' PROVE j \in given
    <3>1. ~(id[j] > cursor)
      BY <1>5, <2>1, <2>2, <2>5 DEF RowsAfter
    <3> QED
      BY <2>1, <2>5, <3>1 DEF CursorCovers
  <2>6. CursorCovers'
    BY <1>1, <1>2, <2>5 DEF CursorCovers, serverVars
  <2> QED
    BY <1>2, <1>3, <2>3, <2>4, <2>6
<1> QED
  BY <1>4, <1>5 DEF GetFirstRowIdAfter

LEMMA StutterIInv ==
  ASSUME IInv, UNCHANGED vars
  PROVE  IInv'
BY DEF IInv, vars, serverVars, pollVars, archivalVars, TypeOK, Ids, OneRowPerBlock,
       Marks, AtOrBelowARow, PageCovers, OffsetCovers, CursorCovers, Rows

LEMMA NextIInv == IInv /\ [Next]_vars => IInv'
<1> SUFFICES ASSUME IInv, [Next]_vars PROVE IInv'
  OBVIOUS
<1>1. ASSUME NEW i \in Inserts, ServerStep(i) PROVE IInv'
  BY <1>1, StartInsertIInv, CommitIInv, InsertFailsIInv DEF ServerStep
<1>2. CASE PollStep
  BY <1>2, StartPollIInv, ReadItemsIInv, ReadNothingIInv, SaveOffsetIInv,
     AcceptItemIInv, AcceptThrowsIInv DEF PollStep
<1>3. CASE ArchivalStep
  BY <1>3, ReadBlockQueueIInv, GetFirstRowIdAfterIInv DEF ArchivalStep
<1>4. ASSUME NEW b \in Blocks, PublishFinalizedBlock(b) PROVE IInv'
  BY <1>4, PublishIInv
<1> QED
  BY <1>1, <1>2, <1>3, <1>4, PollBreaksOffIInv, StutterIInv DEF Next

THEOREM Invariance == Spec => []IInv
BY InitIInv, NextIInv, PTL DEF Spec

-----------------------------------------------------------------------------
(* The variables keep their types, and no offset is beyond the last id the *)
(* sequence has given.                                                     *)
THEOREM TypeCorrect == Spec => []TypeOK
<1>1. IInv => TypeOK
  BY DEF IInv
<1> QED
  BY <1>1, Invariance, PTL

(* Each queue holds a block once (appendWithHashChecks), however inserts,  *)
(* polls and the node's own blocks interleave.                             *)
THEOREM Deduplication == Spec => []OneRowPerBlock
<1>1. IInv => OneRowPerBlock
  BY DEF IInv
<1> QED
  BY <1>1, Invariance, PTL

(* The stored offset of pollRemoteQueue covers all rows up to it except    *)
(* those that were late and those whose accept threw.                      *)
THEOREM OffsetIsAPromise == Spec => []OffsetCovers
<1>1. IInv => OffsetCovers
  BY DEF IInv
<1> QED
  BY <1>1, Invariance, PTL

(* A reader that follows the lastOffset of readWithLastOffset is given all *)
(* rows it passes except those that were late.                             *)
THEOREM CursorIsAPromise == Spec => []CursorCovers
<1>1. IInv => CursorCovers
  BY DEF IInv
<1> QED
  BY <1>1, Invariance, PTL

-----------------------------------------------------------------------------
(* The refinement of BlockFeed.  The reader of a behaviour stays the same, *)
(* and what lies on a page is ahead of the offset.                         *)
FeedInv ==
  /\ poll # "idle" => reader = "client"
  /\ seeking => reader = "archival"
  /\ poll = "accept" => offset < upTo
  /\ \A i \in page : offset < id[i]
  /\ late \subseteq Rows

LEMMA InitFeedInv == Init => FeedInv
BY DEF Init, FeedInv

LEMMA NextFeedInv == IInv /\ FeedInv /\ [Next]_vars => FeedInv'
<1> SUFFICES ASSUME IInv, FeedInv, [Next]_vars PROVE FeedInv'
  OBVIOUS
<1> USE DEF FeedInv
<1>1. page \subseteq Rows /\ Rows \subseteq Inserts /\ (poll # "accept" => page = {})
  BY DEF IInv, PageCovers, Rows
<1>2. ASSUME UNCHANGED <<serverVars, reader, offset, seeking>>,
             poll' # "idle" => reader = "client", poll' = "accept" => poll = "accept" /\ upTo' = upTo,
             page' \subseteq page
      PROVE  FeedInv'
  <2>1. Rows' = Rows /\ id' = id /\ late' = late
    BY <1>2 DEF serverVars, Rows
  <2> QED
    BY <1>2, <2>1
<1>3. ASSUME NEW i \in Inserts, ServerStep(i) PROVE FeedInv'
  <2>1. UNCHANGED <<reader, offset, poll, page, upTo, seeking>>
    BY <1>3 DEF ServerStep, StartInsert, Commit, InsertFails, pollVars, archivalVars
  <2>2. Rows \subseteq Rows' /\ late' \subseteq Rows'
    BY <1>1, <1>3 DEF ServerStep, StartInsert, Commit, InsertFails, Rows, IInv, TypeOK
  <2>3. \A j \in Rows : id'[j] = id[j]
    BY <1>1, <1>3 DEF ServerStep, StartInsert, Commit, InsertFails, Rows, IInv, TypeOK
  <2> QED
    BY <1>1, <2>1, <2>2, <2>3
<1>4. CASE StartPoll \/ ReadNothing
  BY <1>1, <1>2, <1>4 DEF StartPoll, ReadNothing, archivalVars
<1>5. CASE ReadItems
  <2>1. PICK p \in SUBSET Inserts, n \in 1..lastId :
          IsPage(p, offset) /\ IsLastOf(n, p) /\ page' = p /\ upTo' = n
    BY <1>5 DEF ReadItems
  <2>2. \A i \in p : offset < id[i]
    BY <2>1 DEF IsPage, RowsAfter, IInv, TypeOK
  <2>3. offset < n
    BY <2>1, <2>2 DEF IsLastOf
  <2>4. UNCHANGED <<serverVars, reader, offset, seeking>> /\ poll = "ask" /\ poll' = "accept"
    BY <1>5 DEF ReadItems, archivalVars
  <2>5. Rows' = Rows /\ id' = id /\ late' = late
    BY <2>4 DEF serverVars, Rows
  <2> QED
    BY <2>1, <2>2, <2>3, <2>4, <2>5
<1>6. CASE SaveOffset
  <2>1. /\ UNCHANGED <<serverVars, reader, seeking>> /\ page = {} /\ page' = {}
        /\ poll = "accept" /\ poll' # "accept"
    BY <1>6 DEF SaveOffset, archivalVars
  <2>2. Rows' = Rows /\ id' = id /\ late' = late
    BY <2>1 DEF serverVars, Rows
  <2> QED
    BY <2>1, <2>2
<1>7. ASSUME NEW i \in Inserts, AcceptItem(i) \/ AcceptThrows(i) PROVE FeedInv'
  BY <1>2, <1>7 DEF AcceptItem, AcceptThrows, archivalVars
<1>8. CASE PollBreaksOff
  BY <1>2, <1>8 DEF PollBreaksOff, archivalVars
<1>9. ASSUME NEW b \in Blocks, PublishFinalizedBlock(b) PROVE FeedInv'
  BY <1>2, <1>9 DEF PublishFinalizedBlock, pollVars, archivalVars
<1>10. CASE ArchivalStep
  <2>1. /\ UNCHANGED <<serverVars, reader, offset, poll, upTo, page>>
        /\ seeking' => reader = "archival"
    BY <1>10 DEF ArchivalStep, ReadBlockQueue, GetFirstRowIdAfter, pollVars
  <2>2. Rows' = Rows /\ id' = id /\ late' = late
    BY <2>1 DEF serverVars, Rows
  <2> QED
    BY <2>1, <2>2
<1>11. CASE UNCHANGED vars
  BY <1>2, <1>11 DEF vars, pollVars, archivalVars
<1> QED
  BY <1>3, <1>4, <1>5, <1>6, <1>7, <1>8, <1>9, <1>10, <1>11 DEF Next, PollStep

\* Steps that change no row and nothing the reader has are no steps of the feed.
LEMMA FeedStutters ==
  ASSUME Rows' = Rows, \A i \in Rows : id'[i] = id[i], late' = late,
         UNCHANGED <<reader, Mark, Had, lost>>
  PROVE  [Feed!Next]_(Feed!feedVars)
<1>1. Entries' = Entries /\ LateBlocks' = LateBlocks /\ Skipped' = Skipped
  BY DEF Entries, LateBlocks, Skipped
<1> QED
  BY <1>1 DEF Feed!feedVars

\* What a reader has, of either kind.
LEMMA HadUnchanged ==
  ASSUME UNCHANGED <<reader, offset, cursor, local, given>>
  PROVE  UNCHANGED <<reader, Mark, Had>>
BY DEF Mark, Had

\* The row of a block that had none commits.
LEMMA CommitFeeds ==
  ASSUME IInv, FeedInv, NEW i \in Inserts, Commit(i)
  PROVE  [Feed!Next]_(Feed!feedVars)
<1> DEFINE new == <<id[i], BlockOf[i]>>
<1>1. /\ UNCHANGED <<id, reader, offset, cursor, local, given, lost>>
      /\ insert[i] = "pending"
  BY DEF Commit, pollVars, archivalVars
<1>2. UNCHANGED <<reader, Mark, Had>>
  BY <1>1, HadUnchanged
<1>3. CASE insert' = [insert EXCEPT ![i] = "duplicate"] /\ UNCHANGED late
  <2>1. Rows' = Rows
    BY <1>1, <1>3 DEF Rows, IInv, TypeOK
  <2> QED
    BY <1>1, <1>2, <1>3, <2>1, FeedStutters
<1>4. CASE /\ \A j \in Rows : BlockOf[j] # BlockOf[i]
           /\ insert' = [insert EXCEPT ![i] = "stored"]
           /\ late' = IF \E j \in Rows : id[j] > id[i] THEN late \cup {i} ELSE late
  <2>1. Rows' = Rows \cup {i} /\ i \notin Rows
    BY <1>1, <1>4 DEF Rows, IInv, TypeOK
  <2>2. BlockOf[i] \in Blocks
    BY QueueAssumption
  <2>3. Entries' = Entries \cup {new}
    BY <1>1, <2>1 DEF Entries
  <2>4. \A e \in Entries : e[1] # id[i] /\ e[2] # BlockOf[i]
    <3>1. \A j \in Rows : id[j] # id[i]
      BY <1>1, <2>1 DEF Rows, IInv, Ids
    <3> QED
      BY <1>4, <3>1 DEF Entries
  <2>5. LateBlocks' = IF \E e \in Entries : e[1] > id[i] THEN LateBlocks \cup {BlockOf[i]} ELSE LateBlocks
    <3>1. ASSUME NEW e \in Entries, e[1] > id[i]
          PROVE  \E j \in Rows : id[j] > id[i]
      BY <3>1 DEF Entries
    <3>2. ASSUME NEW j \in Rows, id[j] > id[i]
          PROVE  \E e \in Entries : e[1] > id[i]
      <4>1. <<id[j], BlockOf[j]>> \in Entries
        BY DEF Entries
      <4> QED
        BY <3>2, <4>1
    <3>3. (\E e \in Entries : e[1] > id[i]) <=> (\E j \in Rows : id[j] > id[i])
      BY <3>1, <3>2
    <3>4. LateBlocks' = IF \E j \in Rows : id[j] > id[i] THEN LateBlocks \cup {BlockOf[i]} ELSE LateBlocks
      BY <1>4 DEF LateBlocks
    <3> QED
      BY <3>3, <3>4
  <2>6. Skipped' = Skipped
    BY <1>1 DEF Skipped
  <2>7. new[1] = id[i] /\ new[2] = BlockOf[i] /\ new \in Entries'
    BY <2>3
  <2> HIDE DEF new
  <2>8. Feed!Enqueue
    BY <1>2, <2>2, <2>3, <2>4, <2>5, <2>6, <2>7 DEF Feed!Enqueue
  <2> QED
    BY <2>8 DEF Feed!Next
<1> QED
  BY <1>3, <1>4 DEF Commit

\* The client stores the end of a page it has dealt with.
LEMMA SaveOffsetFeeds ==
  ASSUME IInv, FeedInv, SaveOffset
  PROVE  [Feed!Next]_(Feed!feedVars)
<1>1. /\ UNCHANGED <<serverVars, reader, local, given, cursor, lost>>
      /\ poll = "accept" /\ page = {} /\ offset' = upTo /\ reader = "client" /\ offset < upTo
  BY DEF SaveOffset, FeedInv, archivalVars
<1>2. Entries' = Entries /\ LateBlocks' = LateBlocks /\ Skipped' = Skipped /\ Had' = Had
  BY <1>1 DEF Entries, LateBlocks, Skipped, Had, serverVars, Rows
<1>3. Mark = offset /\ Mark' = upTo
  BY <1>1 DEF Mark
<1>4. offset \in Nat /\ upTo \in Nat
  BY DEF IInv, TypeOK
<1>5. \E e \in Entries : Mark' <= e[1]
  <2>1. PICK r \in Rows : upTo <= id[r]
    BY <1>1, <1>4 DEF IInv, Marks, AtOrBelowARow
  <2>2. <<id[r], BlockOf[r]>> \in Entries /\ <<id[r], BlockOf[r]>>[1] = id[r]
    BY DEF Entries
  <2> QED
    BY <1>3, <2>1, <2>2
<1>6. ASSUME NEW e \in Entries, e[1] <= Mark'
      PROVE  e[2] \in Had \cup Skipped \cup LateBlocks
  <2>1. PICK r \in Rows : e = <<id[r], BlockOf[r]>>
    BY DEF Entries
  <2>2. id[r] <= upTo /\ BlockOf[r] \in Blocks
    BY <1>3, <1>6, <2>1, QueueAssumption DEF Rows
  <2>3. CASE r \in late \cup lost
    BY <2>1, <2>3 DEF Skipped, LateBlocks
  <2>4. CASE r \notin late \cup lost
    <3>1. local[BlockOf[r]] > 0
      BY <1>1, <2>2, <2>4 DEF IInv, PageCovers
    <3> QED
      BY <1>1, <2>1, <2>2, <3>1 DEF Had
  <2> QED
    BY <2>3, <2>4
<1>7. Feed!Forward
  BY <1>1, <1>2, <1>3, <1>4, <1>5 DEF Feed!Forward
<1>8. Feed!Advance
  BY <1>1, <1>2, <1>6, <1>7 DEF Feed!Advance, Feed!Passed
<1> QED
  BY <1>8 DEF Feed!Next

\* The client's queue takes a block.
LEMMA ObtainFeeds ==
  ASSUME TypeOK, NEW b \in Blocks, reader = "client", local' = [local EXCEPT ![b] = 1],
         UNCHANGED <<serverVars, reader, offset, lost>>
  PROVE  [Feed!Next]_(Feed!feedVars)
<1>1. Entries' = Entries /\ LateBlocks' = LateBlocks /\ Skipped' = Skipped /\ Mark' = Mark
  BY DEF Entries, LateBlocks, Skipped, Mark, serverVars, Rows
<1>2. Had' = Had \cup {b}
  BY DEF Had, TypeOK
<1>3. Feed!Obtain(b)
  BY <1>1, <1>2 DEF Feed!Obtain
<1> QED
  BY <1>3 DEF Feed!Next

LEMMA AcceptThrowsFeeds ==
  ASSUME IInv, FeedInv, NEW i \in Inserts, AcceptThrows(i)
  PROVE  [Feed!Next]_(Feed!feedVars)
<1>1. /\ UNCHANGED <<serverVars, reader, offset, local, given, cursor>>
      /\ i \in page /\ lost' = lost \cup {i} /\ reader = "client"
  BY DEF AcceptThrows, IsNext, FeedInv, archivalVars
<1>2. UNCHANGED <<reader, Mark, Had>>
  BY <1>1, HadUnchanged
<1>3. Entries' = Entries /\ LateBlocks' = LateBlocks /\ Skipped' = Skipped \cup {BlockOf[i]}
  BY <1>1 DEF Entries, LateBlocks, Skipped, serverVars, Rows
<1>4. BlockOf[i] \in Blocks
  BY QueueAssumption
<1>5. \E e \in Entries : e[2] = BlockOf[i] /\ Mark < e[1]
  <2>1. i \in Rows /\ offset < id[i] /\ Mark = offset
    BY <1>1 DEF IInv, PageCovers, FeedInv, Mark
  <2>2. <<id[i], BlockOf[i]>> \in Entries
    BY <2>1 DEF Entries
  <2> QED
    BY <2>1, <2>2
<1>6. Feed!Skip(BlockOf[i])
  BY <1>1, <1>2, <1>3, <1>5 DEF Feed!Skip
<1> QED
  BY <1>4, <1>6 DEF Feed!Next

\* A page is what lies between the cursor and its last row.
LEMMA ReadBlockQueueFeeds ==
  ASSUME IInv, FeedInv, ReadBlockQueue
  PROVE  [Feed!Next]_(Feed!feedVars)
<1>1. UNCHANGED <<serverVars, reader, offset, local, lost>> /\ reader = "archival"
  BY DEF ReadBlockQueue
<1>2. Entries' = Entries /\ LateBlocks' = LateBlocks /\ Skipped' = Skipped
  BY <1>1 DEF Entries, LateBlocks, Skipped, serverVars, Rows
<1>3. CASE UNCHANGED <<cursor, given>>
  <2>1. UNCHANGED <<reader, Mark, Had>>
    BY <1>1, <1>3, HadUnchanged
  <2> QED
    BY <1>2, <2>1 DEF Feed!feedVars
<1>4. ASSUME NEW p \in SUBSET Inserts, NEW n \in 1..lastId,
             IsPage(p, cursor), IsLastOf(n, p), cursor' = n, given' = given \cup p
      PROVE  [Feed!Next]_(Feed!feedVars)
  <2>1. cursor \in Nat /\ n \in Nat /\ id \in [Inserts -> Nat] /\ Rows \subseteq Inserts
    BY DEF IInv, TypeOK, Rows
  <2>2. p \subseteq Rows /\ \A i \in Rows : id[i] > cursor /\ id[i] <= n => i \in p
    BY <1>4, <2>1, PageIsAPrefix
  <2>3. \A i \in p : id[i] > cursor /\ id[i] <= n
    <3>1. \A i, j \in p : id[j] = n /\ (\A k \in p : id[k] <= id[j]) => id[i] <= n
      OBVIOUS
    <3> QED
      BY <1>4, <3>1 DEF IsPage, IsLastOf, RowsAfter
  <2>4. Mark = cursor /\ Mark' = n
    BY <1>1, <1>4 DEF Mark
  <2>5. PICK last \in p : id[last] = n
    BY <1>4 DEF IsLastOf
  <2>6. \E e \in Entries : Mark' <= e[1]
    <3>1. <<id[last], BlockOf[last]>> \in Entries
      BY <2>2, <2>5 DEF Entries
    <3> QED
      BY <2>1, <2>4, <2>5, <3>1
  <2>7. Mark' >= Mark
    BY <2>1, <2>3, <2>4, <2>5
  <2>8. Feed!Forward
    BY <1>1, <1>2, <2>6, <2>7 DEF Feed!Forward
  <2>9. Had' = Had \cup {e[2] : e \in Feed!Passed}
    <3>1. {BlockOf[i] : i \in p} = {e[2] : e \in Feed!Passed}
      <4>1. ASSUME NEW i \in p PROVE \E e \in Feed!Passed : e[2] = BlockOf[i]
        <5>1. <<id[i], BlockOf[i]>> \in Entries
          BY <2>2 DEF Entries
        <5> QED
          BY <2>3, <2>4, <5>1 DEF Feed!Passed
      <4>2. ASSUME NEW e \in Feed!Passed PROVE \E i \in p : e[2] = BlockOf[i]
        <5>1. PICK i \in Rows : e = <<id[i], BlockOf[i]>>
          BY DEF Feed!Passed, Entries
        <5>2. cursor < id[i] /\ id[i] <= n
          BY <2>4, <5>1 DEF Feed!Passed
        <5> QED
          BY <2>1, <2>2, <5>1, <5>2
      <4> QED
        BY <4>1, <4>2
    <3>2. Had' = Had \cup {BlockOf[i] : i \in p}
      BY <1>1, <1>4 DEF Had
    <3> QED
      BY <3>1, <3>2
  <2>10. Feed!Receive
    BY <1>1, <2>8, <2>9 DEF Feed!Receive
  <2> QED
    BY <2>10 DEF Feed!Next
<1> QED
  BY <1>3, <1>4 DEF ReadBlockQueue

\* The cursor jumps over a gap of the ids.
LEMMA GetFirstRowIdAfterFeeds ==
  ASSUME IInv, FeedInv, GetFirstRowIdAfter
  PROVE  [Feed!Next]_(Feed!feedVars)
<1>1. UNCHANGED <<serverVars, reader, offset, local, given, lost>> /\ reader = "archival"
  BY DEF GetFirstRowIdAfter, FeedInv
<1>2. Entries' = Entries /\ LateBlocks' = LateBlocks /\ Skipped' = Skipped /\ Had' = Had
  BY <1>1 DEF Entries, LateBlocks, Skipped, Had, serverVars, Rows
<1>3. CASE UNCHANGED cursor
  BY <1>1, <1>2, <1>3 DEF Mark, Feed!feedVars
<1>4. ASSUME NEW i \in RowsAfter(cursor), \A j \in RowsAfter(cursor) : id[i] <= id[j],
             cursor' = id[i] - 1
      PROVE  [Feed!Next]_(Feed!feedVars)
  <2>1. /\ cursor \in Nat /\ i \in Rows /\ cursor < id[i] /\ id[i] \in Nat
        /\ \A j \in Rows : id[j] \in Nat
    BY <1>4 DEF IInv, TypeOK, RowsAfter, Rows
  <2>2. Mark = cursor /\ Mark' = id[i] - 1
    BY <1>1, <1>4 DEF Mark
  <2>3. \E e \in Entries : Mark' <= e[1]
    <3>1. <<id[i], BlockOf[i]>> \in Entries
      BY <2>1 DEF Entries
    <3> QED
      BY <2>1, <2>2, <3>1
  <2>4. Feed!Forward
    BY <1>1, <1>2, <2>1, <2>2, <2>3 DEF Feed!Forward
  <2>5. Feed!Passed = {}
    <3>1. ASSUME NEW e \in Entries, Mark < e[1], e[1] <= Mark' PROVE FALSE
      <4>1. PICK r \in Rows : e[1] = id[r]
        BY DEF Entries
      <4>2. cursor < id[r] /\ id[r] <= id[i] - 1
        BY <2>2, <3>1, <4>1
      <4>3. r \in RowsAfter(cursor)
        BY <4>2 DEF RowsAfter
      <4>4. id[i] <= id[r] /\ id[r] \in Nat
        BY <1>4, <2>1, <4>3
      <4> QED
        BY <2>1, <4>2, <4>4
    <3> QED
      BY <3>1 DEF Feed!Passed
  <2>6. Feed!Receive
    BY <1>1, <1>2, <2>4, <2>5 DEF Feed!Receive
  <2> QED
    BY <2>6 DEF Feed!Next
<1> QED
  BY <1>3, <1>4 DEF GetFirstRowIdAfter

LEMMA StepImplementsFeed ==
  IInv /\ FeedInv /\ [Next]_vars => [Feed!Next]_(Feed!feedVars)
<1> SUFFICES ASSUME IInv, FeedInv, [Next]_vars PROVE [Feed!Next]_(Feed!feedVars)
  OBVIOUS
<1>1. ASSUME UNCHANGED <<serverVars, reader, offset, cursor, local, given, lost>>
      PROVE  [Feed!Next]_(Feed!feedVars)
  BY <1>1, HadUnchanged, FeedStutters DEF serverVars, Rows
<1>2. ASSUME NEW i \in Inserts, StartInsert(i) \/ InsertFails(i)
      PROVE  [Feed!Next]_(Feed!feedVars)
  <2>1. /\ Rows' = Rows /\ late' = late /\ \A j \in Rows : id'[j] = id[j]
        /\ UNCHANGED <<reader, offset, cursor, local, given, lost>>
    BY <1>2 DEF StartInsert, InsertFails, Rows, IInv, TypeOK, archivalVars
  <2> QED
    BY <2>1, HadUnchanged, FeedStutters
<1>3. ASSUME NEW i \in Inserts, AcceptItem(i) PROVE [Feed!Next]_(Feed!feedVars)
  <2>1. /\ BlockOf[i] \in Blocks /\ reader = "client"
        /\ local' = [local EXCEPT ![BlockOf[i]] = 1]
        /\ UNCHANGED <<serverVars, reader, offset, lost>>
    BY <1>3, QueueAssumption DEF AcceptItem, FeedInv
  <2> QED
    BY <2>1, ObtainFeeds DEF IInv
<1>4. ASSUME NEW b \in Blocks, PublishFinalizedBlock(b) PROVE [Feed!Next]_(Feed!feedVars)
  <2>1. /\ reader = "client" /\ local' = [local EXCEPT ![b] = 1]
        /\ UNCHANGED <<serverVars, reader, offset, lost>>
    BY <1>4 DEF PublishFinalizedBlock
  <2> QED
    BY <2>1, ObtainFeeds DEF IInv
<1>5. CASE StartPoll \/ ReadItems \/ ReadNothing \/ PollBreaksOff
  BY <1>1, <1>5 DEF StartPoll, ReadItems, ReadNothing, PollBreaksOff, archivalVars
<1>6. CASE UNCHANGED vars
  BY <1>1, <1>6 DEF vars, archivalVars
<1> QED
  BY <1>2, <1>3, <1>4, <1>5, <1>6, CommitFeeds, SaveOffsetFeeds, AcceptThrowsFeeds,
     ReadBlockQueueFeeds, GetFirstRowIdAfterFeeds DEF Next, ServerStep, PollStep, ArchivalStep

(* The queue is a feed to either of its readers: whatever order rows       *)
(* commit in and wherever polls break off, a block has one row, an offset  *)
(* moves forward only, and no row is passed that the reader has not been   *)
(* given, but those BlockFeed names.                                       *)
THEOREM Implementation == Spec => ImplementsFeed
<1>1. Init => Feed!Init
  BY DEF Init, Feed!Init, Entries, LateBlocks, Mark, Had, Skipped, Rows
<1>2. Spec => []FeedInv
  BY InitFeedInv, NextFeedInv, Invariance, PTL DEF Spec
<1> QED
  BY <1>1, <1>2, Invariance, StepImplementsFeed, PTL DEF Spec, ImplementsFeed, Feed!Spec
=============================================================================
