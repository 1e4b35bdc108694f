----------------------------- MODULE BlockQueue -----------------------------
(***************************************************************************)
(* The queue "mblock" a validator puts its finalized blocks into           *)
(* (messaging-dset/queueServer.ts) and its readers: the client that copies *)
(* it into the queue of another node (messaging-dset/queueClient.ts), and  *)
(* the archival nodes that page through it (push_readBlockQueue).          *)
(*                                                                         *)
(* The queue is a Postgres table.  Its ids are drawn from a sequence when  *)
(* an INSERT starts and are seen when it commits; the pool has 30          *)
(* connections, so inserts overlap and may commit in another order.  An id *)
(* is used up also by an INSERT that fails or finds the hash present.      *)
(***************************************************************************)
EXTENDS Naturals, FiniteSets

CONSTANTS
  \* Calls of QueueServer.accept made by publishFinalizedBlock.
  Inserts,
  \* The blocks, as told apart by object_hash.
  Blocks,
  \* The block each call inserts.
  BlockOf,
  \* The connections of the Postgres pool (max: 30).
  Connections,
  \* replyPageSize
  PageSize,
  \* The argument of pollRemoteQueue.
  MaxRequests,
  \* Bound of the model: how many inserts, accepts and polls fail.
  MaxFaults

ASSUME QueueAssumption ==
  /\ IsFiniteSet(Inserts)
  /\ BlockOf \in [Inserts -> Blocks]
  /\ Connections \in Nat \ {0}
  /\ PageSize \in Nat \ {0}
  /\ MaxRequests \in Nat \ {0}
  /\ MaxFaults \in Nat

VARIABLES
  \* How far each INSERT has come.
  insert,
  \* The id each INSERT has drawn, 0 before.
  id,
  \* The last id the sequence has given.
  lastId,
  \* History: the rows that committed after a row with a higher id.
  late,
  \* Which reader this behaviour follows: neither reads what the other
  \* writes, so they are followed one at a time.
  reader,
  \* target_offset in the client's table dset_client, and in a running poll
  \* its local variable lastOffset, which always has the same value.
  offset,
  \* How far pollRemoteQueue has come.
  poll,
  \* The number of pages this poll has stored.
  requests,
  \* The rows of the reply that are still to be accepted.
  page,
  \* reply.lastOffset
  upTo,
  \* The client's own queue: how many rows it has for each block.
  local,
  \* History: the rows whose accept threw.
  lost,
  \* Number of failures.
  faults,
  \* The offset an archival node asks from.
  cursor,
  \* readWithLastOffset found no rows for it and looks for the next id.
  seeking,
  \* The rows it has been given.
  given

serverVars == <<insert, id, lastId, late>>
pollVars == <<poll, requests, page, upTo>>
archivalVars == <<cursor, seeking, given>>
vars == <<serverVars, reader, offset, pollVars, local, lost, faults, archivalVars>>

InsertState == {"idle", "pending", "stored", "duplicate", "failed"}
PollState == {"idle", "ask", "accept"}

Rows == {i \in Inserts : insert[i] = "stored"}
RowsAfter(mark) == {i \in Rows : id[i] > mark}

\* p is what "where id > mark order by id asc limit PageSize" returns.
IsPage(p, mark) ==
  /\ p \subseteq RowsAfter(mark)
  /\ \A i \in p, j \in RowsAfter(mark) \ p : id[i] < id[j]
  /\ \/ Cardinality(p) = PageSize
     \/ Cardinality(p) < PageSize /\ p = RowsAfter(mark)

\* The highest id of page p, its lastOffset.
IsLastOf(n, p) == \E i \in p : id[i] = n /\ \A j \in p : id[j] <= n

Init ==
  /\ insert = [i \in Inserts |-> "idle"]
  /\ id = [i \in Inserts |-> 0]
  /\ lastId = 0
  /\ late = {}
  /\ reader \in {"client", "archival"}
  /\ offset = 0
  /\ poll = "idle"
  /\ requests = 0
  /\ page = {}
  /\ upTo = 0
  /\ local = [b \in Blocks |-> 0]
  /\ lost = {}
  /\ faults = 0
  /\ cursor = 0
  /\ seeking = FALSE
  /\ given = {}

Fault == faults < MaxFaults /\ faults' = faults + 1

-----------------------------------------------------------------------------
(* QueueServer.accept: INSERT ... ON CONFLICT (object_hash) DO NOTHING.    *)

StartInsert(i) ==
  /\ insert[i] = "idle"
  /\ Cardinality({j \in Inserts : insert[j] = "pending"}) < Connections
  /\ insert' = [insert EXCEPT ![i] = "pending"]
  /\ lastId' = lastId + 1
  /\ id' = [id EXCEPT ![i] = lastId + 1]
  /\ UNCHANGED <<reader, late, offset, pollVars, local, lost, faults, archivalVars>>

\* Mutant: no unique hash in the table.
MutNoConflict(i) ==
  /\ insert[i] = "pending"
  /\ insert' = [insert EXCEPT ![i] = "stored"]
  /\ late' = IF \E j \in Rows : id[j] > id[i] THEN late \cup {i} ELSE late
  /\ UNCHANGED <<reader, id, lastId, offset, pollVars, local, lost, faults, archivalVars>>

Commit(i) ==
  /\ insert[i] = "pending"
  /\ \/ /\ \E j \in Rows : BlockOf[j] = BlockOf[i]
        /\ insert' = [insert EXCEPT ![i] = "duplicate"]
        /\ UNCHANGED late
     \/ /\ \A j \in Rows : BlockOf[j] # BlockOf[i]
        /\ insert' = [insert EXCEPT ![i] = "stored"]
        /\ late' = IF \E j \in Rows : id[j] > id[i] THEN late \cup {i} ELSE late
  /\ UNCHANGED <<reader, id, lastId, offset, pollVars, local, lost, faults, archivalVars>>

\* The INSERT fails or its connection is lost.
InsertFails(i) ==
  /\ insert[i] = "pending"
  /\ Fault
  /\ insert' = [insert EXCEPT ![i] = "failed"]
  /\ UNCHANGED <<reader, id, lastId, late, offset, pollVars, local, lost, archivalVars>>

-----------------------------------------------------------------------------
(* pollRemoteQueue for one endpoint.  Nothing in the program calls it, and  *)
(* its query compares the BOOLEAN column state with 1, which Postgres       *)
(* refuses: a poll that goes on stands for a caller and a table whose state *)
(* is a number.  What follows says what a poll does to the two queues and   *)
(* the offset then, never that there is one.                                *)

\* The query is refused, or the endpoint with its offset is read.
StartPoll ==
  /\ reader = "client"
  /\ poll = "idle"
  /\ poll' \in {"idle", "ask"}
  /\ UNCHANGED <<reader, serverVars, offset, requests, page, upTo, local, lost, faults, archivalVars>>

\* readItems over HTTP and readWithLastOffset on the server: a page of rows.
ReadItems ==
  /\ poll = "ask"
  /\ RowsAfter(offset) # {}
  /\ \E p \in SUBSET Inserts, n \in 1..lastId :
       /\ IsPage(p, offset)
       /\ IsLastOf(n, p)
       /\ page' = p
       /\ upTo' = n
  /\ poll' = "accept"
  /\ UNCHANGED <<reader, serverVars, offset, requests, local, lost, faults, archivalVars>>

\* An empty reply ends the poll; its lastOffset is not looked at.
ReadNothing ==
  /\ poll = "ask"
  /\ RowsAfter(offset) = {}
  /\ poll' = "idle"
  /\ requests' = 0
  /\ UNCHANGED <<reader, serverVars, offset, page, upTo, local, lost, faults, archivalVars>>

IsNext(i) == i \in page /\ \A j \in page : id[i] <= id[j]

\* consumer.accept of the next item: the client's own queue takes each block
\* once, by its hash.
AcceptItem(i) ==
  /\ poll = "accept"
  /\ IsNext(i)
  /\ local' = [local EXCEPT ![BlockOf[i]] = 1]
  /\ page' = page \ {i}
  /\ UNCHANGED <<reader, serverVars, offset, poll, requests, upTo, lost, faults, archivalVars>>

\* consumer.accept throws: the item is logged and passed over.
AcceptThrows(i) ==
  /\ poll = "accept"
  /\ IsNext(i)
  /\ Fault
  /\ lost' = lost \cup {i}
  /\ page' = page \ {i}
  /\ UNCHANGED <<reader, serverVars, offset, poll, requests, upTo, local, archivalVars>>

\* Mutant: one request too many.
MutOffByOne ==
  /\ poll = "accept"
  /\ page = {}
  /\ offset' = upTo
  /\ upTo' = 0
  /\ \/ requests < MaxRequests /\ poll' = "ask" /\ requests' = requests + 1
     \/ requests = MaxRequests /\ poll' = "idle" /\ requests' = 0
  /\ UNCHANGED <<reader, serverVars, page, local, lost, faults, archivalVars>>

\* Mutant: the offset is stored before the page is accepted.
MutSaveEarly ==
  /\ poll = "accept"
  /\ offset' = upTo
  /\ upTo' = 0
  /\ \/ requests + 1 < MaxRequests /\ poll' = "ask" /\ requests' = requests + 1
     \/ requests + 1 = MaxRequests /\ poll' = "idle" /\ requests' = 0
  /\ UNCHANGED <<reader, serverVars, page, local, lost, faults, archivalVars>>

\* UPDATE dset_client SET target_offset: the whole page has been passed.
SaveOffset ==
  /\ poll = "accept"
  /\ page = {}
  /\ offset' = upTo
  /\ upTo' = 0
  /\ \/ requests + 1 < MaxRequests /\ poll' = "ask" /\ requests' = requests + 1
     \/ requests + 1 = MaxRequests /\ poll' = "idle" /\ requests' = 0
  /\ UNCHANGED <<reader, serverVars, page, local, lost, faults, archivalVars>>

\* The request fails, the UPDATE throws or the client's node crashes: what is
\* in memory is gone, what has been accepted stays.
PollBreaksOff ==
  /\ poll # "idle"
  /\ Fault
  /\ poll' = "idle"
  /\ requests' = 0
  /\ page' = {}
  /\ upTo' = 0
  /\ UNCHANGED <<reader, serverVars, offset, local, lost, archivalVars>>

\* The client's node attests the block too and publishes it for itself.
PublishFinalizedBlock(b) ==
  /\ reader = "client"
  /\ local[b] = 0
  /\ local' = [local EXCEPT ![b] = 1]
  /\ UNCHANGED <<reader, serverVars, offset, pollVars, lost, faults, archivalVars>>

-----------------------------------------------------------------------------
(* push_readBlockQueue: an archival node asks from its cursor and goes on  *)
(* from the lastOffset of the reply.                                       *)

\* Mutant: rows are handed out when they fill a page.
MutFullPages ==
  /\ reader = "archival"
  /\ ~seeking
  /\ \/ /\ RowsAfter(cursor) = {}
        /\ seeking' = TRUE
        /\ UNCHANGED <<cursor, given>>
     \/ /\ \E p \in SUBSET Inserts, n \in 1..lastId :
             /\ IsPage(p, cursor)
             /\ Cardinality(p) = PageSize
             /\ IsLastOf(n, p)
             /\ cursor' = n
             /\ given' = given \cup p
        /\ UNCHANGED seeking
  /\ UNCHANGED <<reader, serverVars, offset, pollVars, local, lost, faults>>

\* The first query of readWithLastOffset.
ReadBlockQueue ==
  /\ reader = "archival"
  /\ ~seeking
  /\ \/ /\ RowsAfter(cursor) = {}
        /\ seeking' = TRUE
        /\ UNCHANGED <<cursor, given>>
     \/ /\ RowsAfter(cursor) # {}
        /\ \E p \in SUBSET Inserts, n \in 1..lastId :
             /\ IsPage(p, cursor)
             /\ IsLastOf(n, p)
             /\ cursor' = n
             /\ given' = given \cup p
        /\ UNCHANGED seeking
  /\ UNCHANGED <<reader, serverVars, offset, pollVars, local, lost, faults>>

\* Mutant: lastOffset is the next id itself.
MutSkipFirstRow ==
  /\ seeking
  /\ seeking' = FALSE
  /\ \/ RowsAfter(cursor) = {} /\ UNCHANGED cursor
     \/ \E i \in RowsAfter(cursor) :
          /\ \A j \in RowsAfter(cursor) : id[i] <= id[j]
          /\ cursor' = id[i]
  /\ UNCHANGED <<reader, serverVars, offset, pollVars, local, lost, faults, given>>

\* The second query: rows may have committed since.  lastOffset becomes the
\* id before the next row, or stays.
GetFirstRowIdAfter ==
  /\ seeking
  /\ seeking' = FALSE
  /\ \/ RowsAfter(cursor) = {} /\ UNCHANGED cursor
     \/ \E i \in RowsAfter(cursor) :
          /\ \A j \in RowsAfter(cursor) : id[i] <= id[j]
          /\ cursor' = id[i] - 1
  /\ UNCHANGED <<reader, serverVars, offset, pollVars, local, lost, faults, given>>

ServerStep(i) == StartInsert(i) \/ Commit(i) \/ InsertFails(i)

PollStep ==
  \/ StartPoll \/ ReadItems \/ ReadNothing \/ SaveOffset
  \/ \E i \in Inserts : AcceptItem(i) \/ AcceptThrows(i)

ArchivalStep == ReadBlockQueue \/ GetFirstRowIdAfter

Next ==
  \/ \E i \in Inserts : ServerStep(i)
  \/ PollStep
  \/ PollBreaksOff
  \/ \E b \in Blocks : PublishFinalizedBlock(b)
  \/ ArchivalStep

Spec == Init /\ [][Next]_vars

(* Archival nodes ask again and again; a started INSERT ends.  Nobody has   *)
(* to start an INSERT or a poll, and nothing has to fail.                   *)
Fairness ==
  /\ WF_vars(ArchivalStep)
  /\ \A i \in Inserts : WF_vars(Commit(i) \/ InsertFails(i))

FairSpec == Spec /\ Fairness

-----------------------------------------------------------------------------
\* Types of the variables; offsets are ids the sequence has given.
TypeOK ==
  /\ insert \in [Inserts -> InsertState]
  /\ lastId \in Nat
  /\ id \in [Inserts -> 0..lastId]
  /\ late \in SUBSET Inserts
  /\ reader \in {"client", "archival"}
  /\ offset \in 0..lastId
  /\ poll \in PollState
  /\ requests \in 0..(MaxRequests - 1)
  /\ page \in SUBSET Inserts
  /\ upTo \in 0..lastId
  /\ local \in [Blocks -> Nat]
  /\ lost \in SUBSET Inserts
  /\ faults \in 0..MaxFaults
  /\ cursor \in 0..lastId
  /\ seeking \in BOOLEAN
  /\ given \in SUBSET Inserts

(* The stored offset is a promise that all rows up to it are in the        *)
(* client's queue, through crashes between accept and UPDATE.  The rows it *)
(* does not hold for are named exactly: those that committed after a row   *)
(* with a higher id, and those whose accept threw.                         *)
OffsetCovers ==
  \A i \in Rows \ (late \cup lost) :
    id[i] <= offset => local[BlockOf[i]] > 0

(* An archival node that follows lastOffset is given every row it passes,  *)
(* though rows commit between the two queries of readWithLastOffset,       *)
(* except for those that committed after a row with a higher id.           *)
CursorCovers == \A i \in Rows \ late : id[i] <= cursor => i \in given

(* Either reader gets what BlockFeed promises, though the table hands out  *)
(* ids before it shows rows, pages are cut and polls break off: a block    *)
(* keeps its one row and id, an offset only moves forward, never past the  *)
(* last row; an archival node is given what it passes, once; the client    *)
(* passes a row only with its block at hand, skipped, or late.             *)
Entries == {<<id[i], BlockOf[i]>> : i \in Rows}

LateBlocks == {BlockOf[i] : i \in late}

Mark == IF reader = "client" THEN offset ELSE cursor

Had == IF reader = "client" THEN {b \in Blocks : local[b] > 0} ELSE {BlockOf[i] : i \in given}

Skipped == {BlockOf[i] : i \in lost}

Feed == INSTANCE BlockFeed WITH
          queue <- Entries, late <- LateBlocks, mark <- Mark, had <- Had, skipped <- Skipped

ImplementsFeed == Feed!Spec

(* An archival node gets past every row that is stored, whatever gaps the  *)
(* ids have and whenever rows commit between its two queries, though late  *)
(* rows may be missing from what it was given.                             *)
ArchivalCatchesUp ==
  \A i \in Inserts :
    insert[i] = "stored" /\ reader = "archival" ~> id[i] <= cursor
=============================================================================
