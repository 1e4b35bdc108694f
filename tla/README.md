# A formal model of the Push validator node (push-vnode)

TLA+ modules, TLC instances and TLAPS proofs about the validator node of the
Push network, the TypeScript program under `src/src`. Paths below are relative
to the repository; `V` stands for
`src/src/services/messaging/validatorNode.ts`.

A validator takes transactions from clients, collects them into blocks, has
each block signed by a random committee of other validators in two rounds, and
hands the signed block to storage nodes and to a queue that archival nodes
read. It also answers reads by asking several storage and archival nodes and
merging their replies.

## 1. Inventory

For each part: the state it keeps, its operations, what it talks to, what is
hard about it, and what makes it correct.

### Mempool and block assembly (`V:80-356`)
- State: `currentBlockTxs`, `totalTransactionBytes` (fields of
  `ValidatorNode`, memory only).
- Operations: `sendTransaction` (limits, `await checkTx`, push),
  `tryScheduleBlock` (a timer of 300 ms), `batchProcessBlock`.
- Hard: calls wait side by side in `checkTx`; the timer does not wait for the
  `batchProcessBlock` it started before; a crash forgets everything.
- Correct when: each accepted transaction is in one block, in order; nothing
  beyond the limits is published; blocks end.

### Attestation (`V:212-356, 374-440, 552-749`, `blockUtil.ts`, `validatorClient.ts`)
- State: the running `batchProcessBlock`, the block in the Redis of each
  attestor, timers of delayed deliveries.
- Operations: round 1 (`push_attestBlock`), round 2
  (`push_attestSignatures`), the check of the finalized block, publishing at
  once by the proposer and 20-60 s later by each attestor.
- Hard: calls are sent once and may be lost, late, or carried out after the
  caller gave up; each node sees the contract at its own pace; the cached block
  expires; nodes crash between the rounds.
- Correct when: all copies of a block that are published are the same and
  validly signed, nobody publishes before all have signed, a published block is
  backed up, every block ends.

### Signatures and bytes of a block (`blockUtil.ts`, `block_pb.js`, `ethUtil.ts`, `pushSdkUtil.ts`)
- State: none of its own: the blocks and messages of the rounds, as bytes.
- Operations: write and read each message; sign and check a transaction, a
  block, a patch, a final block.
- Hard: no signature covers the block that is published; each verifier takes
  apart what it holds and writes the signed bytes anew, and every attestor puts
  the final block together by itself.
- Correct when: each signature is verified over the bytes it was made over, and
  all copies of a block are the same bytes.

### Random values and validation vectors (`validatorRandom.ts`)
- State: the random of each node, in memory and in Redis.
- Operations: publish own random, read and filter those of the others, draw a
  vector, draw it again on the attestors.
- Hard: the filter uses the node's own view of the contract; draws fail; a draw
  from one node; the loop that draws.
- Correct when: a vector is a duplicate-free list of registered nodes without
  the proposer, and both sides draw the same one.

### Contract state (`validatorContractState.ts`, `storageContractState.ts`)
- State: validators, storage nodes, archival nodes, `valPerBlock`,
  `nodeRandomMinCount`; the map from shards to storage nodes.
- Operations: load everything, subscribe to events, apply events, reload the
  shard map.
- Hard: events between load and subscription; reloads that overlap; a second
  load that replaces the first.
- Correct when: once events stop, the node agrees with the contract.

### Message-block queue (`messaging-dset/*`, `QueueManager.ts`, `dbLoader.ts`)
- State: the Postgres table `dset_queue_mblock`; the client's table
  `dset_client` with an offset for each endpoint; the offset each archival node
  keeps.
- Operations: `accept` (insert once per hash), `readWithLastOffset`,
  `pollRemoteQueue`.
- Hard: ids are drawn when an insert starts and seen when it commits; two
  queries make one reply; the client stores its offset after the page.
- Correct when: a block is queued once, an offset covers what is below it, and
  a reader that keeps asking catches up.

### Delivery (`V:374-551`, `storageClient.ts`, `archivalClient.ts`)
- State: none but retry timers.
- Operations: per shard of the block, offer the hash, then the block; retry
  later; insert into the queue.
- Hard: partial success, retries with another view of the contract, a shard
  without nodes.
- Correct when: each storage node of a shard of the block is sent the block,
  and not twice unless it said that it needs it.

### Reads with a quorum (`V:844-1032`, `ReplyMerger.ts`)
- State: none.
- Operations: `accountInfo`, `getTransactions`.
- Hard: which nodes to ask when some are disabled; what threshold; replies that
  differ.
- Correct when: an item in a reply is held by a quorum, nothing that a quorum
  must have met is missed, and a read does not go back behind an earlier one.

### WebSocket links to archival nodes (`DiscoverService.ts`, `WebSocketManager.ts`, `WebSocketClient.ts`)
- State: the archive nodes that answered a health check; a socket for each
  connected node, its last pong and its reconnect attempts; whether server and
  client run.
- Operations: discover, refresh, handshake, reconnect after a delay, look for
  another node, monitor every 30 s, start and shut down.
- Hard: handshakes, delays, close events and the monitor overlap; a node may
  have several sockets, the tables have one entry; events of discovery arrive
  while earlier ones are still handled.
- Correct when: the table of connections names live ones, the client runs when
  discovery counts enough nodes, and lost connections come back.

### WebSocket block events (`BlockStatusManager.ts`, `WebSocketServer.ts`)
- State: the nodes that confirmed each block; clients, their handshakes,
  subscriptions and timers.
- Operations: count confirmations, clean up, broadcast, subscribe, unsubscribe,
  connect and disconnect.
- Hard: late and repeated confirmations; the handshake timeout, the close of a
  socket and the deletion of its client race the client's messages.
- Correct when: a broadcast rests on enough confirmations of its own; each
  subscription gets exactly the transactions it asked for; clients that are gone
  are forgotten.

### The rest
Validator ping (`validatorPing.ts`), the rate limiter, start-up and HTTP/RPC
routes (`app.ts`, `api/routes`), an older block format and loader without
callers, utilities. `PROJECT.json` lists each with the reason why it is not
modelled.

### How the parts interact
`push_sendTransaction` -> `sendTransaction` -> mempool -> timer ->
`batchProcessBlock` -> calls of `attestBlock` and `attestSignatures` on the
committee (JSON-RPC over HTTP with a timeout) -> `publishFinalizedBlock` on the
proposer at once and on every attestor by a timer -> storage nodes (HTTP) and
`QueueServer.accept` (Postgres) -> `push_readBlockQueue` by archival nodes, and
`pollRemoteQueue` from other nodes. Archival nodes that have stored a block say
so over the WebSocket links -> `BlockStatusManager` -> subscribed clients.
Contract events change the tables all of these look nodes up in.

## 2. Modules

| Module | Models | Kind |
|---|---|---|
| `BlockAssembly` | mempool, timer, life of the blocks of one validator | component |
| `BlockCertificate` | what attestation promises for one block | abstract specification |
| `ValidationVector` | the draw of an attest vector from random values | operators |
| `Attestation` | the two rounds, caches, delayed deliveries, views of the contract | component, implements `BlockCertificate` |
| `BlockFeed` | what the queue promises to a reader | abstract specification |
| `BlockQueue` | the queue table, the polling client, archival readers | component, implements `BlockFeed` |
| `ReadQuorum` | `accountInfo`, `getTransactions`, `ReplyMerger`, the nodes they ask | component |
| `ContractView` | both contracts and what a node reads and hears of them | component |
| `BlockDelivery` | `publishFinalizedBlock` and its retries | component, composed with `ContractView` |
| `ArchiveDiscovery` | health checks of archival nodes and their events | component |
| `ArchiveLinks` | manager and client of the WebSocket links | component, composed with `ArchiveDiscovery` |
| `BlockEvents` | confirmations, subscriptions, broadcasts | component |
| `WireFormat` | the messages of `block_pb.js` as they are written and read | operators |
| `BlockSignatures` | every signature of a block, over `WireFormat` | component |
| `MC*` | the instances TLC checks | |
| `*_proofs` | theorems and TLAPS proofs | |

### BlockAssembly
An action is the code between two awaits that touch shared state: Node.js
switches nowhere else. `call` is how far each `sendTransaction` is;
`currentBlockTxs` and `totalTransactionBytes` are the fields; `blocks` holds one
record for each batch that left the mempool, that is each running or ended
`batchProcessBlock`. `BatchProcessBlock` empties the mempool, resets the
watermark and appends the block in one step, as `V:212-238` does without an
await between. A draw of the attest token that throws leaves the block
"dropped", with its transactions in no other place. `Crash` clears what is
memory. The exchange with the attestors is one step per round here; the next
module opens it up.

### Attestation and BlockCertificate
One block: blocks share nothing but the views of the contract. `seen[n]` is the
state of the contract that node `n` has read last, an index into `Configs`;
`ContractEvent` moves it, for each node by itself. `reply` is what the proposer
knows of the calls of the round, `attest` and `accept` are the handlers on the
attestors: a call may fail at the proposer while its handler still runs later.
`cache` is the block in Redis, first without and then with an expiry time
(`V:617-641` uses two commands). `DrawnVectors` is the set of results of
`createValidationVector` over all random values, with its failures and its
special case of one node. `timer` and `copy` are the delayed deliveries and what
each node handed to `publishFinalizedBlock`.

`ValidationVector` has the draw itself: `Turn` is one pass of the loop of
`calculateValidationVector`, in which a byte of the hash picks one of the nodes
that are left, and `PossibleVectors` is the set the state machine draws from.
The bytes of the hash are arbitrary, and the nodes a list without repetition, as
the sorted ids are.

`BlockCertificate` says what all this is for: nodes sign, once all of a list
have signed the list becomes the certificate, and nodes of the certificate
deliver the block with it. The refinement maps its signatures to the handlers
that ended with "signed" (and the proposer), its certificate to the
attestations of round 2 with the proposer in front, and its deliveries to
`copy`. An attestor puts its block together when it handles round 2 (`Assemble`)
and its timer holds that block until it delivers it. That all of them come to
the same bytes is a matter of `BlockSignatures`, where each works on its own.

Signatures are taken as unforgeable and hashes as free of collisions; nodes run
this program.

### BlockQueue
`insert[i]` and `id[i]` are an `INSERT` and the id it drew. Ids come from a
sequence when the insert starts, and are used up also by inserts that fail or
find the hash present; the commit comes later, so that rows appear out of order
and ids have gaps. `Connections` is the size of the pool (`dbLoader.ts:37`). A
page is described by what the query returns (`IsPage`), not by how.
`poll`, `requests`, `page`, `upTo` are the local state of `pollRemoteQueue`;
`offset` is `target_offset` in the table. A poll that breaks off loses the local
state and keeps what was accepted. The archival reader is external: it is taken
to ask from its cursor and to continue from the `lastOffset` of the reply, as
`push_readBlockQueue` is made for. The two queries of `readWithLastOffset` are
two steps (`ReadBlockQueue`, `GetFirstRowIdAfter`) when the first one finds no
rows. `late` and `lost` are history: they name the rows that committed behind a
higher id, and the rows whose `accept` threw. A behaviour follows one of the two
readers (`reader`), since neither reads what the other writes.

`BlockFeed` is what a reader may rely on: entries that stay where they are, one
for a block, and a mark that passes no entry whose block the reader neither has
nor skipped, but for those that came late. Its mark is `target_offset` for the
client and the cursor for the archival node. A page and the two queries behind
an empty one do not appear in it: the refinement shows that a mark moved to the
highest id of a page passes nothing that was not on the page, and that one moved
by an empty reply passes late entries at most.

`pollRemoteQueue` has no caller in this repository, and its query compares a
BOOLEAN column with 1 (`dbLoader.ts:52`), which Postgres refuses. `StartPoll`
may therefore come to nothing, and nothing makes it happen: the poll is
modelled for what its loop does to the two queues and the offset if there is a
caller and a table whose state is a number. The archival reader is the one the
program serves, and the only one that is said to catch up.

### ReadQuorum
A read is two pieces of code with one await between them, so it is two actions
(`AccountInfo`, `MergeAccountInfo` and `GetTransactions`, `MergeTransactions`)
and the answers that arrive in between. `held` is external: which version of
each key each node has by now; replies with the same hash are replies of the
same version, and a node that gets further versions keeps the latest. `pool` is
the set the threshold is computed from, `asked` those that are sent the request,
`good` those that answered with 200. The sort in `StringCounter` leaves ties in
the order of the replies; the model lets either win (`IsItems`).
`AccountThreshold` and `TransactionsThreshold` are the expressions of the code in
integers. An exception is a reply with the summary "threw": `accountInfo` throws
when it skipped a node (it walks over all nodes and misses a reply), and
`getTransactions` when it computes a negative number of storage nodes to ask.
`widely` and `previous` are history: the keys so many nodes had at the start
that every quorum has one of these nodes, and the reply of the read before.

### ContractView and BlockDelivery
`chain` is the two contracts, `view`, `valPerBlock`, `nodeShardMap` and
`shardToNodes` what the node holds of them. Loading is a step per answer
(`LoadConstants`, `GetNodes`, `GetNodeInfo`; `GetNodeShards` and `SetNodeShards`
are the two ends of one call), so that the contracts may change between any two
of them. An event is put on its way only if its kind is subscribed to by then;
each kind is polled for by itself, so that events of one kind keep their order
and those of two kinds do not. `lost` and `overlapped` are history: what was
changed after it was read and before it was subscribed to, a status that
overtook its node, and whether two reloads of the shard map ran at a time.
`startServer` connects the validator contract a second time before the node
serves a call, and the first client is left out of the model, as it is of the
program.

`BlockDelivery` adds `publishFinalizedBlock`: `sends[n]` is how far the sending
to node `n` is, with the retries it has left. `PublishFinalizedBlock` looks the
nodes up, a retry looks its node up again, in the view of that time.
`publication` becomes "failed" when a shard has no nodes at all, because the
code iterates over `undefined` then (`V:381`). A reply to `push_putBlock` is
taken as success whatever it says (`V:482`).

### ArchiveDiscovery and ArchiveLinks
A task of the client is a record in `links`: a handshake, then the open or
closing socket, then the delay before a reconnect. `archiveConnections`,
`reconnectAttempts` and `sincePong` are the tables by node id, each with room
for one socket of a node, while there may be more. The loop of
`initializeConnections` goes on inside `AuthSuccess`, with the nodes it has not
tried as `rest`. Discovery waits for no handler: an event is taken at once,
also while handlers of earlier ones still run. Those of `minimumNodesConnected`
that await the client's start are tasks by "postConstruct" (`Starting`), and
`manager` says how far that of `minimumNodesLost` has come. `overlap` is
history: whether an event was ever handled beside another one, and whether the
last one was. Two starts of the client set `reconnectTimer` one after the
other, and the first timer runs on; `timers` counts them. A handshake fails
when the node is down, and also, as a fault, when it can be reached (a timeout,
a failed authentication). A refresh makes copies of the node records whose
status no longer follows the contract (`DiscoverService.ts:233`):
`archiveNodes` says which kind each is.

Time is counted in intervals of the monitor. `IntervalPasses` waits for what
must end earlier (`MayOutlast`): a handshake ends within 65 s, a delay and a
closing handshake within 30 s.

Facts the model shows, and which no text of the repository speaks against: two
overlapping handshakes with one node leave a socket that no table knows; after a
reconnect that failed in `handleDisconnect` there is no other, and the monitor
has to find the node; a `postConstruct` of the client that fails is not tried
again before discovery has lost its nodes and found them (`WebSocketManager.ts:95`).

### BlockEvents
`confirmations`, `clients` and their fields are the maps of the code; `sent`
holds the updates of the last step only, which is what `UpdatesAreExact` needs.
`reportedBy`, `reports`, `broadcasts`, `thrown` and `forgotten` are history. A
broadcast throws on block data without transactions as soon as a client with a
subscription is reached: then nothing is sent, and the entry stays, because the
line that deletes it comes after (`BlockStatusManager.ts:55-56`). Nobody awaits
the promise that is rejected then, which ends a Node.js process of this
version; `Restart` is that, or any other end of the process. A client is one
connection, since a client that connects again gets a new id. Cleanups come
every 15 minutes and drop entries older than 30: the third cleanup an entry
sees. A block that twice as many nodes report as are needed is broadcast twice:
the entry is deleted with the first broadcast. `BroadcastsAreConfirmed` says
that each of the two has reports of its own.

### WireFormat and BlockSignatures
A message is a record, its bytes are a sequence of pairs of a field number and a
value. Writers leave out defaults and have an order of their own; readers take
any order, skip unknown fields and keep the last of a repeated scalar: this is
all that tells bytes of one message apart. A submessage that is not set is
`Null`, a record no message equals; bytes that are not there yet are `NoBytes`,
which are also the bytes of a message without fields. A signature is its signer
and the bytes it was made over; recovering it with other bytes gives `Stranger`.
`BlockSignatures` follows a transaction from `sendTransaction` over
`SignBlockAsValidator`, `AttestBlock`, `SendPatches` and `AttestSignatures` to
the copies the proposer and the attestors publish, with every message written
and read where the code does so. The checks keep the shape of the code: they ask
for registered signers, and `SignaturesVerify` asks for the right ones.
Failures of the calls are one action here (`DropBlock`); `Attestation` has them
in full. A call that throws at an honest node is kept in `refused`.

`sendTransaction` keeps the transaction it has read and returns the hash of the
bytes it was sent (`V:166`): a client that writes its fields in another order
has a hash that does not occur in the block. An attestor never votes REJECTED:
`checkBlockAsAttestor` has failed the whole block before.

## 3. Runs

| Run | Instance | Result |
|---|---|---|
| `block_assembly` | 4 calls, one of them with a transaction of three times the size; at most 3 transactions, 4 bytes; 1 crash | all properties hold |
| `attestation` | 3 validators; 3 states of the contract: two signers, a third joins, three signers are needed and one is banned; 2 crashes | all properties hold |
| `signatures` | 2 attestors, 2 overlapping blocks of up to 2 transactions, 5 forms of requests | all properties hold |
| `contract_delivery` | 2 storage nodes and an archival node, a shard that both, one or none of them keep, 2 changes of the contracts, 2 retries, calls to one storage node may fail | all properties hold |
| `block_queue` | 4 inserts of 3 blocks, 2 connections, pages of 2, polls of 2 requests, 1 failure | all properties hold |
| `read_quorum` | 3 storage and 2 archival nodes, 2 versions of the account, 1 of the transaction; 2 reads, 2 changes of status | all properties hold |
| `archive_links` | 2 archival nodes of which 1 is enough, 2 tasks, 1 failure, ban or failed handshake, 1 reconnect attempt | all properties hold |
| `block_events` | 3 archival nodes of which 2 must confirm, 4 reports of a block of 3 transactions; a client with up to 2 subscriptions from 6 lists of filters | all properties hold |
| `full_block` | at most 2 transactions, no crash | violated |
| `payload_checks` | the instance of `signatures` with two more requests | violated |
| `links_flap`, `normal_close` | the instance of `archive_links` | violated |

What the passing runs check:

- `block_assembly`: `ExactlyOnceInOrder` (blocks and mempool cut the accepted
  transactions into consecutive pieces), `PublishedWithinLimits`,
  `BlocksAreFinal`, `AcceptedTxSettles`.
- `attestation`: `CopiesWereValid` (each copy was valid at some
  time known to its publisher), `PublishedIsBackedUp`, `ImplementsCertificate`,
  `BlockSettles`. The assumption `DrawsArePossibleVectors` of `MCAttestation`
  compares the loop with `PossibleVectors` for up to three nodes: over all bytes
  that make a difference it gives each of these vectors and no other.
- `signatures`: `CopiesAreIdentical` (to the byte, as the hash sent in round 2
  says), `SignaturesVerify` (at each position the signature of the node the
  vector names there), `NothingRefused` (what one honest node makes, every other
  accepts); `TypeOK` includes that each message that is sent reads back as the
  same bytes.
- `contract_delivery`: `ViewFollowsContract` (when all is quiet, with the
  exceptions named exactly), `ShardsAreServed` (a storage node the contracts left
  alone gets the block unless it rejected it or every call failed, whatever
  happens to the others), `PublicationEnds`.
- `block_queue`: `ImplementsFeed` (one entry for a block, marks move forward,
  never beyond the last entry, and over nothing that was not dealt with),
  `OffsetCovers`, `CursorCovers` (what an offset promises, with the exceptions
  named exactly), `ArchivalCatchesUp` (an archival node that keeps asking gets
  past every stored row).
- `read_quorum`: `ItemsAreSupported` (a returned item is what a quorum has, or
  had on its way to a later version), `NothingIsMissed`, `ReadsAreMonotone`
  (where the threshold is a majority; `Math.round(0.51 * n)` is none for two and
  for four nodes).
- `archive_links`: `ConnectionsAreOpen`, `ManagerFollowsDiscovery` (an event that
  is handled alone leaves server and client as discovery asks, whatever
  overlapping handlers left behind before), `RestoresConnections` (again and again enough connections, once every node can
  be reached).
- `block_events`: `BroadcastsAreConfirmed` (with cleanups, restarts and
  broadcasts that throw), `UpdatesAreExact` (against
  `FilterKeys` and `TxKeys`, a reference for the matching), `ClientsAreForgotten`.

What the violated properties show, each quoted from a comment or a message of
the program:

- `FullBlockIsAttestable`: `sendTransaction` fills a block to
  `MAX_TRANSACTIONS_PER_BLOCK`, attestors refuse a block of that many
  (`blockUtil.ts:469`).
- `PayloadsAreChecked`: `checkTxPayload` drops the errors it finds and succeeds
  always (`blockUtil.ts:345-363`).
- `KeepsConnections`: the time of the last pong is kept by node and not by
  socket, so that a connection made after a longer gap is closed by the next
  monitor before its first ping, for ever (`WebSocketClient.ts:437`).
- `NormalCloseIsFinal`: the `close` event passes a number, `event.code` is
  undefined, and the sockets `shutdown` closes with 1000 are reconnected
  (`WebSocketClient.ts:254`).

### Divergences that no run checks
Met while modelling; the models behave as the code does, and the properties are
stated so that they hold with them.

- A draw from a single node does not skip the proposer
  (`validatorRandom.ts:333`, against the comments at 302 and 306): alone in its
  token it attests its own block. `PossibleVectors` has the case.
- `attestSignatures` looks signers up among the registered nodes, which banned
  nodes still are (`V:737`, against the comment at 735).
- A failure between SET and EXPIRE leaves a block in Redis for ever (`V:625`,
  against `blockUtil.ts:47-48`).
- One attestor that does not answer drops the block, though most have signed
  (`V:268`, against `README.md:61` of the repository).
- A row that commits behind the offset of a reader is never read
  (`queueServer.ts:109`, against line 2 of `queueClient.ts`).
- The check of a patch's signer in round 1 is not awaited (`V:282`, against the
  comment at 280): the proposer takes a stranger's signature, and `Check.isTrue`
  is asked about a promise. Among nodes that run this program there is none.
- A handler that runs beside an earlier one may leave the flags against what
  discovery has found, until the next event that is handled alone: nodes that
  are back while the handler of their loss still awaits the server's shutdown
  end with the server down (`WebSocketManager.ts:86-129`). Two overlapping starts of
  the client leave a monitor that no shutdown stops (`WebSocketClient.ts:374`).
- With disabled archival nodes `getTransactions` asks fewer nodes than have to
  agree, and fails whatever they answer (`V:971`, against line 57).

### Bounds
`MaxCrashes` and `MaxFaults` bound failures; all other sets are small but every
case occurs in them.

- Four calls and at most three transactions give a full mempool, a mempool grown
  beyond its limits by calls that waited together, two overlapping blocks and a
  batch of one.
- Three validators and three states of the contract give nodes that are behind
  and ahead of each other across a change of the number of signers and a ban;
  two crashes let the proposer and an attestor crash.
- Two attestors make the order of patches matter, two transactions the
  assignment of votes to them, two blocks the lookup in the cache. The requests
  are a custom transaction as its client signed it, with its fields in another
  order, with an unknown field added after and before it was signed, and an
  INIT_DID transaction with a wallet.
- Two changes of the contracts are one before and one after any point of a load
  or a reload, and let two reloads overlap. A node is flaky or not: the others
  answer, so that a failing node next to a serving one is what
  `ShardsAreServed` is about.
- Four inserts of three blocks give a duplicate, a late row, a gap from a failed
  insert, a full page and a rest.
- Three storage and two archival nodes give thresholds of two and three with
  nodes to spare, ties, versions that overtake each other and, with two of them
  disabled, the calculation that goes wrong; two reads are what monotonicity is
  about.
- Two archival nodes of which one is enough let a reconnect, a restore by the
  monitor and an alternative node meet, and two starts of the client overlap.
  `MaxLinks` bounds the tasks at a time: a step that would open a third socket
  waits for a task to end. There is one handler of `minimumNodesLost` at a time:
  if a shutdown takes longer than the refreshes that lead to the next one, the
  next one waits for it.
- Four reports by three nodes of which two are needed give a report repeated
  before and after the threshold, and two broadcasts. One client is enough:
  connections share nothing but the broadcast.

Nodes of a kind are symmetric.

### Fairness
Code that is running goes on; the timer of `tryScheduleBlock` keeps firing;
calls have a timeout (`jsonRpcClient.ts`), so that a waiting caller gets an
answer or an error; timers fire; Redis drops what has expired; an insert that
was started ends; archival nodes keep asking, but no poll has to start; the
contract client keeps polling for events; a socket that is closing is closed at
last and a dead TCP connection is noticed. No request has to arrive, no
contract event has to come, nothing has to fail or to recover, no client has to
send.

## 4. Proofs

Each `*_proofs` module holds for every value of the constants that satisfies the
named assumptions of its component (`ConstantsAssumption`,
`AttestationAssumption`, `QueueAssumption`, `ReadAssumption`, `ViewAssumption`
and `DeliveryAssumption`, those of `ArchiveDiscovery` and `ArchiveLinks`,
`EventsAssumption`, `BlockSignaturesAssumption`).

- BlockAssembly: `TypeCorrect`, `ExactlyOnce`, `LimitsOfPublished`,
  `FinalBlocks`. The invariant that is inductive says which piece of the
  accepted transactions each block holds: every step appends to the last piece,
  closes it, or changes no piece. After a crash the wiped mempool is one more
  piece. A published block passed the attestors' check, recorded by its state.
- Attestation: `TypeCorrect`, `Validity`, `Backup` and `Implementation`, the refinement. The inductive invariant ties together the
  round, the calls and the handlers: no patches are sent before every attestor
  of the vector signed, handlers of round 2 run only when they have been sent,
  a scheduled or finished delivery was checked against a state of the contract
  its node had read, and every scheduled or published block is the
  proposer followed by the patches.
  `DrawsAreVectors` is about the loop of the draw: for any number of nodes and
  any hash its result is in `PossibleVectors`, and it throws only when that set
  is empty. Each turn takes a node or drops the skipped one (`DrawInv`), so that
  64 bytes are enough for the 50 nodes a vector may have; the recursive function
  is unfolded and followed by an induction over sets of numbers (`AllNumbers`).
- BlockQueue: `TypeCorrect`, `OffsetIsAPromise`, `CursorIsAPromise` and
  `Implementation`, the refinement of `BlockFeed`. One row for a block is part
  of the inductive invariant (`OneRowPerBlock`). The key fact is `Marks`: an offset never passes the
  highest id that is stored. A row that commits at or below an offset therefore
  has a higher row beside it and is late by definition. `PageCovers` carries
  the promise of the offset through a page that is half accepted, and for the
  refinement `FeedInv` adds that a page lies ahead of the offset.
- ReadQuorum: `TypeCorrect`, `QuorumHasItems`, `Completeness`, `Monotonicity`.
  For each promise the invariant keeps a set of nodes (those that gave an item,
  those that had a key when the read started) and says that they still have it
  and have not answered with less: what a node has only grows. Two sets of nodes
  whose sizes add up to more than the pool meet (`NoQuorumAvoids`), and the node
  in both carries the promise into the next reply.
- BlockDelivery, with ContractView: `TypeCorrect`, `ViewFollows`,
  `ShardsServed`. `ViewFollowsContract` speaks of quiet times only; what is
  inductive accounts for each difference between the contracts and the view at
  all times: what the node does not have yet is still to be loaded, is in an
  event on its way, or was changed while nobody listened (`lost`). The reload of
  the shard map is followed in the same way: a change not in the map will be
  met by a reload that has not read it yet, unless two of them overlapped.
  For the delivery each failed call has taken a retry (`RetriesAreCounted`). The
  nodes and shards the contracts left alone (`UndisturbedNodes`,
  `UndisturbedShards`) are found by every look-up, and so the sends to such a
  node were started and end with the block stored, rejected or all calls used
  (`SendsReach`).
- ArchiveLinks, with ArchiveDiscovery: `TypeCorrect`, `ConnectionsOpen`,
  `ManagerFollows`. An entry of `archiveConnections` is an open or closing socket
  of its node, and a task that tries again has attempts left (`Tasks`). For the
  manager the invariant speaks of the times at which the last event was handled
  alone: then there is at most one handshake made for its own start of the client
  (`OneConnects`), and the flags are what that event asks for, or will be once its
  shutdown is over (`Follows`). As long as no handlers ever overlapped, no timer is
  forgotten (`OneTimer`); at all times the client that counts as started has one
  (`Monitored`). A free place in `links` is found as the least number not
  taken, from the well-foundedness of the naturals.
- BlockEvents: `TypeCorrect`, `BroadcastsConfirmed`, `UpdatesExact`. An entry of
  `confirmations` counts only nodes that reported, is complete only when a
  broadcast of its block threw, and counts all of them as long as the block was
  neither broadcast nor forgotten (`Counts`).
  Subscriptions hold valid filters or the wildcard, which alone may repeat
  (`ProperLists`). `UpdatesExact` relates the matching of the code to the
  reference by `FilterKeys` and `TxKeys` for every filter and every transaction.
- BlockSignatures, with WireFormat: `TypeCorrect`, `VerifiedSignatures`,
  `IdenticalCopies`, `NoRefusals`. First, every message reads as it was written
  (`TransactionReads`, `BlockReads`, `AttestBlockResultReads`, ...): a writer
  appends one field after the other, so that the entries of a field stand
  together (`Written`), and a field appended leaves the ones before it as they
  were (`FieldAppended`). Then the life of one proposal, as equations between
  blocks that differ in votes and signers only (`With`): what an attestor signs
  is what a verifier takes apart the final block to (`PatchIsRecovered`,
  `SignersAreRecovered`), and both sides assemble the same block of the same
  patches (`FinalIsAssembled`). The inductive invariant says that whatever was
  sent, answered, cached or published for a block is made of the one proposal
  whose bytes were sent (`UnderWay`), and that the mempool holds only transactions
  that were checked. It holds for any requests, also such as clients write in an
  order of their own, since a proposer writes anew what it has read.

Every invariant and every safety property of a step that a passing run checks is
proved. Only model-checked is liveness (`AcceptedTxSettles`, `BlockSettles`,
`ArchivalCatchesUp`, `RestoresConnections`, `ClientsAreForgotten`,
`PublicationEnds`), which TLAPS cannot prove, and that each possible vector is
drawn for some bytes, which needs at most 256 nodes and which no property rests
on.

## 5. Plan

In this order, the most important behaviour first; all done.

1. `BlockAssembly` with its proofs.
2. `BlockCertificate`, `Attestation` and the refinement, with proofs.
3. `BlockQueue` with its proofs, and the refinement of `BlockFeed`.
4. `ReadQuorum` with its proofs.
5. `ContractView` and `BlockDelivery`.
6. `ArchiveDiscovery`, `ArchiveLinks` and `BlockEvents`.
7. `WireFormat` and `BlockSignatures`.
8. Proofs for 5-7: every invariant of these components, and that the messages of
   `WireFormat` read back as they were written.
9. The loop of `calculateValidationVector` against its reference definition, the
   set `PossibleVectors` of `ValidationVector`.

## 6. Not modelled

- Cryptography (signatures are taken as unforgeable, hashes as free of
  collisions), tags and lengths of protobuf, HTTP framing, metrics and logs.
- Messages of `block_pb.js` that this program neither reads nor writes
  (notifications, emails, session keys).
- The ping service: it replaces the last answer of each peer, and its results
  are read by nothing but the random values.
- The rate limiter, a counter in Redis with an expiry time.
- Start-up, HTTP and RPC routes: they wire the handlers that the modules take as
  actions. `WebSocketManager.shutdown` has no caller.
- Crashes of a node during a delivery or while it loads the contracts: all of
  that state is memory and is built anew at the start, which is the initial state
  of the modules. The queue and the cache, which survive, are modelled with
  crashes.
- An archival node without a URL in the contract, which makes discovery throw
  (`DiscoverService.ts:109`), and the nodes of a test network that are read from
  the environment.
- Code without callers: an older block format, `validatorLoader.ts`,
  `queueClientHelper.ts`. `getTransactionStatus` is a stub. Reads are modelled
  without the checks of their arguments, which change no state.
