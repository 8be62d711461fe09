# A TLA+ model of KV_RDMA

This directory specifies, model-checks and proves properties of the key-value
store of this repository: clients that read and write the memory of servers
with one-sided RDMA operations, and its TCP baseline. It has four models:
`KvClient`, the key-value calls over connections that exist; `Handshake`, how
those connections come about and go; `Bench`, the benchmark that makes the calls,
with the generator of its workload (`Workload`); and `Baseline`, client and
servers of the TCP store it is compared with.

## The system

| Part | Source | State it keeps | Operations |
|---|---|---|---|
| client | `kv_rdma/kv/client.go` | one registered `localBuf`, `connections` (queue pair, completion queue, the server's info) | `Connect`, `Put`, `PutBatch`, `Get`, `GetBatch`, `Send`, `Write`, `Close` |
| server | `kv_rdma/kv/server.go` | one registered memory, one goroutine and queue pair per client | `Start`, `handleConnection` |
| verbs wrapper | `kv_rdma/rdma/rdma.go` | the device's queue pairs and completion queues | `CreateCQ/QP`, `InitQP`, `RtrQP`, `RtsQP`, `Post*`, `PostWriteBatch`, `PollCQ`, `Destroy`, `Close` |
| benchmark | `rdma_cli/main.go` | one client per worker | batches of reads and of writes in a loop |
| workload | `kv_rdma/kvs/loadgen.go`, `baseline/kvs/loadgen.go` | a pseudo-random state | `Next` |
| TCP baseline server | `baseline/kvs/server`, `proto.go` | a concurrent map, atomic counters and their last report | `BatchRequest`, `printStats` |
| TCP baseline client | `baseline/kvs/client` | per worker: a timestamp, one connection to each server | rounds of asynchronous `BatchRequest` calls |
| scripts | `*.sh`, `report-tput.py` | none | deployment, log parsing |

How the parts interact. A client dials each server over TCP; both exchange the
numbers of their queue pairs and their packet sequence numbers as JSON and bring
the queue pairs to RTS. After that a call of the client stages bytes in
`localBuf`, posts work requests (WRs) to the queue pair of the server that owns
the key (`key % len(connections)`) and polls completion queues in a busy loop.
The network cards move the bytes. The server's processor is not involved, except
that it posts again the receive a `Send` consumed. The benchmark runs workers,
each with a client and a generator of its own, that meet only in the servers'
memory and in the channel on which they report. The baseline's workers split each
batch by the hash of the key, send the parts as concurrent RPCs and wait for all;
the server gives every RPC a goroutine.

What is hard. The NIC works concurrently with the goroutine that posted; only
the last write of a batch reports its completion; completions are counted, not
matched; a call that returns an error leaves what it posted under way, and the
callers go on with the same client and the same buffer
(`rdma_cli/main.go:150-161`); queues have fixed depths; a failed queue pair stays
failed; the two sides of a handshake fail independently; objects of the device can
be freed in one order only, and failures to free are ignored; goroutines report
over channels to a goroutine that waits for all of them first; a random word at
the edge of `float64` is a key out of range unless the modulus catches it; an RPC
that failed may still be at work at its server.

`client.go:104` calls `rand.Uint32` without importing a `rand` package. The model
reads it with the import of `server.go`, `math/rand/v2`.

## Modules

| Module | What it holds |
|---|---|
| `KvClient` | the calls of the client, the NIC, the server's memory and receives; the properties |
| `KvInvariants` | the invariants the proofs rest on (`CallShape`, `Ledger` and its parts, `LeftInvolved`, `ItemsInFlight`, `EffectsStand` ...) and what the WRs of a call stand for |
| `MCKvClient` | `KvClient` for TLC: a bound on calls after an abandoned one, mixes of methods and faults, symmetries |
| `KvStore` | the abstract store: what callers may rely on |
| `KvRefinement` | the mapping under which `KvClient` implements `KvStore` |
| `Handshake`, `MCHandshake` | NewClient, Connect, Start, the handler, Close; its instances |
| `HandshakeInvariants` | the inductive invariant of `Handshake` |
| `Workload` | xorshift, the Zipf conversion, keys and read thresholds |
| `Bench` | the workers and the main goroutine of `runBenchmark`, over clients of `KvStore` |
| `Baseline` | the baseline's client program, its RPCs and servers |
| `BatchStore` | the abstract store the baseline promises its workers |
| `BaselineInvariants` | the invariants of the proofs about `Baseline`: the shape of a round, what was served and what is still to be, the ledgers of what was counted |
| `BaselineRefinement` | the mapping under which `Baseline` implements `BatchStore` |
| `MCBaseline` | hashes and operations for TLC; breaks and reports explored apart |
| `SetLemmas` | least and greatest elements, listing a finite set of numbers in order, sums over sets and sequences, sums of constants, a set as the sum of its parts |
| `KvClientProofs` | type correctness |
| `KvLedgerProofs` | the ledger of completions |
| `KvWedgeProofs` | after abandoned calls: a full send queue is lost, no call lacks its completions |
| `KvStoreProofs` | `KvClient` implements `KvStore`; keys keep their values, reads return their own, writes have landed |
| `HandshakeProofs` | types, crosswise joining, the order of the shards, what Close gives back |
| `BenchProofs` | generators stay alive, what is counted took effect, the total is the sum; powers, floats and the range of the Zipf generator, keys are whole records |
| `BaselineProofs` | reports add up, both ends agree, `Baseline` implements `BatchStore`, nothing is served twice, counters do not wrap |

`Bench` composes with the client through its contract: `KvClient` implements
`KvStore` (`KvRefinement`), and `Bench` runs on clients that are instances of
`KvStore`, so that it does not repeat their work requests.

### KvClient and the code

| Code | Model |
|---|---|
| `data` of `NewServer` | `mem[s]`, one cell per key; `RecvCell` is offset 0 |
| `localBuf` | `buf[cl]`, in cells of one value |
| a queue pair with its completion queue | `wq[cl][s]`: the WRs that hold a send queue slot, oldest first, each with a mark for its completion (CQE); `qpErr` |
| the receive posted by `handleConnection` | `recv[cl][s]`: posted, filled, or gone with its handler |
| local variables of a call | `phase`, `call`, `left` (connections the pass has to poll), `completed` |
| the call's result | `ret` |
| (history) | `abandoned[cl]`: a call returned an error and left WRs behind |

One action is the part of a method up to its poll loop (staging, then posting,
including the posts that fail half way), one iteration of a poll loop
(`PollEmpty`, `PollCqe`), one step of a NIC, or one step of the server's receive
loop. Posting is one step because the buffer is staged completely before the
first WR is posted, and what the NIC does between two posts of one call can as
well be done after them: the posting code reads nothing the NIC changes except
the room in the send queue, and that grows only by polling. Iterations over a Go
map are nondeterministic: `PutBatch` may have posted any subset of the other
chains before the one that fails, a pass polls its connections in any order.

Data are abstract. A value is the pair of its key and a tag, or zeroes; a key
names one cell. The callers' keys are 100 bytes apart and their values 100 bytes
long (`main.go:124,140`), so cells do not overlap; a record torn by a concurrent
access is not modelled. Checks on sizes that do not depend on state
(`client.go:156-166,207,283`) are left out: the callers meet them.

The network card and the reliable connection are outside the repository and
modelled from how `rdma.go` sets them up: WRs take effect in posting order; a
read waits for the reads before it (`max_rd_atomic = 1`); a completion frees the
slots of all WRs up to its own; a WR posted unsignaled completes silently, unless
it fails; retries are bounded (`retry_cnt = 7`) except for a missing receive
(`rnr_retry = 7` means without end); after a failure the queue pair flushes
whatever it is given. A failed write may or may not have taken effect. The length
of the completion queue is left out: a CQE waits only for a WR that still holds its
slot, and both queues have 128 entries (`client.go:75`, `rdma.go:286`).

### Handshake and the code

`pc[cl]` is where the client is between `NewClient` and `Close`; the server it
works on is the one after those already in `conns[cl]`. `handler[cl][s]` is where
`handleConnection` is, `listening` the servers whose `Start` has come to its accept
loop. `toServer` and `toClient` are the two JSON messages, `hungUp` the ends that
closed the TCP connection (`defer conn.Close()`). `cqp` and `sqp` are the two queue
pairs with their completion queues: how far they were created or brought, their
number, the PSN sent to the other side, and the attributes `RtrQP` and `RtsQP` gave
them. `device[cl]` is what the client holds besides: context, protection domain,
memory region. With `Faults` every fallible call may fail and the function returns,
leaving what it created; each error return of the code is one of the failing
disjuncts, several of them merged where they leave the same state behind. `Close`
destroys in the order of the code, and an object another still uses stays, as the
verbs have it (`ibv_destroy_cq` and `ibv_dealloc_pd` refuse, and the wrapper
ignores the result). A client connects once. Where the program exits after an error
(`log.Fatalf` in `runClient`), `Close` may simply not happen in the model.

### Bench, Workload and the code

`pc[w]` follows the body of the worker's goroutine: create, connect, the loop with
its draws and two calls, send the count, close. `readKeys`, `writeKeys` and
`localOps` are the variables of that name, `gen[w]` is the state of its generator.
`landed[w]` is history: the operations of its calls that returned nil. `opsCh` is
the channel, `main` and `totalOps` the main goroutine. A call begins, takes effect
item by item and returns as `KvStore` says; when it fails the worker goes on
(`continue`), and when the failed call is still under way the client is broken and
its later calls return what they like. Latencies are only printed and left out
with `latCh`, whose buffer of a million holds one number per worker.

In `Workload` a word is the set of its bits that are 1, so xorshift is set
difference and shifting, and proofs need no arithmetic modulo powers of two. A
`float64` keeps `P` bits of a word's `W` and rounds to nearest: `Float` rounds the
largest words up to `2^W`, so that `u` in `ZipfianGenerator.Uint64` reaches 1 and the
generator returns `n`; the comments at `loadgen.go:123` and `126` say it does not.
The other floating-point results (`zetan`, `eta`, `alpha`, the powers) are constants
and fractions, good to the order in which they are compared. `Power` is a recursive
function and not `^`, which the provers do not know.

### Baseline and the code

One action is what a goroutine does between two points at which another can see
it: `SendBatch` draws a batch, splits it and starts the calls; `Apply` is one
request of `BatchRequest` (the counter, then the map: `printStats` reads only the
counter, so the two are one step); `Reply` and `CollectReplies` are the answer and
the loop over `call.Done`. `printStats` copies the two counters one after the
other, with requests in between (`CopyPuts`, `Report`). `job[w][s]` is the request
a server has or is about to get, sorted as `BatchRequest` sorts it, and the
responses so far; `served[w]` is history, the timestamps of the worker's requests that
were served. A part of a batch is a set of requests, because the server sorts it
before anything depends on its order and no two timestamps of a batch are equal:
`Sorted` is its one listing in the order of the timestamps. A connection may break while a call is pending: the call fails,
the request is lost or is served to the end with nobody to tell. A value is one of a
kind (128 times x), so the map is the set of its keys. Every worker has its own
connection to each server, as in `runClient`. Dialling fails the whole process.

## Properties

In `KvClient`:

- `TypeOK`; it includes that no queue pair holds more WRs than slots.
- `KeyIntegrity`, `ReadIntegrity`: with the one shared buffer, no bytes of one
  key or call reach another key or call. They hold while no call was abandoned
  and nobody uses `Send`.
- `PutLanded`, `GetCurrent`: a nil return means the servers hold what was
  written, and a read returned what they hold, on every server of a batch.
- `Ledger`: until a call of the client is abandoned, its queues are empty between
  calls, and during a call completions counted plus completions to come equal the
  number that ends the poll loop.
- `EnoughToCome`: the part of it that survives abandoned calls. A poll loop never
  waits for a completion that was not asked for or that an earlier call has taken,
  whatever is left in the queues, where a CQE frees the WRs before it and the CQEs
  of other calls are counted or thrown away.
- `WedgedForever` (action property): a send queue that a failed call filled stays
  full until `Close`. A call that needs it fails when it posts, before it polls,
  and only polling frees slots. The benchmark's worker, which continues, gets an
  error for every later batch that touches the server.
- `EveryCallReturns`: every call returns, whatever earlier calls left behind and
  whatever fails, unless a SEND that no receive will take is stuck in the queue of
  one of its servers. That SEND may be its own, posted after the handler has
  returned. It may also be an earlier one: `Send` takes any completion for its own
  (`client.go:394-404`), so one that returns nil on the completion of an abandoned
  WR leaves its SEND behind, and a `PutBatch` to that server then waits for ever.
- `ImplementsKvStore`: see below.

In `Handshake`: `TypeOK`; `MutuallyJoined`, the two queue pairs of a connection
name each other and each starts at the PSN the other expects, whichever
handshakes are interleaved; `ShardsInPlace`, position `i` of `connections` leads
to address `i` over a queue pair in RTS, on which sharding depends;
`CloseReleases`, after `Close` the device holds nothing of the client but the queue
pair and completion queue of a handshake that failed, because no error path of
`connectToServer` destroys them, and what they keep in use; `ConnectReturns` and
`HandlerSettles`, nobody waits for ever.

In `Bench`: `WholeRecords`, every key is the start of a whole record in the
registered memory, although the generator may return `n`; `GeneratorAlive`;
`CountedTookEffect`, the throughput counts no batch of which a call failed, unless
an abandoned call had broken the client; `TotalIsAll` and `BenchEnds`, the main
goroutine waits for all workers first and still gets every count.

In `Baseline`: `CountsAgree`, the client counts nothing that no server served,
though a failed call is collected by the same code, and both ends agree when no
connection broke; `ServedOnce` (action property), no server serves a request that it
or another has served before, in whichever of a worker's rounds, though the request of
a broken connection may be dropped or served to its end long after; `ReportsAddUp`,
successive reports neither lose nor repeat a request, though the counters move while
they are copied; `ClientEnds`;
`ImplementsBatchStore`: each operation takes effect at one instant of its round,
operations of one key in the order drawn (this is what sorting by timestamp is for),
what is counted is what was answered, and only parts whose answer was lost may be
written later. This is per key; the reads of one batch are no snapshot.

### The abstract store

`KvStore` has a map from keys to values and, for each client, at most one call.
A call takes effect key by key, each key at one instant between begin and
return; items with the same key keep their order; a batch is not atomic. `nil`
means that every item took effect, an error that some may have. A read may look
again before it returns, because a retransmitted RDMA read executes again. A
client whose failed call is still under way in the network is *broken*: it
promises nothing and may write anything. In the mapping of `KvRefinement` the
store is the memory of the owners of the keys, the items still to take effect are
the WRs not yet executed, and a broken client is one with `abandoned`. The
refinement says that each single key is linearizable, also next to broken
clients until their stray writes land.

## Runs

| Run | Instance | Properties |
|---|---|---|
| `KvSingle` | 1 client, 2 servers, 3 keys, 2 tags, all one-sided calls, batches up to 2, faults | `PutLanded` `GetCurrent` `Ledger` |
| `KvTwoClients` | 2 clients, 1 server; `Put` and both batches, or `Get` and `PutBatch` with faults and one late call | `KeyIntegrity` `ReadIntegrity` `ImplementsKvStore` |
| `KvLate` | 1 client, 2 servers, the mixes below, 2 slots, faults, up to two late calls, fair | `TypeOK` `EnoughToCome` `WedgedForever` `EveryCallReturns` |
| `HsConnect` | 1 client, 2 servers that start at any time, 2 PSNs, faults, fair | `TypeOK` `MutuallyJoined` `ShardsInPlace` `CloseReleases` `ConnectReturns` `HandlerSettles` |
| `Bench` | 2 workers, batches of 2, 2 batches each, words of 3 bits, 3 records, faults, fair | `WholeRecords` `GeneratorAlive` `CountedTookEffect` `TotalIsAll` `BenchEnds` |
| `Baseline` | 2 workers, 2 servers, 2 keys, one batch of 2 each, one connection that breaks, reports, fair | `CountsAgree` `ReportsAddUp` `ClientEnds` `ImplementsBatchStore` |
| `BaselineRounds` | 1 worker, 2 servers, three batches of 2, two connections that break | `ServedOnce` `ImplementsBatchStore` |

Five runs end with a counterexample on purpose; each shows where the code does
something else than a comment or a README says.

| Run | Violated | What happens |
|---|---|---|
| `KvStaleRead` | `GetReadsFromServer` (`client.go:281`) | a `GetBatch` fails at its third key with two reads posted; a later `Get` takes the completion with id 2 for its own and returns what was in the buffer |
| `KvStaleWrite` | `PutBatchWaitsForItsWrites` (`client.go:246-247`) | `PutBatch` counts a completion an abandoned call left and returns nil before its writes |
| `KvSendClobbers` | `MemoryIsTheStore` (`server.go:35`) | a `Send` overwrites the value of key 0 |
| `HsHalfOpen` | `ConnectedMeansReady` (`client.go:55`) | the server fails after it sent its info; `Connect` returns nil |
| `BaselineTimestamps` | `TimestampsUnique` (`baseline/README.md:32`) | each worker takes one number of the shared counter and counts on in its own copy (`client/main.go:97,113`): two workers' batches overlap |

### Bounds

- `MaxBatch`, `SQDepth`, `BufCells` stand for the batch size, 128 and the 1 MB of
  `localBuf`. What matters is which is larger: 2 against 2 lets a
  batch just fit, 3 against 2 makes it fail half way, `BufCells` below `MaxBatch`
  makes staging fail. The proofs hold for all positive values.
- Two servers are what distinguishes a batch with one chain from one with
  several; two clients are what makes calls interleave. Keys 0 and 1 fall on
  different servers, key 2 shares a server with key 0.
- `MaxLate` (`MCKvClient`) bounds the calls begun by a client after one of its
  calls was abandoned. Everything before is unbounded. What is left in the queues
  accumulates with each such call. One is enough for most counterexamples and in
  `KvTwoClients`; `KvLate` has two, since one late call can leave behind what the next
  one waits for (the `Send` of `EveryCallReturns`). The theorems on wedged queues and
  on completions have no such bound.
- `Mixes` (`MCKvClient`): one behaviour of `KvTwoClients` or `KvLate` is that of a
  program which uses some methods only, with a longest batch before and after its
  first abandoned call, a number of late calls, and with or without faults. In
  `KvLate`, `Send` and `PutBatch`, and both batches, have two late calls of one key or
  one of two keys; `Put`, `Get` and `GetBatch` have one late call; `GetBatch` alone has
  two and batches longer than the two slots. The other runs have one mix, everything.
  A program that mixes all of them is not explored with late calls; the theorems,
  which know no mixes, cover `TypeOK`, `EnoughToCome` and `WedgedForever` for it.
- `HsConnect` has one client: handlers of different clients share only the counter
  that numbers queue pairs, and the proofs cover any number of clients.
- `Bench`: 3-bit words with 2 significant bits are the shortest in which the
  largest word rounds up and the Zipf conversion returns 0, 1, 2 and `n`; `Zetan`,
  `HalfPow` and `Eta` are those of 3 records and theta 0.5, in hundredths.
  `MaxBatches` ends a worker's loop before the clock must. Payload and memory are
  zero bytes, as in the benchmark, so that calls of a broken client change nothing.
- `Baseline`: two keys fall on two servers; three operations make a batch with a
  read after a write of one key and one with parts for both servers. `MaxRounds` is 1
  where two workers meet; in `BaselineRounds` lost requests of one worker's earlier
  rounds meet its later ones, and both connections may break. `Breakable`, `MaxBroken` and `Reporting` name the servers whose connections break, how
  many break, and whose reports are followed; servers and workers are alike. `ApartSpec`
  explores breaks and reports in different behaviours, since a report reads only
  counters, which a break does not change. `WordSize` is above all counts of the
  instance, as 2^64 is.
- `Tags` are interchangeable and `Clients` too; the runs that use symmetry check
  no liveness. In `KvTwoClients` a retransmitted read and a failing queue pair meet
  two clients with single reads, batches of reads meet two clients without faults.
- Deadlock is not checked: a client that has closed, and a handshake that has
  settled, do stop.

### Fairness

`FairSpec` of `KvClient` assumes weak fairness of the poll step of each
connection (a pass of the busy loop visits every connection), of the NIC's work on
each queue pair (execution, acknowledgement, flushing), and of the server's
receive loop (a busy loop too). It assumes nothing about failures, about callers
making calls, or about `Close`. `FairSpec` of `Handshake` assumes that the
goroutines of clients and handlers are scheduled, and says nothing of which
outcome a step has. A dialled connection is accepted because the accept loop of
`Start` never ends. `Bench` assumes that time passes, that goroutines are scheduled
and that calls return, which is `EveryCallReturns` (the benchmark makes no `Send`).
`Baseline` assumes scheduling and that requests and answers arrive on a connection
that does not break (TCP); it does not assume that connections break or reports run.

## Theorems

All are checked by TLAPS. Those about `KvClient` are for any number of clients and
servers, any keys, batch lengths and depths that satisfy its assumptions: there is a
server, keys are natural numbers and the depths are positive.

1. `TypeInvariant`, `TypeCorrect`: `Spec => []TypeOK`. The inductive invariant
   adds `CallShape`: a call that polls has keys, and a batch of reads fits in
   `localBuf`. Without it the copy of the results could leave the buffer.
2. `LedgerKeeps`: `Spec => []Ledger`, with `TypeInvariant`. It says that while a client has
   abandoned no call its queues are empty between calls and, during a call, every
   WR has its own id, every id counts, the newest WR of each queue is signaled,
   and `completed` plus the number of signaled WRs equals the total. Posting
   establishes it (a signaled write per server for `PutBatch`, a read per key for
   `GetBatch`); taking a CQE moves one from the second number to the first and
   frees the unsignaled WRs before it; the NIC changes neither number.
3. `WedgeIsForever`: `Spec => WedgedForever`, from `TypeInvariant` and
   `LeftInvolved`: only connections of the call are polled, and no call has a
   connection whose send queue was full when it was posted.
4. `CompletionsSuffice`: `Spec => []EnoughToCome`. It is inductive together with
   `ReportedInOrder`: a queue has a CQE for a WR only if the signaled WRs before it
   have theirs, so a poll, which takes the oldest CQE and frees the slots up to it,
   frees no other WR that the call could count.

Those about the store are for any program: mixes of methods, calls after abandoned
ones and faults are not bounded. Where a property holds only without `Send`, which
writes into the memory of the store, the statement has the hypothesis `OneSided`.

5. `ItemsAreInFlight`, `ClientsSettle`: while a client that abandoned no call polls,
   each WR in its queues carries one item of the call, to the server that owns its key,
   in the order of the batch, and `localBuf` has a cell for each item, which for a write
   holds its value (`ItemsInFlight`); a client that has closed has nothing outstanding
   and one that polls has returned nothing (`Settled`). Both rest on `Ledger`: without
   it a queue could hold WRs of an earlier call, which point into the same buffer.
6. `StoreRefinement`: `OneSided => (Spec => ImplementsKvStore)`. Starting a call maps to
   `Begin`, `NicWrite` and `NicRead` to the effect of the item the WR carries, the end of
   a poll loop to `ReturnOk`, an error to `ReturnErr` when it leaves nothing behind and to
   `Break` when it does, what a broken client's WRs write to `StrayWrite`, `Close` to
   `Leave`, everything else to a stutter. That a write brings the value of its
   item, and that items of one key take effect in order, is `ItemsInFlight` at work.
7. `KeysKeepTheirValues`, `ReadsReturnTheirKeys`: `Spec => []KeyIntegrity` and
   `Spec => []ReadIntegrity`. They are inductive together with `ReadsProper`, which says
   the same of what a read has seen before it returns, wherever that is: in the WR or
   in its cell of `localBuf`.
8. `WritesLand`, `ReadsAreCurrent`: `Spec => []PutLanded` and `Spec => []GetCurrent`.
   They say something of calls that returned; the strengthening is about calls under
   way: `EffectsStand`, every item that has taken effect agrees with the memory unless a
   later item of the batch writes its key, and `WritesInOrder`, that such an item is then
   still to come. `Ledger` gives the end: the loop ends only when no item is left.

Those about `Handshake` are for any number of clients, servers and PSNs, with and
without faults.

9. `HandshakeInvariant`: `Spec => []HsInv`. None of the properties is inductive. A
   queue pair in RTR has the right peer only because the info it was given still
   describes the peer: infos are sent after the number and PSN are fixed, and no
   later step changes them (`InfosMatch`). That a step of the client does not
   overwrite a connection already made follows from its working on the servers in
   turn (`InTurn`), and that the handler sends its info once from its stage
   (`HandlerStage`).
10. `HandshakeTypes`, `HandshakeJoins`, `HandshakeShards`, `HandshakeReleases`: the
   four invariants of `HsConnect`.

Those about `Bench` are for any finite set of workers, any batch size, word width,
shifts and number of batches.

11. `XorshiftAlive`, `BenchGenerators`: a word shifted by a positive number and added
   to itself keeps its lowest (shifted left) or highest (shifted right) bit, so
   xorshift leads from no other word to 0; the seed 0 is replaced. Hence
   `Spec => []GeneratorAlive`.
12. `BenchCounts`: `Spec => []CountedTookEffect`. The invariant says that the two key
   lists of a batch make up `BatchSize`, that the call of the client is the one of
   the worker's place in the loop, and that while the client is not broken what was
   counted, plus the reads of the present batch once they have returned, is at most
   `landed`.
13. `BenchTotals`: `Spec => []TotalIsAll`. What the main goroutine has added up and what
   lies in the channel are together what the workers have sent (`CountsLedger`), and the
   main goroutine starts to read only when all have.
14. `ZipfRange`: from any word the Zipf generator makes a number from 0 to `Records`, and
   `Key` one of the records; for any width and precision of the floats, and any `zetan`,
   `eta`, `alpha` with `eta <= 1` and `1 <= 1 + 0.5^theta <= zetan`. `Float` does not lead
   above `Float` of the largest word, which is `One`: the units of two numbers are
   ordered as the numbers are, and a power of two that bounds a number bounds what it
   rounds to. So `u` is at most 1, the base of the power too, and the power as well.
15. `ZipfReachesN`: for the word of all ones `u` is 1 and the result is `Records`. The
   comments of `loadgen.go` say `[0, 1)` and `n-1`; neither holds at any width.
16. `BenchRecords`: `Spec => []WholeRecords`. `BenchInv` has every key of the two lists in
   the form `r * RecordBytes` for an `r` that `Key` returned for some word that is not 0;
   `NumberRange` says that a word stands for a number below `2^W`, and `ZipfRange` the
   rest. That a record ends within the memory is the assumption
   `Records * RecordBytes <= MemBytes` (1,000,000 times 100 bytes in 1 GB).
17. `ThresholdsFit`: the read thresholds of YCSB-A and YCSB-B are words. That of YCSB-C is
   `2^W` as soon as floats have fewer digits than words, as they do.

Those about `Baseline` are for any finite set of workers, any number of servers, any
keys, hash, operations and batch size, any number of rounds and of connections that
break. The first two have the hypothesis `[]CountersFit`: no counter of a server
reaches its last value, 2^64 - 1 requests, after which it wraps; a total that has
wrapped does not agree with anything. Servers may serve lost requests meanwhile. The
last two of the list derive this hypothesis from a bound on what is sent.

18. `ReportsComplete`: `Spec /\ []CountersFit => []ReportsAddUp`. A report under way has
   copied a number of puts between the previous report and the present counter
   (`ReportLedger`), so the difference modulo 2^64 is the true one.
19. `BothEndsAgree`: `Spec /\ []CountersFit => []CountsAgree`, from two ledgers. What was
   counted by workers plus what servers answered and workers may yet count is at most
   what servers served, and equal to it while no connection broke (`ServedLedger`);
   what is in the channel is counted once (`ChannelLedger`).
20. `RoundsHold`: `Spec => []RoundInv`, the shape of a round: which part of the batch is
   with which server, in the order of its timestamps, or lost, and that a key is stored
   at no server but its own.
21. `BatchRefinement`: `Spec => ImplementsBatchStore`. `SendBatch` maps to `Begin`, `Apply`
   to the effect of an item, or to a late write once nobody waits for it,
   `BreakConnection` to the loss of a part, `CollectReplies` to `End`; the rest stutters.
   It rests on `RoundInv`: a request at a server is the item of the batch at the distance
   of its timestamp from the first one, so requests of one key are served in the
   order of their items; and on the sizes of the parts adding up to what is counted.
22. `RequestsServedOnce`: `Spec => ServedOnce`. The inductive invariant (`OnceInv`) says
   that what a server has yet to serve of a worker was not served and lies at no other
   server, and that all timestamps so far are up to the worker's. `SendBatch` hands out
   new timestamps, each to one server, because the parts of a batch are disjoint;
   `Apply` moves one from what is to be served to what was; `BreakConnection` may only
   take away; and a worker does not write over a request still at a server, since it
   does not call a server over a broken connection and waits for the others.
23. `CountersNeverWrap`: if `LoadFits`, workers times rounds times batch size is below
   2^64 - 1, then `Spec => []CountersFit`, from `SentLedger`: what was
   served, plus what lies at the servers unserved, is at most what was sent, and a
   counter is at most what was served. `MaxRounds` is the model's bound on a loop that the code ends by the clock; at
   10^9 requests a second the code would need five centuries to send that many.
24. `ReportsCompleteUnderLoad`, `BothEndsAgreeUnderLoad`: 18 and 19 with `LoadFits` in
   place of `[]CountersFit`. The instance of the run satisfies it (4 < 15).

Sums are folds, and `Power` is a recursive function; their values for every input need
induction over data. `SetLemmas` and `BenchProofs` derive what the proofs need from a least
counterexample instead: a sum in which one term changes, changes by as much; sums of
equal functions are equal; powers are natural numbers and grow; the bits of a word are
together less than the power above them. Even that `Power` is a function that satisfies
its recursion has to be proved this way, from functions on initial pieces.

Model-checked only: liveness (`EveryCallReturns`, `ConnectReturns`, `HandlerSettles`,
`BenchEnds`, `ClientEnds`), which is out of the prover's reach. Every other property of a
passing run is proved. The five counterexamples are for TLC by nature.

## Not modelled

- Latencies and rates, and with them `batchLat / batchSize`, which panics for a batch
  size of 0 (`BenchAssumption` excludes it).
- `runClient` and `runServer` of the benchmark program: one sequential use of
  operations that `KvClient` and `Handshake` model. `Get`, `Put` and `BatchResponse`
  of the baseline's client: nobody calls them.
- Where keys go: `main.go:140` multiplies by 100, so two or four servers leave all
  keys to server 0. It costs throughput and breaks no property here.
- Torn reads and writes inside one record; Go's scheduler; time.
- The scripts: deployment over ssh and the parsing of logs.

## Plan

1. `TornRecord`: a record as several words; which reads may see a mixture, and
   keys closer together than their length.
2. Reconnecting clients in `Handshake`: handlers and queue pairs that accumulate at
   a server.
3. Proofs: `HsInv` for clients that connect again, once item 2 is modelled.
