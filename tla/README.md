# Verification of SAGE memory (Rust)

TLA+ models of the parts of this repository that keep state, TLC runs that
check them on small instances, and TLAPS proofs that hold for every instance.
Paths below are relative to the repository root; line numbers are in
`PROJECT.json` under `map`.

## 1. The system and its components

SAGE turns documents into a graph of entities and edges with an LLM (the
writer), and answers queries by walking that graph (the reader).

| Component | State | Operations | Talks to |
|---|---|---|---|
| `GraphStore` trait (`sage-core/src/graph.rs`) | per tenant: entities, outgoing edges, document index, snapshots | `upsert_entity`, `upsert_edge`, `snapshot`, `restore`, reads | – |
| `MemGraphStore` (`sage-graph/src/mem.rs`) | the same in hash maps behind one `RwLock` | the trait | – |
| `SledGraphStore` (`sage-graph/src/sled_store.rs`) | the same as rows of a sled tree, plus a meta row with two counters | the trait, each call several accesses to the tree | sled |
| Writer: `apply` (`sage-writer/src/apply.rs`) | per call: resolved names, report | `apply_action_embedded`, `resolve` | store, embedder |
| Writer: policy, sanitizer | – | one LLM call, filtering of triples | LLM client |
| `HnswIndex` (`sage-embed/src/hnsw_index.rs`) | `id_map` under a lock, HNSW graph outside it | `insert`, `search` | – |
| `SageEngine` (`sage-runtime/src/engine.rs`) | shared handles | `ingest_one`, `ingest`, `query`, `snapshot`, `restore` | all of the above |
| Readers, planners (`sage-reader`) | plan cache of `LlmQueryPlanner` | `read`, `plan` | store, index, LLM client |
| LLM clients (`sage-llm`) | hit counters, MiniMax's global cooldown, child processes and temporary files | `complete`, `judge` | network, processes |
| CLI (`sage-cli/src/main.rs`) | totals of a batch | `run_ingest_batch` and other commands | all of the above |
| Evaluation (`sage-eval`), reward | – | counting metrics, floating-point rewards | reader |

What is hard here:

* **Interleaving.** Every handle is `Send + Sync` behind `&self`, so callers of
  `ingest` overlap at each `await`, and a restore may come between any two.
  `resolve` reads an entity and writes it back; `HnswIndex::insert` works in
  two halves.
* **Non-atomic persistence.** sled makes single reads and writes atomic; the
  store uses no transactions or batches. Each trait call is a sequence of
  accesses that a crash can cut and another client can interleave with.
* **Partial failure.** The LLM and the embedder fail; an error in the middle
  of a document leaves what was stored before it.
* **Two views of provenance.** An entity's `source_docs` and the document index
  are written together but kept, overwritten and restored apart.
* **Retries and timeouts** in the LLM clients: a cooldown shared by all MiniMax
  requests of the process; blocking jobs and child processes that a timeout
  does not stop; pipes that fill.
* **Stale views.** A read is many calls; the graph, the index and the plan
  cache change between them.

What makes each component correct:

* stores: a call does what the trait says, nothing else; both ends of an edge
  are stored; every source document is found through its entity; snapshots do
  not change; a returned edge is not lost;
* writer and engine: a document whose ingest returned Ok stays reachable from
  the entities it names; stored entities can be searched; triples are not
  dropped for no reason; calls return;
* readers: what an outdated index returns does no harm; a document counts once;
* LLM clients: one answer per request, bounded retries, counters that agree
  with what happened; no child or file stays behind for no reason;
* batches: every line is accounted for, and what counted as ingested is there.

## 2. Modules

| Module | Models | Kind |
|---|---|---|
| `Maps` | maps of keys to values, as the stores use them | helpers |
| `GraphStore` | what the trait promises: atomic calls on a graph per tenant | abstract specification |
| `MemGraphStore` | `mem.rs`; implements `GraphStore` | component |
| `MemGraphStore_proofs` | theorems about it | proofs |
| `SageEngine`, `MC_SageEngine` | `engine.rs`, `apply.rs` and `HnswIndex::insert` over `MemGraphStore` | composition |
| `SageEngine_proofs` | theorems about it | proofs |
| `SledGraphStore`, `MC_SledGraphStore` | `sled_store.rs` over a tree that flushes and crashes; implements `GraphStore` for one client | component |
| `SledGraphStore_proofs` | theorems about what it keeps and what a reader sees of its rows | proofs |
| `LlmArms` | `build_llm_client`, `fallback.rs`, `router.rs`: the tree of clients behind `--llm` | component, without a next-state relation of its own |
| `WriterPolicy` | `LlmWriterPolicy::step`, `sanitizer.rs` | operators |
| `IngestBatch`, `MC_IngestBatch` | the ingest commands of `main.rs` and `apply.rs` over `LlmArms`, `WriterPolicy` and `SledGraphStore` | composition |
| `IngestBatch_proofs` | theorems about it, lemmas about `LlmArms` | proofs |
| `HttpClients`, `MC_HttpClients` | `minimax.rs` and `anthropic.rs` | component |
| `HttpClients_proofs` | theorems about it | proofs |
| `CliClients`, `MC_CliClients` | `claude_cli.rs`, `codex_cli.rs`, `gemini_cli.rs` | component |
| `CliClients_proofs` | theorems about it | proofs |
| `QueryPlan` | `planner.rs`, `build_plan` of `llm_planner.rs`, `addressing.rs` | operators |
| `Metrics` | `metrics.rs`, the counting terms of `reward.rs` | operators |
| `Reader`, `MC_Reader` | `heuristic.rs`, `gfm_reader.rs`, the plan cache, `HnswIndex`, `runner.rs` over `MemGraphStore` | composition |
| `Reader_proofs` | theorems about it, the layers and their stack | proofs |
| `GfmLayer` | `gfm.rs`, `scatter_add_rows` of `ops.rs`, used by `Reader` | operators |
| `GfmStack` | `gfm_stack.rs` | operators |
| `MessagePassing` | what `Reader` and `GfmStack` make of the layers; extended by `MC_Reader` and `Reader_proofs` | composition |
| `Induction_proofs` | induction and recursion over numbers | lemmas |

### GraphStore and MemGraphStore

An entity is reduced to the set of its `source_docs`, an edge to target and
provenance: the stores never look at anything else. In `MemGraphStore` the one
variable `tenants` is the map of the code, and each call is one step, because
the code runs it under the write lock. The document index counts how often
each document is listed, since the code pushes a document again at every
upsert. A call that returns an error changes nothing and is not a step. The
refinement mapping merges the repeated listings (`GraphOf`) and numbers
snapshots from 1 (`SnapsOf`).

### SageEngine

`task[c].pc` names the `await` a caller of `ingest` is suspended in; between
two awaits the code runs without interference except on `HnswIndex::insert`,
whose halves are two steps (`index`, `publish`) because a second thread can run
between them. `resolve` of the code is the actions `resolve`, `embed`, `create`
and `append`; its arm for an entity that is given by its id (`apply.rs:92`) is
left out, since no policy of the repository emits one. Names are resolved through `IdOf`, which folds case like
`name_to_id` and may also map two different names to one entity, as a hash can.
An error anywhere ends the call (`Abort`), keeping what was stored. What the
LLM returns is any action from a set. The index holds how many internal ids
stand for each entity (`id_map`), and how many of those a search can find
(`inner`); the embedder and the index have the same dimension, as the commands
set them up. `snapshot` and `restore` come from whoever evolves the graph, at
any moment. `landed` and `overlap` are history.

### SledGraphStore

`db` is the tree as clients see it, `disk` as a crash would leave it. sled
writes its log in order and recovers a prefix of it, so `flush` copies the
whole tree to `disk` at any moment and `crash` goes back to it. Every call is a
chain of steps, one per access to the tree, named after the access
(`put_docs`, `put_entity`, `check_dst`, `read_meta`, ...). Rows are keyed
`<<table, id, seq>>`, ordered like the big-endian keys of the code. Scans and
clears visit rows in that order, one per step. `acked`, `taken` and `torn` are
history inside the tree: they are rolled back by a crash like the data they
speak of. A call's `since` is the tree at its start, which the refinement
mapping shows until the call returns.

Any access may fail (`fails`): the call returns an error and leaves what it had
written. A write that fails is taken as not done. One kind of error is left
out: where `restore` lists the keys of a table it passes over those it cannot
read (`sled_store.rs:327`), and may return Ok with old rows left in the graph;
the model lists every key.

### LlmArms, WriterPolicy and IngestBatch

The client is a tree of nodes named by their paths; `build_llm_client` builds
it from what `--llm` and the environment say, as `main.rs` does: MiniMax with
Claude as its fallback if there is one, a router over two such arms. A request
goes down (`pick_pair`, `ask`), a backend answers, and the answer goes up past
each node that waits (`failover`, `deliver`): one action per `await`. A
backend answers, writes something useless, answers nothing or fails; the
backends themselves are `HttpClients` and `CliClients`. The router's profile
of a text counts characters, capitalised phrases and sentences from the pieces
of the text. `Accepted` and `Sanitized` are the sanitizer; strings are told
apart only by the sets it tests them against.

`IngestBatch` runs `ingest`, `ingest-batch` and `ingest-stub` on a file whose
lines are documents, blank, not JSON or not text. `resolve` and `link` call the
store of `SledGraphStore` with their rows and steps; the store may fail at any
of them (`resolve_fails`, `link_fails`), a crash may come between any two, and
the command may be given again. An edge whose call fails counts as skipped and
its line as ok, as in `apply.rs:74-77`, also when the row was written before. The command `library`
stands for a program that uses the client from several tasks, which the
command line itself does not. `base`, `named`, `linked` and `landed` are
history.

### HttpClients

One module for both clients, because their retry loops have the same states
and differ in every detail: MiniMax sleeps before an attempt, Anthropic after
one; MiniMax shrinks and starts its attempts afresh; what is retried differs
(`Retried`, `Fatal`). Time is counted in ticks still to go. `set` separates
taking a deadline from recording it under the lock. An answer is a sequence of
tokens, so that reasoning, fences and their order are told apart. The numbers
of tokens that are asked for are left out.

### CliClients

Per call a caller, a blocking job and a child, each with its own steps;
`timeout` stops only the first. A pipe holds `PipeCap` units, a prompt has a
length in units, and a child is any program: it reads, talks before it has read
everything or anything, closes its stdin, stalls, or exits leaving any output.
Once its input is at an end it talks only while it has some of it to read, so
that it does not talk for ever. The wait for a child may fail, too. A thread is
taken by a job, not by a call. `judge` is `complete` with one user message and
a test of the first letter.

### QueryPlan, Metrics and Reader

A question is its tokens, a name a set of them. Scores are integers: what
`softmax_entry` does with them is monotonic, and 0 exactly for a suppressed
entity; where single precision would round a small probability to 0, the model
keeps it. A `GfmReader` ranks its rows in any order, since its weights are
opaque; it keeps suppressed entities, as the code does. Each `await` of a read
is an action; the others are any calls of `MemGraphStore` and of
`HnswIndex::insert`, whoever makes them. `measure` is the step of `EvalRunner`
that scores a read, with fractions as pairs. `alive`, `listed`, `known`,
`asked`, `restored` and `twice` are history.

### GfmLayer, GfmStack and MessagePassing

Pure functions over flat row-major buffers whose indices are computed as in the
code. A number is the term it was made of: the sequence of what was added up, in
that order, and zero is the empty one. Gate, transform, PReLU and LayerNorm are
opaque functions of the row they are given, so equal terms stand for equal
results, up to the sign of zero. `Reader` sends the graph a `GfmReader` has
gathered through `layer_forward`, and fails where that does. No reader uses the
stack yet; it is checked on `Inputs`, stacks, graphs and hidden states of any
shapes, also such that do not fit, with `Formula` as the reference; being a
function, it is looked at once, in the initial state of the run. A head is
always one that `identity` makes, since nothing else can, but `with_head` may
install one made for another stack. Splitting a buffer into chunks of no cells
panics, which is a result of its own.

## 3. Runs

| Run | Instance | Shows |
|---|---|---|
| `mem_store` | 1 tenant, 2 entities, 1 document; a document listed at most 2 times, 1 edge per entity, 2 snapshots | `TypeOK`, `NoDanglingEdge`, `DocIndexCoversSources`, `SnapshotsKept`, `ImplementsGraphStore` |
| `engine` | 2 callers, 2 ingest calls, 2 documents, 3 names of 2 entities, 1 failure, 1 snapshot, 1 restore | `ProvenanceReachable`, `StoredIsIndexed`, `HitsAreMapped`, `ReindexedOnlyByRaces`, `SkippedOnlyByRestore`, `IngestReturns` |
| `engine_listing` | 1 caller, a batch of 2 documents | refutes `ListedOnce` |
| `engine_unindexed` | 1 caller, 1 failure, a retry | refutes `EveryEmbeddedEntityIndexed` |
| `sled_one_client` | 1 client, empty at the start, 2 entities, 3 edges, 2 documents, 6 calls, no error, no crash | `ImplementsGraphStore` |
| `sled_crash` | 1 client, 2 entities, one stored at the start, 3 edges, 5 calls, an error at any access, 2 crashes | `AckedEdgesKept`, `ConsistentUnlessTorn`, `SnapshotsKept`, `RestoreInstalls` |
| `sled_race` | 2 clients, 2 edges out of one entity, 2 calls | refutes `AckedEdgesKept` |
| `ingest_batch` | 7 commands with files of up to 4 lines, 5 library programs with 2 callers and 2 requests; 2 runs, 1 fault of the store at any access, 1 crash; unknown relations are coerced | `BadOnlyIfAllTried`, `CallsAccounted`, `SummaryAddsUp`, `OkLinesStored`, `TotalsTellGrowth`, `OnlyCleanStored`, `EverythingReturns` |
| `batch_unparseable` | a batch of one line, MiniMax with Claude as its fallback | refutes `SlopFallsThrough` |
| `http_clients` | 2 MiniMax tasks, 1 Anthropic task, 2 requests, 2 attempts, 1 round of shrinking, a cooldown of 2 ticks | `CooldownHeld`, `RetriesBounded`, `OnlyVisibleReturned`, `RequestReturns` |
| `cli_clients` | 2 calls of any of 3 backends, 1 thread, pipes of 1 unit, prompts of 1 and 2 units | `NoChildOutlivesItsJob`, `FileLeftOnlyByTimeout`, `CallsAndJobsEnd` |
| `reader` | 4 readers, 2 entities, 2 documents, 1 question; 2 runs, 2 writes of others; the graph was rolled back before; for the stack, graphs of up to 2 nodes with any 2 edges, in and out of bounds, and three of 3 nodes, up to 2 columns, 2 layers and any head | `ReadSound`, `PlansReused`, `MetricsHonest`, `ChannelsFollowFormula`, `TakesWhatFits` |

**Why these bounds are enough to be interesting.** `mem_store`: two snapshots
are what it takes to restore an older one and then a newer one, and an upsert
repeated twice is what makes the index differ from a set; the proofs then cover
every bound. `engine`: two callers race on one entity while a restore and a
failure come between; two spellings of one entity reach the path where a name
is new to the call and its entity is not. `sled_one_client`: six calls fit
an entity, an edge, a snapshot, another edge or entity, a restore and one more
call on what it left. `sled_crash`: five calls and two crashes fit a snapshot, an edge,
a restore that is cut, a second restore that is cut and a third that repairs
it. `ingest_batch`: a line that fails in apply, one that is not JSON and one
that is stored again by a second run fit, and so do an edge that a fault or a
crash leaves without a number and the edge of a later line or run that replaces
it; two spellings of one entity and a name the sanitizer rejects are in one
answer, and an empty relation and a blocked one come with entities that no
other answer names; the five library programs
between them build a fallback, a router, a router over a fallback on either
side, and no client. `http_clients`: two tasks are what it takes to record
deadlines in the other order; the history of what was sent stops one beyond
the budget. `cli_clients`: a prompt of two units leaves one to be written
when the pipe is full and the child talks; one thread makes the other call
wait. `reader`: two writes fit a restore of the later snapshot and another
change, which is an edge to an entity that was not there when the read began.
For the layers, two columns tell rows from columns, repeated edges, loops and
forks tell which end of an edge a message is added to; two layers are what it
takes for a result to travel, and for the head to have fewer layers than the
stack.
`MaxRuns`, `MaxFaults`, `MaxRequests`, `MaxReads`, `MaxWrites`, `MaxListed`, `MaxEdges`, `MaxSnaps`, `MaxIngests`, `MaxFailures`,
`MaxRestores`, `MaxCalls` and `MaxCrashes` bound nothing in the code; they make
the models finite, and they are the reason why `CHECK_DEADLOCK` is off: a model
stops when they are used up.

**Fairness.** It is always weak fairness of a task's own next step; nobody is
obliged to call, to write, to restore, to crash or to fail.

* `IngestReturns` (`engine`): the runtime polls every ready task, the locks are
  held for bounded work, and each LLM client and embedder of the repository
  ends by an answer or an error.
* `EverythingReturns` (`ingest_batch`): the same for the one task of the
  command line, and for each request in the tree of clients. That backends
  come back at all is what the next two runs show.
* `RequestReturns` (`http_clients`): clocks run, and `reqwest` has a timeout,
  so a request in flight comes back in one way or another. Which reply it is
  nobody decides: the loop ends because its budgets do.
* `CallsAndJobsEnd` (`cli_clients`): the timer of `tokio::time::timeout` fires
  or the job is joined; the threads of the blocking pool run; a child that has
  not stalled goes on. There is no fairness for a child's whims (talking
  early, closing stdin, stalling). What a job may wait for in vain is spelled
  out in the property: a child that stalls, both pipes full, or threads that
  are all held by such jobs.

**Seeded faults.** For every property of a passing run, one definition has a
faulty twin just before it (marked "Seeded fault") that TLC refutes the
property with; `PROJECT.json` lists the pairs under `mutants`.

### Disagreements between code and documents

* `engine_listing`: `MemGraphStore` lists a document again at each upsert
  (`mem.rs:59`), the reader adds once per listing, while its description sums
  over documents once and `SledGraphStore` removes repetitions.
* `engine_unindexed`: after a failed ingest, entities it stored are never
  indexed, also not by a retry that succeeds (`engine.rs:137`), while the tests
  say every embedded entity must be.
* `sled_race`: concurrent `upsert_edge` calls lose an edge (`sled_store.rs:209`)
  although the trait is `Send + Sync` and both stores must satisfy one contract
  suite. The command line uses one thread, so it does not meet this. That
  `snapshot` writes back the counters it read before its scan
  (`sled_store.rs:307`), and so can undo an edge's, would do the same; no run
  reaches it, since two clients lose an edge in two calls already.
* `batch_unparseable`: an answer that is not empty but cannot be parsed does not
  fall through to the other client (`fallback.rs:85`), and the line is lost to
  the batch, while the documentation says that the slop falls through
  (`fallback.rs:3-5`) and "so we never lose a doc" (`main.rs:298-300`).

Seen while modelling, followed by the model as the code has it, and not the
subject of a run of its own:

* MiniMax retries 429, 502, 503 and 504 but not 500 (`minimax.rs:348`),
  although its text says "Retry on 429 / 5xx" (`minimax.rs:15`).
* A request reads the cooldown once before it sleeps (`minimax.rs:62-70`), so
  one that was raised meanwhile does not hold it back, although "every
  concurrent request sleeps until the deadline before sending"; `CooldownHeld`
  says what does hold.
* A quota error is meant to make the batch stop (`codex_cli.rs:44-46`), but
  `run_ingest_batch` goes on with the next line (`main.rs:343`). codex also
  takes the marker in a good answer for one (`codex_cli.rs:251`).
* After a timeout the file of codex may come back (`codex_cli.rs:277-288`),
  although "we always delete after" (`codex_cli.rs:198`);
  `FileLeftOnlyByTimeout` says that this is the only way.
* `precision_at_k` divides by what was retrieved, not by `k`
  (`metrics.rs:17-27`).
* The formula of a layer adds its bias to the sum of the messages
  (`gfm.rs:5`), the code to each message, inside the gate (`gfm.rs:164`). The
  biases are zero and nothing changes them.
* `GfmReader` returns entities whose score is suppressed, although "such
  entities are then suppressed" (`addressing.rs:44-45`); `ConstraintsHold` is
  stated of the other reader.

## 4. Proofs

`MemGraphStore_proofs` proves, for every value of the constants:

* `TypeCorrect`: `TypeOK`. Each call replaces the data of one tenant
  (`OneTenantType`), so a call is correct if the new record is well formed.
* `NoDanglingEdgeEver` and `SourcesAlwaysIndexed`. What holds of the current
  graph alone is not inductive: a restore makes a snapshot the graph. The
  invariant `VersionsGood` therefore speaks of the graph and of every snapshot;
  `OneTenantGood` reduces a call to "each version afterwards is an old one, or
  good", and there is a lemma for each call.
* `SnapshotsAlwaysKept`: from `TypeOK`, since a new id is `next_snap`, which no
  snapshot has.
* `Refinement`: `Spec => ImplementsGraphStore`. Initial states map to initial
  states, and each call maps to the call of the same name (`UpsertEntityMapped`
  and so on), the snapshot `n` to entry `n + 1`.

The one assumption on constants is `BoundsAssumption`, which no proof needs.

`CliClients_proofs` proves, for any number of calls and threads, any pipes and
whatever the children do, `NoChildLingers` (`[]NoChildOutlivesItsJob`),
`OnlyTimeoutsLeaveFiles` (`[]FileLeftOnlyByTimeout`) and `TypeCorrect`. That no file stays is not
inductive alone: a file comes from a child, so the invariant says that a child
lives only while its job runs (`StartedByItsJob`, `SawItsChildEnd`), and that a
call that did not time out waited for its job (`WaitedForTheJob`). `ChildKeeps`
is the step where the file could come back. Neither uses an assumption on the
constants. `TypeCorrect` is by one lemma per kind of state (`CallerOK`,
`JobOK`, `ChildOK`); that a prompt has a length for any number of messages is
by induction over them (`LengthIsNatural`), and uses `CliAssumption`: message
lists are finite sequences, the bounds are numbers, the calls finitely many.

`SageEngine_proofs` proves all six invariants of the run `engine`, for any
finite set of callers and any names, entities, documents and bounds:
`TypeCorrect`, `ProvenanceAlwaysReachable`, `OnlyRestoresSkip`,
`HitsAlwaysMapped`, `StoredAlwaysIndexed` and `OnlyRacesReindex`. Each step of
the engine is a call of the store or leaves it alone, so what
`MemGraphStore_proofs` shows of the store is used as it stands, by INSTANCE.
`IInv` adds what holds of the callers: where one is tells what it still holds
(`Placed`), all it resolved is named by its action (`Tracked`), and unless a
restore came in between, what it named so far is stored and lists its document
(`Kept`). The last is the heart: it must survive every call of every *other*
caller, which is why an entity that is written back whole may lose no listing.
Three invariants rest on it: `HitsCounted` counts the callers between the two
halves of an insert, `FindableUnlessFailed` says that an entity that is stored
can be found or is owed by a caller, and `ChargesBounded` that the internal ids
an entity has and the callers in charge of it are together no more than the
callers. The proofs use `EngineAssumption`: finitely many callers, `IdOf` total, actions and batches finite sequences,
the bounds are numbers.

`HttpClients_proofs` proves, for any tasks, delays, budgets and cooldown,
`TypeCorrect`, `CooldownIsHeld` (`[]CooldownHeld`), `RetriesAreBounded`
(`[]RetriesBounded`) and `OnlyVisibleEverReturned` (`[]OnlyVisibleReturned`).
The second and third rest on one invariant of each request, `Sound`: who
sleeps sleeps through the cooldown unless it was raised since
(`SleptThrough`), a deadline that is not recorded yet belongs to a task about
to record it (`Recorded`), and a request was sent at most once per attempt and
for all attempts of the rounds before (`Counted`), which is what makes the
product in `Budget` a bound. `GoKeeps` reduces an action of one task to `Sound`
of its next record; `SetCooldownKeeps` and `TickKeeps` are the two actions that
touch the others. Types need a bound too: no deadline is farther away than
`cooldown_secs`, so the later of two is not either. What is returned is the
work of `strip_think`, which goes through the tokens once and forgets what it
has passed, while `Hidden` says of each token whether a reader may see it from
all that is before it; the two agree by induction over the tokens
(`ThinkFollows`, `StripShows`), and what remains of fences and blanks is that
trimming twice is trimming once. The proofs use `HttpAssumption`: the delays
are a non-empty sequence of sets of numbers, there is at least one attempt, a
content is a finite sequence of tokens.

`SledGraphStore_proofs` proves `TypeCorrect`, `AckedEdgesAlwaysKept`,
`AlwaysConsistentUnlessTorn` and `SnapshotsAlwaysKept`, for any entities,
documents, number of calls, errors and crashes, whatever was stored before, and
an error or a crash at any point. The first three are about one client (`Alone`): `sled_race` shows
that `AckedEdgesKept` fails with two. What is known of the rows, `TreeInv`,
does not mention the call under way, since an error forgets the call, and a
crash the rows that are not on `disk`, too; it holds of `db` and of `disk`
alike, and so neither needs a proof of its own. The rows a cut call leaves
behind are part of it: `Numbered` allows edges under the very number the
counter shows, of which the next edge replaces the one out of the same entity. `CallInv`
says what a call knows of the rows from where it is: what it has read is still
there, what it has written is there. A restore is where this is long: which
tables are cleared, which rows are back, how many edges have been numbered.
The last theorem is from the row of a snapshot being written under a key that
no snapshot has.

The same module proves `RestoreAlwaysInstalls` and `SledImplementsTrait`. A restore numbers the edges anew, so the rows after it
are not those of the snapshot; a reader sees the same, because the new numbers
are in the order of the old keys. This is `Places` (the keys of one entity
take the places from 1 to their number, each once), `MovedKeys` (a map that
keeps the order keeps the places) and `ViewRenumbered`. The refinement is for
one client, a database created empty, no error and no crash: with those a part of a
call can stay, which the trait does not allow and `ConsistentUnlessTorn`
bounds. While a call is under way the abstract store is the tree of its start;
`MidCall` says for each place how far the call has moved the rows away from
that tree, and `Quiet` what holds between calls (snapshots are numbered
without gaps, the next number of an edge is free). Each return is then one call
of the trait (`OneCall`), and every other step a stutter.

The first half of `IngestBatch_proofs` is about `LlmArms`. Its lemmas say what
each action of the tree of clients keeps: the backends a request has tried and
those it still may are disjoint and together all of them, and the counters of a
fallback and a router account for the requests that passed. `ArmsInv` is
`RequestsOK` (per request) and `CountersOK` (per node), and the action that
moves a request shows them for the nodes it enters or leaves.

The other half proves all seven invariants of the run `ingest_batch`:
`IngestTypeCorrect`, `AlwaysAllTried`, `CallsAlwaysAccounted`,
`SummaryAlwaysAddsUp`, `OkLinesAlwaysStored`, `TotalsAlwaysTellGrowth`,
`OnlyCleanEverStored`, for any file, any tree of clients the command builds,
any callers of a library program, any number of runs, faults and crashes.
Of the store it uses `IInv` of `SledGraphStore_proofs` by INSTANCE, and of each
of its actions what rows it writes (`PutDocsDoes`, `PutEdgeDoes`, ...). The
invariant `IngestInv` ties the two machines together: the call of the store is
the one that the place in the batch asks for; what was noted as named, linked
or landed is in the tree, and a crash takes back the notes of what was not
flushed; and every triple on its way to the store, and every row that is there,
comes from one in which the sanitizer has nothing to reject, for either value
of `Coerce`. `Balance` ties the totals to the graph: it holds the entities that
were there and those the totals tell, and no fewer edges, but for one. That one
is why `base` counts the edges that are numbered apart (`Grown`): an error or a
crash leaves an edge under the number the next edge takes, and if that one has
the same source it replaces it, so that the totals go up and the graph does
not; after it every edge has a number below the counter, so it happens once per
command. An edge more than the totals tell belongs to a triple that was
skipped, or to the call under way. What a line that failed in apply had stored
is in no total, and then only the lower bounds hold. The proofs use `BatchAssumption` and
`ArmsAssumption`: callers are finite, there is a document and the special lines
are none, entities are numbers.

`Reader_proofs` proves `ReadsAlwaysSound` (`[]ReadSound`), `PlansAlwaysReused`
(`[]PlansReused`) and `MetricsAlwaysHonest` (`[]MetricsHonest`), for any
readers, questions, plans and runs, any store and index to begin with, and any
writes, restores and insertions in between. `IInv` says that the store is well
formed (`StoreFits`, which is `TypeOK` and `VersionsGood` of
`MemGraphStore_proofs` by INSTANCE), and of each reader `Sound`: where it is
tells what it holds (`Placed`); what it notes as alive, listed or indexed
twice includes what is there now (`Watched`); the rows it holds were stored when it
got them and, unless there was a restore, still are, its edges go between its
rows, and an entity is there twice only if the index had it twice (`Gathered`); what
it is about to return is what these allow (`Answered`). `StillSound` is the
step of somebody else, which may change the store under a reader between any
two of its calls; `GoKeeps` is a step of its own. `ViewTaken` shows that the graph a `GfmReader` gathers always fits the layer, so that the
error of `layer_forward` cannot be what ends a read. `MeasuredHonestly` is the
arithmetic of the metrics. The proofs use `ReaderAssumption` (finitely many
entities and documents, at least one document, the kinds, runs and bounds are
what they are called, the initial graph is well formed, "none" is no question)
and `PlanAssumption`.

The first half of that module is about `GfmLayer` and `GfmStack`, and proves
`ChannelsAlwaysFollowFormula` (`[]ChannelsFollowFormula`) and
`OnlyWhatFitsIsTaken` (`[]TakesWhatFits`) for graphs of any size, edges in any
order, any width, any number of layers and any head that `identity` makes. A
loop of the code is a recursive function, and the proof an induction over it:

* index arithmetic: where a row starts, and which row and column an index is in
  (`PlaceSplits`, `PlaceOf`, `PlaceIn`, `RowOfFlat`);
* the kernel: the rows go in one after the other (`AddedRow`, `RowsAdded`), and
  edge by edge the place `v * d + j` of the buffer holds what has arrived at
  column `j` of node `v` (`KernelSums`);
* a layer maps rows laid out flat to the next rows laid out flat
  (`LayerFollows`), so a channel does (`ContextFollows`); the bias of an
  identity head adds nothing to a number, and fails if it is not as wide as the
  rows (`BiasIsNothing`), so the other channel does the same (`SchemaFollows`);
* a first layer that fails ends its channel (`FirstFails`), so nothing else gets
  through (`StackTakesOnly`).

They use `GfmAssumption` (the shapes of inputs are numbers, there is a layer)
and, for the graph a reader gathers, `IInv`. Additions stay in their order, so
the equality is of the numbers the code computes, not up to reordering.

`Induction_proofs` holds what several of these need. The induction theorems of
the library take an operator, which no prover here can instantiate; `Induction`
is stated of a set of numbers instead, and is proved from there being a least
element outside it. A recursive function is a CHOOSE, so that it satisfies its
equation is a theorem too: `RecursionExists` builds it from its approximations,
and `RecursionTyped` gives its type. With these, a loop of the code that is a
recursive function in the model can be reasoned about for every input. Where no
set holds all values, as of the numbers above, which are terms of any depth, a
loop has a lemma of its own (`FormulaSteps`, `ContextSteps`, `SchemaSteps`).

Only model-checked: liveness under fairness (`IngestReturns`,
`EverythingReturns`, `RequestReturns`, `CallsAndJobsEnd`). Every invariant and
every action property that a passing run checks, and both refinements, are also
proved.

## 5. Plan

Done in this order, the behaviour everything else rests on first: `GraphStore`,
`MemGraphStore`, `SageEngine`, `SledGraphStore`; then `LlmArms`, `WriterPolicy`
and `IngestBatch` on top of the persistent store, `HttpClients`, `CliClients`,
and `QueryPlan`, `Metrics`, `GfmLayer`, `Reader` and `GfmStack` for the way back.

What is left is not more theorems about what is checked, but more to check: the
rules of `grpo.rs` that do not depend on floating point, and the check of the
embedder's dimension in `GfmReader`.

## 6. Not modelled

* Numbers behind embeddings, the arithmetic inside a message-passing layer and
  its initial weights, group-relative rewards (`grpo.rs`) and the weighted sum
  of the reward: floating point, outside what TLC and the provers compute with.
  Of the scores of entities only their order is kept. `scatter_add_1d` has no
  caller.
* Checks of dimensions that the commands set up to agree: `GfmReader`'s check of
  the embedder (`gfm_reader.rs:91-97`), the lengths of a batch in
  `reward_loop.rs:59-72`.
* A panic inside a blocking job; `effective_max_tokens` of MiniMax.
* Habituation and forgetting (`reward.rs:94-110`): floating-point formulas.
* The commands that only read and print (`list`, `stats`, `query`, `eval`), and
  the demo; the wording of prompts.
* Keys that `restore` cannot read while it lists them (`sled_store.rs:327`), and
  writes of sled that fail and are done all the same.
* HTTP, process and terminal input and output; parsing of arguments and JSON.
* The search structures of `hnsw_rs` and the inside of `sled`.
* The Python scripts, examples and data sets.
