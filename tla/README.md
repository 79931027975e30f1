# TLA+ models of the aiChat system

aiChat is a chat service with retrieval: a Go gateway and two Go RPC services
(users, AI chat) over MySQL and Redis, and a Python retrieval service over
Qdrant that an offline program fills. This directory holds TLA+ modules
translated from the source, TLC configurations that check them on small
instances, and TLAPS proofs of the properties that matter most. Paths below are
relative to the repository root.

## 1. Inventory

| Component | State it keeps | Operations | Talks to | Correct when |
|---|---|---|---|---|
| Chat handler, `app/ai/rpc/internal/logic/chatlogic.go` | none of its own; one goroutine per request | `Chat`: validate, resolve conversation, load history, search, call model, store exchange, save history | MySQL, Redis, RAG service, model API | histories are ordered, bounded, of the user's own session; exchanges stored whole; every request ends |
| Conversations and messages, `app/ai/rpc/internal/model`, `deploy/sql/ai_context.sql` | two MySQL tables | find by user and session, insert, find recent, `InsertExchange` (transaction) | Chat handler | both messages of a round or none |
| History cache (Redis key `chat:history:<user>:<session>`, one hour) | JSON list of messages | get, setex | Chat handler | agrees with MySQL once nobody works in the session |
| RAG client, `app/ai/rpc/internal/ragservice/rag.go` | none | `Search`, 5 s | RAG service | its failure never fails a chat |
| Offline indexer, `rag_index/offline_runner.py`, `indexer.py` | Qdrant collection per index version; manifest and BM25 artifact on disk | plan, create, upsert by batch, count, publish; dry run | embedding API, Qdrant | publishes only complete versions; can be repeated |
| Online retrieval, `main.py`, `rag_index/retrieval.py` | the lazily created service: BM25 index, order map | create and validate, search | Qdrant, embedding API, artifact | active only on a complete version; searches agree with Qdrant |
| Ranking and P1 context, `retrieval.py`, `bm25_index.py` | the lists and counters of one search | rank twice, RRF, MMR, neighbours under a token budget | online retrieval | agreement of the searches counts, cores are diverse, groups disjoint, within budget and complete |
| Markdown chunker, `markdown_chunker.py` | the stack, buffers and lists of one document | parse sections, build blocks, split, pack, link | offline indexer | all text once, in order, under its headings, within the limits; orders and links as the service needs them |
| User RPC, `app/user/rpc` | users table; row and index cache in Redis, with not-found placeholders | register, login, get user info | MySQL, Redis, gateway | one account per mobile; a registered user is found |
| Gateway, `app/gateway/api`, `pkg/jwt`, `pkg/ctxdata` | none | check the JWT, forward | user RPC, AI RPC | acts for the token's user only |
| Frontend, `frontend/index.html` | `sessionId`, the messages on the page | `sendMessage`, before and after its await | gateway | a user who waits for answers stays in one conversation, and the model knows what the page shows |
| Evaluation, `evaluation.py` | the ranks of the cases done so far | load, query both modes case by case, summarise, write the result | online retrieval | a result has every case or is not written; its metrics agree |
| Config parsing, generated stubs, deployment, password helper | none | | | not modelled |

What is hard here:

* requests of one session overlap (the page does not stop a second send, and
  nothing in the services serialises requests): each reads the history, waits up
  to 30 s for the model, and then overwrites the cache with what it read plus its
  own round;
* MySQL and Redis are written one after the other, with a crash, a lost
  acknowledgement or a passed deadline in between;
* the indexer writes Qdrant and then two files; runs may overlap, die and be
  repeated; a dry run writes the files alone; a service may validate meanwhile,
  reading the collection page by page;
* the retrieval service is created by the first search and must survive any
  number of failed creations;
* a search assembles groups one after the other from cores that may be
  neighbours, with fetches in between that may fail;
* the chunker is a chain of loops that share limits and track code fences
  separately, over any Markdown people write;
* the users model caches "not found", which a registration must undo;
* a reply that is lost on its way leaves the page without the session the service
  has just opened, and a redeployment leaves histories in Redis that were cached
  under another limit;
* an evaluation spends hours of calls that may fail at any case.

Every hazard, with its line and the property aimed at it, is in `PROJECT.json`.

## 2. Modules

| Module | What it is |
|---|---|
| `ChatService` | abstract specification: what the chat service promises its users |
| `ChatHistory` | the Chat handler, step by step, over MySQL and Redis, with faults |
| `MCChatHistory` | instances for TLC |
| `ChatPage` | the pages of the frontend as the clients of `ChatHistory` |
| `MCChatPage` | instances for TLC |
| `ChatHistory_proofs` | inductive invariants and the safety theorems of `ChatHistory`: it implements `ChatService`; and for clients that wait, whole rounds and a cache that agrees with MySQL |
| `ChatPage_proofs` | inductive invariants and the safety theorems of `ChatPage` |
| `IndexStore` | Qdrant and the output directory, shared by the next two |
| `OfflineIndex` | `offline_runner.main`, one action per external effect |
| `OnlineIndex` | creation, validation and searches of the retrieval service |
| `IndexService` | abstract specification: versions appear whole or not at all |
| `RagIndex` | the composition of runs and services, and its properties |
| `MCRagIndex` | instances for TLC |
| `RagIndex_proofs` | inductive invariant and the safety theorems of `RagIndex`; it implements `IndexService` |
| `Retrieval` | one search of an active service: fusion, MMR, context assembly |
| `Evaluation` | evaluation jobs over the searches of `Retrieval`, and their metrics |
| `MCRetrieval` | instances of both for TLC: six indexes, two tables of similarities, the case files |
| `Retrieval_proofs` | inductive invariant and the safety theorems of `Retrieval`, fusion and MMR among them |
| `Evaluation_proofs` | sums over finite sets, and the safety theorems of `Evaluation` |
| `Chunker` | `chunk_markdown` on one document |
| `MCChunker` | instances for TLC: the documents and a token count |
| `Chunker_proofs` | inductive invariant and proofs of the orders, links and filling of chunks |
| `Chunker_text` | sequences, folds and fences; that no text is lost, headings are right, no chunk is empty and nothing is refused without cause |
| `UserAccounts` | register, login and user info over MySQL and go-zero's cache |
| `MCUserAccounts` | instances for TLC |
| `UserAccounts_proofs` | inductive invariant and the safety theorems of `UserAccounts` |

Operators named in a comment "Mutant of ..." are deliberately wrong variants of
the definition that follows them; no specification uses them. They document which
mistake each property would detect.

### 2.1 ChatHistory

State and code: `pc[r]` is the point the goroutine of request `r` has reached in
`Chat` (chatlogic.go:44-100), one label before every call that leaves the
process; `hist[r]` is its local `history`; `mine[r]` the rows its
`InsertExchange` has inserted; `owner` the conversations table; `rows` and
`committed` the messages table (a row that was inserted in a transaction not yet
committed, or rolled back, keeps its auto-increment id and is invisible to
queries); `cache` the Redis keys. Messages are row ids. That makes order,
repetition and origin of what a history holds visible, and content irrelevant.

The key in Redis also has the user id. Sessions are fresh UUIDs that belong to
one conversation row, and `resolveConversation` admits only its owner, so the
model keys the cache by session alone.

`Rounds` are the values `Prompt.MaxHistoryRounds` has had; `maxRounds` is the one of the
running process. `Redeploy` changes it while no request is at work. The code uses
a cached history as it is, so a history may be as long as an earlier limit
allowed, and grows by one round per exchange after the limit was raised. The
properties therefore speak of the limit of some deployment.

| Action | Code |
|---|---|
| `Send`, `Refuse` | arrival of a request and `validateMessage` |
| `FindConversation`, `CreateConversation`, `CreateFails` | `resolveConversation` |
| `ReadCacheHit`, `ReadCacheMiss`, `ReadDb`, `Refill` | `getHistory` |
| `SearchDocs` | `RagClient.Search`, error ignored |
| `CallModel` | `callModel` |
| `InsertUser`, `InsertReply`, `Commit` | `InsertExchange` |
| `SaveHistory` | append, `trimHistory`, `saveHistory` |
| `FailStep` | the error returns; an aborted transaction leaves its rows uncommitted |
| `Deadline`, `Expire`, `Crash` | the environment: RPC deadline, Redis expiry or eviction, death of the process |

`Faults` selects what the environment may do: fail a MySQL, Redis or model call,
lose the acknowledgement of a write that took effect, expire keys, let deadlines
pass, crash, redeploy. MySQL calls are made with the RPC's context, so they fail once its
deadline has passed; Redis calls are made without it and do not. The commit goes
through too: go-zero begins its transactions without the context.

### 2.2 ChatPage

Each user has the page open once. `sessionId[u]` and `shown[u]` are what the page
holds, `waiting[u]` are the calls of `sendMessage` that stand at their `await`. The
module takes the place of the clients in `ChatHistory`: a request carries what
`sessionId` is when it is sent, and the handler's steps are those of `ChatHistory`.

| Action | Code |
|---|---|
| `SendMessage` | `sendMessage` up to the `fetch` (index.html) |
| `ShowReply` | the rest of it: the reply is shown, its `session_id` kept |
| `ShowError` | its `catch`: the request failed, ran out of time, or its reply was lost |
| `Reload` | the user loads the page again; handlers of abandoned calls go on |

Nothing disables the button during a call. `overlapped` remembers the pages whose
user sent a message before the previous call had settled; the properties
are about the others. Two more hypotheses of `ShownRemembered` mark what the
code does not promise. A handler whose deadline has passed goes on and may overwrite the
cache after the user has sent the next message, and a failing cache write leaves the
old history in Redis. Without the first hypothesis TLC finds a prompt that misses
an exchange the page shows, with four requests in one session; with it, that
larger instance (759,939 states) passes as the run does.

### 2.3 RagIndex

A version is a hash of the index contract and of all chunks, so `Plan[v]` is a
constant. `collections`, `points`, `manifests` and `artifacts` are the shared
store. A run `p` goes through `step[p]`; `done[p]` counts the chunks it has
upserted. A service process goes idle -> connect -> scroll -> compare -> active;
`offset` and `scrolled` are the state of its scroll; any failure takes it back to
idle (`_service` stays `None`, `main.py:166-178`). A process may be configured with a version
no run builds, or with none (`NoVersion`, which `_load_settings` refuses at every search). The checks
of numbers of the configuration (the dimension of the collection, `retrieval.py:398`; `candidate_top_k`,
`retrieval.py:425`) are left out: they can only make a process give up, which happens in the model
for other reasons anyway. On the other side, the answer of a creation or an upsert may be lost after it took
effect, and the run then fails.

Scroll follows the order of point ids, UUIDs computed from a hash, given by
`ScrollRank`. A search of an active service asks for any subset of the chunk ids in
its BM25 index and checks that Qdrant returns them all (`retrieval.py:538-540`);
ranking is left out.

One process handles one search at a time (the endpoint is `async` and never
awaits), so `_service_lock` is never contended and is not modelled. Nothing in the
program deletes points or collections.

`IndexService` says the same without batches, pages and files: a real run makes its
version whole in one step (`Store`, which is the upsert of the last missing
chunk), `Succeed` publishes it, a process takes up a version that is whole and
published, and answers from it.

### 2.4 Chunker

`Plan[v]` of RagIndex is a list of chunks; `Chunker` is how one document becomes
such chunks. A line is a heading with its level, a fence with mark, length and
whether something follows it, blank, a table-of-contents marker, or text; a text
has a size in units, the smallest pieces it can be cut into (characters, where the code cuts), and the
units that end a sentence. Every loop of the code is an
action that does one turn of it:

| Action | Code |
|---|---|
| `ReadLine`, `ReadHeading`, `Flush`, `EndRead` | the loop of `_parse_sections`; `Kept` is the popping of `heading_stack` |
| `BuildLine`, `EndBuild` | `_build_blocks` and the rest of `flush_section` |
| `SplitBlock` | `_split_oversized_block` |
| `GroupPiece`, `EndGroup` | the first loops of `_split_prose` and `_split_by_line` |
| `KeepItem`, `CutItem` | their second loop, and `_force_split` |
| `Pack`, `EndSection` | the loop of `_chunk_section`, and what remains after it |
| `Refuse` | the `ValueError`s of `_force_split`, `_largest_safe_prefix`, `_make_chunk` |
| `Link` | `_link_neighbors` |

The token count is a parameter, `Count`, of a heading path and a text, of which nothing is assumed: tiktoken
merges some characters and takes several tokens for others, so a longer text may have fewer tokens. The
separators that joining parts adds are not counted. `_largest_safe_prefix` is a binary search, which finds the
largest prefix that fits only if the count grows with the text; `SafePrefixes` are the
places where it can end for any count. Where `_force_split` then cuts depends on punctuation and is
any place up to there. For such a count `_make_chunk` may refuse a piece whose beginning was
measured (`TooLarge`). In `MCCount` a unit is a token, but the third unit of a line
is two, and the third and fourth together are one. A chunk's id is a hash with its order
in it, so the order stands for it.

### 2.5 Retrieval and Evaluation

What happens between a request and its answer in an active service. `dense`
and `lexical` are the two rankings, `candidates` the fused candidates with score
and ranks, `cores` the selection of MMR, `groups` the context groups; `pending`,
`used` and `spent` are the locals `ordered_candidates`, `used_extensions` and
`used_tokens` of the assembler. The index stays as it is during a search and
between searches (RagIndex says why), and the endpoint never yields, so a process
has one search at a time.

| Action | Code |
|---|---|
| `Request` | `POST /search`, the range check of `top_k` |
| `QueryDense`, `QueryBm25`, `FetchVectors` | `_query_hybrid_core_chunks` up to the vectors, with `_fuse_rrf` |
| `SelectNext`, `Selected` | `_select_mmr`, one selection per step |
| `StartGroup`, `Consider` | the loops of `assemble` and `_select_extensions` |
| `Finish`, `Fail` | the answer, or an error of the embedding service or Qdrant |

Which chunks Qdrant and BM25Okapi rank, and in which order, is any choice; Qdrant is
assumed to return as many points as it is asked for, and BM25 any number up to
the limit. Which chunks are alike is chosen when the vectors are fetched. Scores are
exact integers: RRF scores in units of `1/Scale`, a multiple of all denominators, and
MMR scores multiplied by the width of the RRF scores instead of divided by it.
Rounding of floating-point numbers is left out, `math.isclose` is equality.

A process is the web service or an evaluation job (`job`). The job
drives the same steps as the service up to the selected cores, for each case
in turn: `QueryBaseline` is the Dense query of its own, `HybridStep` the hybrid one,
`RecordCase` the two first ranks. `Summary` are the metrics, with the sums
kept exact in units of `1/Scale` instead of divided by the count. The reading of the JSONL
file is any valid file or a refusal (`LoadCases`).

| Action | Code (`evaluation.py`) |
|---|---|
| `LoadCases` | `main`: the argument check, `load_evaluation_cases`, creation of the service |
| `StartCase`, `QueryBaseline`, `HybridStep`, `RecordCase` | one turn of `evaluate_cases` |
| `CaseFails` | an exception of the embedding service or Qdrant: the job ends with 1 |
| `WriteResult` | `write_evaluation_result`, by a temporary file and `replace` |

### 2.6 UserAccounts

`pc[r]` is where the handler of `r` is; `users` the table; `index` the keys
`cache:users:mobile:<mobile>`; `cachedRows` the keys `cache:users:id:<id>` (this program never
updates or deletes a row, so a cached row is known by its id).

| Action | Code |
|---|---|
| `Ask`, `AskInfo` | arrival of Register and Login; of GetUserInfo, with the id of a token issued before |
| `ReadIndex`, `QueryIndex`, `StorePlaceholder`, `SetRow`, `SetIndex` | `FindOneByMobile`: index key, query, and what go-zero writes back |
| `ReadRow`, `QueryRow`, `StoreRow` | `FindOne`, and the second half of `FindOneByMobile` |
| `Answer` | a row was found: Register refuses, Login compares the password and issues a token, GetUserInfo returns it |
| `Insert`, `DeleteKeys` | `Insert` of the generated model, then the token, which may fail with the user registered |
| `RetryDelete`, `ExpireIndex`, `ExpireRow`, `Crash` | the environment |

What go-zero does is modelled from its calls in `usersmodel_gen.go`: a missing
row is remembered by SETNX of a placeholder for a minute, the row is cached before its
index key, a failed deletion is tried again later, an error of the
insert returns before any deletion. Lookups of one key in one process are shared: `Waiting(r)` are
the requests that may be waiting for the lookup of `r`, and any subset of them
gets its result (with several processes they need not wait). For the same reason `Crash` ends any of the
requests under way and loses any of the deletions to be tried again.

Registration itself looks the mobile up and so plants the placeholder that its
own insert must delete. A lookup that reads MySQL before the insert and writes
its placeholder after the deletion hides the new user for that minute; the
insert that loses its answer does too. That is why `FoundWhenQuiet` is checked for one
request at a time per mobile without lost answers and crashes, and `FoundInTheEnd` is what holds in general.

## 3. What the runs check

| Run | Instance | Checks |
|---|---|---|
| `chat_overlap` | 3 requests, 1 user, 1 session, limits of 0, 1 and 2 rounds, every fault | `TypeOK`, `HistoryInOrder`, `ExchangeWhole`, refinement `ImplementsService` |
| `chat_serial` | 3 requests, 2 users, 2 sessions, limits of 1 and 2 rounds, `SerialSpec`; Redis reads, MySQL and the model fail, keys expire, deadlines pass, redeployments | `CacheFresh`, `WholeRounds` |
| `chat_live` | 2 requests, 2 users, 2 sessions, limit of 2 rounds, every fault but redeployment, `FairSpec` | `HistoryIsolated`, `EveryRequestEnds` |
| `chat_page` | 2 users with a page each, 3 requests, 2 sessions, limits of 1 and 2 rounds, lost replies, reloads, every fault but failing cache writes | `OneConversation`, `ShownRemembered` |
| `chat_lost_update` | 3 requests, 1 session, no fault | `CacheFresh` is violated (finding 1) |
| `rag_publish` | 3 runs, 2 versions (3 chunks in 2 documents; empty), 1 service, batches of 2, pages of 1, every fault | `TypeOK`, `ActiveComplete`, `SearchConsistent`, `RealRunComplete`, `CountMatches`, refinement `ImplementsIndexService` |
| `rag_serve` | 2 runs, 2 versions, faulty runners, `FairSpec` | `EventuallyServed` |
| `rag_manifest` | 2 runs, no fault | `FailedRunWritesNoManifest` is violated (finding 2) |
| `chunker` | all documents of up to 3 lines of 11 kinds, of 4 and 5 lines of 5 kinds, and some more, of up to 6 lines; limits 3 and 5, a token count that is not monotone, `FairSpec` | `TypeOK`, `TextKept`, `HeadingsRight`, `WellFilled`, `NoEmptyChunk`, `OrdersContinuous`, `LinksRight`, `RefusedForRoom`, `ChunkingEnds` |
| `rag_search` | 4 chunks in 2 documents, 6 indexes, 3 candidates per ranking, `top_k` 0 to 4, failing calls; a service or an evaluation job over files of one and two cases | `TypeOK`, `RankedByBoth`, `Diverse`, `EnoughCores`, `NoChunkTwice`, `BudgetKept`, `NothingMissed`, `ResultWhole`, `MetricsConsistent` |
| `accounts_overlap` | 3 requests, 2 mobiles, 2 passwords, every fault (failing token generation among them), `CanonicalSpec` | `TypeOK`, `TokenRight`, `OneAccount`, `FoundInTheEnd` |
| `accounts_serial` | 4 requests, 2 mobiles, `SerialSpec`; Redis, MySQL and tokens fail, keys expire | `FoundWhenQuiet` |

Why the bounds are enough. Three requests are what a lost update and its
observation take: one that stores, one that overwrites, one that reads. A limit of
one round makes every second exchange trim, a limit of none empties every history,
and a redeployment from one to the other meets a cache that is too long. A limit of two
lets a history hold the messages of two requests: in `chat_overlap` an older history is then joined with
a new round, which is where it can get out of order or repeat a message, and with three
requests such a history is trimmed. Two requests are what it takes
to mix two sessions up. In `chat_page`, two sessions are what a page loses one for, and two users
are what it takes to show a page the session of another. Two sessions and two users are what a mix-up
takes. Three runs give two that race and one that repeats; batches of two over
three chunks give a full and a partial batch; pages of one let an upsert fall
before, at and behind the offset of a scroll, and `MCScrollRank` puts the chunk
that is upserted last at the front of the scroll. 
In `chunker`, five lines are a heading, another one, a fence around one that is none,
and text; the lengths of lines and headings against limits of 3 and 5 reach every
branch: blocks that fit, that are split at sentences, at lines and inside a line, and headings that leave room for one unit or none, or for a unit but not for the third
of a line, which is two tokens. In `rag_search`, three
chunks of a document make cores that are neighbours and cores with a neighbour in
common; the token counts let both, one or no neighbour fit, and the layouts have
siblings, text before the first heading, and chunks that are not related. With three
candidates of four chunks a chunk may be in both rankings or one. The weights 2
and 1 with a rank constant of 1 make both rankings matter and ties occur; with the
deployed 1.0 and 0.005 (`rag-retrieval.yaml`) BM25 hardly ever changes the order, which the
properties do not depend on. Two cases are what an evaluation takes to fail after a case
that worked and to have two stress types; three hits and a miss are all the ranks there are.

The other bounds are those of the
instances: each request and each run happens once, so retries are further requests
and runs; all of `Sessions` taken ends the id space (`CreateFails`).
Symmetry is declared in runs without liveness properties only; no module
orders the elements of a symmetric set.

`CanonicalSpec` of `accounts_overlap` breaks the symmetry of requests, mobiles and passwords in
the specification, since TLC takes no symmetry sets when it checks liveness: the requests are sent
in order, the first with the first mobile and password.

Deadlock is checked in `rag_search`, whose service always takes another request (an evaluation
job that has exited stays so), and in `chat_page`, where a page can always be loaded again. In the
other runs it is not: the modelled clients and runs stop when their requests
and runs are used up, and the chunker when its document is done.

`CacheFresh` and `WholeRounds` need the assumption of `SerialSpec`, that a client
sends its next message after the handler of the previous one has ended, and hold
then also when requests end by error or after their deadline. `CacheFresh` leaves
out failing cache writes, lost acknowledgements and crashes, after which the code
accepts an old cache entry until it expires.

## 4. Fairness

`ChatHistory!FairSpec` is weak fairness of each handler: a goroutine goes on until
it returns, since each call it makes ends (the model client after 30 s, the RAG
client after 5 s, MySQL calls with the RPC's context, Redis with the timeouts of its
client). Clients, faults, expiry and crashes are owed nothing.

`RagIndex!FairSpec` is weak fairness of each service process: users go on
searching, so a failed creation is tried again. Runs are owed nothing;
`EventuallyServed` assumes instead that one has ended with exit code 0, and that
Qdrant can be reached from then on (`ServerFaults` is FALSE in that run).

`Chunker!FairSpec` is weak fairness of its steps: it is one sequential call.

`UserAccounts!Fairness` is weak fairness of the handlers, of the retried
deletions and of the expiry of index keys, which go-zero sets with a lifetime.

## 5. Proofs

All theorems hold for every value of the constants under the assumptions named in
the modules (`ConfigAssumption`, `SentinelAssumption`, `PlanAssumption`,
`RunnerAssumption`, `ServerAssumption`, `AccountsAssumption`, `SettingsAssumption`,
`UnitAssumption`, `IndexAssumption`, `CaseAssumption`, `ReciprocalAssumption`, `LimitAssumption`, `DocumentAssumption`); requests, users, sessions, versions, runs
and services may be any sets.

`ChatHistory_proofs`: `TypeCorrect`, `HistoryOrder`, `HistoryIsolation` and
`ExchangeAtomicity` follow from one inductive invariant. Beyond the properties it
says, for each label, which rows the handler has inserted, that they are newer
than every row in its history, that a handler past `resolve` owns its session, and
that uncommitted rows belong to a handler in its transaction or are never
committed. Order needs that: `SaveHistory` appends the handler's own rows to
a history loaded earlier, and only because ids grow is the result in time order.

In the same module `Refinement`, that `Spec` implies `ImplementsService`:
initial states map to initial states, each step to a step of `ChatService` or to
a stutter. `Commit` maps to `Save`, `SaveHistory` to `Reply` (or to a stutter when
the deadline has passed), `ReadCacheHit` and `ReadDb` to `Quote`.

`RagIndex_proofs`: `TypeCorrect`, `ActiveOnComplete`, `SearchesAgree`,
`PublishedComplete`, `CountsMatch`. The inductive invariant adds that points are
always chunks of their plan and artifacts always whole or absent, that a run at
label `embed` has upserted its first `done[p]` chunks and past it all of them,
that a process past `idle` has a version, and that what it has scrolled or loaded is part of it; so when the
comparison succeeds the scrolled set, the loaded set and the plan are one.
`CountsMatch` takes from `PlanSize` that a plan without repetition has as many
chunks as its set.

In the same module `Refinement`, that `Spec` implies `ImplementsIndexService`, from the same
inductive invariant. The upsert of a batch maps to `Store` if it completes the version and to a
stutter otherwise, the end of a run with 0 to `Succeed`, and the comparison that makes a process
active to `Activate`, which is where the equality of the three sets is needed again.

`Retrieval_proofs`: `TypeCorrect`, `CoresFound` (`EnoughCores`), `GroupsDisjoint`
(`NoChunkTwice`), `GroupsWithinBudget` (`BudgetKept`) and `NeighboursExplained`
(`NothingMissed`), for any finite index, any rankings and similarities. The inductive
invariant has these parts: which variables are empty in which phase (`PhaseSound`); no
core is selected twice and the groups follow the cores (`CoresSound`); `used` holds
exactly the extensions of the groups, none of them a core and none in two groups
(`UsedSound`); a group consists of neighbours within the budget, and every related
neighbour of its core is explained or still pending (`GroupSound`); what is pending are
neighbours of the last core that are not in its group, and `spent` is what the tokens of
that group add up to (`PendingSound`). `EnoughCores` has a counting part of its own
(`CountInv`): there are enough distinct candidates for `topK` of them.
`NothingMissed` needs that neighbours were left out only when `Wanted` was
false and that each of its reasons stays true: cores and used chunks stay, and the
tokens of a group only grow. Fusion and the MMR comparison are not needed for these
and are not unfolded.

They have two theorems of their own, with a small invariant each. `AgreementCounts`
(`RankedByBoth`): the ranks of the candidates lie in `1 .. Unranked` and a score is the sum of
what the two ranks add (`FusionSound`). `Scale` is a multiple of every denominator
(`UnitAssumption`), so the divisions are exact and a better rank adds strictly more
(`PartFalls`); the score alone then decides. `ChosenForAReason` (`Diverse`): the maxima and minima
over the candidates exist because there are finitely many chunks (`Extremes`, by a least
counterexample), the width of the scores is positive, and relevance is ordered as the scores are
(`SpreadType`); a choice that lost in both respects would have the smaller MMR score
(`Weighed`). Cores selected before keep their reason, as the candidates that are left only get fewer.

`Evaluation_proofs`: `ResultsCovered` (`ResultWhole`), `MetricsAgree` (`MetricsConsistent`) and
`SearchesSound`, for every evaluation set, limit and ranking. A process is the service of `Retrieval` in
another order: its steps are those of `Next` but for `RecordCase`, which ends a search without its groups.
`SearchSound` is the invariant of `Retrieval_proofs`, and `SearchesSound` says that its properties survive this.
The invariant adds: unless the job has failed, both modes have a rank for exactly the cases measured (`RanksSound`);
no case is searched for with a limit the service refuses (`LimitSound`); nothing is expanded (`NothingExpanded`);
and a result is the summary of all ranks (`ResultSound`). What is left of `MetricsConsistent` is arithmetic over sums.
`SumFunction` of the community modules is a fold, and a fold is defined by recursion over sets, of
which the prover knows nothing; `SumsExist` proves that its function exists, `SumOf` that a sum may be taken in any
order, `SumBoth` and `SumParts` that the sums of parts add up to that of the whole. These are inductions,
and since no theorem with an operator parameter can be used, a property is passed as the set of
the numbers or subsets that have it (`Counting`, `Removing`). `OneMore` and `ShareBounds` are the bounds for one
more case, `MetricsBounded` those for all.

`UserAccounts_proofs`: `TypeCorrect`, `TokensRight`, `OneAccountPerMobile`, `FoundSerially`. The
inductive invariant adds that a mobile has one row, that index keys and the rows
handlers work on are of the right mobile (so a result shared with those that
wait is right for them too), and that a row has one inserter that still answers for it, which makes two successful
registrations of one mobile impossible.

`FoundSerially` is `FoundWhenQuiet` under `SerialSpec`, when no answer is lost and no process
dies (`lostAck` and `crash` are not in `Faults`); Redis and MySQL may fail and keys expire.
Its invariant says that a placeholder for a registered mobile is about to be deleted, by the handler that
registered it or by a retry (`DenialEnds`), and that a mobile whose placeholder is being written is still free
(`FreeForNow`): with one request at a time per mobile, nobody else registers it meanwhile.

The second part of `ChatHistory_proofs`: two theorems for clients that wait for their answer, `SerialSpec`.
`RoundsWhole` (`WholeRounds`) holds under every fault. Its invariant: what a session stores
that can be read is whole rounds, a user row and the reply next to it (`StoredWhole`); so is every
history in a cache or in a handler (`HistoriesWhole`); and the rows of an open transaction are newer than all that
its session stores (`MineNewest`), because no other handler works there. Trimming keeps rounds whole because
it keeps an even number. `CacheAgrees` (`CacheFresh`) assumes that `Faults` has none of
`redisSet`, `lostAck` and `crash`. Its invariant adds that a cached history of an idle
session lists the newest rows stored (`CacheKept`), that what a handler has loaded does so
too until it stores its round (`LoadedFresh`), and that this round then comes right after what it has loaded (`SavedNext`).
Without the hypothesis the property fails, as section 3 says.

`ChatPage_proofs`: `PagesConverse` (`OneConversation`) and `PagesRemembered` (`ShownRemembered`).
The pages drive the handlers of `ChatHistory`, so the invariant of `ChatHistory_proofs` is the first part of
both. `PInv` adds that a session is named only by requests of the user it belongs to (`SessionsKnown`), that what a
page waits for was sent for its user, that what it shows was answered and that it goes on in a session it shows (`PageSound`), and that a page whose user waits
has one message under way, in the session of all that it shows (`WaitSound`). So `PagesConverse` says two things: for
every page, that it shows replies of its own user's sessions only and goes on in one of these, also when sends overlap; and
for users who wait for each answer, that all it shows is one conversation, whatever replies are lost, fail or are late. With
overlapping sends the code does open two conversations, and the theorem does not deny it. `PagesRemembered` is narrower: it
is about users who wait and none of whose messages has passed its deadline, and assumes that
`redisSet` is not in `Faults`: a cache write that fails leaves an older history behind. Its invariant `RInv` is about
users who wait and none of whose deadlines has passed. No other handler works in the session of their page
(`SessionsQuiet`), and every reply shown is in the history a handler has loaded and in the cached one, or that history
is as long as the limit and all of it is newer (`ShownCovered`, by `Covers`). Trimming keeps this because it drops the
oldest messages (`TrimCovers`), saving because a round is newer than all that was shown (`AppendCovers`, `SavedCovers`),
and a history read from MySQL has it because the rows shown are committed (`RecentCovers`).

`Chunker_proofs`: `OrdersRight` (`OrdersContinuous`), `LinksToNeighbours` (`LinksRight`) and
`ChunksFilled` (`WellFilled`), for any documents, limits and any token count that is an integer
(`CountsTokens`). Nothing is assumed of the count: it need not grow with the text. The inductive invariant is about the list of
all chunks made so far, `Made`, which is `chunks` followed by `fresh`:

* `Numbered`: the order of a chunk is its place in that list, so `EndSection` may
  append one list to the other;
* `Filled`: every chunk fits, and one that is followed by another of its section reached the soft limit
  or had no room for the first part of that one. `Packing` carries this over the loop: the last chunk made
  ended before the first part now packed;
* `Grouped`: chunks of one section follow each other. The last heading of a path is a line, and lines only
  grow: `SectionsRise` says so of the sections, and `Parsing` that the section under the present headings is
  closed only when the next heading or the end is reached, so that no two sections have one path. This is why
  `_link_neighbors`, which groups chunks by path, links neighbours: a sibling on one
  side means that the chunk next to it is a sibling (`Contiguous`).

`Chunker_text`: `ChunkerTypeOK` (`TypeOK`), `AllTextKept` (`TextKept`), `HeadingsAreRight`
(`HeadingsRight`), `NoEmptyChunks` (`NoEmptyChunk`) and `RefusalsForRoom` (`RefusedForRoom`). The first three
assume nothing of the token count; they hold for every document and all limits.

The prover knows nothing of `FlattenSeq` and `Among`, which are folds, of `SubSeq` and `Max` as the
code uses them, or of `Fenced`, which is recursive. So the module begins with them: folds over sequences and what they give
behind one element more (`FlattenStep`, `FlattenHead`, `FlattenBoth`), the members of a set in their order,
and the existence of `Fenced` (`FencedRight`, `FencedSame`), all by induction over positions: a property is passed as the
set of positions that have it (`Reached`). `Joins`, `Texted` and `Solids` collect what is needed of
lists of texts later, so that the steps below do not unfold a fold again.

The inductive invariant `TInv` has these parts:

* `Fields`: a block, part or chunk under a heading path is made of units of lines that are under just these headings
  (`Under`), which is the type invariant and the invariant for `HeadingsRight` in one;
* `Scanned`, while sections are parsed: the fence of `_parse_sections` is the one open before the next line, the stack
  is the headings over that line, and all lines read but not yet in a block are under the same headings. The
  fences of `_build_blocks` start afresh in every section; they agree with the document because a section never begins
  inside a fence, as headings in fences do not end sections;
* `Filed`: the text of the lines passed is in the sections, the blocks, or among the pending lines. Blank lines have no
  units, and a table-of-contents marker is dropped only when it stands alone, which is what `Contents` says of the document;
* `Conserved`, while sections are chunked: chunks made, parts packed, parts, items, open pieces, pieces, blocks and sections
  left, read in this order, are the text of the document at every step. Each action only moves text between neighbours in this list;
* `Idle`: which of them are empty in which phase.

`NoEmptyChunks` adds `EndsWithText`: the last part of a section, or of what is left of it to split, is not empty,
because a block never ends with a blank line. A chunk that is closed by a part that does not fit has text too: if it had none,
that part would not fit by itself, and `Pack` would not be taken.

`RefusalsForRoom` holds for every token count that is an integer, that of tiktoken included. A document is refused over a line
whose headings fill the chunk or leave no room for one of its units, or because the count shrinks: a beginning of a text under
these headings has more tokens than the hard limit where the text has not (`Shrinks`). It adds `PartsFit`: a part that does not fit
is the beginning of a text that was measured and fitted, so `_make_chunk` refuses only what shrinks.
`_largest_safe_prefix` finds nothing only if the first unit of what is left does not fit, which is the last thing its search
tries (`NonePrefix`). With a count that grows with the
text, as that of the tests (`CharacterTokenCounter`), the third reason never occurs.

Only TLC checks liveness (`EveryRequestEnds`, `EventuallyServed`, `FoundInTheEnd`, `ChunkingEnds`), which needs fairness
and ENABLED, beyond the prover. Every invariant and action property of a passing run is stated by a theorem.

## 6. Findings

1. *The cache loses exchanges of overlapping requests* (run `chat_lost_update`).
   Two requests of one session load the same history; both store their exchange;
   the one that saves last overwrites the cache without the other's round
   (chatlogic.go:92). Until the key expires, prompts miss a message MySQL holds.
   `docs/coding-agent技术设计.md:14` describes Redis as a cache of the recent
   conversation in MySQL.
2. *A failed run can leave a manifest* (run `rag_manifest`). The docstring of
   `main` (offline_runner.py:259) says that a failed run writes no success
   manifest; `write_local_artifacts` (offline_runner.py:241-243) writes it before the BM25 artifact,
   which always fails for a plan without chunks. The online service is not misled:
   it needs the artifact (`ActiveComplete`).
3. *Two docstrings disagree about `chunk_order`* (run `chunker`, which passes). That of `_make_chunk`
   (markdown_chunker.py:370) calls it the order within the section ("chunk_order 为 section 内顺序");
   that of `_chunk_section` (markdown_chunker.py:198) says that it rises through the whole document. The code does the latter
   (markdown_chunker.py:127), the tests expect it, and the service rejects an index in which it has a gap
   (`_build_document_chunk_orders`). `OrdersContinuous` states what the code does; its mutant `MadeInSection`
   is what the docstring of `_make_chunk` says.

One more observation has no run of its own. `NoEmptyChunk` excludes sections whose
heading path alone reaches the soft limit (800 tokens). Without that condition
TLC finds a code block in which a blank line lies between two lines that each exceed the
hard limit: `_split_by_line` makes the blank line a piece of its own, and `_chunk_section`
makes it a chunk with an empty text at once, because the headings already reach the soft limit.
`from_point` (retrieval.py:124) rejects such a chunk. Headings that long hardly occur.

## 7. Not modelled, and the plan

Left out for good: text (prompts, replies, logging), embeddings and scores as
floating-point numbers, tokenisation, reading of configuration files, generated stubs,
deployment files, the unused password helper.

In part: the gateway is represented by what it hands on, a request that carries the user of its
token; the checks of a token have no state. The configuration of the retrieval service is its range checks, which are
the assumptions of `Retrieval`. In `OnlineIndex` the checks of the dimension and of `candidate_top_k` are
left out (section 2.3).

One index run and one search are modelled apart from each other because they do not meet: a search of an active
service sees an index that no longer changes (`ActiveComplete`, `SearchConsistent`), and a chunk's
content is fixed by its version. What the chat service gets from a search is not followed into the prompt.

The plan, in this order:

1. that a chunker which does not refuse makes no more chunks than its document has units, a bound from which the
   ranking of steps behind `ChunkingEnds` could be stated as a safety property;
2. an instance of `rag_publish` with a second service, once its state space allows it.
