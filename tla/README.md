# Formal models of the chromey hybrid HTTP cache

This directory holds TLA+ models of the cache and synchronisation engine in
`src/src/cache.rs`, `src/src/cache/dump_remote.rs` and `src/src/cache/remote.rs`,
with TLC configurations that model-check them and TLAPS proofs.

## The system

| Part | Code | Role |
|---|---|---|
| Cache Key & Policy | `cache.rs` `create_cache_key_raw` (31-51), `get_cached_url` (53-70) | derives the lookup key `METHOD:uri[:auth]`; reads the local store with a 60 ms timeout and drops stale entries |
| Base-Tag Rewriter | `cache.rs` `rewrite_base_tag` (72-194), `STREAMING_CHUNK_SIZE` (11-29) | streams a cached page through lol_html, inserts `<base href>` before `</head>` or `<head><base></head>` before `</html>`, removes relative base tags, short-circuits when an absolute base exists |
| Local Store Adapter | `cache.rs` `convert_headers` (269-289), `put_hybrid_cache` (291-340) | builds the synthetic request/response pair, computes a `CachePolicy`, writes to `CACACHE_MANAGER` |
| Remote Dump Worker | `dump_remote.rs` (whole file) | process-wide OnceCell holding the sender of a bounded mpsc channel; one spawned task receives jobs, checks an in-flight set, waits for a rate tick, pushes under a timeout |
| Remote Sync Client | `remote.rs` `dump_to_remote_cache` (51-113), `get_cache_site` (120-188), `seed_payload_into_local_cache` (194-239) | POSTs one entry to `{base}/cache/index`; GETs `{base}/cache/site/{key}` and seeds each entry into the local store |
| Configuration | `dump_remote.rs` `default_*` (121-146) | environment variables for queue capacity, qps and timeout |

How they interact: after a fetch, the caller writes the response to the local
store (`put_hybrid_cache`) and may hand a `DumpJob` to the worker via
`enqueue_best_effort`, `enqueue` or `try_enqueue`. The worker calls
`dump_job`, which calls the remote client's push. Before first visiting a
site, the caller may pull it (`get_cache_site`), which writes every entry
back into the local store. A page served from the cache goes through
`rewrite_base_tag`.

`dump_job` (`dump_remote.rs:93`) calls `super::remote::dump_to_remote_cache_parts`,
which `remote.rs` does not define; `remote.rs` has only `dump_to_remote_cache`,
which takes a `crate::http::HttpResponse`. The models take the push to be
`dump_to_remote_cache` applied to the job's fields, which is what the call's
arguments and the spec describe.

## Modules

### `DumpWorker` (Remote Dump Worker, `dump_remote.rs`)

The state of the worker:

- `inited`: whether `REMOTE_DUMP_TX` is set.
- `queue`: the channel buffer.
- `waiters`: senders suspended in `send().await`, in FIFO order.
- `st[j]`: the life of each job.
- `wpc`: where the worker task is (`recv`, `tick`, `push`).
- `cur`, `inflight`: the job it holds and the `HashSet` of line 37.
- `toTick`: the milliseconds to the interval's next deadline (negative when late).
- `elapsed`: the time spent in the current push, for the timeout.
- `sinceStart`: a history variable, the milliseconds since the last push started (capped at `TickMs`).
- `dupOnAccept`: a history variable, the jobs that entered the channel while a job with the same key was queued or being pushed.

Actions, one per operation:

- `InitRemoteDumpWorker` (lines 63-73; `get_or_init` is atomic because `init_inner` has no await before the spawn).
- `EnqueueBestEffort`, `Enqueue` and `TryEnqueue` (75-89, 113-119). The first two initialise the worker first. `Enqueue` on a full channel suspends the caller, and the permit freed by the worker's `recv` goes to the oldest suspended sender, as in tokio's semaphore.
- `Recv` (39-42), including the in-flight check. Its helper `RecvStep` also moves the oldest suspended sender's job into the channel in the same step. In tokio the permit is assigned to that waiter at once, and its job enters the buffer only when its task is next polled. The model merges the two. No other sender can take the assigned permit in between, so only the moment of the push shifts, not the order of the jobs.
- `Tick` (43), with tokio's `MissedTickBehavior::Delay` rule in `NextTickOffset`.
- `DumpJobReturns` and `DumpJobTimeout` (45-54).
- `Advance`, one millisecond of time.

The remove of line 56 is part of both push outcomes (`Finish`). The channel
capacity is `Cap = max(1, queue_cap)` and the tick is
`TickMs = max(1, 1000 / max(1, qps))`, as in lines 29 and 32-33.

`TickSlack` is tokio's lateness slack: an `Interval` tick that fires no more
than 5 ms after its deadline keeps the schedule (next = deadline + period);
a later one is rescheduled from now. This is tokio's behaviour, not code of
this repository. The model takes the slack as a constant (5 in the runs) and
states it in `NextTickOffset`.

### `BaseTagRewriter` (Base-Tag Rewriter, `cache.rs` 72-194)

A document is a sequence of tokens, drawn from:

- `html`, `/html`, `head`, `/head`;
- `baseAbs` (a base whose href starts with `http://` or `https://`);
- `baseRel` (any other base);
- `text`.

The enumerated documents have at most one `html`, well-nested elements and no
`html` inside `head`. The model is not restricted to well-formed HTML.
Well-nesting is the closed form `Nested`: an element is open after `n` tokens
iff its last start tag among them has no end tag after it (`IsOpen`). The
stack machine `StackAfter` is kept as the reference. `MC_BaseTagRewriter`
checks, in the assumption `NestedIsStackAfter`, that the two agree on every
token sequence of at most `MaxLen` tokens, and that `StackAfter` then yields
the stack `OpenAfter`.
`utf8` says whether the input bytes are valid UTF-8.

The state:

- `phase`: where the function is.
- `pos`, `inChunk`, `progressed`: the chunk loop of lines 170-183. A chunk ends after any number of tokens, so every chunk size, including tokens straddling chunks, is covered.
- `inserted`, `present`: the two OnceLocks.
- `open`: the stack of open head/html elements. Each entry holds the snapshot of `base_tag_inserted` that its end-tag closure cloned at lines 118/137.
- `out`: the output buffer.
- `wroteError`.
- `result`: `original` (`from_utf8` of the input), `empty` (its `unwrap_or_default`), or `rewritten` (`auto_encode_bytes` of the buffer).

The handlers `OnBase`, `OnStartTag` and `OnEndTag` follow lines 90-153.
`Finish` is lines 185-193.

### `CacheKey` (`create_cache_key_raw`, `cache.rs` 31-51)

Keys are computed as sequences of characters, because the properties are
about the format. The inputs are uris and credentials of up to
`MaxStrLen` characters over an alphabet that contains `:`. The override
method is absent, `GET` or `PUT`, and auth is absent or a string. The state
is a pair of inputs chosen by `Init` and never changed. This is the usual way
to check a pure function for all pairs of inputs.
`KeyAssumption` also says that methods contain no `:`, since an HTTP method is
a token.

### `BestEffortQueue` (the worker's promise, spec 4.4 and 5)

The abstract specification. Its state:

- `pending`: the accepted jobs not yet pushed, in order.
- `status`: for each job, `new`, `accepted`, `dropped` or `done`.

A job is either accepted (`Accept`, appended) or dropped (`Drop`). `Complete`
pushes the oldest pending job. `Spec` adds weak fairness on `Complete`: every
accepted job is eventually pushed.

`DumpWorker` implements it (`DumpWorker.Refines == BEQ!Spec`) under this mapping:

- `AbstractPending == (Held \o queue) \o waiters`: the job the worker holds, then the channel buffer, then the suspended senders. A suspended sender counts as accepted, because its `send().await` is bound to succeed and its place in line is fixed: the freed permit goes to the oldest waiter.
- `AbstractStatus` maps `queued`, `blocked` and `taken` to `accepted`, `rejected` to `dropped`, and `deduped` and `done` to `done`.
- `Recv` is a stutter. It moves the head of the buffer into the worker's hand, and may hand a permit to a waiter, which only moves the waiter from the tail of one sequence to the tail of the next.
- `Finish` is `Complete`. An enqueue is `Accept` or `Drop`.

### `RemoteSync` (Local Store Adapter, Remote Sync Client and `get_cached_url`, composed)

The components that touch the local store, in one module, because the
interesting behaviours are between them.

State:

- `ver`, `fetched`: the versions fetched per url. A body is its version.
- `store`: `CACACHE_MANAGER`, key to entry. An entry has a url, a version, response headers, an `age` and a `life`, the freshness its `CachePolicy` grants.
- `dumped`, `jobs`, `wpc`, `wcur`, `wwait`: the push side. The worker queue is taken at the level of `BestEffortQueue`, a FIFO of accepted jobs, because `DumpWorker` is shown to implement it. `wwait` counts the ticks of the current POST.
- `net`: the POSTs on the wire.
- `server`: the remote server's entries by resource key.
- `ppc`, `ptarget`, `presp`, `ptodo`, `seeded`, `putFailed`: a `get_cache_site` call and its seeding loop.
- `rpc`, `rkey`, `rsnap`, `rwait`, `rres`: a `get_cached_url` call, the entry its store read returned, and its outcome.

Actions:

- `PutHybridCache` (`cache.rs` 291-340). It stores nothing when the url does not parse, and the put may fail. The policy is computed as the code computes it, with the response headers on the request side (line 307) and the request headers on the response side (313).
- `EnqueueDump`, the accepted `enqueue_best_effort`.
- `DumpToRemoteCache` (`remote.rs` 59-92), which builds the payload and sends the POST.
- `PostReturns` (94-112), and `PostTimeout` (`dump_remote.rs` 45-56). After a timeout the POST stays in `net`.
- `GetCacheSite`, `SiteFails` (the three early returns), `SiteResponds`, `SeedPayload` (one turn of the loop, with every error of `seed_payload_into_local_cache`) and `PullDone`.
- `GetCachedUrl`, `StoreRead`, `StoreGetReturns` and `ReadTimesOut` (`cache.rs` 53-70). The read is not atomic. `StoreRead` takes the entry inside the await (line 57) into `rsnap`. `StoreGetReturns` judges that entry's staleness when the await returns, as `SystemTime::now()` at line 63 does. In between, ticks age the entry read, and puts and seeds may overwrite the key in the store. The timeout may fire before or after the store read.
- `Tick`, one clock tick. It ages every entry and the two waits.
- The server (`ServerIndex`, an upsert by resource key; `SiteLists`, the answers to a site GET) and the network (`LosePost`) follow spec 6. They are not code of this repository.

Abstractions:

- There is no absolute clock. An entry keeps its age, capped at `life + ReadTimeout`, where every staleness test gives the same answer.
- `CachePolicy::new` (http_cache_semantics) is reduced to: `max-age` in the response headers and no `no-store` in the request headers gives `MaxAge` ticks of freshness, and anything else gives none (`PolicyLife`).
- Header maps are small sets of directives. `convert_headers` is checked on its own in `HeaderConversion`, and within its bound it keeps every well-formed header.
- Status codes, methods and HTTP versions are left out. No property tells them apart.
- A site list may contain an entry whose body does not decode (`Wire`).

### `HeaderConversion` (`convert_headers`, `cache.rs` 269-289)

The input is a header map, taken in every iteration order: a sequence of
entries with distinct names. Each entry is valid or not for
`HeaderValue::from_str`, and for `HeaderName::from_str`. The latter also folds
the name to lower case (`CanonOf`).

The state:

- `hs`: the input.
- `i`: the enumerate index.
- `out`: the `HeaderMap`.
- `pc`: where the loop is.

`ConvertEntry` is one turn of the loop: the two checks, `insert` (which replaces), then the
`index > Limit` break. `LoopEnds` is the exhausted iterator. `Limit` is the
code's 1000, and 1 in the runs.

## Runs

| Run | What it checks | Result |
|---|---|---|
| `dumpworker` | `TypeOK`, `InflightOnlyCurrent`, `JobsConserved`, `MinGap`, `AcceptedJobFinishes`, `Refines` | passes (about 31k states) |
| `dumpworker_dedup` | `DedupSuppressesDuplicate` | violated: the dedup branch is dead code |
| `dumpworker_burst` | `NoBurst` at 250 qps | violated: two pushes start in the same millisecond |
| `rewriter` | `TypeOK`, `AtLeastOneBase`, `NoStrayBase` | passes (about 210k states) |
| `rewriter_once` | `AtMostOneInsertion` | violated: TLC's trace is `<html></html><head></head>`, which gets two insertions, as `<html><head></head></html>` does |
| `cachekey` | `KeysCollideExactly` | passes |
| `cachekey_collision` | `KeysInjective` | violated: `(":", GET, None)` and `("", GET, Some(""))` both give `GET::` |
| `remotesync` | `TypeOK`, `StoreHoldsFetchedVersions`, `SeedIsolation` | passes (about 1.9M states, 1.5 min) |
| `remotesync_swap` | `StaleMeansExpired` | violated: a response with max-age is stored stale |
| `remotesync_site` | `PulledSiteHasPushedPages` | violated: the pull asks for `GET:<url>`, the server groups by host |
| `headers` | `ConvertsPrefix` | passes (46k states: 11.5k input maps) |

### Bounds, and why they are enough

**`dumpworker`**:

- Three jobs on two keys: two share a key, so same-key dedup and different-key order both occur.
- A capacity of 2 with three jobs: the channel fills, so `try_send` drops, senders suspend, and a freed permit is handed to a waiter while another job is still buffered. Where the waiter joins the line is then visible to the refinement.
- A tick of 8 ms and a timeout of 10 ms: a push can outlast the tick, so late ticks both within and beyond the 5 ms slack occur.

**`dumpworker_burst`** uses a 4 ms tick, smaller than the slack. That is the
case where Delay still fires on the old schedule.

**`rewriter`**: documents of up to five tokens contain every order of head,
html and base tags with their end tags, every chunk split and a write error
at any point.

**`cachekey`** and **`cachekey_collision`**: two-character strings over
`{a, :}` can put a separator at the start, middle or end of a uri or
credential. `KeysCollideExactly` says two inputs share a key exactly when
their effective methods agree and their text after the method
(`Joined`: the uri, or the uri, `:` and the credential) agrees. So the only
collisions are a uri holding `:` against a shorter uri with a credential.

**`remotesync`**:

- Two urls on one host. One url does not parse, so every error path of the put and of the seed loop is taken.
- One fetch per url, with response headers with and without max-age. Together with the pushes, the lossy network and the pulls, this gives every order of local put, push, server upsert, pull and seed of a page.
- A max-age of 2 ticks against a read timeout of 1, so an entry turns stale while a read waits, and a read times out.
- A one-tick push timeout, so POSTs are cancelled.
- Site lists of up to two entries, of any content the server may hold.

**`headers`**: a break after index 1 and maps of up to four entries. Maps
reach past the bound and contain a malformed name, a malformed value and two
names that fold to one header, in every order.

### Fairness

- The worker task is weakly fair in `Recv`, `Tick` and `DumpJobTimeout`. It is a spawned tokio task, and the runtime polls it whenever it is ready.
- Time (`Advance`) is fair.
- Callers and `DumpJobReturns` are not fair: the server may never answer, and then only the timeout ends the push.
- The rewriter is a terminating function; it takes `WF_vars(Next)`.
- `RemoteSync` and `HeaderConversion` check only safety and take no fairness.

### Findings

1. **Dedup is dead code (`dump_remote.rs:40`).** The loop removes the key before its next `recv`, so the in-flight set is empty whenever a job arrives. Spec §8 says two same-key jobs give one push attempt, but the code gives two. `InflightOnlyCurrent` (proved) is the reason.
2. **Burst after a stall (`dump_remote.rs:35`).** With `tick_ms <= 5`, tokio's Delay rule keeps a slightly late tick on schedule. The tick after a push that took longer than the period then fires at once. For larger ticks, the proved `MinGap` gives a gap of at least `tick_ms - 5` ms.
3. **Double base insertion (`cache.rs:118`, `137`).** Each end-tag closure checks its own clone of the OnceLock.
4. **Key collisions (`cache.rs:38`).** The segments are joined with `:` without escaping. Spec 8 says the key is injective over the triple, and `cachekey_collision` finds `(":", GET, None)` and `("", GET, Some(""))`, both `GET::`. A real pair is `("http://h", GET, None)` and `("http", GET, Some("//h"))`. `KeysCollideExactly` (proved) shows these are the only collisions: the method is never confused.
5. **Swapped headers in the local put (`cache.rs:307`, `313`).** `put_hybrid_cache` computes the policy from the response's headers as the request and the request's headers as the response. A response with `max-age` is therefore stored stale, and `get_cached_url` misses it (`remotesync_swap`). The seeding path has the right orientation.
6. **Wrong pull key (`remote.rs:122`).** `get_cache_site` asks for `/cache/site/GET:<url>`, and spec 4.5 derives the key the same way. Its doc comment (`remote.rs` 115-119) says it fetches the cache of the website, whose key the pushes carry as the host. A server that groups by that key answers nothing (`remotesync_site`).
7. **The header bound counts every entry (`cache.rs:283`).** At most 1002 headers survive, whichever 1002 the HashMap yields first. Spec 4.3 bounds only the malformed ones. `ConvertsPrefix` states what the code keeps, the valid entries among the first `Limit + 2`, and holds.

The models also reach two behaviours that the spec accepts, so no property
is stated against them:

- With an absolute base, a page that is not valid UTF-8 comes back empty (`cache.rs:190`). Spec 4.2 allows falling back to the empty string.
- A POST cancelled by the worker's timeout stays in `net` and may reach the server after a newer POST of the same key (`remote.rs:84`). Spec 4.4 removes the key after a timeout, and spec 5 accepts out-of-order completion under timeouts.

## Proofs

Six modules hold the TLAPS proofs. Each extends the module it is about.
Every theorem is checked by `tlapm` down to its last leaf. Each invariant
that needed strengthening was checked by TLC as an invariant of a run
before it was proved.

### `DumpWorker_proofs`

They rest on `ConstantsAssumption` (finite jobs; `KeyOf` a function into
`Keys`; the numeric constants natural) and on the derived facts of
`ConstFacts`: `Cap` and `TickMs` positive, `LateCap` negative.

- `TypeCorrect: Spec => []TypeOK`. TypeOK is inductive as it stands. The
  step proof has one case per action, and splits the IF of each enqueue and of
  `Recv`. The helpers `Accept`, `Reject` and `RecvStep` have lemmas of their
  own (`AcceptType`, `RejectType`, `RecvStepType`).
- `InflightInvariant: Spec => []InflightOnlyCurrent`, inductive given `TypeOK`.
- `MinGapHolds: Spec => MinGap`. `MinGap` is an action property.
  - The invariant that supports it is `GapInv`: `sinceStart = TickMs \/ sinceStart + toTick >= TickMs - TickSlack`. In words, the time since the last push started, plus the time to the next deadline, is never less than the period minus the slack.
  - `Tick` re-establishes it, whichever branch of the Delay rule it takes. `Advance` keeps the sum, or the counter reaches its cap.
  - At a push start `toTick <= 0`, so `sinceStart >= TickMs - TickSlack`. `GapInv` was checked by TLC as an invariant under the `dumpworker` constants before it was proved.

`DumpWorkerQueue_proofs` (extends `DumpWorker_proofs`):

- `QueueConserved: Spec => []JobsConserved`. A job is in at most one of the buffer, the waiters and the worker's hand, and is there exactly when its status says so.
  - The invariant is inductive given `TypeOK` and `InflightOnlyCurrent`.
  - The step proof has one case per action. Each rests on a lemma about what `Append` and `Tail` do to the occurrences of a job in a sequence without duplicates (`AppendOccurs`, `AppendNoDup`, `TailOccurs`), cited by the lemmas for `Accept`, `Reject`, the blocking `send`, `Recv` with and without a hand-off, and `Finish`.
- `RefinesSafely: Spec => BEQ!SafeSpec`, the safety part of the refinement.
  - The initial states map to `BEQ!Init`.
  - Every step maps to an `Accept`, a `Drop`, a `Complete` or a stutter, with a lemma per action (`RefAccept` ... `RefFinish`). They rest on sequence lemmas (`ConcatAppend`, `ConsHeadTail`, `HandOffOrder`) and on `QueueConserved`: a job the caller enqueues is `new`, so it is in none of the three sequences.
  - The fairness part, `WF(Complete)` of the abstract spec, is checked by TLC in `dumpworker`.

### `HeaderConversion_proofs`

- `ConvertsPrefixHolds: Spec => []ConvertsPrefix`. It holds for every bound `Limit`, every set of names and values, and every iteration order of the HashMap.
  - The loop invariant `LoopInv` says what the map holds after `i` entries. While the loop runs, `out` is `Upto(hs, i)`, and `i <= Limit + 1`. `Upto(hs, i)` maps each header name to the value of the last valid entry among the first `i` that folds to it.
  - `UptoStep` is one turn of the loop. It is the `EXCEPT` of `ConvertEntry` when the entry is valid, and nothing otherwise.
  - `ReferenceIsUpto` says the reference map is `Upto` at `min(Len(hs), Limit + 2)`. Both exits of the loop, the break and the end of the iteration, stop there.
  - No induction over sequences is needed: the behaviour carries the induction, one entry per step.

### `RemoteSync_proofs`

These proofs need `IsFiniteSet(Keys)` in `RemoteSyncAssumption`, because a run touches finitely many cache keys. It makes the set of stored payloads finite, and so makes a site list of the grouping server a finite sequence.

- `TypeCorrect: Spec => []TypeOK`, with one case per action.
- `FetchedVersionsHeld: Spec => []StoreHoldsFetchedVersions`.
  - The store invariant is not inductive on its own, because an entry reaches the store from the push queue, the network, the server and the seed list.
  - `SyncInv` adds that everything on that path came from a fetch: every queued job, every POST on the way, every server entry (under its own key), and every payload left to seed.
  - One lemma per action shows that the step keeps `SyncInv` (`PutSync` ... `TickSync`). `SiteListsFromServer` and `WireFromFetch` cover the server's answer: the list holds stored payloads, possibly with undecodable bodies.
- `SeedIsolationHolds: Spec => SeedIsolation`, an action property.
  - The seed-loop invariant `SeedInv` says that `ptodo` is the unvisited suffix of `presp`.
  - It also says that every visited entry whose body decodes and whose url parses was stored or had its own put fail.
  - `PullDone` is the only step from `seed` to `idle`, and it needs `ptodo = <<>>`.

### `CacheKey_proofs`

- `KeysCollideExactlyHolds: Spec => []KeysCollideExactly`. It holds for every alphabet with `:`, every set of methods and every length.
  - `KeyAssumption` states that methods have no `:`, since an HTTP method is a token.
  - `SplitAtFirstColon`: a key splits only at the first `:`, which ends the method.
  - `KeyShape` writes each key as method, `:`, rest, using associativity of `\o`.
  - `KeyCollision` splits two keys at their first `:`. Equal keys have equal methods and equal rests, and `RestIsJoined` identifies the rest with `Joined`. The converse is substitution.

### `BaseTagRewriter_proofs`

- `TypeCorrect: Spec => []TypeOK`.
- `NoStrayBaseHolds: Spec => []NoStrayBase`, for documents of every length and every chunking.
  - `StrayInv` says that `base_tag_inserted` is set only together with `already_present`, and that the output holds no base of the document until `already_present` is set.
  - `Finish` returns the original whenever `already_present` is set.
- `AtLeastOneBaseHolds: Spec => []AtLeastOneBase`, for documents of every length and every chunking.
  - The property is not inductive: it speaks only of the final state. `BaseInv` strengthens it.
  - The element stack has one entry per element that `IsOpen` says is open in the tokens consumed (`Depth`). So an end tag never meets an empty stack.
  - A loop that ends without a write error or `already_present` has consumed the whole document, and `Finish` then returns `AutoEncode(out)`.
  - In a document without an absolute base, neither lock is set. So every closure's clone is unset, and every end tag consumed has put a fragment into `out`.
  - `IsOpenStep` and `DepthStep` say how one token changes the open elements. They hold because `Nested` is a closed form. The recursive `StackAfter` would need the library's recursive-function theorems, which take an operator parameter that the provers cannot instantiate.
  - `FragmentCounted` turns "holds a fragment" into `Insertions(...) >= 1` through `FiniteSetTheorems`.
  - `NestedIsStackAfter` is checked by TLC only up to `MaxLen`. The proof does not use it: the theorem is about the documents `Docs` defines through `Nested`.

### Only model-checked, and why

- Liveness (`AcceptedJobFinishes`, and the fairness part of `Refines`): TLAPS does not check liveness under fairness.
- That `Nested` agrees with the stack machine `StackAfter` for every length. This is induction over data, which the provers cannot do. TLC checks it on every sequence of at most `MaxLen` tokens.
- The violation runs. What they show is a counterexample, which TLC finds.

## Not modelled

- The environment configuration (`default_*`): the models take its values as constants.
- A runtime that shuts down under the worker (`dump_remote.rs:31`): spec 5 says the worker runs for the process lifetime, and the models keep it alive.
- `mod.rs` and `examples/connect.rs` (no logic).
- The HTTP client, lol_html's tokenizer, http_cache_semantics and the cacache store (external). The store is a map, the policy a freshness lifetime, and the server a spec-level upsert.

## Plan

- A property that a pull never replaces a newer local version, if the code gains version checks.
