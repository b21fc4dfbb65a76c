# Pazpar2 in TLA+

Pazpar2 is a metasearch server. A web client talks to it over HTTP; for each of its *sessions* pazpar2
searches many *targets* at once over Z39.50, SRU or Solr, merges the records as they come in and lets the
web client look at the intermediate result. Everything runs in one event loop, with or without a pool of
worker threads. This directory models that machinery in TLA+, checks it with TLC and proves part of it with
TLAPS. `PROJECT.json` maps every definition to the lines it stands for.

## 1. Inventory

| Component | Source | State | Operations | Interacts with |
|---|---|---|---|---|
| Worker pool | `src/sel_thread.c` | input, output and free queue, stop flag, bytes in a pipe | add, result, destroy, the thread itself | called by the event loop; runs channel handlers |
| Event loop | `src/eventl.c` | list of I/O channels with flags, `thread_users`, `this_event`, the poll set | a round of poll, drain, walk, sweep; `iochan_*` calls of handlers | every other component lives in its handlers |
| HTTP server, proxy | `src/http.c` | channels with request, response, buffers, observers | accept, read, write, destroy | starts commands; observers tell sessions of a channel that goes |
| HTTP sessions | `src/http_command.c` | `session_list`, activity and destroy counters, a timer | create, locate, release, timeout | every command locates a session |
| Commands | `src/http_command.c` | none of their own | init, search, show, record, termlist, bytarget, stat, stop, settings, ping, info | call session.c; wait in its watches |
| Session | `src/session.c` | active and cached clients, watches, record list, `clients_starting`, `settings_modified` | search, stop, sort, show, ingest, settings | starts clients, is alerted by them |
| Client | `src/client.c` | state, connection, session, reference count, record offsets, raw-record queue | start search, responses, got records, stop, disconnect | calls back into the session |
| Connection | `src/connection.c` | ZOOM link, I/O channel, client | connect, events, timeout, release, destroy | the network, through YAZ ZOOM |
| Record list | `src/reclists.c` | clusters of records by merge key, hash, sorted order, cursor | insert, sort, limit, read | filled by ingest, read by show |
| Ingest, merge | `src/session.c`, `src/record.c` | records of a cluster, merged metadata | normalise, filter, merge, insert | clients to record list, facets, relevance |
| Settings, databases | `src/settings.c`, `src/database.c`, `src/session.c` | settings per service, database, session | read, apply, match, override | which targets are searched and how |
| Relevance, termlists, facets | `src/relevance.c`, `src/termlists.c`, `src/facet_limit.c` | term counts, scores, best terms | count, prepare, insert, high scores | ingest and show |
| Normalisation | `src/normalize*.c`, `src/marc*.c`, `src/charsets.c` | stylesheets, maps, chains | record to record | ingest |
| Configuration | `src/pazpar2_config.c`, `src/pazpar2.c` | services, options | read at start | everything |
| pz2.js | `js/pz2.js` | timers, current parameters of a page | init, search, show, stat polling | HTTP commands |

What makes it hard:

* **Interleavings.** With `threads` > 0 the handlers of HTTP channels, target connections and timers run in
  parallel. Three mutexes (session, client, record list), a counter (`thread_users`) and a flag
  (`clients_starting`) order them; some accesses have none of these.
* **Reentrancy without threads.** `client_set_state` alerts watches, and so runs the rest of another HTTP
  command, out of the middle of a search, a stop, an event of a target or a destroy.
* **Failure.** Targets may refuse, hang up, answer with an error, never answer, answer too late;
  a connect may fail at once; the user may close an HTTP channel that waits.
* **History.** A search changes what the last one left: clients keep connections, result sets and offsets,
  records of the last search are still on their way, and lists, facets and term counts start again, or do not.
* **Lifetimes.** Channels, clients, connections and sessions are freed by hand, by counters of users.
* **Waiting.** `show`, `termlist`, `bytarget` and `record` block on watches that something must alert.

What makes each component correct: the pool hands every job to one thread and back once, and never sleeps on
work; the loop frees no channel in use and serves every channel; a session in use is not destroyed and an
unused one is; a client and its connection agree on each other and the counts are exact; every blocked
command is answered, once; responses come in the order of the requests; the clusters hold the records that
were fetched for the last search, each once, and are shown in a total order; facets, term frequencies and
sort keys are those of the records; of overlapping settings the right one counts, and what a session sets is
its own.

## 2. The modules

| Module | Models |
|---|---|
| `JobPool` | abstract: submit, start, finish, collect, in order and once |
| `SelThread`, `SelThreadProps`, `SelThread_proofs` | `sel_thread.c`; its properties; their proofs and the refinement of `JobPool` |
| `EventLoop`, `EventLoopProps`, `EventLoop_proofs` | `eventl.c` on top of `JobPool`; its properties; the proofs of both |
| `HttpSession`, `HttpSessionProps` | session list, counters, timer, watches; properties |
| `HttpChannel`, `HttpChannelProps`, `HttpChannel_proofs` | `http.c` with its proxy, on top of `HttpSession`; properties; the proofs of both: the life of sessions, its refinement, and the order of responses |
| `SearchState` | variables of a session and its clients, agendas, `client_set_state` |
| `Client` | `client.c` and `connection.c`: states, lifetimes, locks |
| `Session` | `session.c`: search, stop, sort, watches, show |
| `Metasearch`, `MetasearchProps`, `Metasearch_proofs`, `Clients_proofs` | the commands on top; the composed specification; properties; proofs about commands and requests, and about clients, their connections and what a handler still has to do |
| `RecordList` | `reclists.c`: clusters, hash chains, merge, limit, sort |
| `Ingest` | `session.c`, `record.c`, `relevance.c`: a document becomes records in clusters, facets, term counts |
| `Fetch` | `client.c`: queries, ranges, offsets, responses, fetching more, reusing a result set |
| `Records`, `RecordsProps`, `Records_proofs`, `Exactness_proofs` | the commands and the targets' answers on top of the three; properties; proofs about the clusters, the hash chains, the term frequencies, the values shown, the order of clusters, and about which records there are and the facets |
| `Settings`, `SettingsProps`, `Settings_proofs` | `settings.c`, `database.c` and their use in `session.c`; properties; proofs |
| `MC*` | instances for TLC |

`SearchState`, `Client`, `Session` and `Metasearch` extend one another in this order, and so do `RecordList`,
`Ingest`, `Fetch` and `Records`.

The session is modelled three times, by what can go wrong with it. `Metasearch` has the interleavings inside
handlers, watches, locks and lifetimes, with one Boolean for the records. `Records` has the data: every
record, cluster and count, with each handler one step, which it is without threads. `Settings` has the tables
of settings that sessions share, with a search as what selects targets and makes connections.

Definitions whose comment begins with *Faulty* are not part of any specification: they are plausible bugs
of the definition that follows them, and each property of a passing run is shown to notice one of them.

### Correspondence

*SelThread.* A step is a region under `p->mutex`. The two exceptions are the byte a worker writes after it
left the mutex (`WriteByte`) and the read of `sel_thread_result` inside it (`ResultTake`, `ResultRead`): in
between, nobody else enters the mutex. Queues are sequences, oldest first; the pipe is a number. The main
thread is that of `event_loop`, which never adds a job the pool still holds (`run_fun` is only reached with
`thread_users` = 0); the event loop's run checks that assumption (`PoolContractKept`).

*EventLoop.* `main` says where the main thread is. The walk follows a snapshot (`cur`), since channels are
added at the head of the list while it runs. `polled` and `hit` are what the poll looked at and reported;
as they are compared by the socket's number, a socket that replaces another one may get its answer (`SetFd`).
Handlers are abstracted to the calls of `eventl.h` in any order; time is a set of channels that are due. A
handler calls `iochan_destroy` on any channel, which is more than the code does.

*HttpSession.* Each region under `http_sessions->mutex` is a step. Watches are here too, since a command
that waits releases its session: after it set the watch, so an alert and the timer may come before (`owed`).
Sessions stand for their ids.

*HttpChannel.* `chan[h]` is a channel: what the client sent and the server has not read (`wire`), the input
and output queue, the flags of the poll set, `keep_alive`, and the connection to the web server behind the
proxy (`proxy`, `pqueue`, `backend`). A request is a number, what its client asks for is its entry in a
script; a response is one piece, or two from the web server. `http_io` is split where its loop is: input,
output, and the next request after output (`input` is the local `event`). Commands are those of
`HttpSession`; the last one to release its session responds.

*Client, Session, Metasearch.* A handler that runs is a sequence of operations left to do, its *agenda*; a
step does the first one and may put others in its place. This gives the order of C's calls, including the
alerts that run another command's continuation in the middle. Without threads a handler runs to its end
before the next starts; with threads a step of one may come between any two of another, and the granularity
is a mutex region or one field access of consequence. A mutex that is kept over several steps (the client's
around events, the session's around a fetch) is a sequence with its holder once per entry, for yaz mutexes
are recursive. The ZOOM library is external: a link that has something to do reports that it sent, received,
ended or failed, or times out. ZOOM does the tasks of a link one after another; the second stands for all that
wait behind the one that runs. The watch on bytarget is that on termlist.

*RecordList, Ingest, Fetch, Records.* A document is what normalisation makes of a target's record: a
`<record>`, a `<cluster>` of several, or something else that is counted as a failure. Metadata values are
numbers, ranges or texts of a few terms, with what tells them apart. A list is
`[clusters, chains, sorted, num]`: clusters are named by their place, a bucket is an entry of a chain, and a
cluster that was merged into another stays with `live` false, as buckets may still lead to it. `Limit` walks
the buckets chain after chain and keeps a cluster the first time, as `reclist_limit` does. What
`session_clear_set` throws away is one record, `set`: list, totals, facets, relevance. Each function that
changes a client or the set is an operator from the state to the state, so that `client_start_search` for
several clients is a fold in the order of the list. A target's result set is a constant; how much of it is
pending, and how many records of an earlier search are still to come, is in the client. Queries parse, so
that `force_position` is told from the clients selected; `pz:termlist_term_factor` is off. The answer of a
client that has no session is left out when it would bring facets (section 5).

*Settings.* Lists of settings are shared by pointer, so there is a heap: `nodes`. A node knows whose memory
it and its value are in. A target of a setting is what it matches and its kind of wildcard. Files are read
in any order, as those of a directory are, and each is read in one step, before the service is used.

## 3. The runs

Every run is meant for two TLC workers and five minutes.

| Run | Instance | Checks |
|---|---|---|
| `sel_thread` | 3 workers, 3 jobs | byte accounting, work conservation, exclusiveness, refinement of `JobPool`, jobs come back, destroy returns |
| `event_loop` | 2 workers, an HTTP channel, a connection with a timeout | no use after free, the pool's contract, destroyed channels are freed, timeouts are served |
| `event_loop_inline` | no workers, an HTTP channel, two connections | no starvation by the ration of one connection event per round, timeouts behind another connection |
| `http_channel` | 1 session, 2 channels with scripts of up to 3 requests, 2 watches | counters, no use of a session that goes, watches, order of responses, nothing closed unanswered, idle sessions go, commands are answered |
| `metasearch` | no threads, 2 clients, 2 connections, 2 channels that search, stop, show with `block=preferred` and ask for termlists | reference counts, ownership, something will happen to each active client, requests tracked and answered once, no wait for nothing |
| `metasearch_threads` | threads, 1 client, 1 connection, 2 channels that search and stop | `clients_starting` excludes and is reset |
| `metasearch_live` | no threads, 2 clients, one connection, one channel, queries that a target cannot parse | blocked shows are answered |
| `metasearch_orphans` | no threads, two clients for one target, one connection, `pz:extendrecs`, changed settings, stops, bad limits, one channel that also shows and asks for a record | no freed client is kept, session mutex left, abandoned connections go |
| `records` | 2 targets, 2 searches with their own orders, a show in one of them; see below | records, clusters, what is shown, order, facets, term counts, sort keys |
| `settings` | 3 databases, 2 sessions, 3 files; see below | which settings apply, as far as documentation and code agree; overrides; clients up to date |
| `records_merged` | 1 target with records of one and of two pieces; expects a violation | "merged" of a show counts the clusters |
| `settings_scope` | the instance of `settings`; expects a violation | what a session sees is the configuration's or its own |

### Bounds

Two clients, one of them preferred, are the least that tell "the last active client" from "an active
client"; two connections let a client that lost one get another while the first one still lives (in
`metasearch`; the runs with liveness, which cannot use symmetry, have one that is given up and taken
again). Two HTTP channels let one command come between another's wait and its answer. No run has all
commands, as the order in which each is interrupted multiplies: each is in the run whose property it could
break, and the errors of a search are spread over the runs likewise. Three workers and three jobs are the
least where a signalled worker, an overtaking one and a sleeping one meet. `MaxRequests` bounds the requests
per HTTP session; the proofs do without a value for it. The other state of these modules is finite.
`metasearch` and `metasearch_threads` use symmetry of channels and of connections; runs with liveness do not.
`LimitFd` and `Slack` are scaled down from 200 sockets and more.

`http_channel`: a channel picks a script when it is accepted: commands that keep the connection, one that
closes it, pipelined commands, a proxied request between commands, a malformed one, and one that pipelines a
request to close, which is disorderly (section 5). Three requests are the least where one is written, one
served and one waits.

`records`: the first target has a record and a `<cluster>` of two, the second two records and one that
cannot be read; keys, terms and dates overlap, so that there are merges by one and by two keys, records that
repeat, filters and limits that let some through. One query, searched with and without a limit, sorted at the
target and here; two hash chains, so that different keys share one; `ExtendRecs` 1 and `CacheSize` 2 make fetching stop short of every result set. A result set
of three, a second search and a second sort order are what it takes for a late record, a reused result set
and a reset offset to meet. Searches follow one another without bound, as the state is finite.

`settings`: databases 1 and 2 share a host pattern, 3 is not in the configuration; the three files have
settings for all, for the host, for one database, the same one twice, and with a higher precedence: by one name
the host has it and a database does not, by another the other way round. Overrides
are for a target set by pattern only, one set by its name, and the unknown one. Sessions are symmetric. A
session is created once. There are two default limitmaps, which share an offset and so a list.

Deadlock is not checked where the system may really stop: in `http_channel` when the scripts are done, in
`records` and `settings` without need (a search is always possible until the last session is gone), in the
run with threads, where `assert` fails, the program aborts and the model has no step (`StartSearch`,
`ClientStop`).

### Fairness

* `SelThread`: threads are scheduled and get a free mutex again and again (strong fairness per worker),
  handlers return, the loop keeps polling.
* `EventLoop`: the main thread, workers and callbacks go on; the byte of a result gets into the pipe. The
  poll's limit of 300 seconds is not relied on.
* `HttpSession`, `HttpChannel`: the timer of a session that stays unused fires; commands that run end; the
  event loop serves a channel that is ready. No client is assumed to send, no target and no web server to
  answer.
* `Metasearch`: the running handler goes on, and a connection with work to do, or which nobody owns, is at
  last done or times out, as `operation_timeout` and `session_timeout` see to. No command, no answer and no
  closing of a channel is assumed.

## 4. What is proved

All for arbitrary sets and without bounds; `tlapm` checks the proofs with SMT, Zenon and LS4.

* `SelThread_proofs`. The inductive invariant `IInv` joins types, `Bookkeeping` (which program counters go
  with which data), `ByteAccounting`, `WorkConserving`, `ItemsConserved` and `Exclusive`. Bookkeeping is
  what makes the others inductive: that a worker holds a job exactly when it is busy makes the counts move
  by one, and that nobody waits after a stop makes the broadcast safe. The counting argument is made on
  cardinalities of sets of workers (`AtFinite`, `BusyCount`, `CountsDef`), so `Workers` must be finite.
  From `Safety == Spec => []IInv` follow `ExclusiveAlways`, `ByteAccountingAlways`, `WorkConservingAlways`
  and `Refinement == Spec => ImplementsJobPool`, where every step of a thread is a step of the pool or a
  stutter. Assumptions: `Workers` finite and not empty, `Jobs` finite, `None` not a job.
* `EventLoop_proofs`. First `OncePlace`, of `JobPool` alone: the abstract pool has a job in one place at a time,
  for any jobs and workers. Then the loop. `iochan_destroy_real` decides by a flag and a counter alone, so that it is safe rests on
  the counter: `UsersExact` says that `thread_users` is 1 for a channel that the pool holds and 0 for others.
  It goes up with a submission and down with a collected result, so this needs `PoolOnce` (the pool has the
  channel once), and that needs the walk to submit only while the counter is 0. `InUseListed` and `LoopOrder`
  say that what the pool, the walk and the poll set name is in the list, and that no walk is left when the
  sweep runs. `IInv` joins these with the types. From it follow `NoUseAfterFreeAlways` and `PoolContractAlways`; with the latter, what is
  proved of the threads in `SelThread` applies to the loop. What the sweep leaves in the list
  (`WithoutElems`) is shown by a least counterexample, from the library's facts on well-founded relations.
  Assumption: nothing but the kinds of the constants; there may be no workers.
* `HttpChannel_proofs`, first of `HttpSession`. The invariant joins types, `OneStage`, `UsedIsListed` and `CountersExact`. The key
  is `NotInUse`: equal counters mean no user, and nobody who has yet to release what it waits in, so a destroyed
  session has none. From it follow
  `UsedIsListedAlways` and `CountersExactAlways`. `WatchesTrueAlways` needs more: a channel in a watch of a
  session waits in just that watch, a command that runs is in none (`UsingRuns`, `WatchedWaits`,
  `WatchedOnce`, `WaitsSomewhere`, joined in `WatchInv`). Assumption: finitely many channels.
  Then of `HttpChannel`. Every step of the server is a step of `HttpSession` or leaves its variables alone
  (`ImplementsSessions`), so the three invariants hold of the server with its channels, queues and proxy
  (`SessionsSafe`), for any scripts. `ResponsesInOrderAlways` and `ClosedAnsweredAlways` are for clients that
  are `Orderly`. The invariant `Good` of a channel is about the number of the response that the next piece
  belongs to (`Reached`): it is that of the request that is served, by a command (`Busy`) or by the web server
  (`Proxied`), or one more when none is (`Free`). That a channel takes a request only when it is `Free` needs
  `AloneWaited`: what a client sends alone was sent when all before it had been answered, so behind a
  proxied request there is nothing (`NothingBehindProxied`). A channel closes after a request that asked for
  it or was bad; such a request was alone, so all before it are answered (`ClosingAnswered`). That `idle`
  is true of just the channels without a command comes from the watches (`WatchInvAlways`): an alert wakes
  only who waits. Assumption: a script is a sequence of requests.

* `Metasearch_proofs`. An agenda is a program that rewrites itself, so what is proved first is how steps
  rewrite it (`StepShapes`): each does its head, and puts in its place a sequence of items of known kinds.
  What an agenda is to do for somebody is then a *token*, in it once (`Once`, `TokenMoves`). For the right to
  start or stop clients: `StarterInv` says that `clients_starting` is true exactly while one agenda has a
  token, so `StartingResetAlways`, with threads or without. For the request of a channel: `Tracked` says that
  while it has no answer, one agenda has it, once, or one watch, and after that none. From it follow
  `RequestsTrackedAlways` and `AnsweredOnceAlways`. That an alert appends the request to the agenda of
  whoever alerts, which may be a target's connection, is why all agendas are in the invariant. Assumption for
  these two: no threads; with threads a channel may be destroyed while another handler is about to answer it.

* `Clients_proofs`, on top of the same shapes: `SessionshipAlways`, `RefExactAlways`, `OwnershipAlways`,
  `ActiveWillEndAlways`. What `session_reset_active_clients`, `session_remove_cached_clients` and
  `connection_destroy` undo takes several steps, and between them counts and pointers do not agree, so the
  invariant has to say what is still to be undone. `ClientInv` has four parts. `HandlerInv`: one handler at a
  time (`Alone`), and what its agenda may look like: a search gives up its clients in the order reset, drop,
  select, with nothing before or between (`Phased`), and a handler that destroys a connection does so last,
  taking it from the client first (`Ended`, `Undone`). `ActiveInv`: a client has a session when it is active
  *or on the list of those to detach*. `RefInv`: the references are the session's, the connection's *and that
  of the list of those to drop*. `OwnInv`: a connection whose client does not know it is *being freed*. When
  no handler runs there are no lists, and the properties follow. `EndInv` adds that the link of an active
  client is not idle; it needs `OwnInv`, as a link reports to the client its connection points at.
  Assumptions: no threads (with threads three of the four fail, section 5), and a thread runs the handler of a
  channel or of a connection, not of both (`SearchStateAssumption`).

* `Clients_proofs`, its second half, on top of `ClientInv`: `NoStaleClientAlways`, `SessionMutexFreeAlways`,
  `NoWaitForNothingAlways`. Each is about a program that calls back into the session from the middle of what
  it does, so each invariant is about the whole of an agenda: what the steps ahead rely on, whatever the steps
  before them do. The lemmas they share say what any step may leave to do (`StepLeaves`: a few operations are
  left by one or two others only, `RareCalls`) and what a handler begins with (`Begins`).
  * `StaleInv`: every item of an agenda touches clients that the session keeps or a connection has (`Safe`), and
    behind an operation that gives clients up there is only what touches none (`Cleared`). The order of a
    search, by which all clients are given up before any is started, and the order of a destroy, in which the
    connection is taken from the client last, make this inductive.
  * `MutexInv`: the session mutex is held by the handler that runs, once for each fetch in its agenda
    (`Places` enumerates them), since an alert in the middle of a fetch may begin another one.
  * `WaitInv`: no watch is set without an alert for it in the agenda (`Released`) once no client is active,
    unless a search is about to select targets, nor while a stop goes over its clients; a command sets its watch
    at once after it has seen an active client; and a connection is only taken from a client that is not
    active, or was disconnected in the same handler (`Parted`), so that this alerts whoever waits.
    `LastActive` is the heart of it: each step that ends the last activity puts the alerts first.
    `Plan` says which operations may follow which.

  Assumptions: no threads; for `NoWaitForNothingAlways` also no `pz:extendrecs` and neither of the two errors of
  `session_search` that alert nobody, as with each of these the property fails (section 5).

* `Settings_proofs`: `OverrideScopedAlways` and `ClientsUpToDateAlways`. Lists share their tails: a node may be in
  the tables of many databases and sessions, and `update_database_fun` unlinks nodes, and
  `session_apply_setting` writes into them, without knowing who else has them. So the invariant does not
  follow lists. A list is *good* (`Fits`) when some set of nodes that no `next` leads out of (`Closed`) holds it
  and the nodes of this set are what the table is for: of its offset, for its target or none, of the service or
  of the session. Heaps only *grow* (`Grows`): entries keep name, target and owner, every closed set stays closed.
  That is so of unlinking, of writing a value and of a node in front, so all other lists stay good with no word
  about who shares what, and `SettingsInv` (`HeapInv`, `DatabaseInv`, `SessionInv`) is inductive. `Fit` also says
  that of a name, a node made after one for exactly the target is for exactly it too; so the node that `session_apply_setting` writes into is the one that is found (`FindWritten`), which
  makes a session see what it set. That others do not see it is told by target and owner (`OtherSees`).

  The model is built from folds and recursive functions. They need no induction over data: a solution of the
  recursion exists (`RecursionExists`, `ListsExist`, `FirstsExist`, each by a greatest number up to which there is
  one), so the `CHOOSE` is a solution, and what it yields is shown by a least counterexample (`ScanResult`,
  `FoldIn`). Assumptions: `SettingsAssumption`, and for `ClientsUpToDateAlways` that no other name has the offset
  of `pz:authentication`: `settings_index_lookup` gives one offset to several names only when these are
  `pz:x:...`.

* `Records_proofs`: `ListSoundAlways`, `ShowsAllAlways`, `RelevanceTrueAlways`, `SortKeyShownAlways`
  and `SortTotalAlways`, and `Exactness_proofs` on top of it: `RecordsExactAlways` and `FacetsExactAlways`; for any targets, records, merge keys, limits, sort orders and any hash function into the table, collisions included. `ListSound` says of a list *between* two records that
  every key of a cluster leads to it, and that no other has the key. Within `reclist_insert` neither holds: a
  record joins the first cluster that one of its keys leads to, and its other keys may be those of clusters that
  are not yet merged into it, or have no bucket yet. So the invariant of an insert (`Underway`) says it but for
  the keys `rem` of the record that are still to come, in the cluster the record is in; a key is done with
  (`KeyDone`) when its chain has been scanned to the end, as each bucket met leads to that cluster or to one
  without the key (`Scanned`). Two more parts are needed. `KeysGone`: no bucket in the chain of a key of a
  cluster that was merged away leads to that cluster; otherwise `merge_cluster` might be called with a dead one.
  And buckets that `merge_cluster` does not find, for keys that a cluster never got, lead to a dead
  cluster, but not by a key it has; so a scan compares keys and passes them. `Counted`: the counters are the
  cardinalities of the clusters that live and of the places in them, each of which a join, a new
  cluster and a merge changes by what they say. The invariant of the specification, `RecordsInv`, adds what the
  steps need of sessions and clients: the merge key is one the commands give, an active client has one of the queries, and the documents it
  keeps for later are of its result sets (`Fetchable`), so that their keys have a place in the table.
  `ShowsAllAlways` follows: what the walk over the chains comes to is what buckets lead to (`WalkIs`), of which
  each that passes is kept once (`KeepIs`).

  `RelevanceTrueAlways` needs a second walk through `reclist_insert`, for what it does to numbers instead of keys:
  between joining and `ingest_to_cluster`'s count, the cluster of the record, and no other, lacks the terms of
  that record (`Rating`), whichever clusters are merged into it meanwhile; merging concatenates the records of
  two clusters, and the sum over them is the sum of both (`TfJoined`). It is kept of clusters that were
  merged away too (`ClusterRated`), so that it needs no word about which clusters a bucket can lead to. Where
  a frequency is above zero a record has been counted, as `relevance_donerecord` counts a record by the same words
  that `relevance_countwords` added.

  `SortKeyShownAlways` goes along with that walk: the list a record is inserted into is one whose clusters show what their
  records have (`AllShown`), and so is the list that comes out. In each field every value *stands for* values of
  the records (`Stands`: it is one of them, or for a range each of its bounds is a bound of one), and the sort key of
  a longest or a range value is the first. A cluster gets values in `ingest_to_cluster` only, for the fields of
  a record that has joined it before (`MergeFieldShown`, `AddToClusterShown`, a fold over the fields around one over the
  values); in a merge the values stay those of one of the two, whose records are now a part of the whole (`MergeShown`).
  That a widened range has bounds of *some* records needs values with whole numbers, hence `IsValue` in the assumption.

  `SortTotalAlways` says that a page goes on where the last one ended. A comparison is a table with a number for each two live
  clusters; `Orders` says that it is antisymmetric and transitive. Each sort key orders (`ByOrders`): the difference of
  two numbers does (`DifferenceOrders`), a date compares by whether there is one and then by its bound, a missing text
  is the empty one, and a descending order is the opposite of an order. One order after another is one (`ThenOrders`), so the loop over
  the sort parameters is (`SortingOrders`), and the last of all, `strcmp` of the clusters' names (`NamingOrders`), is `Under`,
  the lexicographic order of keys, shown total and transitive from the first place where two keys differ. No two live clusters have
  the same name since a name is one of the cluster's keys and a key leads to one cluster: that is where `ListSound` is needed.

  `RecordsExactAlways` needs a third, for which records there are. In the course of an insert (`Story`) either the list is
  as it was, or the record's cluster has the record's first key and every record of the old list is in a cluster
  that has the keys it was found by (`Carried`; merging hands on both), or the insert has come upon a record of the same client
  with the same metadata and this is in a cluster with the record's first key (`Again`), which is what keeps duplicates out. So an insert adds the one record or none,
  and in both cases one like it is where it belongs (`Got`). Over that stands the inductive invariant `ExactInv`:
  no record is there twice (`Once`), each is of the result set that its client has for the last search, at a
  position that was asked for, and passes filter and limits (`Owned`), and of what a client has fetched all that passes is there (`Full`). While a
  search is set up the clients have not all started; `StepExact` says it but for the set `U` of those still
  to start, of which the list has nothing yet (`NoneOf`), since `session_clear_set` emptied it. Starting one is one of three things:
  it gives up its result set and fetches anew, it fetches the same one in another order, or it has what it needs and ingests
  it again from the copy it kept (`client_reingest`, `ReingestExact`), from its first record to its offset. All else
  that happens to a client leaves what it has fetched alone (`Calm`). It takes no assumption beyond those below.

  `FacetsExactAlways` goes along with that walk. `Tallied` says that the facets are what is *found*, the places of a term
  in the records of the list, each a pair of a record and a value of it, and a number of something else. The loops of
  `add_facet` over the fields, values and terms of a record come to the number of its places (`CountingLoop`, the same
  for each loop: a step that may add one to one number of the table); as places are counted as a set, the order of
  records and which cluster has them does not matter, and that a record is counted when, and only when, it is new
  to the list is `Story` once more (`FoundMore`). The other number is what targets reported. `Told`, a part of
  `ExactInv`, says it is the sum over *some* set of clients: all those that have what they were asked for, or are getting it, no one
  still to start, and of the rest only such as had an answer. A client joins the set when its answer arrives
  or when it takes up the result it has (`ToldAlso`); for that it must not be in the set yet, and one that waits for an answer
  is not (`ToldLess`). Whether a client whose connection is
  gone is in it depends on when that happened, hence the two bounds of `FacetsExact`.

  All loops are folds with a `LAMBDA`, nested up to four deep. `FoldIs` says what a fold is, once, for a step that
  dispatches on the name of the loop (`FoldStep`), again by a greatest number up to which there is a solution; a lemma
  per loop then gives the sequence of its values, and `UpTo` is the induction along it, over a set. Assumptions:
  `ClientsAssumption` (finitely many clients, numbered) and those of `Records`, which say what the constants stand
  for: fields, each listed once (`conf_service_metadata_field_id`, `pazpar2_config.c:233`, gives the values of a second one of the
  name to the first), result sets, reported facets and the records of a document are sequences, searches are of the given clients and
  queries, and the hash function leads from the merge keys that documents can have into the table. Two of them
  are for the frequencies: the ranks of fields are not negative (`doc/pazpar2_conf.xml:304` calls them
  multipliers, 0 leaves a field out), and a record has a sequence of values in a field. The others are for values and
  their order: merge types are the six of the configuration; a field is merged into a range just when it is a year, of
  which `pazpar2_config.c:192` enforces that a year is a range, while a range over another type, whose text would be read as
  a number from the union, is left out; a value is of the type of its field; merge keys are sequences of numbers, which
  stand for their characters; and a sort parameter is one of the built-in orders or names a sort key, with its field's
  type (`reclists.c:131`, which refuses others).

Only model-checked: liveness (the prover has no fairness or ENABLED); of `Metasearch`, what is said with
threads but for `StartingReset`; and `SettingsResolved`, which relates the lists to the whole history of what was read.

## 5. What the checks show

Two statements of the documentation do not hold of the code, each in a run of its own:

* *Clusters that were merged away* (`doc/pazpar2_protocol.xml:575`: "Number of merged records"). A record of
  several pieces has several keys. When it joins a cluster by one of them, `reclist_insert` (`reclists.c:550`)
  makes buckets that lead from the others to the cluster, but the cluster does not get these keys. When it is
  merged into another one, `merge_cluster` (`reclists.c:421`) looks for its buckets in the chains of its keys
  only: the bucket of the other key goes on leading to the dead cluster, `reclist_limit` lists it again, its
  records are shown twice and "merged" is too high; `relevance_prepare_read` rewinds its list of explanations,
  which is then 0. `ShowsAll` says exactly which dead clusters are shown: those with such a bucket. It was the
  attempt to prove `ShowsAll` that found this: an instance without a third record of two pieces has no such
  state. The same omission makes a later record with such a key found a cluster of its own, against
  `doc/book.xml:613` ("then every record that generates the same merge key ... will be joined into a cluster"):
  so `NothingLost` only asks that a record is in a cluster that has *one* of its keys, and `ListSound` is about
  the keys that clusters have.
* *Overrides within one session* (`doc/pazpar2_conf.xml:896`: "Clients of the Pazpar2 webservice interface can
  selectively override settings for individual targets within the scope of one session"). The lists of a
  session go on with the nodes of the service, and `session_apply_setting` (`session.c:1034`) writes into the
  one that is for exactly the target: when the configuration has such a setting, every session sees the
  value, and uses the memory after the session is gone. `OverrideScoped` and `ClientsUpToDate` leave out just
  these targets (`Shared`).

Things met while modelling that no run states. Some explain what is left out of instances and properties.

*Commands and watches*

* `show` with `block=preferred` (`doc/pazpar2_protocol.xml:447`: "the command will wait until records have been
  received from all databases with preferred setting") only blocks while there are no records
  (`http_command.c:1248`): a record of any target is enough.
* The early error returns of `session_search` (`session.c:878-893`) alert no watch, so a show or termlist
  left waiting by an earlier search waits for its channel's timeout. `NoWaitForNothing` fails when
  `BadSearches` has "targets" or "limit", so `metasearch` has none of them, and the theorem
  assumes that neither happens.
* With `pz:extendrecs` a fetch that was answered at once leaves the show waiting for the next event; and
  `show_range_start` fetches with the session mutex held (`session.c:1521`), so an alert may come under it,
  against the comment of `client_set_state` (`client.c:182`).
* The record watch is alerted by records, not by the end of the last client.
* A session whose timer is shorter than a wait is freed with a request in its watch, and the observer of
  the channel still points into it.

*Threads*

* The handler of a connection may destroy it between two steps of a search or a stop that use the client:
  `assert(link)` (`client.c:967`) and `assert(cl->ref_count > 1)` (`client.c:1185`) can fail.
* A stop may release a connection whose handler has already read `co->client`. With a second connection the
  disconnect then hits the client's new one and drops a reference too many: `Ownership`, `RefExact` and
  `ActiveWillEnd` fail with threads. So do `AnsweredOnce`, `RequestsTracked` and `NoWaitForNothing`: the
  commands test and then set the watch.
* On the path of a bad limit `clients_starting` is reset before the active clients are, so it may take those
  of the next search: `Sessionship` fails with "limit" in `metasearch_threads`.

*HTTP*

* `Orderly` names what `ResponsesInOrder` and `ClosedAnswered` need of a client: what it pipelines are
  commands that do not ask to close. A pipelined request that closes and waits lets the response before it
  close the channel (`http.c:1015`). A proxied response that comes in pieces is cut after the first when the
  channel is to be closed. A response to a command overtakes one that is still to come from the web server.
* A request that was pipelined behind a command that waits is looked at when that is answered and written;
  until then nothing else is.
* A failure to connect to the web server is not answered at all (`http.c:965` ignores it), and
  when `iochan_add` fails there, `c->proxy` is left dangling (`http.c:796`).

*Records*

* A search with unchanged query whose client is in an error uses the old result set and is never tried
  again (`client.c:955`); a sort that searches again leaves out clients in an error, and their records.
* Late records of an earlier search are taken for those of the new one, and advance `record_offset`; only
  the reset in `client_search_response` puts it right.
* A client that a search leaves out loses its session but not its connection. When the answer to the search
  before comes then and reports facets, `client_report_facets` passes the session, 0, to `add_facet`
  (`client.c:497`), which the program does not survive; `MayReport` leaves this out.
* A client whose query does not parse keeps its session and its connection (`session.c:903`), so late records of
  the search before are ingested into the new list though the client takes no part in the new search.
  `Records` has no such query; `Metasearch` has, without the records.
* Clusters that are merged keep the metadata and sort keys of one of them. A `record` command may be shown
  one that was merged into another, as it stops at the first bucket.
* `pz:extendrecs` fetches nothing more once a record was filtered or was a duplicate, or when the range
  started behind the first record: what was shown then never reaches what was fetched.
* `range` values that a command leaves out stay those of the search before.
* The term frequencies by which scores are normalised are kept per show and per record, and those of a
  cleared set stay (`relevance.c`); that part is not modelled.

*Settings*

* Precedence goes before specificity (`settings.c:444`): a setting for "*" with a higher precedence replaces one
  for the target. `doc/pazpar2_conf.xml:1013` says the reverse ("A setting for a specific target name overrides a
  setting which specifies target using a wildcard"), and that precedence decides between settings of one name
  and target only (`:1016`, `:1055`). Stated as an invariant of the instance of `settings`, TLC finds the documented rule violated.
  `SettingsResolved` says what documentation and code agree on, and holds under either rule.
* A default limitmap counts as no wildcard at all, so that a setting for "*" never replaces it.
* The nodes of the default limitmaps are one list, shared by all databases (`database.c:65`). A setting of higher
  precedence that replaces one of them for one database takes it out of that list (`settings.c:447`) when it
  is not the first, so all databases lose it, against `doc/pazpar2_conf.xml:414` ("Specifies a default limitmap
  for this field. This is to avoid mass configuring of targets"). TLC finds this on the same instance, which has
  the second limitmap for it; `SettingsResolved` does not claim that default limitmaps stay.
* The dictionary of the service grows (`settings_create_offset`) under the mutex of one session only, and
  `settings_modified` is tested and reset in different regions.

*Raw records* (`client.c:264-444`, not modelled). Nothing takes a request out of the queue when its channel or
the connection goes (`client_show_raw_remove` has no caller). A request that is queued behind an active one
makes that one be sent again, and is not sent itself when it is done; the answer to what was sent twice is
taken for a record of the search, and a record of the search that comes while a raw one is awaited is not
ingested.

## 6. Not modelled

Left aside for good: configuration files, conversions of records and character sets, the XML of requests and
responses, floating-point scores, tools and tests, and pz2.js, which is another program. YAZ (ZOOM, poll,
mutexes, condition variables) is external and modelled by its use. `stat`, `ping`, `info`, `bytarget` and
`termlist` read what other commands left. Session ids are a clock and a counter; the model takes them as
unique.

What would come next, in this order: raw records, which share the responses with `Fetch`; finer steps of
`Records` with threads, where `client_got_records` and `session_destroy` meet; relevance scores as fractions;
lost connections in `Settings`.

## 7. Running

    tlc -workers 2 -config MCMetasearch.cfg MCMetasearch
    tlapm SelThread_proofs.tla
