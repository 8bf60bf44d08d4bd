# TLA+ models of the ccls language server

This repository is a Vim configuration that carries its C++ language server,
ccls, under `.vim/ccls`. The server is the program with state and threads, and
these modules are about it: how source files become an index, how the index
reaches the database that answers requests, how a buffer that is being edited
relates to what was indexed, and how the threads that do this start, wait for
each other and stop. Paths below are relative to `.vim/ccls/src`.

## 1. Inventory

| Part | State | Operations | What makes it hard | What makes it correct |
|---|---|---|---|---|
| `threaded_queue.hh` ThreadedQueue | two deques, an atomic counter | push, dequeueAll, dequeue(keep_only_latest), tryPopFront | the counter is read without the mutex | nothing lost or duplicated, order within a class, the counter never hides an element |
| `threaded_queue.hh` MultiQueueWaiter, `pipeline.cc` quit | condition variable over several mutexes, g_quit, active_threads | wait, waitUntil, notify, threadLeave, quit | g_quit is stored without a mutex; notify_one with several queues | no lost wakeup, shutdown reaches every thread and waits for it |
| `pipeline.cc` indexer_Parse, VFS, cache | VFS stamps, index files on disk and in memory, deltas under way | index, parse, load from cache, store, push a delta, apply it, reload | many indexers, two classes of priority, stamps taken before work is done, mutexes per file only, writes that are not atomic | each delta starts where the one before it ended, and the counts add up when all are applied, in whatever order; what was saved is indexed in the end; what is in the cache is never trusted wrongly |
| `pipeline.cc` mainLoop | backlog, path2backlog, deadlines | read messages, answer, apply updates, expire, sleep | pointers into a deque, deadlines against updates | every request answered once, refused only when overdue |
| `pipeline.cc` progress | IndexStats, locals of mainLoop | count, report | counters change between loads | no division by zero, begin and end match |
| `indexer.cc` | one index file per file of a translation unit | index | one entity in several files, names without linkage, macros | each usr that is referred to is registered |
| `query.cc` DB | files, entities, reference counts | createDelta, applyIndexUpdate, clear, look-ups | counts and lists must agree over any sequence of deltas | counts are the number of references, nothing stale is left |
| `sema_manager.cc` SemaManager | LRU of sessions, three queues, debounce times | onView, onSave, onClose, preamble, completion and diagnostic threads | tasks move between three threads, old ones are dropped | every completion request is answered or dropped once, the last change is diagnosed |
| `working_files.cc` | buffers, index contents, line maps | onOpen, onChange, onClose, mapping of positions | edits between index and buffer, characters of several bytes | buffers are the client's documents, ranges follow their text |
| `project.cc` | folders, entries, guesses | load, findEntry, index, indexRelated | two ways to the arguments of a file, indexes that outlive a reload | the same arguments either way, what is not listed is inferred |
| `include_complete.cc` | completion items, is_scanning | rescan, addFile, find | a flag instead of a lock, a destructor that spins on it | the server can end |
| `main.cc`, `messages/initialize.cc` | where the server is | initialize, standalone, exit | indexers start while the answer is under way | the answer is the first one, standalone leaves a complete cache |
| `messages/*.cc`, `message_handler.cc` | the completion cache | queries over DB and working files | two locks, scan lines, hierarchies with cycles | places exist, scopes nest, callers and callees are dual |
| `fuzzy_match.cc` | none | match | a dynamic programme with two states | the best alignment |
| `serializer.cc`, `clang_tu.cc`, `lsp.cc`, `config.cc`, `utils.cc`, `filesystem.cc`, ... | - | encoding, clang adapters, helpers | - | - |
| `plug.vim`, `init.vim`, scripts, rapidjson, index_tests | - | - | vendored, configuration or fixtures | - |

How they interact: the stdin thread parses messages and pushes them on
`on_request`; the main thread (`mainLoop`) runs the handlers, which push index
requests on `index_request`; indexer threads take those, ask the project for the
arguments, parse or load a cached index and push deltas (`IndexUpdate`) on
`on_indexed`; the main thread applies the deltas to the database. `on_request`
and `on_indexed` share one waiter. Everything sent to the client goes through
`for_stdout` to the stdout thread. Shared state outside the queues: the VFS under
its mutex, `g_index` under a shared mutex, the cache files of a source under one
of 256 file mutexes, `IndexStats` as atomics, `g_quit`, the project's folders
(under a mutex that not every writer takes).

## 2. Modules

| Module | Stands for | State and actions |
|---|---|---|
| `ThreadedQueue` | one `ThreadedQueue<T>` | the deques, `total_count_`; one action per operation, since each runs under `mutex_`. Elements are the numbers of their pushes. |
| `QueueWaiter` | threads that sleep on a MultiQueueWaiter and quit() that ends them | a program counter per consumer, split where another thread can get in: look at the queues or drain one, lock, test g_quit, test the queues, sleep, relock, leave; quit() in four steps |
| `IndexFiles` | index files, the VFS comparison, deltas and what they do to the database's share of one file | operators only |
| `IndexPipeline` | indexer_Parse, pipeline::index, reload, main_OnIndexed, over `IndexFiles` | one action per critical section or file system access of indexer_Parse; the environment writes and removes files |
| `IndexedDB` | what the pipeline promises | index files are stored one on top of the other, the step from one to the next is sent once and in its class's order, urgent ones first; a step applied to the image of its beginning gives the image of its end |
| `MainLoop` | mainLoop as the server of requests | phases of a turn: expire, messages, updates, sleep; one action per message, update or expired request |
| `Progress` | IndexStats and the progress report | count in, take, count out, report |
| `SemaManager` | the sessions of open files, the preamble, completion and diagnostic threads, and what the main thread asks of them | one action per notification or request of the client, one per call that its handler then makes, and per thread one action from one mutex to the next |
| `Ranges`, `WorkingFiles`, `FuzzyMatch`, `Completion` | positions, texts of open files and their line maps, the fuzzy matcher, what is made of clang's completions, signatures and replacements | operators only |
| `Editing` | a client that edits, and the handlers that work on its buffer | didOpen, didChange, didClose, an index that is published, completion and signature help between their two locks, formatting; the completion thread answers at any time |
| `Indexer` | what idx::index makes of the events that clang reports | operators only; the events are a constant |
| `Database` | deltas, their application, and the look-ups of `query.cc` | operators only |
| `Hierarchy`, `Navigation`, `Highlight` | the handlers that answer from the database, and the scan line of semantic highlighting | operators only, one per handler |
| `Querying` | files that change, an indexer, the main loop that merges updates and answers | change, delete, index again, apply, answer, send |
| `Project` | compile_commands.json and `.ccls`, load, findEntry, index, indexRelated | operators only |
| `Server` | a run of the server and the next one on its cache: initialize in its order, standalone(), the notifications that index, one indexer with its cache on disk, the scan of the search directories, progress (it extends `Progress`), exit, a crash anywhere | one action per step of do_initialize, per message, per step of the indexer; each write to a cache file is two actions, truncation and writing |
| `ThreadedQueueProofs`, `QueueWaiterProofs`, `MainLoopProofs`, `SemaManagerProofs`, `EditingProofs` | proofs about the module of that name | - |
| `IndexPipelineProofs` | proofs about `IndexPipeline`, among them that it implements `IndexedDB` | - |
| `ServerProofs` | proofs about `Progress`, and about the cache, the answer to initialize and standalone() in `Server` | - |
| `Induction` | lemmas: induction over the natural numbers, functions defined step by step, sequences that are joined | - |
| `MC...` | instances for TLC | - |

Operators whose name ends in `Mutant` are seeded defects: the operator after
them with one plausible mistake (a missing notification, a dropped guard, an
off-by-one). No specification uses them; each shows that some property notices
such a mistake. The comment before one names the mistake where it is not plain.

How the modules rest on each other: `MainLoop`, `IndexPipeline` and `Server` use
the order of elements that `ThreadedQueue` defines (urgent first, then in order)
as plain sequences, and `QueueWaiter` counts the elements only; what these
abstractions rest on (order within a class, nothing lost, a consumer that wakes
when there is something) is what `ThreadedQueue` and `QueueWaiter` show.
`IndexPipeline` has indexers that interleave, with an index file reduced to its
revision; `Querying` has one indexer and the index files in full; `Server` has
one indexer and the arguments, the cache on disk and the life of the process.

### Abstractions worth knowing

* In `IndexPipeline` an index file is the revision of its source, its write time,
  whether names without linkage were indexed and the write times of its
  dependencies. All its definitions, declarations and uses stand or fall together.
* An indexer is cut into steps at every access to something shared. Between
  `getFileMutex` and the unlock the model keeps the mutex (`FileMutexFree`);
  that two files may share one of the 256 mutexes is left out, as it only
  forbids interleavings.
* Time is in seconds, as lastWriteTime has it. `SameSecond` lets two writes fall
  into one second.
* `Overlap` lets urgent and background work be under way at once, `BusyReload` lets
  a reload come meanwhile. `CountsAddUp` and `IndexedDB` are checked with the
  first and not with the second, with which they are false: see section 4. The
  run of SavedIsIndexed has neither, as an urgent delta that overtakes leaves older
  definitions behind.
* `index.onChange` is false and `index.multiVersion` is 0, the defaults.
  In `IndexPipeline` `findEntry` returns the path it was asked for, so that the
  branches for `request.path != path_to_index` are dead, and they are not modelled
  (`entry.id` is never set in findEntry, so neither are `pipeline.cc` 333-336 and
  433-438).
* In `MainLoop` an update names the file it is of and the files that
  `lid2path` names, for which applyIndexUpdate makes a placeholder definition.
* In `SemaManager` a text is the number of the edit that made it and the bounds
  of its preamble, and a PreambleData the bounds it was built for and the stamps
  of the files it includes. The threads compare the `Size` of two bounds only
  (`sema_manager.cc` 504 and 597), clang their contents. Whether the cursor of a completion is in the preamble
  is left open, and so is whether clang reuses a preamble whose bounds fit (a file
  it includes may have been written). A preamble has one include: that a new one
  may take over the stamp of another file (`sema_manager.cc:399-411`) is left out.
* In `Editing` texts are bytes, documents are characters of one to three bytes.
  As in the code a column sent by the client counts characters (code points, not
  UTF-16 units). clang is a constant: what it offers at a place of a text. An
  exception is answered with an error where the main thread meets it
  (`message_handler.cc:216`) and ends the server in the completion thread. The
  distance of two lines wraps where what they share overlaps (`alignColumn`).
* In `Indexer` and `Database` usrs are names, a local file number is the path it
  stands for, and clang is a constant: the events it reports of a main file, given
  the revisions of all files. `Querying` answers in files that are open and whose
  buffer is what was indexed; what happens otherwise is `WorkingFiles`' matter.
* In `Server` a text is the time it was written; a parse looks at the time and
  reads the text in two steps. The folders are disjoint, each
  file depends on itself only, clang fails on the same paths each time, VFS::loaded
  is left out (`IndexPipeline` has it), the client sends messages only while the
  server serves, and `completion.include` excludes no directory (`IncludeMatch`).
  A write to the cache leaves either an empty file or the whole one when it is
  interrupted: what BinaryReader makes of a part of an index (it reads past the
  end) is undefined behaviour that is not modelled.

## 3. Runs

| Run | Question | Instance |
|---|---|---|
| `MCThreadedQueue` | order, loss, duplication, hiding | keep_only_latest = 2, 6 pushes: enough to erase twice and mix classes |
| `MCQueueWaiter` | lost wakeups, shutdown, does quit() end? | 3 consumers of 2 queues, 3 pushes: two may sleep while one is notified, for either queue; fair |
| `MCIndexPipeline` | does the pipeline implement IndexedDB, do counts add up, is every request counted? | 2 indexers, source and header, 1 write, 1 urgent request next to the project's, parses that fail |
| `MCIndexPipelineSaved` | is what was saved or removed indexed in the end, do counts add up after a reload, is every request worked off? | 1 indexer, 2 requests, a reload of the idle server, retention in memory after the first load, no failing parse; fair |
| `MCMainLoop` | are requests answered, once, in time, and not before their file is there? | 2 requests, 2 files, 1 update, 1 notification, time 0..2; fair |
| `MCSemaManager` | is the last text diagnosed, is a completion answered once? | source and header with one session between them, opened again after a close, 2 texts with no preamble or one of two of equal size, 1 completion, 1 call, clang may fail |
| `MCSemaManagerLive` | is every completion answered, does quit() reach all threads? | 1 file, 2 completions, 2 texts, 1 call, no diagnosis on change or save; fair |
| `MCEditing` | is the buffer the document, do ranges, edits and rankings fit the text? | 2 documents with a member access and with blank structure, 3 events of which one change, an accented letter and a newline among what is typed |
| `MCDatabase` | do counts, lists and answers say what the last indexes say? | a header and two sources, one change or deletion in any of them, every request at every symbol, halfway through the updates too |
| `MCServer` | arguments, cache, first answer, progress and end over two runs of the server | two folders the client names or leaves to the server, 4 files, 2 messages, 1 write, a crash anywhere, then standalone() on what is left; project files that grow; fair |
| `MCIndexPipelineClobber`, `MCServerStale` | see section 4 | two indexers without failures; a command that leaves compile_commands.json |

`MCServer` runs the server or standalone() first and standalone() again: a
second run of the server would meet the same cache with more messages, which
multiplies the states but not the ways to come by a bad cache entry. The cache
starts with an entry of an older version, so that refusal by version, an empty
file, a stale time and different arguments all occur. `MaxEnqueued` = 5 is the
initial project (with its dummy uncounted), one more for an open file and its
related sources, and one reload of the configuration. One write is enough for a
file to be newer than its index, to change while it is parsed, or to be saved
between the two halves of a cache entry. A header is blacklisted, one file is in
both lists, clang fails on another.

In `MCDatabase` the header's change moves every line and turns an override into
a function of its own; the sources share a base class, a macro use and calls that
are not written out. One change is enough for an update to take out what it did
not put in; with the two sources the header is indexed by whichever comes first.

In `MCEditing` three events are an open, a change and a request, or a request,
a change and a request within an open file (the index of a file is published by
an event too); documents of four and five characters have blank and unique lines, and a newline
that is typed in moves a line, so that the ends of a range over two lines come
apart or change places.

A "call" of `SemaManager` is a save, close, watched file, reload or exit. One
session for two files makes the cache and the queue of preambles overflow at
once. Two texts suffice for an old preamble under a new text and for a change
within the debounce of the one before; two completions for one that overtakes
another. Of the three bounds of the source one is "no preamble" and two have one
size, so that a preamble may be used for a text it was not built for. Files are
closed and opened again: a session made by a task that was late keeps its file from
being diagnosed at that open, and `LastChangeDiagnosed` excepts it until its next
change (`waived`).

Initial caches of `IndexPipeline` are every combination of "nothing", "index of
the file before its last change" and "current index", with and without names
without linkage: that is what an earlier run of the server can leave. A header
and a source that includes it give every kind of path through indexer_Parse:
fresh parse, cache hit, stale cache, stale dependency, dependency loaded, refused
or already loaded. Two revisions suffice to have an old and a new one under way.

Fairness. `QueueWaiter`: strong fairness of every consumer and of the fence of
quit(), because threads compete for mutexes that are freed again and again;
the choice to quit is the client's and has none. `IndexPipeline`: weak fairness
of the main loop's update and of each indexer, which are loops of threads that
never block but on work; it is assumed where there is one indexer, so that waiting
for another's file mutex is not part of `Settles`. `MainLoop`: weak fairness of the clock and of the loop.
`SemaManager`: weak fairness of the clock, of the handler's next call and of each
thread; the client need not do anything. There a preamble that can be built is
built (`ClangFails` is FALSE). `Server`: weak fairness of the indexer, of the
scan and of the end of the process, which are threads that the system schedules;
messages, writes, crashes and exit have none. The indexer's is written out with
its enabling condition (`IndexerReady`), because TLC evaluates ENABLED of an
action with a project in it slowly.

Deadlock is not checked: every instance ends when its bounds are used up or the
server has stopped, and the liveness properties say where it must not end.

## 4. Where the code and its documents disagree

Two runs are expected to fail; each checks one property that the documentation
or a comment states.

* `MCIndexPipelineClobber`: loading a dependency from the cache sets its stamp
  back over a newer one (`pipeline.cc:326`), and a saved header stays unindexed
  until its next save, against "Saving files will incrementally update the index"
  (`ccls/README.md:22`).
* `MCServerStale`: loading a folder again rebuilds its entries but only adds to
  path2entry_index (`project.cc:478`): a file whose command was removed gets the
  command of another file, or what is behind the end of the vector, as its own,
  against "If no entry was found this will infer one" (`project.hh:57`).

Further behaviour of the code that the passing runs have to allow for or to
exclude by their constants:

Index and database

* An urgent delta overtakes a background one on which it is based
  (`pipeline.cc:427`): the assertions of `query.cc` 281 and 292 fail. Asserts are
  compiled out of a release build, where the count goes below zero and recovers:
  that it does is `CountsAddUp`, and `IndexedDB` promises nothing of a step that is
  taken before its turn. The definitions may stay those of the older index.
* A reload forgets the database and the time stamps but not `g_index`: with the
  default `cache.retainInMemory` = 2, where a file is kept from its second load
  on, the copy kept before the reload grows stale while the file's first index after
  it is stored on disk only, and the next delta starts from that copy. A reload
  while deltas are under way lets them be applied to a database without their
  bases. Both are excluded, from the runs and from the proofs (`Scope`, section 5).
* With several indexers the slower of two parses stores the older revision last,
  and two saves within a second have the same write time (`SameSecond`): in both
  cases the newer revision may stay unindexed until the next save.
* Methods, nested namespaces and extern variables put `derived` or `instances`
  into two files' indexes, and macro uses put equal uses there: removeRange of one
  file erases the other's (`query.cc:39-46`). `NothingStale` says that nothing is
  left behind, not that nothing is missing.
* getFunc, getType and getVar of an unknown usr insert it with number 0
  (`query.hh:176`); the type of an enumerator is one such usr (`indexer.cc:878`),
  and `UsrsRegistered` leaves it out.
* `files_removed` of an update is never set. Use::operator== ignores the role. The
  bases of a definition are not made unique.
* $ccls/member does not end on a cycle of bases that a half applied change can
  leave (`ccls_member.cc:121`); requests of the hierarchies with an unknown id,
  executeCommand without arguments and $ccls/fileInfo of a file that is not
  indexed return without an answer.
* Renaming in files that are not open uses the widened ranges of calls that are
  not written out (the TODO of `textDocument_rename.cc:36`); documentLink passes
  an uninitialised column to the line map.

Start, project and cache

* didChangeConfiguration loads each folder again, but path2entry_index, dot_ccls
  and search_dir2kind are never cleared. A root .ccls that was removed makes
  findEntry append what index() does not. In nested folders an implicit entry of
  the outer one may hide the exact entry of the inner, depending on hash order.
  Entries outside of their folder are not found by findEntry. The runs that pass
  have disjoint folders and project files that only grow.
* A folder that is added later gets no cache directory (those are made in
  `initialize.cc` 366-375 only): its files are not cached, and without the previous
  index a second delta subtracts nothing.
* A file that is parsed again although it has not changed truncates its cached
  text first: after a crash there the text is empty under an index that is
  trusted. `CacheTrusted` allows for the empty text.
* The id of initialize goes on to the index requests, so that each translation unit
  that fails answers it again, with an error.
* An excluded directory ends the include scan with is_scanning set, and the
  destructor spins for ever (`include_complete.cc:107`). `IncludeMatch` is TRUE.
* root2folder and workspaceFolders are changed without the mutex under which the
  indexers read them (`messages/workspace.cc:81`).

Buffers, completion, threads

* A completion on the empty last line of a text without a newline begins on the
  line above (`working_files.cc:31`, against the assertion of
  `textDocument_completion.cc:106`), and at the end of such a text one byte early.
  Columns count bytes where a completion begins and characters where it ends.
  `EditsFit` leaves these out.
* The completion cache is tested and read under two locks, and the completion
  thread may write it between them (`textDocument_completion.cc:586-597`): the
  answer may then be about another place. The cache's line is the one of the request,
  not the one clang saw: changed before clang looks and changed back, it is answered
  with items of a text that is gone. `Editing` does both; no property is about the
  cache. `EditsFit` leaves such answers out.
* An #include that is changed to one of the same length keeps the old preamble until
  the next save: only the size of the preamble is compared.
* A range of the index whose end would be mapped before its start keeps its height
  (`query.cc:682`), and one that ends behind the last line ends on the line numbered
  by the bytes of the buffer (`working_files.cc:321`): both may be beyond the buffer.
  Of two lines that share more than the shorter has, alignColumn takes the rest of
  the shorter line (`working_files.cc:139`).
* buffer_to_index is not always an inverse of index_to_buffer.
* A completion that needs a new preamble comes back behind later requests, which
  are then dropped for it, against `config.hh:147-149` ("it will only service the
  newest request").
* When the server quits, dropping old completions may take the null task of
  quit(), which is dereferenced in the next line (`sema_manager.cc:470-474`): the
  state "crashed" of the completion thread.
* keep_only_latest = `session.maxNum` also erases preamble tasks of files just
  opened, whose diagnosis and completions are then given up (`waived`, `lost`).
  After it erased something, size() and isEmpty() count what is no longer there
  (`threaded_queue.hh:87`, `125` against `136-139`). `CountCoversSize` is what
  remains true, and `SizeHolds` proves exactness where nothing is erased.
* A completion goes round between two threads for ever if the preamble of its
  file cannot be built and an older one is there.
* When the server quits, the stdout thread leaves at its next wait even if
  messages were pushed meanwhile (`pipeline.cc:613`).

## 5. Proofs

TLAPS proves, for every value of the constants:

* `QueueWaiterProofs`: TypeOK, Exclusion, NoLostWakeup, QuitReachesAll and
  JoinMeansLeft for any finite set of consumers and any queues. The inductive
  invariant adds two parts. `QuitStages`: g_quit is set from the stage "stored"
  on, and from "fenced" on nobody is between the test of g_quit and the sleep
  with a stale answer; without it notify_all could precede a sleep.
  `ActiveCounts`: active_threads is the number of consumers that have not left,
  which turns the predicate of quit() into a statement about threads.
* `ThreadedQueueProofs`: TypeOK, CountCoversSize, ClassOrder and ExactlyOnce for
  every keep_only_latest, and CountIsSize for keep_only_latest = 0. The inductive
  invariant says, for each class of elements, that its deque is sorted by age and
  holds its class only, that the class was handed out in order, and that what was
  handed out is older than what waits (`Class`); ClassOrder alone says nothing of
  the order inside a deque and is not inductive. The five `Class...` lemmas say
  what a push, a take, a drain, and a take or a drain of the other class do to it.
  For ExactlyOnce the same invariant is needed (an element that is handed out was
  not before because it is younger) and that nothing erased waits.
* `IndexPipelineProofs`: TypeOK, and Outstanding for any indexers, overlapping
  requests, reloads and failures included. The type invariant has to say what an
  indexer's local variables are at each step of indexer_Parse (`JobAt`); the
  counters then follow from an injection of what is enqueued into the queue and
  the threads that are busy. `OfPaths`, the updates of some files among those that
  wait, is a recursive function: what it gives for an appended, a removed and a
  dropped element is proved with `Induction`.
  Then CountsAddUp, and that the pipeline implements `IndexedDB` step by step, with
  urgent and background work on one file at once. Left out (`Scope`) are a reload
  while work is under way, and reloads together with index files that are kept in
  memory from a later load on only: there both claims are false of the code
  (section 4). The inductive invariant `Inv` is the argument why deltas survive
  threads: between the choice of the previous index and the push of the delta the
  file's mutex is held (`Mutex`); what is loaded or about to be pushed meanwhile is
  what the cache holds (`HeldInv`, for which `StoreInv` relates the copies in memory,
  on disk and the loads that VFS counts); and the database's counts, with what the
  waiting updates of both classes will still do to them, are those of that index
  file (`CountsAddUp`), a sum that does not depend on the order in which they are
  applied.
* `MainLoopProofs`: TypeOK, BacklogIndexed, AnsweredOnce, WaitsForUpdate and the
  action property RefusedLate, for any files, timeout, batch size and number of
  requests, updates and notifications. These invariants are not inductive: that a
  message put at the end of the backlog comes after all others, and that the one
  handled now waits nowhere else, rests on `InOrder`, by which requests are
  numbered in the order they were sent and the backlog, the messages of the turn
  and the queue of messages follow each other in that order. `Loop` adds that
  only requests wait, that the clock of a turn is not ahead of the time (from
  which RefusedLate follows), that no turn ends with messages left and that
  nothing was sent for a request to come. The proof has a lemma per action
  (`ExpireStep`, `HandleStep`, `UpdateStep`, ...); the lemmas on sequences before
  them say what a tail, an append and the dropped head of the backlog do to each
  part of the invariant.
* `ServerProofs`: of `Progress`, TypeOK, CountersInOrder, PercentageInRange and
  ShownInProgress, which are inductive together, for any number of requests; the
  division needs that the idle mark lags behind the number of requests. Of
  `Server`, CacheTrusted, for any files, folders, requests, writes to the sources
  and runs, each ended by a crash or not. It is not inductive: while an entry is
  written its text is newer than its index, or its index is empty. `CacheInv` adds
  that nothing in the cache is newer than its file, that the text of an index that
  can be loaded is no older than the index or is empty, and what the indexer
  holds between the four steps of its two writes: a text of a time that the file
  had, which stands in the cache before the index is touched. Nothing has to be
  known of requests, arguments and folders, as the entry of a path is of that path
  wherever it is.
  StandaloneComplete is about the whole way from the project files on disk to the
  cache, for any layouts, folders, failures of clang and writes meanwhile, and
  whatever an earlier run or a crash has left. Its first half is about functions:
  that what load makes of a folder are entries (`LoadIsFolder`), and that in any
  order of the folders the requests of Project::index have one for each entry that
  matches and nothing else before the dummy (`ProjectRequests`). The second half is
  `RunInv`: without a client the queue is a rest of those requests, what is enqueued
  is what is completed and what is left (`QueueInv`), and each file of the project
  waits, is in the indexer's hands or is done (`FilesTaken`). For the step from the
  queue to done without a parse, what the cache holds must be loaded from where the
  indexer would store it, and there is such a place: the root is the only folder,
  and has its directories (`RootReady`). ResultFirst is the part of `RunInv` with a
  client: the result is sent before there is an indexer.
* `SemaManagerProofs`: TypeOK and CompletedOnce for any files, delays,
  session.maxNum and bounds, and LastChangeDiagnosed, with files that are closed and
  opened again, provided that no delay is negative, which would switch a diagnosis
  off (`Scope`). Types need that the cache has one session per file (`SessionsOK`,
  with lemmas for LruCache's get, take and insert), that a thread's PreambleData is
  its session's while it is current (`DataOK`), and a count: at most `MaxNum`
  sessions are cached and two held by threads, so that one of `Sids` is free for a
  new one. CompletedOnce is not inductive: `OnceInv` adds that a completion is at
  one place, and once (`CompOnce`, `PreambleOnce`, `Apart`), and that what is at a
  place has no answer, after quit() as well. LastChangeDiagnosed needs two parts.
  `NextDue`: a change is refused by the debounce only while a task for that file
  waits or sleeps that has not read the buffer. `DueInv`: each open file is diagnosed
  with its last text, or is on one of six ways to a diagnosis (`Pending`), or is being
  parsed, and a parse whose preamble is not of the text's size is followed by
  another one, or is excepted (`waived`) until its next change.
* `EditingProofs`: BufferIsDocument and RangesFollowText for any documents, inserts,
  bounds and whatever clang returns. BufferIsDocument is about three ways to say a
  place: lines and characters for the client, bytes for the server. That a change
  replaces the same text on both sides needs that a prefix of a text has as many bytes
  as its characters have (`ValidText`), that the line of a position begins behind as
  many newlines on both sides, which counting newlines byte by byte finds because no
  byte of a longer character is one, and that from there the server steps over whole
  characters. Several changes in one notification go by induction over them.
  RangesFollowText is a statement about one function of two texts. Its proof follows
  computeLineMapping: the lines that are unique in both texts, then their neighbours
  downwards and upwards, each step of which keeps that a line is mapped to an equal
  one, and to the only equal one if there is just one; then the inverse; then, by
  induction down and up, that a text is mapped to itself; then the place that
  findMatchingLine picks between two sure neighbours; and at last the two ends of a
  range, each mapped on its own, with what getLsRange does where they come out in the
  wrong order. On equal lines alignColumn is the identity, for which the rows of its
  distances have to be known to be numbers and no more. A second invariant
  (`LinesInv`) says that the lines of buffer and index are what didOpen and the
  indexer put there.

Assumptions are those the modules declare and TLC evaluates: the constants are
numbers, the consumers and indexers are finite sets, there is one consumer if
quit() uses notify_one, texts are in UTF-8 (`TextsAssumption`), the commands of the
project files are for files below the folders, commands for files elsewhere being left out (`LayoutsAssumption`), and what stands for
"nothing" (`None`, `NoFile`) is no file, text, range or index file, as a null pointer
is none.

`Induction` is there because the induction theorems of the library take an
operator as a parameter, which the provers cannot instantiate. Its lemmas say the
same of a set: a set of numbers that has 0 and with each number the next has all,
and a function on 0..N with a given start and step exists. With them a recursive
function can be unfolded, and a claim about it proved for all sequences: what the
sequences of a sequence give when they are joined (FlattenSeq), from which follows what
a filter keeps (`Kept` of `Project`, used where a proof needs it in place of SelectSeq).

TypeOK, Exclusion, JoinMeansLeft, CountIsSize and PercentageInRange are stated
for the proofs only; the runs check what rests on them. The inductive invariants
were checked with TLC on the runs' instances before they were proved. The proofs
corrected three models: `IndexedDB` had no step for a reload, `SemaManager` one
number too few for its sessions (found by the count above, out of reach of the
run's instance), and constants were not kept apart from `None`. CountersInOrder and
ShownInProgress are proved about `Progress` alone, whose report runs beside any
number of requests; `MCServer` checks that they hold where `Server` uses it.

The theorems about `QueueWaiter` hold for both ways of quit() to notify; the run
shows the indexers' (notify_all), and the stdout thread's (notify_one to a single
consumer) is left to the proofs.

Model-checked only, and why:

* liveness and fairness (QuitTerminates, Settles, Served, AllLeave, Completes, Quits),
  which are out of the prover's reach, as is ENABLED;
* SavedIsIndexed of `IndexPipeline`, which holds for one indexer only, for the reason
  `MCIndexPipelineClobber` shows;
* EditsFit, RankedByAlignment and FormatFits of `Editing`: they are about what folds
  over clang's candidates and replacements compute for every input, an induction over
  data with an operator as a parameter;
* what the runs say of `Querying`: its database is merged and read with folds and
  SelectSeq, of which the prover knows nothing, and `Hierarchy` walks through it with
  RECURSIVE operators;
* ArgsAgree and, of the counterexamples, InferredIfUnlisted: the guess of findEntry is
  a fold over folders.

## 6. Not modelled

Not modelled:

* which declarations clang reports and the wording of names, comments and hover
  texts in the AST visitor (`indexer.cc`), the compiler invocation (`clang_tu.cc`):
  their data is clang's;
* the byte format of the cache (`serializer.cc`, `serializer.hh`) beyond its
  version and what is refused;
* the items of include completion and their mutex;
* the LSP structures, configuration, the command line, logging and platform
  calls, the capabilities that initialize announces;
* `index.onChange`, `index.multiVersion`, `clang.pathMappings`, symbolic links;
* the shutdown of all threads together: `QueueWaiter`, `SemaManager` and `Server`
  each have their part of it;
* rapidjson, `plug.vim`, `init.vim` and the scripts, the test driver and its
  fixtures.
