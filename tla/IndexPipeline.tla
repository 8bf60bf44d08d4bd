--------------------------- MODULE IndexPipeline ---------------------------
(***************************************************************************)
(* The indexing pipeline (pipeline.cc): the main thread sends index        *)
(* requests, indexer threads run indexer_Parse on them and push deltas,    *)
(* and the main thread applies the deltas to the database (main_OnIndexed).*)
(* The environment edits and removes files, and the client saves, closes   *)
(* and reloads.  An indexer is cut where it touches something that another *)
(* thread can change: the VFS, the file system, the cache under the file's *)
(* mutex.                                                                  *)
(*                                                                         *)
(* index.onChange is false and index.multiVersion is 0, their defaults.    *)
(***************************************************************************)
EXTENDS IndexFiles, FiniteSets

CONSTANTS
  Entries,         \* the project's files with a compilation command, in order
  Includes,        \* Includes[p]: the other files clang reads to parse p
  Matched,         \* the paths GroupMatch and must_exist let through
  Indexers,        \* the indexer threads
  Modes,           \* the IndexModes requests are made with
  Tracks,          \* {FALSE}, BOOLEAN, {TRUE}: index.trackDependency 0, 1, 2
  NoLinkage,       \* index.initialNoLinkage
  CacheDirectory,  \* whether cache.directory is set
  RetainInMemory,  \* cache.retainInMemory
  Overlap,         \* TRUE: urgent and background work may be under way at once
  BusyReload,      \* TRUE: a reload may come while work is under way
  SameSecond,      \* TRUE: two writes of a file may have the same write time
  ParseFails,      \* TRUE: clang may fail or crash on a file
  MaxRequests,     \* bound on the requests of the client
  MaxReloads       \* bound on $ccls/reload

ASSUME PipelineAssumption ==
  /\ Matched \subseteq Paths /\ Entries \in Seq(Matched)
  /\ Includes \in [Paths -> SUBSET Paths]
  /\ Modes \subseteq {"Delete", "Background", "Normal"}
  /\ Tracks \subseteq BOOLEAN /\ Tracks /= {}
  /\ {NoLinkage, CacheDirectory, Overlap, BusyReload, SameSecond, ParseFails} \subseteq BOOLEAN
  /\ {RetainInMemory, MaxRequests, MaxReloads} \subseteq Nat
  /\ IsFiniteSet(Indexers)
  /\ ~CacheDirectory => RetainInMemory = 1   \* forced by do_initialize

VARIABLES
  disk,           \* disk[p]: [mtime, rev] of a file, or None
  clock,          \* the time in seconds, which is all lastWriteTime returns
  revision,       \* the newest revision of any file (bounded by MaxRev)
  index_request,  \* the queue of index requests
  on_indexed,     \* the queue of updates
  vfs,            \* VFS::state
  cache,          \* the cache files on disk
  g_index,        \* the index files kept in memory
  db,             \* the database's share of each file
  pc,             \* pc[i]: where indexer i is in indexer_Parse
  job,            \* job[i]: its local variables
  enqueued,       \* IndexStats::enqueued
  completed,      \* IndexStats::completed
  requests,       \* number of requests by the client (bounded)
  reloads,        \* number of reloads (bounded)
  unsaved         \* history: paths written since they were last requested

clientVars == <<requests, reloads, unsaved>>
fileVars == <<disk, clock, revision>>
storeVars == <<vfs, cache, g_index>>
vars == <<fileVars, index_request, on_indexed, storeVars, db, pc, job,
          enqueued, completed, clientVars>>

NoJob == [path |-> None, urgent |-> FALSE, deleted |-> FALSE, reparse |-> 0,
          no_linkage |-> FALSE, track |-> FALSE, prev |-> None, file |-> None,
          todo |-> {}, seen |-> <<>>, indexes |-> {}]

Steps == {"idle", "stamp", "cache", "load", "deps", "depload", "see", "store",
          "push"}

Busy == {i \in Indexers : pc[i] /= "idle"}

Quiet == Busy = {} /\ index_request = EmptyQueue /\ on_indexed = EmptyQueue

\* No mutex per file.
FileMutexFreeMutant(p) == TRUE

\* getFileMutex: an indexer holds it from the check of the cache to the load, and
\* from the write of an index file to the push of its delta.
FileMutexFree(p) ==
  \A i \in Indexers : pc[i] \in {"load", "push"} => job[i].file /= p

\* rawCacheLoad: the copy in memory comes first, then the cache files.
rawCacheLoad(p) ==
  IF RetainInMemory > 0 /\ g_index[p] /= None THEN g_index[p] ELSE cache[p]

\* The request as indexer_Parse will see it.
Request(p, mode) == [path |-> p, mode |-> mode]

Urgent(mode) == mode /= "Background"

\* Project::index: every entry, an open file as an urgent request, then the dummy
\* request that asks for a refresh of the highlighting once the project is loaded.
ProjectIndex(q, open) ==
  LET entry(e) == Request(e, IF e \in open THEN "Normal" ELSE "Background")
      upTo[n \in 0..Len(Entries)] ==
        IF n = 0 THEN q
        ELSE PushBack(upTo[n - 1], entry(Entries[n]), Entries[n] \in open)
  IN PushBack(upTo[Len(Entries)], Request(None, "Background"), FALSE)

EntrySet == {Entries[k] : k \in DOMAIN Entries}

\* What an earlier run of the server left in the cache for each file: nothing
\* (0), an index of the file before its last change (1) or of it as it is (2).
Init ==
  /\ clock = 2 /\ revision = 1
  /\ disk = [p \in Paths |-> [mtime |-> 2, rev |-> 1]]
  /\ index_request = ProjectIndex(EmptyQueue, {}) /\ on_indexed = EmptyQueue
  /\ vfs = [p \in Paths |-> NeverSeen]
  /\ \E age \in [Paths -> IF CacheDirectory THEN 0..2 ELSE {0}], nl \in BOOLEAN :
       cache = [p \in Paths |->
         IF age[p] = 0 THEN None
         ELSE IndexOf(age[p], age[p] - 1, nl, [d \in Includes[p] |-> age[d]])]
  /\ g_index = [p \in Paths |-> None]
  /\ db = [p \in Paths |-> NotIndexed]
  /\ pc = [i \in Indexers |-> "idle"]
  /\ job = [i \in Indexers |-> NoJob]
  /\ enqueued = Len(Entries) /\ completed = 0
  /\ requests = 0 /\ reloads = 0 /\ unsaved = {}

----------------------------------------------------------------------------
(* The world outside *)

\* An editor or a tool writes a file.
Write(p) ==
  /\ revision < MaxRev
  /\ revision' = revision + 1
  /\ \E now \in {clock, clock + 1} :
       /\ now = clock => SameSecond
       /\ clock' = now
       /\ disk' = [disk EXCEPT ![p] = [mtime |-> now, rev |-> revision']]
  /\ unsaved' = unsaved \cup {p}
  /\ UNCHANGED <<index_request, on_indexed, storeVars, db, pc, job, enqueued,
                 completed, requests, reloads>>

Remove(p) ==
  /\ "Delete" \in Modes /\ disk[p] /= None
  /\ disk' = [disk EXCEPT ![p] = None]
  /\ unsaved' = unsaved \cup {p}
  /\ UNCHANGED <<clock, revision, index_request, on_indexed, storeVars, db, pc, job,
                 enqueued, completed, requests, reloads>>

----------------------------------------------------------------------------
(* The main thread *)

\* Work of the other class is under way.
Mixing(mode) ==
  \/ \E i \in Busy : job[i].urgent /= Urgent(mode)
  \/ IF Urgent(mode) THEN index_request.queue_ /= <<>> \/ on_indexed.queue_ /= <<>>
     ELSE index_request.priority_ /= <<>> \/ on_indexed.priority_ /= <<>>

\* pipeline::index, for didOpen, didSave and didChangeWatchedFiles.
index(p, mode) ==
  /\ requests < MaxRequests
  /\ Overlap \/ ~Mixing(mode)
  /\ mode = "Delete" => disk[p] = None
  /\ requests' = requests + 1
  /\ unsaved' = IF (mode = "Delete") = (disk[p] = None) THEN unsaved \ {p} ELSE unsaved
  /\ enqueued' = enqueued + 1
  /\ index_request' = PushBack(index_request, Request(p, mode), Urgent(mode))
  /\ UNCHANGED <<fileVars, on_indexed, storeVars, db, pc, job, completed, reloads>>

\* The counts of loads are not cleared.
reloadMutant ==
  /\ reloads < MaxReloads
  /\ BusyReload \/ Quiet
  /\ reloads' = reloads + 1
  /\ vfs' = [p \in Paths |-> [NeverSeen EXCEPT !.loaded = vfs[p].loaded]]
  /\ db' = [p \in Paths |-> NotIndexed]
  /\ \E open \in SUBSET EntrySet :
       /\ open = {} \/ (Overlap /\ "Normal" \in Modes)
       /\ index_request' = ProjectIndex(index_request, open)
  /\ enqueued' = enqueued + Len(Entries)
  /\ unsaved' = unsaved \ {p \in EntrySet : disk[p] /= None}
  /\ UNCHANGED <<fileVars, on_indexed, cache, g_index, pc, job, completed, requests>>

\* ccls_reload clears the VFS and the database, not g_index, and requests the
\* project again.
reload ==
  /\ reloads < MaxReloads
  /\ BusyReload \/ Quiet
  /\ reloads' = reloads + 1
  /\ vfs' = [p \in Paths |-> NeverSeen]
  /\ db' = [p \in Paths |-> NotIndexed]
  /\ \E open \in SUBSET EntrySet :
       /\ open = {} \/ (Overlap /\ "Normal" \in Modes)
       /\ index_request' = ProjectIndex(index_request, open)
  /\ enqueued' = enqueued + Len(Entries)
  /\ unsaved' = unsaved \ {p \in EntrySet : disk[p] /= None}
  /\ UNCHANGED <<fileVars, on_indexed, cache, g_index, pc, job, completed, requests>>

\* textDocument_didClose calls removeCache.
removeCache(p) ==
  /\ CacheDirectory /\ g_index[p] /= None
  /\ g_index' = [g_index EXCEPT ![p] = None]
  /\ UNCHANGED <<fileVars, index_request, on_indexed, vfs, cache, db, pc, job,
                 enqueued, completed, clientVars>>

\* mainLoop takes one update and main_OnIndexed applies it.
main_OnIndexed ==
  /\ on_indexed /= EmptyQueue
  /\ LET u == Head(InOrder(on_indexed)) IN
       db' = IF u.path = None THEN db ELSE [db EXCEPT ![u.path] = apply(@, u)]
  /\ on_indexed' = PopFront(on_indexed)
  /\ UNCHANGED <<fileVars, index_request, storeVars, pc, job, enqueued,
                 completed, clientVars>>

----------------------------------------------------------------------------
(* An indexer: indexer_Parse *)
Unchanged == UNCHANGED <<fileVars, db, enqueued, clientVars>>

Goto(i, to) == pc' = [pc EXCEPT ![i] = to]

\* Every return but the dummy's counts the request as completed.
Finish(i) ==
  /\ Goto(i, "idle")
  /\ job' = [job EXCEPT ![i] = NoJob]
  /\ completed' = completed + 1

Step(i, to, j) ==
  /\ Goto(i, to)
  /\ job' = [job EXCEPT ![i] = j]
  /\ UNCHANGED completed

\* The index request of a path the matcher or findEntry refuses, and the dummy
\* request, which only asks for a refresh and is not counted.
Refuse(i) ==
  /\ pc[i] = "idle" /\ index_request /= EmptyQueue
  /\ LET r == Head(InOrder(index_request)) IN
     /\ r.path \notin Matched
     /\ completed' = IF r.path = None THEN completed ELSE completed + 1
     /\ on_indexed' = IF r.path = None THEN PushBack(on_indexed, RefreshUpdate, FALSE)
                      ELSE on_indexed
  /\ index_request' = PopFront(index_request)
  /\ Unchanged /\ UNCHANGED <<storeVars, pc, job>>

\* What the parse starts from: clang sees the main file first; a deleted file is
\* not parsed, an empty index stands for it.
StartParse(i, j) ==
  IF j.deleted THEN Step(i, "store", [j EXCEPT !.indexes = {j.path}])
               ELSE Step(i, "see", [j EXCEPT !.todo = {j.path}])

\* tryPopFront and the locals that do not depend on shared state.
Accept(i) ==
  /\ pc[i] = "idle" /\ index_request /= EmptyQueue
  /\ LET r == Head(InOrder(index_request)) IN
     /\ r.path \in Matched
     /\ \E track \in Tracks :
          LET j == [NoJob EXCEPT !.path = r.path, !.urgent = Urgent(r.mode),
                                 !.deleted = r.mode = "Delete",
                                 !.no_linkage = NoLinkage \/ r.mode /= "Background",
                                 !.track = track]
          IN IF j.deleted THEN StartParse(i, j) ELSE Step(i, "stamp", j)
  /\ index_request' = PopFront(index_request)
  /\ Unchanged /\ UNCHANGED <<on_indexed, storeVars>>

\* The file's write time is read and stamped; without news and without
\* tracking of dependencies there is nothing to do.
Stamp(i) ==
  LET p == job[i].path
      there == disk[p] /= None
      step == IF job[i].no_linkage THEN 2 ELSE 0
      wins == there /\ Newer(vfs[p], disk[p].mtime, step)
  IN
  /\ pc[i] = "stamp"
  /\ vfs' = IF there THEN [vfs EXCEPT ![p] = Stamped(@, disk[p].mtime, step)] ELSE vfs
  /\ IF wins \/ job[i].track
     THEN Step(i, "cache", [job[i] EXCEPT !.deleted = ~there,
                                          !.reparse = IF wins THEN 1 ELSE 0])
     ELSE Finish(i)
  /\ Unchanged /\ UNCHANGED <<index_request, on_indexed, cache, g_index>>

\* The cached index is not compared with the file's write time.
CacheCheckMutant(i) ==
  LET p == job[i].path
      prev == rawCacheLoad(p)
      stale == prev = None \/ (~prev.no_linkage /\ job[i].no_linkage)
  IN
  /\ pc[i] = "cache" /\ FileMutexFree(p)
  /\ IF stale THEN StartParse(i, job[i])
     ELSE IF job[i].reparse = 0 \/ vfs[p].loaded > 0 THEN Finish(i)
     ELSE Step(i, "load", [job[i] EXCEPT !.prev = prev, !.file = p])
  /\ Unchanged /\ UNCHANGED <<index_request, on_indexed, storeVars>>

\* Under the file's mutex: is there an index in the cache, good enough and no
\* older than the file and, if tracked, its dependencies?
CacheCheck(i) ==
  LET p == job[i].path
      prev == rawCacheLoad(p)
      stale == \/ prev = None
               \/ ~prev.no_linkage /\ job[i].no_linkage
               \/ prev.mtime < vfs[p].timestamp
      depChanged == \E d \in DOMAIN prev.dependencies :
                      disk[d] = None \/ prev.dependencies[d] < disk[d].mtime
  IN
  /\ pc[i] = "cache" /\ FileMutexFree(p)
  /\ IF stale \/ (job[i].track /\ depChanged) THEN StartParse(i, job[i])
     ELSE IF job[i].reparse = 0 \/ vfs[p].loaded > 0 THEN Finish(i)
     ELSE Step(i, "load", [job[i] EXCEPT !.prev = prev, !.file = p])
  /\ Unchanged /\ UNCHANGED <<index_request, on_indexed, storeVars>>

\* Still under the mutex: the cached index is sent as new.
CacheLoad(i) ==
  LET p == job[i].path
      prev == job[i].prev
  IN
  /\ pc[i] = "load"
  /\ on_indexed' = PushBack(on_indexed, createDelta(p, None, prev), job[i].urgent)
  /\ vfs' = [vfs EXCEPT ![p].loaded = @ + 1,
                        ![p].step = IF prev.no_linkage THEN 2 ELSE @]
  /\ Step(i, "deps", [job[i] EXCEPT !.todo = DOMAIN prev.dependencies])
  /\ Unchanged /\ UNCHANGED <<index_request, cache, g_index>>

\* Then its dependencies: the first to stamp one loads it too.
DepStamp(i) ==
  /\ pc[i] = "deps"
  /\ \E d \in job[i].todo :
       LET ts == job[i].prev.dependencies[d] IN
       /\ vfs' = [vfs EXCEPT ![d] = Stamped(@, ts, 1)]
       /\ IF Newer(vfs[d], ts, 1)
          THEN Step(i, "depload", [job[i] EXCEPT !.file = d, !.todo = @ \ {d}])
          ELSE Step(i, "deps", [job[i] EXCEPT !.todo = @ \ {d}])
  /\ Unchanged /\ UNCHANGED <<index_request, on_indexed, cache, g_index>>

DepLoad(i) ==
  LET d == job[i].file
      dep == rawCacheLoad(d)
  IN
  /\ pc[i] = "depload" /\ FileMutexFree(d)
  /\ IF dep = None \/ vfs[d].loaded > 0 THEN UNCHANGED <<vfs, on_indexed>>
     ELSE /\ vfs' = [vfs EXCEPT ![d] = [timestamp |-> dep.mtime, loaded |-> 1,
                             step |-> IF dep.no_linkage THEN 3 ELSE @.step]]
          /\ on_indexed' = PushBack(on_indexed, createDelta(d, None, dep), job[i].urgent)
  /\ Step(i, "deps", job[i])
  /\ Unchanged /\ UNCHANGED <<index_request, cache, g_index>>

DepsDone(i) ==
  /\ pc[i] = "deps" /\ job[i].todo = {}
  /\ Finish(i)
  /\ Unchanged /\ UNCHANGED <<index_request, on_indexed, storeVars>>

\* clang reads a file and seenFile stamps it; the first to stamp its write time
\* indexes it.  A header that is missing is an error of the parse, no more.
SeeFile(i) ==
  LET j == job[i]
      nl_step == IF j.no_linkage THEN 3 ELSE 1
  IN
  /\ pc[i] = "see"
  /\ \E f \in j.todo :
       LET rest == (j.todo \ {f}) \cup (IF f = j.path THEN Includes[f] ELSE {})
           next == IF rest = {} THEN "store" ELSE "see"
       IN
       IF disk[f] = None
       THEN f /= j.path /\ Step(i, next, [j EXCEPT !.todo = rest]) /\ UNCHANGED vfs
       ELSE /\ vfs' = [vfs EXCEPT ![f] = Stamped(@, disk[f].mtime, nl_step)]
            /\ Step(i, next,
                 [j EXCEPT !.todo = rest,
                           !.seen = [x \in DOMAIN @ \cup {f} |-> IF x = f THEN disk[f] ELSE @[x]],
                           !.indexes = IF Newer(vfs[f], disk[f].mtime, nl_step)
                                       THEN @ \cup {f} ELSE @])
  /\ Unchanged /\ UNCHANGED <<index_request, on_indexed, cache, g_index>>

\* The main file is gone, or clang fails or crashes: the stamps stay.
ParseFail(i) ==
  /\ pc[i] = "see"
  /\ ParseFails \/ (job[i].path \in job[i].todo /\ disk[job[i].path] = None)
  /\ Finish(i)
  /\ Unchanged /\ UNCHANGED <<index_request, on_indexed, storeVars>>

\* The index file made for f.
NewIndex(j, f) ==
  IF j.deleted THEN EmptyIndex
  ELSE IndexOf(j.seen[f].mtime, j.seen[f].rev, j.no_linkage,
               [d \in DOMAIN j.seen \ {f, j.path} |-> j.seen[d].mtime])

\* Whatever is in the cache counts as loaded.
StoreMutant(i) ==
  /\ pc[i] = "store"
  /\ \E f \in job[i].indexes \cap Matched :
       /\ FileMutexFree(f)
       /\ Step(i, "push", [job[i] EXCEPT !.file = f, !.indexes = @ \ {f},
                                         !.prev = rawCacheLoad(f)])
       /\ g_index' = [g_index EXCEPT ![f] = NewIndex(job[i], f)]
       /\ cache' = [cache EXCEPT ![f] = NewIndex(job[i], f)]
  /\ Unchanged /\ UNCHANGED <<index_request, on_indexed, vfs>>

\* Under the file's mutex: what was loaded before is what the delta starts from,
\* and the new index file goes to memory and to the cache.
Store(i) ==
  /\ pc[i] = "store"
  /\ \E f \in job[i].indexes \cap Matched :
       LET loaded == vfs[f].loaded
           curr == NewIndex(job[i], f)
       IN
       /\ FileMutexFree(f)
       /\ Step(i, "push", [job[i] EXCEPT !.file = f, !.indexes = @ \ {f},
                             !.prev = IF loaded > 0 THEN rawCacheLoad(f) ELSE None])
       /\ g_index' = IF RetainInMemory > 0 /\ RetainInMemory <= loaded + 1
                     THEN [g_index EXCEPT ![f] = curr] ELSE g_index
       /\ cache' = IF ~CacheDirectory THEN cache
                   ELSE [cache EXCEPT ![f] = IF job[i].deleted THEN None ELSE curr]
  /\ Unchanged /\ UNCHANGED <<index_request, on_indexed, vfs>>

\* The thread ends up at the same file again.
PushMutant(i) ==
  LET f == job[i].file IN
  /\ pc[i] = "push"
  /\ Step(i, "store", [job[i] EXCEPT !.prev = None, !.file = None,
                                     !.indexes = @ \cup {f}])
  /\ Unchanged /\ UNCHANGED <<index_request, on_indexed, storeVars>>

\* Still under it: the delta is sent.
Push(i) ==
  LET f == job[i].file IN
  /\ pc[i] = "push"
  /\ on_indexed' = PushBack(on_indexed, createDelta(f, job[i].prev, NewIndex(job[i], f)),
                            job[i].urgent)
  /\ vfs' = [vfs EXCEPT ![f].loaded = @ + 1]
  /\ Step(i, "store", [job[i] EXCEPT !.prev = None, !.file = None])
  /\ Unchanged /\ UNCHANGED <<index_request, cache, g_index>>

\* The request is not counted as completed.
StoreDoneMutant(i) ==
  /\ pc[i] = "store" /\ job[i].indexes \cap Matched = {}
  /\ Step(i, "idle", NoJob)
  /\ Unchanged /\ UNCHANGED <<index_request, on_indexed, storeVars>>

\* Files that do not match are skipped.
StoreDone(i) ==
  /\ pc[i] = "store" /\ job[i].indexes \cap Matched = {}
  /\ Finish(i)
  /\ Unchanged /\ UNCHANGED <<index_request, on_indexed, storeVars>>

indexer_Parse(i) ==
  \/ Refuse(i) \/ Accept(i) \/ Stamp(i)
  \/ CacheCheck(i) \/ CacheLoad(i) \/ DepStamp(i) \/ DepLoad(i) \/ DepsDone(i)
  \/ SeeFile(i) \/ ParseFail(i) \/ Store(i) \/ Push(i) \/ StoreDone(i)

Next ==
  \/ \E p \in Paths :
       \/ Write(p) \/ Remove(p) \/ removeCache(p)
       \/ \E mode \in Modes : index(p, mode)
  \/ reload
  \/ main_OnIndexed
  \/ \E i \in Indexers : indexer_Parse(i)

Spec == Init /\ [][Next]_vars

\* The main loop and every indexer run whenever they can.
FairSpec ==
  /\ Spec
  /\ WF_vars(main_OnIndexed)
  /\ \A i \in Indexers : WF_vars(indexer_Parse(i))

----------------------------------------------------------------------------
Updates ==
  [path : Paths \cup {None}, prev : Contents \cup {None}, curr : Contents \cup {None}]

Stamps == [mtime : Nat, rev : Revs]

Jobs(D, E) ==
  [path : Paths \cup {None}, urgent : BOOLEAN, deleted : BOOLEAN, reparse : 0..1,
   no_linkage : BOOLEAN, track : BOOLEAN, prev : Files(E) \cup {None},
   file : Paths \cup {None}, todo : SUBSET Paths, seen : [D -> Stamps],
   indexes : SUBSET Paths]

Shares ==
  [refcnt : [Contents -> Int], uses : [Contents -> Nat], def : Contents \cup {None}]

\* Types: the urgent deque of requests holds real files, and the dummy request is
\* a background one.
TypeOK ==
  /\ clock \in Nat /\ revision \in Revs
  /\ disk \in [Paths -> Stamps \cup {None}]
  /\ index_request \in [priority_ : Seq([path : Paths, mode : {"Normal", "Delete"}]),
                        queue_ : Seq([path : Paths \cup {None}, mode : {"Background"}])]
  /\ on_indexed \in [priority_ : Seq(Updates), queue_ : Seq(Updates)]
  /\ vfs \in [Paths -> [timestamp : Nat, step : 0..3, loaded : Nat]]
  /\ DOMAIN cache = Paths /\ DOMAIN g_index = Paths
  /\ \A p \in Paths : \E D, E \in SUBSET Paths :
       cache[p] \in Files(D) \cup {None} /\ g_index[p] \in Files(E) \cup {None}
  /\ db \in [Paths -> Shares]
  /\ pc \in [Indexers -> Steps] /\ DOMAIN job = Indexers
  /\ \A i \in Indexers : \E D, E \in SUBSET Paths : job[i] \in Jobs(D, E)
  /\ {enqueued, completed, requests, reloads} \subseteq Nat
  /\ unsaved \subseteq Paths

\* The indexers that have stored an index file of p and are about to push its delta.
Storing(p) == {i \in Indexers : pc[i] = "push" /\ job[i].file = p}

\* The content of the index file that the next delta of p starts from: what the
\* indexer that is about to push one found loaded, or else what is loaded.
Stored(p) ==
  IF Storing(p) /= {} THEN ContentOf(job[CHOOSE i \in Storing(p) : TRUE].prev)
  ELSE IF vfs[p].loaded > 0 THEN ContentOf(rawCacheLoad(p)) ELSE None

\* What the updates in s still do to the count of c in p.
Outcome(s, p, c) ==
  Cardinality({k \in DOMAIN s : s[k].path = p /\ s[k].curr = c})
  - Cardinality({k \in DOMAIN s : s[k].path = p /\ s[k].prev = c})

\* What the assertions of applyIndexUpdate (query.cc:281 and 292) rest on: in
\* whatever order the updates of the two classes are applied, a file's reference
\* counts and the updates of it that wait add up to the index file the next
\* delta starts from, so that no entity is counted twice, lost or kept once
\* nothing waits.
CountsAddUp ==
  \A p \in Paths, c \in Contents :
    db[p].refcnt[c] + Outcome(on_indexed.priority_, p, c) + Outcome(on_indexed.queue_, p, c)
      = Delta(c, Stored(p))

\* The requests in a queue without the dummy ones.
Counted(q) == Len(OfPaths(q.priority_, Paths)) + Len(OfPaths(q.queue_, Paths))

\* The counters of the progress report: a request is enqueued and not completed
\* exactly as long as it waits or an indexer works on it.
Outstanding ==
  enqueued - completed = Counted(index_request) + Cardinality(Busy)

\* The header p is found through the entry e: e is as it was requested, and the
\* index made or kept of it names p (a header missing from a parse is not named).
FoundThrough(p, e) ==
  /\ disk[e] /= None /\ e \notin unsaved
  /\ rawCacheLoad(e) /= None /\ p \in DOMAIN rawCacheLoad(e).dependencies

\* ccls/README.md:22, "Saving files will incrementally update the index": when
\* all is done, the database has the newest revision of every file that was not
\* changed since it was last requested (saved, or indexed at start-up), and
\* nothing of a deleted one.  A header need only be there if an entry leads to it.
SavedIsIndexed ==
  Quiet => \A p \in Matched \ unsaved :
    IF disk[p] = None THEN db[p].def = None
    ELSE \/ db[p].def /= None /\ db[p].def[1] = disk[p].rev
         \/ /\ db[p].def = None /\ p \notin EntrySet
            /\ \A e \in EntrySet : ~FoundThrough(p, e)

\* Every index request is worked off and its updates applied.
Settles == <>[]Quiet

\* The pipeline implements IndexedDB: what waits of p in a deque of updates is
\* pending of its class.
Waiting(s, p) ==
  LET mine == OfPaths(s, {p})
  IN [k \in DOMAIN mine |-> [prev |-> mine[k].prev, curr |-> mine[k].curr]]

Pending(p) == [urgent |-> Waiting(on_indexed.priority_, p),
               background |-> Waiting(on_indexed.queue_, p)]

Abstract == INSTANCE IndexedDB WITH stored <- [p \in Paths |-> Stored(p)],
                                    pending <- [p \in Paths |-> Pending(p)]

ImplementsIndexedDB == Abstract!Spec
============================================================================
