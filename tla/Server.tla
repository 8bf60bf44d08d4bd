------------------------------- MODULE Server -------------------------------
(***************************************************************************)
(* A run of the server from start to end, and the next one on the cache it *)
(* leaves: initialize (initialize.cc) or standalone() (pipeline.cc), the   *)
(* project of the workspace folders, the index requests of their files and *)
(* of the client, one indexer, the scan of the search directories          *)
(* (include_complete.cc), the progress report, exit, and a crash anywhere. *)
(*                                                                         *)
(* IndexPipeline has the indexer in detail; here it is what loads from the *)
(* cache and writes it: every file depends only on itself,                 *)
(* index.initialNoLinkage is set, cache.directory too, and                 *)
(* cache.retainInMemory is 0.  A text is the time at which it was written. *)
(***************************************************************************)
EXTENDS Progress, Project

CONSTANTS
  Folders,           \* the workspace folders, in the order of their names
  InitialFolders,    \* the sequences of folders a client starts with, or none
  ProjectPath,       \* rootUri
  Layouts,           \* the project files on disk, as they change over time
  HierarchicalPath,  \* cache.hierarchicalPath
  OldLLVM,           \* LLVM < 8: the search directories are scanned
  IncludeMatch(_),   \* GroupMatch of completion.include
  Opened, Written,   \* the paths the client opens, and those that are written
  Modes,             \* for each run, how it may be started: "server", "standalone"
  Failing,           \* the paths on which clang fails
  MaxWrites, MaxMessages  \* bounds; a message is one after initialize

Paths == {Tree[i] : i \in DOMAIN Tree}

\* Every command is for a file below the folders; a command of no file is none.
ASSUME LayoutsAssumption ==
  /\ NoPath \notin Paths
  /\ Tree \in Seq(Paths) /\ Layouts \in Seq(Range(Layouts))
  /\ ProjectPath \in Range(Folders)
  /\ \A known \in Range(Layouts) : \A root \in Range(Folders) :
       LET commands == known.compdb[root]
       IN commands = NoCompDB \/ (/\ commands \in Seq(Range(commands))
                                 /\ \A cmd \in Range(commands) : cmd.filename \in Paths)

VARIABLES
  phase,           \* where the main thread is
  mode,              \* how it was started
  step,              \* how far do_initialize is
  workspaceFolders,  \* g_config->workspaceFolders
  root2folder,       \* Project::root2folder
  open,              \* the files the client has opened
  index_request,     \* the queue of index requests
  indexer,           \* where the indexer is, and its locals
  stamp,             \* VFS::state: the time stamp of each path
  failed,            \* history: the paths whose parse failed in this run
  scan,              \* IncludeComplete: is_scanning, and what is left to scan
  answers,           \* what was sent for the id of initialize
  layout, files,     \* on disk: the project files, the time of each source
  dirs, content, blob,  \* on disk: the cache's directories, texts and indexes
  unsaid,            \* the paths written since the client told of them
  runs, writes, messages \* counters for the bounds

progressVars == <<stats, last_idle, last_completed, work_done_created, in_progress, sent>>
mainVars == <<phase, mode, step, workspaceFolders, root2folder, open, messages>>
vfsVars == <<stamp, failed>>
cacheVars == <<dirs, content, blob>>
sourceVars == <<files, unsaid, writes>>
worldVars == <<layout, sourceVars>>
serverVars == <<progressVars, mainVars, index_request, indexer, vfsVars, scan,
                answers, worldVars, cacheVars, runs>>

Torn == 0  \* the time of what an interrupted write leaves: a file with nothing in it

Orders == SetToSeqs(DOMAIN root2folder)

----------------------------------------------------------------------------
(* The cache on disk *)

\* getCachePath: a directory for the files inside of each folder, and one for all
\* others.
CacheDir(path) ==
  LET inside == {i \in DOMAIN workspaceFolders : Under(path, workspaceFolders[i])}
  IN IF HierarchicalPath THEN <<"all", <<>>>>
     ELSE IF inside /= {} THEN <<"in", workspaceFolders[Min(inside)]>>
     ELSE <<"out", ProjectPath>>

getCachePath(path) == [dir |-> CacheDir(path), path |-> path]

\* A file of the cache is written.
Stored(disk, key, value) ==
  [k \in DOMAIN disk \cup {key} |-> IF k = key THEN value ELSE disk[k]]

\* writeToFile fails where there is no directory.
CanStore(path) == HierarchicalPath \/ getCachePath(path).dir \in dirs

\* loadIndexedContent: the text that goes with the index.
loadIndexedContent(path) ==
  IF getCachePath(path) \in DOMAIN content THEN content[getCachePath(path)] ELSE Torn

\* serialize: what stands in an index.
serialize(time, args) == [version |-> "this", time |-> time, args |-> args]

\* deserialize refuses an index that is empty or of another version.
deserialize(written) == written.version = "this" /\ written.time /= Torn

Uncached == [version |-> "none", time |-> Torn, args |-> <<>>]

\* rawCacheLoad
rawCacheLoad(path) ==
  LET key == getCachePath(path)
  IN IF key \in DOMAIN content /\ key \in DOMAIN blob /\ deserialize(blob[key])
     THEN blob[key] ELSE Uncached

\* The arguments may differ in the name of the file itself: -o a a.cc, -o b b.cc.
ArgsDiffer(old, new, path) ==
  \/ Len(old) /= Len(new)
  \/ \E i \in DOMAIN new : old[i] /= new[i] /\ StemOf(new[i]) /= path.stem

\* The time stamp is not looked at.
cacheInvalidMutant(prev, path, time, args) == ArgsDiffer(prev.args, args, path)

cacheInvalid(prev, path, time, args) ==
  prev.time < time \/ ArgsDiffer(prev.args, args, path)

----------------------------------------------------------------------------
(* Starting *)

NoJob == [pc |-> "off", request |-> Request(NoPath, <<>>, "Background", FALSE, 0),
          args |-> <<>>, time |-> 0, text |-> 0, key |-> <<>>, stored |-> 0, again |-> FALSE]
NotScanning == [is_scanning |-> FALSE, todo |-> {}]

\* Everything that a process keeps in memory, and its client.
Fresh ==
  /\ phase' = "down" /\ mode' = "none" /\ step' = 0
  /\ workspaceFolders' = <<>> /\ root2folder' = <<>> /\ open' = {}
  /\ index_request' = <<>> /\ indexer' = NoJob
  /\ stamp' = [p \in Paths |-> 0] /\ failed' = {}
  /\ scan' = NotScanning /\ answers' = <<>>
  /\ enqueued' = 0 /\ completed' = 0 /\ taken' = 0 /\ last_idle' = 0
  /\ last_completed' = 0 /\ work_done_created' = FALSE /\ in_progress' = FALSE
  /\ sent' = NoReport
  /\ unsaid' = {} /\ messages' = 0
  /\ UNCHANGED <<layout, files, writes, cacheVars, runs>>

\* An earlier version of the server has left its cache.
InitServer ==
  /\ Init
  /\ phase = "down" /\ mode = "none" /\ step = 0
  /\ workspaceFolders = <<>> /\ root2folder = <<>> /\ open = {}
  /\ index_request = <<>> /\ indexer = NoJob
  /\ stamp = [p \in Paths |-> 0] /\ failed = {}
  /\ scan = NotScanning /\ answers = <<>>
  /\ layout = 1 /\ files = [p \in Paths |-> 1] /\ unsaid = {}
  /\ LET key == [dir |-> <<"in", ProjectPath>>, path |-> Tree[1]] IN
     /\ dirs = {key.dir} /\ content = [k \in {key} |-> 1]
     /\ blob = [k \in {key} |-> [version |-> "old", time |-> 1, args |-> <<>>]]
  /\ runs = 0 /\ writes = 0 /\ messages = 0

\* main(): the language server, or the indexing of a project (--index).
Start ==
  /\ phase = "down" /\ runs < Len(Modes)
  /\ phase' = "starting" /\ step' = 0 /\ mode' \in Modes[runs + 1]
  /\ runs' = runs + 1
  /\ UNCHANGED <<progressVars, workspaceFolders, root2folder, open, messages,
                 index_request, indexer, vfsVars, scan, answers, worldVars, cacheVars>>

\* The answer comes last.
InitializeStepsMutant == <<"load", "spawn", "rescan", "index", "reply">>

\* The steps of do_initialize: "Send initialization before starting indexers".
InitializeSteps == <<"reply", "load", "spawn", "rescan", "index">>

IsServing == phase = "serving" /\ mode = "server"

InitializeStep(name) ==
  /\ phase = "starting" /\ InitializeSteps[step + 1] = name
  /\ step' = step + 1
  /\ phase' = IF step' < Len(InitializeSteps) THEN "starting" ELSE "serving"
  /\ UNCHANGED <<mode, open, messages, sourceVars, content, blob, runs>>

\* pipeline::reply, replyError: 0 stands for no id.
reply(id, key) == IF id = 0 THEN answers ELSE Append(answers, key)

\* In standalone() nobody reads the answer.
InitializeReply ==
  /\ InitializeStep("reply")
  /\ answers' = reply(IF mode = "server" THEN 1 ELSE 0, "result")
  /\ UNCHANGED <<progressVars, workspaceFolders, root2folder, index_request, indexer,
                 vfsVars, scan, layout, dirs>>

\* The project files that a load finds: they may have changed since the last one.  A
\* folder does not depend on those that are loaded before it.
Read(folders, root2folders) ==
  [root \in Range(folders) \cup DOMAIN root2folders |->
     IF root \in Range(folders) THEN load(root, root2folders, Layouts[layout'])
     ELSE root2folders[root]]

\* The longer first; std::sort leaves the order of those of one length open.
Sortings(roots) ==
  {sorted \in {[i \in DOMAIN roots |-> roots[p[i]]] :
                p \in Bijection(DOMAIN roots, DOMAIN roots)} :
     \A i, j \in DOMAIN roots : i < j => Len(sorted[i]) >= Len(sorted[j])}

\* The folders get their directories in the cache, and are loaded.  Without any, as in
\* standalone(), the root is the only one.
InitializeLoad ==
  /\ InitializeStep("load")
  /\ layout' \in layout..Len(Layouts)
  /\ \E given \in IF mode = "server" THEN InitialFolders ELSE {<<>>} :
       workspaceFolders' \in Sortings(IF given = <<>> THEN <<ProjectPath>> ELSE given)
  /\ dirs' = dirs \cup (IF HierarchicalPath THEN {}
                        ELSE {"in", "out"} \X Range(workspaceFolders'))
  /\ root2folder' = Read(workspaceFolders', <<>>)
  /\ UNCHANGED <<progressVars, index_request, indexer, vfsVars, scan, answers>>

InitializeSpawn ==
  /\ InitializeStep("spawn")
  /\ indexer' = [indexer EXCEPT !.pc = "poll"]
  /\ UNCHANGED <<progressVars, workspaceFolders, root2folder, index_request,
                 vfsVars, scan, answers, layout, dirs>>

\* IncludeComplete::rescan starts a thread.
InitializeRescan ==
  /\ InitializeStep("rescan")
  /\ scan' = IF ~OldLLVM THEN scan
             ELSE [is_scanning |-> TRUE,
                   todo |-> UNION {root2folder[r].search : r \in DOMAIN root2folder}]
  /\ UNCHANGED <<progressVars, workspaceFolders, root2folder, index_request, indexer,
                 vfsVars, answers, layout, dirs>>

----------------------------------------------------------------------------
(* Requests *)

Urgent(requests) == {r \in Range(requests) : r.mode /= "Background"}
Ordinary(requests) == {r \in Range(requests) : r.mode = "Background"}

\* pipeline::index, for each of some requests: what is urgent goes first, and all
\* but the dummy are counted.
Enqueue(requests) ==
  /\ index(Cardinality({i \in DOMAIN requests : requests[i].path /= NoPath}))
  /\ LET first(seq) == Kept(seq, Urgent(seq))
         second(seq) == Kept(seq, Ordinary(seq))
     IN index_request' = first(index_request) \o first(requests)
                           \o second(index_request) \o second(requests)

\* Project::index for the project, with the id of initialize for its failures.
InitializeIndex ==
  /\ InitializeStep("index")
  /\ \E order \in Orders :
       Enqueue(IndexRequests(order, root2folder, open, IF mode = "server" THEN 1 ELSE 0))
  /\ UNCHANGED <<workspaceFolders, root2folder, indexer, vfsVars, scan, answers, layout,
                 dirs>>

\* The main thread takes a message of the client.
Message == IsServing /\ messages < MaxMessages /\ messages' = messages + 1
Handler == UNCHANGED <<phase, mode, step, indexer, vfsVars, scan, answers, cacheVars, runs>>

Asked(path, must_exist) ==
  Request(path, <<>>, IF path \in open \/ ~must_exist THEN "Normal" ELSE "Background",
          must_exist, 0)

\* textDocument_didOpen: a header is left to the requests that are under way, if
\* there are any, and has the sources of its name indexed.
didOpen(path) ==
  /\ Message /\ path \in Opened \ open
  /\ open' = open \cup {path}
  /\ \E order \in Orders :
       Enqueue((IF IsSource(path) \/ completed = enqueued
                THEN <<Asked(path, FALSE)>> ELSE <<>>)
               \o (IF IsHeader(path) THEN RelatedRequests(order, root2folder, path)
                   ELSE <<>>))
  /\ Handler /\ UNCHANGED <<workspaceFolders, root2folder, worldVars>>

\* textDocument_didSave
didSave(path) ==
  /\ Message /\ path \in unsaid /\ path \in open
  /\ unsaid' = unsaid \ {path}
  /\ Enqueue(<<Asked(path, FALSE)>>)
  /\ Handler /\ UNCHANGED <<workspaceFolders, root2folder, open, layout, files, writes>>

\* workspace_didChangeWatchedFiles: Changed
didChangeWatchedFiles(path) ==
  /\ Message /\ path \in unsaid /\ path \notin open
  /\ unsaid' = unsaid \ {path}
  /\ Enqueue(<<Asked(path, TRUE)>>)
  /\ Handler /\ UNCHANGED <<workspaceFolders, root2folder, open, layout, files, writes>>

Reindex(folders) ==
  \E order \in SetToSeqs(DOMAIN folders) : Enqueue(IndexRequests(order, folders, open, 0))

\* workspace_didChangeConfiguration loads every folder again.
didChangeConfiguration ==
  /\ Message
  /\ layout' \in layout..Len(Layouts)
  /\ root2folder' = Read(workspaceFolders, root2folder)
  /\ Reindex(root2folder')
  /\ Handler /\ UNCHANGED <<workspaceFolders, open, sourceVars>>

\* A new folder stands behind the last whose name is not greater.
Inserted(folders, root) ==
  LET Rank(r) == CHOOSE i \in DOMAIN Folders : Folders[i] = r
      behind == {i \in DOMAIN folders : Rank(folders[i]) <= Rank(root)}
      at == IF behind = {} THEN 0 ELSE Max(behind)
  IN SubSeq(folders, 1, at) \o <<root>> \o SubSeq(folders, at + 1, Len(folders))

\* workspace_didChangeWorkspaceFolders: one folder goes, or comes and is loaded;
\* the cache has no directory for it.
didChangeWorkspaceFolders(root) ==
  /\ Message
  /\ layout' \in layout..Len(Layouts)
  /\ IF root \in DOMAIN root2folder
     THEN /\ workspaceFolders' = SelectSeq(workspaceFolders, LAMBDA r : r /= root)
          /\ root2folder' = Restrict(root2folder, DOMAIN root2folder \ {root})
     ELSE /\ workspaceFolders' = Inserted(workspaceFolders, root)
          /\ root2folder' = Read(<<root>>, root2folder)
  /\ Reindex(root2folder')
  /\ Handler /\ UNCHANGED <<open, sourceVars>>

----------------------------------------------------------------------------
(* The indexer *)
Unmoved == UNCHANGED <<mainVars, scan, worldVars, dirs, runs>>

Goto(pc) == indexer' = [indexer EXCEPT !.pc = pc]

\* What indexer_Parse makes of a request before it parses: the path is left alone
\* if the matcher refuses it or it must exist and has no entry, or if its index can
\* be loaded from the cache.
Examine(r, entry) ==
  LET known == matches(r.path) /\ entry.filename /= NoPath
      args == IF r.args /= <<>> THEN r.args ELSE entry.args
      time == IF files[r.path] > stamp[r.path] THEN files[r.path] ELSE stamp[r.path]
      prev == rawCacheLoad(r.path)
      parse == known /\ (prev = Uncached \/ cacheInvalid(prev, r.path, time, args))
  IN
  /\ indexer' = [pc |-> IF parse THEN "parse" ELSE "finish", request |-> r,
                 args |-> args, time |-> 0, text |-> 0, key |-> <<>>, stored |-> 0,
                 again |-> matches(r.path)]
  /\ stamp' = IF known THEN [stamp EXCEPT ![r.path] = time] ELSE stamp

\* tryPopFront and what follows; the dummy request is not counted.
IndexerTake ==
  /\ indexer.pc = "poll" /\ index_request /= <<>>
  /\ index_request' = Tail(index_request)
  /\ LET r == Head(index_request) IN
     IF r.path = NoPath
     THEN Goto("wait") /\ UNCHANGED <<progressVars, stamp>>
     ELSE /\ Take
          /\ \E entry \in {findEntry(order, root2folder, ProjectPath, r.path, TRUE,
                                      r.must_exist) : order \in Orders} :
               Examine(r, entry)
  /\ Unmoved /\ UNCHANGED <<failed, answers, content, blob>>

IndexerIdle ==
  /\ indexer.pc = "poll" /\ index_request = <<>>
  /\ Goto("wait")
  /\ Unmoved /\ UNCHANGED <<progressVars, index_request, vfsVars, answers, content, blob>>

\* MultiQueueWaiter::wait tests for the end of the server first.
IndexerWake ==
  /\ indexer.pc = "wait" /\ (phase = "quitting" \/ index_request /= <<>>)
  /\ Goto(IF phase = "quitting" THEN "left" ELSE "poll")
  /\ Unmoved /\ UNCHANGED <<progressVars, index_request, vfsVars, answers, content, blob>>

\* clang fails: the id of the request gets an error.
ParseFails ==
  /\ indexer.pc = "parse" /\ indexer.request.path \in Failing
  /\ failed' = failed \cup {indexer.request.path}
  /\ answers' = reply(indexer.request.id, "error")
  /\ Goto("finish")
  /\ Unmoved /\ UNCHANGED <<progressVars, index_request, stamp, content, blob>>

\* clang opens the file: its index bears the time that the file has then.
Parse ==
  /\ indexer.pc = "parse" /\ indexer.request.path \notin Failing
  /\ indexer' = [indexer EXCEPT !.pc = "seen", !.time = files[indexer.request.path]]
  /\ Unmoved /\ UNCHANGED <<progressVars, index_request, vfsVars, answers, content, blob>>

\* seenFile reads the text again for the cache, whatever was written meanwhile, and
\* stamps the time that clang saw.
SeenFile ==
  /\ indexer.pc = "seen"
  /\ LET p == indexer.request.path IN
     /\ indexer' = [indexer EXCEPT !.pc = IF CanStore(p) THEN "store" ELSE "finish",
                                   !.text = files[p], !.key = getCachePath(p)]
     /\ stamp' = [stamp EXCEPT ![p] = indexer.time]
  /\ Unmoved /\ UNCHANGED <<progressVars, index_request, failed, answers, content, blob>>

\* The order in which a cache entry's two files are written.
StoreStepsMutant == <<"blob", "content">>

StoreSteps == <<"content", "blob">>

\* writeToFile truncates a file and then writes it, each in a step of its own.
Store ==
  /\ indexer.pc = "store"
  /\ LET key == indexer.key
         file == StoreSteps[1 + indexer.stored \div 2]
         Half(time) == IF indexer.stored % 2 = 0 THEN Torn ELSE time
     IN IF file = "content"
        THEN content' = Stored(content, key, Half(indexer.text)) /\ UNCHANGED blob
        ELSE /\ blob' = Stored(blob, key, serialize(Half(indexer.time), indexer.args))
             /\ UNCHANGED content
  /\ indexer' = [indexer EXCEPT !.stored = @ + 1,
                                !.pc = IF indexer.stored = 3 THEN "finish" ELSE "store"]
  /\ Unmoved /\ UNCHANGED <<progressVars, index_request, vfsVars, answers>>

\* ~RAII(); indexer_Main parses again unless it was told FALSE.
Finish ==
  /\ indexer.pc = "finish"
  /\ Complete
  /\ indexer' = [NoJob EXCEPT !.pc = IF indexer.again THEN "poll" ELSE "wait"]
  /\ Unmoved /\ UNCHANGED <<index_request, vfsVars, answers, content, blob>>

Indexer == IndexerTake \/ IndexerIdle \/ IndexerWake \/ ParseFails \/ Parse \/ SeenFile
           \/ Store \/ Finish

----------------------------------------------------------------------------
(* The scan of the search directories *)

\* The thread is gone, but the flag stays.
ScanEndMutant(todo) == [is_scanning |-> TRUE, todo |-> todo]

ScanEnd(todo) == [is_scanning |-> todo /= {}, todo |-> todo]

\* A directory that completion.include excludes ends the thread, and is_scanning
\* stays.
Scan ==
  /\ scan.is_scanning
  /\ IF scan.todo = {} THEN scan' = ScanEnd({})
     ELSE \E dir \in scan.todo :
            /\ IncludeMatch(dir)
            /\ scan' = ScanEnd(scan.todo \ {dir})
  /\ UNCHANGED <<progressVars, mainVars, index_request, indexer, vfsVars, answers,
                 worldVars, cacheVars, runs>>

----------------------------------------------------------------------------
(* The end, and the world outside *)

Quit ==
  /\ phase' = "quitting"
  /\ UNCHANGED <<progressVars, mode, step, workspaceFolders, root2folder, open, messages,
                 index_request, indexer, vfsVars, scan, answers, worldVars, cacheVars, runs>>

\* exit, or the exit that the stdin thread pushes at the end of the input.
exit ==
  /\ mode = "server" /\ (phase = "serving" \/ (phase = "starting" /\ step = 0))
  /\ Quit

\* standalone() ends when everything is completed.
StandaloneDone ==
  /\ mode = "standalone" /\ phase = "serving" /\ completed = enqueued
  /\ Quit

\* quit() waits for the indexer, and ~IncludeComplete for the scan.
Down ==
  /\ phase = "quitting" /\ indexer.pc \in {"off", "left"} /\ ~scan.is_scanning
  /\ Fresh

Crash ==
  /\ phase /= "down" /\ runs < Len(Modes)
  /\ Fresh

\* A file is written, later than whatever was written before.
Write(path) ==
  /\ writes < MaxWrites
  /\ writes' = writes + 1
  /\ files' = [files EXCEPT ![path] = writes' + 1]
  /\ unsaid' = unsaid \cup {path}
  /\ UNCHANGED <<progressVars, mainVars, index_request, indexer, vfsVars, scan, answers,
                 layout, cacheVars, runs>>

\* mainLoop's report, on any turn of its loop.
ProgressReport ==
  /\ IsServing /\ Report
  /\ UNCHANGED <<mainVars, index_request, indexer, vfsVars, scan, answers, worldVars,
                 cacheVars, runs>>

NextServer ==
  \/ Start \/ InitializeReply \/ InitializeLoad \/ InitializeSpawn \/ InitializeRescan
  \/ InitializeIndex
  \/ \E path \in Paths : didOpen(path) \/ didSave(path) \/ didChangeWatchedFiles(path)
  \/ didChangeConfiguration
  \/ \E i \in DOMAIN Folders : didChangeWorkspaceFolders(Folders[i])
  \/ Indexer \/ Scan \/ ProgressReport
  \/ exit \/ StandaloneDone \/ Down \/ Crash
  \/ \E path \in Written : Write(path)

\* ENABLED Indexer: the indexer has something to do.
IndexerReady ==
  /\ indexer.pc \notin {"off", "left"}
  /\ indexer.pc = "wait" => phase = "quitting" \/ index_request /= <<>>

\* The indexer and the scan are scheduled, and what ends does end.  The first conjunct
\* is WF_serverVars(Indexer), with its ENABLED in plain words.
Fairness ==
  /\ []<>~IndexerReady \/ []<><<indexer' /= indexer>>_serverVars
  /\ WF_serverVars(Scan)
  /\ WF_serverVars(Down)

SpecServer == InitServer /\ [][NextServer]_serverVars /\ Fairness

----------------------------------------------------------------------------
(* Properties *)

Listed(path) ==
  \E root \in DOMAIN root2folder :
    \E i \in DOMAIN root2folder[root].entries :
      root2folder[root].entries[i].filename = path

\* A file that is indexed because it is part of a folder's project is compiled with
\* the same arguments in the same directory when it is opened, saved or changed
\* (Project::index, project.cc:594, and findEntry, project.cc:483): else every save
\* would throw its cached index away and index it as something else.
Agrees(entry, found) == found.args = RequestArgs(entry) /\ found.directory = entry.directory

ArgsAgree ==
  [][root2folder' /= root2folder =>
       \A root \in DOMAIN root2folder' :
         \A i \in DOMAIN root2folder'[root].entries :
           Under(root2folder'[root].entries[i].filename, root) =>
             \A order \in SetToSeqs(DOMAIN root2folder') :
               Agrees(root2folder'[root].entries[i],
                      findEntry(order, root2folder', ProjectPath,
                                root2folder'[root].entries[i].filename, TRUE, TRUE))
    ]_root2folder

\* What findEntry says of a path that no folder lists and no .ccls covers is
\* inferred (project.hh:55, is_inferred in project.hh:27).
InferredIfUnlisted ==
  phase = "serving" =>
    \A path \in Paths :
      ~Listed(path)
        /\ (\A root \in DOMAIN root2folder :
              \A dir \in DOMAIN root2folder[root].dot_ccls : ~Under(path, dir))
      => \A order \in Orders :
           findEntry(order, root2folder, ProjectPath, path, TRUE, FALSE).is_inferred

\* Whatever was interrupted, the text beside an index in the cache that is not older
\* than its file is never another text than that from which the index was made, so
\* that didOpen does not map its lines to what they are not (the two writes in
\* pipeline.cc:422, loadIndexedContent).  It may be empty: a file that is parsed again
\* although it has not changed, because its arguments have, is truncated first.
CacheTrusted ==
  \A path \in Paths :
    LET prev == rawCacheLoad(path) IN
    prev /= Uncached /\ prev.time >= files[path]
      => loadIndexedContent(path) \in {prev.time, Torn}

\* standalone() leaves nothing behind: each file of the project has an index in the
\* cache, no older than the file was when its turn came, or clang failed on it
\* (pipeline.cc:785-801).
StandaloneComplete ==
  mode = "standalone" /\ phase = "quitting" =>
    \A path \in Paths : Listed(path) /\ matches(path) =>
      \/ path \in failed
      \/ stamp[path] > 0 /\ rawCacheLoad(path).time >= stamp[path]

\* The first answer to initialize is its result, although its id goes on to the
\* index requests and each failure answers it again (initialize.cc:319, :397;
\* pipeline.cc:363).
ResultFirst == answers /= <<>> => answers[1] = "result"

\* exit and the end of the input end the phase, whatever the indexer and the scan
\* are doing (pipeline.cc:445, include_complete.cc:78).
Quits == phase = "quitting" ~> phase = "down"
============================================================================
