---------------------------- MODULE ServerProofs ----------------------------
(***************************************************************************)
(* Proofs about Progress for any number of requests, and about the cache   *)
(* that Server leaves.  The strengthening of Progress adds to the          *)
(* counters' order that the idle mark lags behind the count while a report *)
(* shows: that is what keeps the divisor positive.  That of the cache says *)
(* where between the four steps of its two writes the indexer is.          *)
(***************************************************************************)
EXTENDS Server, Induction, FiniteSetTheorems, SequenceTheorems, TLAPS

----------------------------------------------------------------------------
(* The progress report *)

ReportInv == TypeOK /\ CountersInOrder /\ PercentageInRange /\ ShownInProgress

\* The progress bar stays below 100 while something is left to do.
LEMMA Division ==
  ASSUME NEW a \in Nat, NEW b \in Nat, a < b
  PROVE  (100 * a) \div b \in 0..99
<1> DEFINE q == (100 * a) \div b
<1>1. /\ b \in Int /\ b > 0 /\ 100 * a \in Nat
  OBVIOUS
<1>2. q \in Int /\ b * q <= 100 * a /\ 100 * a < b * q + b
  BY <1>1, Z3
<1> HIDE DEF q
<1>3. q >= 0
  <2> SUFFICES ASSUME q <= -1 PROVE FALSE
    BY <1>2
  <2>1. b * q <= b * (-1)
    BY <1>1, <1>2
  <2> QED
    BY <1>1, <1>2, <2>1
<1>4. q <= 99
  <2> SUFFICES ASSUME q >= 100 PROVE FALSE
    BY <1>2
  <2>1. b * q >= b * 100
    BY <1>1, <1>2
  <2> QED
    BY <1>1, <1>2, <2>1
<1> QED
  BY <1>2, <1>3, <1>4 DEF q

\* Every step keeps the invariant.
THEOREM ReportInductive == Spec => []ReportInv
<1>1. Init => ReportInv
  <2> SUFFICES ASSUME Init PROVE ReportInv
    OBVIOUS
  <2>1. sent.kind = "none" /\ sent.percentage = 0
    BY DEF Init, NoReport
  <2>2. sent \in [kind : Kinds, percentage : Nat]
    BY DEF Init, NoReport, Kinds
  <2>3. work_done_created \in BOOLEAN /\ in_progress \in BOOLEAN
    BY DEF Init
  <2>4. CountersInOrder
    BY DEF Init, CountersInOrder
  <2>5. TypeOK
    BY <2>2, <2>3 DEF Init, TypeOK
  <2> QED
    BY <2>1, <2>4, <2>5 DEF Init, ReportInv, PercentageInRange, ShownInProgress
<1>2. ReportInv /\ [Next]_vars => ReportInv'
  <2> SUFFICES ASSUME ReportInv, [Next]_vars PROVE ReportInv'
    OBVIOUS
  <2>0. TypeOK /\ CountersInOrder /\ PercentageInRange /\ ShownInProgress
    BY DEF ReportInv
  <2>1. CASE UNCHANGED vars
    BY <2>0, <2>1 DEF vars, stats, ReportInv, TypeOK, CountersInOrder, PercentageInRange,
                      ShownInProgress
  <2>2. ASSUME NEW n \in Nat, index(n) PROVE ReportInv'
    BY <2>0, <2>2 DEF index, ReportInv, TypeOK, CountersInOrder, PercentageInRange,
                      ShownInProgress
  <2>3. CASE Take
    BY <2>0, <2>3 DEF Take, ReportInv, TypeOK, CountersInOrder, PercentageInRange,
                      ShownInProgress
  <2>4. CASE Complete
    BY <2>0, <2>4 DEF Complete, ReportInv, TypeOK, CountersInOrder, PercentageInRange,
                      ShownInProgress
  <2>5. CASE ReportBusy
    <3>1. /\ completed - last_idle \in Nat /\ enqueued - last_idle \in Nat
          /\ completed - last_idle < enqueued - last_idle
      BY <2>0, <2>5 DEF ReportBusy, TypeOK, CountersInOrder
    <3>2. percentage \in 0..99
      BY <3>1, Division DEF percentage
    <3> HIDE DEF percentage
    <3>3. sent' = [kind |-> "report", percentage |-> percentage]
      BY <2>5 DEF ReportBusy
    <3> QED
      BY <2>0, <2>5, <3>2, <3>3
      DEF ReportBusy, stats, ReportInv, TypeOK, CountersInOrder, PercentageInRange,
          ShownInProgress, Kinds
  <2>6. CASE ReportIdle
    <3>1. /\ in_progress => sent' = [kind |-> "end", percentage |-> 0]
          /\ ~in_progress => sent' = sent
      BY <2>6 DEF ReportIdle
    <3>2. sent' = [kind |-> "end", percentage |-> 0]
            => sent'.kind = "end" /\ sent'.percentage = 0
      OBVIOUS
    <3>3. last_idle' = enqueued \/ last_idle' = last_idle
      BY <2>6 DEF ReportIdle
    <3>4. /\ ~in_progress' /\ in_progress' \in BOOLEAN /\ work_done_created' \in BOOLEAN
          /\ enqueued' = enqueued /\ completed' = completed /\ taken' = taken
          /\ last_completed' = completed /\ completed = enqueued
      BY <2>6 DEF ReportIdle, stats
    <3>5. sent' \in [kind : Kinds, percentage : Nat]
      BY <2>0, <3>1 DEF TypeOK, Kinds
    <3>6. TypeOK' /\ CountersInOrder'
      BY <2>0, <3>3, <3>4, <3>5 DEF TypeOK, CountersInOrder
    <3>7. PercentageInRange' /\ ShownInProgress'
      <4>1. CASE in_progress
        BY <3>1, <3>2, <3>4, <4>1 DEF PercentageInRange, ShownInProgress
      <4>2. CASE ~in_progress
        BY <2>0, <3>1, <3>4, <4>2 DEF PercentageInRange, ShownInProgress
      <4> QED
        BY <4>1, <4>2
    <3> QED
      BY <3>6, <3>7 DEF ReportInv
  <2> QED
    BY <2>1, <2>2, <2>3, <2>4, <2>5, <2>6 DEF Next, Report
<1> QED
  BY <1>1, <1>2, PTL DEF Spec

\* The counters are natural numbers and the report has its shape.
THEOREM TypesHold == Spec => []TypeOK
<1>1. ReportInv => TypeOK
  BY DEF ReportInv
<1> QED
  BY <1>1, ReportInductive, PTL

\* No difference in a report is negative.
THEOREM CountersHold == Spec => []CountersInOrder
<1>1. ReportInv => CountersInOrder
  BY DEF ReportInv
<1> QED
  BY <1>1, ReportInductive, PTL

\* The client is never shown a value that is not a percentage, whatever requests
\* come in while others complete: there is no division by zero.
THEOREM PercentageHolds == Spec => []PercentageInRange
<1>1. ReportInv => PercentageInRange
  BY DEF ReportInv
<1> QED
  BY <1>1, ReportInductive, PTL

\* The client sees work in progress between a report and the next end.
THEOREM ShownHolds == Spec => []ShownInProgress
<1>1. ReportInv => ShownInProgress
  BY DEF ReportInv
<1> QED
  BY <1>1, ReportInductive, PTL
----------------------------------------------------------------------------
(* The cache *)

Fields == {"pc", "request", "args", "time", "text", "key", "stored", "again"}

\* Times of the sources: none is from the future.
FilesInv ==
  /\ writes \in Nat /\ files \in [Paths -> Nat]
  /\ \A p \in Paths : 1 <= files[p] /\ files[p] <= writes + 1

\* Nothing in the cache is newer than its file, and the text of an index that can be
\* loaded is not older than the index, if it is there.
TimesInv ==
  /\ \A k \in DOMAIN content : k.path \in Paths =>
       content[k] \in Nat /\ content[k] <= files[k.path]
  /\ \A k \in DOMAIN blob : k.path \in Paths =>
       blob[k].time \in Nat /\ blob[k].time <= files[k.path]

PairInv ==
  \A k \in DOMAIN blob : k.path \in Paths /\ k \in DOMAIN content /\ deserialize(blob[k])
    => content[k] = Torn \/ blob[k].time <= content[k]

\* What the indexer writes is of times that the file had, the text no older than its
\* index and than the index it replaces; it stands in the cache when the index comes.
StoreInv ==
  /\ DOMAIN indexer = Fields
  /\ indexer.pc \in {"parse", "seen"} => indexer.stored = 0
  /\ indexer.pc = "seen" /\ indexer.request.path \in Paths =>
       /\ indexer.time \in Nat /\ 1 <= indexer.time
       /\ indexer.time <= files[indexer.request.path]
  /\ indexer.pc = "store" =>
       /\ indexer.stored \in 0..3
       /\ indexer.key.path \in Paths =>
            /\ indexer.time \in Nat /\ 1 <= indexer.time /\ indexer.time <= indexer.text
            /\ indexer.text \in Nat /\ indexer.text <= files[indexer.key.path]
            /\ indexer.key \in DOMAIN blob => blob[indexer.key].time <= indexer.text
            /\ indexer.stored >= 2 =>
                 indexer.key \in DOMAIN content /\ content[indexer.key] = indexer.text

CacheInv == FilesInv /\ TimesInv /\ PairInv /\ StoreInv

\* What an interrupted write leaves is of no time, and every time is later.
LEMMA CacheInit == InitServer => CacheInv
<1> SUFFICES ASSUME InitServer PROVE CacheInv
  OBVIOUS
<1> DEFINE key == [dir |-> <<"in", ProjectPath>>, path |-> Tree[1]]
<1>1. /\ content = [k \in {key} |-> 1]
      /\ blob = [k \in {key} |-> [version |-> "old", time |-> 1, args |-> <<>>]]
      /\ files = [p \in Paths |-> 1] /\ writes = 0 /\ indexer = NoJob
  BY DEF InitServer
<1> HIDE DEF key
<1>2. FilesInv
  BY <1>1 DEF FilesInv
<1>3. /\ DOMAIN content = {key} /\ content[key] = 1
      /\ DOMAIN blob = {key} /\ blob[key].time = 1 /\ blob[key].version = "old"
      /\ \A p \in Paths : files[p] = 1
  BY <1>1
<1>4. TimesInv /\ PairInv
  BY <1>3 DEF TimesInv, PairInv, deserialize
<1>5. DOMAIN indexer = Fields /\ indexer.pc = "off"
  BY <1>1 DEF NoJob, Fields
<1>6. StoreInv
  BY <1>5 DEF StoreInv
<1> QED
  BY <1>2, <1>4, <1>6 DEF CacheInv

\* The indexer is not about to store anything but from the start.
Elsewhere ==
  /\ DOMAIN indexer = Fields /\ indexer.pc \notin {"seen", "store"}
  /\ indexer.pc = "parse" => indexer.stored = 0

\* A step that leaves the cache and the sources alone, and the indexer as it is or
\* not storing, keeps all of it.
LEMMA CacheKept ==
  ASSUME CacheInv, UNCHANGED <<files, writes, content, blob>>,
         indexer' = indexer \/ Elsewhere'
  PROVE  CacheInv'
<1>1. FilesInv' /\ TimesInv' /\ PairInv'
  BY DEF CacheInv, FilesInv, TimesInv, PairInv, deserialize
<1>2. StoreInv'
  <2>1. CASE indexer' = indexer
    BY <2>1 DEF CacheInv, StoreInv
  <2>2. CASE Elsewhere'
    BY <2>2 DEF StoreInv, Elsewhere
  <2> QED
    BY <2>1, <2>2
<1> QED
  BY <1>1, <1>2 DEF CacheInv

\* The indexer goes on without storing.
LEMMA GotoElsewhere ==
  ASSUME CacheInv, UNCHANGED <<files, writes, content, blob>>,
         NEW pc, Goto(pc), pc \notin {"store", "seen", "parse"}
  PROVE  CacheInv'
<1>1. DOMAIN indexer = Fields /\ indexer' = [indexer EXCEPT !.pc = pc]
  BY DEF CacheInv, StoreInv, Goto
<1>2. DOMAIN indexer' = Fields /\ indexer'.pc = pc
  BY <1>1 DEF Fields
<1>3. Elsewhere'
  BY <1>2 DEF Elsewhere
<1> QED
  BY <1>3, CacheKept

\* A source is written later than all before.
LEMMA CacheWrite ==
  ASSUME CacheInv, NEW path, Write(path)
  PROVE  CacheInv'
<1>1. /\ writes' = writes + 1 /\ files' = [files EXCEPT ![path] = writes' + 1]
      /\ content' = content /\ blob' = blob /\ indexer' = indexer
  BY DEF Write, cacheVars
<1>2. FilesInv /\ TimesInv /\ PairInv /\ StoreInv
  BY DEF CacheInv
<1>3. \A p \in Paths : files[p] \in Nat /\ files'[p] \in Nat /\ files[p] <= files'[p]
                       /\ 1 <= files'[p] /\ files'[p] <= writes' + 1
  BY <1>1, <1>2 DEF FilesInv
<1>4. FilesInv'
  <2>1. DOMAIN files' = Paths /\ files' = [q \in Paths |-> files'[q]]
    BY <1>1, <1>2 DEF FilesInv
  <2>2. files' \in [Paths -> Nat]
    BY <1>3, <2>1
  <2> QED
    BY <1>1, <1>2, <1>3, <2>2 DEF FilesInv
<1>5. TimesInv'
  <2>1. ASSUME NEW k \in DOMAIN content, k.path \in Paths
        PROVE  content[k] \in Nat /\ content[k] <= files'[k.path]
    <3>1. content[k] \in Nat /\ content[k] <= files[k.path]
      BY <1>2, <2>1 DEF TimesInv
    <3> QED
      BY <1>3, <2>1, <3>1
  <2>2. ASSUME NEW k \in DOMAIN blob, k.path \in Paths
        PROVE  blob[k].time \in Nat /\ blob[k].time <= files'[k.path]
    <3>1. blob[k].time \in Nat /\ blob[k].time <= files[k.path]
      BY <1>2, <2>2 DEF TimesInv
    <3> QED
      BY <1>3, <2>2, <3>1
  <2> QED
    BY <1>1, <2>1, <2>2 DEF TimesInv
<1>6. PairInv'
  BY <1>1, <1>2 DEF PairInv, deserialize
<1>7. StoreInv'
  <2>1. ASSUME indexer.pc = "store", indexer.key.path \in Paths
        PROVE  indexer.text <= files'[indexer.key.path]
    <3>1. indexer.text \in Nat /\ indexer.text <= files[indexer.key.path]
      BY <1>2, <2>1 DEF StoreInv
    <3> QED
      BY <1>3, <2>1, <3>1
  <2>2. ASSUME indexer.pc = "seen", indexer.request.path \in Paths
        PROVE  indexer.time <= files'[indexer.request.path]
    <3>1. indexer.time \in Nat /\ indexer.time <= files[indexer.request.path]
      BY <1>2, <2>2 DEF StoreInv
    <3> QED
      BY <1>3, <2>2, <3>1
  <2> QED
    BY <1>1, <1>2, <2>1, <2>2 DEF StoreInv
<1> QED
  BY <1>4, <1>5, <1>6, <1>7 DEF CacheInv

\* clang has opened the file.
LEMMA CacheParse ==
  ASSUME CacheInv, Parse
  PROVE  CacheInv'
<1> DEFINE p == indexer.request.path
<1>1. UNCHANGED <<files, writes, content, blob>>
  BY DEF Parse, Unmoved, worldVars, sourceVars
<1>2. /\ DOMAIN indexer = Fields /\ indexer.stored = 0
      /\ indexer' = [indexer EXCEPT !.pc = "seen", !.time = files[p]]
  BY DEF Parse, CacheInv, StoreInv
<1>3. /\ DOMAIN indexer' = Fields /\ indexer'.pc = "seen" /\ indexer'.stored = 0
      /\ indexer'.time = files[p] /\ indexer'.request.path = p
  BY <1>2 DEF Fields
<1> HIDE DEF p
<1>4. FilesInv' /\ TimesInv' /\ PairInv'
  BY <1>1 DEF CacheInv, FilesInv, TimesInv, PairInv, deserialize
<1>5. p \in Paths => files[p] \in Nat /\ 1 <= files[p] /\ files' = files
  BY <1>1 DEF CacheInv, FilesInv
<1>6. StoreInv'
  BY <1>3, <1>5 DEF StoreInv
<1> QED
  BY <1>4, <1>6 DEF CacheInv

\* The indexer has parsed and is about to write what it has read.
LEMMA CacheSeen ==
  ASSUME CacheInv, SeenFile
  PROVE  CacheInv'
<1> DEFINE p == indexer.request.path
<1>1. UNCHANGED <<files, writes, content, blob>>
  BY DEF SeenFile, Unmoved, worldVars, sourceVars
<1>2. CASE ~CanStore(p)
  <2>1. /\ DOMAIN indexer = Fields
        /\ indexer' = [indexer EXCEPT !.pc = "finish", !.text = files[p],
                                      !.key = getCachePath(p)]
    BY <1>2 DEF SeenFile, CacheInv, StoreInv
  <2>2. DOMAIN indexer' = Fields /\ indexer'.pc = "finish"
    BY <2>1 DEF Fields
  <2>3. Elsewhere'
    BY <2>2 DEF Elsewhere
  <2> QED
    BY <1>1, <2>3, CacheKept
<1>3. CASE CanStore(p)
  <2>1. /\ DOMAIN indexer = Fields
        /\ indexer' = [indexer EXCEPT !.pc = "store", !.text = files[p],
                                      !.key = getCachePath(p)]
    BY <1>3 DEF SeenFile, CacheInv, StoreInv
  <2>2. indexer.pc = "seen" /\ indexer.stored = 0
    BY DEF SeenFile, CacheInv, StoreInv
  <2> HIDE DEF p
  <2>3. /\ DOMAIN indexer' = Fields /\ indexer'.text = files[p] /\ indexer'.time = indexer.time
        /\ indexer'.key = getCachePath(p) /\ indexer'.stored = 0
    BY <2>1, <2>2 DEF Fields
  <2>4. indexer'.key.path = p
    BY <2>3 DEF getCachePath
  <2>5. ASSUME p \in Paths
        PROVE  /\ files[p] \in Nat /\ 1 <= indexer.time
               /\ indexer.time \in Nat /\ indexer.time <= files[p]
               /\ indexer'.key \in DOMAIN blob => blob[indexer'.key].time <= files[p]
    <3>1. /\ indexer.time \in Nat /\ 1 <= indexer.time /\ indexer.time <= files[p]
      BY <2>2, <2>5 DEF CacheInv, StoreInv, p
    <3> QED
      BY <2>4, <2>5, <3>1 DEF CacheInv, FilesInv, TimesInv
  <2>6. FilesInv' /\ TimesInv' /\ PairInv'
    BY <1>1 DEF CacheInv, FilesInv, TimesInv, PairInv, deserialize
  <2>7. StoreInv'
    <3>1. indexer'.pc = "store"
      BY <2>1 DEF Fields
    <3>2. files' = files /\ blob' = blob
      BY <1>1
    <3>3. ~(indexer'.stored >= 2)
      BY <2>3
    <3> QED
      BY <2>3, <2>4, <2>5, <3>1, <3>2, <3>3 DEF StoreInv
  <2> QED
    BY <2>6, <2>7 DEF CacheInv
<1> QED
  BY <1>2, <1>3

\* The step of a write of the text: empty first, then as it was read.
LEMMA StoreContent ==
  ASSUME CacheInv, indexer.pc = "store", indexer.stored \in {0, 1},
         UNCHANGED <<files, writes, blob>>,
         content' = Stored(content, indexer.key,
                           IF indexer.stored = 0 THEN Torn ELSE indexer.text),
         indexer' = [indexer EXCEPT !.stored = @ + 1, !.pc = "store"]
  PROVE  CacheInv'
<1> DEFINE key == indexer.key
           time == IF indexer.stored = 0 THEN Torn ELSE indexer.text
<1>1. FilesInv /\ TimesInv /\ PairInv /\ StoreInv
  BY DEF CacheInv
<1>2. DOMAIN indexer = Fields
  BY <1>1 DEF StoreInv
<1>3. /\ DOMAIN indexer' = Fields /\ indexer'.pc = "store" /\ indexer'.key = key
      /\ indexer'.text = indexer.text /\ indexer'.time = indexer.time
      /\ indexer'.stored = indexer.stored + 1
  BY <1>2 DEF Fields
<1>4. key.path \in Paths =>
        /\ indexer.time \in Nat /\ 1 <= indexer.time /\ indexer.time <= indexer.text
        /\ indexer.text \in Nat /\ indexer.text <= files[key.path]
        /\ key \in DOMAIN blob => blob[key].time <= indexer.text
  BY <1>1 DEF StoreInv
<1>5. time = Torn \/ time = indexer.text
  OBVIOUS
<1>6. indexer.stored = 1 => time = indexer.text
  OBVIOUS
<1>7. content' = Stored(content, key, time)
  OBVIOUS
<1> HIDE DEF key, time
<1>8. /\ DOMAIN content' = DOMAIN content \cup {key} /\ content'[key] = time
      /\ \A k \in DOMAIN content : k /= key => content'[k] = content[k]
  BY <1>7 DEF Stored
<1>9. FilesInv'
  BY <1>1 DEF FilesInv
<1>10. TimesInv'
  <2>1. ASSUME NEW k \in DOMAIN content', k.path \in Paths
        PROVE  content'[k] \in Nat /\ content'[k] <= files[k.path]
    <3>1. CASE k = key
      <4>1. files[key.path] \in Nat
        BY <1>1, <2>1, <3>1 DEF FilesInv
      <4> QED
        BY <1>4, <1>5, <1>8, <2>1, <3>1, <4>1 DEF Torn
    <3>2. CASE k /= key
      BY <1>1, <1>8, <2>1, <3>2 DEF TimesInv
    <3> QED
      BY <3>1, <3>2
  <2> QED
    BY <1>1, <2>1 DEF TimesInv
<1>11. PairInv'
  <2>1. ASSUME NEW k \in DOMAIN blob, k.path \in Paths, k \in DOMAIN content',
               deserialize(blob[k])
        PROVE  content'[k] = Torn \/ blob[k].time <= content'[k]
    <3>1. CASE k = key
      BY <1>4, <1>5, <1>8, <2>1, <3>1
    <3>2. CASE k /= key
      BY <1>1, <1>8, <2>1, <3>2 DEF PairInv
    <3> QED
      BY <3>1, <3>2
  <2> QED
    BY <2>1 DEF PairInv, deserialize
<1>12. StoreInv'
  <2>1. indexer'.stored \in 0..3 /\ (indexer'.stored >= 2 => indexer.stored = 1)
    BY <1>3
  <2>2. indexer'.stored >= 2 => key \in DOMAIN content' /\ content'[key] = indexer.text
    BY <1>6, <1>8, <2>1
  <2> QED
    BY <1>3, <1>4, <2>1, <2>2 DEF StoreInv
<1> QED
  BY <1>9, <1>10, <1>11, <1>12 DEF CacheInv

\* The index is truncated and then written: by now its text stands beside it.
LEMMA StoreBlob ==
  ASSUME CacheInv, indexer.pc = "store", indexer.stored \in {2, 3},
         UNCHANGED <<files, writes, content>>,
         blob' = Stored(blob, indexer.key,
                        serialize(IF indexer.stored = 2 THEN Torn ELSE indexer.time,
                                  indexer.args)),
         indexer' = [indexer EXCEPT !.stored = @ + 1,
                                    !.pc = IF indexer.stored = 3 THEN "finish" ELSE "store"]
  PROVE  CacheInv'
<1> DEFINE key == indexer.key
           time == IF indexer.stored = 2 THEN Torn ELSE indexer.time
           entry == serialize(time, indexer.args)
<1>1. FilesInv /\ TimesInv /\ PairInv /\ StoreInv
  BY DEF CacheInv
<1>2. DOMAIN indexer = Fields
  BY <1>1 DEF StoreInv
<1>3. /\ DOMAIN indexer' = Fields /\ indexer'.key = key /\ indexer'.text = indexer.text
      /\ indexer'.time = indexer.time /\ indexer'.stored = indexer.stored + 1
      /\ indexer.stored = 3 => indexer'.pc = "finish"
      /\ indexer.stored = 2 => indexer'.pc = "store"
  BY <1>2 DEF Fields
<1>4. key.path \in Paths =>
        /\ indexer.time \in Nat /\ 1 <= indexer.time /\ indexer.time <= indexer.text
        /\ indexer.text \in Nat /\ indexer.text <= files[key.path]
        /\ key \in DOMAIN content /\ content[key] = indexer.text
  BY <1>1 DEF StoreInv
<1>5. (time = Torn \/ time = indexer.time) /\ (indexer.stored = 2 => time = Torn)
  OBVIOUS
<1>6. blob' = Stored(blob, key, entry)
  OBVIOUS
<1>7. entry.time = time
  BY DEF serialize
<1> HIDE DEF key, time, entry
<1>8. /\ DOMAIN blob' = DOMAIN blob \cup {key} /\ blob'[key] = entry
      /\ \A k \in DOMAIN blob : k /= key => blob'[k] = blob[k]
  BY <1>6 DEF Stored
<1>9. FilesInv'
  BY <1>1 DEF FilesInv
<1>10. TimesInv'
  <2>1. ASSUME NEW k \in DOMAIN blob', k.path \in Paths
        PROVE  blob'[k].time \in Nat /\ blob'[k].time <= files[k.path]
    <3>1. CASE k = key
      <4>1. files[key.path] \in Nat
        BY <1>1, <2>1, <3>1 DEF FilesInv
      <4> QED
        BY <1>4, <1>5, <1>7, <1>8, <2>1, <3>1, <4>1 DEF Torn
    <3>2. CASE k /= key
      BY <1>1, <1>8, <2>1, <3>2 DEF TimesInv
    <3> QED
      BY <3>1, <3>2
  <2> QED
    BY <1>1, <2>1 DEF TimesInv
<1>11. PairInv'
  <2>1. ASSUME NEW k \in DOMAIN blob', k.path \in Paths, k \in DOMAIN content,
               deserialize(blob'[k])
        PROVE  content[k] = Torn \/ blob'[k].time <= content[k]
    <3>1. CASE k = key
      <4>1. blob'[k].time = time /\ time /= Torn
        BY <1>7, <1>8, <2>1, <3>1 DEF deserialize
      <4> QED
        BY <1>4, <1>5, <2>1, <3>1, <4>1
    <3>2. CASE k /= key
      BY <1>1, <1>8, <2>1, <3>2 DEF PairInv
    <3> QED
      BY <3>1, <3>2
  <2> QED
    BY <2>1 DEF PairInv, deserialize
<1>12. StoreInv'
  <2>1. CASE indexer.stored = 3
    BY <1>3, <2>1 DEF StoreInv
  <2>2. CASE indexer.stored = 2
    <3>1. indexer'.stored = 3 /\ indexer'.pc = "store"
      BY <1>3, <2>2
    <3>2. blob'[key].time = 0
      BY <1>5, <1>7, <1>8, <2>2 DEF Torn
    <3> QED
      BY <1>3, <1>4, <3>1, <3>2 DEF StoreInv
  <2> QED
    BY <2>1, <2>2
<1> QED
  BY <1>9, <1>10, <1>11, <1>12 DEF CacheInv

\* Each of the four steps of the two writes.
LEMMA CacheStore ==
  ASSUME CacheInv, Store
  PROVE  CacheInv'
<1> DEFINE file == StoreSteps[1 + indexer.stored \div 2]
<1>1. UNCHANGED <<files, writes>>
  BY DEF Store, Unmoved, worldVars, sourceVars
<1>2. indexer.pc = "store" /\ indexer.stored \in 0..3
  BY DEF Store, CacheInv, StoreInv
<1>3. indexer' = [indexer EXCEPT !.stored = @ + 1,
                                 !.pc = IF indexer.stored = 3 THEN "finish" ELSE "store"]
  BY DEF Store
<1>4. CASE indexer.stored \in {0, 1}
  <2>1. 1 + indexer.stored \div 2 = 1 /\ (indexer.stored % 2 = 0 <=> indexer.stored = 0)
    BY <1>4
  <2>2. file = "content"
    BY <2>1 DEF StoreSteps
  <2>3. /\ content' = Stored(content, indexer.key,
                             IF indexer.stored = 0 THEN Torn ELSE indexer.text)
        /\ blob' = blob
    BY <2>1, <2>2 DEF Store
  <2>4. indexer.stored /= 3
    BY <1>4
  <2>5. indexer' = [indexer EXCEPT !.stored = @ + 1, !.pc = "store"]
    BY <1>3, <2>4
  <2> QED
    BY <1>1, <1>2, <1>4, <2>3, <2>5, StoreContent
<1>5. CASE indexer.stored \in {2, 3}
  <2>1. 1 + indexer.stored \div 2 = 2 /\ (indexer.stored % 2 = 0 <=> indexer.stored = 2)
    BY <1>5
  <2>2. file = "blob"
    BY <2>1 DEF StoreSteps
  <2>3. /\ blob' = Stored(blob, indexer.key,
                          serialize(IF indexer.stored = 2 THEN Torn ELSE indexer.time,
                                    indexer.args))
        /\ content' = content
    BY <2>1, <2>2 DEF Store
  <2> QED
    BY <1>1, <1>2, <1>3, <1>5, <2>3, StoreBlob
<1> QED
  BY <1>2, <1>4, <1>5

\* What the indexer does with a request that it takes.
LEMMA CacheTake ==
  ASSUME CacheInv, IndexerTake
  PROVE  CacheInv'
<1>1. UNCHANGED <<files, writes, content, blob>>
  BY DEF IndexerTake, Unmoved, worldVars, sourceVars
<1>2. CASE Goto("wait")
  BY <1>1, <1>2, GotoElsewhere
<1>3. ASSUME NEW r, NEW entry, Examine(r, entry) PROVE CacheInv'
  <2>1. \E args, again : \E pc \in {"parse", "finish"} :
          indexer' = [pc |-> pc, request |-> r, args |-> args, time |-> 0, text |-> 0,
                      key |-> <<>>, stored |-> 0, again |-> again]
    BY <1>3 DEF Examine
  <2>2. Elsewhere'
    BY <2>1 DEF Elsewhere, Fields
  <2> QED
    BY <1>1, <2>2, CacheKept
<1> QED
  BY <1>2, <1>3 DEF IndexerTake

\* The steps of the indexer.
LEMMA CacheIndexer ==
  ASSUME CacheInv, Indexer
  PROVE  CacheInv'
<1>1. CASE IndexerTake
  BY <1>1, CacheTake
<1>2. CASE IndexerIdle
  BY <1>2, GotoElsewhere DEF IndexerIdle, Unmoved, worldVars, sourceVars
<1>3. CASE IndexerWake
  <2>1. PICK pc \in {"left", "poll"} : Goto(pc)
    BY <1>3 DEF IndexerWake
  <2>2. UNCHANGED <<files, writes, content, blob>>
    BY <1>3 DEF IndexerWake, Unmoved, worldVars, sourceVars
  <2> QED
    BY <2>1, <2>2, GotoElsewhere
<1>4. CASE ParseFails
  BY <1>4, GotoElsewhere DEF ParseFails, Unmoved, worldVars, sourceVars
<1>5. CASE Parse
  BY <1>5, CacheParse
<1>8. CASE SeenFile
  BY <1>8, CacheSeen
<1>6. CASE Store
  BY <1>6, CacheStore
<1>7. CASE Finish
  <2>1. PICK pc \in {"poll", "wait"} : indexer' = [NoJob EXCEPT !.pc = pc]
    BY <1>7 DEF Finish
  <2>2. Elsewhere'
    BY <2>1 DEF Elsewhere, NoJob, Fields
  <2>3. UNCHANGED <<files, writes, content, blob>>
    BY <1>7 DEF Finish, Unmoved, worldVars, sourceVars
  <2> QED
    BY <2>2, <2>3, CacheKept
<1> QED
  BY <1>1, <1>2, <1>3, <1>4, <1>5, <1>6, <1>7, <1>8 DEF Indexer

\* Nothing but the indexer writes the cache.  A new process, or none, finds what the
\* last one has left.
LEMMA CacheFresh ==
  ASSUME CacheInv, Fresh
  PROVE  CacheInv'
<1>1. UNCHANGED <<files, writes, content, blob>> /\ indexer' = NoJob
  BY DEF Fresh, cacheVars
<1>2. Elsewhere'
  BY <1>1 DEF Elsewhere, NoJob, Fields
<1> QED
  BY <1>1, <1>2, CacheKept

LEMMA CacheStarting ==
  ASSUME CacheInv,
         \/ InitializeReply \/ InitializeLoad \/ InitializeSpawn \/ InitializeRescan
         \/ InitializeIndex
  PROVE  CacheInv'
<1>1. UNCHANGED <<files, writes, content, blob>>
  BY DEF InitializeReply, InitializeLoad, InitializeSpawn, InitializeRescan,
         InitializeIndex, InitializeStep, sourceVars
<1>2. CASE InitializeSpawn
  <2>1. Goto("poll")
    BY <1>2 DEF InitializeSpawn, Goto
  <2> QED
    BY <1>1, <2>1, GotoElsewhere
<1>3. CASE ~InitializeSpawn
  <2>1. indexer' = indexer
    BY <1>3 DEF InitializeReply, InitializeLoad, InitializeRescan, InitializeIndex
  <2> QED
    BY <1>1, <2>1, CacheKept
<1> QED
  BY <1>2, <1>3

\* The messages of the client.
LEMMA CacheMessage ==
  ASSUME CacheInv,
         \/ \E path \in Paths : didOpen(path) \/ didSave(path) \/ didChangeWatchedFiles(path)
         \/ didChangeConfiguration
         \/ \E i \in DOMAIN Folders : didChangeWorkspaceFolders(Folders[i])
  PROVE  CacheInv'
<1>1. UNCHANGED <<files, writes, content, blob, indexer>>
  BY DEF didOpen, didSave, didChangeWatchedFiles, didChangeConfiguration,
         didChangeWorkspaceFolders, Handler, worldVars, sourceVars, cacheVars
<1> QED
  BY <1>1, CacheKept

\* Every step of the server keeps what the cache promises.
THEOREM CacheInductive == SpecServer => []CacheInv
<1>1. CacheInv /\ [NextServer]_serverVars => CacheInv'
  <2> SUFFICES ASSUME CacheInv, [NextServer]_serverVars PROVE CacheInv'
    OBVIOUS
  <2>1. CASE UNCHANGED serverVars
    BY <2>1, CacheKept DEF serverVars, worldVars, sourceVars, cacheVars
  <2>2. CASE \/ InitializeReply \/ InitializeLoad \/ InitializeSpawn \/ InitializeRescan
             \/ InitializeIndex
    BY <2>2, CacheStarting
  <2>3. CASE \/ \E path \in Paths :
                  didOpen(path) \/ didSave(path) \/ didChangeWatchedFiles(path)
             \/ didChangeConfiguration
             \/ \E i \in DOMAIN Folders : didChangeWorkspaceFolders(Folders[i])
    BY <2>3, CacheMessage
  <2>4. CASE Indexer
    BY <2>4, CacheIndexer
  <2>5. CASE Start \/ Scan \/ ProgressReport \/ exit \/ StandaloneDone
    BY <2>5, CacheKept
    DEF Start, Scan, ProgressReport, exit, StandaloneDone, Quit, worldVars, sourceVars,
        cacheVars
  <2>6. CASE Down \/ Crash
    BY <2>6, CacheFresh DEF Down, Crash
  <2>7. ASSUME NEW path \in Written, Write(path) PROVE CacheInv'
    BY <2>7, CacheWrite
  <2> QED
    BY <2>1, <2>2, <2>3, <2>4, <2>5, <2>6, <2>7 DEF NextServer
<1> QED
  BY <1>1, CacheInit, PTL DEF SpecServer

\* Whatever was interrupted and whenever the files change, the text beside an index
\* that is as new as its file is the text the index was made of, or empty.
THEOREM CacheTrustedHolds == SpecServer => []CacheTrusted
<1>1. CacheInv => CacheTrusted
  <2> SUFFICES ASSUME CacheInv, NEW path \in Paths, rawCacheLoad(path) /= Uncached,
                      rawCacheLoad(path).time >= files[path]
               PROVE  loadIndexedContent(path) \in {rawCacheLoad(path).time, Torn}
    BY DEF CacheTrusted
  <2> DEFINE key == getCachePath(path)
  <2>1. /\ key \in DOMAIN content /\ key \in DOMAIN blob /\ deserialize(blob[key])
        /\ rawCacheLoad(path) = blob[key]
    BY DEF rawCacheLoad
  <2>2. key.path = path
    BY DEF getCachePath
  <2>3. loadIndexedContent(path) = content[key]
    BY <2>1 DEF loadIndexedContent
  <2> HIDE DEF key
  <2>4. /\ blob[key].time \in Nat /\ blob[key].time <= files[path] /\ files[path] \in Nat
        /\ content[key] \in Nat /\ content[key] <= files[path]
        /\ content[key] = Torn \/ blob[key].time <= content[key]
    BY <2>1, <2>2 DEF CacheInv, FilesInv, TimesInv, PairInv
  <2>5. blob[key].time >= files[path]
    BY <2>1
  <2> QED
    BY <2>1, <2>3, <2>4, <2>5
<1> QED
  BY <1>1, CacheInductive, PTL
----------------------------------------------------------------------------
(* Sequences of requests *)

Among(x, s) == \E j \in 1..Len(s) : s[j] = x

\* What was in one of the sequences, and nothing else, is in what is joined.
LEMMA JoinedMembers ==
  ASSUME NEW S, NEW t \in Seq(Seq(S)), NEW x
  PROVE  Among(x, Joined(t)) <=> \E k \in 1..Len(t) : Among(x, t[k])
<1> DEFINE N == Len(t)
           In(s) == \E j \in 1..Len(s) : s[j] = x
           T == Seq(S)
<1>1. PICK f \in Flat(S, t) : TRUE
  BY FlatExists
<1>2. /\ f \in [0..N -> T] /\ f[0] = <<>> /\ Joined(t) = f[N]
      /\ \A n \in 1..N : f[n] = f[n - 1] \o t[n]
  BY <1>1 DEF Flat
<1>3. N \in Nat /\ t \in [1..N -> T]
  OBVIOUS
<1>4. ASSUME NEW a \in T, NEW b \in T PROVE In(a \o b) <=> In(a) \/ In(b)
  <2>1. /\ a \o b \in T /\ Len(a \o b) = Len(a) + Len(b) /\ Len(a) \in Nat /\ Len(b) \in Nat
        /\ \A i \in 1..Len(a) + Len(b) : (a \o b)[i] = IF i <= Len(a) THEN a[i] ELSE b[i - Len(a)]
    BY ConcatProperties
  <2>2. ASSUME In(a) PROVE In(a \o b)
    <3>1. PICK j \in 1..Len(a) : a[j] = x
      BY <2>2
    <3>2. j \in 1..Len(a) + Len(b) /\ (a \o b)[j] = x
      BY <2>1, <3>1
    <3> QED
      BY <2>1, <3>2
  <2>3. ASSUME In(b) PROVE In(a \o b)
    <3>1. PICK j \in 1..Len(b) : b[j] = x
      BY <2>3
    <3>2. Len(a) + j \in 1..Len(a) + Len(b) /\ ~(Len(a) + j <= Len(a)) /\ (Len(a) + j) - Len(a) = j
      BY <2>1, <3>1
    <3>3. (a \o b)[Len(a) + j] = x
      BY <2>1, <3>1, <3>2
    <3> QED
      BY <2>1, <3>2, <3>3
  <2>4. ASSUME In(a \o b) PROVE In(a) \/ In(b)
    <3>1. PICK j \in 1..Len(a) + Len(b) : (a \o b)[j] = x
      BY <2>1, <2>4
    <3>2. CASE j <= Len(a)
      BY <2>1, <3>1, <3>2
    <3>3. CASE ~(j <= Len(a))
      <4>1. j - Len(a) \in 1..Len(b) /\ b[j - Len(a)] = x
        BY <2>1, <3>1, <3>3
      <4> QED
        BY <4>1
    <3> QED
      BY <3>2, <3>3
  <2> QED
    BY <2>2, <2>3, <2>4
<1>5. ~In(<<>>)
  OBVIOUS
<1> HIDE DEF In, T, N
<1> DEFINE E == {n \in 0..N : In(f[n]) <=> \E k \in 1..n : In(t[k])}
<1>6. 0 \in E
  BY <1>2, <1>3, <1>5
<1>7. ASSUME NEW n \in 1..N, n - 1 \in E PROVE n \in E
  <2>0. n - 1 \in 0..N /\ n \in 0..N
    BY <1>3
  <2>1. f[n - 1] \in T /\ t[n] \in T /\ f[n] = f[n - 1] \o t[n] /\ n \in 0..N
    BY <1>2, <1>3, <2>0
  <2>2. In(f[n]) <=> In(f[n - 1]) \/ In(t[n])
    BY <1>4, <2>1
  <2>3. In(f[n - 1]) <=> \E k \in 1..(n - 1) : In(t[k])
    BY <1>7
  <2>4. \A k \in 1..n : k = n \/ k \in 1..(n - 1)
    OBVIOUS
  <2>5. n \in 1..n /\ \A k \in 1..(n - 1) : k \in 1..n
    OBVIOUS
  <2>6. (\E k \in 1..n : In(t[k])) <=> (\E k \in 1..(n - 1) : In(t[k])) \/ In(t[n])
    BY <2>4, <2>5, Zenon
  <2> QED
    BY <2>1, <2>2, <2>3, <2>6
<1> HIDE DEF E
<1>8. N \in E
  <2>1. \A n \in 0..N : n \in E
    BY <1>3, <1>6, <1>7, UpToInduct
  <2> QED
    BY <1>3, <2>1
<1>9. In(Joined(t)) <=> \E k \in 1..N : In(t[k])
  BY <1>2, <1>8 DEF E
<1> QED
  BY <1>9 DEF In, N, Among

\* What is kept of a sequence is what it has in common with the set.
Chosen(s, M) == [i \in DOMAIN s |-> IF s[i] \in M THEN <<s[i]>> ELSE <<>>]

LEMMA KeptJoined == \A s, M : Kept(s, M) = Joined(Chosen(s, M))
BY DEF Kept, FlattenSeq, Joined, Chosen

LEMMA ChosenType ==
  ASSUME NEW S, NEW s \in Seq(S), NEW M
  PROVE  /\ Chosen(s, M) \in Seq(Seq(S)) /\ Len(Chosen(s, M)) = Len(s)
         /\ \A i \in 1..Len(s) : Chosen(s, M)[i] = IF s[i] \in M THEN <<s[i]>> ELSE <<>>
<1> DEFINE T == Seq(S)
           c == [i \in 1..Len(s) |-> IF s[i] \in M THEN <<s[i]>> ELSE <<>>]
<1>1. DOMAIN s = 1..Len(s) /\ Len(s) \in Nat /\ \A i \in 1..Len(s) : s[i] \in S
  OBVIOUS
<1>2. Chosen(s, M) = c
  BY <1>1 DEF Chosen
<1>3. \A i \in 1..Len(s) : <<s[i]>> \in T
  BY <1>1
<1>4. <<>> \in T
  OBVIOUS
<1> HIDE DEF T
<1>5. c \in Seq(T) /\ Len(c) = Len(s)
  BY <1>1, <1>3, <1>4
<1> QED
  BY <1>1, <1>2, <1>5 DEF T

LEMMA KeptMembers ==
  ASSUME NEW S, NEW s \in Seq(S), NEW M
  PROVE  /\ Kept(s, M) \in Seq(S)
         /\ \A x : Among(x, Kept(s, M)) <=> x \in M /\ Among(x, s)
<1> DEFINE c == Chosen(s, M)
<1>1. c \in Seq(Seq(S)) /\ Len(c) = Len(s)
      /\ \A i \in 1..Len(s) : c[i] = IF s[i] \in M THEN <<s[i]>> ELSE <<>>
  BY ChosenType
<1>2. Kept(s, M) = Joined(c)
  BY KeptJoined
<1> HIDE DEF c
<1>3. Joined(c) \in Seq(S)
  BY <1>1, JoinedType
<1>4. ASSUME NEW x PROVE Among(x, Joined(c)) <=> x \in M /\ Among(x, s)
  <2>1. Among(x, Joined(c)) <=> \E k \in 1..Len(c) : Among(x, c[k])
    BY <1>1, JoinedMembers
  <2>2. ASSUME NEW k \in 1..Len(s)
        PROVE  Among(x, c[k]) <=> s[k] \in M /\ s[k] = x
    <3>1. CASE s[k] \in M
      <4>1. c[k] = <<s[k]>>
        BY <1>1, <3>1
      <4>2. Len(<<s[k]>>) = 1 /\ <<s[k]>>[1] = s[k]
        OBVIOUS
      <4>3. \A i \in 1..1 : i = 1
        OBVIOUS
      <4>4. 1 \in 1..1
        OBVIOUS
      <4> QED
        BY <3>1, <4>1, <4>2, <4>3, <4>4, Zenon DEF Among
    <3>2. CASE s[k] \notin M
      <4>1. c[k] = <<>>
        BY <1>1, <3>2
      <4>2. Len(<<>>) = 0
        OBVIOUS
      <4>3. \A i \in 1..0 : FALSE
        OBVIOUS
      <4> QED
        BY <3>2, <4>1, <4>2, <4>3, Zenon DEF Among
    <3> QED
      BY <3>1, <3>2
  <2>3. (\E k \in 1..Len(s) : Among(x, c[k])) <=> x \in M /\ \E k \in 1..Len(s) : s[k] = x
    BY <2>2
  <2> QED
    BY <1>1, <2>1, <2>3, Zenon DEF Among
<1> QED
  BY <1>2, <1>3, <1>4, Zenon

\* All of it, or nothing.
LEMMA KeptAll ==
  ASSUME NEW S, NEW s \in Seq(S), NEW M, \A i \in 1..Len(s) : s[i] \in M
  PROVE  Kept(s, M) = s
<1> DEFINE c == Chosen(s, M)
           N == Len(s)
<1>1. c \in Seq(Seq(S)) /\ Len(c) = N /\ N \in Nat
      /\ \A i \in 1..N : c[i] = <<s[i]>>
  <2>1. /\ c \in Seq(Seq(S)) /\ Len(c) = N
        /\ \A i \in 1..N : c[i] = IF s[i] \in M THEN <<s[i]>> ELSE <<>>
    BY ChosenType
  <2>2. \A i \in 1..N : s[i] \in M
    OBVIOUS
  <2>3. N \in Nat
    OBVIOUS
  <2> HIDE DEF c, N
  <2>4. \A i \in 1..N : c[i] = <<s[i]>>
    BY <2>1, <2>2
  <2> QED
    BY <2>1, <2>3, <2>4
<1>2. Kept(s, M) = Joined(c)
  BY KeptJoined
<1> HIDE DEF c
<1>3. PICK f \in Flat(S, c) : TRUE
  BY <1>1, FlatExists
<1>4. /\ f \in [0..N -> Seq(S)] /\ f[0] = <<>> /\ Joined(c) = f[N]
      /\ \A n \in 1..N : f[n] = f[n - 1] \o <<s[n]>>
  BY <1>1, <1>3 DEF Flat
<1> DEFINE E == {n \in 0..N : f[n] = SubSeq(s, 1, n)}
<1>5. 0 \in E
  <2>1. SubSeq(s, 1, 0) = <<>>
    OBVIOUS
  <2> QED
    BY <1>1, <1>4, <2>1
<1>6. ASSUME NEW n \in 1..N, n - 1 \in E PROVE n \in E
  <2>1. f[n] = SubSeq(s, 1, n - 1) \o <<s[n]>>
    BY <1>4, <1>6
  <2>2. SubSeq(s, 1, n - 1) \o <<s[n]>> = SubSeq(s, 1, n)
    OBVIOUS
  <2> QED
    BY <2>1, <2>2
<1> HIDE DEF E
<1>7. \A n \in 0..N : n \in E
  BY <1>1, <1>5, <1>6, UpToInduct
<1>8. f[N] = SubSeq(s, 1, N)
  BY <1>1, <1>7 DEF E
<1>9. SubSeq(s, 1, Len(s)) = s
  OBVIOUS
<1> QED
  BY <1>2, <1>4, <1>8, <1>9

LEMMA KeptNone ==
  ASSUME NEW S, NEW s \in Seq(S), NEW M, \A i \in 1..Len(s) : s[i] \notin M
  PROVE  Kept(s, M) = <<>>
<1>1. Kept(s, M) \in Seq(S)
  BY KeptMembers
<1>2. ASSUME NEW j \in 1..Len(Kept(s, M)) PROVE FALSE
  <2>1. Among(Kept(s, M)[j], Kept(s, M))
    BY DEF Among
  <2>2. Kept(s, M)[j] \in M /\ Among(Kept(s, M)[j], s)
    BY <2>1, KeptMembers
  <2> QED
    BY <2>2 DEF Among
<1>3. Len(Kept(s, M)) = 0
  BY <1>1, <1>2
<1> QED
  BY <1>1, <1>3
----------------------------------------------------------------------------
(* Folders that are loaded *)

IsFunction(f) == f = [x \in DOMAIN f |-> f[x]]
IsSeq(s) == s \in Seq(Range(s))
IsEntry(e) == "filename" \in DOMAIN e /\ e.filename \in Paths
IsEntries(s) == IsSeq(s) /\ \A i \in 1..Len(s) : IsEntry(s[i])
FolderWith(entries, indexes, dots, search) ==
  [entries |-> entries, path2entry_index |-> indexes, dot_ccls |-> dots, search |-> search]
IsFolder(f) ==
  \E entries, indexes, dots, search :
    f = FolderWith(entries, indexes, dots, search) /\ IsEntries(entries)

\* A function on 1..n is a sequence, and a sequence is one.
LEMMA FunctionIsSeq ==
  ASSUME NEW n \in Nat, NEW s, DOMAIN s = 1..n, IsFunction(s)
  PROVE  IsSeq(s) /\ Len(s) = n
<1>1. DOMAIN s = 1..n
  OBVIOUS
<1>2. \A i \in 1..n : s[i] \in Range(s)
  BY <1>1 DEF Range
<1> DEFINE R == Range(s)
<1> HIDE DEF R
<1>3. s \in [1..n -> R]
  BY <1>1, <1>2 DEF R, IsFunction
<1>4. s \in Seq(R) /\ Len(s) = n
  BY <1>3
<1> QED
  BY <1>1, <1>4 DEF R, IsSeq

LEMMA SeqIs ==
  ASSUME NEW s, IsSeq(s)
  PROVE  Len(s) \in Nat /\ DOMAIN s = 1..Len(s) /\ IsFunction(s)
<1> DEFINE R == Range(s)
<1>1. s \in Seq(R)
  BY DEF IsSeq
<1> HIDE DEF R
<1>2. Len(s) \in Nat /\ DOMAIN s = 1..Len(s)
  BY <1>1
<1>3. s \in [1..Len(s) -> R]
  BY <1>1
<1>4. IsFunction(s)
  BY <1>3 DEF IsFunction
<1> QED
  BY <1>2, <1>4

\* Entries behind entries are entries.
LEMMA EntriesJoin ==
  ASSUME NEW s, NEW t, IsEntries(s), IsEntries(t)
  PROVE  IsEntries(s \o t)
<1> DEFINE R == Range(s) \cup Range(t)
<1>1. Len(s) \in Nat /\ DOMAIN s = 1..Len(s) /\ IsFunction(s)
      /\ Len(t) \in Nat /\ DOMAIN t = 1..Len(t) /\ IsFunction(t)
  BY SeqIs DEF IsEntries
<1>2. (\A i \in 1..Len(s) : s[i] \in R) /\ (\A i \in 1..Len(t) : t[i] \in R)
  BY <1>1 DEF Range
<1> HIDE DEF R
<1>3. s \in Seq(R) /\ t \in Seq(R)
  <2>1. s \in [1..Len(s) -> R] /\ t \in [1..Len(t) -> R]
    BY <1>1, <1>2 DEF IsFunction
  <2> QED
    BY <1>1, <2>1
<1>4. /\ s \o t \in Seq(R) /\ Len(s \o t) = Len(s) + Len(t)
      /\ \A i \in 1..Len(s) + Len(t) : (s \o t)[i] = IF i <= Len(s) THEN s[i] ELSE t[i - Len(s)]
  BY <1>3, ConcatProperties
<1> DEFINE u == s \o t
           n == Len(s) + Len(t)
<1>5. u \in Seq(R) /\ Len(u) = n /\ n \in Nat
  BY <1>1, <1>4
<1>6. ASSUME NEW i \in 1..n PROVE IsEntry(u[i])
  <2>1. CASE i <= Len(s)
    <3>1. i \in 1..Len(s) /\ u[i] = s[i]
      BY <1>1, <1>4, <2>1
    <3> QED
      BY <3>1 DEF IsEntries
  <2>2. CASE ~(i <= Len(s))
    <3>1. i - Len(s) \in 1..Len(t) /\ u[i] = t[i - Len(s)]
      BY <1>1, <1>4, <2>2
    <3> QED
      BY <3>1 DEF IsEntries
  <2> QED
    BY <2>1, <2>2
<1> HIDE DEF u, n
<1>7. DOMAIN u = 1..n /\ IsFunction(u)
  BY <1>5 DEF IsFunction
<1>8. IsSeq(u)
  BY <1>5, <1>7, FunctionIsSeq
<1> QED
  BY <1>5, <1>6, <1>8 DEF IsEntries, u

\* What is made of each of some things that are entries.
LEMMA EntriesOf ==
  ASSUME NEW n \in Nat, NEW s, DOMAIN s = 1..n, IsFunction(s),
         \A i \in 1..n : IsEntry(s[i])
  PROVE  IsEntries(s)
BY FunctionIsSeq DEF IsEntries

\* The entries of a compilation database.
LEMMA CommandsAreEntries ==
  ASSUME NEW root, NEW commands, IsSeq(commands),
         \A i \in 1..Len(commands) : commands[i].filename \in Paths
  PROVE  IsEntries(CompDBEntries(root, commands))
<1> DEFINE N == Len(commands)
           all == [i \in DOMAIN commands |-> i]
           M == {i \in DOMAIN commands :
                   \A j \in 1..i - 1 : commands[j].filename /= commands[i].filename}
           first == Kept(all, M)
           s == CompDBEntries(root, commands)
<1>1. N \in Nat /\ DOMAIN commands = 1..N
  BY SeqIs
<1>2. all \in Seq(1..N)
  BY <1>1
<1> HIDE DEF all, M
<1>3. first \in Seq(1..N)
  BY <1>2, KeptMembers
<1>4. s = [k \in DOMAIN first |-> OfCommand(root, commands[first[k]])]
  BY DEF CompDBEntries, all, M
<1> HIDE DEF first, s
<1>5. Len(first) \in Nat /\ DOMAIN first = 1..Len(first) /\ \A k \in 1..Len(first) : first[k] \in 1..N
  BY <1>3
<1>6. DOMAIN s = 1..Len(first) /\ IsFunction(s)
  BY <1>4, <1>5 DEF IsFunction
<1>7. ASSUME NEW k \in 1..Len(first) PROVE IsEntry(s[k])
  <2>1. s[k] = OfCommand(root, commands[first[k]])
    BY <1>4, <1>5
  <2>2. first[k] \in 1..N
    BY <1>5
  <2>3. commands[first[k]].filename \in Paths
    BY <2>2
  <2>4. ASSUME NEW cmd, cmd.filename \in Paths PROVE IsEntry(OfCommand(root, cmd))
    BY <2>4 DEF IsEntry, OfCommand, Entry
  <2> QED
    BY <2>1, <2>3, <2>4
<1>8. IsEntries(s)
  BY <1>5, <1>6, <1>7, EntriesOf
<1> QED
  BY <1>8 DEF s

\* What a .ccls adds to an entry leaves its file.
LEMMA ExtendedIsEntry ==
  ASSUME NEW e, NEW args, IsEntry(e)
  PROVE  IsEntry(Extended(e, args))
BY DEF IsEntry, Extended

\* The sources of a listing.
LEMMA ListedAreEntries ==
  ASSUME NEW root, NEW names \in Seq(Paths), NEW dots
  PROVE  IsEntries(ListedEntries(root, names, dots))
<1> DEFINE s == ListedEntries(root, names, dots)
<1>1. Len(names) \in Nat /\ DOMAIN names = 1..Len(names)
      /\ \A k \in 1..Len(names) : names[k] \in Paths
  OBVIOUS
<1>2. s = [k \in DOMAIN names |->
             FromListing(root, names[k], getDotCcls(dots, root, names[k]))]
  BY DEF ListedEntries
<1> HIDE DEF s
<1>3. DOMAIN s = 1..Len(names) /\ IsFunction(s)
  BY <1>1, <1>2 DEF IsFunction
<1>4. ASSUME NEW path \in Paths, NEW args PROVE IsEntry(FromListing(root, path, args))
  BY DEF IsEntry, FromListing, Entry
<1>5. \A k \in 1..Len(names) : IsEntry(s[k])
  BY <1>1, <1>2, <1>4
<1> QED
  BY <1>1, <1>3, <1>5, EntriesOf DEF s

LEMMA UnseenAreFiles ==
  ASSUME NEW root, NEW entries, NEW dots
  PROVE  Unseen(root, entries, dots) \in Seq(Paths)
<1>1. Tree \in Seq(Paths)
  BY LayoutsAssumption
<1>2. getFilesInFolder(root) \in Seq(Paths)
  BY <1>1, KeptMembers DEF getFilesInFolder
<1> QED
  BY <1>2, KeptMembers DEF Unseen

\* A folder's fields after a change of two of them.
Redotted(f, dots, entries) == [f EXCEPT !.dot_ccls = dots, !.entries = entries]
Remapped(f, indexes, search) == [f EXCEPT !.path2entry_index = indexes, !.search = search]

LEMMA EntriesChanged ==
  ASSUME NEW e, NEW i, NEW d, NEW s, NEW e2, NEW d2
  PROVE  Redotted(FolderWith(e, i, d, s), d2, e2) = FolderWith(e2, i, d2, s)
<1> DEFINE f == FolderWith(e, i, d, s)
<1>1. [f EXCEPT !.dot_ccls = d2, !.entries = e2]
        = [[f EXCEPT !.dot_ccls = d2] EXCEPT !.entries = e2]
  OBVIOUS
<1>2. [f EXCEPT !.dot_ccls = d2] = FolderWith(e, i, d2, s)
  BY DEF FolderWith
<1>3. [FolderWith(e, i, d2, s) EXCEPT !.entries = e2] = FolderWith(e2, i, d2, s)
  BY DEF FolderWith
<1> QED
  BY <1>1, <1>2, <1>3, Zenon DEF Redotted

LEMMA IndexChanged ==
  ASSUME NEW e, NEW i, NEW d, NEW s, NEW i2, NEW s2
  PROVE  Remapped(FolderWith(e, i, d, s), i2, s2) = FolderWith(e, i2, d, s2)
<1> DEFINE f == FolderWith(e, i, d, s)
<1>1. [f EXCEPT !.path2entry_index = i2, !.search = s2]
        = [[f EXCEPT !.path2entry_index = i2] EXCEPT !.search = s2]
  OBVIOUS
<1>2. [f EXCEPT !.path2entry_index = i2] = FolderWith(e, i2, d, s)
  BY DEF FolderWith
<1>3. [FolderWith(e, i2, d, s) EXCEPT !.search = s2] = FolderWith(e, i2, d, s2)
  BY DEF FolderWith
<1> QED
  BY <1>1, <1>2, <1>3, Zenon DEF Remapped

\* Each step of loading makes a folder of a folder.
LEMMA DotCclsKeepFolder ==
  ASSUME NEW root, NEW folder, IsFolder(folder), NEW dots
  PROVE  IsFolder(WithDotCcls(root, folder, dots))
<1>1. PICK e, i, d, s : folder = FolderWith(e, i, d, s) /\ IsEntries(e)
  BY DEF IsFolder
<1> DEFINE more == [k \in DOMAIN folder.entries |->
                      Extended(folder.entries[k], getDotCcls(dots, root, folder.entries[k].filename))]
           listed == ListedEntries(root, Unseen(root, folder.entries, dots), dots)
           all == more \o listed
<1>2. WithDotCcls(root, folder, dots) = FolderWith(all, i, dots, s) /\ folder.entries = e
  <2>1. WithDotCcls(root, folder, dots) = Redotted(folder, dots, all)
    BY DEF WithDotCcls, Redotted
  <2> HIDE DEF all
  <2>2. Redotted(FolderWith(e, i, d, s), dots, all) = FolderWith(all, i, dots, s)
    BY EntriesChanged
  <2>3. folder = FolderWith(e, i, d, s)
    BY <1>1
  <2>4. folder.entries = e
    BY <2>3 DEF FolderWith
  <2> QED
    BY <2>1, <2>2, <2>3, <2>4, Zenon
<1>3. Len(e) \in Nat /\ DOMAIN e = 1..Len(e) /\ \A k \in 1..Len(e) : IsEntry(e[k])
  BY <1>1, SeqIs DEF IsEntries
<1>4. IsEntries(more)
  <2>1. DOMAIN more = 1..Len(e) /\ IsFunction(more)
    BY <1>2, <1>3 DEF IsFunction
  <2>2. \A k \in 1..Len(e) : IsEntry(more[k])
    BY <1>2, <1>3, ExtendedIsEntry
  <2> HIDE DEF more
  <2> QED
    BY <1>3, <2>1, <2>2, EntriesOf
<1>5. IsEntries(listed)
  BY UnseenAreFiles, ListedAreEntries
<1> HIDE DEF more, listed
<1>6. IsEntries(more \o listed)
  BY <1>4, <1>5, EntriesJoin
<1> QED
  BY <1>2, <1>6 DEF IsFolder

LEMMA CompDBKeepsFolder ==
  ASSUME NEW root, NEW folder, IsFolder(folder), NEW commands,
         commands /= NoCompDB =>
           IsSeq(commands) /\ \A i \in 1..Len(commands) : commands[i].filename \in Paths
  PROVE  IsFolder(FromCompDB(root, folder, commands))
<1>1. PICK e, i, d, s : folder = FolderWith(e, i, d, s) /\ IsEntries(e)
  BY DEF IsFolder
<1>2. CASE commands = NoCompDB
  <2>1. FromCompDB(root, folder, commands) = FolderWith(<<>>, i, d, s)
    BY <1>1, <1>2 DEF FromCompDB, FolderWith
  <2>2. IsEntries(<<>>)
    <3>1. 0 \in Nat /\ DOMAIN <<>> = 1..0 /\ IsFunction(<<>>)
      BY DEF IsFunction
    <3>2. \A k \in 1..0 : IsEntry(<<>>[k])
      OBVIOUS
    <3> QED
      BY <3>1, <3>2, EntriesOf
  <2> QED
    BY <2>1, <2>2 DEF IsFolder
<1>3. CASE commands /= NoCompDB
  <2> DEFINE s2 == s \cup UNION {SearchDirs(commands[k].args) : k \in DOMAIN commands}
             e2 == CompDBEntries(root, commands)
  <2>1. FromCompDB(root, folder, commands) = FolderWith(e2, i, d, s2)
    BY <1>1, <1>3 DEF FromCompDB, FolderWith
  <2>2. IsEntries(e2)
    BY <1>3, CommandsAreEntries
  <2> HIDE DEF e2, s2
  <2> QED
    BY <2>1, <2>2 DEF IsFolder
<1> QED
  BY <1>2, <1>3

LEMMA ReindexedKeepsFolder ==
  ASSUME NEW folder, IsFolder(folder)
  PROVE  IsFolder(Reindexed(folder))
<1>1. PICK e, i, d, s : folder = FolderWith(e, i, d, s) /\ IsEntries(e)
  BY DEF IsFolder
<1> DEFINE names == {folder.entries[k].filename : k \in DOMAIN folder.entries}
           i2 == [path \in names |-> CHOOSE k \in DOMAIN folder.entries :
                                        folder.entries[k].filename = path]
                   @@ folder.path2entry_index
           s2 == folder.search
                   \cup UNION {SearchDirs(folder.entries[k].args) : k \in DOMAIN folder.entries}
<1>2. Reindexed(folder) = FolderWith(e, i2, d, s2)
  <2>1. Reindexed(folder) = Remapped(folder, i2, s2)
    BY DEF Reindexed, Remapped
  <2> HIDE DEF i2, s2
  <2>2. Remapped(FolderWith(e, i, d, s), i2, s2) = FolderWith(e, i2, d, s2)
    BY IndexChanged
  <2> QED
    BY <1>1, <2>1, <2>2, Zenon
<1> HIDE DEF i2, s2
<1> QED
  BY <1>1, <1>2 DEF IsFolder

\* A folder that is loaded for the first time.
LEMMA LoadIsFolder ==
  ASSUME NEW root \in Range(Folders), NEW known \in Range(Layouts), NEW folder,
         IsFolder(folder)
  PROVE  IsFolder(Reindexed(loadDirectory(root, folder, known)))
<1> DEFINE commands == known.compdb[root]
           first == FromCompDB(root, folder, commands)
<1>1. commands /= NoCompDB =>
        IsSeq(commands) /\ \A i \in 1..Len(commands) : commands[i].filename \in Paths
  <2> SUFFICES ASSUME commands /= NoCompDB
               PROVE  IsSeq(commands) /\ \A i \in 1..Len(commands) : commands[i].filename \in Paths
    OBVIOUS
  <2>1. IsSeq(commands) /\ \A cmd \in Range(commands) : cmd.filename \in Paths
    BY LayoutsAssumption DEF IsSeq
  <2> HIDE DEF commands
  <2>2. DOMAIN commands = 1..Len(commands)
    BY <2>1, SeqIs
  <2>3. \A i \in 1..Len(commands) : commands[i] \in Range(commands)
    BY <2>2 DEF Range
  <2> QED
    BY <2>1, <2>3
<1>2. IsFolder(first)
  BY <1>1, CompDBKeepsFolder
<1> HIDE DEF first
<1>3. IsFolder(loadDirectory(root, folder, known))
  BY <1>2, DotCclsKeepFolder DEF loadDirectory, loadDirectoryListing, first
<1> QED
  BY <1>3, ReindexedKeepsFolder

----------------------------------------------------------------------------
(* The requests for a project *)

\* An order of the folders has each of them.
LEMMA OrderHasAll ==
  ASSUME NEW D, IsFiniteSet(D), NEW order \in SetToSeqs(D)
  PROVE  /\ order \in [1..Cardinality(D) -> D] /\ Cardinality(D) \in Nat
         /\ \A root \in D : \E k \in 1..Cardinality(D) : order[k] = root
<1> DEFINE n == Cardinality(D)
<1>1. n \in Nat
  BY FS_CardinalityType
<1>2. order \in [1..n -> D] /\ \A i, j \in 1..n : i /= j => order[i] /= order[j]
  BY DEF SetToSeqs
<1> HIDE DEF n
<1>3. IsFiniteSet(1..n) /\ Cardinality(1..n) = n
  <2>1. 1 \in Int /\ n \in Int
    BY <1>1
  <2>2. IsFiniteSet(1..n) /\ Cardinality(1..n) = IF 1 > n THEN 0 ELSE n - 1 + 1
    BY <2>1, FS_Interval
  <2> QED
    BY <1>1, <2>2
<1>4. order \in Injection(1..n, D)
  BY <1>2 DEF Injection, IsInjective
<1>5. order \in Surjection(1..n, D)
  BY <1>3, <1>4, FS_Injection DEF n
<1>6. \A root \in D : \E k \in 1..n : order[k] = root
  BY <1>5 DEF Surjection
<1> QED
  BY <1>1, <1>2, <1>6 DEF n

\* The folders of a process: finitely many, with entries.
AreFolders(folders) ==
  /\ IsFiniteSet(DOMAIN folders)
  /\ \A root \in DOMAIN folders : IsEntries(folders[root].entries)

\* The entries of all folders, one folder after the other.
AllEntries(order, folders) == FlattenSeq([k \in DOMAIN order |-> folders[order[k]].entries])
EntriesIn(folders) == UNION {Range(folders[root].entries) : root \in DOMAIN folders}

LEMMA AllEntriesMembers ==
  ASSUME NEW folders, AreFolders(folders), NEW order \in SetToSeqs(DOMAIN folders)
  PROVE  /\ AllEntries(order, folders) \in Seq(EntriesIn(folders))
         /\ \A e \in EntriesIn(folders) : Among(e, AllEntries(order, folders))
<1> DEFINE D == DOMAIN folders
           n == Cardinality(D)
           S == EntriesIn(folders)
           t == [k \in DOMAIN order |-> folders[order[k]].entries]
<1>1. /\ order \in [1..n -> D] /\ n \in Nat
      /\ \A root \in D : \E k \in 1..n : order[k] = root
  BY OrderHasAll DEF AreFolders
<1>2. ASSUME NEW root \in D PROVE folders[root].entries \in Seq(S)
  <2> DEFINE s == folders[root].entries
             R == Range(s)
  <2>1. s \in Seq(R)
    BY DEF AreFolders, IsEntries, IsSeq
  <2>2. R \subseteq S
    BY DEF EntriesIn
  <2> HIDE DEF R, S, s
  <2>3. s \in Seq(S)
    BY <2>1, <2>2
  <2> QED
    BY <2>3 DEF s
<1>3. AllEntries(order, folders) = Joined(t)
  BY DEF AllEntries, FlattenSeq, Joined
<1>4. DOMAIN t = 1..n /\ \A k \in 1..n : t[k] = folders[order[k]].entries
  BY <1>1
<1> DEFINE T == Seq(S)
<1>5. \A k \in 1..n : t[k] \in T
  BY <1>1, <1>2, <1>4
<1>6. t = [k \in 1..n |-> t[k]]
  BY <1>1
<1> HIDE DEF T, t, S, n
<1>7. t \in Seq(T) /\ Len(t) = n
  <2>1. t \in [1..n -> T]
    BY <1>5, <1>6, Zenon
  <2> QED
    BY <1>1, <2>1
<1>8. Joined(t) \in Seq(S)
  BY <1>7, JoinedType DEF T
<1>9. ASSUME NEW e \in S PROVE Among(e, Joined(t))
  <2>1. PICK root \in D : e \in Range(folders[root].entries)
    BY DEF S, EntriesIn
  <2>2. PICK k \in 1..n : order[k] = root
    BY <1>1
  <2> DEFINE s == folders[root].entries
  <2>3. IsSeq(s)
    BY DEF AreFolders, IsEntries
  <2>4. DOMAIN s = 1..Len(s)
    BY <2>3, SeqIs
  <2>5. Among(e, s)
    BY <2>1, <2>4 DEF Among, Range
  <2>6. t[k] = s
    BY <1>4, <2>2
  <2> HIDE DEF s
  <2>7. \E j \in 1..Len(t) : Among(e, t[j])
    BY <1>7, <2>5, <2>6
  <2> QED
    BY <1>7, <2>7, JoinedMembers DEF T
<1> QED
  BY <1>3, <1>8, <1>9 DEF S

\* The queue that Project::index leaves: of each entry that matches a request, and
\* the dummy behind them.
IsProjectQueue(q, n) ==
  /\ n \in Nat /\ IsSeq(q) /\ Len(q) = n + 1
  /\ q[n + 1].path = NoPath
  /\ \A i \in 1..n : q[i].path \in Paths /\ matches(q[i].path)
  /\ \A i \in 1..n + 1 : q[i].must_exist = FALSE /\ q[i].id = 0 /\ q[i].mode = "Background"

LEMMA ProjectRequests ==
  ASSUME NEW folders, AreFolders(folders), NEW order \in SetToSeqs(DOMAIN folders)
  PROVE  \E n : LET q == IndexRequests(order, folders, {}, 0)
                IN /\ IsProjectQueue(q, n)
                   /\ \A e \in EntriesIn(folders) :
                        matches(e.filename) => \E i \in 1..n : q[i].path = e.filename
<1> DEFINE all == AllEntries(order, folders)
           M == {e \in Range(all) : matches(e.filename)}
           chosen == Kept(all, M)
           S == EntriesIn(folders)
           q == IndexRequests(order, folders, {}, 0)
           n == Len(chosen)
           Of(e) == Request(e.filename, RequestArgs(e), "Background", FALSE, 0)
           s == [k \in DOMAIN chosen |-> Of(chosen[k])]
           dummy == Request(NoPath, <<>>, "Background", FALSE, 0)
<1>1. q = Append(s, dummy)
  BY DEF IndexRequests, AllEntries
<1>2. all \in Seq(S) /\ \A e \in S : Among(e, all)
  BY AllEntriesMembers
<1>3. \A e \in S : e.filename \in Paths
  <2> SUFFICES ASSUME NEW root \in DOMAIN folders, NEW e \in Range(folders[root].entries)
               PROVE  e.filename \in Paths
    BY DEF EntriesIn
  <2> DEFINE l == folders[root].entries
  <2>1. IsSeq(l) /\ \A i \in 1..Len(l) : IsEntry(l[i])
    BY DEF AreFolders, IsEntries
  <2>2. DOMAIN l = 1..Len(l)
    BY <2>1, SeqIs
  <2> QED
    BY <2>1, <2>2 DEF Range, IsEntry
<1>4. \A e : e \in M <=> e \in Range(all) /\ matches(e.filename)
  OBVIOUS
<1> HIDE DEF all, M, S
<1>5. /\ chosen \in Seq(S)
      /\ \A e : Among(e, chosen) <=> e \in M /\ Among(e, all)
  BY <1>2, KeptMembers
<1> HIDE DEF chosen
<1>6. n \in Nat /\ DOMAIN chosen = 1..n /\ \A k \in 1..n : chosen[k] \in S
  BY <1>5
<1>7. \A k \in 1..n : matches(chosen[k].filename)
  BY <1>4, <1>5 DEF Among
<1>8. DOMAIN s = 1..n /\ IsFunction(s) /\ \A k \in 1..n : s[k] = Of(chosen[k])
  BY <1>6 DEF IsFunction
<1> HIDE DEF n, s
<1>9. IsSeq(s) /\ Len(s) = n
  BY <1>6, <1>8, FunctionIsSeq
<1>10. /\ IsSeq(q) /\ Len(q) = n + 1 /\ q[n + 1] = dummy
       /\ \A i \in 1..n : q[i] = s[i]
  <2> DEFINE R == Range(s) \cup {dummy}
  <2>1. DOMAIN s = 1..n /\ \A i \in 1..n : s[i] \in R
    BY <1>8 DEF Range
  <2>2. dummy \in R
    OBVIOUS
  <2> HIDE DEF R, dummy, q
  <2>3. s \in [1..n -> R]
    BY <1>8, <2>1 DEF IsFunction
  <2>4. s \in Seq(R) /\ Len(s) = n
    BY <1>6, <2>3
  <2>5. /\ Append(s, dummy) \in Seq(R) /\ Len(Append(s, dummy)) = n + 1
        /\ Append(s, dummy)[n + 1] = dummy
        /\ \A i \in 1..n : Append(s, dummy)[i] = s[i]
    BY <2>2, <2>4, AppendProperties
  <2>6. q \in Seq(R) /\ Len(q) = n + 1
    BY <1>1, <2>5
  <2>7. DOMAIN q = 1..n + 1 /\ IsFunction(q) /\ n + 1 \in Nat
    BY <1>6, <2>6 DEF IsFunction
  <2>8. IsSeq(q)
    BY <2>7, FunctionIsSeq
  <2> QED
    BY <1>1, <2>5, <2>8
<1>11. \A e : /\ Of(e).path = e.filename /\ Of(e).must_exist = FALSE /\ Of(e).id = 0
              /\ Of(e).mode = "Background"
  BY DEF Request
<1>12. dummy.path = NoPath /\ dummy.must_exist = FALSE /\ dummy.id = 0 /\ dummy.mode = "Background"
  BY DEF Request
<1> HIDE DEF Of, dummy, q
<1>13. \A i \in 1..n + 1 : i \in 1..n \/ i = n + 1
  BY <1>6
<1>14. IsProjectQueue(q, n)
  BY <1>3, <1>6, <1>7, <1>8, <1>10, <1>11, <1>12, <1>13 DEF IsProjectQueue
<1>15. ASSUME NEW e \in S, matches(e.filename) PROVE \E i \in 1..n : q[i].path = e.filename
  <2>1. Among(e, all)
    BY <1>2
  <2>2. e \in Range(all)
    <3>1. DOMAIN all = 1..Len(all)
      BY <1>2
    <3> QED
      BY <2>1, <3>1 DEF Among, Range
  <2>3. Among(e, chosen)
    BY <1>4, <1>5, <1>15, <2>1, <2>2
  <2>4. PICK i \in 1..n : chosen[i] = e
    BY <2>3 DEF Among, n
  <2> QED
    BY <1>8, <1>10, <1>11, <2>4
<1> QED
  BY <1>14, <1>15 DEF S, q

\* The members of a sequence are finitely many.
LEMMA RangeIsFinite ==
  ASSUME NEW S, NEW s \in Seq(S)
  PROVE  IsFiniteSet(Range(s)) /\ Range(s) \subseteq S
<1>1. DOMAIN s = 1..Len(s) /\ Len(s) \in Nat /\ \A i \in 1..Len(s) : s[i] \in S
  OBVIOUS
<1>2. IsFiniteSet(1..Len(s))
  BY <1>1, FS_Interval
<1>3. s \in [1..Len(s) -> Range(s)]
  <2> DEFINE R == Range(s)
  <2>1. \A i \in 1..Len(s) : s[i] \in R
    BY <1>1 DEF Range
  <2>2. s = [i \in 1..Len(s) |-> s[i]]
    OBVIOUS
  <2> HIDE DEF R
  <2>3. s \in [1..Len(s) -> R]
    BY <2>1, <2>2, Zenon
  <2> QED
    BY <2>3 DEF R
<1>4. \A x \in Range(s) : \E i \in 1..Len(s) : s[i] = x
  BY <1>1 DEF Range
<1>5. s \in Surjection(1..Len(s), Range(s))
  BY <1>3, <1>4 DEF Surjection
<1>6. IsFiniteSet(Range(s))
  BY <1>2, <1>5, FS_Surjection
<1> QED
  BY <1>1, <1>6 DEF Range

\* What the first load of some folders makes of them.
LEMMA ReadAreFolders ==
  ASSUME NEW roots \in Seq(Range(Folders)), layout' \in 1..Len(Layouts)
  PROVE  DOMAIN Read(roots, <<>>) = Range(roots) /\ AreFolders(Read(roots, <<>>))
<1> DEFINE f == Read(roots, <<>>)
           known == Layouts[layout']
<1>1. IsFiniteSet(Range(roots)) /\ Range(roots) \subseteq Range(Folders)
  BY RangeIsFinite
<1>2. DOMAIN <<>> = {}
  OBVIOUS
<1>3. DOMAIN f = Range(roots) /\ \A root \in Range(roots) : f[root] = load(root, <<>>, known)
  BY <1>2 DEF Read
<1>4. known \in Range(Layouts)
  <2>1. DOMAIN Layouts = 1..Len(Layouts)
    BY LayoutsAssumption
  <2> QED
    BY <2>1 DEF Range
<1>5. IsFolder(NewFolder)
  <2>1. NewFolder = FolderWith(<<>>, <<>>, <<>>, {})
    BY DEF NewFolder, FolderWith
  <2>2. IsSeq(<<>>) /\ Len(<<>>) = 0
    BY DEF IsSeq
  <2>3. IsEntries(<<>>)
    BY <2>2 DEF IsEntries
  <2> QED
    BY <2>1, <2>3 DEF IsFolder
<1> HIDE DEF known, f
<1>6. ASSUME NEW root \in Range(roots) PROVE IsFolder(f[root])
  <2>1. FolderOf(root, <<>>) = NewFolder
    BY <1>2 DEF FolderOf
  <2>2. f[root] = Reindexed(loadDirectory(root, NewFolder, known))
    BY <1>3, <2>1 DEF load
  <2> QED
    BY <1>1, <1>4, <1>5, <2>2, LoadIsFolder
<1>7. ASSUME NEW root \in Range(roots) PROVE IsEntries(f[root].entries)
  <2>1. PICK e, i, d, s : f[root] = FolderWith(e, i, d, s) /\ IsEntries(e)
    BY <1>6 DEF IsFolder
  <2> QED
    BY <2>1 DEF FolderWith
<1> QED
  BY <1>1, <1>3, <1>7 DEF AreFolders, f

\* std::sort moves the folders, and neither adds nor drops one.
LEMMA SortingKeepsFolders ==
  ASSUME NEW S, NEW roots \in Seq(S), NEW sorted \in Sortings(roots)
  PROVE  sorted \in Seq(S) /\ Range(sorted) = Range(roots)
<1> DEFINE n == Len(roots)
<1>1. DOMAIN roots = 1..n /\ n \in Nat /\ \A i \in 1..n : roots[i] \in S
  OBVIOUS
<1>2. PICK p \in Bijection(1..n, 1..n) : sorted = [i \in 1..n |-> roots[p[i]]]
  BY <1>1 DEF Sortings
<1> HIDE DEF n
<1>3. p \in [1..n -> 1..n] /\ \A j \in 1..n : \E i \in 1..n : p[i] = j
  BY <1>2 DEF Bijection, Injection, Surjection
<1>4. DOMAIN sorted = 1..n /\ \A i \in 1..n : sorted[i] = roots[p[i]] /\ p[i] \in 1..n
  BY <1>2, <1>3
<1>5. sorted \in Seq(S)
  BY <1>1, <1>2, <1>3
<1>6. ASSUME NEW x PROVE x \in Range(sorted) <=> x \in Range(roots)
  <2>1. x \in Range(sorted) <=> \E i \in 1..n : roots[p[i]] = x
    BY <1>4 DEF Range
  <2>2. x \in Range(roots) <=> \E j \in 1..n : roots[j] = x
    BY <1>1 DEF Range
  <2> QED
    BY <1>3, <2>1, <2>2
<1> QED
  BY <1>5, <1>6
----------------------------------------------------------------------------
(* From the start to the end of a run without a client *)

\* How far the main thread is.
PhaseInv ==
  /\ step \in 0..5
  /\ phase = "down" => mode = "none" /\ step = 0
  /\ phase = "starting" => step \in 0..4
  /\ phase = "serving" \/ (phase = "quitting" /\ mode /= "server") => step = 5
  /\ step < 3 => indexer.pc = "off"

\* The root has its directories in the cache, and nothing lies elsewhere.
RootReady ==
  /\ workspaceFolders \in Seq({ProjectPath})
  /\ HierarchicalPath \/ {"in", "out"} \X {ProjectPath} \subseteq dirs
  /\ AreFolders(root2folder)

Busy == indexer.pc \in {"parse", "seen", "store", "finish"}

\* The requests that are left, with that of the indexer and without the dummy.
Left == (IF index_request = <<>> THEN 0 ELSE Len(index_request) - 1)
          + (IF Busy THEN 1 ELSE 0)

QueueInv ==
  /\ index_request = <<>> \/ IsProjectQueue(index_request, Len(index_request) - 1)
  /\ enqueued = completed + Left
  /\ phase = "quitting" => completed = enqueued

\* What the indexer has in hand.
HandInv ==
  /\ Busy => indexer.request.path \in Paths /\ indexer.request.id = 0
  /\ indexer.pc = "store" =>
       /\ indexer.key = getCachePath(indexer.request.path)
       /\ indexer.time = stamp[indexer.request.path]

\* A file of the project waits, is in the indexer's hands, or is done.
Waiting(path) == \E i \in 1..Len(index_request) : index_request[i].path = path
UnderWay(path) == indexer.pc \in {"parse", "seen", "store"} /\ indexer.request.path = path
Done(path) ==
  path \in failed \/ (stamp[path] > 0 /\ rawCacheLoad(path).time >= stamp[path])

FilesTaken ==
  \A path \in Paths : Listed(path) /\ matches(path) =>
    Waiting(path) \/ UnderWay(path) \/ Done(path)

NotYet == index_request = <<>> /\ ~Busy /\ enqueued = completed

\* Nobody asks for anything but the project.
ProjectOnly ==
  /\ open = {} /\ answers = <<>>
  /\ stamp \in [Paths -> Nat] /\ completed \in Nat
  /\ step >= 2 => RootReady
  /\ step < 5 => NotYet
  /\ step = 5 => QueueInv /\ HandInv /\ FilesTaken

\* The result goes out before there is an indexer.
ResultInv == step > 0 => answers /= <<>> /\ answers[1] = "result" /\ IsSeq(answers)

RunInv ==
  /\ CacheInv /\ PhaseInv /\ layout \in Nat \ {0}
  /\ mode /= "server" => ProjectOnly
  /\ mode = "server" => ResultInv /\ (step = 0 => answers = <<>>)

\* The steps of do_initialize, one by one.
LEMMA StepsInOrder ==
  ASSUME PhaseInv
  PROVE  /\ InitializeStep("reply") => step = 0
         /\ InitializeStep("load") => step = 1
         /\ InitializeStep("spawn") => step = 2
         /\ InitializeStep("rescan") => step = 3
         /\ InitializeStep("index") => step = 4
         /\ \A name : InitializeStep(name) =>
              /\ step' = step + 1 /\ step \in 0..4 /\ mode' = mode
              /\ phase' = IF step' < 5 THEN "starting" ELSE "serving"
<1>1. phase = "starting" => step = 0 \/ step = 1 \/ step = 2 \/ step = 3 \/ step = 4
  BY DEF PhaseInv
<1>2. /\ Len(InitializeSteps) = 5
      /\ InitializeSteps[1] = "reply" /\ InitializeSteps[2] = "load"
      /\ InitializeSteps[3] = "spawn" /\ InitializeSteps[4] = "rescan"
      /\ InitializeSteps[5] = "index"
  BY DEF InitializeSteps
<1>3. \A name : InitializeStep(name) =>
        /\ phase = "starting" /\ InitializeSteps[step + 1] = name /\ step' = step + 1
        /\ mode' = mode /\ phase' = IF step' < 5 THEN "starting" ELSE "serving"
  BY <1>2 DEF InitializeStep
<1> QED
  BY <1>1, <1>2, <1>3

LEMMA FreshPhase == Fresh => PhaseInv'
BY DEF Fresh, PhaseInv, NoJob

Starting ==
  \/ InitializeReply \/ InitializeLoad \/ InitializeSpawn \/ InitializeRescan
  \/ InitializeIndex

Messages ==
  \/ \E path \in Paths : didOpen(path) \/ didSave(path) \/ didChangeWatchedFiles(path)
  \/ didChangeConfiguration
  \/ \E i \in DOMAIN Folders : didChangeWorkspaceFolders(Folders[i])

\* The indexer does nothing before it is there.
LEMMA IndexerIsOn ==
  ASSUME Indexer
  PROVE  /\ indexer.pc /= "off"
         /\ UNCHANGED <<phase, mode, step, open, workspaceFolders, root2folder, files, dirs>>
BY DEF Indexer, IndexerTake, IndexerIdle, IndexerWake, ParseFails, Parse, SeenFile, Store,
       Finish, Unmoved, mainVars, worldVars, sourceVars

LEMMA MessageInServer ==
  ASSUME Messages
  PROVE  /\ phase = "serving" /\ mode = "server"
         /\ UNCHANGED <<phase, mode, step, indexer, answers, stamp, failed>>
BY DEF Messages, didOpen, didSave, didChangeWatchedFiles, didChangeConfiguration,
       didChangeWorkspaceFolders, Handler, Message, IsServing, vfsVars

\* The phases follow one another.
LEMMA PhaseKept ==
  ASSUME PhaseInv, [NextServer]_serverVars
  PROVE  PhaseInv'
<1>1. CASE UNCHANGED serverVars
  BY <1>1 DEF serverVars, mainVars, PhaseInv
<1>2. CASE Starting
  <2>1. UNCHANGED indexer \/ InitializeSpawn
    BY <1>2 DEF Starting, InitializeReply, InitializeLoad, InitializeRescan, InitializeIndex
  <2>2. \E name : InitializeStep(name)
    BY <1>2 DEF Starting, InitializeReply, InitializeLoad, InitializeRescan, InitializeIndex,
                InitializeSpawn
  <2>3. /\ step' = step + 1 /\ step \in 0..4
        /\ phase' = IF step' < 5 THEN "starting" ELSE "serving"
    BY <2>2, StepsInOrder
  <2>4. InitializeSpawn => step = 2
    BY StepsInOrder DEF InitializeSpawn
  <2> QED
    BY <2>1, <2>3, <2>4 DEF PhaseInv
<1>3. CASE Messages
  BY <1>3, MessageInServer DEF PhaseInv
<1>4. CASE Indexer
  BY <1>4, IndexerIsOn DEF PhaseInv
<1>5. CASE Scan \/ ProgressReport \/ \E path \in Written : Write(path)
  BY <1>5 DEF Scan, ProgressReport, Write, mainVars, PhaseInv
<1>6. CASE Start
  BY <1>6 DEF Start, PhaseInv
<1>7. CASE exit \/ StandaloneDone
  BY <1>7 DEF exit, StandaloneDone, Quit, PhaseInv
<1>8. CASE Down \/ Crash
  BY <1>8, FreshPhase DEF Down, Crash
<1> QED
  BY <1>1, <1>2, <1>3, <1>4, <1>5, <1>6, <1>7, <1>8 DEF NextServer, Starting, Messages

\* One answer more.
LEMMA OneMore ==
  ASSUME NEW s, IsSeq(s), NEW x
  PROVE  IsSeq(Append(s, x)) /\ Append(s, x) /= <<>> /\ (s /= <<>> => Append(s, x)[1] = s[1])
         /\ (s = <<>> => Append(s, x)[1] = x)
<1> DEFINE R == Range(s) \cup {x}
           t == Append(s, x)
<1>1. Len(s) \in Nat /\ DOMAIN s = 1..Len(s) /\ IsFunction(s)
  BY SeqIs
<1>2. \A i \in 1..Len(s) : s[i] \in R
  BY <1>1 DEF Range
<1>3. x \in R
  OBVIOUS
<1> HIDE DEF R
<1>4. s \in Seq(R)
  <2>1. s \in [1..Len(s) -> R]
    BY <1>1, <1>2 DEF IsFunction
  <2> QED
    BY <1>1, <2>1
<1>5. /\ t \in Seq(R) /\ Len(t) = Len(s) + 1 /\ t[Len(s) + 1] = x
      /\ \A i \in 1..Len(s) : t[i] = s[i]
  BY <1>3, <1>4, AppendProperties
<1> HIDE DEF t
<1>6. DOMAIN t = 1..Len(s) + 1 /\ IsFunction(t)
  BY <1>1, <1>5 DEF IsFunction
<1>7. IsSeq(t)
  BY <1>1, <1>6, FunctionIsSeq
<1>8. t /= <<>>
  <2>1. Len(<<>>) = 0
    OBVIOUS
  <2> QED
    BY <1>1, <1>5, <2>1
<1>9. s /= <<>> => t[1] = s[1]
  <2>1. s /= <<>> => Len(s) /= 0
    BY <1>4
  <2> QED
    BY <1>1, <1>5, <2>1
<1>10. s = <<>> => t[1] = x
  <2>1. s = <<>> => Len(s) = 0
    OBVIOUS
  <2> QED
    BY <1>5, <2>1
<1> QED
  BY <1>7, <1>8, <1>9, <1>10 DEF t

\* The result comes first, and what fails later behind it.
LEMMA ServerKept ==
  ASSUME RunInv, [NextServer]_serverVars, mode' = "server"
  PROVE  ResultInv' /\ (step' = 0 => answers' = <<>>)
<1>1. PhaseInv /\ (mode /= "server" => ProjectOnly)
      /\ (mode = "server" => ResultInv /\ (step = 0 => answers = <<>>))
  BY DEF RunInv
<1>2. ASSUME mode = "server", UNCHANGED <<step, answers>>
      PROVE  ResultInv' /\ (step' = 0 => answers' = <<>>)
  BY <1>1, <1>2 DEF ResultInv, IsSeq
<1>3. CASE UNCHANGED serverVars
  BY <1>2, <1>3 DEF serverVars, mainVars
<1>4. CASE Starting
  <2>1. PICK name : InitializeStep(name)
    BY <1>4 DEF Starting, InitializeReply, InitializeLoad, InitializeRescan, InitializeIndex,
                InitializeSpawn
  <2>2. step' = step + 1 /\ step \in 0..4 /\ mode = "server"
    BY <1>1, <2>1, StepsInOrder
  <2>3. CASE InitializeReply
    <3>1. step = 0
      BY <1>1, <2>3, StepsInOrder DEF InitializeReply
    <3>2. answers = <<>> /\ answers' = Append(<<>>, "result")
      BY <1>1, <2>2, <2>3, <3>1 DEF InitializeReply, reply
    <3>3. IsSeq(<<>>)
      BY DEF IsSeq
    <3>4. /\ IsSeq(Append(<<>>, "result")) /\ Append(<<>>, "result") /= <<>>
          /\ Append(<<>>, "result")[1] = "result"
      BY <3>3, OneMore
    <3>5. answers' /= <<>> /\ answers'[1] = "result" /\ IsSeq(answers')
      BY <3>2, <3>4, Zenon
    <3>6. step' /= 0
      BY <2>2
    <3> QED
      BY <3>5, <3>6 DEF ResultInv
  <2>4. CASE ~InitializeReply
    <3>1. answers' = answers
      BY <1>4, <2>4 DEF Starting, InitializeLoad, InitializeRescan, InitializeIndex,
                        InitializeSpawn
    <3>2. step /= 0
      BY <1>1, <1>4, <2>4, StepsInOrder
      DEF Starting, InitializeLoad, InitializeRescan, InitializeIndex, InitializeSpawn
    <3> QED
      BY <1>1, <2>2, <3>1, <3>2 DEF ResultInv, IsSeq
  <2> QED
    BY <2>3, <2>4
<1>5. CASE Messages
  BY <1>2, <1>5, MessageInServer
<1>6. CASE Indexer
  <2>1. mode = "server" /\ step' = step /\ step \in 1..5
    BY <1>1, <1>6, IndexerIsOn DEF PhaseInv
  <2>2. answers' = answers \/ answers' = Append(answers, "error")
    BY <1>6 DEF Indexer, IndexerTake, IndexerIdle, IndexerWake, ParseFails, Parse, SeenFile, Store,
                Finish, reply
  <2>3. ResultInv /\ IsSeq(answers) /\ answers /= <<>> /\ answers[1] = "result"
    BY <1>1, <2>1 DEF ResultInv
  <2>4. CASE answers' = answers
    BY <1>2, <2>1, <2>4
  <2>5. CASE answers' = Append(answers, "error")
    BY <2>1, <2>3, <2>5, OneMore DEF ResultInv
  <2> QED
    BY <2>2, <2>4, <2>5
<1>7. CASE Scan \/ ProgressReport \/ \E path \in Written : Write(path)
  BY <1>2, <1>7 DEF Scan, ProgressReport, Write, mainVars
<1>8. CASE Start
  <2>1. mode = "none" /\ step' = 0 /\ answers' = answers
    BY <1>1, <1>8 DEF Start, PhaseInv
  <2> QED
    BY <1>1, <2>1 DEF ProjectOnly, ResultInv
<1>9. CASE exit \/ StandaloneDone
  BY <1>2, <1>9 DEF exit, StandaloneDone, Quit
<1>10. CASE Down \/ Crash
  BY <1>10 DEF Down, Crash, Fresh
<1> QED
  BY <1>3, <1>4, <1>5, <1>6, <1>7, <1>8, <1>9, <1>10 DEF NextServer, Starting, Messages

\* Where an index lies depends on the folders only.
LEMMA CacheSame ==
  ASSUME UNCHANGED <<workspaceFolders, content, blob>>, NEW p
  PROVE  getCachePath(p)' = getCachePath(p) /\ rawCacheLoad(p)' = rawCacheLoad(p)
<1>1. CacheDir(p)' = CacheDir(p)
  BY DEF CacheDir
<1>2. getCachePath(p)' = getCachePath(p)
  BY <1>1 DEF getCachePath
<1>3. rawCacheLoad(p)' = rawCacheLoad(p)
  BY <1>2 DEF rawCacheLoad, deserialize
<1> QED
  BY <1>2, <1>3

\* There is a directory for each file.
LEMMA CanAlways ==
  ASSUME RootReady, NEW p
  PROVE  CanStore(p)
<1> DEFINE n == Len(workspaceFolders)
           inside == {i \in DOMAIN workspaceFolders : Under(p, workspaceFolders[i])}
<1>1. SUFFICES ASSUME ~HierarchicalPath PROVE CanStore(p)
  BY DEF CanStore
<1>2. DOMAIN workspaceFolders = 1..n /\ n \in Nat
      /\ \A i \in 1..n : workspaceFolders[i] = ProjectPath
  BY DEF RootReady
<1>3. <<"in", ProjectPath>> \in dirs /\ <<"out", ProjectPath>> \in dirs
  BY <1>1 DEF RootReady
<1>4. CacheDir(p) = IF inside /= {} THEN <<"in", workspaceFolders[Min(inside)]>>
                    ELSE <<"out", ProjectPath>>
  BY <1>1 DEF CacheDir
<1>5. ASSUME inside /= {} PROVE Min(inside) \in 1..n
  <2>1. inside \in SUBSET Nat
    BY <1>2
  <2> HIDE DEF inside
  <2>2. \E i \in inside : \A j \in inside : i <= j
    BY <1>5, <2>1, LeastElement
  <2>3. Min(inside) \in inside
    BY <2>2 DEF Min
  <2> QED
    BY <1>2, <2>3 DEF inside
<1> HIDE DEF inside
<1>6. CacheDir(p) \in dirs
  BY <1>2, <1>3, <1>4, <1>5
<1> QED
  BY <1>6 DEF CanStore, getCachePath

\* A run that starts or ends.
LEMMA FreshProject == Fresh => ProjectOnly'
<1> SUFFICES ASSUME Fresh PROVE ProjectOnly'
  OBVIOUS
<1>1. stamp' \in [Paths -> Nat]
  BY DEF Fresh
<1>2. indexer'.pc = "off"
  BY DEF Fresh, NoJob
<1>3. NotYet'
  BY <1>2 DEF Fresh, NotYet, Busy
<1> QED
  BY <1>1, <1>3 DEF Fresh, ProjectOnly

\* A step that leaves the run alone.
LEMMA ProjectSame ==
  ASSUME ProjectOnly,
         UNCHANGED <<open, answers, stamp, failed, completed, enqueued, step,
                     workspaceFolders, root2folder, dirs, index_request, indexer, content,
                     blob>>,
         phase' = "quitting" => phase = "quitting" \/ completed = enqueued
  PROVE  ProjectOnly'
<1>1. RootReady => RootReady'
  BY DEF RootReady, AreFolders, IsEntries, IsSeq
<1>2. NotYet => NotYet'
  BY DEF NotYet, Busy
<1>3. QueueInv => QueueInv'
  BY DEF QueueInv, Left, Busy
<1>4. HandInv => HandInv'
  <2>1. \A p : getCachePath(p)' = getCachePath(p)
    BY CacheSame
  <2> QED
    BY <2>1 DEF HandInv, Busy
<1>5. FilesTaken => FilesTaken'
  <2>1. \A p : Done(p) => Done(p)'
    BY CacheSame DEF Done
  <2>2. \A p : (Waiting(p) => Waiting(p)') /\ (UnderWay(p) => UnderWay(p)')
    BY DEF Waiting, UnderWay
  <2>3. \A p : Listed(p)' = Listed(p)
    BY DEF Listed
  <2> QED
    BY <2>1, <2>2, <2>3 DEF FilesTaken
<1> QED
  BY <1>1, <1>2, <1>3, <1>4, <1>5 DEF ProjectOnly

\* The folders are loaded.
LEMMA ProjectLoaded ==
  ASSUME RunInv, InitializeLoad, mode /= "server"
  PROVE  ProjectOnly'
<1>1. PhaseInv /\ ProjectOnly /\ layout \in Nat \ {0}
  BY DEF RunInv
<1>2. step = 1 /\ step' = 2
  BY <1>1, StepsInOrder DEF InitializeLoad
<1>3. UNCHANGED <<open, answers, stamp, failed, completed, enqueued, index_request, indexer>>
  BY DEF InitializeLoad, InitializeStep, progressVars, stats, vfsVars
<1>4. layout' \in 1..Len(Layouts)
  <2>1. layout' \in layout..Len(Layouts)
    BY DEF InitializeLoad
  <2>2. Len(Layouts) \in Nat
    BY LayoutsAssumption
  <2> QED
    BY <1>1, <2>1, <2>2
<1>5. workspaceFolders' \in Sortings(<<ProjectPath>>)
  BY DEF InitializeLoad
<1>6. <<ProjectPath>> \in Seq({ProjectPath}) /\ Range(<<ProjectPath>>) = {ProjectPath}
  BY DEF Range
<1>7. workspaceFolders' \in Seq({ProjectPath}) /\ Range(workspaceFolders') = {ProjectPath}
  BY <1>5, <1>6, SortingKeepsFolders
<1>8. workspaceFolders' \in Seq(Range(Folders))
  <2> DEFINE R == Range(Folders)
  <2>1. ProjectPath \in R
    BY LayoutsAssumption
  <2> HIDE DEF R
  <2>2. workspaceFolders' \in Seq(R)
    BY <1>7, <2>1
  <2> QED
    BY <2>2 DEF R
<1>9. AreFolders(root2folder')
  <2>1. root2folder' = Read(workspaceFolders', <<>>)
    BY DEF InitializeLoad
  <2>2. AreFolders(Read(workspaceFolders', <<>>))
    BY <1>4, <1>8, ReadAreFolders
  <2> QED
    BY <2>1, <2>2, Zenon
<1>10. HierarchicalPath \/ {"in", "out"} \X {ProjectPath} \subseteq dirs'
  BY <1>7 DEF InitializeLoad
<1>11. RootReady'
  BY <1>7, <1>9, <1>10 DEF RootReady, AreFolders, IsEntries, IsSeq
<1>12. NotYet'
  BY <1>1, <1>2, <1>3 DEF ProjectOnly, NotYet, Busy
<1> QED
  BY <1>1, <1>2, <1>3, <1>11, <1>12 DEF ProjectOnly

\* The steps before and behind it.
LEMMA ProjectStarting ==
  ASSUME RunInv, InitializeReply \/ InitializeSpawn \/ InitializeRescan, mode /= "server"
  PROVE  ProjectOnly'
<1>1. PhaseInv /\ ProjectOnly /\ DOMAIN indexer = Fields
  BY DEF RunInv, CacheInv, StoreInv
<1>2. /\ step \in {0, 2, 3} /\ step' = step + 1
      /\ InitializeReply => step = 0
  BY <1>1, StepsInOrder DEF InitializeReply, InitializeSpawn, InitializeRescan
<1>3. UNCHANGED <<open, stamp, completed, enqueued, index_request, workspaceFolders,
                  root2folder, dirs>>
  BY DEF InitializeReply, InitializeSpawn, InitializeRescan, InitializeStep, progressVars,
         stats, vfsVars
<1>4. answers' = answers
  BY DEF InitializeReply, InitializeSpawn, InitializeRescan, reply
<1>5. indexer' = indexer \/ indexer'.pc = "poll"
  <2>1. indexer' = indexer \/ indexer' = [indexer EXCEPT !.pc = "poll"]
    BY DEF InitializeReply, InitializeSpawn, InitializeRescan
  <2> QED
    BY <1>1, <2>1 DEF Fields
<1>6. NotYet'
  BY <1>1, <1>2, <1>3, <1>5 DEF ProjectOnly, NotYet, Busy
<1>7. step >= 2 => RootReady'
  BY <1>1, <1>3 DEF ProjectOnly, RootReady, AreFolders, IsEntries, IsSeq
<1> QED
  BY <1>1, <1>2, <1>3, <1>4, <1>6, <1>7 DEF ProjectOnly

\* The queue is the project's.
LEMMA EnqueueProject ==
  ASSUME index_request = <<>>, NEW q, NEW n, IsProjectQueue(q, n), Enqueue(q)
  PROVE  /\ index_request' = q /\ enqueued' = enqueued + n
         /\ UNCHANGED <<completed, taken>>
<1>1. /\ n \in Nat /\ IsSeq(q) /\ Len(q) = n + 1 /\ q[n + 1].path = NoPath
      /\ \A i \in 1..n : q[i].path \in Paths
      /\ \A i \in 1..n + 1 : q[i].mode = "Background"
  BY DEF IsProjectQueue
<1>2. DOMAIN q = 1..n + 1
  BY <1>1, SeqIs
<1>3. {i \in DOMAIN q : q[i].path /= NoPath} = 1..n
  <2>1. NoPath \notin Paths
    BY LayoutsAssumption
  <2>2. \A i \in 1..n + 1 : i \in 1..n \/ i = n + 1
    BY <1>1
  <2>3. \A i \in 1..n : i \in 1..n + 1 /\ i /= n + 1
    BY <1>1
  <2> QED
    BY <1>1, <1>2, <2>1, <2>2, <2>3
<1>4. Cardinality(1..n) = n
  <2>1. 1 \in Int /\ n \in Int
    BY <1>1
  <2>2. Cardinality(1..n) = IF 1 > n THEN 0 ELSE n - 1 + 1
    BY <2>1, FS_Interval
  <2> QED
    BY <1>1, <2>2
<1>5. index(n)
  BY <1>3, <1>4 DEF Enqueue
<1>6. \A i \in 1..Len(q) : q[i] \in Ordinary(q) /\ q[i] \notin Urgent(q)
  BY <1>1, <1>2 DEF Ordinary, Urgent, Range
<1>7. Kept(q, Ordinary(q)) = q /\ Kept(q, Urgent(q)) = <<>>
  <2> DEFINE R == Range(q)
             A == Ordinary(q)
             B == Urgent(q)
  <2>1. q \in Seq(R)
    BY <1>1 DEF IsSeq
  <2>2. \A i \in 1..Len(q) : q[i] \in A /\ q[i] \notin B
    BY <1>6
  <2> HIDE DEF R, A, B
  <2>3. Kept(q, A) = q
    BY <2>1, <2>2, KeptAll
  <2>4. Kept(q, B) = <<>>
    BY <2>1, <2>2, KeptNone
  <2> QED
    BY <2>3, <2>4 DEF A, B
<1>8. \A M : Kept(<<>>, M) = <<>>
  <2> SUFFICES ASSUME NEW M PROVE Kept(<<>>, M) = <<>>
    OBVIOUS
  <2>1. <<>> \in Seq({}) /\ \A i \in 1..Len(<<>>) : <<>>[i] \notin M
    OBVIOUS
  <2> QED
    BY <2>1, KeptNone
<1>9. index_request' = ((<<>> \o <<>>) \o <<>>) \o q
  <2> DEFINE first(s) == Kept(s, Urgent(s))
             second(s) == Kept(s, Ordinary(s))
  <2>1. index_request' = first(index_request) \o first(q) \o second(index_request) \o second(q)
    BY DEF Enqueue
  <2>2. first(index_request) = <<>> /\ second(index_request) = <<>>
    BY <1>8
  <2>3. first(q) = <<>> /\ second(q) = q
    BY <1>7
  <2> HIDE DEF first, second
  <2> QED
    BY <2>1, <2>2, <2>3, Zenon
<1>10. ((<<>> \o <<>>) \o <<>>) \o q = q
  <2> DEFINE R == Range(q)
  <2>1. q \in Seq(R)
    BY <1>1 DEF IsSeq
  <2> HIDE DEF R
  <2>2. <<>> \o q = q
    BY <2>1
  <2>3. <<>> \o <<>> = <<>>
    OBVIOUS
  <2> QED
    BY <2>2, <2>3, Zenon
<1> QED
  BY <1>5, <1>9, <1>10, Zenon DEF index

\* Every file of the project gets its request.
LEMMA ProjectIndexed ==
  ASSUME RunInv, InitializeIndex, mode /= "server"
  PROVE  ProjectOnly'
<1>1. PhaseInv /\ ProjectOnly
  BY DEF RunInv
<1>2. /\ step = 4 /\ step' = 5 /\ phase' = "serving"
  BY <1>1, StepsInOrder DEF InitializeIndex
<1>3. UNCHANGED <<open, answers, stamp, indexer, workspaceFolders, root2folder, dirs>>
  BY DEF InitializeIndex, InitializeStep, vfsVars
<1>4. open = {} /\ RootReady /\ NotYet /\ completed \in Nat
  BY <1>1, <1>2 DEF ProjectOnly
<1>5. AreFolders(root2folder)
  BY <1>4 DEF RootReady
<1>6. PICK order \in SetToSeqs(DOMAIN root2folder) :
        Enqueue(IndexRequests(order, root2folder, {}, 0))
  BY <1>4 DEF InitializeIndex, Orders
<1> DEFINE q == IndexRequests(order, root2folder, {}, 0)
<1>7. PICK n : /\ IsProjectQueue(q, n)
               /\ \A e \in EntriesIn(root2folder) :
                    matches(e.filename) => \E i \in 1..n : q[i].path = e.filename
  BY <1>5, ProjectRequests
<1>8. Enqueue(q)
  BY <1>6
<1> HIDE DEF q
<1>9. index_request' = q /\ enqueued' = enqueued + n /\ completed' = completed
  BY <1>4, <1>7, <1>8, EnqueueProject DEF NotYet
<1>10. n \in Nat /\ Len(q) = n + 1 /\ q /= <<>>
  <2>1. Len(<<>>) = 0
    OBVIOUS
  <2> QED
    BY <1>7, <2>1 DEF IsProjectQueue
<1>11. QueueInv'
  <2>1. ~Busy'
    BY <1>3, <1>4 DEF NotYet, Busy
  <2>2. Len(q) - 1 = n
    BY <1>10
  <2>3. Left' = n
    BY <1>9, <1>10, <2>1, <2>2 DEF Left
  <2>4. IsProjectQueue(q, Len(q) - 1)
    BY <1>7, <2>2, Zenon
  <2>5. IsProjectQueue(index_request', Len(index_request') - 1)
    BY <1>9, <2>4, Zenon
  <2>6. IsProjectQueue(index_request, Len(index_request) - 1)'
    BY <2>5 DEF IsProjectQueue, IsSeq, matches
  <2>7. enqueued' = completed' + Left'
    BY <1>4, <1>9, <2>3 DEF NotYet
  <2> QED
    BY <1>2, <2>6, <2>7 DEF QueueInv
<1>12. HandInv'
  BY <1>3, <1>4 DEF HandInv, NotYet, Busy
<1>13. FilesTaken'
  <2> SUFFICES ASSUME NEW path \in Paths, Listed(path)', matches(path) PROVE Waiting(path)'
    BY DEF FilesTaken, matches
  <2>1. PICK root \in DOMAIN root2folder : \E i \in DOMAIN root2folder[root].entries :
               root2folder[root].entries[i].filename = path
    BY <1>3 DEF Listed
  <2>2. PICK i \in DOMAIN root2folder[root].entries :
               root2folder[root].entries[i].filename = path
    BY <2>1
  <2> DEFINE e == root2folder[root].entries[i]
  <2>3. e \in EntriesIn(root2folder)
    BY <2>2 DEF EntriesIn, Range
  <2>4. matches(e.filename)
    BY <2>2
  <2>5. PICK k \in 1..n : q[k].path = path
    BY <1>7, <2>2, <2>3, <2>4
  <2>6. k \in 1..Len(q)
    BY <1>10
  <2> QED
    BY <1>9, <2>5, <2>6 DEF Waiting
<1> QED
  BY <1>1, <1>2, <1>3, <1>4, <1>9, <1>11, <1>12, <1>13
  DEF ProjectOnly, RootReady, AreFolders, IsEntries, IsSeq

\* What is found for a path that need not exist is for that path.
Named(e, path) == "filename" \in DOMAIN e /\ e.filename = path

LEMMA CompletedIsNamed ==
  ASSUME NEW e, NEW path, Named(e, path), NEW appended, NEW processed
  PROVE  Completed(e, appended, processed).filename = path
<1>1. PICK args : Completed(e, appended, processed) = [e EXCEPT !.args = args]
  BY Zenon DEF Completed
<1> QED
  BY <1>1 DEF Named

LEMMA EntryIsNamed ==
  ASSUME NEW root, NEW dir, NEW path, NEW args, NEW size, NEW inferred
  PROVE  /\ Named(Entry(root, dir, path, args, size), path)
         /\ Named([Entry(root, dir, path, args, size) EXCEPT !.is_inferred = inferred], path)
BY DEF Named, Entry

Sought(order, folders, fallback, path) ==
  findEntry(order, folders, fallback, path, TRUE, FALSE)

LEMMA FoundIsNamed ==
  ASSUME NEW order, NEW folders, NEW fallback, NEW path
  PROVE  Sought(order, folders, fallback, path).filename = path
<1>1. ASSUME NEW dot, NEW match, NEW candidates
      PROVE  FoundEntry(dot, match, candidates, fallback, path, FALSE).filename = path
  <2>1. Named(ByDotCcls(dot.root, dot.args, path), path)
    BY EntryIsNamed DEF ByDotCcls
  <2>2. ASSUME NEW best, NEW inferred PROVE Named(ByEntry(best, inferred, path), path)
    BY EntryIsNamed DEF ByEntry
  <2>3. Named(ByFallback(fallback, path), path)
    BY EntryIsNamed DEF ByFallback
  <2>4. ASSUME NEW appended, NEW processed
        PROVE  FromCommands(match, candidates, fallback, path, appended, processed).filename
                 = path
    <3>1. \A best, inferred, a, p : Completed(ByEntry(best, inferred, path), a, p).filename = path
      BY <2>2, CompletedIsNamed
    <3>2. \A a, p : Completed(ByFallback(fallback, path), a, p).filename = path
      BY <2>3, CompletedIsNamed
    <3> QED
      BY <3>1, <3>2, Zenon DEF FromCommands
  <2>5. Completed(ByDotCcls(dot.root, dot.args, path), <<>>, TRUE).filename = path
    BY <2>1, CompletedIsNamed
  <2> QED
    BY <2>4, <2>5 DEF FoundEntry
<1> QED
  BY <1>1, Zenon DEF Sought, findEntry, FindIn

\* One request less.
LEMMA QueueTail ==
  ASSUME NEW q, NEW n, IsProjectQueue(q, n), n > 0
  PROVE  /\ IsProjectQueue(Tail(q), n - 1)
         /\ Head(q) = q[1] /\ Head(q).path \in Paths /\ matches(Head(q).path)
         /\ \A i \in 1..n : Tail(q)[i] = q[i + 1]
<1> DEFINE R == Range(q)
           t == Tail(q)
<1>1. n \in Nat /\ q \in Seq(R) /\ Len(q) = n + 1
  BY DEF IsProjectQueue, IsSeq
<1> HIDE DEF R
<1>2. q /= <<>>
  BY <1>1
<1>3. /\ t \in Seq(R) /\ Len(t) = n /\ \A i \in 1..n : t[i] = q[i + 1]
      /\ Head(q) = q[1]
  BY <1>1, <1>2, HeadTailProperties
<1> HIDE DEF t
<1>4. DOMAIN t = 1..n /\ IsFunction(t)
  BY <1>3 DEF IsFunction
<1>5. IsSeq(t) /\ Len(t) = n
  BY <1>1, <1>4, FunctionIsSeq
<1>6. /\ q[n + 1].path = NoPath
      /\ \A i \in 1..n : q[i].path \in Paths /\ matches(q[i].path)
      /\ \A i \in 1..n + 1 : q[i].must_exist = FALSE /\ q[i].id = 0 /\ q[i].mode = "Background"
  BY DEF IsProjectQueue
<1>7. n - 1 \in Nat /\ n \in 1..n /\ 1 \in 1..n /\ (n - 1) + 1 = n
  BY <1>1
<1>8. t[n].path = NoPath
  BY <1>3, <1>6, <1>7
<1>9. ASSUME NEW i \in 1..n - 1 PROVE t[i].path \in Paths /\ matches(t[i].path)
  <2>1. i \in 1..n /\ i + 1 \in 1..n
    BY <1>1
  <2> QED
    BY <1>3, <1>6, <2>1
<1>10. ASSUME NEW i \in 1..n PROVE t[i].must_exist = FALSE /\ t[i].id = 0 /\ t[i].mode = "Background"
  <2>1. i + 1 \in 1..n + 1
    BY <1>1
  <2> QED
    BY <1>3, <1>6, <2>1
<1>11. IsProjectQueue(t, n - 1)
  BY <1>5, <1>7, <1>8, <1>9, <1>10 DEF IsProjectQueue
<1> QED
  BY <1>3, <1>6, <1>7, <1>11 DEF t

\* What an index in the cache says of its time.
LEMMA LoadedTime ==
  ASSUME CacheInv, NEW path \in Paths, rawCacheLoad(path) /= Uncached
  PROVE  rawCacheLoad(path).time \in Nat
<1> DEFINE key == getCachePath(path)
<1>1. key \in DOMAIN blob /\ rawCacheLoad(path) = blob[key]
  BY DEF rawCacheLoad
<1>2. key.path = path
  BY DEF getCachePath
<1> HIDE DEF key
<1> QED
  BY <1>1, <1>2 DEF CacheInv, TimesInv

\* The dummy is dropped.
LEMMA DummyTaken ==
  ASSUME RunInv, mode /= "server", step = 5, IndexerTake, Len(index_request) - 1 = 0
  PROVE  ProjectOnly'
<1> DEFINE q == index_request
<1>1. ProjectOnly /\ QueueInv /\ HandInv /\ FilesTaken /\ DOMAIN indexer = Fields
  BY DEF RunInv, ProjectOnly, CacheInv, StoreInv
<1>2. q /= <<>> /\ index_request' = Tail(q) /\ indexer.pc = "poll"
  BY DEF IndexerTake
<1>3. IsProjectQueue(q, 0)
  <2>1. IsProjectQueue(q, Len(q) - 1)
    BY <1>1, <1>2 DEF QueueInv
  <2>2. Len(q) - 1 = 0
    OBVIOUS
  <2> HIDE DEF q
  <2> QED
    BY <2>1, <2>2, Zenon
<1>4. IsSeq(q) /\ Len(q) = 1 /\ q[1].path = NoPath
  BY <1>3 DEF IsProjectQueue
<1>5. Head(q) = q[1] /\ Tail(q) = <<>>
  <2> DEFINE R == Range(q)
  <2>1. q \in Seq(R)
    BY <1>4 DEF IsSeq
  <2> HIDE DEF R, q
  <2>2. /\ Head(q) = q[1] /\ Tail(q) \in Seq(R)
        /\ Len(Tail(q)) = 0
    BY <1>2, <1>4, <2>1, HeadTailProperties
  <2>3. Tail(q) = <<>>
    BY <2>2, EmptySeq
  <2> QED
    BY <2>2, <2>3 DEF q
<1>6. /\ indexer' = [indexer EXCEPT !.pc = "wait"]
      /\ UNCHANGED <<stamp, completed, enqueued>>
  <2>1. Head(index_request).path = NoPath
    BY <1>4, <1>5
  <2> QED
    BY <2>1 DEF IndexerTake, Goto, progressVars, stats
<1>7. UNCHANGED <<open, answers, failed, phase, step, workspaceFolders, root2folder, dirs,
                  content, blob>>
  BY DEF IndexerTake, Unmoved, mainVars
<1>8. indexer'.pc = "wait" /\ index_request' = <<>>
  BY <1>1, <1>2, <1>5, <1>6 DEF Fields
<1>9. QueueInv'
  <2>1. ~Busy /\ ~Busy'
    BY <1>2, <1>8 DEF Busy
  <2>2. Left = 0
    BY <1>2, <1>4, <2>1 DEF Left
  <2>3. Left' = 0
    BY <1>8, <2>1 DEF Left
  <2> QED
    BY <1>1, <1>6, <1>7, <1>8, <2>2, <2>3 DEF QueueInv
<1>10. HandInv'
  BY <1>8 DEF HandInv, Busy
<1>11. FilesTaken'
  <2> SUFFICES ASSUME NEW path \in Paths, Listed(path), matches(path) PROVE Done(path)'
    BY <1>7 DEF FilesTaken, Listed, matches
  <2>1. ~UnderWay(path)
    BY <1>2 DEF UnderWay
  <2>2. ~Waiting(path)
    <3>1. NoPath \notin Paths
      BY LayoutsAssumption
    <3>2. \A i \in 1..1 : i = 1
      OBVIOUS
    <3> QED
      BY <1>4, <3>1, <3>2 DEF Waiting
  <2>3. Done(path)
    BY <1>1, <2>1, <2>2 DEF FilesTaken
  <2> QED
    BY <1>6, <1>7, <2>3, CacheSame DEF Done
<1>12. RootReady'
  BY <1>1, <1>7 DEF ProjectOnly, RootReady, AreFolders, IsEntries, IsSeq
<1> QED
  BY <1>1, <1>6, <1>7, <1>9, <1>10, <1>11, <1>12 DEF ProjectOnly

\* A request is taken: either the file is parsed, or its index is as new as it is.
LEMMA RequestTaken ==
  ASSUME RunInv, mode /= "server", step = 5, IndexerTake, Len(index_request) - 1 > 0
  PROVE  ProjectOnly'
<1> DEFINE q == index_request
           n == Len(q) - 1
           r == Head(q)
<1>1. /\ ProjectOnly /\ QueueInv /\ HandInv /\ FilesTaken /\ CacheInv
      /\ stamp \in [Paths -> Nat] /\ files \in [Paths -> Nat]
      /\ \A p \in Paths : 1 <= files[p]
  BY DEF RunInv, ProjectOnly, CacheInv, FilesInv
<1>2. q /= <<>> /\ index_request' = Tail(q) /\ indexer.pc = "poll"
  BY DEF IndexerTake
<1>3. IsProjectQueue(q, n) /\ n > 0
  BY <1>1, <1>2 DEF QueueInv
<1> HIDE DEF n
<1>4. /\ IsProjectQueue(Tail(q), n - 1) /\ r = q[1] /\ r.path \in Paths /\ matches(r.path)
      /\ \A i \in 1..n : Tail(q)[i] = q[i + 1]
  BY <1>3, QueueTail
<1>5. /\ n \in Nat /\ Len(q) = n + 1 /\ Len(Tail(q)) = n
      /\ r.must_exist = FALSE /\ r.id = 0
  <2>1. n \in Nat /\ Len(q) = n + 1 /\ \A i \in 1..n + 1 : q[i].must_exist = FALSE /\ q[i].id = 0
    BY <1>3 DEF IsProjectQueue
  <2>2. Len(Tail(q)) = n - 1 + 1
    BY <1>4 DEF IsProjectQueue
  <2> QED
    BY <1>4, <2>1, <2>2
<1>6. r.path /= NoPath
  BY <1>4, LayoutsAssumption
<1>7. PICK entry : Examine(r, entry) /\ entry.filename = r.path
  <2>1. PICK order : Examine(r, findEntry(order, root2folder, ProjectPath, r.path, TRUE,
                                          r.must_exist))
    BY <1>6 DEF IndexerTake
  <2>2. r.must_exist = FALSE
    BY <1>5
  <2> DEFINE entry == Sought(order, root2folder, ProjectPath, r.path)
  <2>3. Examine(r, entry)
    BY <2>1, <2>2 DEF Sought
  <2>4. entry.filename = r.path
    BY FoundIsNamed
  <2> HIDE DEF entry
  <2> QED
    BY <2>3, <2>4
<1>p. PICK p : p = r.path
  OBVIOUS
<1> DEFINE time == IF files[p] > stamp[p] THEN files[p] ELSE stamp[p]
           prev == rawCacheLoad(p)
<1>8. /\ stamp' = [stamp EXCEPT ![p] = time]
      /\ indexer'.request = r /\ indexer'.pc \in {"parse", "finish"}
      /\ indexer'.pc = "finish" => prev /= Uncached /\ ~(prev.time < time)
  <2>1. matches(r.path) /\ entry.filename /= NoPath
    BY <1>4, <1>6, <1>7
  <2> QED
    BY <1>7, <1>p, <2>1 DEF Examine, cacheInvalid
<1>9. UNCHANGED <<open, answers, failed, phase, step, workspaceFolders, root2folder, dirs,
                  content, blob, completed, enqueued>>
  BY <1>6 DEF IndexerTake, Unmoved, mainVars, Take
<1>10. p \in Paths /\ time \in Nat /\ time > 0
  BY <1>1, <1>4, <1>p
<1> HIDE DEF time, prev
<1>11. stamp' \in [Paths -> Nat] /\ stamp'[p] = time /\ \A x \in Paths : x /= p => stamp'[x] = stamp[x]
  BY <1>1, <1>8, <1>10
<1>12. QueueInv'
  <2>1. ~Busy /\ Busy'
    BY <1>2, <1>8 DEF Busy
  <2>2. index_request' /= <<>>
    <3>1. Len(<<>>) = 0
      OBVIOUS
    <3> QED
      BY <1>2, <1>3, <1>5, <3>1
  <2>3. Left = n
    BY <1>2, <1>5, <2>1 DEF Left
  <2>4. Left' = n
    BY <1>2, <1>5, <2>1, <2>2 DEF Left
  <2>5. Len(Tail(q)) - 1 = n - 1
    BY <1>5
  <2>6. IsProjectQueue(index_request', Len(index_request') - 1)
    BY <1>2, <1>4, <2>5, Zenon
  <2>7. IsProjectQueue(index_request, Len(index_request) - 1)'
    BY <2>6 DEF IsProjectQueue, IsSeq, matches
  <2> QED
    BY <1>1, <1>9, <2>3, <2>4, <2>7 DEF QueueInv
<1>13. HandInv'
  BY <1>4, <1>5, <1>8 DEF HandInv, Busy
<1>14. FilesTaken'
  <2> SUFFICES ASSUME NEW path \in Paths, Listed(path), matches(path)
               PROVE  Waiting(path)' \/ UnderWay(path)' \/ Done(path)'
    BY <1>9 DEF FilesTaken, Listed, matches
  <2>1. CASE path = p
    <3>1. CASE indexer'.pc = "parse"
      BY <1>8, <1>p, <2>1, <3>1 DEF UnderWay
    <3>2. CASE indexer'.pc = "finish"
      <4>1. prev.time \in Nat
        BY <1>1, <1>8, <1>10, <3>2, LoadedTime DEF prev
      <4>2. prev.time >= time
        BY <1>8, <1>10, <3>2, <4>1
      <4>3. rawCacheLoad(p)' = prev
        BY <1>9, CacheSame DEF prev
      <4>4. stamp'[p] > 0 /\ rawCacheLoad(p)'.time >= stamp'[p]
        BY <1>10, <1>11, <4>2, <4>3
      <4> QED
        BY <2>1, <4>4 DEF Done
    <3> QED
      BY <1>8, <3>1, <3>2
  <2>2. CASE path /= p
    <3>1. ~UnderWay(path)
      BY <1>2 DEF UnderWay
    <3>2. Done(path) => Done(path)'
      BY <1>9, <1>11, <2>2, CacheSame DEF Done
    <3>3. Waiting(path) => Waiting(path)'
      <4> SUFFICES ASSUME Waiting(path) PROVE Waiting(path)'
        OBVIOUS
      <4>1. PICK i \in 1..n + 1 : q[i].path = path
        BY <1>5 DEF Waiting
      <4>2. i /= 1
        BY <1>4, <1>p, <2>2, <4>1
      <4>3. i - 1 \in 1..n /\ (i - 1) + 1 = i
        BY <1>5, <4>2
      <4>4. Tail(q)[i - 1].path = path
        BY <1>4, <4>1, <4>3
      <4> QED
        BY <1>2, <1>5, <4>3, <4>4 DEF Waiting
    <3> QED
      BY <1>1, <3>1, <3>2, <3>3 DEF FilesTaken
  <2> QED
    BY <2>1, <2>2
<1>15. RootReady'
  BY <1>1, <1>9 DEF ProjectOnly, RootReady, AreFolders, IsEntries, IsSeq
<1> QED
  BY <1>1, <1>9, <1>11, <1>12, <1>13, <1>14, <1>15 DEF ProjectOnly

\* How much is left.
LEMMA LeftIs ==
  ASSUME QueueInv
  PROVE  \E n \in Nat : /\ Left = n + (IF Busy THEN 1 ELSE 0)
                        /\ n = IF index_request = <<>> THEN 0 ELSE Len(index_request) - 1
<1>1. CASE index_request = <<>>
  BY <1>1 DEF Left
<1>2. CASE index_request /= <<>>
  <2>1. Len(index_request) - 1 \in Nat
    BY <1>2 DEF QueueInv, IsProjectQueue
  <2> QED
    BY <1>2, <2>1 DEF Left
<1> QED
  BY <1>1, <1>2

\* The indexer looks for work, or waits for it.
LEMMA ProjectWaits ==
  ASSUME RunInv, mode /= "server", IndexerIdle \/ IndexerWake
  PROVE  ProjectOnly'
<1>1. ProjectOnly /\ DOMAIN indexer = Fields
  BY DEF RunInv, CacheInv, StoreInv
<1>2. indexer.pc \in {"poll", "wait"}
  BY DEF IndexerIdle, IndexerWake
<1>3. PICK pc \in {"wait", "left", "poll"} : indexer' = [indexer EXCEPT !.pc = pc]
  BY DEF IndexerIdle, IndexerWake, Goto
<1>4. indexer'.pc \in {"wait", "left", "poll"}
  BY <1>1, <1>3 DEF Fields
<1>5. UNCHANGED <<open, answers, failed, phase, step, workspaceFolders, root2folder, dirs,
                  content, blob, completed, enqueued, stamp, index_request>>
  BY DEF IndexerIdle, IndexerWake, Unmoved, mainVars, vfsVars, progressVars, stats
<1>6. ~Busy /\ ~Busy'
  BY <1>2, <1>4 DEF Busy
<1>7. NotYet => NotYet'
  BY <1>5, <1>6 DEF NotYet
<1>8. RootReady => RootReady'
  BY <1>5 DEF RootReady, AreFolders, IsEntries, IsSeq
<1>9. QueueInv => QueueInv'
  <2>1. Left' = Left
    BY <1>5, <1>6 DEF Left
  <2>2. IsProjectQueue(index_request, Len(index_request) - 1)
          => IsProjectQueue(index_request, Len(index_request) - 1)'
    BY <1>5 DEF IsProjectQueue, IsSeq, matches
  <2> QED
    BY <1>5, <2>1, <2>2 DEF QueueInv
<1>10. HandInv'
  BY <1>4, <1>6 DEF HandInv
<1>11. FilesTaken => FilesTaken'
  <2>1. \A p : ~UnderWay(p)
    BY <1>2 DEF UnderWay
  <2>2. \A p : Done(p) => Done(p)'
    BY <1>5, CacheSame DEF Done
  <2>3. \A p : Waiting(p) => Waiting(p)'
    BY <1>5 DEF Waiting
  <2>4. \A p : Listed(p)' = Listed(p)
    BY <1>5 DEF Listed
  <2> QED
    BY <2>1, <2>2, <2>3, <2>4 DEF FilesTaken, matches
<1> QED
  BY <1>1, <1>5, <1>7, <1>8, <1>9, <1>10, <1>11 DEF ProjectOnly

\* clang fails, or opens the file; the text is read.
LEMMA ProjectParsed ==
  ASSUME RunInv, mode /= "server", ParseFails \/ Parse \/ SeenFile
  PROVE  ProjectOnly'
<1>1. ProjectOnly /\ DOMAIN indexer = Fields /\ PhaseInv /\ files \in [Paths -> Nat]
      /\ indexer.pc \in {"parse", "seen"}
      /\ (indexer.request.path \in Paths /\ indexer.pc = "seen" => indexer.time \in Nat)
  BY DEF RunInv, CacheInv, StoreInv, FilesInv, ParseFails, Parse, SeenFile
<1>2. Busy
  BY <1>1 DEF Busy
<1>3. step = 5 /\ QueueInv /\ HandInv /\ FilesTaken /\ RootReady /\ open = {} /\ answers = <<>>
      /\ stamp \in [Paths -> Nat] /\ completed \in Nat
  BY <1>1, <1>2 DEF ProjectOnly, NotYet, PhaseInv
<1>4. PICK p \in Paths : p = indexer.request.path /\ indexer.request.id = 0
  BY <1>2, <1>3 DEF HandInv
<1>5. UNCHANGED <<open, phase, step, workspaceFolders, root2folder, dirs, content, blob,
                  completed, enqueued, index_request>>
  BY DEF ParseFails, Parse, SeenFile, Unmoved, mainVars, progressVars, stats
<1>6. answers' = answers
  BY <1>4 DEF ParseFails, Parse, SeenFile, reply
<1>7. CASE ParseFails
  <2>1. /\ indexer' = [indexer EXCEPT !.pc = "finish"] /\ failed' = failed \cup {p}
        /\ stamp' = stamp
    BY <1>4, <1>7 DEF ParseFails, Goto
  <2>2. indexer'.pc = "finish" /\ indexer'.request = indexer.request
    BY <1>1, <2>1 DEF Fields
  <2>3. Busy'
    BY <2>2 DEF Busy
  <2>4. QueueInv'
    <3>1. Left' = Left
      BY <1>2, <1>5, <2>3 DEF Left
    <3> QED
      BY <1>3, <1>5, <3>1 DEF QueueInv
  <2>5. HandInv'
    BY <1>2, <1>3, <2>2 DEF HandInv
  <2>6. FilesTaken'
    <3> SUFFICES ASSUME NEW path \in Paths, Listed(path), matches(path)
                 PROVE  Waiting(path)' \/ UnderWay(path)' \/ Done(path)'
      BY <1>5 DEF FilesTaken, Listed, matches
    <3>1. Done(path) => Done(path)'
      BY <1>5, <2>1, CacheSame DEF Done
    <3>2. UnderWay(path) => Done(path)'
      BY <1>4, <2>1 DEF UnderWay, Done
    <3>3. Waiting(path) => Waiting(path)'
      BY <1>5 DEF Waiting
    <3> QED
      BY <1>3, <3>1, <3>2, <3>3 DEF FilesTaken
  <2> QED
    BY <1>3, <1>5, <1>6, <2>1, <2>4, <2>5, <2>6
    DEF ProjectOnly, RootReady, AreFolders, IsEntries, IsSeq
<1>9. CASE Parse
  <2>1. /\ indexer' = [indexer EXCEPT !.pc = "seen", !.time = files[p]]
        /\ stamp' = stamp /\ failed' = failed
    BY <1>4, <1>9 DEF Parse, vfsVars
  <2>2. indexer'.pc = "seen" /\ indexer'.request = indexer.request
    BY <1>1, <2>1 DEF Fields
  <2>3. Busy'
    BY <2>2 DEF Busy
  <2>4. QueueInv'
    <3>1. Left' = Left
      BY <1>2, <1>5, <2>3 DEF Left
    <3> QED
      BY <1>3, <1>5, <3>1 DEF QueueInv
  <2>5. HandInv'
    BY <1>2, <1>3, <2>2 DEF HandInv
  <2>6. FilesTaken'
    <3> SUFFICES ASSUME NEW path \in Paths, Listed(path), matches(path)
                 PROVE  Waiting(path)' \/ UnderWay(path)' \/ Done(path)'
      BY <1>5 DEF FilesTaken, Listed, matches
    <3>1. Done(path) => Done(path)'
      BY <1>5, <2>1, CacheSame DEF Done
    <3>2. UnderWay(path) => UnderWay(path)'
      BY <2>2 DEF UnderWay
    <3>3. Waiting(path) => Waiting(path)'
      BY <1>5 DEF Waiting
    <3> QED
      BY <1>3, <3>1, <3>2, <3>3 DEF FilesTaken
  <2> QED
    BY <1>3, <1>5, <1>6, <2>1, <2>4, <2>5, <2>6
    DEF ProjectOnly, RootReady, AreFolders, IsEntries, IsSeq
<1>8. CASE SeenFile
  <2>1. CanStore(p)
    BY <1>3, CanAlways
  <2>2. /\ indexer' = [indexer EXCEPT !.pc = "store", !.text = files[p],
                                      !.key = getCachePath(p)]
        /\ stamp' = [stamp EXCEPT ![p] = indexer.time] /\ failed' = failed
    BY <1>4, <1>8, <2>1 DEF SeenFile
  <2>3. /\ indexer'.pc = "store" /\ indexer'.request = indexer.request
        /\ indexer'.time = indexer.time /\ indexer'.key = getCachePath(p)
    BY <1>1, <2>2 DEF Fields
  <2>4. Busy'
    BY <2>3 DEF Busy
  <2>5. /\ stamp' \in [Paths -> Nat] /\ stamp'[p] = indexer.time
        /\ \A x \in Paths : x /= p => stamp'[x] = stamp[x]
    <3>1. indexer.time \in Nat
      BY <1>1, <1>4, <1>8 DEF SeenFile
    <3> QED
      BY <1>3, <2>2, <3>1
  <2>6. QueueInv'
    <3>1. Left' = Left
      BY <1>2, <1>5, <2>4 DEF Left
    <3> QED
      BY <1>3, <1>5, <3>1 DEF QueueInv
  <2>7. HandInv'
    <3>1. getCachePath(p)' = getCachePath(p)
      BY <1>5, CacheSame
    <3> QED
      BY <1>4, <2>3, <2>5, <3>1 DEF HandInv, getCachePath
  <2>8. FilesTaken'
    <3> SUFFICES ASSUME NEW path \in Paths, Listed(path), matches(path)
                 PROVE  Waiting(path)' \/ UnderWay(path)' \/ Done(path)'
      BY <1>5 DEF FilesTaken, Listed, matches
    <3>1. CASE path = p
      BY <1>4, <2>3, <3>1 DEF UnderWay
    <3>2. CASE path /= p
      <4>1. Done(path) => Done(path)'
        BY <1>5, <2>2, <2>5, <3>2, CacheSame DEF Done
      <4>2. ~UnderWay(path)
        BY <1>4, <3>2 DEF UnderWay
      <4>3. Waiting(path) => Waiting(path)'
        BY <1>5 DEF Waiting
      <4> QED
        BY <1>3, <4>1, <4>2, <4>3 DEF FilesTaken
    <3> QED
      BY <3>1, <3>2
  <2> QED
    BY <1>3, <1>5, <1>6, <2>5, <2>6, <2>7, <2>8
    DEF ProjectOnly, RootReady, AreFolders, IsEntries, IsSeq
<1> QED
  BY <1>7, <1>8, <1>9

\* What is written for one path changes nothing for the others.
LEMMA OthersKept ==
  ASSUME workspaceFolders' = workspaceFolders, NEW key, NEW value, NEW time,
         \/ content' = Stored(content, key, time) /\ blob' = blob
         \/ blob' = Stored(blob, key, value) /\ content' = content,
         NEW path, path /= key.path
  PROVE  rawCacheLoad(path)' = rawCacheLoad(path)
<1> DEFINE k == getCachePath(path)
<1>1. CacheDir(path)' = CacheDir(path)
  BY DEF CacheDir
<1>2. k' = k /\ k.path = path
  BY <1>1 DEF getCachePath
<1>3. k /= key
  BY <1>2
<1>4. /\ k \in DOMAIN content' <=> k \in DOMAIN content
      /\ k \in DOMAIN blob' <=> k \in DOMAIN blob
      /\ k \in DOMAIN blob => blob'[k] = blob[k]
  BY <1>3 DEF Stored
<1>5. rawCacheLoad(path) = IF k \in DOMAIN content /\ k \in DOMAIN blob /\ deserialize(blob[k])
                           THEN blob[k] ELSE Uncached
  BY DEF rawCacheLoad
<1>6. rawCacheLoad(path)' =
        IF k' \in DOMAIN content' /\ k' \in DOMAIN blob' /\ deserialize(blob'[k'])
        THEN blob'[k'] ELSE Uncached
  BY DEF rawCacheLoad, deserialize, Uncached
<1> HIDE DEF k
<1> QED
  BY <1>2, <1>4, <1>5, <1>6

\* Each of the four steps of the two writes, the last of which makes the file done.
LEMMA ProjectStored ==
  ASSUME RunInv, mode /= "server", Store
  PROVE  ProjectOnly'
<1>1. ProjectOnly /\ DOMAIN indexer = Fields /\ PhaseInv /\ StoreInv /\ indexer.pc = "store"
  <2>1. indexer.pc = "store"
    BY DEF Store
  <2> QED
    BY <2>1 DEF RunInv, CacheInv, StoreInv
<1>2. Busy
  BY <1>1 DEF Busy
<1>3. step = 5 /\ QueueInv /\ HandInv /\ FilesTaken /\ RootReady /\ open = {} /\ answers = <<>>
      /\ stamp \in [Paths -> Nat] /\ completed \in Nat
  BY <1>1, <1>2 DEF ProjectOnly, NotYet, PhaseInv
<1>4. PICK p \in Paths : /\ p = indexer.request.path
                         /\ indexer.key = getCachePath(p) /\ indexer.time = stamp[p]
  BY <1>1, <1>2, <1>3 DEF HandInv
<1>5. UNCHANGED <<open, answers, phase, step, workspaceFolders, root2folder, dirs, stamp,
                  failed, completed, enqueued, index_request>>
  BY DEF Store, Unmoved, mainVars, progressVars, stats, vfsVars
<1>6. indexer' = [indexer EXCEPT !.stored = @ + 1,
                                 !.pc = IF indexer.stored = 3 THEN "finish" ELSE "store"]
  BY DEF Store
<1>7. /\ indexer'.request = indexer.request /\ indexer'.key = indexer.key
      /\ indexer'.time = indexer.time
      /\ indexer'.pc = IF indexer.stored = 3 THEN "finish" ELSE "store"
  BY <1>1, <1>6 DEF Fields
<1>8. indexer.key.path = p
  BY <1>4 DEF getCachePath
<1>9. indexer.stored \in 0..3 /\ indexer.time \in Nat /\ 1 <= indexer.time
      /\ (indexer.stored >= 2 => indexer.key \in DOMAIN content)
  BY <1>1, <1>8 DEF StoreInv
<1>10. Busy'
  BY <1>7 DEF Busy
<1>11. QueueInv'
  <2>1. Left' = Left
    BY <1>2, <1>5, <1>10 DEF Left
  <2> QED
    BY <1>3, <1>5, <2>1 DEF QueueInv
<1>12. HandInv'
  <2>1. getCachePath(p)' = getCachePath(p)
    BY <1>5 DEF getCachePath, CacheDir
  <2>2. indexer'.request.path = p /\ indexer'.request.id = 0
    BY <1>2, <1>3, <1>4, <1>7 DEF HandInv
  <2>3. indexer'.key = getCachePath(p)' /\ indexer'.time = stamp'[p]
    BY <1>4, <1>5, <1>7, <2>1
  <2> QED
    BY <2>2, <2>3 DEF HandInv, getCachePath
<1> DEFINE file == StoreSteps[1 + indexer.stored \div 2]
           text == IF indexer.stored % 2 = 0 THEN Torn ELSE indexer.text
           time == IF indexer.stored % 2 = 0 THEN Torn ELSE indexer.time
           value == serialize(time, indexer.args)
<1>13. \/ content' = Stored(content, indexer.key, text) /\ blob' = blob
       \/ blob' = Stored(blob, indexer.key, value) /\ content' = content
  BY DEF Store
<1>14. indexer.stored = 3 => /\ blob' = Stored(blob, indexer.key,
                                               serialize(indexer.time, indexer.args))
                             /\ content' = content
  <2> SUFFICES ASSUME indexer.stored = 3
               PROVE  /\ blob' = Stored(blob, indexer.key,
                                        serialize(indexer.time, indexer.args))
                      /\ content' = content
    OBVIOUS
  <2>1. 1 + indexer.stored \div 2 = 2 /\ indexer.stored % 2 /= 0
    OBVIOUS
  <2>2. file = "blob" /\ time = indexer.time
    BY <2>1 DEF StoreSteps
  <2> QED
    BY <2>2 DEF Store
<1>15. ASSUME NEW path, path /= p PROVE rawCacheLoad(path)' = rawCacheLoad(path)
  <2> HIDE DEF text, time, value
  <2> QED
    BY <1>5, <1>8, <1>13, <1>15, OthersKept
<1> HIDE DEF file, text, time, value
<1>16. ASSUME indexer.stored = 3 PROVE Done(p)'
  <2> DEFINE k == indexer.key
             new == serialize(indexer.time, indexer.args)
  <2>1. k \in DOMAIN content'
    BY <1>9, <1>14, <1>16
  <2>2. new.time = indexer.time /\ deserialize(new)
    BY <1>9 DEF serialize, deserialize, Torn
  <2> HIDE DEF new
  <2>3. k \in DOMAIN blob' /\ blob'[k] = new
    BY <1>14, <1>16 DEF Stored, new
  <2>4. getCachePath(p)' = k
    BY <1>4, <1>5 DEF getCachePath, CacheDir
  <2>5. rawCacheLoad(p)' = new
    <3>1. rawCacheLoad(p)' =
            IF /\ getCachePath(p)' \in DOMAIN content' /\ getCachePath(p)' \in DOMAIN blob'
               /\ deserialize(blob'[getCachePath(p)'])
            THEN blob'[getCachePath(p)'] ELSE Uncached
      BY DEF rawCacheLoad, deserialize, Uncached
    <3> QED
      BY <2>1, <2>2, <2>3, <2>4, <3>1
  <2>6. stamp'[p] = indexer.time
    BY <1>4, <1>5
  <2>7. stamp'[p] > 0 /\ rawCacheLoad(p)'.time >= stamp'[p]
    BY <1>9, <2>2, <2>5, <2>6
  <2> QED
    BY <2>7 DEF Done
<1>17. FilesTaken'
  <2> SUFFICES ASSUME NEW path \in Paths, Listed(path), matches(path)
               PROVE  Waiting(path)' \/ UnderWay(path)' \/ Done(path)'
    BY <1>5 DEF FilesTaken, Listed, matches
  <2>1. CASE path = p
    <3>1. CASE indexer.stored = 3
      BY <1>16, <2>1, <3>1
    <3>2. CASE indexer.stored /= 3
      BY <1>4, <1>7, <2>1, <3>2 DEF UnderWay
    <3> QED
      BY <3>1, <3>2
  <2>2. CASE path /= p
    <3>1. Done(path) => Done(path)'
      BY <1>5, <1>15, <2>2 DEF Done
    <3>2. ~UnderWay(path)
      BY <1>4, <2>2 DEF UnderWay
    <3>3. Waiting(path) => Waiting(path)'
      BY <1>5 DEF Waiting
    <3> QED
      BY <1>3, <3>1, <3>2, <3>3 DEF FilesTaken
  <2> QED
    BY <2>1, <2>2
<1> QED
  BY <1>3, <1>5, <1>11, <1>12, <1>17
  DEF ProjectOnly, RootReady, AreFolders, IsEntries, IsSeq

\* The request is counted out.
LEMMA ProjectFinished ==
  ASSUME RunInv, mode /= "server", Finish
  PROVE  ProjectOnly'
<1>1. ProjectOnly /\ PhaseInv /\ indexer.pc = "finish"
  BY DEF RunInv, Finish
<1>2. Busy
  BY <1>1 DEF Busy
<1>3. step = 5 /\ QueueInv /\ HandInv /\ FilesTaken /\ RootReady /\ open = {} /\ answers = <<>>
      /\ stamp \in [Paths -> Nat] /\ completed \in Nat
  BY <1>1, <1>2 DEF ProjectOnly, NotYet, PhaseInv
<1>4. UNCHANGED <<open, answers, phase, step, workspaceFolders, root2folder, dirs, stamp,
                  failed, enqueued, index_request, content, blob>>
  BY DEF Finish, Complete, Unmoved, mainVars, vfsVars
<1>5. completed' = completed + 1
  BY DEF Finish, Complete
<1>6. indexer'.pc \in {"poll", "wait"}
  <2>1. \E pc \in {"poll", "wait"} : indexer' = [NoJob EXCEPT !.pc = pc]
    BY DEF Finish
  <2> QED
    BY <2>1 DEF NoJob
<1>7. ~Busy'
  BY <1>6 DEF Busy
<1>8. QueueInv'
  <2>1. PICK n \in Nat : /\ Left = n + 1
                         /\ n = IF index_request = <<>> THEN 0 ELSE Len(index_request) - 1
    BY <1>2, <1>3, LeftIs
  <2>2. Left' = n + 0
    BY <1>4, <1>7, <2>1 DEF Left
  <2>3. enqueued = completed + (n + 1)
    BY <1>3, <2>1 DEF QueueInv
  <2>4. enqueued' = completed' + Left'
    <3>1. enqueued' = enqueued /\ Left' = n
      BY <1>4, <2>2
    <3>2. completed \in Nat
      BY <1>3
    <3> QED
      BY <1>5, <2>3, <3>1, <3>2
  <2>5. phase /= "quitting"
    BY <1>3, <2>1, <2>3 DEF QueueInv
  <2>6. index_request /= <<>> => IsProjectQueue(index_request, Len(index_request) - 1)'
    BY <1>3, <1>4 DEF QueueInv, IsProjectQueue, IsSeq, matches
  <2> QED
    BY <1>4, <2>4, <2>5, <2>6 DEF QueueInv
<1>9. HandInv'
  BY <1>6, <1>7 DEF HandInv
<1>10. FilesTaken'
  <2> SUFFICES ASSUME NEW path \in Paths, Listed(path), matches(path)
               PROVE  Waiting(path)' \/ UnderWay(path)' \/ Done(path)'
    BY <1>4 DEF FilesTaken, Listed, matches
  <2>1. Done(path) => Done(path)'
    BY <1>4, CacheSame DEF Done
  <2>2. ~UnderWay(path)
    BY <1>1 DEF UnderWay
  <2>3. Waiting(path) => Waiting(path)'
    BY <1>4 DEF Waiting
  <2> QED
    BY <1>3, <2>1, <2>2, <2>3 DEF FilesTaken
<1> QED
  BY <1>3, <1>4, <1>5, <1>8, <1>9, <1>10
  DEF ProjectOnly, RootReady, AreFolders, IsEntries, IsSeq

\* The steps of the indexer in a run without a client.
LEMMA ProjectIndexer ==
  ASSUME RunInv, mode /= "server", Indexer
  PROVE  ProjectOnly'
<1>1. CASE IndexerTake
  <2>1. ProjectOnly /\ PhaseInv /\ index_request /= <<>>
    BY <1>1 DEF RunInv, IndexerTake
  <2>2. step = 5 /\ QueueInv
    BY <2>1 DEF ProjectOnly, NotYet, PhaseInv
  <2>3. Len(index_request) - 1 \in Nat
    BY <2>1, <2>2 DEF QueueInv, IsProjectQueue
  <2>4. Len(index_request) - 1 = 0 \/ Len(index_request) - 1 > 0
    BY <2>3
  <2> QED
    BY <1>1, <2>2, <2>4, DummyTaken, RequestTaken
<1>2. CASE IndexerIdle \/ IndexerWake
  BY <1>2, ProjectWaits
<1>3. CASE ParseFails \/ Parse \/ SeenFile
  BY <1>3, ProjectParsed
<1>4. CASE Store
  BY <1>4, ProjectStored
<1>5. CASE Finish
  BY <1>5, ProjectFinished
<1> QED
  BY <1>1, <1>2, <1>3, <1>4, <1>5 DEF Indexer

LEMMA ProjectKept ==
  ASSUME RunInv, [NextServer]_serverVars, mode' /= "server"
  PROVE  ProjectOnly'
<1>1. PhaseInv /\ (mode /= "server" => ProjectOnly)
  BY DEF RunInv
<1>2. CASE UNCHANGED serverVars
  <2>1. mode /= "server"
    BY <1>2 DEF serverVars, mainVars
  <2> QED
    BY <1>1, <1>2, <2>1, ProjectSame
    DEF serverVars, mainVars, progressVars, stats, vfsVars, cacheVars
<1>3. CASE Starting
  <2>1. \E name : InitializeStep(name)
    BY <1>3 DEF Starting, InitializeReply, InitializeLoad, InitializeRescan, InitializeIndex,
                InitializeSpawn
  <2>2. mode /= "server"
    BY <2>1 DEF InitializeStep
  <2> QED
    BY <1>3, <2>2, ProjectLoaded, ProjectStarting, ProjectIndexed DEF Starting
<1>4. CASE Messages
  BY <1>4, MessageInServer
<1>5. CASE Indexer
  <2>1. mode /= "server"
    BY <1>5, IndexerIsOn
  <2> QED
    BY <1>5, <2>1, ProjectIndexer
<1>6. CASE Scan \/ ProgressReport \/ \E path \in Written : Write(path)
  <2>1. ~ProgressReport
    <3>1. ProgressReport => mode = "server" /\ mode' = mode
      BY DEF ProgressReport, IsServing, mainVars
    <3> QED
      BY <3>1
  <2>2. UNCHANGED <<open, answers, stamp, failed, completed, enqueued, step,
                     workspaceFolders, root2folder, dirs, index_request, indexer, content,
                     blob, phase, mode>>
    BY <1>6, <2>1 DEF Scan, Write, mainVars, progressVars, stats, vfsVars, cacheVars
  <2> QED
    BY <1>1, <2>2, ProjectSame
<1>7. CASE Start
  <2>1. mode = "none" /\ step = 0 /\ step' = 0 /\ phase' = "starting"
    BY <1>1, <1>7 DEF Start, PhaseInv
  <2>2. UNCHANGED <<open, answers, stamp, failed, completed, enqueued, step,
                     workspaceFolders, root2folder, dirs, index_request, indexer, content,
                     blob>>
    BY <1>7, <2>1 DEF Start, progressVars, stats, vfsVars, cacheVars
  <2> QED
    BY <1>1, <2>1, <2>2, ProjectSame
<1>8. CASE exit \/ StandaloneDone
  <2>1. /\ mode /= "server" /\ completed = enqueued
        /\ UNCHANGED <<open, answers, stamp, failed, completed, enqueued, step,
                     workspaceFolders, root2folder, dirs, index_request, indexer, content,
                     blob>>
    BY <1>8 DEF exit, StandaloneDone, Quit, progressVars, stats, vfsVars, cacheVars
  <2> QED
    BY <1>1, <2>1, ProjectSame
<1>9. CASE Down \/ Crash
  BY <1>9, FreshProject DEF Down, Crash
<1> QED
  BY <1>2, <1>3, <1>4, <1>5, <1>6, <1>7, <1>8, <1>9 DEF NextServer, Starting, Messages

\* The project files on disk only move on.
LEMMA LayoutKept ==
  ASSUME layout \in Nat \ {0}, [NextServer]_serverVars
  PROVE  layout' \in Nat \ {0}
<1>1. layout' = layout \/ layout' \in layout..Len(Layouts)
  BY DEF NextServer, Start, InitializeReply, InitializeLoad, InitializeSpawn,
         InitializeRescan, InitializeIndex, didOpen, didSave, didChangeWatchedFiles,
         didChangeConfiguration, didChangeWorkspaceFolders, Indexer, IndexerTake,
         IndexerIdle, IndexerWake, ParseFails, Parse, SeenFile, Store, Finish, Unmoved, Scan,
         ProgressReport, exit, StandaloneDone, Quit, Down, Crash, Fresh, Write, worldVars,
         serverVars
<1>2. Len(Layouts) \in Nat
  BY LayoutsAssumption
<1> QED
  BY <1>1, <1>2

\* Every step of the server keeps what a run has come to.
THEOREM RunInductive == SpecServer => []RunInv
<1>1. InitServer => RunInv
  <2> SUFFICES ASSUME InitServer PROVE RunInv
    OBVIOUS
  <2>1. CacheInv
    BY CacheInit
  <2>2. indexer.pc = "off"
    BY DEF InitServer, NoJob
  <2>3. PhaseInv
    BY <2>2 DEF InitServer, PhaseInv
  <2>4. NotYet /\ completed \in Nat
    BY <2>2 DEF InitServer, Init, NotYet, Busy
  <2>5. stamp \in [Paths -> Nat]
    BY DEF InitServer
  <2>6. ProjectOnly
    BY <2>4, <2>5 DEF InitServer, ProjectOnly
  <2> QED
    BY <2>1, <2>3, <2>6 DEF InitServer, RunInv
<1>2. RunInv /\ [NextServer]_serverVars => PhaseInv' /\ layout' \in Nat \ {0}
  BY PhaseKept, LayoutKept DEF RunInv
<1>3. RunInv /\ [NextServer]_serverVars /\ mode' /= "server" => ProjectOnly'
  BY ProjectKept
<1>4. RunInv /\ [NextServer]_serverVars /\ mode' = "server"
        => ResultInv' /\ (step' = 0 => answers' = <<>>)
  BY ServerKept
<1>5. RunInv /\ [NextServer]_serverVars /\ CacheInv' => RunInv'
  BY <1>2, <1>3, <1>4 DEF RunInv
<1> QED
  BY <1>1, <1>5, CacheInductive, PTL DEF SpecServer

\* Whatever the next requests of initialize's id fail with, its result went out before
\* them.
THEOREM ResultFirstHolds == SpecServer => []ResultFirst
<1>1. RunInv => ResultFirst
  <2> SUFFICES ASSUME RunInv, answers /= <<>> PROVE answers[1] = "result"
    BY DEF ResultFirst
  <2>1. mode = "server" /\ step /= 0 /\ step \in 0..5
    BY DEF RunInv, ProjectOnly, PhaseInv
  <2> QED
    BY <2>1 DEF RunInv, ResultInv
<1> QED
  BY <1>1, RunInductive, PTL

\* When standalone() has counted every request out, each file of the project has an
\* index in the cache that is no older than the file was when its turn came, unless
\* clang failed on it: whatever an earlier run or a crash has left in the cache, and
\* whichever files are written meanwhile.
THEOREM StandaloneCompleteHolds == SpecServer => []StandaloneComplete
<1>1. RunInv => StandaloneComplete
  <2> SUFFICES ASSUME RunInv, mode = "standalone", phase = "quitting", NEW path \in Paths,
                      Listed(path), matches(path)
               PROVE  Done(path)
    BY DEF StandaloneComplete, Done
  <2>1. ProjectOnly /\ step = 5
    BY DEF RunInv, PhaseInv
  <2>2. QueueInv /\ FilesTaken /\ completed = enqueued /\ completed \in Nat
    BY <2>1 DEF ProjectOnly, QueueInv
  <2>3. PICK n \in Nat : /\ Left = n + (IF Busy THEN 1 ELSE 0)
                         /\ n = IF index_request = <<>> THEN 0 ELSE Len(index_request) - 1
    BY <2>2, LeftIs
  <2>4. enqueued = completed + Left
    BY <2>2 DEF QueueInv
  <2>5. n = 0 /\ ~Busy
    <3>1. completed = completed + Left /\ completed \in Nat
      BY <2>2, <2>4
    <3>2. CASE Busy
      BY <2>3, <3>1, <3>2
    <3>3. CASE ~Busy
      <4>1. Left = n + 0
        BY <2>3, <3>3
      <4>2. n = 0
        BY <3>1, <4>1
      <4> QED
        BY <3>3, <4>2
    <3> QED
      BY <3>2, <3>3
  <2>6. ~UnderWay(path)
    BY <2>5 DEF UnderWay, Busy
  <2>7. ~Waiting(path)
    <3>1. CASE index_request = <<>>
      <4>1. Len(<<>>) = 0
        OBVIOUS
      <4> QED
        BY <3>1, <4>1 DEF Waiting
    <3>2. CASE index_request /= <<>>
      <4>1. IsProjectQueue(index_request, Len(index_request) - 1)
        BY <2>2, <3>2 DEF QueueInv
      <4>2. Len(index_request) - 1 = 0
        BY <2>3, <2>5, <3>2
      <4>3. IsProjectQueue(index_request, 0)
        BY <4>1, <4>2, Zenon
      <4>4. Len(index_request) = 1 /\ index_request[1].path = NoPath
        BY <4>3 DEF IsProjectQueue
      <4>5. NoPath \notin Paths /\ \A i \in 1..1 : i = 1
        BY LayoutsAssumption
      <4> QED
        BY <4>4, <4>5 DEF Waiting
    <3> QED
      BY <3>1, <3>2
  <2> QED
    BY <2>2, <2>6, <2>7 DEF FilesTaken
<1> QED
  BY <1>1, RunInductive, PTL
=============================================================================
