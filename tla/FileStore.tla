----------------------------- MODULE FileStore ------------------------------
(* The files of captures on disk, from the dumper of a capture worker        *)
(* (src/rxcapturesession.cpp, rxstorageutils.cpp) through the filter thread  *)
(* to the cleanup thread (src/rxcleanupthread.cpp): segments, raw and        *)
(* filtered files, archives, retention and the cleanup thread's own record   *)
(* files. The manager only passes file names on. One packet, and one record  *)
(* line, is one unit of size; one tick of the clock is one second.           *)
EXTENDS Integers, Sequences, FiniteSets, SequencesExt, FiniteSetsExt

CONSTANTS NumWorkers, NoJob,
          Requests,     \* captures one may ask for: [target, kind, seq]
          MaxCaptures,  \* captures
          MaxPackets,   \* packets of a capture that are written
          StartTime, MaxTime,      \* clock
          MaxCrashes,   \* ends of the process
          MaxFaults,    \* failures of the file system
          Minute,       \* ticks that expand to the same {date}
          MaxBytes,     \* max_bytes of every capture
          BatchCount, BatchSize,   \* batch_compress_file_count, _size_mb
          RemoveSource,            \* archive_remove_source
          KeepTime, MaxTotal,      \* archive_keep_days, archive_max_total_size_mb, 0 is no limit
          RecordMax, RecordFiles,  \* RECORD_MAX_SIZE_BYTES, RECORD_MAX_FILES
          OldArchives, OldRecords  \* what earlier runs of the program left behind

ASSUME StoreAssumption ==
    /\ {MaxCaptures, MaxTime, MaxCrashes, MaxFaults, BatchSize, KeepTime, MaxTotal} \subseteq Nat
    /\ {NumWorkers, MaxPackets, StartTime, Minute, MaxBytes, BatchCount, RecordMax} \subseteq Nat \ {0}
    /\ StartTime <= MaxTime
    /\ RecordFiles \in Nat /\ RecordFiles >= 2
    /\ RemoveSource \in BOOLEAN
    /\ \A r \in Requests : r.kind \in {"plain", "pdef", "inline"} /\ r.seq \in BOOLEAN

\* A file gets its name when it is rotated and its time when it is last written,
\* so the next file is not older than the name of the one before; t is the time.
RecordsInOrder(files, t) ==
    /\ DOMAIN files \subseteq 0..t
    /\ \A f \in DOMAIN files : files[f].mtime \in 0..t /\ (f # 0 => files[f].mtime <= f)
    /\ \A f \in DOMAIN files : files[f].size \in 0..Cardinality(files[f].lines)
    /\ \A f, g \in DOMAIN files : f # 0 /\ (g = 0 \/ f < g) => f <= files[g].mtime

\* cleanup.log has the newest of the n lines, and the files have the newest
\* RecordMax of them.
CurrentNewest(files, n) == 0 \in DOMAIN files => \E k \in 0..n : files[0].lines = (k + 1)..n
NewestKept(files, n) ==
    \A i \in 1..n : i > n - RecordMax => \E f \in DOMAIN files : i \in files[f].lines

OldLines == Cardinality(UNION {OldRecords[f].lines : f \in DOMAIN OldRecords})

\* Earlier runs left archives and record files of earlier times, the record
\* files as this program leaves them, however many.
ASSUME OldFilesAssumption ==
    /\ IsFiniteSet(DOMAIN OldArchives)
    /\ \A a \in DOMAIN OldArchives : a.at \in 0..(StartTime - 1) /\ OldArchives[a].mtime \in Nat
    /\ RecordsInOrder(OldRecords, StartTime)
    /\ OldLines \in Nat /\ CurrentNewest(OldRecords, OldLines) /\ NewestKept(OldRecords, OldLines)

Workers == 1..NumWorkers

VARIABLES now,       \* time(NULL)
          started,   \* captures started so far
          disk,      \* capture files: path -> [ino, pkts]
          job,       \* dumper context of each worker
          rawQ,      \* raw files on their way to the filter thread
          readyQ,    \* finished files on their way to the cleanup thread
          pending,   \* pending_files_
          step,      \* where the cleanup thread is: "idle", before the "prune" or the
                     \* "line" of record_file_metadata, or compressing a "batch"
          groups,    \* files still to be compressed in this batch
          removing,  \* files of the group just compressed, still to be removed
          archives,  \* archive_dir: name -> [mtime, pkts]
          recFiles,  \* record files: name -> [lines, size, mtime], 0 is cleanup.log; lines
                     \* are those appended to it, size counts those that got to the disk
          recSize,   \* current_record_size_, -1 while record_file_path_ is empty
          lines,     \* history: record lines appended
          missed,    \* history: removals of record files that failed or were left out
                     \* since they last all went well
          opens,     \* history: path -> times the file was opened, and so cut to nothing
          owner,     \* history: path -> the only capture that has named it, 0 after another
          got,       \* history: packets written, with the path and the opening they went to
          dropped,   \* history: packets a filter rejected, or that a failed write or the end
                     \* of the process lost
          crashes, faults

captureVars == <<started, disk, job, rawQ, opens, owner, got>>
recordVars == <<recFiles, recSize, lines, missed>>
cleanupVars == <<pending, step, groups, removing, archives, recordVars>>
vars == <<now, captureVars, readyQ, cleanupVars, dropped, crashes, faults>>

Excess(n, limit) == IF n > limit THEN n - limit ELSE 0

Init ==
    /\ now = StartTime /\ started = 0 /\ crashes = 0 /\ faults = 0
    /\ disk = <<>> /\ opens = <<>> /\ owner = <<>> /\ archives = OldArchives /\ recFiles = OldRecords
    /\ job = [w \in Workers |-> NoJob]
    /\ rawQ = <<>> /\ readyQ = <<>> /\ pending = <<>> /\ groups = {} /\ removing = {} /\ step = "idle"
    /\ recSize = -1
    /\ lines = OldLines
    /\ missed = Excess(Cardinality(DOMAIN OldRecords \ {0}), RecordFiles)
    /\ got = {} /\ dropped = {}

\* A partial function with x mapped to y, and without the keys K.
Put(f, x, y) == [z \in DOMAIN f \cup {x} |-> IF z = x THEN y ELSE f[z]]
Without(f, K) == [z \in DOMAIN f \ K |-> f[z]]

\* The file system refuses what the code tries n times.
Fail(n) == faults + n <= MaxFaults /\ faults' = faults + n

-----------------------------------------------------------------------------
(* Capture worker. *)

\* expand_pattern: {date} counts minutes of the start time; {seq} is there or
\* not; a capture with a PDEF file gets the suffix _raw, an inline one does not.
ExpandPattern(j) ==
    [target |-> j.target, at |-> j.start \div Minute, seq |-> IF j.seq THEN j.n ELSE 0,
     ext |-> IF j.kind = "pdef" THEN "raw" ELSE ""]

OpenCount(path) == (IF path \in DOMAIN opens THEN opens[path] ELSE 0) + 1

\* pcap_dump_open: an existing file is cut to nothing and stays the same inode.
DumpOpened(path, first) ==
    Put(disk, path, [ino |-> IF path \in DOMAIN disk THEN disk[path].ino ELSE OpenCount(path),
                     pkts |-> first])
CountOpen(path) == opens' = Put(opens, path, OpenCount(path))

\* Capture c takes path as the file it writes.
Name(c, path) ==
    owner' = Put(owner, path, IF path \in DOMAIN owner /\ owner[path] # c THEN 0 ELSE c)

\* Packet k through the dumper of j; a file that was removed keeps no packet.
Dump(j, k) ==
    IF j.path \in DOMAIN disk /\ disk[j.path].ino = j.ino
    THEN [disk EXCEPT ![j.path].pkts = @ \cup {k}] ELSE disk

\* Mutant: the path is expanded before seq counts the new segment.
NextSegmentStale(j) == [j EXCEPT !.n = @ + 1, !.written = 0, !.path = ExpandPattern(j)]

\* rotate_open: the next segment, in the same file when the pattern has no {seq}.
NextSegment(j) ==
    LET k == [j EXCEPT !.n = @ + 1, !.written = 0] IN [k EXCEPT !.path = ExpandPattern(k)]

\* prepare on the next worker: dispatch_task_to_worker takes them in turn.
Prepare(w, r) ==
    /\ w = (started % NumWorkers) + 1 /\ job[w] = NoJob
    /\ started < MaxCaptures
    /\ started' = started + 1
    /\ LET j == NextSegment([cap |-> started + 1, target |-> r.target, kind |-> r.kind, seq |-> r.seq,
                             start |-> now, n |-> 0, written |-> 0, path |-> <<>>, ino |-> 0,
                             packets |-> 0])
       IN \/ /\ disk' = DumpOpened(j.path, {})
             /\ CountOpen(j.path) /\ Name(j.cap, j.path)
             /\ job' = [job EXCEPT ![w] = [j EXCEPT !.ino = disk'[j.path].ino]]
             /\ UNCHANGED faults
          \/ Fail(1) /\ UNCHANGED <<disk, opens, owner, job>>
    /\ UNCHANGED <<now, rawQ, readyQ, cleanupVars, got, dropped, crashes>>

Packet(j) == [cap |-> j.cap, no |-> j.packets + 1]
Delivered(j) == [j EXCEPT !.packets = @ + 1, !.written = @ + 1]
RotationDue(j) == j.ino # 0 /\ j.written + 1 > MaxBytes
PacketComes(w) == job[w] # NoJob /\ job[w].packets < MaxPackets
Got(id, path, open) == got' = got \cup {[id |-> id, path |-> path, open |-> open]}

\* pcap_dump tells nobody of a write that failed: packet k is then in no file.
Written(k, ok) ==
    IF ok THEN UNCHANGED <<dropped, faults>> ELSE Fail(1) /\ dropped' = dropped \cup {k}

\* dump_cb, straight to the file.
WritePacket(w) ==
    /\ PacketComes(w) /\ ~RotationDue(job[w]) /\ job[w].ino # 0
    /\ LET k == Packet(job[w]) IN
       \E ok \in BOOLEAN :
          /\ disk' = IF ok THEN Dump(job[w], k) ELSE disk
          /\ Got(k, job[w].path, opens[job[w].path])
          /\ Written(k, ok)
    /\ job' = [job EXCEPT ![w] = Delivered(@)]
    /\ UNCHANGED <<now, started, rawQ, readyQ, cleanupVars, opens, owner, crashes>>

\* dump_cb when the packet does not fit: it is the first one of the next segment.
RotateAndWrite(w) ==
    /\ PacketComes(w) /\ RotationDue(job[w])
    /\ LET j == NextSegment(job[w])
           k == Packet(j)
       IN \E ok \in BOOLEAN :
             /\ disk' = DumpOpened(j.path, IF ok THEN {k} ELSE {})
             /\ CountOpen(j.path) /\ Name(j.cap, j.path)
             /\ job' = [job EXCEPT ![w] = Delivered([j EXCEPT !.ino = disk'[j.path].ino])]
             /\ Got(k, j.path, OpenCount(j.path))
             /\ Written(k, ok)
    /\ UNCHANGED <<now, started, rawQ, readyQ, cleanupVars, crashes>>

\* The next segment cannot be opened: the packet is skipped, the dumper is gone,
\* and current_path, which Finish reports, already names the segment.
RotateFails(w) ==
    /\ PacketComes(w) /\ RotationDue(job[w])
    /\ Fail(1)
    /\ LET j == NextSegment(job[w])
       IN /\ job' = [job EXCEPT ![w] = [j EXCEPT !.ino = 0]]
          /\ Name(j.cap, j.path)
    /\ UNCHANGED <<now, started, disk, rawQ, readyQ, cleanupVars, opens, got, dropped, crashes>>

\* The process ends and a new one starts a second later. Its memory is gone,
\* and of the files still open only what was flushed before (a packet number).
ProcessEnds(flushed) ==
    /\ crashes < MaxCrashes /\ now < MaxTime
    /\ crashes' = crashes + 1
    /\ now' = now + 1
    /\ LET open == {job[w].path : w \in {v \in Workers : job[v] # NoJob /\ job[v].ino # 0}}
           cut == {k \in UNION {disk[p].pkts : p \in open \cap DOMAIN disk} : k.no > flushed}
       IN /\ disk' = [p \in DOMAIN disk |->
                        IF p \in open THEN [disk[p] EXCEPT !.pkts = @ \ cut] ELSE disk[p]]
          /\ dropped' = dropped \cup cut
    /\ job' = [w \in Workers |-> NoJob]
    /\ rawQ' = <<>> /\ readyQ' = <<>> /\ pending' = <<>> /\ groups' = {} /\ removing' = {} /\ step' = "idle"
    /\ recSize' = -1
    /\ missed' = IF step = "prune" THEN missed + 1 ELSE missed
    /\ UNCHANGED <<started, archives, recFiles, lines, opens, owner, got, faults>>

\* A packet after a failed rotation: pcap_dump gets no file and the process dies.
DumpWithoutFile(w, flushed) == PacketComes(w) /\ job[w].ino = 0 /\ ProcessEnds(flushed)

\* cleanup and the rest of execute_capture: only the last path is reported.
Finish(w) ==
    /\ job[w] # NoJob
    /\ job' = [job EXCEPT ![w] = NoJob]
    /\ LET msg == [cap |-> job[w].cap, path |-> job[w].path]
       IN IF job[w].kind = "plain" THEN readyQ' = Append(readyQ, msg) /\ UNCHANGED rawQ
                                   ELSE rawQ' = Append(rawQ, msg) /\ UNCHANGED readyQ
    /\ UNCHANGED <<now, started, disk, cleanupVars, opens, owner, got, dropped, crashes, faults>>

-----------------------------------------------------------------------------
(* Filter thread: handle_raw_file. The manager lists the filtered file and   *)
(* does not pass it on to the cleanup thread.                                *)

FilteredPath(path) ==
    IF path.ext = "raw" THEN [path EXCEPT !.ext = ""] ELSE [path EXCEPT !.ext = "filtered"]

\* The packets that match go to the filtered file, then the raw file is removed,
\* whatever became of the writes (lost) and whether or not it can be (stays).
\* A process that ends on the way has done no more than when the raw file stays.
FilterFile ==
    /\ rawQ # <<>>
    /\ rawQ' = Tail(rawQ)
    /\ LET raw == Head(rawQ).path
           out == FilteredPath(raw)
       IN /\ raw \in DOMAIN disk
          /\ \E match \in SUBSET disk[raw].pkts : \E lost \in SUBSET match, stays \in BOOLEAN :
                /\ Fail((IF lost = {} THEN 0 ELSE 1) + (IF stays THEN 1 ELSE 0))
                /\ disk' = Without(DumpOpened(out, match \ lost), IF stays THEN {} ELSE {raw})
                /\ dropped' = IF stays THEN dropped
                              ELSE dropped \cup (disk[raw].pkts \ (match \ lost))
          /\ CountOpen(out) /\ Name(Head(rawQ).cap, out)
    /\ UNCHANGED <<now, started, job, readyQ, cleanupVars, got, crashes>>

\* The PDEF file, the raw file or the output cannot be opened: nothing happens.
FilterGivesUp ==
    /\ rawQ # <<>>
    /\ rawQ' = Tail(rawQ)
    /\ IF Head(rawQ).path \in DOMAIN disk THEN Fail(1) ELSE UNCHANGED faults
    /\ UNCHANGED <<now, started, disk, job, readyQ, cleanupVars, opens, owner, got, dropped, crashes>>

-----------------------------------------------------------------------------
(* Cleanup thread: enqueue_files, which writes a record line for the file at *)
(* the head of readyQ in several steps and then lets it wait in pending.     *)

\* current_record_size_, read from the file the first time.
RecordSize ==
    IF recSize # -1 THEN recSize ELSE IF 0 \in DOMAIN recFiles THEN recFiles[0].size ELSE 0
RecordFull == RecordSize + 1 > RecordMax

Enqueued == readyQ' = Tail(readyQ) /\ pending' = Append(pending, Head(readyQ))
Recording(at) == step = at /\ readyQ # <<>>
otherVars == <<now, captureVars, groups, removing, archives, dropped, crashes>>

\* record_dir is not there: the file waits without a line.
RecordDirMissing ==
    /\ Recording("idle") /\ Fail(1)
    /\ Enqueued
    /\ UNCHANGED <<otherVars, step, recordVars>>

\* The line still goes into cleanup.log.
RecordFits ==
    /\ Recording("idle") /\ ~RecordFull
    /\ step' = "line" /\ recSize' = RecordSize
    /\ UNCHANGED <<otherVars, readyQ, pending, recFiles, lines, missed, faults>>

\* rotate_record_file_if_needed, up to the rename: a second rotation in one
\* second replaces the first one's file.
RotateRecord ==
    /\ Recording("idle") /\ RecordFull /\ 0 \in DOMAIN recFiles
    /\ recFiles' = Put(Without(recFiles, {0}), now, recFiles[0])
    /\ step' = "prune" /\ recSize' = 0
    /\ UNCHANGED <<otherVars, readyQ, pending, lines, missed, faults>>

\* The rename fails, for one because there is no cleanup.log.
RotateRecordFails ==
    /\ Recording("idle") /\ RecordFull
    /\ IF 0 \in DOMAIN recFiles THEN Fail(1) ELSE UNCHANGED faults
    /\ step' = "line" /\ recSize' = 0
    /\ UNCHANGED <<otherVars, readyQ, pending, recFiles, lines, missed>>

\* Mutant: the sort is the other way round.
PruneYoungRecords(files) ==
    LET over == Excess(Cardinality(DOMAIN files), RecordFiles)
        youngest(R) == \A f \in R, g \in DOMAIN files \ R : files[f].mtime >= files[g].mtime
    IN {R \in kSubset(over, DOMAIN files) : youngest(R)}

\* What prune_record_files tries to remove: all but the RecordFiles youngest,
\* files of one age in any order.
PruneRecords(files) ==
    LET over == Excess(Cardinality(DOMAIN files), RecordFiles)
        oldest(R) == \A f \in R, g \in DOMAIN files \ R : files[f].mtime <= files[g].mtime
    IN {R \in kSubset(over, DOMAIN files) : oldest(R)}

\* prune_record_files: it cannot list the directory, or the files stuck stay.
PruneRecordFiles ==
    /\ Recording("prune")
    /\ step' = "line"
    /\ \/ Fail(1) /\ missed' = missed + 1 /\ UNCHANGED recFiles
       \/ \E R \in PruneRecords(recFiles) : \E stuck \in SUBSET R :
             /\ Fail(Cardinality(stuck))
             /\ recFiles' = Without(recFiles, R \ stuck)
             /\ missed' = Cardinality(stuck)
    /\ UNCHANGED <<otherVars, readyQ, pending, recSize, lines>>

\* cleanup.log with one more line, which gets to the disk or not.
WithLine(flushed) ==
    LET log == IF 0 \in DOMAIN recFiles THEN recFiles[0] ELSE [lines |-> {}, size |-> 0, mtime |-> now]
    IN Put(recFiles, 0, [lines |-> log.lines \cup {lines + 1},
                         size |-> IF flushed THEN log.size + 1 ELSE log.size,
                         mtime |-> IF flushed THEN now ELSE log.mtime])

\* The end of record_file_metadata: fopen fails, or the line is appended. It is
\* counted unless fwrite fails, and lost but counted when fclose fails.
RecordLine ==
    /\ Recording("line")
    /\ step' = "idle"
    /\ Enqueued
    /\ \/ /\ recFiles' = WithLine(TRUE) /\ recSize' = recSize + 1 /\ lines' = lines + 1
          /\ UNCHANGED faults
       \/ /\ Fail(1)
          /\ recFiles' = WithLine(FALSE) /\ recSize' \in {recSize, recSize + 1} /\ lines' = lines + 1
       \/ Fail(1) /\ UNCHANGED <<recFiles, recSize, lines>>
    /\ UNCHANGED <<otherVars, missed>>

CleanupEnqueue ==
    \/ RecordDirMissing \/ RecordFits \/ RotateRecord \/ RotateRecordFails
    \/ PruneRecordFiles \/ RecordLine

-----------------------------------------------------------------------------
(* Cleanup thread: the timer, do_cleanup. *)

SizeOf(path) == IF path \in DOMAIN disk THEN Cardinality(disk[path].pkts) ELSE 0
BatchFull ==
    /\ pending # <<>>
    /\ \/ Len(pending) >= BatchCount
       \/ FoldSeq(LAMBDA e, n : n + SizeOf(e.path), 0, pending) >= BatchSize

\* Mutant: only the first capture's files are grouped.
BatchOfFirst == {e \in Range(pending) : e.cap = pending[1].cap}

\* The groups of a batch: all files that wait.
Batch == Range(pending)

\* process_pending_files when there is enough to compress, up to the groups.
CleanupTimer ==
    /\ step = "idle" /\ BatchFull
    /\ step' = "batch"
    /\ groups' = Batch
    /\ pending' = <<>>
    /\ UNCHANGED <<now, captureVars, readyQ, removing, archives, recordVars, dropped, crashes, faults>>

\* Mutant: the result of tar is not looked at.
SourcesAnyway(files, ok) == IF RemoveSource THEN files ELSE {}

\* The sources are removed once tar has succeeded.
Sources(files, ok) == IF RemoveSource /\ ok THEN files ELSE {}

\* compress_batch for the group of one capture, in the order of the capture ids,
\* up to the result of tar. tar fails when a file is missing, and leaves an
\* archive of the others; any other failure, that of archive_dir or of tar's
\* start included, leaves an archive of some files or none.
CleanupGroup ==
    /\ groups # {} /\ removing = {}
    /\ LET id == Min({e.cap : e \in groups})
           files == {e \in groups : e.cap = id}
           paths == {e.path : e \in files}
           there == paths \cap DOMAIN disk
           name == [prefix |-> "batch", at |-> now, id |-> id]
           archive(P) == Put(archives, name, [mtime |-> now, pkts |-> UNION {disk[p].pkts : p \in P}])
       IN /\ groups' = groups \ files
          /\ \/ /\ archives' = archive(there)
                /\ removing' = Sources(files, there = paths)
                /\ UNCHANGED faults
             \/ /\ Fail(1)
                /\ archives' \in {archives} \cup {archive(P) : P \in SUBSET there}
                /\ removing' = Sources(files, FALSE)
    /\ UNCHANGED <<now, captureVars, readyQ, pending, step, recordVars, dropped, crashes>>

\* The end of compress_batch: the sources go, but for those stuck.
RemoveSources ==
    /\ removing # {}
    /\ removing' = {}
    /\ \E stuck \in SUBSET ({e.path : e \in removing} \cap DOMAIN disk) :
          /\ Fail(IF stuck = {} THEN 0 ELSE 1)
          /\ disk' = Without(disk, {e.path : e \in removing} \ stuck)
    /\ UNCHANGED <<now, started, job, rawQ, readyQ, pending, step, groups, archives, recordVars,
                   opens, owner, got, dropped, crashes>>

TotalSize(names) == MapThenSumSet(LAMBDA a : Cardinality(archives[a].pkts), names)

\* Mutant: a total equal to the limit is too much.
TakenAtLimit(s, stuck) ==
    LET left(n) == Range(s) \ ({s[i] : i \in 1..n} \ stuck)
    IN IF MaxTotal = 0 THEN 0
       ELSE Min({n \in 0..Len(s) : n = Len(s) \/ TotalSize(left(n)) < MaxTotal})

\* How many of the archives s, oldest first, are tried for the total size when
\* those of stuck cannot be removed.
Taken(s, stuck) ==
    LET left(n) == Range(s) \ ({s[i] : i \in 1..n} \ stuck)
    IN IF MaxTotal = 0 THEN 0
       ELSE Min({n \in 0..Len(s) : n = Len(s) \/ TotalSize(left(n)) <= MaxTotal})

CaptureArchives == {a \in DOMAIN archives : a.prefix = "capture"}
Cutoff == IF KeepTime = 0 \/ KeepTime > now THEN 0 ELSE now - KeepTime
Expired == {a \in CaptureArchives : Cutoff # 0 /\ archives[a].mtime < Cutoff}
ByAge(names) ==
    {s \in SetToSeqs(names) :
        \A i, k \in DOMAIN s : i < k => archives[s[i]].mtime <= archives[s[k]].mtime}

\* prune_archives: of the files named capture_ it removes those that are too old,
\* then the oldest of the rest while they are too large together; it goes on
\* after one that is stuck, and does nothing when it cannot list archive_dir. It
\* ends the timer, and is all the timer does when there is not enough to compress.
PruneArchives ==
    /\ groups = {} /\ removing = {}
    /\ step = "batch" \/ (step = "idle" /\ ~BatchFull)
    /\ step' = "idle"
    /\ \/ Fail(1) /\ UNCHANGED archives
       \/ \E s \in ByAge(CaptureArchives \ Expired), stuck \in SUBSET CaptureArchives :
             LET tried == Expired \cup {s[i] : i \in 1..Taken(s, stuck)}
             IN /\ stuck \subseteq tried
                /\ Fail(Cardinality(stuck))
                /\ archives' = Without(archives, tried \ stuck)
    /\ UNCHANGED <<now, captureVars, readyQ, pending, groups, removing, recordVars, dropped, crashes>>

-----------------------------------------------------------------------------
Tick == now < MaxTime /\ now' = now + 1
        /\ UNCHANGED <<captureVars, readyQ, cleanupVars, dropped, crashes, faults>>

CleanupFiles == CleanupEnqueue \/ CleanupTimer \/ CleanupGroup \/ RemoveSources
CleanupThread == CleanupFiles \/ PruneArchives

Next ==
    \/ Tick
    \/ \E w \in Workers :
          \/ \E r \in Requests : Prepare(w, r)
          \/ WritePacket(w) \/ RotateAndWrite(w) \/ RotateFails(w) \/ Finish(w)
          \/ \E n \in 0..MaxPackets : DumpWithoutFile(w, n)
    \/ \E n \in 0..MaxPackets : ProcessEnds(n)
    \/ FilterFile \/ FilterGivesUp
    \/ CleanupThread

\* The cleanup thread goes on with its messages and its timer, which it arms
\* again each time (handle_timeout); nothing makes captures start, end or fail.
Spec == Init /\ [][Next]_vars /\ WF_vars(CleanupFiles)

-----------------------------------------------------------------------------
(* Properties. *)

Paths == [target : {r.target : r \in Requests}, at : {t \div Minute : t \in StartTime..MaxTime},
          seq : 0..MaxPackets, ext : {"", "raw", "filtered"}]
Packets == [cap : 1..MaxCaptures, no : 1..MaxPackets]
FileMsgs == [cap : 1..MaxCaptures, path : Paths]
Jobs == [cap : 1..MaxCaptures, target : {r.target : r \in Requests}, kind : {"plain", "pdef", "inline"},
         seq : BOOLEAN, start : StartTime..MaxTime, n : 1..MaxPackets, written : 0..MaxBytes, path : Paths,
         ino : Nat, packets : 0..MaxPackets]

DiskTyped ==
    /\ disk \in [DOMAIN disk -> [ino : Nat \ {0}, pkts : SUBSET {g.id : g \in got}]]
    /\ DOMAIN disk \subseteq DOMAIN opens
JobsTyped ==
    /\ job \in [Workers -> Jobs \cup {NoJob}]
    /\ \A w \in Workers : job[w] # NoJob =>
          /\ job[w].path = ExpandPattern(job[w])
          /\ job[w].n + job[w].written <= job[w].packets + 1
CleanupTyped ==
    /\ rawQ \in Seq(FileMsgs) /\ readyQ \in Seq(FileMsgs) /\ pending \in Seq(FileMsgs)
    /\ step \in {"idle", "prune", "line", "batch"}
    /\ groups \subseteq FileMsgs /\ removing \subseteq FileMsgs
    /\ (groups # {} \/ removing # {} => step = "batch") /\ (step = "batch" => pending = <<>>)
    /\ (step \in {"prune", "line"} => readyQ # <<>> /\ recSize \in 0..(RecordMax - 1))
    /\ IsFiniteSet(DOMAIN archives) /\ \A a \in DOMAIN archives : archives[a].mtime \in Nat
    /\ recSize \in -1..RecordMax /\ lines \in Nat /\ missed \in Nat

\* The state has its types; a running dumper writes to the path its pattern
\* expands to, files on disk have been opened and hold packets that came, and
\* nothing waits for compression during compression.
TypeOK ==
    /\ now \in StartTime..MaxTime /\ started \in 0..MaxCaptures
    /\ crashes \in 0..MaxCrashes /\ faults \in 0..MaxFaults
    /\ opens \in [DOMAIN opens -> Nat \ {0}] /\ owner \in [DOMAIN owner -> 0..started]
    /\ DOMAIN opens \subseteq DOMAIN owner /\ DOMAIN owner \subseteq Paths
    /\ got \subseteq [id : Packets, path : Paths, open : Nat] /\ dropped \subseteq {g.id : g \in got}
    /\ DiskTyped /\ JobsTyped /\ CleanupTyped

\* No other capture has named the file of packet g, opened or not, or the file
\* that a filter makes of it, and the file has not been opened again since, not
\* by a rotation of its own capture either.
Alone(g) ==
    /\ owner[g.path] = g.id.cap /\ g.open = opens[g.path]
    /\ FilteredPath(g.path) \in DOMAIN owner => owner[FilteredPath(g.path)] = g.id.cap
OnDisk == UNION {disk[p].pkts : p \in DOMAIN disk}
Archived == UNION {archives[a].pkts : a \in DOMAIN archives}

\* A packet is in a file or in an archive until its filter rejects it, its write
\* fails or the process dies with the file open, as long as no other capture names
\* its file and the file is not opened again: rotation to a new name, filtering, a
\* failed compression, a removal that fails and a process that ends between tar
\* and the removal of the sources lose none. (A pattern without {seq}, as the
\* default one is, opens the same file again in every rotation and loses the
\* segment before. A capture names the segment its rotation failed to open, and
\* what it reports is archived and removed under the capture that has it open.)
NothingLost == \A g \in got : Alone(g) => g.id \in OnDisk \cup Archived \cup dropped

\* Rotation and pruning of the record files never lose the file of one of the
\* newest RecordMax lines, and keep RecordFiles files and cleanup.log and one more
\* for each removal missed since a prune last went through, across failed renames,
\* failed removals and a process that ends between the rename and the prune.
RecordsKept ==
    /\ Cardinality(DOMAIN recFiles) <= RecordFiles + 1 + missed
    /\ NewestKept(recFiles, lines)

\* prune_archives keeps an archive older than one it removes only where a removal
\* failed; it takes an archive that is not too old only while those it has not
\* taken are above the limit; and when nothing fails, no archive that is too old
\* stays and the others are within the limit.
PruneExact ==
    [][LET gone == DOMAIN archives \ DOMAIN archives'
           kept == CaptureArchives \ gone
           fresh == kept \ Expired
       IN /\ Cardinality({b \in kept : \E a \in gone : archives[b].mtime < archives[a].mtime})
                <= faults' - faults
          /\ \A a \in gone \ Expired : \E b \in gone :
                archives[b].mtime >= archives[a].mtime /\ ~(TotalSize(fresh \cup {b}) <= MaxTotal)
          /\ PruneArchives /\ faults' = faults =>
                /\ kept \cap Expired = {}
                /\ MaxTotal = 0 \/ fresh = {} \/ TotalSize(fresh) <= MaxTotal]_vars

\* The packets of capture c in the file it reported.
Reported(c) ==
    LET mine == {g \in got : g.id.cap = c}
    IN {g \in mine : \E last \in mine : g.path = last.path /\ \A h \in mine : h.id.no <= last.id.no}

\* Once the files that wait are enough for a batch, and nothing fails any more,
\* the packets of each of them get into an archive, but for those whose write
\* failed and those of a file that another capture names or that is opened again.
BatchedFilesArchived ==
    \A c \in 1..MaxCaptures :
       (/\ faults = MaxFaults /\ crashes = MaxCrashes /\ Len(pending) >= BatchCount
        /\ \E e \in Range(pending) : e.cap = c /\ e.path \in DOMAIN disk)
       ~> (\A g \in Reported(c) : Alone(g) => g.id \in Archived \cup dropped)
-----------------------------------------------------------------------------
(* What the safety properties rest on: an inductive invariant. *)

Running == {w \in Workers : job[w] # NoJob}
JobFiles == {[cap |-> job[w].cap, path |-> job[w].path] : w \in Running}
ToCompress == Range(readyQ) \cup Range(pending) \cup groups
Waiting == Range(rawQ) \cup ToCompress
Held == JobFiles \cup Waiting \cup removing
CapsOf(files) == {e.cap : e \in files}

\* Only one thread has a capture's file, and enqueues it once.
CapturesApart ==
    /\ \A e \in Held : e.cap <= started
    /\ \A v, w \in Running : job[v].cap = job[w].cap => v = w
    /\ CapsOf(JobFiles) \cap CapsOf(Waiting \cup removing) = {}
    /\ \A i, k \in DOMAIN rawQ : rawQ[i].cap = rawQ[k].cap => i = k
    /\ CapsOf(Range(rawQ)) \cap CapsOf(ToCompress \cup removing) = {}
    /\ \A i, k \in DOMAIN readyQ : readyQ[i].cap = readyQ[k].cap => i = k
    /\ CapsOf(Range(readyQ)) \cap CapsOf(Range(pending) \cup groups) = {}

\* A file that two captures have has no owner.
NamesOwned ==
    \A e \in Held : e.path \in DOMAIN owner /\ owner[e.path] \in {e.cap, 0} /\ e.path.ext # "filtered"

\* A dumper's file is there as long as no other capture has it.
DumperHasFile ==
    \A w \in Running : job[w].ino # 0 =>
        /\ job[w].path \in DOMAIN opens
        /\ owner[job[w].path] = job[w].cap =>
              job[w].path \in DOMAIN disk /\ disk[job[w].path].ino = job[w].ino

\* An archive of this run is the only one of its capture, whose file went into
\* it, and a file that is to be removed is in one.
Batches == {a \in DOMAIN archives : a.prefix = "batch" /\ a.at >= StartTime}
InBatch(k) == \E a \in Batches : k \in archives[a].pkts
ArchivedOnce ==
    \A a \in Batches : a.id \in 1..started /\ a.id \notin CapsOf(JobFiles \cup ToCompress)
RemovedInBatch ==
    \A e \in removing : e.path \in DOMAIN disk /\ owner[e.path] = e.cap =>
        \A k \in disk[e.path].pkts : InBatch(k)

\* Where a packet is whose file only its capture has named and that was not
\* opened again: in that file, in an archive of this run, or in the filter's
\* output, which its capture, over by then, does not touch any more.
InFiltered(g) ==
    LET out == FilteredPath(g.path)
    IN /\ out \in DOMAIN owner
       /\ owner[out] = g.id.cap => /\ out \in DOMAIN disk /\ g.id \in disk[out].pkts
                                   /\ g.id.cap \notin CapsOf(Held)
PacketsKept ==
    \A g \in got :
       /\ g.id.cap <= started /\ g.path \in DOMAIN opens /\ g.open <= opens[g.path]
       /\ owner[g.path] = g.id.cap /\ g.open = opens[g.path] =>
             \/ g.path \in DOMAIN disk /\ g.id \in disk[g.path].pkts
             \/ g.id \in dropped \/ InBatch(g.id) \/ InFiltered(g)

\* The file that cleanup.log was renamed to has the newest lines.
LastHasNewest ==
    \E f \in DOMAIN recFiles :
       /\ \A g \in DOMAIN recFiles : g <= f
       /\ \A i \in 1..lines : i > lines - RecordMax => i \in recFiles[f].lines

\* The record files are in order, no more than the missed removals account for,
\* and current_record_size_ does not exceed what was appended to cleanup.log.
RecordsSound ==
    /\ RecordsInOrder(recFiles, now)
    /\ Cardinality(DOMAIN recFiles \ {0}) <= RecordFiles + missed + IF step = "prune" THEN 1 ELSE 0
    /\ step = "prune" => 0 \notin DOMAIN recFiles /\ LastHasNewest
    /\ CurrentNewest(recFiles, lines) /\ NewestKept(recFiles, lines)
    /\ recSize <= IF 0 \in DOMAIN recFiles THEN Cardinality(recFiles[0].lines) ELSE 0

\* The inductive invariant of the file store.
StoreInv ==
    /\ TypeOK /\ CapturesApart /\ NamesOwned /\ DumperHasFile /\ ArchivedOnce
    /\ RemovedInBatch /\ PacketsKept /\ RecordsSound
=============================================================================
