--------------------------- MODULE CaptureManager ----------------------------
(***************************************************************************)
(* The capture pipeline (src/rxcapturemanagerthread.cpp and the threads it *)
(* talks to).  HTTP threads and the sample thread post requests to the     *)
(* manager; the manager keeps the task table, hands captures to workers    *)
(* and follows them by the messages that come back; captures with a        *)
(* protocol definition (PDEF) go through the filter thread, the others'    *)
(* files through the cleanup thread.                                       *)
(*                                                                         *)
(* Every thread handles one message at a time from its own channel, a FIFO *)
(* queue here (MsgChannel shows that it is one).  A handler of the manager *)
(* is one action.  A handler of another thread that posts twice is as many *)
(* actions as it has posts, since other threads post in between.           *)
(***************************************************************************)
EXTENDS TaskTable, Sequences, Functions

CONSTANTS Conns,          \* HTTP connections; each carries one request
          Modules,        \* sampling rules that trigger captures
          Targets,        \* what a request can ask for, see TargetType
          Hint,           \* the target of each module, NoTarget if it has none
          PdefFiles,      \* PDEF files on disk
          InitialEndian,  \* the endianness each of them declares at first
          NumWorkers,     \* capture worker threads
          MaxConcurrent,  \* get_max_concurrent_limit()
          Cooldown,       \* cooldown_sec, in ticks
          FilterUp,       \* the filter thread has started
          CleanupUp,      \* the cleanup thread is registered
          MaxTime,        \* bound: ticks of the clock
          MaxAlerts,      \* bound: alerts the sample thread sends
          FirstId,        \* kCaptureIdStartValue
          NoConn, NoModule, NoTarget, NoFile

Workers == 0..(NumWorkers - 1)
Endians == {"big", "little"}

(* What handle_start_capture derives from a request: the task key, the       *)
(* signature (a hash of the whole specification without the inline text),    *)
(* the PDEF file and whether there is inline PDEF text.  The key is taken    *)
(* before the defaults are filled in and has fewer fields than the           *)
(* signature, so either can be equal while the other differs.  named: the    *)
(* request names a process or a pid, which may not exist.                    *)
TargetType(r) ==
  /\ r.pdef \in PdefFiles \cup {NoFile}
  /\ r.inline \in BOOLEAN
  /\ r.named \in BOOLEAN

ASSUME ManagerAssumption ==
  /\ \A r \in Targets : TargetType(r)
  /\ Hint \in [Modules -> Targets \cup {NoTarget}]
  /\ InitialEndian \in [PdefFiles -> Endians \cup {"auto"}]
  /\ NumWorkers \in Nat \ {0}
  /\ MaxConcurrent \in Nat \ {0}
  /\ Cooldown \in Nat \ {0}
  /\ FilterUp \in BOOLEAN /\ CleanupUp \in BOOLEAN
  /\ MaxTime \in Nat /\ MaxAlerts \in Nat /\ FirstId \in Nat
  /\ NoConn \notin Conns /\ NoModule \notin Modules
  /\ NoTarget \notin Targets /\ NoFile \notin PdefFiles

VARIABLES table,        \* capture_task_mgr(), see TaskTable
          nextId,       \* next_capture_id
          nextWorker,   \* next_worker, modulo the number of workers
          lastTrigger,  \* _module_last_trigger
          usage,        \* _pdef_usage_map
          endian,       \* the endianness each PDEF file on disk declares
          mgrQ, workerQ, filterQ, cleanupQ,   \* the threads' channels
          worker,       \* where each worker is in execute_capture
          filter,       \* where the filter thread is in handle_raw_file
          pending,      \* pending_files_, by capture id
          groups,       \* groups process_pending_files has still to compress
          reply,        \* what each connection has got
          now, alerts,  \* the clock; alerts sent so far
          lost          \* history: captures whose filtering was given up silently

vars == <<table, nextId, nextWorker, lastTrigger, usage, endian, mgrQ, workerQ,
          filterQ, cleanupQ, worker, filter, pending, groups, reply, now, alerts, lost>>

tableVars == <<table, nextId, nextWorker>>
pdefVars == <<usage, endian>>
threadVars == <<worker, filter, pending, groups>>
inputVars == <<now, alerts>>

Idle == [phase |-> "idle", auto |-> FALSE]

Init ==
  /\ table = EmptyTable
  /\ nextId = FirstId
  /\ nextWorker = 0
  /\ lastTrigger = EmptyMap
  /\ usage = [f \in PdefFiles |->
                [active |-> {}, endian |-> "unknown", needed |-> FALSE, done |-> FALSE]]
  /\ endian = InitialEndian
  /\ mgrQ = <<>> /\ filterQ = <<>> /\ cleanupQ = <<>>
  /\ workerQ = [w \in Workers |-> <<>>]
  /\ worker = [w \in Workers |-> "idle"]
  /\ filter = Idle
  /\ pending = {} /\ groups = {}
  /\ reply = [c \in Conns |-> "none"]
  /\ now = 0 /\ alerts = 0
  /\ lost = {}
-----------------------------------------------------------------------------
(* What comes in from outside: requests, alerts, time. *)

HttpStart(c, r) ==
  /\ reply[c] = "none"
  /\ reply' = [reply EXCEPT ![c] = "waiting"]
  /\ mgrQ' = Append(mgrQ, [type |-> "start", conn |-> c, target |-> r])
  /\ UNCHANGED <<tableVars, lastTrigger, pdefVars, workerQ, filterQ, cleanupQ,
                 threadVars, inputVars, lost>>

HttpStop(c) ==
  /\ reply[c] = "none"
  /\ reply' = [reply EXCEPT ![c] = "waiting"]
  /\ mgrQ' = Append(mgrQ, [type |-> "stop", conn |-> c])
  /\ UNCHANGED <<tableVars, lastTrigger, pdefVars, workerQ, filterQ, cleanupQ,
                 threadVars, inputVars, lost>>

\* The sample thread saw a rule of module m hold.
SampleAlert(m) ==
  /\ alerts < MaxAlerts
  /\ alerts' = alerts + 1
  /\ mgrQ' = Append(mgrQ, [type |-> "alert", module |-> m])
  /\ UNCHANGED <<tableVars, lastTrigger, pdefVars, workerQ, filterQ, cleanupQ,
                 threadVars, reply, now, lost>>

Tick ==
  /\ now < MaxTime
  /\ now' = now + 1
  /\ UNCHANGED <<tableVars, lastTrigger, pdefVars, mgrQ, workerQ, filterQ, cleanupQ,
                 threadVars, reply, alerts, lost>>
-----------------------------------------------------------------------------
(* The manager: handle_msg takes the oldest message and runs its handler. *)

Receives(type) == mgrQ # <<>> /\ Head(mgrQ).type = type

Dequeue == mgrQ' = Tail(mgrQ)

\* send_reply_to_http: a capture an alert has started has nobody to answer.
Reply(c, status) ==
  reply' = IF c = NoConn THEN reply ELSE [reply EXCEPT ![c] = status]

\* Mutant: the capacity check lets one capture too many in.
VerdictOffByOne(r) ==
  IF IsSignatureActive(table, r.sig) \/ IsKeyActive(table, r.key) THEN "409"
  ELSE IF table.count["running"] + table.count["resolving"] > MaxConcurrent THEN "429"
  ELSE "200"

\* Mutant: only the signature is compared with the active tasks.
VerdictBySignature(r) ==
  IF IsSignatureActive(table, r.sig) THEN "409"
  ELSE IF table.count["running"] + table.count["resolving"] >= MaxConcurrent THEN "429"
  ELSE "200"

\* handle_start_capture: duplicate by signature, duplicate by key, capacity.
Verdict(r) ==
  IF IsSignatureActive(table, r.sig) \/ IsKeyActive(table, r.key) THEN "409"
  ELSE IF table.count["running"] + table.count["resolving"] >= MaxConcurrent THEN "429"
  ELSE "200"

\* Mutant: the round-robin counter is not reduced modulo the workers.
WorkerAfterUnwrapped(w) == w + 1

WorkerAfter(w) == (w + 1) % NumWorkers

\* create_and_add_capture_task (the task is added as pending) followed by
\* dispatch_task_to_worker (START to the next worker, then AssignWorkerFunctor).
\* The sid is the signature with the time it was made at.
CreateAndDispatch(r, user) ==
  LET task == [key |-> r.key, sig |-> r.sig, sid |-> <<r.sig, now>>,
               status |-> "pending", user |-> user, file |-> "none"]
      job == [id |-> nextId, pdef |-> r.pdef, inline |-> r.inline]
  IN  /\ table' = SetStatus(AddTask(table, nextId, task), nextId, "resolving")
      /\ workerQ' = [workerQ EXCEPT ![nextWorker] = Append(@, job)]
      /\ nextId' = nextId + 1
      /\ nextWorker' = WorkerAfter(nextWorker)

\* handle_start_capture for target r on behalf of a connection or a module.
StartCapture(r, c, user) ==
  \/ /\ r.named                    \* resolve_target_processes finds nothing
     /\ Reply(c, "404")
     /\ UNCHANGED <<tableVars, workerQ>>
  \/ /\ Verdict(r) # "200"
     /\ Reply(c, Verdict(r))
     /\ UNCHANGED <<tableVars, workerQ>>
  \/ /\ Verdict(r) = "200"
     /\ Reply(c, "200")
     /\ CreateAndDispatch(r, user)

HandleStart ==
  /\ Receives("start")
  /\ StartCapture(Head(mgrQ).target, Head(mgrQ).conn, NoModule)
  /\ Dequeue
  /\ UNCHANGED <<lastTrigger, pdefVars, filterQ, cleanupQ, threadVars, inputVars, lost>>

\* Mutant: the unimplemented stop request is dropped without an answer.
HandleStopSilently ==
  /\ Receives("stop")
  /\ Dequeue
  /\ UNCHANGED <<tableVars, lastTrigger, pdefVars, workerQ, filterQ, cleanupQ,
                 threadVars, inputVars, reply, lost>>

\* handle_stop_capture answers 501 whatever the request names.
HandleStop ==
  /\ Receives("stop")
  /\ Reply(Head(mgrQ).conn, "501")
  /\ Dequeue
  /\ UNCHANGED <<tableVars, lastTrigger, pdefVars, workerQ, filterQ, cleanupQ,
                 threadVars, inputVars, lost>>

\* should_throttle_module
Throttled(m) ==
  /\ m \in DOMAIN lastTrigger
  /\ now >= lastTrigger[m]
  /\ now - lastTrigger[m] < Cooldown

\* prepare_capture_from_sample: what the module's hint and the defaults amount to.
PreparedTarget(m) == Hint[m]

\* handle_sample_alert: a throttled module, and one whose hint is empty or
\* invalid, leave no trace; otherwise the trigger time is recorded before the
\* start request is decided, and stays even if it is refused.
HandleSampleAlert ==
  /\ Receives("alert")
  /\ LET m == Head(mgrQ).module
     IN  \/ /\ Throttled(m) \/ PreparedTarget(m) = NoTarget
            /\ UNCHANGED <<tableVars, lastTrigger, workerQ, reply>>
         \/ /\ ~Throttled(m) /\ PreparedTarget(m) # NoTarget
            /\ lastTrigger' = Put(lastTrigger, m, now)
            /\ StartCapture(PreparedTarget(m), NoConn, m)
  /\ Dequeue
  /\ UNCHANGED <<pdefVars, filterQ, cleanupQ, threadVars, inputVars, lost>>
-----------------------------------------------------------------------------
(* The manager follows a capture. *)

Id == Head(mgrQ).job.id

\* set_capture_started
HandleStarted ==
  /\ Receives("started")
  /\ table' = SetStatus(table, Id, "running")
  /\ Dequeue
  /\ UNCHANGED <<nextId, nextWorker, lastTrigger, pdefVars, workerQ, filterQ, cleanupQ,
                 threadVars, inputVars, reply, lost>>

\* handle_capture_file_ready_v2: append_capture_files, then FILE_ENQUEUE to the
\* cleanup thread if there is one.
HandleFileReady ==
  /\ Receives("file_ready")
  /\ table' = SetFile(table, Id, "ready")
  /\ cleanupQ' = IF CleanupUp THEN Append(cleanupQ, Id) ELSE cleanupQ
  /\ Dequeue
  /\ UNCHANGED <<nextId, nextWorker, lastTrigger, pdefVars, workerQ, filterQ,
                 threadVars, inputVars, reply, lost>>

\* clear_module_cooldown_for_capture, on the table after the status update: the
\* user of the capture names the module whose cooldown ends.
CooldownCleared(t, id) ==
  IF id \in Ids(t) THEN Without(lastTrigger, t.slots[id].user) ELSE lastTrigger

\* Mutant: the final message lists the file once more.
HandleFinishedRelisting ==
  /\ Receives("finished")
  /\ table' = SetFile(SetStatus(table, Id, "completed"), Id, "ready")
  /\ lastTrigger' = CooldownCleared(table', Id)
  /\ Dequeue
  /\ UNCHANGED <<nextId, nextWorker, pdefVars, workerQ, filterQ, cleanupQ,
                 threadVars, inputVars, reply, lost>>

\* handle_capture_finished_v2; workers only ever report exit code 0.
HandleFinished ==
  /\ Receives("finished")
  /\ table' = SetStatus(table, Id, "completed")
  /\ lastTrigger' = CooldownCleared(table', Id)
  /\ Dequeue
  /\ UNCHANGED <<nextId, nextWorker, pdefVars, workerQ, filterQ, cleanupQ,
                 threadVars, inputVars, reply, lost>>

\* Mutant: a failure is logged and not recorded.
HandleFailedLogged ==
  /\ Receives("failed")
  /\ lastTrigger' = CooldownCleared(table, Id)
  /\ Dequeue
  /\ UNCHANGED <<tableVars, pdefVars, workerQ, filterQ, cleanupQ,
                 threadVars, inputVars, reply, lost>>

\* handle_capture_failed_v2
HandleFailed ==
  /\ Receives("failed")
  /\ table' = SetStatus(table, Id, "failed")
  /\ lastTrigger' = CooldownCleared(table', Id)
  /\ Dequeue
  /\ UNCHANGED <<nextId, nextWorker, pdefVars, workerQ, filterQ, cleanupQ,
                 threadVars, inputVars, reply, lost>>

\* handle_clean_compress_done: record_archive.
HandleCompressDone ==
  /\ Receives("compress_done")
  /\ table' = SetFile(table, Id, "archived")
  /\ Dequeue
  /\ UNCHANGED <<nextId, nextWorker, lastTrigger, pdefVars, workerQ, filterQ, cleanupQ,
                 threadVars, inputVars, reply, lost>>

\* handle_clean_compress_failed only logs.
HandleCompressFailed ==
  /\ Receives("compress_failed")
  /\ Dequeue
  /\ UNCHANGED <<tableVars, lastTrigger, pdefVars, workerQ, filterQ, cleanupQ,
                 threadVars, inputVars, reply, lost>>
-----------------------------------------------------------------------------
(* The manager and PDEF files: which captures use a file, when to write the  *)
(* endianness the filter thread has detected back to it.                     *)

\* track_pdef_usage_start and track_pdef_usage_end
UsageStart(f, id) ==
  IF f = NoFile THEN usage ELSE [usage EXCEPT ![f].active = @ \cup {id}]
UsageEnd(f, id) ==
  IF f = NoFile THEN usage ELSE [usage EXCEPT ![f].active = @ \ {id}]

\* Mutant: a file still in use is written.
TryWritebackInUse(f, u) ==
  \/ /\ u.needed /\ ~u.done
     /\ endian' = [endian EXCEPT ![f] = u.endian]
     /\ usage' = [usage EXCEPT ![f] = [u EXCEPT !.done = TRUE]]
  \/ /\ usage' = [usage EXCEPT ![f] = u]
     /\ UNCHANGED endian

\* try_writeback_pdef_endian on usage record u of file f.  When the write is due
\* it may still fail; the record is then as it was and the next event retries.
TryWriteback(f, u) ==
  \/ /\ u.needed /\ ~u.done /\ u.active = {}
     /\ endian' = [endian EXCEPT ![f] = u.endian]
     /\ usage' = [usage EXCEPT ![f] = [u EXCEPT !.done = TRUE]]
  \/ /\ usage' = [usage EXCEPT ![f] = u]
     /\ UNCHANGED endian

\* handle_capture_raw_file_v2: without a filter thread the capture is dropped.
HandleRawFile ==
  /\ Receives("raw_file")
  /\ LET job == Head(mgrQ).job
     IN  IF FilterUp
         THEN /\ usage' = UsageStart(job.pdef, job.id)
              /\ filterQ' = Append(filterQ, job)
              /\ UNCHANGED lost
         ELSE /\ usage' = UsageEnd(job.pdef, job.id)
              /\ lost' = lost \cup {job.id}
              /\ UNCHANGED filterQ
  /\ Dequeue
  /\ UNCHANGED <<tableVars, lastTrigger, endian, workerQ, cleanupQ, threadVars,
                 inputVars, reply>>

\* Mutant: the filtered file is listed and the task not finished.
HandleFilteredListing ==
  /\ Receives("filtered")
  /\ table' = SetFile(table, Id, "ready")
  /\ lastTrigger' = CooldownCleared(table', Id)
  /\ LET f == Head(mgrQ).job.pdef
     IN  IF f = NoFile THEN UNCHANGED pdefVars
                       ELSE TryWriteback(f, UsageEnd(f, Id)[f])
  /\ Dequeue
  /\ UNCHANGED <<nextId, nextWorker, workerQ, filterQ, cleanupQ, threadVars,
                 inputVars, reply, lost>>

\* handle_capture_filtered_file_v2
HandleFiltered ==
  /\ Receives("filtered")
  /\ table' = SetStatus(SetFile(table, Id, "ready"), Id, "completed")
  /\ lastTrigger' = CooldownCleared(table', Id)
  /\ LET f == Head(mgrQ).job.pdef
     IN  IF f = NoFile THEN UNCHANGED pdefVars
                       ELSE TryWriteback(f, UsageEnd(f, Id)[f])
  /\ Dequeue
  /\ UNCHANGED <<nextId, nextWorker, workerQ, filterQ, cleanupQ, threadVars,
                 inputVars, reply, lost>>

\* Mutant: the latest detection is written, whatever was written before.
HandleEndianLatest ==
  /\ Receives("endian")
  /\ LET f == Head(mgrQ).pdef
     IN  TryWriteback(f, [usage[f] EXCEPT !.endian = Head(mgrQ).endian,
                                          !.needed = TRUE, !.done = FALSE])
  /\ Dequeue
  /\ UNCHANGED <<tableVars, lastTrigger, workerQ, filterQ, cleanupQ, threadVars,
                 inputVars, reply, lost>>

\* handle_pdef_endian_detected: the first detection is kept, a conflicting one
\* only logged.
HandleEndian ==
  /\ Receives("endian")
  /\ LET f == Head(mgrQ).pdef
         u == usage[f]
     IN  IF u.done THEN UNCHANGED pdefVars
         ELSE TryWriteback(f, IF u.endian # "unknown" THEN u
                              ELSE [u EXCEPT !.endian = Head(mgrQ).endian,
                                             !.needed = TRUE])
  /\ Dequeue
  /\ UNCHANGED <<tableVars, lastTrigger, workerQ, filterQ, cleanupQ, threadVars,
                 inputVars, reply, lost>>

Manager ==
  \/ HandleStart \/ HandleStop \/ HandleSampleAlert
  \/ HandleStarted \/ HandleFileReady \/ HandleFinished \/ HandleFailed
  \/ HandleRawFile \/ HandleFiltered \/ HandleEndian
  \/ HandleCompressDone \/ HandleCompressFailed
-----------------------------------------------------------------------------
(* A capture worker: execute_capture for the job at the head of its channel. *)

Post(type, job) == mgrQ' = Append(mgrQ, [type |-> type, job |-> job])

\* Mutant: the return after send_failure is missing.
WorkerPrepareFailsThrough(w) ==
  /\ worker[w] = "idle" /\ workerQ[w] # <<>>
  /\ Post("failed", Head(workerQ[w]))
  /\ worker' = [worker EXCEPT ![w] = "capturing"]
  /\ UNCHANGED <<tableVars, lastTrigger, pdefVars, workerQ, filterQ, cleanupQ,
                 filter, pending, groups, inputVars, reply, lost>>

\* CRxCaptureJob::prepare fails.
WorkerPrepareFails(w) ==
  /\ worker[w] = "idle" /\ workerQ[w] # <<>>
  /\ Post("failed", Head(workerQ[w]))
  /\ workerQ' = [workerQ EXCEPT ![w] = Tail(@)]
  /\ UNCHANGED <<tableVars, lastTrigger, pdefVars, filterQ, cleanupQ, threadVars,
                 inputVars, reply, lost>>

\* prepare succeeds: send_started.
WorkerStarts(w) ==
  /\ worker[w] = "idle" /\ workerQ[w] # <<>>
  /\ Post("started", Head(workerQ[w]))
  /\ worker' = [worker EXCEPT ![w] = "capturing"]
  /\ UNCHANGED <<tableVars, lastTrigger, pdefVars, workerQ, filterQ, cleanupQ,
                 filter, pending, groups, inputVars, reply, lost>>

HasPdef(job) == job.pdef # NoFile \/ job.inline

\* The capture loop ends, with a PDEF: send_raw_file_for_filter and nothing else.
WorkerSendsRaw(w) ==
  /\ worker[w] = "capturing" /\ HasPdef(Head(workerQ[w]))
  /\ Post("raw_file", Head(workerQ[w]))
  /\ worker' = [worker EXCEPT ![w] = "idle"]
  /\ workerQ' = [workerQ EXCEPT ![w] = Tail(@)]
  /\ UNCHANGED <<tableVars, lastTrigger, pdefVars, filterQ, cleanupQ,
                 filter, pending, groups, inputVars, reply, lost>>

\* Without one: send_file_ready, then send_finished.
WorkerSendsFile(w) ==
  /\ worker[w] = "capturing" /\ ~HasPdef(Head(workerQ[w]))
  /\ Post("file_ready", Head(workerQ[w]))
  /\ worker' = [worker EXCEPT ![w] = "reporting"]
  /\ UNCHANGED <<tableVars, lastTrigger, pdefVars, workerQ, filterQ, cleanupQ,
                 filter, pending, groups, inputVars, reply, lost>>

WorkerFinishes(w) ==
  /\ worker[w] = "reporting"
  /\ Post("finished", Head(workerQ[w]))
  /\ worker' = [worker EXCEPT ![w] = "idle"]
  /\ workerQ' = [workerQ EXCEPT ![w] = Tail(@)]
  /\ UNCHANGED <<tableVars, lastTrigger, pdefVars, filterQ, cleanupQ,
                 filter, pending, groups, inputVars, reply, lost>>

Worker(w) ==
  \/ WorkerPrepareFails(w) \/ WorkerStarts(w) \/ WorkerSendsRaw(w)
  \/ WorkerSendsFile(w) \/ WorkerFinishes(w)
-----------------------------------------------------------------------------
(* The filter thread: handle_raw_file for the job at the head of filterQ. *)

\* The endian mode pdef_parse_string or pdef_parse_file finds: the text of an
\* inline definition may declare anything, and takes precedence over the file.
ParsesAsAuto(job) == IF job.inline THEN BOOLEAN ELSE {endian[job.pdef] = "auto"}

\* The definition does not parse, or a pcap file cannot be opened: the thread
\* logs and returns, and tells nobody.
FilterGivesUp ==
  /\ filter.phase = "idle" /\ filterQ # <<>>
  /\ lost' = lost \cup {Head(filterQ).id}
  /\ filterQ' = Tail(filterQ)
  /\ UNCHANGED <<tableVars, lastTrigger, pdefVars, mgrQ, workerQ, cleanupQ, threadVars,
                 inputVars, reply>>

FilterBegins ==
  /\ filter.phase = "idle" /\ filterQ # <<>>
  /\ \E auto \in ParsesAsAuto(Head(filterQ)) :
       filter' = [phase |-> "filtering", auto |-> auto]
  /\ UNCHANGED <<tableVars, lastTrigger, pdefVars, mgrQ, workerQ, filterQ, cleanupQ,
                 worker, pending, groups, inputVars, reply, lost>>

FilterSendsFile ==
  /\ filter.phase = "filtering"
  /\ Post("filtered", Head(filterQ))
  /\ filter' = [filter EXCEPT !.phase = "sent"]
  /\ UNCHANGED <<tableVars, lastTrigger, pdefVars, workerQ, filterQ, cleanupQ,
                 worker, pending, groups, inputVars, reply, lost>>

\* After the filtered file: send_endian_detected_to_manager if the mode was
\* auto, an endianness was detected and the request named a file.
FilterSendsEndian(e) ==
  /\ filter.phase = "sent" /\ filter.auto /\ Head(filterQ).pdef # NoFile
  /\ mgrQ' = Append(mgrQ, [type |-> "endian", pdef |-> Head(filterQ).pdef, endian |-> e])
  /\ filter' = Idle
  /\ filterQ' = Tail(filterQ)
  /\ UNCHANGED <<tableVars, lastTrigger, pdefVars, workerQ, cleanupQ,
                 worker, pending, groups, inputVars, reply, lost>>

FilterEnds ==
  /\ filter.phase = "sent"
  /\ filter' = Idle
  /\ filterQ' = Tail(filterQ)
  /\ UNCHANGED <<tableVars, lastTrigger, pdefVars, mgrQ, workerQ, cleanupQ,
                 worker, pending, groups, inputVars, reply, lost>>

Filter ==
  \/ FilterGivesUp \/ FilterBegins \/ FilterSendsFile \/ FilterEnds
  \/ \E e \in Endians : FilterSendsEndian(e)
-----------------------------------------------------------------------------
(* The cleanup thread. *)

\* enqueue_files: the file waits for compression, and this thread writes the
\* task table itself (append_capture_files) to add the record path.
CleanupEnqueue ==
  /\ groups = {} /\ cleanupQ # <<>>
  /\ pending' = pending \cup {Head(cleanupQ)}
  /\ table' = SetFile(table, Head(cleanupQ), "ready")
  /\ cleanupQ' = Tail(cleanupQ)
  /\ UNCHANGED <<nextId, nextWorker, lastTrigger, pdefVars, mgrQ, workerQ, filterQ,
                 worker, filter, groups, inputVars, reply, lost>>

\* process_pending_files, on the timer.  It goes on when there are enough files
\* or enough bytes; sizes are not modelled, so any timer may be the one.
CleanupTimer ==
  /\ groups = {} /\ pending # {}
  /\ groups' = pending
  /\ pending' = {}
  /\ UNCHANGED <<tableVars, lastTrigger, pdefVars, mgrQ, workerQ, filterQ, cleanupQ,
                 worker, filter, inputVars, reply, lost>>

\* compress_batch for one group, in the order of the capture ids, and
\* notify_archive_result or notify_archive_failure.
CleanupGroup(id, result) ==
  /\ id \in groups /\ \A other \in groups : id <= other
  /\ Post(result, [id |-> id, pdef |-> NoFile, inline |-> FALSE])
  /\ groups' = groups \ {id}
  /\ UNCHANGED <<tableVars, lastTrigger, pdefVars, workerQ, filterQ, cleanupQ,
                 worker, filter, pending, inputVars, reply, lost>>

CleanupWork ==
  \/ CleanupEnqueue
  \/ \E id \in groups, result \in {"compress_done", "compress_failed"} :
       CleanupGroup(id, result)
-----------------------------------------------------------------------------
Next ==
  \/ \E c \in Conns : HttpStop(c) \/ \E r \in Targets : HttpStart(c, r)
  \/ \E m \in Modules : SampleAlert(m)
  \/ Tick
  \/ Manager
  \/ \E w \in Workers : Worker(w)
  \/ Filter
  \/ CleanupWork
  \/ CleanupTimer

(* Every thread's epoll loop keeps running, a capture ends because its       *)
(* duration is never 0, and the filter loop ends with its input file.        *)
(* Nothing is assumed of the thresholds process_pending_files waits for.     *)
Fairness ==
  /\ WF_vars(Manager)
  /\ \A w \in Workers : WF_vars(Worker(w))
  /\ WF_vars(Filter)
  /\ WF_vars(CleanupWork)

Spec == Init /\ [][Next]_vars /\ Fairness
-----------------------------------------------------------------------------
IdsSoFar == FirstId..(nextId - 1)
Keys == {r.key : r \in Targets}
Signatures == {r.sig : r \in Targets}
Sids == Signatures \X (0..MaxTime)
Task == [key : Keys, sig : Signatures, sid : Sids, status : Statuses,
         user : Modules \cup {NoModule}, file : {"none", "ready", "archived"}]
Job == [id : IdsSoFar, pdef : PdefFiles \cup {NoFile}, inline : BOOLEAN]
JobTypes == {"started", "file_ready", "finished", "failed", "raw_file", "filtered",
             "compress_done", "compress_failed"}
Message ==
  [type : {"start"}, conn : Conns, target : Targets]
    \cup [type : {"stop"}, conn : Conns]
    \cup [type : {"alert"}, module : Modules]
    \cup [type : JobTypes, job : Job]
    \cup [type : {"endian"}, pdef : PdefFiles, endian : Endians]
Usage == [active : SUBSET IdsSoFar, endian : Endians \cup {"unknown"},
          needed : BOOLEAN, done : BOOLEAN]

TableTyped ==
  /\ nextId \in Nat /\ nextId >= FirstId
  /\ nextWorker \in Workers
  /\ IsTable(table)
  /\ Ids(table) \subseteq IdsSoFar
  /\ \A id \in Ids(table) : table.slots[id] \in Task
TriggersTyped ==
  /\ DOMAIN lastTrigger \subseteq Modules
  /\ \A m \in DOMAIN lastTrigger : lastTrigger[m] \in 0..MaxTime
PdefTyped ==
  /\ usage \in [PdefFiles -> Usage]
  /\ endian \in [PdefFiles -> Endians \cup {"auto"}]
QueuesTyped ==
  /\ mgrQ \in Seq(Message)
  /\ workerQ \in [Workers -> Seq(Job)]
  /\ filterQ \in Seq(Job)
  /\ cleanupQ \in Seq(IdsSoFar)
ThreadsTyped ==
  /\ worker \in [Workers -> {"idle", "capturing", "reporting"}]
  /\ filter \in [phase : {"idle", "filtering", "sent"}, auto : BOOLEAN]
  /\ pending \subseteq IdsSoFar /\ groups \subseteq IdsSoFar
InputsTyped ==
  /\ reply \in [Conns -> {"none", "waiting", "200", "404", "409", "429", "501"}]
  /\ now \in 0..MaxTime /\ alerts \in 0..MaxAlerts
  /\ lost \subseteq IdsSoFar

\* Types: every id in a table, queue or usage set was issued by next_capture_id.
TypeOK ==
  /\ TableTyped /\ TriggersTyped /\ PdefTyped /\ QueuesTyped /\ ThreadsTyped /\ InputsTyped

\* Whatever order requests, results and the cleanup thread's own writes come in,
\* the secondary indexes of the task table lead to exactly its tasks.  Two
\* active tasks therefore never share a key or a signature.
TableIndexed == IndexesExact(table)

\* The counters behind the capacity check agree with the table through every
\* status change, eviction and late update of an evicted task.
TableCounted == CountersExact(table)

\* No interleaving gets more captures resolving or running than the limit,
\* however many requests and alerts pass the check before a worker reports.
CapacityRespected ==
  Cardinality({id \in Ids(table) : table.slots[id].status \in {"resolving", "running"}})
    <= MaxConcurrent

\* The places that hold the duty to report the end of capture id: a job a worker
\* has not finished with, a final or hand-over message the manager has yet to
\* handle, a job the filter thread has not answered.
EndMessages == {"raw_file", "finished", "failed", "filtered"}

AwaitsFilter(i) == i \in DOMAIN filterQ /\ ~(i = 1 /\ filter.phase = "sent")

WorkerHolders(id) ==
  UNION {{<<"worker", w, i>> : i \in {j \in DOMAIN workerQ[w] : workerQ[w][j].id = id}}
           : w \in Workers}
MessageHolders(id) ==
  {<<"manager", i>> : i \in {j \in DOMAIN mgrQ :
     mgrQ[j].type \in EndMessages /\ mgrQ[j].job.id = id}}
FilterHolders(id) ==
  {<<"filter", i>> : i \in {j \in DOMAIN filterQ : AwaitsFilter(j) /\ filterQ[j].id = id}}
LostHolders(id) == {<<"lost">> : x \in lost \cap {id}}

Holders(id) ==
  WorkerHolders(id) \cup MessageHolders(id) \cup FilterHolders(id) \cup LostHolders(id)

\* An active capture is in the hands of exactly one thread or message, unless the
\* filter gave it up, and a capture that has ended or was evicted is in nobody's.
HeldOnce ==
  \A id \in IdsSoFar :
    Cardinality(Holders(id)) = IF IsActive(table, id) THEN 1 ELSE 0

\* A started message, a final message or a late update never moves a capture out
\* of completed or failed.
TerminalStable ==
  [][\A id \in Ids(table) \cap Ids(table') :
       table.slots[id].status \notin ActiveStatuses
         => table'.slots[id].status = table.slots[id].status]_vars

\* add_task makes room by evicting tasks; a capture still going on is never one
\* of them, so its worker's messages always find it.
NeverEvictsActive ==
  [][\A id \in Ids(table) \ Ids(table') : ~IsActive(table, id)]_vars

\* A file recorded as archived is not listed as a plain file again, although the
\* archive report may overtake the worker's final message.
ArchivedStays ==
  [][\A id \in Ids(table) \cap Ids(table') :
       table.slots[id].file = "archived" => table'.slots[id].file = "archived"]_vars

\* A PDEF file is rewritten only while no capture that uses it is queued at, or
\* being read by, the filter thread.
WritebackExclusive ==
  [][\A f \in PdefFiles :
       endian'[f] # endian[f]
         => ~\E i \in DOMAIN filterQ : AwaitsFilter(i) /\ filterQ[i].pdef = f]_vars

\* The PDEF files no request names together with inline text.  The filter thread
\* parses the inline text when a capture has both, and the endianness detected
\* under it is written into the file, whatever the file declares.
ReadAlone == {f \in PdefFiles : \A r \in Targets : r.pdef = f => ~r.inline}

\* Of the files no request names together with inline text, only one in automatic
\* mode is rewritten: one that declares an endianness, by its author or by an
\* earlier writeback, keeps it.
ExplicitEndianKept ==
  [][\A f \in ReadAlone : endian[f] # "auto" => endian'[f] = endian[f]]_vars

\* Every request that reaches the manager is answered.
EveryRequestAnswered ==
  \A c \in Conns : reply[c] = "waiting" ~> reply[c] # "waiting"

CaptureIds == FirstId..(FirstId + Cardinality(Conns) + MaxAlerts - 1)

\* Every capture ends: its task leaves the active statuses.
EveryTaskEnds ==
  \A id \in CaptureIds : IsActive(table, id) ~> ~IsActive(table, id)

\* Every capture ends, or the filter thread has given it up.
EveryTaskEndsOrIsLost ==
  \A id \in CaptureIds : IsActive(table, id) ~> (~IsActive(table, id) \/ id \in lost)
-----------------------------------------------------------------------------
(* What the safety properties above rest on: an inductive invariant.  It     *)
(* speaks of the sets of capture ids in each place.                          *)

JobIds(q) == {job.id : job \in Range(q)}
DistinctJobs(q) == \A i, j \in DOMAIN q : q[i].id = q[j].id => i = j

MsgIds(q, types) == {m.job.id : m \in {msg \in Range(q) : msg.type \in types}}
DistinctMsgs(q, types) ==
  \A i, j \in DOMAIN q :
    q[i].type \in types /\ q[j].type \in types /\ q[i].job.id = q[j].job.id => i = j

ActiveIds(t) == {id \in Ids(t) : t.slots[id].status \in ActiveStatuses}

\* The jobs the filter thread has yet to answer, and those of a worker whose
\* file is not reported yet.
Awaiting == IF filter.phase = "sent" THEN Tail(filterQ) ELSE filterQ
AwaitingIds == JobIds(Awaiting)
Unreported(w) == IF worker[w] = "reporting" THEN Tail(workerQ[w]) ELSE workerQ[w]

\* Threads that are in the middle of a job have one.
BusyHasJob ==
  /\ \A w \in Workers : worker[w] # "idle" => workerQ[w] # <<>>
  /\ filter.phase # "idle" => filterQ # <<>>

\* Tasks are past pending, their sid says their signature, and the two counters
\* of the capacity check are within the limit.
TableBounded ==
  /\ \A id \in Ids(table) :
       /\ table.slots[id].status \in {"resolving", "running", "completed", "failed"}
       /\ table.slots[id].sid[1] = table.slots[id].sig
  /\ table.count["running"] + table.count["resolving"] <= MaxConcurrent

\* The places that hold the duty to report a capture's end have no capture in
\* common, none holds one twice, and together they hold the active ones.
HeldApart ==
  /\ \A w \in Workers : DistinctJobs(workerQ[w])
  /\ DistinctMsgs(mgrQ, EndMessages)
  /\ DistinctJobs(Awaiting)
  /\ \A v, w \in Workers : v # w => JobIds(workerQ[v]) \cap JobIds(workerQ[w]) = {}
  /\ \A w \in Workers :
       JobIds(workerQ[w]) \cap (MsgIds(mgrQ, EndMessages) \cup AwaitingIds \cup lost) = {}
  /\ MsgIds(mgrQ, EndMessages) \cap (AwaitingIds \cup lost) = {}
  /\ AwaitingIds \cap lost = {}
QueuedIds == UNION {JobIds(workerQ[w]) : w \in Workers}
HeldIffActive ==
  ActiveIds(table) = QueuedIds \cup MsgIds(mgrQ, EndMessages) \cup AwaitingIds \cup lost

\* A started message is handled before its capture's end can be: the worker is
\* still at it, or its last message is further back in the channel.
BusyIds == {Head(workerQ[w]).id : w \in {v \in Workers : worker[v] # "idle"}}
StartedBefore(q, busy) ==
  \A i \in DOMAIN q : q[i].type = "started" =>
    \/ q[i].job.id \in busy
    \/ \E j \in DOMAIN q :
         i < j /\ q[j].type \in EndMessages /\ q[j].job.id = q[i].job.id
StartedFirst == StartedBefore(mgrQ, BusyIds)

\* Captures whose file has yet to be listed are apart, by the place they are in,
\* and none of them is with the archiver or archived.
UnreportedIds(w) == JobIds(Unreported(w))
RawIds == MsgIds(mgrQ, {"raw_file", "filtered"}) \cup AwaitingIds
ListingIds == MsgIds(mgrQ, {"file_ready"})
ArchivedIds(t) == {id \in Ids(t) : t.slots[id].file = "archived"}
ArchivingIds == pending \cup groups \cup MsgIds(mgrQ, {"compress_done", "compress_failed"})

FilesApart ==
  /\ DistinctMsgs(mgrQ, {"file_ready"})
  /\ IsInjective(cleanupQ)
  /\ \A w \in Workers : UnreportedIds(w) \cap (ListingIds \cup Range(cleanupQ)) = {}
  /\ RawIds \cap (ListingIds \cup Range(cleanupQ)) = {}
  /\ ListingIds \cap Range(cleanupQ) = {}
ArchivedLast ==
  /\ \A w \in Workers : UnreportedIds(w) \cap (ArchivingIds \cup ArchivedIds(table)) = {}
  /\ (RawIds \cup ListingIds \cup Range(cleanupQ)) \cap (ArchivingIds \cup ArchivedIds(table)) = {}

\* A job at the filter thread is in its PDEF file's usage record, and a record
\* that asks for a writeback knows the endianness to write.
UsageTracked ==
  /\ \A job \in Range(Awaiting) : job.pdef # NoFile => job.id \in usage[job.pdef].active
  /\ \A f \in PdefFiles : usage[f].needed => usage[f].endian \in Endians

\* The inductive invariant of the capture manager and the threads around it.
ManagerInv ==
  /\ TypeOK /\ TableIndexed /\ TableCounted /\ BusyHasJob /\ TableBounded
  /\ HeldApart /\ HeldIffActive /\ StartedFirst /\ FilesApart /\ ArchivedLast /\ UsageTracked

\* A job that has inline text names no file that is read alone, and a file that
\* is read alone and declares an endianness was written back, or no detection
\* for it is recorded or under way.
Single(job) == job.inline => job.pdef \notin ReadAlone
JobsOneDefinition ==
  /\ \A w \in Workers : \A job \in Range(workerQ[w]) : Single(job)
  /\ \A m \in Range(mgrQ) : m.type \in JobTypes => Single(m.job)
  /\ \A job \in Range(filterQ) : Single(job)
DetectedWhileAuto ==
  \A f \in ReadAlone : endian[f] = "auto" \/ usage[f].done \/
    /\ ~usage[f].needed
    /\ \A m \in Range(mgrQ) : m.type = "endian" => m.pdef # f
    /\ filter.phase # "idle" /\ filter.auto => Head(filterQ).pdef # f

\* What ExplicitEndianKept needs beyond ManagerInv.
EndianInv == JobsOneDefinition /\ DetectedWhileAuto
=============================================================================
