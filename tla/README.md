# Verification of rxtracenetcap

TLA+ models of the capture service, the TLC runs that check them on small instances and the
theorems TLAPS proves about them. `PROJECT.json` maps every definition to the source lines it
models and lists the runs, mutants, hazards, findings and theorems.

## The system

A server captures network traffic on request (HTTP) or when a load sampler raises an alert.
It is a set of threads, each with an epoll loop and a message channel of its own.

| Part | State | Operations | Talks to |
|---|---|---|---|
| Message channel (`core/legacy_core_net.cpp`, `channel_data_process`) | two queues, a flip index, a socketpair, `_recv_buf` | `put_msg`, receive, swap, handle | every thread posts, the owner drains |
| Task table (`src/rxsafetaskmgr.h`) | two copies of a map of raw pointers, three indexes, six counters, deferred deletes | add, remove, update status or files, query | manager and cleanup thread write, HTTP threads read |
| Capture manager (`src/rxcapturemanagerthread.cpp`) | next id and worker, cooldowns, PDEF usage | start, stop, alert, every report of a capture | all other threads |
| Capture worker and session (`src/rxcapturethread.cpp`, `rxcapturesession.cpp`) | the job in progress | prepare, capture, report | manager |
| Filter thread (`src/rxfilterthread.cpp`) | the file being filtered, the detected endianness | parse the PDEF, filter a raw file, report | manager |
| Cleanup thread (`src/rxcleanupthread.cpp`) | files waiting for compression, record files, archives | enqueue, compress, rotate and prune | manager, task table |
| Sample thread (`src/rxsamplethread.cpp`) | load statistics, rules | sample, alert | manager |
| HTTP handlers and connection (`src/rxurlhandlers.cpp`, `core/legacy_core_net.cpp`) | request and response buffers | parse, post to the manager, answer | manager, task table |
| Timers, epoll, containers (`core/legacy_core_net.cpp`) | timer lists, objects by id | add, expire, dispatch | all |
| Capture files (`src/rxstorageutils.cpp`, with worker, filter and cleanup thread) | dumper, raw, filtered and record files, archives | write, rotate, filter, compress, prune | worker, filter, cleanup thread |
| Strategy configuration (`core/legacy_core.h`, `src/rxstrategyconfig.cpp`, `rxreloadthread.cpp`, `rxprocdata.cpp`) | two objects and which is current | load, reload, `current()` | reload thread writes, all others read |
| PDEF language (`src/pdef/parser.c`, `src/runtime`) | tables of the parser, bytecode, detected endianness | parse, flatten, compile, execute, match | filter thread; the manager rewrites the file |
| Packet queue (`src/rxlockfreequeue.c`) | ring | push, pop | nobody: nothing creates one |

What is hard about it: a message channel that ignores failed wakeups; a lock-free table with
two writers; a capture that passes through up to four threads, any of which can drop it;
results that arrive after the task they belong to was evicted; counters kept beside the table
they count; a file that is rewritten while another thread may read it; configuration objects
switched under their readers; capture files that are renamed, truncated, archived and removed by
three threads and outlive the process; a compiler that computes its jumps by hand. `PROJECT.json` lists these as hazards, each at its line.

What makes each part correct:

* channel: no wakeup is lost, messages come out in order and once, and every one comes out;
* task table: indexes and counters agree with the tasks; no lost update; no use after delete;
* manager: an active capture is in exactly one pair of hands; terminal statuses are final; a
  capture in progress is never evicted; the limit holds; every request is answered; every
  capture ends; a PDEF file is rewritten only when it may be, and only when nobody reads it;
* HTTP thread: a client receives its own answers, whole and in order; a connection that waits
  for the manager gets its answer; no connection stays for ever;
* PDEF: fields are where the text says, code accepts what the conditions say, one capture is read
  with one endianness, and writing that endianness into the file does not change its meaning;
* capture files: no packet is lost between dumper and archive; retention removes only what it
  must; records of recent files are kept;
* configuration: a reader sees one version whole, never an older one than before, and edits
  arrive.

## Modules

### FifoChannel, MsgChannel, MsgChannelProofs

`FifoChannel` is what `put_msg` promises to its callers. `MsgChannel` is the code.

| Code | Model |
|---|---|
| `_queue[2]`, `_current` | `queue`, `current` |
| bytes in the socketpair, bytes in `_recv_buf` | `sock`, `recvBuf`, counted in tags |
| `processing_queue` and the loop's `i` | `batch`, `taken` |
| `put_msg` | `PutMsg` |
| `event_process`, first half of `real_recv` | `Receive` |
| `process_recv_buf` under the mutex; loop body; exception; return and erase | `Drain`, `HandleMsg`, `HandleThrows`, `Finish` |

`posted` names messages so that order can be observed; `handled` is a history variable.
The refinement mapping takes `batch \o queue[1 - current]` for the abstract channel.

### QueueLemmas

Facts about queues for the proofs; it models no code.

### TaskTable, TaskTableProofs

Operations of `CRxSafeTaskMgr` as functions from a table to a table: the primary map, the
indexes by key, signature and sid, and the six counters, including the order in which
`add_task` evicts and what `remove_task` erases unconditionally. `CaptureManager` extends it.

### CaptureManager, CaptureManagerProofs

The whole pipeline, one FIFO queue per thread (what `MsgChannel` implements). A handler of the
manager is one action, since only the manager runs it and nothing it writes is read half-way,
except by the readers and the second writer that `SafeTaskMgr` is about. Workers, filter and
cleanup thread have one action per message they post.

| Code | Model |
|---|---|
| `handle_start_capture` (resolve, duplicates, limit, create, dispatch) | `StartCapture`, `Verdict`, `CreateAndDispatch` |
| `handle_sample_alert`, `should_throttle_module` | `HandleSampleAlert`, `Throttled` |
| `handle_stop_capture` | `HandleStop` |
| the `_v2` handlers of worker, filter and cleanup messages | `HandleStarted`, `HandleFileReady`, `HandleFinished`, `HandleFailed`, `HandleRawFile`, `HandleFiltered`, `HandleCompressDone`, `HandleCompressFailed` |
| `track_pdef_usage_*`, `try_writeback_pdef_endian`, `handle_pdef_endian_detected` | `UsageStart`, `UsageEnd`, `TryWriteback`, `HandleEndian` |
| `execute_capture` | `Worker(w)` |
| `handle_raw_file` of the filter thread | `Filter` |
| `enqueue_files`, `process_pending_files`, `compress_batch` | `CleanupEnqueue`, `CleanupTimer`, `CleanupGroup` |

Abstractions: a request is its key, signature, PDEF file, whether it has inline PDEF text and
whether it names a process (which may not be found). A capture file is absent, listed or
archived. Whether `prepare`, parsing, opening, compressing and writing back succeed is
nondeterministic. `lost` is a history variable: captures whose filtering was given up.

### SafeTaskMgr

The same table as memory: objects, pointers, deferred deletion and two copies, with each
operation cut where another thread can come between. Each container access is one step, which
is the mildest outcome of the races on the containers themselves.

### HttpThread, HttpThreadProofs

One HTTP thread: its loop, its connections, its channel (a FIFO queue that is emptied as one
batch, as `MsgChannel` does) and its timers.

| Code | Model |
|---|---|
| `_obj_map` with `_http_status`, `_async_response_pending`, `_recv_buf`, `recv_body_`, `_p_send_buf`, `send_body_`, `_res_head_para` | `conn[id]` with `status`, `pending`, `parts`, `recvBody`, `buf`, `body`, `head` |
| `epoll_wait`; one `event_process`; erasure and `check_timer` | `EpollWait`; `ConnReceives`, `ConnThrows`, `TakeBatch`; `EndOfTurn` |
| `handle_connect`; reply to a connection; the same when `SEND` throws | `HandleConnect`; `HandleReply`; `HandleReplyThrows` |
| `get_send_buf`, body of the loop, loop of `real_send` | `Pull`, `Push`, `RealSend` |
| `msg_recv_finish`, `perform`, `recv_finish` | `RecvFinish`, `GoesToManager`, `AskManager`, `AnswerAtOnce` |
| `_timer_list[2]`, `_current` | `timers`, `current` |

A response is one head unit and `BodyLen` body units, each marked with the client it answers;
`wire` is the history of what a client's socket took. `HttpInv` is the invariant the proofs use.
`AnswerAtOnce` announces its response
twice, as `msg_recv_finish` and `recv_finish` do: the second announcement sends a blank head
and leaves an empty buffer, which `real_send` never deletes. Clients, their sockets, the clock
and the manager's answers are the environment and may act between any two steps. Erasure and
timer check are one action, since nothing between them reads what the other writes.

### PdefLang, PdefFilter, PdefFilterProofs

`PdefLang` is the language as functions, without variables: parsing block by block into the
parser's tables, flattening, compiling, executing, matching, writing an endianness back.

| Code | Model |
|---|---|
| `parse_protocol_block`, `parse_const_block`, `parse_struct_def`, `parse_filter_block` | `ParseProtocol`, `ParseConst`, `ParseStruct`, `ParseFilter`, folded over the blocks by `Parse` |
| `flatten_structs`, `expand_nested_field` | `FlattenStructs`, `ExpandNested` |
| `compile_filter_rules`, `get_load_opcode`, `swap_endian_opcode` | `CompileRule`, `LoadOpcode`, `SwapEndianOpcode` |
| `execute_bytecode`; `read_*` of `endian.h` | `ExecuteIns`, `Execute`; `ReadWord`, `Load` |
| `try_match_with_endian`, `packet_filter_match` | `TryMatch`, `Offsets`, `FilterMatch` |
| `writeback_endian_to_file` | `WritebackTarget`, `Writeback` |

A block is the record of what its tokens say; one that the grammar rejects is `malformed`. A name
is a string, a path a sequence of names with indexes. A byte has `Base` values, the
accumulator `AccBytes` bytes; signed loads are extended to it as in two's complement and compared
unsigned. Sizes and offsets, `uint32_t` in the code (`parser.c:751`, `:796`, `:1032-1071`,
`executor.c`), are numbers without a limit here, and so is the count of structs, for which
`temp_structs` has 16 entries (`parser.c:206-207`) and `parse_struct_def` checks nothing. The model
is of texts that stay within both: `FitsParser`, assumed of `Files` (`FitsAssumption`) and evaluated
by the runs, with `MaxStructs` and `SizeLimit` in place of 16 and 2^32.

`Execute` follows the loop for as many turns as there are instructions, which is all of it as long as no jump goes back: `TypeOK` says none does.
`writeback_endian_to_file` looks for the first text `endian` wherever it stands; the model has it
in `@protocol` blocks only, not in comments or names.

`PdefFilter` takes one file through captures one after another: `OpenPdef`, `FilterPacket`,
`EndOfFile` are the filter thread's `handle_raw_file`, `HandleEndian` and `TryWriteback` the
manager. The meaning of a file is stated apart from the code: `Places` and `SizeOf` lay the
structs out from their text, `RuleAccepts` and `Accepts` evaluate conditions on numbers. A field is
read with its own endianness, with the opposite one, or with one that is given (`Reading`): the first
two are what `code_be` and `code_le` mean, also where a nested struct brings fields of another
endianness into a rule. Constants of a text have no sign, so a negative number equals the constant
that is its two's complement (`Complement`); the orderings of signed fields are left out
(`NoSignedOrder`, see Findings).

### FileStore, FileStoreProofs

The disk, from the dumper to the archive. A path is what `expand_pattern` makes of target, minute
of the start, sequence number and suffix, so captures may share one; a file keeps its inode while
it is truncated or written after removal, which is how two dumpers on one path are told apart.

| Code | Model |
|---|---|
| `prepare`; `dump_cb` with and without `rotate_open`; a packet after a failed rotation | `Prepare`; `WritePacket`, `RotateAndWrite`, `RotateFails`; `DumpWithoutFile` |
| `cleanup` of the session and the report of its file | `Finish` |
| `handle_raw_file`: output, removal of the raw file; its early returns | `FilterFile`; `FilterGivesUp` |
| `enqueue_files` and `record_file_metadata`, cut where the file system or the end of the process can come between: `ensure_directory` fails; the line fits; rename and its failure; `prune_record_files`; the line | `CleanupEnqueue` = `RecordDirMissing`, `RecordFits`, `RotateRecord`, `RotateRecordFails`, `PruneRecordFiles`, `RecordLine` |
| `process_pending_files`; `compress_batch` up to the result of `tar`, and its removals; `prune_archives` | `CleanupTimer`; `CleanupGroup`, `RemoveSources`; `PruneArchives` |

The file system may refuse any of it (`Fail`, counted in `faults`): opening a segment or an output, a
write that `pcap_dump` does not report, in the worker and in the filter, the removal of a raw file, of
a source, of a record file or of an archive, the listing of a directory, the rename, `archive_dir` and
`tar`. Where the code goes on after a failure the model does: the raw file is removed although the
filtered packets were not written, the next archive is tried after one that is stuck, and the record
files that could not be removed are still there at the next prune.

`ProcessEnds` is a crash or a stop followed by a restart: memory is lost, open files keep what was
flushed. It may come between the rename and the prune of the record files and between `tar` and the
removal of its sources. In the middle of a loop of removals it leaves what removals that fail and an
end after the loop leave, and in the middle of `handle_raw_file` what a raw file that stays leaves, so
these loops are one step. A `stat` that fails while a directory is listed is not modelled. `opens`,
`owner`, `got`, `dropped`, `lines` and `missed` are history variables. The manager, which only
passes file names on, is left out; what happens between its threads is in `CaptureManager`.

### ReloadMgr, ReloadMgrProofs

`reload_mgr` with its two objects, the loading that the main thread does once and the reload
thread afterwards, and a reader that holds the pointer of `current()`. Loading is cut where the
file or a reader can come between: reading, asking for the file's time, copying the first and the
last fields, switching. A version number stands for the contents; an object has two halves.
Edits replace the file, with a new or an old time, by one that is readable, broken or absent.

## Runs

| Run | Configuration | Shows |
|---|---|---|
| `channel` | 2 producers, 3 messages each, socketpair and buffer of 2 tags, one throwing handler | types, no lost wakeup, refinement of `FifoChannel`, every message leaves |
| `requests` | 3 connections, 2 workers, limit 2, two clock values, plain captures with colliding keys and signatures | indexes and counters exact, each capture held once, terminal statuses final, no active capture evicted, archived files stay archived |
| `alerts` | 1 connection, 1 module, 2 alerts, limit 1, no filter or cleanup thread | limit respected, every request answered, every capture ends or is given up |
| `pdef` | 3 connections, 1 worker; requests on a PDEF file in automatic mode (two), on one whose author declared big-endian, and on one such file together with inline text | a file is rewritten only when no capture of it is with the filter; one that declares an endianness keeps it unless a request names it together with inline text |
| `http` | 2 clients (a stop; a start with a body of two segments), socket room 2 units, body 1 unit, idle time 1 tick | answers reach their own client only, in order, never before the manager's reply; a waiting connection has an answer under way unless a client has reset; every connection has its idle timer |
| `pdef_lang` | 165 files in four families (operators and lists; layout; constants, rules and windows; endian settings), bytes 0..3, every packet of up to 3 bytes as probe, 3 captures of 2 packets | layout, code, verdicts and writeback against the meaning of the text |
| `store` | 2 captures of 2 packets (plain with and without `{seq}`, with PDEF file), a full record file and three rotated ones, one more than a prune leaves, two old archives, one failure, one end of the process | nothing lost, records kept, pruning exact, batches archived |
| `reload` | 1 reader, 3 edits, 3 seconds in half-second ticks | whole reads, never an older version, edits applied |
| `task_ends` | the smallest instance that shows it | violation, see Findings |
| `table_readers`, `table_writers` | 1 id, 3 objects, one reader or one second writer | violations, see Findings |
| `endian_little` | one file that declares `little` | violation, see Findings |

Why the bounds are enough. Channel: capacity 2 with 6 messages makes the socketpair and
`_recv_buf` full, partly full and empty in every phase, and the throwing message leaves tags
behind. Requests: with three captures a task can be evicted by key, by signature and by sid
(two requests in the same second, `MaxTime = 1`), while an older one still has messages under
way; limit 2 with 2 workers makes round robin wrap and the limit bind. Alerts: two alerts and a
clock that passes the cooldown give throttled and unthrottled triggers, with and without a
request in competition. PDEF files: two captures at a time and a
third after them let detection, end of use and a new use of a file come in every order, with equal
and conflicting detections; the file with inline text beside it does lose its declared endianness
in this run, so `ReadAlone` is no empty condition. One worker is enough, as the PDEF file is used
behind it, by the filter thread and the manager; `requests` has two. HTTP: a socket
room of two units holds one response, so a second one is cut at every place; three segments
arrive before, while and after an answer is awaited; an idle time of one tick expires in every
state of a connection; with two clients a connection can be opened after another was closed and
its reply is still on the way. PDEF: two-byte fields are the smallest that have an endianness;
lists have one, two and three values, so first, middle and last value differ; nesting is three
deep; a third filter meets the limit `MaxFilters = 2`; three captures let one detect, the next be
filtered with the rewritten file and a third follow a second detection. Store: one packet fills a
segment, so the second rotates, to a new name or into the same file, and can come again after a
rotation that failed; the first one can go to a file that was removed. `MaxTime` and
`Minute` let the captures start in one minute or in two; a batch is full by count or by size; the
old archives make age and total size bind. Every record line fills `cleanup.log` (`RecordMax = 1`),
so each of the two captures' records rotates and prunes, and the first prune already finds too many
files: the failure and the end of the process can fall into the first prune or the second. One
failure can be each of the failures, and be followed by a whole round of the cleanup thread. Reload: a reader may span a whole reload and meet the next one; an edit may come before,
within and after a load, within the second of the version loaded or not; three edits make a
broken or absent version come between two readable ones. When its clock ends, `ReloadTimer` still
fires, so that the last edit can be loaded. No symmetry is used: liveness is checked in five of
the runs, and the others finish without it. Deadlock checking is off because the inputs are bounded and
the system then rests, except in the HTTP runs, whose loop never does.

Between them the passing runs take every action and every disjunct. Every property has a
mutant in `PROJECT.json`: a plausible slip in one definition that makes TLC report it.

## Fairness

Weak fairness of the receiver in `MsgChannel` and of manager, workers, filter and cleanup work
in `CaptureManager`: each is the body of an epoll loop that runs until the process ends, with
level-triggered events. A capture ends because `handle_start_capture` falls back to
`kFallbackDurationSec` when no duration is given; the filter loop ends with its input file. Nothing is assumed of
producers, HTTP clients, alerts or the clock, nor of `CleanupTimer`, whose thresholds may never
be reached.

In `FileStore` the cleanup thread's messages and its batches are fair (`CleanupFiles`:
`handle_timeout` arms the timer again each time), workers, the filter and the pruning of archives are
not. In `ReloadMgr` the loading thread is fair (its
timer is armed after every turn, whatever `reload` returned), time passes, and a reader that began
ends. `Tick` waits for a reader that has held its pointer for nearly a second: `ReadWhole` is the
claim for reads shorter than the reload period, which every reader in the code is (it copies a few
fields); a thread that is stopped for longer between `current()` and its last use can see two
versions mixed.

`HttpThread` states no fairness and no liveness. That a connection is closed in the end is
reduced to `IdleTimerArmed`, an invariant: its timer is in one of two lists, which the loop
checks in turn.

## Proofs

`MsgChannelProofs` proves, for every set of producers, message bound, socketpair capacity,
buffer capacity and set of throwing handlers, from `ChannelAssumption` alone (the capacities
are positive, `NoMsg` is not a message):

* `ChannelTypeOK`: in particular both tag counters stay within their limits;
* `ChannelNoLostWakeup`: while a message waits, a tag is readable or the swap is next;
* `ChannelImplementsFifo`: the specification implements `FifoChannel` under the mapping above.

The inductive invariant is `ChannelInv`: types, `NoLostWakeup`, "the current queue is empty
between operations" and "there is no batch outside the loop". `NoLostWakeup` is not inductive
alone: a swap that found the current queue non-empty would leave the other queue waiting
without a tag, which only `CurrentQueueEmpty` excludes. That a send which fails does no harm
follows from `SockCap > 0`: the socketpair is full and thus readable. Refinement needs the last
conjunct, since the swap overwrites `batch`.

`ReloadMgrProofs` proves `ReloadTypeOK`, `ReloadReadWhole` and `ReloadNeverOlder`, for any readers,
number of edits and clock, from `ReloadAssumption`. The objects are written without a lock, so
`ReadWhole` rests on time alone: `ReadsShort` (a read is shorter than the reload period; `Tick`
says so) and `OldObjectAtRest` (a reader that still holds the object switched away from began
before the reload ended, so the loader is idle and due later than the read can last). With them the
loader never writes an object that is being read (`FirstHalfKept`), and only the target of a load
is ever half written (`WholeButTarget`). `NeverOlder` needs `VersionsOrdered`: idle object, current
object, loaded version and file are in this order of age, and no reader is ahead of what it holds.

`QueueLemmas` has the facts about appending to and taking from a queue that the next two need:
which messages are in it, that none is in it twice, how many of a kind there are; and that a set of
natural numbers has a least one, which stands in for induction.

`TaskTableProofs` proves of the operations of the task table, for any table: `remove_task`,
`add_task` and the status updates keep its shape, `IndexesExact` and `CountersExact` when their
preconditions hold, and which tasks they leave alone. The decrements in `remove_task` are exact
only if the task is counted, which is why the two invariants are proved together.

`CaptureManagerProofs` proves for any requests, connections, workers, limits, cooldowns and clock,
from `ManagerAssumption`:

* `ManagerTypeOK`; `ManagerTableIndexed`, `ManagerTableCounted`, `ManagerCapacityRespected`,
  `ManagerHeldOnce` (invariants);
* `ManagerTerminalStable`, `ManagerNeverEvictsActive`, `ManagerArchivedStays`,
  `ManagerWritebackExclusive` (action properties);
* `ManagerExplicitEndianKept`, for the files of `ReadAlone`, those no request names together with
  inline PDEF text.

The inductive invariant is `ManagerInv`. Its parts and what they are for:

| Part | Needed because |
|---|---|
| `BusyHasJob` | a worker or the filter in the middle of a job takes the head of its queue |
| `TableBounded` | the limit counts resolving and running tasks, so none may be pending; a sid collides only within a signature |
| `HeldApart`, `HeldIffActive` | `HeldOnce` counts holders; it is kept only if no place holds a capture twice, no two places share one, and together they hold exactly the active ones. `TerminalStable` follows: an end message is only under way for an active capture |
| `StartedFirst` | a started message sets a task to running, so it must be handled before the capture's end: its worker is still busy, or the end is further back in the channel |
| `FilesApart`, `ArchivedLast` | a file report sets a file to listed, so none may be under way once the archiver has the capture |
| `UsageTracked` | a writeback is exclusive only if every job awaiting the filter is in its file's usage record |

`ExplicitEndianKept` needs `EndianInv` beside it: a job with inline text names no file of
`ReadAlone`, and for those files a detection is recorded or under way only in automatic mode or
after a writeback. For the other files it is false: the filter reads the inline text's mode and
reports the endianness for the file.

`HttpThreadProofs` proves, for any clients, segments, socket room, body length and idle time, from
`HttpAssumption`: `HttpTypeOK`, `HttpOwnAnswersOnly`, `HttpNoEarlyAnswer`, `HttpAnswerUnderWay`,
`HttpIdleTimerArmed` and `HttpStreamOrdered`. The parts of the inductive invariant `HttpInv`:

| Part | Needed because |
|---|---|
| `OneConnectionEach` | ids come from a counter that the table of objects must never meet again; each client has one connect message or has had one id, so no id is issued twice and the table has room |
| `RepliesFit` | a reply is delivered by id alone: the connection with that id, if it is still there, belongs to the client that asked |
| `OwnSent` | what is buffered or announced is sent later, so it has to be the client's own as well as what is on the wire |
| `RepliesCounted` | `NoEarlyAnswer` counts heads on the wire; a head announced, buffered or still a message counts too |
| `AnswerUnderWayUntilReset`, `IdleTimerArmed` | inductive with the others |

`HttpStreamOrdered` has an inductive invariant of its own, `StreamInv`, on top of `HttpInv`
(`HttpStreamInvariant`). For a client with one request and at most two replies, its connection is in
one of three conditions:

| Part | Needed because |
|---|---|
| `Untouched`, `Unread` | until the head is read, everything sent is unread and nothing is asked, so the first handling is the first |
| `Unanswered` | while each segment is a reason to ask, nothing is sent; a start with its head alone is asked once, so that no synchronous answer meets a second reply |
| `Answering` | the wire with what `real_send` has still to send (`Ahead`: buffer, head, body) is a sequence of whole responses, and a head waits for room only if no further reply can come (`AtMost`): a reply replaces the head that waits |
| `Replies(c) <= replied[c]` | `AtMost` counts the replies to come by the questions open, or by the two that may be posted less those posted |

The argument is one of conservation. Each `Pull` and `Push` of `real_send` moves units from `Ahead` to
the wire and keeps their concatenation (`Flow`), so a stream can be torn only where `Ahead` is
replaced: by a reply (`AnsweredStream`, `StreamReplySent`) or by a synchronous answer with the blank
one after it (`AtOnceStream`). An empty buffer (`Stuck`) is never deleted and nothing follows it.

`FileStoreProofs` proves, for any requests, workers, packets, limits, clock, number of failures and
ends of the process and any files left by earlier runs: `StoreTypeOK`, `StoreNothingLost`,
`StoreRecordsKept` and the action property `StorePruneExact`. The assumptions are `StoreAssumption` and
`OldFilesAssumption`: earlier runs left archives with earlier times, and record files in order, however
many. The parts of the inductive invariant `StoreInv`:

| Part | Needed because |
|---|---|
| `CapturesApart` | a capture's file passes from the dumper to the filter or the cleanup thread and is enqueued once; else its archive would be written twice, and the second one, without the removed files, would replace the first |
| `NamesOwned` | threads know files by path, so removal hits whoever has that path; a path two captures have named has no owner, and `NothingLost` speaks of the others |
| `DumperHasFile` | a packet goes to the dumper's inode; it can be found on disk only while the path still has that inode |
| `ArchivedOnce` | the archive's name is its time and its capture, so a new archive replaces none of this run |
| `RemovedInBatch` | the sources are removed in a step of their own: until then what they hold is in an archive of this run, which nothing replaces or prunes |
| `PacketsKept` | a packet of a file its capture owns, not opened again since, is in that file, lost by its write, in an archive of this run, or in the filter's output; the last is kept only while no thread has the output's name |
| `RecordsSound` | pruning sorts by age: the file that `cleanup.log` has just become, with the newest lines (`LastHasNewest`, while the prune is next), is pruned neither as the oldest nor in a tie, because each file is last written before it gets its name and after the file before it got its own. There are at most `RecordFiles + missed` rotated files, and one more between the rename and the prune; a prune that goes through sets `missed` to what it could not remove, one that does not take place adds one |

One lemma (`ActorKeeps`) does the work for the steps of workers, filter and cleanup thread: a step of
some captures touches only files that they own or that nobody does, so it has to answer for its own
packets only. `RecordsSound` needs `RecordFiles >= 2` (`RECORD_MAX_FILES` is 2): with one rotated file,
two rotations in consecutive seconds could leave two files of one age and either may be pruned.
`PruneExact` needs that `Taken` is the least number that suffices, that the listing has every archive
once, and that the last archive taken that was not stuck is the one without which the total would
still be too large.

`PdefFilterProofs` works for any definitions, packets and numbers of captures, from
`FilesAssumption`: a definition is a list of blocks as the grammar of `parser.c` yields them
(`IsBlock`: a protocol block has an endianness, a struct a list of fields with sizes in Nat, a filter a
list of conditions, each with one of the nine operators and a list of values, and a window limit in
Nat), and a probe is a string of bytes. Byte base and accumulator width are any numbers
(`PdefAssumption`). No proof uses `FitsAssumption`, which only says of which texts the model speaks
for the code. Five arguments:

* `PdefOneEndian`. The invariant `FilterInv` says that the file stays a list of blocks when the
  manager writes to it, that what is loaded came out of the parser with one of the three modes
  (`Loaded`), and `OneEndianPerCapture`. `FoldExists` and `ParseStates` turn a fold into a series of
  states, so that the least block that breaks a claim contradicts it. `MatchSettles` is the heart:
  the try that first answers with an endianness also answers when that endianness is settled from
  the start, because the tries depend only on the rules and the packet's length.
* `PdefTypeOK` and `PdefExecutorEnds`. `compile_filter_rules` lays the pieces of the conditions one
  after another (`FlattenPlaces`, `CondStarts`), patches each condition's jumps to its own end
  (`ConditionForward`) and ends with a return, so a rule's code jumps forward and inside itself
  (`RuleForward`), and so does its swapped form (`SwappedCode`). `CodeInv` carries this through
  loading. An executor that only goes forward is, after n turns, past n instructions or finished, so
  it answers within as many turns as the code is long.
* `PdefWriteback`. `LikeState` relates two parses of texts that differ in one declared endianness
  only; parsing, flattening and compiling keep them alike (`RewrittenParses`), so the written file
  parses. Where no block says little both yield the same code (`SameBig`, `RewrittenCode`).
  `WritebackInv` says that a file is rewritten at most once, in one block, with an endianness that a
  capture of the user's own text detected, and keeps that capture's packets as evidence; `BigIsFirst`
  then moves the evidence from the automatic to the declared mode.

* `PdefCodeMeans`. `LikeState`, here of a parse with itself, says that every field a rule can name
  has a size, an offset and an endianness (`ParseRules`). `RuleInstructions` gives the code of a rule
  instruction by instruction: for each condition a load, its test or its tests, and the jumps, with
  their targets; `SwappedInstructions` says that swapping changes the loads only. `WordBound` bounds
  the number that bytes spell, so that a load, extended to the accumulator's width, is the complement
  of the number that the field stands for (`LoadTurn`), and a test compares what the condition says
  (`TestMeans`). `Tested` is the invariant of the executor's turns: a machine that is in condition j is
  there because the ones before it hold, and within a list (`InList`) no value passed so far is the
  number; a machine that has stopped has the right answer. `RuleTurn` shows
  that a turn keeps it, through the three shapes of conditions (`TestTurn`, `ListTurn`,
  `ConditionTurn`); with `PdefExecutorEnds`, `RuleMeans` follows.
* `PdefVerdict`. `TriesAre` says that the tries of `packet_filter_match` are exactly the pairs of a rule
  and an offset of its window at which its struct still fits (`OffsetsTried`, `FlattenGathers`), so it
  accepts if some try does (`MatchIsTry`). Where no block says little all fields are big-endian
  (`LoadedRules` with the endiannesses `{"big"}`), so a settled endianness picks the code that reads
  the fields with it (`ReadBig`, `TryAccepts`), and `PdefCodeMeans` does the rest. The theorem covers
  every state of a capture, after a writeback too.

The proof of `PdefWriteback` found its hypothesis `NoLittleBlock`. A file may have several
`@protocol` blocks; with `endian = little` in the first and `auto` in a later one, a struct between
them takes little, the writeback replaces the first value, and later captures reject packets that
the detecting one kept. The earlier form of the property, which did not exclude this, held on the
files of the run only because none of them had such a pair; the run now has them. The proof of
`PdefCodeMeans` did the same for rules: `CodeMeansConditions` read all fields of a rule with the
endianness of its first one, which is wrong when a nested struct was declared under another; and
`eq` on a negative number is against the constant's two's complement. Both are stated now, and the
run has such files.

Only model-checked: liveness (`EveryMessageLeaves`, `EveryRequestAnswered`, `EveryTaskEndsOrIsLost`,
`BatchedFilesArchived`, `EditsApplied`), which needs fairness and `ENABLED` and is out of the
prover's reach; and of `PdefFilter` `LayoutExact`, which compares two recursive descriptions of
nested structs and needs induction over data. So the proofs about verdicts are relative to the
offsets that `flatten_structs` computes; that these are the ones of the text is model-checked.

## Findings

* `task_ends`: when the filter thread cannot parse or open its input it tells nobody, and the
  task stays running and keeps its share of the limit.
* `table_readers`: a query can copy a task object that the manager has deleted.
* `table_writers`: the cleanup thread can overwrite the manager's status update.
* `endian_little`: a file that declares `endian = little` before its structs is matched with
  big-endian loads, because the little-endian code is the swapped form of code that already was
  little-endian. `config/protocols/iec104.pdef` and `mysql.pdef` declare it so. A detected little
  endianness has the same effect once it is written back, which is why `WritebackKeepsVerdicts`
  speaks of big ones.

### Without a run of its own

Seen while modelling, and part of the models as the code has it:

* HTTP. `AnswerUnderWay` fails once a client resets its connection, because `SEND` then throws out
  of the channel's handler and the rest of the batch, other clients' replies included, is dropped
  (`HandleReplyThrows`). `AnswerUnderWayUntilReset` is what remains. Any piece of a request body is
  taken for the whole (`rxhttpresdataprocess.cpp:39`): a start whose head arrives before its body
  is posted with default parameters and again with the body, while `使用指南.md:386` has one POST
  start one task. A stop request is posted again with every segment that follows it, and the third
  reply can find the head of the second still unsent in a full socket: its own head then comes
  between that head and its body. `StreamOrdered` therefore speaks of connections with one request
  and at most two replies.
* Manager. The end of a capture erases its module's trigger time
  (`rxcapturemanagerthread.cpp:2035`), so a rule can trigger again within `cooldown_sec`;
  `使用指南.md:133` and `:625` say it does not. With inline PDEF text and a PDEF file in one request
  the endianness detected under the text is written into the file (`rxfilterthread.cpp:429`), even
  if the file declares one; `docs/pdef/PDEF_API参考.md:373-383` allows both and uses the text.
  `ExplicitEndianKept` is about the files this cannot happen to (`ReadAlone`).
* Capture files. `{date}` counts minutes (`rxstorageutils.cpp:111`), `使用指南.md:91` says seconds:
  captures of one target in a minute share a path and truncate each other. The default pattern has
  no `{seq}`, so a rotation truncates the file it just closed. Only the last segment is reported
  and archived. The filter removes the raw file whatever became of its writes
  (`rxfilterthread.cpp:365`, `:391`): packets that matched are then in no file. `NothingLost` therefore speaks of packets whose file no
  other capture has named and that has not been opened again since, by its own capture either. After a rotation
  that failed the next packet ends the process (`DumpWithoutFile`); if none comes, the capture
  reports the segment it could not open (`rxstorageutils.cpp:226` sets `current_path` first), and
  when that is a file another capture has open, the cleanup thread archives and removes it and later
  packets go to a file without a name. Filtered files are never enqueued for compression.
* Retention. `prune_archives` looks at names that begin with `capture_`, `compress_batch` writes
  `batch_`: `archive_keep_days` (`docs/配置使用指南.md:168`) and `archive_max_total_size_mb` apply to no
  archive the program writes today. `PruneExact` is about files of the older name. A removal that
  fails does not stop the loop (`rxcleanupthread.cpp:893`), so an archive younger than the one that is
  stuck goes in its place: "oldest first" holds up to the removals that fail, which `PruneExact` counts. The function that
  would write those names, `compress_file`, is never called.
* Configuration. Sampling rules are copied once when the thread starts (`rxsamplethread.cpp:61`),
  `docs/配置使用指南.md:37` has `strategy.json` reloaded while running. An edit within the second of
  the version loaded, or between reading the file and asking for its time, is not noticed; the
  exception in `EditsApplied` is exactly that.
* PDEF. Signed fields are ordered as unsigned numbers (`NoSignedOrder` excludes them); a struct that
  nests a later one takes it as empty (`InnerFirst` excludes it). A writeback of big replaces an
  `endian = little` of an earlier block and changes the fields parsed under it (`NoLittleBlock`
  excludes it).

## Not modelled

`PROJECT.json` gives each part's reason. Messages that no thread sends (query, task update,
progress, clean-expired, check-threshold) have no action. libpcap, `/proc`, JSON, the tokens of
the PDEF grammar, the headers `parse_packet_data` skips and the command line client are input or
output without protocol state. The packet queue and `compress_file` are dead code. The removal of
uploaded PDEF files by age has no state but the file's; its effect on a capture that still needs
the file is `FilterGivesUp`.

## Plan

The modules planned are written, and every invariant that a run checks is proved but `LayoutExact`.
For it one would prove, struct by struct in the order of the text, that `Places` and `SizeOf` of a
struct are what `FlattenStruct` has left in the table.

A model of the walk of a reader over the idle copy of the task table, cut at each map access, would
make the container race of `SafeTaskMgr` explicit.
