----------------------------- MODULE SafeTaskMgr -----------------------------
(***************************************************************************)
(* The task table as memory (src/rxsafetaskmgr.h): two copies of a map     *)
(* from capture id to a raw pointer, the index of the live copy, and the   *)
(* list of replaced objects that are deleted later.  TaskTable treats an   *)
(* operation as one step; here an operation is cut where another thread    *)
(* can come between, because CRxSafeTaskMgr has no lock.                   *)
(*                                                                         *)
(* The manager writes (update_status, add_task) and deletes.  The cleanup  *)
(* thread writes too (append_capture_files from enqueue_files).  HTTP      *)
(* threads read (query_task from handle_stop and handle_status).           *)
(*                                                                         *)
(* Each map or vector access is one atomic step, the mildest outcome of    *)
(* the races on the containers themselves: what goes wrong here goes wrong *)
(* without them.  Secondary indexes and counters are left out.             *)
(***************************************************************************)
EXTENDS Naturals, Sequences, Functions

CONSTANTS CaptureIds,   \* capture ids
          Readers,      \* HTTP threads that query tasks
          Cleaners,     \* {} or one thread: the cleanup thread
          MaxObjs       \* bound: task objects allocated

VARIABLES tables,       \* _tables[0], _tables[1]: capture id to object
          curr,         \* _curr
          heap,         \* the objects allocated so far: <<status, recorded>>
          freed,        \* objects deleted
          pendingDel,   \* _pending_deletes
          manager, cleaner, reader,   \* where each thread is, and its locals
          ended         \* history: captures the manager has set to completed

vars == <<tables, curr, heap, freed, pendingDel, manager, cleaner, reader, ended>>

Live == tables[curr]
NoTask == [x \in {} |-> 0]
Rest == [pc |-> "idle"]

Init ==
  /\ tables = [i \in {0, 1} |-> NoTask]
  /\ curr = 0
  /\ heap = <<>>
  /\ freed = {}
  /\ pendingDel = <<>>
  /\ manager = Rest
  /\ cleaner = [c \in Cleaners |-> Rest]
  /\ reader = [r \in Readers |-> Rest]
  /\ ended = {}

\* new SRxCaptureTask: objects are numbered in the order of allocation.
New(content) == Len(heap) < MaxObjs /\ heap' = Append(heap, content)
-----------------------------------------------------------------------------
(* The manager. *)

\* run_process, before every turn of the epoll loop: cleanup_pending_deletes.
RunProcess ==
  /\ manager.pc = "idle"
  /\ pendingDel # <<>>
  /\ freed' = freed \cup Range(pendingDel)
  /\ pendingDel' = <<>>
  /\ UNCHANGED <<tables, curr, heap, manager, cleaner, reader, ended>>

\* add_task for a new capture: the idle copy becomes the live one with the task
\* in it ...
AddToIdle(id) ==
  /\ manager.pc = "idle"
  /\ id \notin DOMAIN Live
  /\ New([status |-> "active", recorded |-> FALSE])
  /\ tables' = [tables EXCEPT ![1 - curr] =
                  [x \in DOMAIN Live \cup {id} |-> IF x = id THEN Len(heap') ELSE Live[x]]]
  /\ manager' = [pc |-> "flip"]
  /\ UNCHANGED <<curr, freed, pendingDel, cleaner, reader, ended>>

\* ... and _curr is switched to it.
Flip ==
  /\ manager.pc = "flip"
  /\ curr' = 1 - curr
  /\ manager' = Rest
  /\ UNCHANGED <<tables, heap, freed, pendingDel, cleaner, reader, ended>>

\* update_status: load the pointer and copy the task ...
CopyTask(id) ==
  /\ manager.pc = "idle"
  /\ id \in DOMAIN Live
  /\ New([heap[Live[id]] EXCEPT !.status = "completed"])
  /\ manager' = [pc |-> "exchange", id |-> id, new |-> Len(heap')]
  /\ UNCHANGED <<tables, curr, freed, pendingDel, cleaner, reader, ended>>

\* ... then exchange the pointer and queue the replaced object for deletion.
ExchangeTask ==
  /\ manager.pc = "exchange"
  /\ pendingDel' = Append(pendingDel, Live[manager.id])
  /\ tables' = [tables EXCEPT ![curr][manager.id] = manager.new]
  /\ ended' = ended \cup {manager.id}
  /\ manager' = Rest
  /\ UNCHANGED <<curr, heap, freed, cleaner, reader>>
-----------------------------------------------------------------------------
(* The cleanup thread: append_capture_files, which is update_task. *)

CleanerCopies(c, id) ==
  /\ cleaner[c].pc = "idle"
  /\ id \in DOMAIN Live
  /\ New([heap[Live[id]] EXCEPT !.recorded = TRUE])
  /\ cleaner' = [cleaner EXCEPT ![c] =
                   [pc |-> "exchange", id |-> id, table |-> curr, new |-> Len(heap')]]
  /\ UNCHANGED <<tables, curr, freed, pendingDel, manager, reader, ended>>

\* The exchange goes to the copy of the table that was live before.
CleanerExchanges(c) ==
  /\ cleaner[c].pc = "exchange"
  /\ LET job == cleaner[c]
     IN  /\ pendingDel' = Append(pendingDel, tables[job.table][job.id])
         /\ tables' = [tables EXCEPT ![job.table][job.id] = job.new]
  /\ cleaner' = [cleaner EXCEPT ![c] = Rest]
  /\ UNCHANGED <<curr, heap, freed, manager, reader, ended>>
-----------------------------------------------------------------------------
(* An HTTP thread: query_task loads the pointer, then copies the fields. *)

ReaderLoads(r, id) ==
  /\ reader[r].pc = "idle"
  /\ id \in DOMAIN Live
  /\ reader' = [reader EXCEPT ![r] = [pc |-> "copying", ptr |-> Live[id]]]
  /\ UNCHANGED <<tables, curr, heap, freed, pendingDel, manager, cleaner, ended>>

ReaderDone(r) ==
  /\ reader[r].pc = "copying"
  /\ reader' = [reader EXCEPT ![r] = Rest]
  /\ UNCHANGED <<tables, curr, heap, freed, pendingDel, manager, cleaner, ended>>
-----------------------------------------------------------------------------
Next ==
  \/ RunProcess \/ Flip \/ ExchangeTask
  \/ \E id \in CaptureIds : AddToIdle(id) \/ CopyTask(id)
  \/ \E c \in Cleaners : CleanerExchanges(c) \/ \E id \in CaptureIds : CleanerCopies(c, id)
  \/ \E r \in Readers : ReaderDone(r) \/ \E id \in CaptureIds : ReaderLoads(r, id)

Spec == Init /\ [][Next]_vars
-----------------------------------------------------------------------------
\* Memory safety of queries while the manager is the only writer: the task an
\* HTTP thread is copying has not been deleted.
ReadsAllocated ==
  \A r \in Readers : reader[r].pc = "copying" => reader[r].ptr \notin freed

\* No status update is lost: a capture the manager has set to completed is
\* completed in the live table.
StatusKept ==
  \A id \in ended \cap DOMAIN Live : heap[Live[id]].status = "completed"
=============================================================================
