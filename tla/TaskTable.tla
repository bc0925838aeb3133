------------------------------ MODULE TaskTable ------------------------------
(***************************************************************************)
(* The capture task table (src/rxsafetaskmgr.h, CRxSafeTaskMgr over a      *)
(* TaskTable): tasks by id, three secondary indexes, one counter for each  *)
(* status.  Operations are functions from a table to a table; the modules  *)
(* that EXTEND this one say which thread calls them and when.              *)
(*                                                                         *)
(* A std::map is a function whose domain is the set of keys present.  The  *)
(* two copies of the table and the flip of _curr are one value here: for   *)
(* the caller that writes, an operation is complete when it returns.       *)
(***************************************************************************)
EXTENDS Integers, FiniteSets

Statuses == {"pending", "resolving", "running", "completed", "failed", "stopped"}

\* is_active_status
ActiveStatuses == {"pending", "resolving", "running"}

Put(map, k, v) == [x \in DOMAIN map \cup {k} |-> IF x = k THEN v ELSE map[x]]
Without(map, k) == [x \in DOMAIN map \ {k} |-> map[x]]
WithoutIf(map, k, v) ==
  IF k \in DOMAIN map /\ map[k] = v THEN Without(map, k) ELSE map

EmptyMap == [x \in {} |-> 0]

EmptyTable ==
  [slots |-> EmptyMap, byKey |-> EmptyMap, bySig |-> EmptyMap,
   bySid |-> EmptyMap, count |-> [s \in Statuses |-> 0]]

Ids(t) == DOMAIN t.slots
IsActive(t, id) == id \in Ids(t) /\ t.slots[id].status \in ActiveStatuses

\* is_key_active and query_active_task_by_signature: the index, then the slot.
IsKeyActive(t, key) == key \in DOMAIN t.byKey /\ IsActive(t, t.byKey[key])
IsSignatureActive(t, sig) == sig \in DOMAIN t.bySig /\ IsActive(t, t.bySig[sig])

\* Mutant: an evicted task keeps being counted.
RemoveTaskUncounted(t, id) ==
  IF id \notin Ids(t) THEN t
  ELSE LET old == t.slots[id]
       IN  [t EXCEPT !.slots = Without(@, id),
                     !.byKey = Without(@, old.key),
                     !.bySig = WithoutIf(@, old.sig, id),
                     !.bySid = WithoutIf(@, old.sid, id)]

\* remove_task of CRxSafeTaskMgr, and its use inside add_task.  The key is
\* erased whatever it points to, signature and sid only if they point to id.
RemoveTask(t, id) ==
  IF id \notin Ids(t) THEN t
  ELSE LET old == t.slots[id]
       IN  [t EXCEPT !.slots = Without(@, id),
                     !.byKey = Without(@, old.key),
                     !.bySig = WithoutIf(@, old.sig, id),
                     !.bySid = WithoutIf(@, old.sid, id),
                     !.count[old.status] = @ - 1]

\* add_task makes room: the task an index names for k goes.
Evict(t, index, k, id) ==
  IF k \in DOMAIN index /\ index[k] # id THEN RemoveTask(t, index[k]) ELSE t

\* TaskTable::add_task and the status counter.
Insert(t, id, task) ==
  [t EXCEPT !.slots = Put(@, id, task),
            !.byKey = Put(@, task.key, id),
            !.bySig = IF task.status \in ActiveStatuses THEN Put(@, task.sig, id) ELSE @,
            !.bySid = Put(@, task.sid, id),
            !.count[task.status] = @ + 1]

\* CRxSafeTaskMgr::add_task: a task with this id stops being counted, then the
\* holders of the key, the signature and the sid are evicted, in that order.
AddTask(t, id, task) ==
  LET t0 == IF id \in Ids(t) THEN [t EXCEPT !.count[t.slots[id].status] = @ - 1] ELSE t
      t1 == Evict(t0, t0.byKey, task.key, id)
      t2 == Evict(t1, t1.bySig, task.sig, id)
      t3 == Evict(t2, t2.bySid, task.sid, id)
  IN  Insert(t3, id, task)

\* Mutant: a task that ends stays in the signature index.
ReplaceKeepingSignature(t, id, new) ==
  [t EXCEPT !.slots[id] = new,
            !.bySig = Put(@, new.sig, id),
            !.bySid = Put(@, new.sid, id),
            !.count = [s \in Statuses |-> @[s] - (IF s = t.slots[id].status THEN 1 ELSE 0)
                                               + (IF s = new.status THEN 1 ELSE 0)]]

\* The common tail of update_status and update_task: re-index, exchange the
\* slot's pointer, move the task from one status counter to the other.
Replace(t, id, new) ==
  [t EXCEPT !.slots[id] = new,
            !.bySig = IF new.status \in ActiveStatuses
                      THEN Put(@, new.sig, id) ELSE WithoutIf(@, new.sig, id),
            !.bySid = Put(@, new.sid, id),
            !.count = [s \in Statuses |-> @[s] - (IF s = t.slots[id].status THEN 1 ELSE 0)
                                               + (IF s = new.status THEN 1 ELSE 0)]]

\* update_status, and update_task with an updater that sets the status; both
\* return false and change nothing when the id is gone.
SetStatus(t, id, status) ==
  IF id \in Ids(t) THEN Replace(t, id, [t.slots[id] EXCEPT !.status = status]) ELSE t

\* update_task with TaskAppendFiles or TaskArchiveRecorder.  A capture has one
\* file, and both updaters replace the entry that has its path.
SetFile(t, id, file) ==
  IF id \in Ids(t) THEN Replace(t, id, [t.slots[id] EXCEPT !.file = file]) ELSE t
-----------------------------------------------------------------------------
\* A task and a table: which fields they have, and that a table is finite.
IsTask(task) ==
  /\ task = [key |-> task.key, sig |-> task.sig, sid |-> task.sid,
             status |-> task.status, user |-> task.user, file |-> task.file]
  /\ task.status \in Statuses

IsTable(t) ==
  /\ t = [slots |-> t.slots, byKey |-> t.byKey, bySig |-> t.bySig,
          bySid |-> t.bySid, count |-> t.count]
  /\ t.count \in [Statuses -> Int]
  /\ t.slots = [id \in Ids(t) |-> t.slots[id]]
  /\ \A id \in Ids(t) : IsTask(t.slots[id])
  /\ IsFiniteSet(Ids(t))

\* The indexes lead to exactly the tasks they should: every task is found by
\* its key and by its sid, an active one also by its signature, and no entry
\* dangles or names a task that has another key, signature or sid.
IndexesExact(t) ==
  /\ \A id \in Ids(t) :
       LET task == t.slots[id]
       IN  /\ task.key \in DOMAIN t.byKey /\ t.byKey[task.key] = id
           /\ task.sid \in DOMAIN t.bySid /\ t.bySid[task.sid] = id
           /\ task.status \in ActiveStatuses
                => task.sig \in DOMAIN t.bySig /\ t.bySig[task.sig] = id
  /\ \A k \in DOMAIN t.byKey : t.byKey[k] \in Ids(t) /\ t.slots[t.byKey[k]].key = k
  /\ \A s \in DOMAIN t.bySid : t.bySid[s] \in Ids(t) /\ t.slots[t.bySid[s]].sid = s
  /\ \A s \in DOMAIN t.bySig : IsActive(t, t.bySig[s]) /\ t.slots[t.bySig[s]].sig = s

\* Each status counter is the number of tasks that have the status, and so is
\* never negative (it is a size_t in the code).
CountersExact(t) ==
  \A s \in Statuses : t.count[s] = Cardinality({id \in Ids(t) : t.slots[id].status = s})
=============================================================================
