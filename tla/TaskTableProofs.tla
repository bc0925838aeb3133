-------------------------- MODULE TaskTableProofs ---------------------------
(***************************************************************************)
(* Lemmas about the operations of the task table: each keeps the indexes   *)
(* and the counters exact, for any tasks, keys, signatures and sids.       *)
(***************************************************************************)
EXTENDS TaskTable, FiniteSetTheorems, TLAPS

Exact(t) == IsTable(t) /\ IndexesExact(t) /\ CountersExact(t)

Having(t, s) == {id \in Ids(t) : t.slots[id].status = s}

\* Every index finds task j.
Found(t, j) ==
  /\ t.slots[j].key \in DOMAIN t.byKey /\ t.byKey[t.slots[j].key] = j
  /\ t.slots[j].sid \in DOMAIN t.bySid /\ t.bySid[t.slots[j].sid] = j
  /\ t.slots[j].status \in ActiveStatuses
       => t.slots[j].sig \in DOMAIN t.bySig /\ t.bySig[t.slots[j].sig] = j

\* No index entry dangles or names another task.
NoneDangles(t) ==
  /\ \A k \in DOMAIN t.byKey : t.byKey[k] \in Ids(t) /\ t.slots[t.byKey[k]].key = k
  /\ \A s \in DOMAIN t.bySid : t.bySid[s] \in Ids(t) /\ t.slots[t.bySid[s]].sid = s
  /\ \A s \in DOMAIN t.bySig : IsActive(t, t.bySig[s]) /\ t.slots[t.bySig[s]].sig = s

\* The indexes are exact when every task is found and no entry dangles.
LEMMA IndexesByParts ==
  ASSUME NEW t
  PROVE  IndexesExact(t) <=> (\A j \in Ids(t) : Found(t, j)) /\ NoneDangles(t)
BY DEF IndexesExact, Found, NoneDangles

\* The empty table is exact.
LEMMA EmptyTableExact == Exact(EmptyTable)
<1>1. /\ EmptyTable.slots = EmptyMap /\ EmptyTable.byKey = EmptyMap
      /\ EmptyTable.bySig = EmptyMap /\ EmptyTable.bySid = EmptyMap
      /\ EmptyTable.count = [s \in Statuses |-> 0]
      /\ EmptyTable = [slots |-> EmptyTable.slots, byKey |-> EmptyTable.byKey,
                       bySig |-> EmptyTable.bySig, bySid |-> EmptyTable.bySid,
                       count |-> EmptyTable.count]
  BY DEF EmptyTable
<1>2. DOMAIN EmptyMap = {} /\ EmptyMap = [x \in {} |-> EmptyMap[x]]
  BY DEF EmptyMap
<1>3. Ids(EmptyTable) = {}
  BY <1>1, <1>2 DEF Ids
<1>4. IsTable(EmptyTable)
  BY <1>1, <1>2, <1>3, FS_EmptySet DEF IsTable
<1>5. IndexesExact(EmptyTable)
  BY <1>1, <1>2, <1>3 DEF IndexesExact
<1>6. CountersExact(EmptyTable)
  <2> SUFFICES ASSUME NEW s \in Statuses
               PROVE  EmptyTable.count[s]
                        = Cardinality({id \in Ids(EmptyTable) : EmptyTable.slots[id].status = s})
    BY DEF CountersExact
  <2>1. {id \in Ids(EmptyTable) : EmptyTable.slots[id].status = s} = {}
    BY <1>3
  <2> QED BY <1>1, <2>1, FS_EmptySet
<1> QED BY <1>4, <1>5, <1>6 DEF Exact

\* The fields of the table after remove_task.
LEMMA RemoveTaskFields ==
  ASSUME NEW t, IsTable(t), NEW id \in Ids(t)
  PROVE  LET r == RemoveTask(t, id)
             old == t.slots[id]
         IN  /\ r = [slots |-> r.slots, byKey |-> r.byKey, bySig |-> r.bySig,
                     bySid |-> r.bySid, count |-> r.count]
             /\ r.slots = Without(t.slots, id)
             /\ r.byKey = Without(t.byKey, old.key)
             /\ r.bySig = WithoutIf(t.bySig, old.sig, id)
             /\ r.bySid = WithoutIf(t.bySid, old.sid, id)
             /\ r.count = [t.count EXCEPT ![old.status] = @ - 1]
<1> DEFINE old == t.slots[id]
           r == RemoveTask(t, id)
<1>1. r = [t EXCEPT !.slots = Without(t.slots, id),
                    !.byKey = Without(t.byKey, old.key),
                    !.bySig = WithoutIf(t.bySig, old.sig, id),
                    !.bySid = WithoutIf(t.bySid, old.sid, id),
                    !.count = [t.count EXCEPT ![old.status] = @ - 1]]
  BY DEF RemoveTask, IsTable
<1>2. t = [slots |-> t.slots, byKey |-> t.byKey, bySig |-> t.bySig,
           bySid |-> t.bySid, count |-> t.count]
  BY DEF IsTable
<1> QED BY <1>1, <1>2

\* A counter counts the tasks that have its status, so it stays exact when a
\* task is taken away from one of these sets or added to it.
LEMMA HavingFinite ==
  ASSUME NEW t, IsTable(t), NEW s
  PROVE  IsFiniteSet(Having(t, s)) /\ Cardinality(Having(t, s)) \in Nat
<1>1. Having(t, s) \in SUBSET Ids(t)
  BY DEF Having
<1>2. IsFiniteSet(Having(t, s))
  BY <1>1, FS_Subset DEF IsTable
<1> QED BY <1>2, FS_CardinalityType

\* The counters are exact when each is the number of tasks with its status.
LEMMA CountersByHaving ==
  ASSUME NEW t
  PROVE  CountersExact(t) <=> \A s \in Statuses : t.count[s] = Cardinality(Having(t, s))
BY DEF CountersExact, Having

\* remove_task keeps an exact table exact and removes one task.
LEMMA RemoveTaskExact ==
  ASSUME NEW t, Exact(t), NEW id \in Ids(t)
  PROVE  LET r == RemoveTask(t, id)
         IN  /\ Exact(r)
             /\ Ids(r) = Ids(t) \ {id}
             /\ \A j \in Ids(r) : r.slots[j] = t.slots[j]
<1> DEFINE r == RemoveTask(t, id)
           old == t.slots[id]
<1>1. /\ r = [slots |-> r.slots, byKey |-> r.byKey, bySig |-> r.bySig,
              bySid |-> r.bySid, count |-> r.count]
      /\ r.slots = Without(t.slots, id)
      /\ r.byKey = Without(t.byKey, old.key)
      /\ r.bySig = WithoutIf(t.bySig, old.sig, id)
      /\ r.bySid = WithoutIf(t.bySid, old.sid, id)
      /\ r.count = [t.count EXCEPT ![old.status] = @ - 1]
  BY RemoveTaskFields DEF Exact
<1>2. /\ Ids(r) = Ids(t) \ {id}
      /\ \A j \in Ids(r) : r.slots[j] = t.slots[j]
  BY <1>1 DEF Ids, Without
<1>3. IsTable(t) /\ IndexesExact(t) /\ CountersExact(t)
  BY DEF Exact
<1>4. old.status \in Statuses /\ t.count \in [Statuses -> Int]
  BY <1>3 DEF IsTable, IsTask
<1> HIDE DEF r, old
<1>5. IsTable(r)
  <2>1. r.slots = [j \in Ids(r) |-> r.slots[j]]
    BY <1>1 DEF Ids, Without
  <2>2. IsFiniteSet(Ids(r))
    BY <1>2, <1>3, FS_RemoveElement DEF IsTable
  <2>3. r.count \in [Statuses -> Int]
    BY <1>1, <1>4
  <2>4. \A j \in Ids(r) : IsTask(r.slots[j])
    BY <1>2, <1>3 DEF IsTable
  <2> QED BY <1>1, <2>1, <2>2, <2>3, <2>4 DEF IsTable
<1>6. IndexesExact(r)
  <2>1. /\ DOMAIN r.byKey = DOMAIN t.byKey \ {old.key}
        /\ \A k \in DOMAIN r.byKey : r.byKey[k] = t.byKey[k]
    BY <1>1 DEF Without
  <2>2. /\ DOMAIN r.bySig = DOMAIN t.bySig \ {s \in {old.sig} : t.bySig[s] = id}
        /\ \A s \in DOMAIN r.bySig : r.bySig[s] = t.bySig[s]
    BY <1>1 DEF WithoutIf, Without
  <2>3. /\ DOMAIN r.bySid = DOMAIN t.bySid \ {s \in {old.sid} : t.bySid[s] = id}
        /\ \A s \in DOMAIN r.bySid : r.bySid[s] = t.bySid[s]
    BY <1>1 DEF WithoutIf, Without
  <2> USE DEF old
  <2>4. ASSUME NEW j \in Ids(r) PROVE Found(r, j)
    <3>1. j \in Ids(t) /\ j # id /\ r.slots[j] = t.slots[j]
      BY <1>2
    <3>2. Found(t, j) /\ t.byKey[old.key] = id
      BY <1>3, <3>1, IndexesByParts DEF Found
    <3> QED BY <2>1, <2>2, <2>3, <3>1, <3>2 DEF Found
  <2>5. NoneDangles(r)
    <3>1. NoneDangles(t) /\ Found(t, id)
      BY <1>3, IndexesByParts
    <3> QED BY <1>2, <2>1, <2>2, <2>3, <3>1 DEF NoneDangles, Found, IsActive
  <2> QED BY <2>4, <2>5, IndexesByParts
<1>7. CountersExact(r)
  <2> SUFFICES ASSUME NEW s \in Statuses PROVE r.count[s] = Cardinality(Having(r, s))
    BY CountersByHaving
  <2>1. Having(r, s) = Having(t, s) \ {id}
    BY <1>2 DEF Having
  <2>2. t.count[s] = Cardinality(Having(t, s))
    BY <1>3, CountersByHaving
  <2>3. id \in Having(t, s) <=> s = old.status
    BY DEF Having, old
  <2>4. Cardinality(Having(r, s))
          = IF id \in Having(t, s) THEN Cardinality(Having(t, s)) - 1 ELSE Cardinality(Having(t, s))
    BY <1>3, <2>1, HavingFinite, FS_RemoveElement
  <2> QED BY <1>1, <1>4, <2>2, <2>3, <2>4
<1> QED BY <1>2, <1>5, <1>6, <1>7 DEF Exact, r

\* No task stands in the way of a new one: none has its key or its sid, and no
\* active one its signature.
Free(t, task) ==
  \A j \in Ids(t) :
    /\ t.slots[j].key # task.key
    /\ t.slots[j].sid # task.sid
    /\ t.slots[j].status \in ActiveStatuses => t.slots[j].sig # task.sig

\* TaskTable::add_task keeps an exact table exact when its keys are free.
LEMMA InsertExact ==
  ASSUME NEW t, Exact(t), NEW id, id \notin Ids(t), NEW task, IsTask(task), Free(t, task)
  PROVE  LET r == Insert(t, id, task)
         IN  /\ Exact(r)
             /\ Ids(r) = Ids(t) \cup {id}
             /\ r.slots[id] = task
             /\ \A j \in Ids(t) : r.slots[j] = t.slots[j]
<1> DEFINE r == Insert(t, id, task)
<1>1. IsTable(t) /\ IndexesExact(t) /\ CountersExact(t)
  BY DEF Exact
<1>2. t = [slots |-> t.slots, byKey |-> t.byKey, bySig |-> t.bySig,
           bySid |-> t.bySid, count |-> t.count]
  BY <1>1 DEF IsTable
<1>3. r = [t EXCEPT
             !.slots = Put(t.slots, id, task),
             !.byKey = Put(t.byKey, task.key, id),
             !.bySig = IF task.status \in ActiveStatuses THEN Put(t.bySig, task.sig, id) ELSE t.bySig,
             !.bySid = Put(t.bySid, task.sid, id),
             !.count = [t.count EXCEPT ![task.status] = @ + 1]]
  BY <1>2 DEF Insert
<1>4. /\ r = [slots |-> r.slots, byKey |-> r.byKey, bySig |-> r.bySig,
              bySid |-> r.bySid, count |-> r.count]
      /\ r.slots = Put(t.slots, id, task)
      /\ r.byKey = Put(t.byKey, task.key, id)
      /\ r.bySig = IF task.status \in ActiveStatuses THEN Put(t.bySig, task.sig, id) ELSE t.bySig
      /\ r.bySid = Put(t.bySid, task.sid, id)
      /\ r.count = [t.count EXCEPT ![task.status] = @ + 1]
  BY <1>2, <1>3
<1> HIDE DEF r
<1>5. /\ Ids(r) = Ids(t) \cup {id}
      /\ r.slots[id] = task
      /\ \A j \in Ids(t) : r.slots[j] = t.slots[j]
  BY <1>4 DEF Ids, Put
<1>6. task.status \in Statuses /\ t.count \in [Statuses -> Int]
  BY <1>1 DEF IsTable, IsTask
<1>7. IsTable(r)
  <2>1. r.slots = [j \in Ids(r) |-> r.slots[j]]
    BY <1>4 DEF Ids, Put
  <2>2. IsFiniteSet(Ids(r))
    BY <1>1, <1>5, FS_AddElement DEF IsTable
  <2>3. r.count \in [Statuses -> Int]
    BY <1>4, <1>6
  <2>4. \A j \in Ids(r) : IsTask(r.slots[j])
    BY <1>1, <1>5 DEF IsTable
  <2> QED BY <1>4, <2>1, <2>2, <2>3, <2>4 DEF IsTable
<1>8. IndexesExact(r)
  <2>1. NoneDangles(t) /\ \A j \in Ids(t) : Found(t, j)
    BY <1>1, IndexesByParts
  <2>2. /\ DOMAIN r.byKey = DOMAIN t.byKey \cup {task.key}
        /\ r.byKey[task.key] = id
        /\ \A k \in DOMAIN t.byKey : k # task.key => r.byKey[k] = t.byKey[k]
    BY <1>4 DEF Put
  <2>3. /\ DOMAIN r.bySid = DOMAIN t.bySid \cup {task.sid}
        /\ r.bySid[task.sid] = id
        /\ \A s \in DOMAIN t.bySid : s # task.sid => r.bySid[s] = t.bySid[s]
    BY <1>4 DEF Put
  <2>4. /\ task.status \in ActiveStatuses =>
             DOMAIN r.bySig = DOMAIN t.bySig \cup {task.sig} /\ r.bySig[task.sig] = id
        /\ task.status \notin ActiveStatuses => r.bySig = t.bySig
        /\ \A s \in DOMAIN t.bySig : s # task.sig => r.bySig[s] = t.bySig[s]
    BY <1>4 DEF Put
  <2>5. ASSUME NEW j \in Ids(r) PROVE Found(r, j)
    <3>1. CASE j = id
      BY <1>5, <2>2, <2>3, <2>4, <3>1 DEF Found
    <3>2. CASE j # id
      <4>1. j \in Ids(t) /\ r.slots[j] = t.slots[j] /\ Found(t, j)
        BY <1>5, <2>1, <3>2
      <4>2. /\ t.slots[j].key # task.key /\ t.slots[j].sid # task.sid
            /\ t.slots[j].status \in ActiveStatuses => t.slots[j].sig # task.sig
        BY <4>1 DEF Free
      <4> QED BY <2>2, <2>3, <2>4, <4>1, <4>2 DEF Found
    <3> QED BY <3>1, <3>2
  <2>6. NoneDangles(r)
    BY <1>5, <2>1, <2>2, <2>3, <2>4 DEF NoneDangles, IsActive
  <2> QED BY <2>5, <2>6, IndexesByParts
<1>9. CountersExact(r)
  <2> SUFFICES ASSUME NEW s \in Statuses PROVE r.count[s] = Cardinality(Having(r, s))
    BY CountersByHaving
  <2>1. t.count[s] = Cardinality(Having(t, s)) /\ id \notin Having(t, s)
    BY <1>1, CountersByHaving DEF Having
  <2>2. CASE s = task.status
    <3>1. Having(r, s) = Having(t, s) \cup {id}
      BY <1>5, <2>2 DEF Having
    <3>2. Cardinality(Having(r, s)) = Cardinality(Having(t, s)) + 1
      BY <1>1, <2>1, <3>1, HavingFinite, FS_AddElement
    <3>3. r.count[s] = t.count[s] + 1
      BY <1>4, <1>6, <2>2
    <3> QED BY <2>1, <3>2, <3>3
  <2>3. CASE s # task.status
    <3>1. Having(r, s) = Having(t, s)
      BY <1>5, <2>3 DEF Having
    <3> QED BY <1>4, <1>6, <2>1, <2>3, <3>1
  <2> QED BY <2>2, <2>3
<1> QED BY <1>5, <1>7, <1>8, <1>9 DEF Exact, r

\* The common tail of update_status and update_task keeps an exact table exact
\* when the task keeps its keys, and when a task that becomes active again
\* finds its signature free.
LEMMA ReplaceExact ==
  ASSUME NEW t, Exact(t), NEW id \in Ids(t), NEW new, IsTask(new),
         new.key = t.slots[id].key, new.sig = t.slots[id].sig, new.sid = t.slots[id].sid,
         \/ new.status \notin ActiveStatuses
         \/ t.slots[id].status \in ActiveStatuses
         \/ new.sig \notin DOMAIN t.bySig
  PROVE  LET r == Replace(t, id, new)
         IN  /\ Exact(r)
             /\ Ids(r) = Ids(t)
             /\ r.slots = [t.slots EXCEPT ![id] = new]
             /\ r.byKey = t.byKey
             /\ DOMAIN r.bySid = DOMAIN t.bySid
<1> DEFINE r == Replace(t, id, new)
           old == t.slots[id]
           moved == [s \in Statuses |-> t.count[s] - (IF s = t.slots[id].status THEN 1 ELSE 0)
                                                   + (IF s = new.status THEN 1 ELSE 0)]
           bySig == IF new.status \in ActiveStatuses
                    THEN Put(t.bySig, new.sig, id) ELSE WithoutIf(t.bySig, new.sig, id)
<1>1. IsTable(t) /\ IndexesExact(t) /\ CountersExact(t)
  BY DEF Exact
<1>2. t = [slots |-> t.slots, byKey |-> t.byKey, bySig |-> t.bySig,
           bySid |-> t.bySid, count |-> t.count]
  BY <1>1 DEF IsTable
<1>3. r = [t EXCEPT !.slots = [t.slots EXCEPT ![id] = new],
                    !.bySig = bySig,
                    !.bySid = Put(t.bySid, new.sid, id),
                    !.count = moved]
  BY <1>2 DEF Replace
<1> HIDE DEF moved, bySig
<1>4. /\ r = [slots |-> r.slots, byKey |-> r.byKey, bySig |-> r.bySig,
              bySid |-> r.bySid, count |-> r.count]
      /\ r.slots = [t.slots EXCEPT ![id] = new]
      /\ r.byKey = t.byKey
      /\ r.bySig = bySig
      /\ r.bySid = Put(t.bySid, new.sid, id)
      /\ r.count = moved
  BY <1>2, <1>3
<1> HIDE DEF r
<1>5. /\ Ids(r) = Ids(t)
      /\ r.slots[id] = new
      /\ \A j \in Ids(t) : j # id => r.slots[j] = t.slots[j]
  BY <1>4 DEF Ids
<1>6. new.status \in Statuses /\ old.status \in Statuses /\ t.count \in [Statuses -> Int]
  BY <1>1 DEF IsTable, IsTask
<1>7. IsTable(r)
  <2>1. r.slots = [j \in Ids(r) |-> r.slots[j]]
    BY <1>4 DEF Ids
  <2>2. r.count \in [Statuses -> Int]
    BY <1>4, <1>6 DEF moved
  <2>3. \A j \in Ids(r) : IsTask(r.slots[j])
    BY <1>1, <1>5 DEF IsTable
  <2> QED BY <1>1, <1>4, <1>5, <2>1, <2>2, <2>3 DEF IsTable
<1>8. NoneDangles(t) /\ \A j \in Ids(t) : Found(t, j)
  BY <1>1, IndexesByParts
<1>9. DOMAIN r.bySid = DOMAIN t.bySid /\ \A s \in DOMAIN t.bySid : r.bySid[s] = t.bySid[s]
  BY <1>4, <1>8 DEF Put, Found
<1>10. IndexesExact(r)
  <2>1. CASE new.status \in ActiveStatuses
    <3>1. /\ DOMAIN r.bySig = DOMAIN t.bySig \cup {new.sig}
          /\ r.bySig[new.sig] = id
          /\ \A s \in DOMAIN t.bySig : r.bySig[s] = t.bySig[s]
      BY <1>4, <1>8, <2>1 DEF Put, Found, bySig
    <3>2. ASSUME NEW j \in Ids(r) PROVE Found(r, j)
      <4>1. Found(t, j) /\ j \in Ids(t)
        BY <1>5, <1>8
      <4> QED BY <1>4, <1>5, <1>9, <3>1, <4>1 DEF Found
    <3>3. NoneDangles(r)
      BY <1>4, <1>5, <1>8, <1>9, <2>1, <3>1 DEF NoneDangles, IsActive
    <3> QED BY <3>2, <3>3, IndexesByParts
  <2>2. CASE new.status \notin ActiveStatuses
    <3>1. /\ DOMAIN r.bySig = DOMAIN t.bySig \ {s \in {new.sig} : t.bySig[s] = id}
          /\ \A s \in DOMAIN r.bySig : r.bySig[s] = t.bySig[s]
      BY <1>4, <2>2 DEF WithoutIf, Without, bySig
    <3>2. ASSUME NEW j \in Ids(r) PROVE Found(r, j)
      <4>1. Found(t, j) /\ j \in Ids(t)
        BY <1>5, <1>8
      <4> QED BY <1>4, <1>5, <1>9, <2>2, <3>1, <4>1 DEF Found
    <3>3. NoneDangles(r)
      BY <1>4, <1>5, <1>8, <1>9, <2>2, <3>1 DEF NoneDangles, IsActive
    <3> QED BY <3>2, <3>3, IndexesByParts
  <2> QED BY <2>1, <2>2
<1>11. CountersExact(r)
  <2> SUFFICES ASSUME NEW s \in Statuses PROVE r.count[s] = Cardinality(Having(r, s))
    BY CountersByHaving
  <2> DEFINE rest == Having(t, s) \ {id}
  <2>1. t.count[s] = Cardinality(Having(t, s)) /\ t.count[s] \in Int
    BY <1>1, <1>6, CountersByHaving
  <2>2. /\ IsFiniteSet(rest)
        /\ Cardinality(rest) = t.count[s] - (IF s = old.status THEN 1 ELSE 0)
    <3>1. id \in Having(t, s) <=> s = old.status
      BY DEF Having
    <3> QED BY <1>1, <2>1, <3>1, HavingFinite, FS_RemoveElement
  <2>3. r.count[s] = t.count[s] - (IF s = old.status THEN 1 ELSE 0)
                                + (IF s = new.status THEN 1 ELSE 0)
    BY <1>4 DEF moved
  <2>4. CASE s = new.status
    <3>1. Having(r, s) = rest \cup {id} /\ id \notin rest
      BY <1>5, <2>4 DEF Having
    <3>2. Cardinality(Having(r, s)) = Cardinality(rest) + 1
      BY <2>2, <3>1, FS_AddElement
    <3> QED BY <2>1, <2>2, <2>3, <2>4, <3>2
  <2>5. CASE s # new.status
    <3>1. Having(r, s) = rest
      BY <1>5, <2>5 DEF Having
    <3> QED BY <2>1, <2>2, <2>3, <2>5, <3>1
  <2> QED BY <2>4, <2>5
<1> QED BY <1>4, <1>5, <1>7, <1>9, <1>10, <1>11 DEF Exact, r

\* Making room keeps an exact table exact and removes the task the index names.
LEMMA EvictExact ==
  ASSUME NEW t, Exact(t), NEW index, NEW k, NEW id,
         k \in DOMAIN index => index[k] \in Ids(t) /\ index[k] # id
  PROVE  LET r == Evict(t, index, k, id)
         IN  /\ Exact(r)
             /\ Ids(r) = {j \in Ids(t) : ~(k \in DOMAIN index /\ index[k] = j)}
             /\ \A j \in Ids(r) : r.slots[j] = t.slots[j]
<1>1. CASE k \in DOMAIN index
  <2>1. Evict(t, index, k, id) = RemoveTask(t, index[k])
    BY <1>1 DEF Evict
  <2>2. /\ Exact(RemoveTask(t, index[k]))
        /\ Ids(RemoveTask(t, index[k])) = Ids(t) \ {index[k]}
        /\ \A j \in Ids(RemoveTask(t, index[k])) : RemoveTask(t, index[k]).slots[j] = t.slots[j]
    BY <1>1, RemoveTaskExact
  <2> QED BY <1>1, <2>1, <2>2
<1>2. CASE k \notin DOMAIN index
  BY <1>2 DEF Evict
<1> QED BY <1>1, <1>2

\* add_task with a new id keeps an exact table exact.  The tasks it removes are
\* those that have the new task's key or sid, or are active with its signature.
LEMMA AddTaskExact ==
  ASSUME NEW t, Exact(t), NEW id, id \notin Ids(t), NEW task, IsTask(task)
  PROVE  LET r == AddTask(t, id, task)
         IN  /\ Exact(r)
             /\ id \in Ids(r) /\ r.slots[id] = task
             /\ Ids(r) \ {id} \subseteq Ids(t)
             /\ \A j \in Ids(r) \ {id} : r.slots[j] = t.slots[j]
             /\ \A j \in Ids(t) \ Ids(r) :
                   \/ t.slots[j].key = task.key
                   \/ t.slots[j].sid = task.sid
                   \/ IsActive(t, j) /\ t.slots[j].sig = task.sig
<1> DEFINE t1 == Evict(t, t.byKey, task.key, id)
           t2 == Evict(t1, t1.bySig, task.sig, id)
           t3 == Evict(t2, t2.bySid, task.sid, id)
<1>1. AddTask(t, id, task) = Insert(t3, id, task)
  BY DEF AddTask
<1>2. /\ Exact(t1)
      /\ Ids(t1) = {j \in Ids(t) : ~(task.key \in DOMAIN t.byKey /\ t.byKey[task.key] = j)}
      /\ \A j \in Ids(t1) : t1.slots[j] = t.slots[j]
  <2>1. task.key \in DOMAIN t.byKey => t.byKey[task.key] \in Ids(t) /\ t.byKey[task.key] # id
    BY IndexesByParts DEF Exact, NoneDangles
  <2> QED BY <2>1, EvictExact
<1> HIDE DEF t1
<1>3. /\ Exact(t2)
      /\ Ids(t2) = {j \in Ids(t1) : ~(task.sig \in DOMAIN t1.bySig /\ t1.bySig[task.sig] = j)}
      /\ \A j \in Ids(t2) : t2.slots[j] = t1.slots[j]
  <2>1. task.sig \in DOMAIN t1.bySig => t1.bySig[task.sig] \in Ids(t1) /\ t1.bySig[task.sig] # id
    BY <1>2, IndexesByParts DEF Exact, NoneDangles, IsActive
  <2> QED BY <1>2, <2>1, EvictExact
<1> HIDE DEF t2
<1>4. /\ Exact(t3)
      /\ Ids(t3) = {j \in Ids(t2) : ~(task.sid \in DOMAIN t2.bySid /\ t2.bySid[task.sid] = j)}
      /\ \A j \in Ids(t3) : t3.slots[j] = t2.slots[j]
  <2>1. task.sid \in DOMAIN t2.bySid => t2.bySid[task.sid] \in Ids(t2) /\ t2.bySid[task.sid] # id
    BY <1>2, <1>3, IndexesByParts DEF Exact, NoneDangles
  <2> QED BY <1>3, <2>1, EvictExact
<1> HIDE DEF t3
<1>5. \A j \in Ids(t3) : j \in Ids(t2) /\ j \in Ids(t1) /\ j \in Ids(t) /\ t3.slots[j] = t.slots[j]
  BY <1>2, <1>3, <1>4
<1>6. Free(t3, task)
  <2> SUFFICES ASSUME NEW j \in Ids(t3)
               PROVE  /\ t3.slots[j].key # task.key
                      /\ t3.slots[j].sid # task.sid
                      /\ t3.slots[j].status \in ActiveStatuses => t3.slots[j].sig # task.sig
    BY DEF Free
  <2>1. Found(t, j) /\ Found(t1, j) /\ Found(t2, j)
    BY <1>2, <1>3, <1>5, IndexesByParts DEF Exact
  <2>2. t3.slots[j].key # task.key
    BY <1>2, <1>5, <2>1 DEF Found
  <2>3. t3.slots[j].sid # task.sid
    BY <1>4, <2>1 DEF Found
  <2>4. t3.slots[j].status \in ActiveStatuses => t3.slots[j].sig # task.sig
    BY <1>3, <1>4, <1>5, <2>1 DEF Found
  <2> QED BY <2>2, <2>3, <2>4
<1>7. \A j \in Ids(t) \ Ids(t3) :
        \/ t.slots[j].key = task.key
        \/ t.slots[j].sid = task.sid
        \/ IsActive(t, j) /\ t.slots[j].sig = task.sig
  <2> SUFFICES ASSUME NEW j \in Ids(t) \ Ids(t3)
               PROVE  \/ t.slots[j].key = task.key
                      \/ t.slots[j].sid = task.sid
                      \/ IsActive(t, j) /\ t.slots[j].sig = task.sig
    OBVIOUS
  <2>1. NoneDangles(t) /\ NoneDangles(t1) /\ NoneDangles(t2)
    BY <1>2, <1>3, IndexesByParts DEF Exact
  <2>2. CASE j \notin Ids(t1)
    BY <1>2, <2>1, <2>2 DEF NoneDangles
  <2>3. CASE j \in Ids(t1) /\ j \notin Ids(t2)
    BY <1>2, <1>3, <2>1, <2>3 DEF NoneDangles, IsActive
  <2>4. CASE j \in Ids(t2)
    BY <1>2, <1>3, <1>4, <2>1, <2>4 DEF NoneDangles
  <2> QED BY <2>2, <2>3, <2>4
<1>8. id \notin Ids(t3)
  BY <1>5
<1>9. LET r == Insert(t3, id, task)
      IN  /\ Exact(r)
          /\ Ids(r) = Ids(t3) \cup {id}
          /\ r.slots[id] = task
          /\ \A j \in Ids(t3) : r.slots[j] = t3.slots[j]
  BY <1>4, <1>6, <1>8, InsertExact
<1> QED BY <1>1, <1>5, <1>7, <1>8, <1>9

\* update_status keeps an exact table exact and changes one status, when the
\* new status is final or the task was active.
LEMMA SetStatusExact ==
  ASSUME NEW t, Exact(t), NEW id, NEW status \in Statuses,
         IsActive(t, id) \/ status \notin ActiveStatuses
  PROVE  LET r == SetStatus(t, id, status)
         IN  /\ Exact(r)
             /\ Ids(r) = Ids(t)
             /\ \A j \in Ids(t) :
                   r.slots[j] = IF j = id THEN [t.slots[j] EXCEPT !.status = status]
                                          ELSE t.slots[j]
<1>1. CASE id \notin Ids(t)
  BY <1>1 DEF SetStatus
<1>2. CASE id \in Ids(t)
  <2> DEFINE new == [t.slots[id] EXCEPT !.status = status]
  <2>1. IsTask(t.slots[id])
    BY <1>2 DEF Exact, IsTable
  <2>2. /\ IsTask(new) /\ new.status = status
        /\ new.key = t.slots[id].key /\ new.sig = t.slots[id].sig /\ new.sid = t.slots[id].sid
    BY <2>1 DEF IsTask
  <2>3. SetStatus(t, id, status) = Replace(t, id, new)
    BY <1>2 DEF SetStatus
  <2>4. new.status \notin ActiveStatuses \/ t.slots[id].status \in ActiveStatuses
    BY <2>2 DEF IsActive
  <2> HIDE DEF new
  <2>5. LET r == Replace(t, id, new)
        IN  Exact(r) /\ Ids(r) = Ids(t) /\ r.slots = [t.slots EXCEPT ![id] = new]
    BY <1>2, <2>2, <2>4, ReplaceExact
  <2>6. \A j \in Ids(t) : [t.slots EXCEPT ![id] = new][j] = IF j = id THEN new ELSE t.slots[j]
    BY DEF Ids
  <2> QED BY <2>3, <2>5, <2>6 DEF new
<1> QED BY <1>1, <1>2

\* update_task with a file updater keeps an exact table exact.
LEMMA SetFileExact ==
  ASSUME NEW t, Exact(t), NEW id, NEW file
  PROVE  LET r == SetFile(t, id, file)
         IN  /\ Exact(r)
             /\ Ids(r) = Ids(t)
             /\ \A j \in Ids(t) :
                   r.slots[j] = IF j = id THEN [t.slots[j] EXCEPT !.file = file]
                                          ELSE t.slots[j]
<1>1. CASE id \notin Ids(t)
  BY <1>1 DEF SetFile
<1>2. CASE id \in Ids(t)
  <2> DEFINE new == [t.slots[id] EXCEPT !.file = file]
  <2>1. IsTask(t.slots[id])
    BY <1>2 DEF Exact, IsTable
  <2>2. /\ IsTask(new) /\ new.status = t.slots[id].status
        /\ new.key = t.slots[id].key /\ new.sig = t.slots[id].sig /\ new.sid = t.slots[id].sid
    BY <2>1 DEF IsTask
  <2>3. SetFile(t, id, file) = Replace(t, id, new)
    BY <1>2 DEF SetFile
  <2> HIDE DEF new
  <2>5. LET r == Replace(t, id, new)
        IN  Exact(r) /\ Ids(r) = Ids(t) /\ r.slots = [t.slots EXCEPT ![id] = new]
    BY <1>2, <2>2, ReplaceExact
  <2>6. \A j \in Ids(t) : [t.slots EXCEPT ![id] = new][j] = IF j = id THEN new ELSE t.slots[j]
    BY DEF Ids
  <2> QED BY <2>3, <2>5, <2>6 DEF new
<1> QED BY <1>1, <1>2
=============================================================================
