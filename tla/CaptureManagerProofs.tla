------------------------ MODULE CaptureManagerProofs ------------------------
(***************************************************************************)
(* Theorems about the capture pipeline, for any connections, modules,      *)
(* targets, PDEF files, number of workers, capacity, cooldown and bounds.  *)
(***************************************************************************)
EXTENDS CaptureManager, TaskTableProofs, QueueLemmas

-----------------------------------------------------------------------------
(* Sets of ids in queues. *)

\* Jobs appended to a queue and taken from it.
LEMMA AppendJobs ==
  ASSUME NEW S, NEW q \in Seq(S), NEW x \in S
  PROVE  /\ JobIds(Append(q, x)) = JobIds(q) \cup {x.id}
         /\ DistinctJobs(q) /\ x.id \notin JobIds(q) => DistinctJobs(Append(q, x))
<1>1. JobIds(Append(q, x)) = JobIds(q) \cup {x.id}
  BY AppendFacts DEF JobIds
<1>2. \A i \in DOMAIN q : q[i].id \in JobIds(q)
  BY DEF JobIds, Range
<1>3. DistinctJobs(q) /\ x.id \notin JobIds(q) => DistinctJobs(Append(q, x))
  BY <1>2, AppendFacts DEF DistinctJobs
<1> QED BY <1>1, <1>3

\* The first job leaves a queue.
LEMMA TailJobs ==
  ASSUME NEW S, NEW q \in Seq(S), q # <<>>
  PROVE  /\ JobIds(q) = JobIds(Tail(q)) \cup {Head(q).id}
         /\ DistinctJobs(q) => DistinctJobs(Tail(q)) /\ Head(q).id \notin JobIds(Tail(q))
<1>1. JobIds(q) = JobIds(Tail(q)) \cup {Head(q).id}
  BY TailFacts DEF JobIds
<1>2. DistinctJobs(q) => DistinctJobs(Tail(q))
  BY TailFacts DEF DistinctJobs
<1>3. ASSUME DistinctJobs(q), Head(q).id \in JobIds(Tail(q)) PROVE FALSE
  <2>1. PICK i \in 1..(Len(q) - 1) : Tail(q)[i].id = Head(q).id
    BY <1>3, TailFacts DEF JobIds, Range
  <2> QED BY <1>3, <2>1, TailFacts DEF DistinctJobs
<1> QED BY <1>1, <1>2, <1>3

\* The same for ids in the cleanup thread's channel.
LEMMA AppendIds ==
  ASSUME NEW S, NEW q \in Seq(S), NEW x \in S, IsInjective(q), x \notin Range(q)
  PROVE  IsInjective(Append(q, x))
BY AppendFacts DEF IsInjective, Range

\* The first id leaves a queue of ids.
LEMMA TailIds ==
  ASSUME NEW S, NEW q \in Seq(S), q # <<>>, IsInjective(q)
  PROVE  IsInjective(Tail(q)) /\ Head(q) \notin Range(Tail(q))
<1>1. IsInjective(Tail(q))
  BY TailFacts DEF IsInjective
<1>2. ASSUME Head(q) \in Range(Tail(q)) PROVE FALSE
  <2>1. PICK i \in 1..(Len(q) - 1) : Tail(q)[i] = Head(q)
    BY <1>2, TailFacts DEF Range
  <2> QED BY <2>1, TailFacts DEF IsInjective
<1> QED BY <1>1, <1>2

\* The same for messages of some types in the manager's channel.
LEMMA AppendMsgs ==
  ASSUME NEW S, NEW q \in Seq(S), NEW x \in S, NEW types
  PROVE  /\ x.type \notin types => MsgIds(Append(q, x), types) = MsgIds(q, types)
         /\ x.type \in types => MsgIds(Append(q, x), types) = MsgIds(q, types) \cup {x.job.id}
         /\ DistinctMsgs(q, types) /\ (x.type \in types => x.job.id \notin MsgIds(q, types))
              => DistinctMsgs(Append(q, x), types)
<1>1. Range(Append(q, x)) = Range(q) \cup {x}
  BY AppendFacts
<1>2. x.type \notin types => MsgIds(Append(q, x), types) = MsgIds(q, types)
  BY <1>1 DEF MsgIds
<1>3. x.type \in types => MsgIds(Append(q, x), types) = MsgIds(q, types) \cup {x.job.id}
  BY <1>1 DEF MsgIds
<1>4. \A i \in DOMAIN q : q[i].type \in types => q[i].job.id \in MsgIds(q, types)
  BY DEF MsgIds, Range
<1>5. DistinctMsgs(q, types) /\ (x.type \in types => x.job.id \notin MsgIds(q, types))
        => DistinctMsgs(Append(q, x), types)
  BY <1>4, AppendFacts DEF DistinctMsgs
<1> QED BY <1>2, <1>3, <1>5

\* The first message leaves the manager's queue.
LEMMA TailMsgs ==
  ASSUME NEW S, NEW q \in Seq(S), q # <<>>, NEW types
  PROVE  /\ Head(q).type \notin types => MsgIds(Tail(q), types) = MsgIds(q, types)
         /\ Head(q).type \in types =>
              /\ MsgIds(q, types) = MsgIds(Tail(q), types) \cup {Head(q).job.id}
              /\ DistinctMsgs(q, types) => Head(q).job.id \notin MsgIds(Tail(q), types)
         /\ DistinctMsgs(q, types) => DistinctMsgs(Tail(q), types)
<1>1. Range(q) = Range(Tail(q)) \cup {Head(q)}
  BY TailFacts
<1>2. Head(q).type \notin types => MsgIds(Tail(q), types) = MsgIds(q, types)
  BY <1>1 DEF MsgIds
<1>3. Head(q).type \in types => MsgIds(q, types) = MsgIds(Tail(q), types) \cup {Head(q).job.id}
  BY <1>1 DEF MsgIds
<1>4. DistinctMsgs(q, types) => DistinctMsgs(Tail(q), types)
  BY TailFacts DEF DistinctMsgs
<1>5. ASSUME Head(q).type \in types, DistinctMsgs(q, types),
             Head(q).job.id \in MsgIds(Tail(q), types)
      PROVE  FALSE
  <2>1. PICK i \in 1..(Len(q) - 1) : Tail(q)[i].type \in types /\ Tail(q)[i].job.id = Head(q).job.id
    BY <1>5, TailFacts DEF MsgIds, Range
  <2> QED BY <1>5, <2>1, TailFacts DEF DistinctMsgs
<1> QED BY <1>2, <1>3, <1>4, <1>5

\* Started messages stay ahead of their capture's end when a message is posted
\* or handled.
LEMMA AppendStarted ==
  ASSUME NEW S, NEW q \in Seq(S), NEW x \in S, NEW busy, NEW left,
         StartedBefore(q, busy),
         x.type = "started" => x.job.id \in left,
         \A id \in busy \ left : x.type \in EndMessages /\ x.job.id = id
  PROVE  StartedBefore(Append(q, x), left)
<1> SUFFICES ASSUME NEW i \in 1..(Len(q) + 1), Append(q, x)[i].type = "started"
             PROVE  \/ Append(q, x)[i].job.id \in left
                    \/ \E j \in 1..(Len(q) + 1) :
                          /\ i < j /\ Append(q, x)[j].type \in EndMessages
                          /\ Append(q, x)[j].job.id = Append(q, x)[i].job.id
  BY AppendFacts DEF StartedBefore
<1>1. Len(q) \in Nat
  BY AppendFacts
<1>2. CASE i = Len(q) + 1
  BY <1>2, AppendFacts
<1>3. CASE i # Len(q) + 1
  <2>1. i \in 1..Len(q) /\ i < Len(q) + 1 /\ Append(q, x)[i] = q[i]
    BY <1>1, <1>3, AppendFacts
  <2>2. CASE q[i].job.id \in left
    BY <2>1, <2>2
  <2>3. CASE q[i].job.id \in busy /\ q[i].job.id \notin left
    BY <1>1, <2>1, <2>3, AppendFacts
  <2>4. CASE q[i].job.id \notin busy
    <3>1. PICK j \in 1..Len(q) : i < j /\ q[j].type \in EndMessages /\ q[j].job.id = q[i].job.id
      BY <2>1, <2>4, AppendFacts DEF StartedBefore
    <3> QED BY <1>1, <2>1, <3>1, AppendFacts
  <2> QED BY <2>2, <2>3, <2>4
<1> QED BY <1>2, <1>3

\* A started message that is handled leaves the others before their ends.
LEMMA TailStarted ==
  ASSUME NEW S, NEW q \in Seq(S), q # <<>>, NEW busy, StartedBefore(q, busy)
  PROVE  /\ StartedBefore(Tail(q), busy)
         /\ Head(q).type = "started" => Head(q).job.id \in busy \cup MsgIds(q, EndMessages)
<1>1. ASSUME NEW i \in 1..(Len(q) - 1), Tail(q)[i].type = "started", Tail(q)[i].job.id \notin busy
      PROVE  \E j \in 1..(Len(q) - 1) :
                /\ i < j /\ Tail(q)[j].type \in EndMessages
                /\ Tail(q)[j].job.id = Tail(q)[i].job.id
  <2>1. Len(q) \in Nat /\ i + 1 \in 1..Len(q) /\ Tail(q)[i] = q[i + 1]
    BY TailFacts
  <2>2. PICK j \in 1..Len(q) : i + 1 < j /\ q[j].type \in EndMessages /\ q[j].job.id = q[i + 1].job.id
    BY <1>1, <2>1, TailFacts DEF StartedBefore
  <2>3. j - 1 \in 1..(Len(q) - 1) /\ i < j - 1 /\ Tail(q)[j - 1] = q[j]
    BY <2>1, <2>2, TailFacts
  <2> QED BY <2>1, <2>2, <2>3
<1>2. Head(q).type = "started" => Head(q).job.id \in busy \cup MsgIds(q, EndMessages)
  <2> SUFFICES ASSUME Head(q).type = "started", Head(q).job.id \notin busy
               PROVE  Head(q).job.id \in MsgIds(q, EndMessages)
    OBVIOUS
  <2>1. Head(q) = q[1] /\ 1 \in DOMAIN q
    BY TailFacts
  <2>2. PICK j \in DOMAIN q : q[j].type \in EndMessages /\ q[j].job.id = q[1].job.id
    BY <2>1 DEF StartedBefore
  <2> QED BY <2>1, <2>2 DEF MsgIds, Range
<1> QED BY <1>1, <1>2, TailFacts DEF StartedBefore

-----------------------------------------------------------------------------
(* The table. *)

\* What the invariant says of a table with ids below n.
TableOK(t, n) ==
  /\ Exact(t)
  /\ Ids(t) \subseteq FirstId..(n - 1)
  /\ \A id \in Ids(t) :
       /\ t.slots[id] \in Task
       /\ t.slots[id].status \in {"resolving", "running", "completed", "failed"}
       /\ t.slots[id].sid[1] = t.slots[id].sig
  /\ Cardinality(ActiveIds(t)) <= MaxConcurrent

\* The two counters of the capacity check count the active tasks.
LEMMA ActiveCounted ==
  ASSUME NEW t, Exact(t),
         \A id \in Ids(t) : t.slots[id].status \in {"resolving", "running", "completed", "failed"}
  PROVE  /\ IsFiniteSet(ActiveIds(t)) /\ Cardinality(ActiveIds(t)) \in Nat
         /\ Cardinality(ActiveIds(t)) = t.count["running"] + t.count["resolving"]
<1> DEFINE a == Having(t, "running")
           b == Having(t, "resolving")
<1>1. ActiveIds(t) = a \cup b /\ a \cap b = {}
  BY DEF ActiveIds, Having, ActiveStatuses
<1>2. IsTable(t) /\ CountersExact(t)
  BY DEF Exact
<1>3. "running" \in Statuses /\ "resolving" \in Statuses
  BY DEF Statuses
<1>4. t.count["running"] = Cardinality(a) /\ t.count["resolving"] = Cardinality(b)
  BY <1>2, <1>3, CountersByHaving
<1>5. /\ IsFiniteSet(a) /\ Cardinality(a) \in Nat
      /\ IsFiniteSet(b) /\ Cardinality(b) \in Nat
  BY <1>2, HavingFinite
<1> HIDE DEF a, b
<1>6. IsFiniteSet(a \cup b) /\ Cardinality(a \cup b) = Cardinality(a) + Cardinality(b)
  BY <1>1, <1>5, FS_Union, FS_EmptySet
<1> QED BY <1>1, <1>4, <1>5, <1>6

\* A change of status keeps the table in order.
LEMMA SetStatusOK ==
  ASSUME NEW t, NEW n, TableOK(t, n), MaxConcurrent \in Nat,
         NEW id, NEW status \in {"running", "completed", "failed"},
         id \in ActiveIds(t) \/ status # "running"
  PROVE  LET r == SetStatus(t, id, status)
         IN  /\ TableOK(r, n)
             /\ Ids(r) = Ids(t)
             /\ ActiveIds(r) = IF status = "running" THEN ActiveIds(t) ELSE ActiveIds(t) \ {id}
             /\ \A j \in Ids(t) : /\ r.slots[j].file = t.slots[j].file
                                  /\ r.slots[j].user = t.slots[j].user
                                  /\ j # id => r.slots[j] = t.slots[j]
<1> DEFINE r == SetStatus(t, id, status)
<1>1. status \in Statuses /\ (status = "running" <=> status \in ActiveStatuses)
  BY DEF Statuses, ActiveStatuses
<1>2. IsActive(t, id) \/ status \notin ActiveStatuses
  BY <1>1 DEF ActiveIds, IsActive
<1>3. /\ Exact(r) /\ Ids(r) = Ids(t)
      /\ \A j \in Ids(t) : r.slots[j] = IF j = id THEN [t.slots[j] EXCEPT !.status = status]
                                                  ELSE t.slots[j]
  BY <1>1, <1>2, SetStatusExact DEF TableOK
<1> HIDE DEF r
<1>4. \A j \in Ids(t) : t.slots[j] \in Task
  BY DEF TableOK
<1>5. \A j \in Ids(t) :
        /\ r.slots[j] \in Task
        /\ r.slots[j].status = IF j = id THEN status ELSE t.slots[j].status
        /\ r.slots[j].sid = t.slots[j].sid /\ r.slots[j].sig = t.slots[j].sig
        /\ r.slots[j].file = t.slots[j].file /\ r.slots[j].user = t.slots[j].user
        /\ j # id => r.slots[j] = t.slots[j]
  BY <1>1, <1>3, <1>4 DEF Task
<1>6. ActiveIds(r) = IF status = "running" THEN ActiveIds(t) ELSE ActiveIds(t) \ {id}
  BY <1>1, <1>3, <1>5 DEF ActiveIds
<1>7. Cardinality(ActiveIds(r)) <= MaxConcurrent
  <2>1. IsFiniteSet(ActiveIds(t)) /\ Cardinality(ActiveIds(t)) \in Nat
    BY ActiveCounted DEF TableOK
  <2>2. ActiveIds(r) \in SUBSET ActiveIds(t)
    BY <1>6
  <2>3. /\ Cardinality(ActiveIds(r)) <= Cardinality(ActiveIds(t))
        /\ Cardinality(ActiveIds(r)) \in Nat
    BY <2>1, <2>2, FS_Subset, FS_CardinalityType
  <2> QED BY <2>1, <2>3 DEF TableOK
<1>8. TableOK(r, n)
  BY <1>3, <1>5, <1>7 DEF TableOK
<1> QED BY <1>3, <1>5, <1>6, <1>8 DEF r

\* A change of a file keeps the table in order.
LEMMA SetFileOK ==
  ASSUME NEW t, NEW n, TableOK(t, n), NEW id, NEW file \in {"ready", "archived"}
  PROVE  LET r == SetFile(t, id, file)
         IN  /\ TableOK(r, n)
             /\ Ids(r) = Ids(t)
             /\ ActiveIds(r) = ActiveIds(t)
             /\ \A j \in Ids(t) : /\ r.slots[j].status = t.slots[j].status
                                  /\ r.slots[j].user = t.slots[j].user
                                  /\ r.slots[j].file = IF j = id THEN file ELSE t.slots[j].file
<1> DEFINE r == SetFile(t, id, file)
<1>1. /\ Exact(r) /\ Ids(r) = Ids(t)
      /\ \A j \in Ids(t) : r.slots[j] = IF j = id THEN [t.slots[j] EXCEPT !.file = file]
                                                  ELSE t.slots[j]
  BY SetFileExact DEF TableOK
<1> HIDE DEF r
<1>2. \A j \in Ids(t) : t.slots[j] \in Task
  BY DEF TableOK
<1>3. \A j \in Ids(t) :
        /\ r.slots[j] \in Task
        /\ r.slots[j].status = t.slots[j].status
        /\ r.slots[j].sid = t.slots[j].sid /\ r.slots[j].sig = t.slots[j].sig
        /\ r.slots[j].file = IF j = id THEN file ELSE t.slots[j].file
        /\ r.slots[j].user = t.slots[j].user
  BY <1>1, <1>2 DEF Task
<1>4. ActiveIds(r) = ActiveIds(t)
  BY <1>1, <1>3 DEF ActiveIds
<1>5. TableOK(r, n)
  BY <1>1, <1>3, <1>4 DEF TableOK
<1> QED BY <1>1, <1>3, <1>4, <1>5 DEF r

\* The task create_and_add_capture_task makes.
NewTask(r, time, user) ==
  [key |-> r.key, sig |-> r.sig, sid |-> <<r.sig, time>>,
   status |-> "pending", user |-> user, file |-> "none"]

\* Adding a task that passed the checks keeps the table in order and evicts no
\* active task.
LEMMA CreateOK ==
  ASSUME NEW t, NEW n \in Nat, TableOK(t, n), FirstId \in Nat, n >= FirstId, MaxConcurrent \in Nat,
         NEW r \in Targets, NEW time \in 0..MaxTime, NEW user \in Modules \cup {NoModule},
         ~IsSignatureActive(t, r.sig), ~IsKeyActive(t, r.key),
         t.count["running"] + t.count["resolving"] < MaxConcurrent
  PROVE  LET s == SetStatus(AddTask(t, n, NewTask(r, time, user)), n, "resolving")
         IN  /\ TableOK(s, n + 1)
             /\ n \notin Ids(t)
             /\ ActiveIds(s) = ActiveIds(t) \cup {n}
             /\ n \in Ids(s) /\ s.slots[n].file = "none"
             /\ Ids(s) \ {n} \subseteq Ids(t)
             /\ \A j \in Ids(s) \ {n} : s.slots[j] = t.slots[j]
             /\ \A j \in Ids(t) \ Ids(s) : ~IsActive(t, j)
<1> DEFINE task == NewTask(r, time, user)
           u == AddTask(t, n, task)
           s == SetStatus(u, n, "resolving")
<1>1. n \notin Ids(t)
  BY DEF TableOK
<1>2. /\ IsTask(task) /\ task.key = r.key /\ task.sig = r.sig /\ task.sid = <<r.sig, time>>
      /\ task.status = "pending" /\ task.file = "none"
      /\ task \in Task
  BY DEF NewTask, IsTask, Statuses, Task, Keys, Signatures, Sids
<1> HIDE DEF task
<1>3. /\ Exact(u)
      /\ n \in Ids(u) /\ u.slots[n] = task
      /\ Ids(u) \ {n} \subseteq Ids(t)
      /\ \A j \in Ids(u) \ {n} : u.slots[j] = t.slots[j]
      /\ \A j \in Ids(t) \ Ids(u) :
            \/ t.slots[j].key = task.key
            \/ t.slots[j].sid = task.sid
            \/ IsActive(t, j) /\ t.slots[j].sig = task.sig
  BY <1>1, <1>2, AddTaskExact DEF TableOK
<1> HIDE DEF u
<1>4. IsActive(u, n) /\ "resolving" \in Statuses
  BY <1>2, <1>3 DEF IsActive, ActiveStatuses, Statuses
<1>5. /\ Exact(s) /\ Ids(s) = Ids(u)
      /\ \A j \in Ids(u) : s.slots[j] = IF j = n THEN [u.slots[j] EXCEPT !.status = "resolving"]
                                                 ELSE u.slots[j]
  BY <1>3, <1>4, SetStatusExact
<1> HIDE DEF s
<1>6. /\ s.slots[n] \in Task /\ s.slots[n].status = "resolving" /\ s.slots[n].file = "none"
      /\ s.slots[n].sid[1] = s.slots[n].sig
  <2>1. s.slots[n] = [task EXCEPT !.status = "resolving"]
    BY <1>3, <1>5
  <2>2. /\ s.slots[n] \in Task /\ s.slots[n].status = "resolving" /\ s.slots[n].file = "none"
        /\ s.slots[n].sid = task.sid /\ s.slots[n].sig = task.sig
    BY <1>2, <2>1 DEF Task, Statuses
  <2>3. <<r.sig, time>>[1] = r.sig
    OBVIOUS
  <2> QED BY <1>2, <2>2, <2>3
<1>7. Ids(s) \ {n} \subseteq Ids(t) /\ \A j \in Ids(s) \ {n} : s.slots[j] = t.slots[j]
  BY <1>3, <1>5
<1>8. \A j \in Ids(t) \ Ids(s) : ~IsActive(t, j)
  <2> SUFFICES ASSUME NEW j \in Ids(t) \ Ids(s), IsActive(t, j) PROVE FALSE
    OBVIOUS
  <2>1. Found(t, j)
    BY IndexesByParts DEF TableOK, Exact
  <2>2. t.slots[j].key # r.key
    BY <2>1 DEF Found, IsKeyActive
  <2>3. t.slots[j].sig # r.sig
    BY <2>1 DEF Found, IsSignatureActive, IsActive
  <2>4. t.slots[j].sid # <<r.sig, time>>
    BY <2>3 DEF TableOK
  <2> QED BY <1>2, <1>3, <1>5, <2>2, <2>3, <2>4
<1>9. ActiveIds(s) = ActiveIds(t) \cup {n}
  BY <1>3, <1>5, <1>6, <1>7, <1>8 DEF ActiveIds, ActiveStatuses, IsActive
<1>10. Cardinality(ActiveIds(s)) <= MaxConcurrent
  <2>1. /\ IsFiniteSet(ActiveIds(t)) /\ Cardinality(ActiveIds(t)) \in Nat
        /\ Cardinality(ActiveIds(t)) = t.count["running"] + t.count["resolving"]
    BY ActiveCounted DEF TableOK
  <2>2. n \notin ActiveIds(t)
    BY <1>1 DEF ActiveIds
  <2>3. Cardinality(ActiveIds(s)) = Cardinality(ActiveIds(t)) + 1
    BY <1>9, <2>1, <2>2, FS_AddElement
  <2> QED BY <2>1, <2>3
<1>11. TableOK(s, n + 1)
  <2>1. Ids(s) \subseteq FirstId..((n + 1) - 1)
    BY <1>7 DEF TableOK
  <2>2. ASSUME NEW j \in Ids(s)
        PROVE  /\ s.slots[j] \in Task
               /\ s.slots[j].status \in {"resolving", "running", "completed", "failed"}
               /\ s.slots[j].sid[1] = s.slots[j].sig
    BY <1>6, <1>7 DEF TableOK
  <2> QED BY <1>5, <1>10, <2>1, <2>2 DEF TableOK
<1> QED BY <1>1, <1>3, <1>5, <1>6, <1>7, <1>8, <1>9, <1>11 DEF s, u, task

-----------------------------------------------------------------------------
(* The invariant by parts, and what a step has to show of each of them. *)

TableInv == TableTyped /\ TableIndexed /\ TableCounted /\ TableBounded
OthersTyped == TriggersTyped /\ PdefTyped /\ QueuesTyped /\ ThreadsTyped /\ InputsTyped
HeldInv == HeldApart /\ HeldIffActive
FilesInv == FilesApart /\ ArchivedLast

\* The invariant is the conjunction of these parts, before and after a step.
LEMMA InvParts ==
  /\ ManagerInv <=> /\ TableInv /\ OthersTyped /\ BusyHasJob /\ HeldInv /\ StartedFirst
                    /\ FilesInv /\ UsageTracked
  /\ ManagerInv' <=> /\ TableInv' /\ OthersTyped' /\ BusyHasJob' /\ HeldInv' /\ StartedFirst'
                     /\ FilesInv' /\ UsageTracked'
<1>1. ManagerInv <=> /\ TableInv /\ OthersTyped /\ BusyHasJob /\ HeldInv /\ StartedFirst
                     /\ FilesInv /\ UsageTracked
  BY DEF ManagerInv, TypeOK, TableInv, OthersTyped, HeldInv, FilesInv
<1>2. ManagerInv' <=> /\ TableInv' /\ OthersTyped' /\ BusyHasJob' /\ HeldInv' /\ StartedFirst'
                      /\ FilesInv' /\ UsageTracked'
  BY DEF ManagerInv, TypeOK, TableInv, OthersTyped, HeldInv, FilesInv
<1> QED BY <1>1, <1>2

\* The table's part, as the lemmas about tables state it.
LEMMA TableNow ==
  ASSUME TableInv
  PROVE  TableOK(table, nextId) /\ MaxConcurrent \in Nat /\ FirstId \in Nat
<1>1. MaxConcurrent \in Nat /\ FirstId \in Nat
  BY ManagerAssumption
<1>2. Exact(table)
  BY DEF TableInv, TableTyped, TableIndexed, TableCounted, Exact
<1>3. Cardinality(ActiveIds(table)) = table.count["running"] + table.count["resolving"]
  BY <1>2, ActiveCounted DEF TableInv, TableBounded
<1> QED BY <1>1, <1>2, <1>3 DEF TableOK, TableInv, TableTyped, TableBounded, IdsSoFar

\* The table invariant of the next state, from what an operation left.
LEMMA TableNext ==
  ASSUME TableOK(table', nextId'), nextId' \in Nat, nextId' >= FirstId, nextWorker' \in Workers
  PROVE  TableInv'
<1>1. Exact(table')
  BY DEF TableOK
<1>2. \A id \in Ids(table') :
        /\ table'.slots[id] \in Task
        /\ table'.slots[id].status \in {"resolving", "running", "completed", "failed"}
        /\ table'.slots[id].sid[1] = table'.slots[id].sig
  BY DEF TableOK
<1>3. table'.count["running"] + table'.count["resolving"] <= MaxConcurrent
  BY <1>1, <1>2, ActiveCounted DEF TableOK
<1>4. TableTyped'
  BY <1>1, <1>2 DEF TableTyped, TableOK, Exact, IdsSoFar
<1>5. TableIndexed' /\ TableCounted'
  BY <1>1 DEF TableIndexed, TableCounted, Exact
<1>6. TableBounded'
  BY <1>2, <1>3 DEF TableBounded
<1> QED BY <1>4, <1>5, <1>6 DEF TableInv

\* A step that issues no id, and what it may do to the table.
LEMMA TableKept ==
  ASSUME TableInv, TableOK(table', nextId), UNCHANGED <<nextId, nextWorker>>
  PROVE  TableInv'
<1>1. nextId \in Nat /\ nextId >= FirstId /\ nextWorker \in Workers
  BY DEF TableInv, TableTyped
<1> QED BY <1>1, TableNext

\* A step that issues no id leaves the sets of ids, jobs and messages alone.
LEMMA SameIds ==
  ASSUME UNCHANGED nextId
  PROVE  IdsSoFar' = IdsSoFar /\ Job' = Job /\ Message' = Message /\ Usage' = Usage
BY DEF IdsSoFar, Job, Message, Usage

\* The id of a message if it is of some type.
Of(m, types) == IF m.type \in types THEN {m.job.id} ELSE {}

RawTypes == {"raw_file", "filtered"}
DoneTypes == {"compress_done", "compress_failed"}

\* A message is posted to the manager.
LEMMA Posted ==
  ASSUME mgrQ \in Seq(Message), NEW m \in Message, mgrQ' = Append(mgrQ, m)
  PROVE  /\ mgrQ' \in Seq(Message)
         /\ \A types : MsgIds(mgrQ', types) = MsgIds(mgrQ, types) \cup Of(m, types)
         /\ \A types : DistinctMsgs(mgrQ, types) /\ Of(m, types) \cap MsgIds(mgrQ, types) = {}
                         => DistinctMsgs(mgrQ', types)
<1>1. mgrQ' \in Seq(Message)
  BY AppendFacts
<1>2. ASSUME NEW types
      PROVE  /\ MsgIds(mgrQ', types) = MsgIds(mgrQ, types) \cup Of(m, types)
             /\ DistinctMsgs(mgrQ, types) /\ Of(m, types) \cap MsgIds(mgrQ, types) = {}
                  => DistinctMsgs(mgrQ', types)
  <2>1. CASE m.type \in types
    BY <2>1, AppendMsgs DEF Of
  <2>2. CASE m.type \notin types
    BY <2>2, AppendMsgs DEF Of
  <2> QED BY <2>1, <2>2
<1> QED BY <1>1, <1>2

\* The manager takes a message.
LEMMA Handled ==
  ASSUME mgrQ \in Seq(Message), NEW type, Receives(type), Dequeue
  PROVE  /\ mgrQ' \in Seq(Message) /\ Head(mgrQ) \in Message /\ Head(mgrQ) \in Range(mgrQ)
         /\ Head(mgrQ).type = type
         /\ Range(mgrQ') \subseteq Range(mgrQ)
         /\ \A types : MsgIds(mgrQ, types) = MsgIds(mgrQ', types) \cup Of(Head(mgrQ), types)
         /\ \A types : DistinctMsgs(mgrQ, types) =>
              DistinctMsgs(mgrQ', types) /\ Of(Head(mgrQ), types) \cap MsgIds(mgrQ', types) = {}
<1>1. mgrQ # <<>> /\ mgrQ' = Tail(mgrQ) /\ Head(mgrQ).type = type
  BY DEF Receives, Dequeue
<1>2. /\ mgrQ' \in Seq(Message) /\ Head(mgrQ) \in Message /\ Head(mgrQ) \in Range(mgrQ)
      /\ Range(mgrQ') \subseteq Range(mgrQ)
  BY <1>1, TailFacts
<1>3. ASSUME NEW types
      PROVE  /\ MsgIds(mgrQ, types) = MsgIds(mgrQ', types) \cup Of(Head(mgrQ), types)
             /\ DistinctMsgs(mgrQ, types) =>
                  DistinctMsgs(mgrQ', types) /\ Of(Head(mgrQ), types) \cap MsgIds(mgrQ', types) = {}
  <2>1. CASE Head(mgrQ).type \in types
    BY <1>1, <2>1, TailMsgs DEF Of
  <2>2. CASE Head(mgrQ).type \notin types
    BY <1>1, <2>2, TailMsgs DEF Of
  <2> QED BY <2>1, <2>2
<1> QED BY <1>1, <1>2, <1>3

\* A message about a job carries one.
LEMMA JobOfMessage ==
  ASSUME NEW m \in Message, m.type \in JobTypes
  PROVE  m.job \in Job /\ m.job.id \in IdsSoFar
BY DEF Message, JobTypes, Job

\* A message about a job is a message, and names that job only.
LEMMA MessageOfJob ==
  ASSUME NEW type \in JobTypes, NEW job \in Job
  PROVE  /\ [type |-> type, job |-> job] \in Message
         /\ \A types : Of([type |-> type, job |-> job], types) =
              IF type \in types THEN {job.id} ELSE {}
BY DEF Message, Of

\* Frame: the places that hold captures are as they were.
LEMMA HeldKept ==
  ASSUME HeldInv, ActiveIds(table') = ActiveIds(table), UNCHANGED <<workerQ, Awaiting, lost>>,
         DistinctMsgs(mgrQ', EndMessages), MsgIds(mgrQ', EndMessages) = MsgIds(mgrQ, EndMessages)
  PROVE  HeldInv'
BY DEF HeldInv, HeldApart, HeldIffActive, AwaitingIds, QueuedIds

\* Frame: no place gets a capture whose file is still to be listed or archived.
LEMMA FilesShrink ==
  ASSUME FilesInv, DistinctMsgs(mgrQ', {"file_ready"}), IsInjective(cleanupQ'),
         \A w \in Workers : UnreportedIds(w)' \subseteq UnreportedIds(w),
         \A id \in RawIds' : id \in RawIds \/ \E w \in Workers : id \in UnreportedIds(w),
         ListingIds' \subseteq ListingIds,
         Range(cleanupQ') \subseteq Range(cleanupQ),
         ArchivingIds' \cup ArchivedIds(table') \subseteq ArchivingIds \cup ArchivedIds(table)
  PROVE  FilesInv'
<1>1. FilesApart'
  BY DEF FilesInv, FilesApart
<1>2. ArchivedLast'
  BY DEF FilesInv, ArchivedLast
<1> QED BY <1>1, <1>2 DEF FilesInv

\* Frame: nothing about files changes but messages that are taken from the
\* manager's channel.
LEMMA FilesKept ==
  ASSUME FilesInv, UNCHANGED <<worker, workerQ, Awaiting, cleanupQ, pending, groups>>,
         ArchivedIds(table') \subseteq ArchivedIds(table),
         DistinctMsgs(mgrQ, {"file_ready"}) => DistinctMsgs(mgrQ', {"file_ready"}),
         MsgIds(mgrQ', {"file_ready"}) \subseteq MsgIds(mgrQ, {"file_ready"}),
         MsgIds(mgrQ', RawTypes) \subseteq MsgIds(mgrQ, RawTypes),
         MsgIds(mgrQ', DoneTypes) \subseteq MsgIds(mgrQ, DoneTypes)
  PROVE  FilesInv'
<1>1. \A w \in Workers : UnreportedIds(w)' \subseteq UnreportedIds(w)
  BY DEF UnreportedIds, Unreported
<1>2. RawIds' \subseteq RawIds
  BY DEF RawIds, AwaitingIds, RawTypes
<1>3. ListingIds' \subseteq ListingIds
  BY DEF ListingIds
<1>4. ArchivingIds' \cup ArchivedIds(table') \subseteq ArchivingIds \cup ArchivedIds(table)
  BY DEF ArchivingIds, DoneTypes
<1>5. DistinctMsgs(mgrQ', {"file_ready"}) /\ IsInjective(cleanupQ')
  BY DEF FilesInv, FilesApart
<1> QED BY <1>1, <1>2, <1>3, <1>4, <1>5, FilesShrink

\* The types of message the invariant tells apart are about jobs.
LEMMA TypesOfJobs ==
  ASSUME NEW m, m.type \notin JobTypes
  PROVE  /\ Of(m, EndMessages) = {} /\ Of(m, RawTypes) = {} /\ Of(m, DoneTypes) = {}
         /\ Of(m, {"file_ready"}) = {} /\ m.type # "started" /\ m.type \notin EndMessages
BY DEF Of, JobTypes, EndMessages, RawTypes, DoneTypes

\* Posting a message that is about no job.
LEMMA InertPosted ==
  ASSUME ManagerInv, NEW m \in Message, m.type \notin JobTypes, mgrQ' = Append(mgrQ, m),
         UNCHANGED <<table, workerQ, Awaiting, cleanupQ, worker, pending, groups, lost>>
  PROVE  mgrQ' \in Seq(Message) /\ HeldInv' /\ StartedFirst' /\ FilesInv'
<1>1. mgrQ \in Seq(Message) /\ HeldInv /\ StartedFirst /\ FilesInv
  BY InvParts DEF OthersTyped, QueuesTyped
<1>2. /\ mgrQ' \in Seq(Message)
      /\ MsgIds(mgrQ', EndMessages) = MsgIds(mgrQ, EndMessages)
      /\ MsgIds(mgrQ', RawTypes) = MsgIds(mgrQ, RawTypes)
      /\ MsgIds(mgrQ', DoneTypes) = MsgIds(mgrQ, DoneTypes)
      /\ MsgIds(mgrQ', {"file_ready"}) = MsgIds(mgrQ, {"file_ready"})
      /\ DistinctMsgs(mgrQ, EndMessages) => DistinctMsgs(mgrQ', EndMessages)
      /\ DistinctMsgs(mgrQ, {"file_ready"}) => DistinctMsgs(mgrQ', {"file_ready"})
  BY <1>1, Posted, TypesOfJobs
<1>3. HeldInv'
  BY <1>1, <1>2, HeldKept DEF HeldInv, HeldApart
<1>4. FilesInv'
  BY <1>1, <1>2, FilesKept
<1>5. BusyIds' = BusyIds
  BY DEF BusyIds
<1>6. StartedBefore(mgrQ', BusyIds)
  BY <1>1, TypesOfJobs, AppendStarted DEF StartedFirst
<1> QED BY <1>2, <1>3, <1>4, <1>5, <1>6 DEF StartedFirst

\* A request or an alert comes in.
LEMMA InputKeeps ==
  ASSUME ManagerInv, NEW m \in Message, m.type \notin JobTypes, mgrQ' = Append(mgrQ, m),
         InputsTyped',
         UNCHANGED <<tableVars, lastTrigger, pdefVars, workerQ, filterQ, cleanupQ, threadVars, lost>>
  PROVE  ManagerInv'
<1>1. UNCHANGED <<table, nextId, nextWorker, lastTrigger, usage, endian, workerQ, filterQ,
                  cleanupQ, worker, filter, pending, groups, lost>>
  BY DEF tableVars, pdefVars, threadVars
<1>2. Awaiting' = Awaiting
  BY <1>1 DEF Awaiting
<1>3. mgrQ' \in Seq(Message) /\ HeldInv' /\ StartedFirst' /\ FilesInv'
  BY <1>1, <1>2, InertPosted
<1>4. TableInv'
  BY <1>1, InvParts, TableNow, TableKept
<1>5. OthersTyped'
  BY <1>1, <1>3, InvParts, SameIds DEF OthersTyped, TriggersTyped, PdefTyped, QueuesTyped,
     ThreadsTyped
<1>6. BusyHasJob'
  BY <1>1, InvParts DEF BusyHasJob
<1>7. UsageTracked'
  BY <1>1, <1>2, InvParts DEF UsageTracked
<1> QED BY <1>3, <1>4, <1>5, <1>6, <1>7, InvParts

\* handle_start and handle_stop of an HTTP thread only post to the manager.
LEMMA HttpKeeps ==
  ASSUME ManagerInv, NEW c \in Conns, HttpStop(c) \/ \E r \in Targets : HttpStart(c, r)
  PROVE  ManagerInv'
<1>0. InputsTyped
  BY InvParts DEF OthersTyped
<1>1. CASE HttpStop(c)
  <2>1. [type |-> "stop", conn |-> c] \in Message /\ "stop" \notin JobTypes
    BY DEF Message, JobTypes
  <2>2. /\ mgrQ' = Append(mgrQ, [type |-> "stop", conn |-> c]) /\ InputsTyped'
        /\ UNCHANGED <<tableVars, lastTrigger, pdefVars, workerQ, filterQ, cleanupQ, threadVars, lost>>
    BY <1>0, <1>1 DEF HttpStop, InputsTyped, inputVars, tableVars, IdsSoFar
  <2> QED BY <2>1, <2>2, InputKeeps
<1>2. ASSUME NEW r \in Targets, HttpStart(c, r) PROVE ManagerInv'
  <2>1. [type |-> "start", conn |-> c, target |-> r] \in Message /\ "start" \notin JobTypes
    BY DEF Message, JobTypes
  <2>2. /\ mgrQ' = Append(mgrQ, [type |-> "start", conn |-> c, target |-> r]) /\ InputsTyped'
        /\ UNCHANGED <<tableVars, lastTrigger, pdefVars, workerQ, filterQ, cleanupQ, threadVars, lost>>
    BY <1>0, <1>2 DEF HttpStart, InputsTyped, inputVars, tableVars, IdsSoFar
  <2> QED BY <2>1, <2>2, InputKeeps
<1> QED BY <1>1, <1>2

\* The sample thread only posts to the manager.
LEMMA SampleAlertKeeps ==
  ASSUME ManagerInv, NEW m \in Modules, SampleAlert(m)
  PROVE  ManagerInv'
<1>1. [type |-> "alert", module |-> m] \in Message /\ "alert" \notin JobTypes
  BY DEF Message, JobTypes
<1>2. /\ mgrQ' = Append(mgrQ, [type |-> "alert", module |-> m])
      /\ UNCHANGED <<tableVars, lastTrigger, pdefVars, workerQ, filterQ, cleanupQ, threadVars, lost>>
  BY DEF SampleAlert
<1>3. InputsTyped'
  BY InvParts, ManagerAssumption DEF OthersTyped, SampleAlert, InputsTyped, tableVars, IdsSoFar
<1> QED BY <1>1, <1>2, <1>3, InputKeeps

\* A step that changes neither the table nor a queue nor a thread.
LEMMA SameKeeps ==
  ASSUME ManagerInv, InputsTyped',
         UNCHANGED <<table, nextId, nextWorker, lastTrigger, usage, endian, mgrQ, workerQ, filterQ,
                     cleanupQ, worker, filter, pending, groups, lost>>
  PROVE  ManagerInv'
<1>1. Awaiting' = Awaiting /\ BusyIds' = BusyIds
  BY DEF Awaiting, BusyIds
<1>2. HeldInv'
  BY <1>1, InvParts, HeldKept DEF HeldInv, HeldApart
<1>3. FilesInv'
  BY <1>1, InvParts, FilesKept
<1>4. TableInv'
  BY InvParts, TableNow, TableKept
<1>5. OthersTyped'
  BY InvParts, SameIds DEF OthersTyped, TriggersTyped, PdefTyped, QueuesTyped, ThreadsTyped
<1>6. BusyHasJob' /\ StartedFirst' /\ UsageTracked'
  BY <1>1, InvParts DEF BusyHasJob, StartedFirst, UsageTracked
<1> QED BY <1>2, <1>3, <1>4, <1>5, <1>6, InvParts

\* Time passes.
LEMMA TickKeeps ==
  ASSUME ManagerInv, Tick
  PROVE  ManagerInv'
<1>1. InputsTyped'
  BY InvParts, ManagerAssumption DEF OthersTyped, Tick, InputsTyped, tableVars, IdsSoFar
<1>2. UNCHANGED <<table, nextId, nextWorker, lastTrigger, usage, endian, mgrQ, workerQ, filterQ,
                  cleanupQ, worker, filter, pending, groups, lost>>
  BY DEF Tick, tableVars, pdefVars, threadVars
<1> QED BY <1>1, <1>2, SameKeeps
-----------------------------------------------------------------------------
(* The manager's handlers. *)

\* What taking a message does to the manager's channel.
LEMMA HandledViews ==
  ASSUME ManagerInv, NEW type, Receives(type), Dequeue, UNCHANGED BusyIds
  PROVE  /\ mgrQ' \in Seq(Message) /\ Head(mgrQ) \in Message /\ Head(mgrQ).type = type
         /\ Range(mgrQ') \subseteq Range(mgrQ) /\ Head(mgrQ) \in Range(mgrQ)
         /\ StartedFirst'
         /\ DistinctMsgs(mgrQ', EndMessages) /\ DistinctMsgs(mgrQ', {"file_ready"})
         /\ \A types : MsgIds(mgrQ', types) \subseteq MsgIds(mgrQ, types)
         /\ \A types : type \notin types => MsgIds(mgrQ', types) = MsgIds(mgrQ, types)
         /\ \A types : type \in types => Id \in MsgIds(mgrQ, types)
         /\ \A types \in {EndMessages, {"file_ready"}} :
              type \in types => MsgIds(mgrQ', types) = MsgIds(mgrQ, types) \ {Id}
         /\ type \in JobTypes => Head(mgrQ).job \in Job /\ Id \in IdsSoFar
<1>1. mgrQ \in Seq(Message) /\ HeldInv /\ StartedFirst /\ FilesInv
  BY InvParts DEF OthersTyped, QueuesTyped
<1>2. /\ mgrQ' \in Seq(Message) /\ Head(mgrQ) \in Message /\ Head(mgrQ).type = type
      /\ Range(mgrQ') \subseteq Range(mgrQ) /\ Head(mgrQ) \in Range(mgrQ)
      /\ \A types : MsgIds(mgrQ, types) = MsgIds(mgrQ', types) \cup Of(Head(mgrQ), types)
      /\ \A types : DistinctMsgs(mgrQ, types) =>
           DistinctMsgs(mgrQ', types) /\ Of(Head(mgrQ), types) \cap MsgIds(mgrQ', types) = {}
  BY <1>1, Handled
<1>3. DistinctMsgs(mgrQ, EndMessages) /\ DistinctMsgs(mgrQ, {"file_ready"})
  BY <1>1 DEF HeldInv, HeldApart, FilesInv, FilesApart
<1>4. \A types : Of(Head(mgrQ), types) = IF type \in types THEN {Id} ELSE {}
  BY <1>2 DEF Of, Id
<1>5. mgrQ # <<>> /\ mgrQ' = Tail(mgrQ)
  BY DEF Receives, Dequeue
<1>6. StartedBefore(mgrQ', BusyIds)
  BY <1>1, <1>5, TailStarted DEF StartedFirst
<1>7. StartedFirst'
  BY <1>6 DEF StartedFirst
<1>8. type \in JobTypes => Head(mgrQ).job \in Job /\ Id \in IdsSoFar
  BY <1>2, JobOfMessage DEF Id
<1>9. ASSUME NEW types \in {EndMessages, {"file_ready"}}, type \in types
      PROVE  MsgIds(mgrQ', types) = MsgIds(mgrQ, types) \ {Id}
  <2>1. Of(Head(mgrQ), types) = {Id} /\ DistinctMsgs(mgrQ, types)
    BY <1>3, <1>4, <1>9
  <2> QED BY <1>2, <2>1
<1>10. ASSUME NEW types
       PROVE  /\ MsgIds(mgrQ', types) \subseteq MsgIds(mgrQ, types)
              /\ type \notin types => MsgIds(mgrQ', types) = MsgIds(mgrQ, types)
              /\ type \in types => Id \in MsgIds(mgrQ, types)
  <2>1. MsgIds(mgrQ, types) = MsgIds(mgrQ', types) \cup Of(Head(mgrQ), types)
    BY <1>2
  <2>2. Of(Head(mgrQ), types) = IF type \in types THEN {Id} ELSE {}
    BY <1>4
  <2> QED BY <2>1, <2>2
<1>11. DistinctMsgs(mgrQ', EndMessages) /\ DistinctMsgs(mgrQ', {"file_ready"})
  BY <1>2, <1>3
<1> QED BY <1>2, <1>7, <1>8, <1>9, <1>10, <1>11

\* A message that is not about a capture's end moves no duty to report one.
LEMMA HandledHeld ==
  ASSUME ManagerInv, NEW type, Receives(type), Dequeue, type \notin EndMessages,
         ActiveIds(table') = ActiveIds(table), UNCHANGED <<worker, workerQ, Awaiting, lost>>
  PROVE  HeldInv'
<1>1. BusyIds' = BusyIds
  BY DEF BusyIds
<1>2. /\ DistinctMsgs(mgrQ', EndMessages)
      /\ MsgIds(mgrQ', EndMessages) = MsgIds(mgrQ, EndMessages)
  BY <1>1, HandledViews
<1> QED BY <1>2, InvParts, HeldKept

\* A message whose handling lists and archives no file.
LEMMA HandledFiles ==
  ASSUME ManagerInv, NEW type, Receives(type), Dequeue,
         ArchivedIds(table') \subseteq ArchivedIds(table),
         UNCHANGED <<worker, workerQ, Awaiting, cleanupQ, pending, groups>>
  PROVE  FilesInv'
<1>1. BusyIds' = BusyIds
  BY DEF BusyIds
<1>2. /\ DistinctMsgs(mgrQ', {"file_ready"})
      /\ \A types : MsgIds(mgrQ', types) \subseteq MsgIds(mgrQ, types)
  BY <1>1, HandledViews
<1>3. /\ MsgIds(mgrQ', {"file_ready"}) \subseteq MsgIds(mgrQ, {"file_ready"})
      /\ MsgIds(mgrQ', RawTypes) \subseteq MsgIds(mgrQ, RawTypes)
      /\ MsgIds(mgrQ', DoneTypes) \subseteq MsgIds(mgrQ, DoneTypes)
  BY <1>2
<1> QED BY <1>2, <1>3, InvParts, FilesKept

\* A request that starts nothing, and an alert that does not.
LEMMA RefusedKeeps ==
  ASSUME ManagerInv, NEW type, Receives(type), Dequeue, type \notin EndMessages,
         TriggersTyped', InputsTyped',
         UNCHANGED <<table, nextId, nextWorker, usage, endian, workerQ, filterQ, cleanupQ,
                     worker, filter, pending, groups, lost>>
  PROVE  ManagerInv'
<1>1. Awaiting' = Awaiting /\ BusyIds' = BusyIds
  BY DEF Awaiting, BusyIds
<1>2. HeldInv'
  BY <1>1, HandledHeld
<1>3. FilesInv'
  BY <1>1, HandledFiles
<1>4. mgrQ' \in Seq(Message) /\ StartedFirst'
  BY <1>1, HandledViews
<1>5. TableInv'
  BY InvParts, TableNow, TableKept
<1>6. OthersTyped'
  BY <1>4, InvParts, SameIds DEF OthersTyped, PdefTyped, QueuesTyped, ThreadsTyped
<1>7. BusyHasJob' /\ UsageTracked'
  BY <1>1, InvParts DEF BusyHasJob, UsageTracked
<1> QED BY <1>2, <1>3, <1>4, <1>5, <1>6, <1>7, InvParts

\* handle_stop_capture changes no task.
LEMMA HandleStopKeeps ==
  ASSUME ManagerInv, HandleStop
  PROVE  ManagerInv'
<1>1. Receives("stop") /\ Dequeue /\ "stop" \notin EndMessages
  BY DEF HandleStop, EndMessages
<1>2. UNCHANGED <<table, nextId, nextWorker, lastTrigger, usage, endian, workerQ, filterQ, cleanupQ,
                  worker, filter, pending, groups, now, alerts, lost>>
  BY DEF HandleStop, tableVars, pdefVars, threadVars, inputVars
<1>3. TriggersTyped'
  BY <1>2, InvParts DEF OthersTyped, TriggersTyped
<1>4. reply' = reply \/ reply' = [reply EXCEPT ![Head(mgrQ).conn] = "501"]
  BY DEF HandleStop, Reply
<1>5. InputsTyped'
  BY <1>2, <1>4, InvParts, SameIds DEF OthersTyped, InputsTyped
<1> QED BY <1>1, <1>2, <1>3, <1>5, RefusedKeeps

\* A failed compression is only logged.
LEMMA HandleCompressFailedKeeps ==
  ASSUME ManagerInv, HandleCompressFailed
  PROVE  ManagerInv'
<1>1. Receives("compress_failed") /\ Dequeue /\ "compress_failed" \notin EndMessages
  BY DEF HandleCompressFailed, EndMessages
<1>2. UNCHANGED <<table, nextId, nextWorker, lastTrigger, usage, endian, workerQ, filterQ, cleanupQ,
                  worker, filter, pending, groups, now, alerts, reply, lost>>
  BY DEF HandleCompressFailed, tableVars, pdefVars, threadVars, inputVars
<1>3. TriggersTyped' /\ InputsTyped'
  BY <1>2, InvParts, SameIds DEF OthersTyped, TriggersTyped, InputsTyped
<1> QED BY <1>1, <1>2, <1>3, RefusedKeeps

\* A step of the manager about a capture it has handed out.
LEMMA FollowKeeps ==
  ASSUME ManagerInv, NEW type, Receives(type), Dequeue, TableOK(table', nextId), TriggersTyped',
         HeldInv', FilesInv', UsageTracked',
         cleanupQ' \in Seq(IdsSoFar), filterQ' \in Seq(Job), lost' \in SUBSET IdsSoFar,
         filterQ # <<>> => filterQ' # <<>>,
         usage' \in [PdefFiles -> Usage], endian' \in [PdefFiles -> Endians \cup {"auto"}],
         UNCHANGED <<nextId, nextWorker, workerQ, worker, filter, pending, groups,
                     now, alerts, reply>>
  PROVE  ManagerInv'
<1>1. BusyIds' = BusyIds
  BY DEF BusyIds
<1>2. mgrQ' \in Seq(Message) /\ StartedFirst'
  BY <1>1, HandledViews
<1>3. TableInv'
  BY InvParts, TableKept
<1>4. OthersTyped'
  BY <1>2, InvParts, SameIds DEF OthersTyped, PdefTyped, QueuesTyped, ThreadsTyped, InputsTyped
<1>5. BusyHasJob'
  BY InvParts DEF BusyHasJob
<1> QED BY <1>2, <1>3, <1>4, <1>5, InvParts

\* One that changes the table and no other thread's state.
LEMMA TableStepKeeps ==
  ASSUME ManagerInv, NEW type, Receives(type), Dequeue, TableOK(table', nextId), TriggersTyped',
         HeldInv', FilesInv',
         cleanupQ' \in Seq(IdsSoFar),
         UNCHANGED <<nextId, nextWorker, usage, endian, workerQ, filterQ,
                     worker, filter, pending, groups, now, alerts, reply, lost>>
  PROVE  ManagerInv'
<1>1. Awaiting' = Awaiting
  BY DEF Awaiting
<1>2. UsageTracked'
  BY <1>1, InvParts DEF UsageTracked
<1>3. /\ filterQ' \in Seq(Job) /\ lost' \in SUBSET IdsSoFar
      /\ usage' \in [PdefFiles -> Usage] /\ endian' \in [PdefFiles -> Endians \cup {"auto"}]
  BY InvParts DEF OthersTyped, PdefTyped, QueuesTyped, InputsTyped
<1> QED BY <1>2, <1>3, FollowKeeps

\* A started message finds its task, and finds it active.
LEMMA StartedIsActive ==
  ASSUME ManagerInv, Receives("started")
  PROVE  Id \in ActiveIds(table)
<1>1. /\ mgrQ \in Seq(Message) /\ mgrQ # <<>> /\ Head(mgrQ).type = "started"
      /\ StartedBefore(mgrQ, BusyIds)
  BY InvParts DEF OthersTyped, QueuesTyped, Receives, StartedFirst
<1>2. Id \in BusyIds \cup MsgIds(mgrQ, EndMessages)
  BY <1>1, TailStarted DEF Id
<1>3. ASSUME NEW w \in Workers, worker[w] # "idle" PROVE Head(workerQ[w]).id \in JobIds(workerQ[w])
  <2>1. workerQ[w] # <<>> /\ workerQ[w] \in Seq(Job)
    BY <1>3, InvParts DEF BusyHasJob, OthersTyped, QueuesTyped
  <2> QED BY <2>1, TailJobs
<1>4. BusyIds \subseteq QueuedIds
  BY <1>3 DEF BusyIds, QueuedIds
<1>5. QueuedIds \cup MsgIds(mgrQ, EndMessages) \subseteq ActiveIds(table)
  BY InvParts DEF HeldInv, HeldIffActive
<1> QED BY <1>2, <1>4, <1>5

\* A started capture is running, which its end has not overtaken.
LEMMA HandleStartedKeeps ==
  ASSUME ManagerInv, HandleStarted
  PROVE  ManagerInv'
<1>1. Receives("started") /\ Dequeue /\ "started" \notin EndMessages
  BY DEF HandleStarted, EndMessages
<1>2. /\ table' = SetStatus(table, Id, "running")
      /\ UNCHANGED <<nextId, nextWorker, lastTrigger, usage, endian, workerQ, filterQ, cleanupQ,
                     worker, filter, pending, groups, now, alerts, reply, lost>>
  BY DEF HandleStarted, pdefVars, threadVars, inputVars
<1>3. /\ TableOK(table', nextId) /\ Ids(table') = Ids(table)
      /\ ActiveIds(table') = ActiveIds(table)
      /\ \A j \in Ids(table) : table'.slots[j].file = table.slots[j].file
  BY <1>1, <1>2, InvParts, TableNow, StartedIsActive, SetStatusOK
<1>4. ArchivedIds(table') \subseteq ArchivedIds(table)
  BY <1>3 DEF ArchivedIds
<1>5. Awaiting' = Awaiting
  BY <1>2 DEF Awaiting
<1>6. HeldInv'
  BY <1>1, <1>2, <1>3, <1>5, HandledHeld
<1>7. FilesInv'
  BY <1>1, <1>2, <1>4, <1>5, HandledFiles
<1>8. TriggersTyped' /\ cleanupQ' \in Seq(IdsSoFar)
  BY <1>2, InvParts DEF OthersTyped, TriggersTyped, QueuesTyped
<1> QED BY <1>1, <1>2, <1>3, <1>6, <1>7, <1>8, TableStepKeeps

\* Ending a cooldown.
LEMMA CooldownTyped ==
  ASSUME TriggersTyped, NEW t, NEW id, lastTrigger' = CooldownCleared(t, id)
  PROVE  TriggersTyped'
BY DEF TriggersTyped, CooldownCleared, Without

\* The capture leaves the active ones and the places that hold them at once.
LEMMA HeldEnds ==
  ASSUME ManagerInv, NEW type \in EndMessages, Receives(type), Dequeue,
         ActiveIds(table') = ActiveIds(table) \ {Id}, UNCHANGED <<worker, workerQ, Awaiting, lost>>
  PROVE  HeldInv'
<1>1. BusyIds' = BusyIds
  BY DEF BusyIds
<1>2. /\ DistinctMsgs(mgrQ', EndMessages) /\ Id \in MsgIds(mgrQ, EndMessages)
      /\ MsgIds(mgrQ', EndMessages) = MsgIds(mgrQ, EndMessages) \ {Id}
  BY <1>1, HandledViews
<1>3. AwaitingIds' = AwaitingIds
  BY DEF AwaitingIds
<1>4. HeldApart /\ HeldIffActive
  BY InvParts DEF HeldInv
<1>5. HeldApart'
  BY <1>2, <1>3, <1>4 DEF HeldApart
<1>6. HeldIffActive'
  <2>1. QueuedIds' = QueuedIds
    BY DEF QueuedIds
  <2>2. Id \notin QueuedIds /\ Id \notin AwaitingIds /\ Id \notin lost
    BY <1>2, <1>4 DEF HeldApart, QueuedIds
  <2> QED BY <1>2, <1>3, <1>4, <2>1, <2>2 DEF HeldIffActive
<1> QED BY <1>5, <1>6 DEF HeldInv

\* handle_capture_finished_v2 and handle_capture_failed_v2.
LEMMA EndKeeps ==
  ASSUME ManagerInv, NEW type \in EndMessages, Receives(type), Dequeue,
         NEW status \in {"completed", "failed"}, table' = SetStatus(table, Id, status),
         lastTrigger' = CooldownCleared(table', Id),
         UNCHANGED <<nextId, nextWorker, usage, endian, workerQ, filterQ, cleanupQ,
                     worker, filter, pending, groups, now, alerts, reply, lost>>
  PROVE  ManagerInv'
<1>1. /\ TableOK(table', nextId) /\ Ids(table') = Ids(table)
      /\ ActiveIds(table') = ActiveIds(table) \ {Id}
      /\ \A j \in Ids(table) : table'.slots[j].file = table.slots[j].file
  BY InvParts, TableNow, SetStatusOK
<1>2. ArchivedIds(table') \subseteq ArchivedIds(table)
  BY <1>1 DEF ArchivedIds
<1>3. Awaiting' = Awaiting
  BY DEF Awaiting
<1>4. HeldInv'
  BY <1>1, <1>3, HeldEnds
<1>5. FilesInv'
  BY <1>2, <1>3, HandledFiles
<1>6. TriggersTyped' /\ cleanupQ' \in Seq(IdsSoFar)
  BY InvParts, CooldownTyped DEF OthersTyped, QueuesTyped
<1> QED BY <1>1, <1>4, <1>5, <1>6, TableStepKeeps

\* A capture has finished or failed: its task ends, and nobody holds it any more.
LEMMA HandleEndKeeps ==
  ASSUME ManagerInv, HandleFinished \/ HandleFailed
  PROVE  ManagerInv'
<1>1. CASE HandleFinished
  <2>1. "finished" \in EndMessages /\ Receives("finished") /\ Dequeue
    BY <1>1 DEF HandleFinished, EndMessages
  <2>2. /\ table' = SetStatus(table, Id, "completed") /\ lastTrigger' = CooldownCleared(table', Id)
        /\ UNCHANGED <<nextId, nextWorker, usage, endian, workerQ, filterQ, cleanupQ,
                       worker, filter, pending, groups, now, alerts, reply, lost>>
    BY <1>1 DEF HandleFinished, pdefVars, threadVars, inputVars
  <2> QED BY <2>1, <2>2, EndKeeps
<1>2. CASE HandleFailed
  <2>1. "failed" \in EndMessages /\ Receives("failed") /\ Dequeue
    BY <1>2 DEF HandleFailed, EndMessages
  <2>2. /\ table' = SetStatus(table, Id, "failed") /\ lastTrigger' = CooldownCleared(table', Id)
        /\ UNCHANGED <<nextId, nextWorker, usage, endian, workerQ, filterQ, cleanupQ,
                       worker, filter, pending, groups, now, alerts, reply, lost>>
    BY <1>2 DEF HandleFailed, pdefVars, threadVars, inputVars
  <2> QED BY <2>1, <2>2, EndKeeps
<1> QED BY <1>1, <1>2

\* handle_capture_file_ready_v2: the capture goes from the message to the
\* cleanup thread's channel, and from no other place.
LEMMA HandleFileReadyKeeps ==
  ASSUME ManagerInv, HandleFileReady
  PROVE  ManagerInv'
<1>1. /\ Receives("file_ready") /\ Dequeue /\ "file_ready" \notin EndMessages
      /\ "file_ready" \in JobTypes /\ "file_ready" \notin RawTypes /\ "file_ready" \notin DoneTypes
  BY DEF HandleFileReady, EndMessages, JobTypes, RawTypes, DoneTypes
<1>2. /\ table' = SetFile(table, Id, "ready")
      /\ cleanupQ' = Append(cleanupQ, Id) \/ cleanupQ' = cleanupQ
      /\ UNCHANGED <<nextId, nextWorker, lastTrigger, usage, endian, workerQ, filterQ,
                     worker, filter, pending, groups, now, alerts, reply, lost>>
  BY DEF HandleFileReady, pdefVars, threadVars, inputVars
<1>3. /\ TableOK(table', nextId) /\ Ids(table') = Ids(table)
      /\ ActiveIds(table') = ActiveIds(table)
      /\ \A j \in Ids(table) : table'.slots[j].file = IF j = Id THEN "ready" ELSE table.slots[j].file
  BY <1>2, InvParts, TableNow, SetFileOK
<1>4. ArchivedIds(table') \subseteq ArchivedIds(table)
  BY <1>3 DEF ArchivedIds
<1>5. Awaiting' = Awaiting /\ BusyIds' = BusyIds
  BY <1>2 DEF Awaiting, BusyIds
<1>6. HeldInv'
  BY <1>1, <1>2, <1>3, <1>5, HandledHeld
<1>7. /\ Id \in ListingIds /\ ListingIds' = ListingIds \ {Id} /\ Id \in IdsSoFar
      /\ DistinctMsgs(mgrQ', {"file_ready"})
      /\ MsgIds(mgrQ', RawTypes) = MsgIds(mgrQ, RawTypes)
      /\ MsgIds(mgrQ', DoneTypes) = MsgIds(mgrQ, DoneTypes)
  BY <1>1, <1>5, HandledViews DEF ListingIds
<1>8. cleanupQ \in Seq(IdsSoFar) /\ FilesApart /\ ArchivedLast
  BY InvParts DEF OthersTyped, QueuesTyped, FilesInv
<1>9. /\ cleanupQ' \in Seq(IdsSoFar) /\ IsInjective(cleanupQ')
      /\ Range(cleanupQ') \subseteq Range(cleanupQ) \cup {Id}
  <2>1. Id \notin Range(cleanupQ) /\ IsInjective(cleanupQ)
    BY <1>7, <1>8 DEF FilesApart
  <2>2. CASE cleanupQ' = Append(cleanupQ, Id)
    <3>1. Append(cleanupQ, Id) \in Seq(IdsSoFar)
          /\ Range(Append(cleanupQ, Id)) = Range(cleanupQ) \cup {Id}
      BY <1>7, <1>8, AppendFacts
    <3>2. IsInjective(Append(cleanupQ, Id))
      BY <1>7, <1>8, <2>1, AppendIds
    <3> QED BY <2>2, <3>1, <3>2
  <2>3. CASE cleanupQ' = cleanupQ
    BY <1>8, <2>1, <2>3
  <2> QED BY <1>2, <2>2, <2>3
<1>10. FilesInv'
  <2>1. /\ \A w \in Workers : UnreportedIds(w)' = UnreportedIds(w)
        /\ RawIds' = RawIds
        /\ ArchivingIds' = ArchivingIds
    BY <1>2, <1>5, <1>7 DEF UnreportedIds, Unreported, RawIds, AwaitingIds, RawTypes,
       ArchivingIds, DoneTypes
  <2>2. FilesApart'
    BY <1>7, <1>8, <1>9, <2>1 DEF FilesApart
  <2>3. ArchivedLast'
    BY <1>4, <1>7, <1>8, <1>9, <2>1 DEF ArchivedLast
  <2> QED BY <2>2, <2>3 DEF FilesInv
<1>11. TriggersTyped'
  BY <1>2, InvParts DEF OthersTyped, TriggersTyped
<1> QED BY <1>1, <1>2, <1>3, <1>6, <1>9, <1>10, <1>11, TableStepKeeps

\* handle_clean_compress_done: the capture was with the archiver.
LEMMA HandleCompressDoneKeeps ==
  ASSUME ManagerInv, HandleCompressDone
  PROVE  ManagerInv'
<1>1. /\ Receives("compress_done") /\ Dequeue /\ "compress_done" \notin EndMessages
      /\ "compress_done" \in DoneTypes
  BY DEF HandleCompressDone, EndMessages, DoneTypes
<1>2. /\ table' = SetFile(table, Id, "archived")
      /\ UNCHANGED <<nextId, nextWorker, lastTrigger, usage, endian, workerQ, filterQ, cleanupQ,
                     worker, filter, pending, groups, now, alerts, reply, lost>>
  BY DEF HandleCompressDone, pdefVars, threadVars, inputVars
<1>3. /\ TableOK(table', nextId) /\ Ids(table') = Ids(table)
      /\ ActiveIds(table') = ActiveIds(table)
      /\ \A j \in Ids(table) :
           table'.slots[j].file = IF j = Id THEN "archived" ELSE table.slots[j].file
  BY <1>2, InvParts, TableNow, SetFileOK
<1>4. ArchivedIds(table') \subseteq ArchivedIds(table) \cup {Id}
  BY <1>3 DEF ArchivedIds
<1>5. Awaiting' = Awaiting /\ BusyIds' = BusyIds
  BY <1>2 DEF Awaiting, BusyIds
<1>6. HeldInv'
  BY <1>1, <1>2, <1>3, <1>5, HandledHeld
<1>7. /\ Id \in MsgIds(mgrQ, DoneTypes)
      /\ DistinctMsgs(mgrQ', {"file_ready"})
      /\ \A types : MsgIds(mgrQ', types) \subseteq MsgIds(mgrQ, types)
  BY <1>1, <1>5, HandledViews
<1>8. FilesInv'
  <2>1. /\ \A w \in Workers : UnreportedIds(w)' \subseteq UnreportedIds(w)
        /\ RawIds' \subseteq RawIds
        /\ ListingIds' \subseteq ListingIds
    BY <1>2, <1>5, <1>7 DEF UnreportedIds, Unreported, RawIds, AwaitingIds, ListingIds
  <2>2. ArchivingIds' \subseteq ArchivingIds /\ Id \in ArchivingIds
    BY <1>2, <1>7 DEF ArchivingIds, DoneTypes
  <2>3. ArchivingIds' \cup ArchivedIds(table') \subseteq ArchivingIds \cup ArchivedIds(table)
    BY <1>4, <2>2
  <2>4. IsInjective(cleanupQ') /\ Range(cleanupQ') \subseteq Range(cleanupQ) /\ FilesInv
    BY <1>2, InvParts DEF FilesInv, FilesApart
  <2> QED BY <1>7, <2>1, <2>3, <2>4, FilesShrink
<1>9. TriggersTyped' /\ cleanupQ' \in Seq(IdsSoFar)
  BY <1>2, InvParts DEF OthersTyped, TriggersTyped, QueuesTyped
<1> QED BY <1>1, <1>2, <1>3, <1>6, <1>8, <1>9, TableStepKeeps

\* try_writeback_pdef_endian.
LEMMA WritebackFacts ==
  ASSUME PdefTyped, NEW f \in PdefFiles, NEW u \in Usage, u.needed => u.endian \in Endians,
         TryWriteback(f, u)
  PROVE  /\ usage' \in [PdefFiles -> Usage]
         /\ endian' \in [PdefFiles -> Endians \cup {"auto"}]
         /\ \A g \in PdefFiles : g # f => usage'[g] = usage[g]
         /\ usage'[f].active = u.active /\ usage'[f].needed = u.needed
         /\ usage'[f].endian = u.endian /\ (u.done => usage'[f].done)
         /\ \A g \in PdefFiles : endian'[g] # endian[g] =>
              g = f /\ u.active = {} /\ u.needed /\ ~u.done /\ usage'[f].done
<1>1. usage \in [PdefFiles -> Usage] /\ endian \in [PdefFiles -> Endians \cup {"auto"}]
  BY DEF PdefTyped
<1>2. CASE /\ u.needed /\ ~u.done /\ u.active = {}
           /\ endian' = [endian EXCEPT ![f] = u.endian]
           /\ usage' = [usage EXCEPT ![f] = [u EXCEPT !.done = TRUE]]
  <2>1. /\ [u EXCEPT !.done = TRUE] \in Usage
        /\ [u EXCEPT !.done = TRUE].active = u.active /\ [u EXCEPT !.done = TRUE].needed = u.needed
        /\ [u EXCEPT !.done = TRUE].endian = u.endian /\ [u EXCEPT !.done = TRUE].done = TRUE
    BY DEF Usage
  <2> QED BY <1>1, <1>2, <2>1
<1>3. CASE usage' = [usage EXCEPT ![f] = u] /\ UNCHANGED endian
  BY <1>1, <1>3
<1> QED BY <1>2, <1>3 DEF TryWriteback

\* The jobs the filter thread has yet to answer.
LEMMA AwaitingFacts ==
  ASSUME ManagerInv
  PROVE  /\ Awaiting \in Seq(Job) /\ filterQ \in Seq(Job)
         /\ filter.phase # "idle" => filterQ # <<>>
<1>1. filterQ \in Seq(Job) /\ (filter.phase # "idle" => filterQ # <<>>)
  BY InvParts DEF OthersTyped, QueuesTyped, BusyHasJob
<1>2. CASE filter.phase = "sent"
  BY <1>1, <1>2, TailFacts DEF Awaiting
<1>3. CASE filter.phase # "sent"
  BY <1>1, <1>3 DEF Awaiting
<1> QED BY <1>1, <1>2, <1>3

\* try_writeback_pdef_endian is called with a record that knows its endianness
\* and every job the filter thread has for the file; it asks for a writeback only
\* if it did before or the file's endianness has been detected.
WritesBack(f, u) ==
  /\ TryWriteback(f, u)
  /\ u \in Usage
  /\ u.done = usage[f].done
  /\ u.needed => /\ u.endian \in Endians
                 /\ usage[f].needed \/ \E m \in Range(mgrQ) : m.type = "endian" /\ m.pdef = f
  /\ \A job \in Range(Awaiting) : job.pdef = f => job.id \in u.active

\* A filtered file ends the use of its PDEF file, and may write its endianness.
LEMMA FilteredWrites ==
  ASSUME ManagerInv, HandleFiltered
  PROVE  UNCHANGED <<usage, endian>> \/ \E f \in PdefFiles : \E u : WritesBack(f, u)
<1> DEFINE job == Head(mgrQ).job
<1>1. /\ Receives("filtered") /\ Dequeue /\ "filtered" \in EndMessages /\ "filtered" \in JobTypes
  BY DEF HandleFiltered, EndMessages, JobTypes
<1>2. /\ UNCHANGED <<worker, workerQ>>
      /\ IF job.pdef = NoFile THEN UNCHANGED <<usage, endian>>
                              ELSE TryWriteback(job.pdef, UsageEnd(job.pdef, Id)[job.pdef])
  BY DEF HandleFiltered, pdefVars, threadVars
<1>3. BusyIds' = BusyIds
  BY <1>2 DEF BusyIds
<1>4. job \in Job /\ Id = job.id /\ Id \in MsgIds(mgrQ, EndMessages)
  BY <1>1, <1>3, HandledViews DEF Id
<1>5. Id \notin AwaitingIds
  BY <1>4, InvParts DEF HeldInv, HeldApart
<1>6. PdefTyped /\ UsageTracked
  BY InvParts DEF OthersTyped
<1>7. CASE job.pdef # NoFile
  <2> DEFINE f == job.pdef
             u == UsageEnd(f, Id)[f]
  <2>1. f \in PdefFiles
    BY <1>4, <1>7 DEF Job
  <2>2. usage \in [PdefFiles -> Usage] /\ usage[f] \in Usage
    BY <1>6, <2>1 DEF PdefTyped
  <2>3. u = [usage[f] EXCEPT !.active = @ \ {Id}]
    BY <1>7, <2>1, <2>2 DEF UsageEnd
  <2>4. /\ u \in Usage /\ u.active = usage[f].active \ {Id} /\ u.needed = usage[f].needed
        /\ u.endian = usage[f].endian /\ u.done = usage[f].done
    BY <2>2, <2>3 DEF Usage
  <2>5. TryWriteback(f, u)
    BY <1>2, <1>7
  <2> HIDE DEF f, u
  <2>6. u.needed => u.endian \in Endians
    BY <1>6, <2>1, <2>4 DEF UsageTracked
  <2>7. ASSUME NEW j \in Range(Awaiting), j.pdef = f PROVE j.id \in u.active
    <3>1. f # NoFile
      BY <2>1, ManagerAssumption
    <3>2. j.id \in usage[f].active
      BY <1>6, <2>7, <3>1 DEF UsageTracked
    <3>3. j.id # Id
      BY <1>5 DEF AwaitingIds, JobIds
    <3> QED BY <2>4, <3>2, <3>3
  <2>8. WritesBack(f, u)
    BY <2>4, <2>5, <2>6, <2>7 DEF WritesBack
  <2> QED BY <2>1, <2>8
<1> QED BY <1>2, <1>7

\* A detected endianness is written only to a file that no capture uses.
LEMMA EndianWrites ==
  ASSUME ManagerInv, HandleEndian
  PROVE  UNCHANGED <<usage, endian>> \/ \E f \in PdefFiles : \E u : WritesBack(f, u)
<1> DEFINE f == Head(mgrQ).pdef
           u == IF usage[f].endian # "unknown" THEN usage[f]
                ELSE [usage[f] EXCEPT !.endian = Head(mgrQ).endian, !.needed = TRUE]
<1>1. /\ Receives("endian") /\ Dequeue /\ UNCHANGED <<worker, workerQ>>
      /\ IF usage[f].done THEN UNCHANGED <<usage, endian>> ELSE TryWriteback(f, u)
  BY DEF HandleEndian, pdefVars, threadVars
<1>2. BusyIds' = BusyIds
  BY <1>1 DEF BusyIds
<1>3. Head(mgrQ) \in Message /\ Head(mgrQ).type = "endian" /\ Head(mgrQ) \in Range(mgrQ)
  BY <1>1, <1>2, HandledViews
<1>4. f \in PdefFiles /\ Head(mgrQ).endian \in Endians
  BY <1>3 DEF Message, JobTypes
<1>5. PdefTyped /\ UsageTracked
  BY InvParts DEF OthersTyped
<1>6. CASE ~usage[f].done
  <2>1. usage[f] \in Usage
    BY <1>4, <1>5 DEF PdefTyped
  <2>2. /\ u \in Usage /\ u.active = usage[f].active /\ u.done = usage[f].done
        /\ u.needed => u.endian \in Endians
    <3>1. CASE usage[f].endian # "unknown"
      BY <1>4, <1>5, <2>1, <3>1 DEF UsageTracked
    <3>2. CASE usage[f].endian = "unknown"
      <4>1. u = [usage[f] EXCEPT !.endian = Head(mgrQ).endian, !.needed = TRUE]
        BY <3>2
      <4> HIDE DEF u
      <4> QED BY <1>4, <2>1, <4>1 DEF Usage
    <3> QED BY <3>1, <3>2
  <2>3. TryWriteback(f, u)
    BY <1>1, <1>6
  <2>4. f # NoFile
    BY <1>4, ManagerAssumption
  <2> HIDE DEF u
  <2>5. \A job \in Range(Awaiting) : job.pdef = f => job.id \in u.active
    BY <1>5, <2>2, <2>4 DEF UsageTracked
  <2>6. WritesBack(f, u)
    BY <1>3, <2>2, <2>3, <2>5 DEF WritesBack
  <2> QED BY <1>4, <2>6
<1> QED BY <1>1, <1>6

\* A writeback keeps the usage records of the jobs the filter thread has.
LEMMA UsageWritten ==
  ASSUME ManagerInv, Awaiting' = Awaiting,
         UNCHANGED <<usage, endian>> \/ \E f \in PdefFiles : \E u : WritesBack(f, u)
  PROVE  /\ usage' \in [PdefFiles -> Usage] /\ endian' \in [PdefFiles -> Endians \cup {"auto"}]
         /\ UsageTracked'
<1>1. PdefTyped /\ UsageTracked
  BY InvParts DEF OthersTyped
<1>2. CASE UNCHANGED <<usage, endian>>
  BY <1>1, <1>2 DEF PdefTyped, UsageTracked
<1>3. ASSUME NEW f \in PdefFiles, NEW u, WritesBack(f, u)
      PROVE  /\ usage' \in [PdefFiles -> Usage] /\ endian' \in [PdefFiles -> Endians \cup {"auto"}]
             /\ UsageTracked'
  <2>1. /\ TryWriteback(f, u) /\ u \in Usage /\ (u.needed => u.endian \in Endians)
        /\ \A job \in Range(Awaiting) : job.pdef = f => job.id \in u.active
    BY <1>3 DEF WritesBack
  <2>2. /\ usage' \in [PdefFiles -> Usage]
        /\ endian' \in [PdefFiles -> Endians \cup {"auto"}]
        /\ \A g \in PdefFiles : g # f => usage'[g] = usage[g]
        /\ usage'[f].active = u.active /\ usage'[f].needed = u.needed
        /\ usage'[f].endian = u.endian
    BY <1>1, <2>1, WritebackFacts
  <2>3. ASSUME NEW j \in Range(Awaiting), j.pdef # NoFile PROVE j.id \in usage'[j.pdef].active
    <3>1. j.id \in usage[j.pdef].active
      BY <1>1, <2>3 DEF UsageTracked
    <3>2. j \in Job
      BY AwaitingFacts DEF Range
    <3>3. j.pdef \in PdefFiles
      BY <2>3, <3>2 DEF Job
    <3> QED BY <2>1, <2>2, <3>1, <3>3
  <2>4. ASSUME NEW g \in PdefFiles, usage'[g].needed PROVE usage'[g].endian \in Endians
    BY <1>1, <2>1, <2>2, <2>4 DEF UsageTracked
  <2> QED BY <2>2, <2>3, <2>4 DEF UsageTracked
<1> QED BY <1>2, <1>3

\* handle_capture_filtered_file_v2: the capture ends, its file is listed, and the
\* PDEF file loses a user that the filter thread no longer has.
LEMMA HandleFilteredKeeps ==
  ASSUME ManagerInv, HandleFiltered
  PROVE  ManagerInv'
<1> DEFINE t == SetFile(table, Id, "ready")
<1>1. /\ Receives("filtered") /\ Dequeue /\ "filtered" \in EndMessages
  BY DEF HandleFiltered, EndMessages
<1>2. /\ table' = SetStatus(t, Id, "completed") /\ lastTrigger' = CooldownCleared(table', Id)
      /\ UNCHANGED <<nextId, nextWorker, workerQ, filterQ, cleanupQ,
                     worker, filter, pending, groups, now, alerts, reply, lost>>
  BY DEF HandleFiltered, threadVars, inputVars
<1>3. /\ TableOK(t, nextId) /\ Ids(t) = Ids(table) /\ ActiveIds(t) = ActiveIds(table)
      /\ \A j \in Ids(table) : t.slots[j].file = IF j = Id THEN "ready" ELSE table.slots[j].file
  BY InvParts, TableNow, SetFileOK
<1> HIDE DEF t
<1>4. /\ TableOK(table', nextId) /\ Ids(table') = Ids(table)
      /\ ActiveIds(table') = ActiveIds(table) \ {Id}
      /\ \A j \in Ids(table) : table'.slots[j].file = t.slots[j].file
  BY <1>2, <1>3, InvParts, TableNow, SetStatusOK
<1>5. ArchivedIds(table') \subseteq ArchivedIds(table)
  BY <1>3, <1>4 DEF ArchivedIds
<1>6. Awaiting' = Awaiting /\ BusyIds' = BusyIds
  BY <1>2 DEF Awaiting, BusyIds
<1>7. HeldInv'
  BY <1>1, <1>2, <1>4, <1>6, HeldEnds
<1>8. FilesInv'
  BY <1>1, <1>2, <1>5, <1>6, HandledFiles
<1>9. /\ usage' \in [PdefFiles -> Usage] /\ endian' \in [PdefFiles -> Endians \cup {"auto"}]
      /\ UsageTracked'
  BY <1>6, FilteredWrites, UsageWritten
<1>10. TriggersTyped' /\ cleanupQ' \in Seq(IdsSoFar) /\ lost' \in SUBSET IdsSoFar /\ filterQ' \in Seq(Job)
  BY <1>2, InvParts, CooldownTyped DEF OthersTyped, QueuesTyped, InputsTyped
<1> QED BY <1>1, <1>2, <1>4, <1>7, <1>8, <1>9, <1>10, FollowKeeps

\* handle_pdef_endian_detected
LEMMA HandleEndianKeeps ==
  ASSUME ManagerInv, HandleEndian
  PROVE  ManagerInv'
<1>1. /\ Receives("endian") /\ Dequeue /\ "endian" \notin EndMessages
  BY DEF HandleEndian, EndMessages
<1>2. UNCHANGED <<table, nextId, nextWorker, lastTrigger, workerQ, filterQ, cleanupQ,
                  worker, filter, pending, groups, now, alerts, reply, lost>>
  BY DEF HandleEndian, tableVars, threadVars, inputVars
<1>3. Awaiting' = Awaiting /\ BusyIds' = BusyIds
  BY <1>2 DEF Awaiting, BusyIds
<1>4. HeldInv'
  BY <1>1, <1>2, <1>3, HandledHeld
<1>5. FilesInv'
  BY <1>1, <1>2, <1>3, HandledFiles
<1>6. /\ usage' \in [PdefFiles -> Usage] /\ endian' \in [PdefFiles -> Endians \cup {"auto"}]
      /\ UsageTracked'
  BY <1>3, EndianWrites, UsageWritten
<1>7. /\ TableOK(table', nextId) /\ TriggersTyped' /\ cleanupQ' \in Seq(IdsSoFar)
      /\ lost' \in SUBSET IdsSoFar /\ filterQ' \in Seq(Job)
  BY <1>2, InvParts, TableNow DEF OthersTyped, TriggersTyped, QueuesTyped, InputsTyped
<1> QED BY <1>1, <1>2, <1>4, <1>5, <1>6, <1>7, FollowKeeps

\* A job that reaches the filter thread's channel is the last it will answer.
LEMMA AwaitingGrows ==
  ASSUME ManagerInv, NEW job \in Job, filterQ' = Append(filterQ, job), UNCHANGED filter
  PROVE  Awaiting' = Append(Awaiting, job)
<1>1. filterQ \in Seq(Job) /\ (filter.phase # "idle" => filterQ # <<>>)
  BY AwaitingFacts
<1>2. CASE filter.phase = "sent"
  <2>1. Tail(Append(filterQ, job)) = Append(Tail(filterQ), job)
    BY <1>1, <1>2, TailAppend
  <2> QED BY <1>2, <2>1 DEF Awaiting
<1>3. CASE filter.phase # "sent"
  BY <1>3 DEF Awaiting
<1> QED BY <1>2, <1>3

\* handle_capture_raw_file_v2: the capture goes from the message to the filter
\* thread, or is lost.
LEMMA HandleRawFileKeeps ==
  ASSUME ManagerInv, HandleRawFile
  PROVE  ManagerInv'
<1> DEFINE job == Head(mgrQ).job
<1>1. /\ Receives("raw_file") /\ Dequeue /\ "raw_file" \in EndMessages /\ "raw_file" \in JobTypes
      /\ "raw_file" \in RawTypes
  BY DEF HandleRawFile, EndMessages, JobTypes, RawTypes
<1>2. /\ IF FilterUp
         THEN /\ usage' = UsageStart(job.pdef, job.id)
              /\ filterQ' = Append(filterQ, job)
              /\ UNCHANGED lost
         ELSE /\ usage' = UsageEnd(job.pdef, job.id)
              /\ lost' = lost \cup {job.id}
              /\ UNCHANGED filterQ
      /\ UNCHANGED <<table, nextId, nextWorker, lastTrigger, endian, workerQ, cleanupQ,
                     worker, filter, pending, groups, now, alerts, reply>>
  BY DEF HandleRawFile, tableVars, threadVars, inputVars
<1>3. BusyIds' = BusyIds
  BY <1>2 DEF BusyIds
<1>4. /\ job \in Job /\ Id = job.id /\ Id \in IdsSoFar
      /\ Id \in MsgIds(mgrQ, EndMessages) /\ Id \in MsgIds(mgrQ, RawTypes)
      /\ MsgIds(mgrQ', EndMessages) = MsgIds(mgrQ, EndMessages) \ {Id}
      /\ DistinctMsgs(mgrQ', EndMessages) /\ DistinctMsgs(mgrQ', {"file_ready"})
      /\ \A types : MsgIds(mgrQ', types) \subseteq MsgIds(mgrQ, types)
  BY <1>1, <1>3, HandledViews DEF Id
<1>5. HeldApart /\ HeldIffActive /\ PdefTyped /\ UsageTracked
  BY InvParts DEF HeldInv, OthersTyped
<1>6. Id \notin AwaitingIds /\ Id \notin lost /\ \A w \in Workers : Id \notin JobIds(workerQ[w])
  BY <1>4, <1>5 DEF HeldApart
<1>7. Awaiting \in Seq(Job) /\ filterQ \in Seq(Job)
  BY AwaitingFacts
<1>8. /\ filterQ' \in Seq(Job) /\ lost' \in SUBSET IdsSoFar /\ DistinctJobs(Awaiting')
      /\ Range(Awaiting') \subseteq Range(Awaiting) \cup {job}
      /\ \/ AwaitingIds' = AwaitingIds \cup {Id} /\ lost' = lost
         \/ AwaitingIds' = AwaitingIds /\ lost' = lost \cup {Id}
  <2>0. DistinctJobs(Awaiting) /\ lost \in SUBSET IdsSoFar
    BY <1>5, InvParts DEF HeldApart, OthersTyped, InputsTyped
  <2>1. CASE FilterUp
    <3>1. filterQ' = Append(filterQ, job) /\ lost' = lost
      BY <1>2, <2>1
    <3>2. Awaiting' = Append(Awaiting, job)
      BY <1>2, <1>4, <3>1, AwaitingGrows
    <3>3. filterQ' \in Seq(Job) /\ Range(Awaiting') = Range(Awaiting) \cup {job}
      BY <1>4, <1>7, <3>1, <3>2, AppendFacts
    <3>4. JobIds(Awaiting') = JobIds(Awaiting) \cup {Id} /\ DistinctJobs(Awaiting')
      BY <1>4, <1>6, <1>7, <2>0, <3>2, AppendJobs DEF AwaitingIds
    <3> QED BY <2>0, <3>1, <3>3, <3>4 DEF AwaitingIds
  <2>2. CASE ~FilterUp
    <3>1. filterQ' = filterQ /\ lost' = lost \cup {Id}
      BY <1>2, <1>4, <2>2
    <3>2. Awaiting' = Awaiting
      BY <1>2, <3>1 DEF Awaiting
    <3> QED BY <1>4, <1>7, <2>0, <3>1, <3>2 DEF AwaitingIds
  <2> QED BY <2>1, <2>2
<1>9. HeldInv'
  <2>1. HeldApart'
    <3> DEFINE M == MsgIds(mgrQ, EndMessages)
    <3>1. /\ \A w \in Workers : JobIds(workerQ[w]) \cap (M \cup AwaitingIds \cup lost) = {}
          /\ M \cap (AwaitingIds \cup lost) = {}
          /\ AwaitingIds \cap lost = {}
      BY <1>5 DEF HeldApart
    <3>2. M' \cup AwaitingIds' \cup lost' \subseteq M \cup AwaitingIds \cup lost
      BY <1>4, <1>8
    <3>3. M' \cap (AwaitingIds' \cup lost') = {} /\ AwaitingIds' \cap lost' = {}
      BY <1>4, <1>6, <1>8, <3>1
    <3>4. /\ \A w \in Workers : DistinctJobs(workerQ'[w])
          /\ \A v, w \in Workers : v # w => JobIds(workerQ'[v]) \cap JobIds(workerQ'[w]) = {}
      BY <1>2, <1>5 DEF HeldApart
    <3>5. \A w \in Workers : JobIds(workerQ'[w]) \cap (M' \cup AwaitingIds' \cup lost') = {}
      BY <1>2, <3>1, <3>2
    <3> QED BY <1>4, <1>8, <3>3, <3>4, <3>5 DEF HeldApart
  <2>2. QueuedIds' = QueuedIds
    BY <1>2 DEF QueuedIds
  <2>3. HeldIffActive'
    BY <1>2, <1>4, <1>5, <1>8, <2>2 DEF HeldIffActive
  <2> QED BY <2>1, <2>3 DEF HeldInv
<1>10. FilesInv'
  <2>1. \A w \in Workers : UnreportedIds(w)' \subseteq UnreportedIds(w)
    BY <1>2 DEF UnreportedIds, Unreported
  <2>2. RawIds' \subseteq RawIds
    BY <1>4, <1>8 DEF RawIds, RawTypes
  <2>3. ListingIds' \subseteq ListingIds
    BY <1>4 DEF ListingIds
  <2>4. ArchivingIds' \cup ArchivedIds(table') \subseteq ArchivingIds \cup ArchivedIds(table)
    BY <1>2, <1>4 DEF ArchivingIds
  <2>5. IsInjective(cleanupQ') /\ Range(cleanupQ') \subseteq Range(cleanupQ) /\ FilesInv
    BY <1>2, InvParts DEF FilesInv, FilesApart
  <2> QED BY <1>4, <2>1, <2>2, <2>3, <2>4, <2>5, FilesShrink
<1>11. usage' \in [PdefFiles -> Usage] /\ UsageTracked'
  <2>1. CASE job.pdef = NoFile
    <3>1. usage' = usage
      BY <1>2, <2>1 DEF UsageStart, UsageEnd
    <3>2. UsageTracked'
      BY <1>5, <1>8, <2>1, <3>1 DEF UsageTracked
    <3> QED BY <1>5, <3>1, <3>2 DEF PdefTyped
  <2>2. CASE job.pdef # NoFile
    <3> DEFINE f == job.pdef
    <3>1. f \in PdefFiles
      BY <1>4, <2>2 DEF Job
    <3>2. usage \in [PdefFiles -> Usage] /\ usage[f] \in Usage
      BY <1>5, <3>1 DEF PdefTyped
    <3>3. \/ usage' = [usage EXCEPT ![f].active = @ \cup {Id}]
          \/ /\ usage' = [usage EXCEPT ![f].active = @ \ {Id}]
             /\ Awaiting' = Awaiting
      <4>1. CASE FilterUp
        BY <1>2, <1>4, <2>2, <4>1 DEF UsageStart
      <4>2. CASE ~FilterUp
        BY <1>2, <1>4, <2>2, <4>2 DEF UsageEnd, Awaiting
      <4> QED BY <4>1, <4>2
    <3>4. /\ usage' \in [PdefFiles -> Usage]
          /\ \A g \in PdefFiles : g # f => usage'[g] = usage[g]
          /\ usage'[f].needed = usage[f].needed /\ usage'[f].endian = usage[f].endian
          /\ \/ usage'[f].active = usage[f].active \cup {Id}
             \/ usage'[f].active = usage[f].active \ {Id} /\ Awaiting' = Awaiting
      BY <1>4, <3>1, <3>2, <3>3 DEF Usage
    <3>5. ASSUME NEW j \in Range(Awaiting'), j.pdef # NoFile PROVE j.id \in usage'[j.pdef].active
      <4>1. CASE j \in Range(Awaiting)
        <5>1. j.id \in usage[j.pdef].active /\ j \in Job /\ j.id # Id
          BY <1>5, <1>6, <1>7, <3>5, <4>1 DEF UsageTracked, Range, AwaitingIds, JobIds
        <5>2. j.pdef \in PdefFiles
          BY <3>5, <5>1 DEF Job
        <5> QED BY <3>4, <5>1, <5>2
      <4>2. CASE j \notin Range(Awaiting)
        BY <1>4, <1>8, <3>1, <3>4, <4>2
      <4> QED BY <4>1, <4>2
    <3>6. \A g \in PdefFiles : usage'[g].needed => usage'[g].endian \in Endians
      BY <1>5, <3>4 DEF UsageTracked
    <3> QED BY <3>4, <3>5, <3>6 DEF UsageTracked
  <2> QED BY <2>1, <2>2
<1>12. filterQ # <<>> => filterQ' # <<>>
  BY <1>2, <1>4, <1>7, AppendFacts
<1>13. /\ TableOK(table', nextId) /\ TriggersTyped' /\ cleanupQ' \in Seq(IdsSoFar)
       /\ endian' \in [PdefFiles -> Endians \cup {"auto"}]
  BY <1>2, <1>5, InvParts, TableNow DEF OthersTyped, TriggersTyped, QueuesTyped, PdefTyped
<1> QED BY <1>1, <1>2, <1>8, <1>9, <1>10, <1>11, <1>12, <1>13, FollowKeeps

\* Every id in a queue, a thread, a message or the table has been issued.
LEMMA IdsIssued ==
  ASSUME ManagerInv
  PROVE  /\ \A w \in Workers : JobIds(workerQ[w]) \subseteq IdsSoFar
         /\ \A types \in SUBSET JobTypes : MsgIds(mgrQ, types) \subseteq IdsSoFar
         /\ AwaitingIds \subseteq IdsSoFar /\ lost \subseteq IdsSoFar
         /\ Range(cleanupQ) \subseteq IdsSoFar
         /\ pending \subseteq IdsSoFar /\ groups \subseteq IdsSoFar
<1>1. /\ mgrQ \in Seq(Message) /\ workerQ \in [Workers -> Seq(Job)] /\ cleanupQ \in Seq(IdsSoFar)
      /\ lost \subseteq IdsSoFar /\ pending \subseteq IdsSoFar /\ groups \subseteq IdsSoFar
  BY InvParts DEF OthersTyped, QueuesTyped, ThreadsTyped, InputsTyped
<1>2. ASSUME NEW q \in Seq(Job) PROVE JobIds(q) \subseteq IdsSoFar
  <2>1. Range(q) \subseteq Job
    BY DEF Range
  <2> QED BY <2>1 DEF JobIds, Job
<1>3. \A w \in Workers : JobIds(workerQ[w]) \subseteq IdsSoFar
  BY <1>1, <1>2
<1>4. AwaitingIds \subseteq IdsSoFar
  BY <1>2, AwaitingFacts DEF AwaitingIds
<1>5. ASSUME NEW types \in SUBSET JobTypes PROVE MsgIds(mgrQ, types) \subseteq IdsSoFar
  <2>1. Range(mgrQ) \subseteq Message
    BY <1>1 DEF Range
  <2>2. \A m \in Range(mgrQ) : m.type \in types => m.job.id \in IdsSoFar
    BY <2>1, JobOfMessage
  <2> QED BY <2>2 DEF MsgIds
<1>6. Range(cleanupQ) \subseteq IdsSoFar
  BY <1>1 DEF Range
<1> QED BY <1>1, <1>3, <1>4, <1>5, <1>6

\* create_and_add_capture_task and dispatch_task_to_worker: a new id appears in
\* the table and in one worker's channel.
LEMMA CreateKeeps ==
  ASSUME ManagerInv, NEW type, Receives(type), Dequeue, type \notin JobTypes,
         NEW r \in Targets, NEW user \in Modules \cup {NoModule},
         Verdict(r) = "200", CreateAndDispatch(r, user), TriggersTyped',
         reply' \in [Conns -> {"none", "waiting", "200", "404", "409", "429", "501"}],
         UNCHANGED <<usage, endian, filterQ, cleanupQ, worker, filter, pending, groups,
                     now, alerts, lost>>
  PROVE  ManagerInv'
<1> DEFINE job == [id |-> nextId, pdef |-> r.pdef, inline |-> r.inline]
           w0 == nextWorker
<1>1. /\ table' = SetStatus(AddTask(table, nextId, NewTask(r, now, user)), nextId, "resolving")
      /\ workerQ' = [workerQ EXCEPT ![w0] = Append(@, job)]
      /\ nextId' = nextId + 1
      /\ nextWorker' = WorkerAfter(nextWorker)
  BY DEF CreateAndDispatch, NewTask
<1>2. /\ nextId \in Nat /\ nextId >= FirstId /\ FirstId \in Nat /\ nextWorker \in Workers
      /\ now \in 0..MaxTime /\ TableOK(table, nextId) /\ MaxConcurrent \in Nat
      /\ table.count \in [Statuses -> Int]
  BY InvParts, TableNow DEF TableInv, TableTyped, OthersTyped, InputsTyped, IsTable
<1>3. /\ ~IsSignatureActive(table, r.sig) /\ ~IsKeyActive(table, r.key)
      /\ table.count["running"] + table.count["resolving"] < MaxConcurrent
  BY <1>2 DEF Verdict, Statuses
<1>4. /\ TableOK(table', nextId + 1)
      /\ ActiveIds(table') = ActiveIds(table) \cup {nextId}
      /\ table'.slots[nextId].file = "none"
      /\ Ids(table') \ {nextId} \subseteq Ids(table)
      /\ \A j \in Ids(table') \ {nextId} : table'.slots[j] = table.slots[j]
  BY <1>1, <1>2, <1>3, CreateOK
<1>5. TableInv'
  <2>1. nextId' \in Nat /\ nextId' >= FirstId
    BY <1>1, <1>2
  <2>2. nextWorker' \in Workers
    BY <1>1, <1>2, ManagerAssumption DEF WorkerAfter, Workers
  <2> QED BY <1>1, <1>4, <2>1, <2>2, TableNext
<1>6. /\ IdsSoFar \subseteq IdsSoFar' /\ nextId \in IdsSoFar' /\ nextId \notin IdsSoFar
  BY <1>1, <1>2 DEF IdsSoFar
<1>7. /\ Job \subseteq Job' /\ job \in Job' /\ Message \subseteq Message' /\ Usage \subseteq Usage'
  <2>1. Job \subseteq Job'
    BY <1>6 DEF Job
  <2>2. job \in Job'
    BY <1>6, ManagerAssumption DEF Job, TargetType
  <2>3. Message \subseteq Message'
    BY <2>1 DEF Message
  <2>4. Usage \subseteq Usage'
    BY <1>6 DEF Usage
  <2> QED BY <2>1, <2>2, <2>3, <2>4
<1> HIDE DEF job
<1>8. job.id = nextId
  BY DEF job
<1>9. /\ mgrQ \in Seq(Message) /\ workerQ \in [Workers -> Seq(Job)] /\ filterQ \in Seq(Job)
      /\ cleanupQ \in Seq(IdsSoFar)
  BY InvParts DEF OthersTyped, QueuesTyped
<1>10. workerQ' \in [Workers -> Seq(Job')]
  <2>1. \A w \in Workers : workerQ[w] \in Seq(Job')
    BY <1>7, <1>9, SeqMonotonic
  <2>2. Append(workerQ[w0], job) \in Seq(Job')
    BY <1>2, <1>7, <2>1, AppendFacts
  <2> QED BY <1>1, <1>9, <2>1, <2>2
<1>11. \A w \in Workers : w # w0 => workerQ'[w] = workerQ[w]
  BY <1>1, <1>9
<1>12. /\ workerQ'[w0] = Append(workerQ[w0], job)
       /\ workerQ'[w0] # <<>>
       /\ JobIds(workerQ'[w0]) = JobIds(workerQ[w0]) \cup {nextId}
       /\ DistinctJobs(workerQ[w0]) => DistinctJobs(workerQ'[w0])
       /\ workerQ[w0] # <<>> =>
            /\ Head(workerQ'[w0]) = Head(workerQ[w0])
            /\ Tail(workerQ'[w0]) = Append(Tail(workerQ[w0]), job)
            /\ JobIds(Tail(workerQ'[w0])) = JobIds(Tail(workerQ[w0])) \cup {nextId}
  <2>1. workerQ[w0] \in Seq(Job') /\ workerQ'[w0] = Append(workerQ[w0], job)
    BY <1>1, <1>2, <1>7, <1>9, SeqMonotonic
  <2>2. nextId \notin JobIds(workerQ[w0])
    BY <1>2, <1>6, IdsIssued
  <2>3. workerQ'[w0] # <<>>
    BY <1>7, <2>1, AppendFacts
  <2>4. /\ JobIds(workerQ'[w0]) = JobIds(workerQ[w0]) \cup {nextId}
        /\ DistinctJobs(workerQ[w0]) => DistinctJobs(workerQ'[w0])
    BY <1>7, <1>8, <2>1, <2>2, AppendJobs
  <2>5. ASSUME workerQ[w0] # <<>>
        PROVE  /\ Head(workerQ'[w0]) = Head(workerQ[w0])
               /\ Tail(workerQ'[w0]) = Append(Tail(workerQ[w0]), job)
               /\ JobIds(Tail(workerQ'[w0])) = JobIds(Tail(workerQ[w0])) \cup {nextId}
    <3>1. /\ Head(workerQ'[w0]) = Head(workerQ[w0])
          /\ Tail(workerQ'[w0]) = Append(Tail(workerQ[w0]), job)
      BY <1>7, <2>1, <2>5, TailAppend
    <3>2. Tail(workerQ[w0]) \in Seq(Job')
      BY <2>1, <2>5, TailFacts
    <3>3. JobIds(Append(Tail(workerQ[w0]), job)) = JobIds(Tail(workerQ[w0])) \cup {nextId}
      BY <1>7, <1>8, <3>2, AppendJobs
    <3> QED BY <3>1, <3>3, Zenon
  <2> QED BY <2>1, <2>3, <2>4, <2>5
<1>13. BusyHasJob
  BY InvParts
<1>14. BusyHasJob'
  BY <1>2, <1>11, <1>12, <1>13 DEF BusyHasJob
<1>15. BusyIds' = BusyIds
  <2>1. \A w \in Workers : worker[w] # "idle" => Head(workerQ'[w]) = Head(workerQ[w])
    BY <1>11, <1>12, <1>13 DEF BusyHasJob
  <2> QED BY <2>1 DEF BusyIds
<1>16. /\ mgrQ' \in Seq(Message) /\ StartedFirst'
       /\ DistinctMsgs(mgrQ', EndMessages) /\ DistinctMsgs(mgrQ', {"file_ready"})
       /\ MsgIds(mgrQ', EndMessages) = MsgIds(mgrQ, EndMessages)
       /\ MsgIds(mgrQ', RawTypes) = MsgIds(mgrQ, RawTypes)
       /\ MsgIds(mgrQ', DoneTypes) = MsgIds(mgrQ, DoneTypes)
       /\ MsgIds(mgrQ', {"file_ready"}) = MsgIds(mgrQ, {"file_ready"})
  <2>1. /\ type \notin EndMessages /\ type \notin RawTypes /\ type \notin DoneTypes
        /\ type \notin {"file_ready"}
    BY DEF JobTypes, EndMessages, RawTypes, DoneTypes
  <2> QED BY <1>15, <2>1, HandledViews
<1>17. Awaiting' = Awaiting /\ AwaitingIds' = AwaitingIds
  BY DEF Awaiting, AwaitingIds
<1>18. OthersTyped'
  <2>1. mgrQ' \in Seq(Message') /\ filterQ' \in Seq(Job') /\ cleanupQ' \in Seq(IdsSoFar')
    BY <1>6, <1>7, <1>9, <1>16, SeqMonotonic
  <2>2. usage' \in [PdefFiles -> Usage'] /\ endian' \in [PdefFiles -> Endians \cup {"auto"}]
    BY <1>7, InvParts DEF OthersTyped, PdefTyped
  <2>3. ThreadsTyped' /\ InputsTyped'
    BY <1>6, InvParts DEF OthersTyped, ThreadsTyped, InputsTyped
  <2> QED BY <1>10, <2>1, <2>2, <2>3 DEF OthersTyped, QueuesTyped, PdefTyped
<1>19. /\ \A w \in Workers : nextId \notin JobIds(workerQ[w])
       /\ nextId \notin MsgIds(mgrQ, EndMessages) /\ nextId \notin MsgIds(mgrQ, RawTypes)
       /\ nextId \notin MsgIds(mgrQ, DoneTypes) /\ nextId \notin MsgIds(mgrQ, {"file_ready"})
       /\ nextId \notin AwaitingIds /\ nextId \notin lost /\ nextId \notin Range(cleanupQ)
       /\ nextId \notin pending /\ nextId \notin groups
  <2>1. /\ EndMessages \in SUBSET JobTypes /\ RawTypes \in SUBSET JobTypes
        /\ DoneTypes \in SUBSET JobTypes /\ {"file_ready"} \in SUBSET JobTypes
    BY DEF JobTypes, EndMessages, RawTypes, DoneTypes
  <2> QED BY <1>6, <2>1, IdsIssued
<1>20. HeldInv'
  <2>1. HeldApart /\ HeldIffActive
    BY InvParts DEF HeldInv
  <2>2. \A w \in Workers : JobIds(workerQ'[w]) \ {nextId} \subseteq JobIds(workerQ[w])
    BY <1>11, <1>12
  <2>3. \A w \in Workers : DistinctJobs(workerQ'[w])
    BY <1>2, <1>11, <1>12, <2>1 DEF HeldApart
  <2>4. \A v, w \in Workers : v # w => JobIds(workerQ'[v]) \cap JobIds(workerQ'[w]) = {}
    <3>1. \A v, w \in Workers : v # w => JobIds(workerQ[v]) \cap JobIds(workerQ[w]) = {}
      BY <2>1 DEF HeldApart
    <3>2. \A w \in Workers : w # w0 => JobIds(workerQ'[w]) = JobIds(workerQ[w])
      BY <1>11
    <3>3. JobIds(workerQ'[w0]) = JobIds(workerQ[w0]) \cup {nextId} /\ w0 \in Workers
      BY <1>2, <1>12
    <3>4. \A w \in Workers : nextId \notin JobIds(workerQ[w])
      BY <1>19
    <3> HIDE DEF w0
    <3> QED BY ONLY <3>1, <3>2, <3>3, <3>4
  <2>5. HeldApart'
    <3>1. ASSUME NEW w \in Workers
          PROVE  JobIds(workerQ'[w]) \cap (MsgIds(mgrQ, EndMessages) \cup AwaitingIds \cup lost) = {}
      <4>1. JobIds(workerQ[w]) \cap (MsgIds(mgrQ, EndMessages) \cup AwaitingIds \cup lost) = {}
        BY <2>1 DEF HeldApart
      <4> QED BY <1>19, <2>2, <4>1
    <3>2. /\ DistinctJobs(Awaiting)
          /\ MsgIds(mgrQ, EndMessages) \cap (AwaitingIds \cup lost) = {}
          /\ AwaitingIds \cap lost = {}
      BY <2>1 DEF HeldApart
    <3> QED BY <1>16, <1>17, <2>3, <2>4, <3>1, <3>2 DEF HeldApart
  <2>6. QueuedIds' = QueuedIds \cup {nextId}
    BY <1>2, <1>11, <1>12 DEF QueuedIds
  <2>7. HeldIffActive'
    BY <1>4, <1>16, <1>17, <2>1, <2>6 DEF HeldIffActive
  <2> QED BY <2>5, <2>7 DEF HeldInv
<1>21. FilesInv'
  <2>1. FilesApart /\ ArchivedLast
    BY InvParts DEF FilesInv
  <2>2. \A w \in Workers : UnreportedIds(w)' \subseteq UnreportedIds(w) \cup {nextId}
    BY <1>11, <1>12, <1>13 DEF UnreportedIds, Unreported, BusyHasJob
  <2>3. RawIds' = RawIds /\ ListingIds' = ListingIds /\ ArchivingIds' = ArchivingIds
    BY <1>16, <1>17 DEF RawIds, ListingIds, ArchivingIds, RawTypes, DoneTypes
  <2>4. ArchivedIds(table') \subseteq ArchivedIds(table) /\ nextId \notin ArchivedIds(table')
    BY <1>4 DEF ArchivedIds
  <2>5. nextId \notin RawIds /\ nextId \notin ListingIds /\ nextId \notin ArchivingIds
    BY <1>19 DEF RawIds, ListingIds, ArchivingIds, RawTypes, DoneTypes
  <2>6. FilesApart'
    BY <1>16, <1>19, <2>1, <2>2, <2>3, <2>5 DEF FilesApart
  <2>7. ArchivedLast'
    BY <1>19, <2>1, <2>2, <2>3, <2>4, <2>5 DEF ArchivedLast
  <2> QED BY <2>6, <2>7 DEF FilesInv
<1>22. UsageTracked'
  BY <1>17, InvParts DEF UsageTracked
<1> QED BY <1>5, <1>14, <1>16, <1>18, <1>20, <1>21, <1>22, InvParts

\* handle_start_capture, for a request or an alert.
LEMMA StartCaptureKeeps ==
  ASSUME ManagerInv, NEW type, Receives(type), Dequeue, type \notin JobTypes,
         NEW r \in Targets, NEW c, NEW user \in Modules \cup {NoModule},
         StartCapture(r, c, user), TriggersTyped',
         UNCHANGED <<usage, endian, filterQ, cleanupQ, worker, filter, pending, groups,
                     now, alerts, lost>>
  PROVE  ManagerInv'
<1> DEFINE Answers == {"none", "waiting", "200", "404", "409", "429", "501"}
<1>1. InputsTyped
  BY InvParts DEF OthersTyped
<1>2. type \notin EndMessages
  BY DEF EndMessages, JobTypes
<1>3. Verdict(r) \in {"200", "409", "429"}
  BY DEF Verdict
<1>4. reply' \in [Conns -> Answers]
  BY <1>1, <1>3 DEF StartCapture, Reply, InputsTyped
<1>5. CASE UNCHANGED <<tableVars, workerQ>>
  <2>1. InputsTyped'
    BY <1>1, <1>4, <1>5 DEF InputsTyped, tableVars, IdsSoFar
  <2> QED BY <1>2, <1>5, <2>1, RefusedKeeps DEF tableVars
<1>6. CASE Verdict(r) = "200" /\ CreateAndDispatch(r, user)
  BY <1>4, <1>6, CreateKeeps
<1> QED BY <1>5, <1>6 DEF StartCapture

\* handle_start_capture for an HTTP request.
LEMMA HandleStartKeeps ==
  ASSUME ManagerInv, HandleStart
  PROVE  ManagerInv'
<1>1. /\ Receives("start") /\ Dequeue /\ "start" \notin JobTypes
      /\ StartCapture(Head(mgrQ).target, Head(mgrQ).conn, NoModule)
      /\ UNCHANGED <<lastTrigger, usage, endian, filterQ, cleanupQ, worker, filter, pending, groups,
                     now, alerts, lost>>
  BY DEF HandleStart, JobTypes, pdefVars, threadVars, inputVars
<1>2. Head(mgrQ) \in Message /\ Head(mgrQ).type = "start"
  <2>1. mgrQ \in Seq(Message)
    BY InvParts DEF OthersTyped, QueuesTyped
  <2> QED BY <1>1, <2>1, Handled
<1>3. Head(mgrQ).target \in Targets
  BY <1>2 DEF Message, JobTypes
<1>4. TriggersTyped'
  BY <1>1, InvParts DEF OthersTyped, TriggersTyped
<1> QED BY <1>1, <1>3, <1>4, StartCaptureKeeps

\* An alert starts a capture unless its module is cooling down.
LEMMA HandleSampleAlertKeeps ==
  ASSUME ManagerInv, HandleSampleAlert
  PROVE  ManagerInv'
<1> DEFINE m == Head(mgrQ).module
<1>1. /\ Receives("alert") /\ Dequeue /\ "alert" \notin JobTypes /\ "alert" \notin EndMessages
      /\ UNCHANGED <<usage, endian, filterQ, cleanupQ, worker, filter, pending, groups,
                     now, alerts, lost>>
  BY DEF HandleSampleAlert, JobTypes, EndMessages, pdefVars, threadVars, inputVars
<1>2. Head(mgrQ) \in Message /\ Head(mgrQ).type = "alert"
  <2>1. mgrQ \in Seq(Message)
    BY InvParts DEF OthersTyped, QueuesTyped
  <2> QED BY <1>1, <2>1, Handled
<1>3. m \in Modules
  BY <1>2 DEF Message, JobTypes
<1>4. TriggersTyped /\ InputsTyped
  BY InvParts DEF OthersTyped
<1>5. CASE UNCHANGED <<tableVars, lastTrigger, workerQ, reply>>
  <2>1. TriggersTyped'
    BY <1>4, <1>5 DEF TriggersTyped
  <2>2. InputsTyped'
    BY <1>1, <1>4, <1>5 DEF InputsTyped, tableVars, IdsSoFar
  <2> QED BY <1>1, <1>5, <2>1, <2>2, RefusedKeeps DEF tableVars
<1>6. CASE /\ PreparedTarget(m) # NoTarget
           /\ lastTrigger' = Put(lastTrigger, m, now)
           /\ StartCapture(PreparedTarget(m), NoConn, m)
  <2>1. PreparedTarget(m) \in Targets
    BY <1>3, <1>6, ManagerAssumption DEF PreparedTarget
  <2>2. TriggersTyped'
    BY <1>3, <1>4, <1>6 DEF TriggersTyped, InputsTyped, Put
  <2> QED BY <1>1, <1>3, <1>6, <2>1, <2>2, StartCaptureKeeps
<1> QED BY <1>5, <1>6 DEF HandleSampleAlert
-----------------------------------------------------------------------------
(* The workers. *)

\* The job a worker is at.
LEMMA WorkerJob ==
  ASSUME ManagerInv, NEW w \in Workers, workerQ[w] # <<>>
  PROVE  LET job == Head(workerQ[w])
         IN  /\ job \in Job /\ workerQ[w] \in Seq(Job) /\ Tail(workerQ[w]) \in Seq(Job)
             /\ JobIds(workerQ[w]) = JobIds(Tail(workerQ[w])) \cup {job.id}
             /\ job.id \notin JobIds(Tail(workerQ[w])) /\ DistinctJobs(Tail(workerQ[w]))
             /\ \A v \in Workers : v # w => job.id \notin JobIds(workerQ[v])
             /\ job.id \notin MsgIds(mgrQ, EndMessages) /\ job.id \notin RawIds
             /\ job.id \notin AwaitingIds /\ job.id \notin lost
<1>1. workerQ[w] \in Seq(Job) /\ HeldApart
  BY InvParts DEF OthersTyped, QueuesTyped, HeldInv
<1>2. Head(workerQ[w]) \in Job /\ Tail(workerQ[w]) \in Seq(Job)
  BY <1>1, TailFacts
<1>3. /\ JobIds(workerQ[w]) = JobIds(Tail(workerQ[w])) \cup {Head(workerQ[w]).id}
      /\ Head(workerQ[w]).id \notin JobIds(Tail(workerQ[w])) /\ DistinctJobs(Tail(workerQ[w]))
  BY <1>1, TailJobs DEF HeldApart
<1>4. /\ \A v \in Workers : v # w => Head(workerQ[w]).id \notin JobIds(workerQ[v])
      /\ Head(workerQ[w]).id \notin MsgIds(mgrQ, EndMessages)
      /\ Head(workerQ[w]).id \notin AwaitingIds /\ Head(workerQ[w]).id \notin lost
  BY <1>1, <1>3 DEF HeldApart
<1>5. MsgIds(mgrQ, RawTypes) \subseteq MsgIds(mgrQ, EndMessages)
  BY DEF MsgIds, RawTypes, EndMessages
<1>6. Head(workerQ[w]).id \notin RawIds
  BY <1>4, <1>5 DEF RawIds, RawTypes
<1> QED BY <1>1, <1>2, <1>3, <1>4, <1>6

\* A step of a worker: everybody else is as before.
LEMMA WorkerStepKeeps ==
  ASSUME ManagerInv, mgrQ' \in Seq(Message), HeldInv', FilesInv', StartedFirst', BusyHasJob',
         workerQ' \in [Workers -> Seq(Job)],
         worker' \in [Workers -> {"idle", "capturing", "reporting"}],
         UNCHANGED <<table, nextId, nextWorker, lastTrigger, usage, endian, filterQ, cleanupQ,
                     filter, pending, groups, now, alerts, reply, lost>>
  PROVE  ManagerInv'
<1>1. Awaiting' = Awaiting
  BY DEF Awaiting
<1>2. TableInv'
  BY InvParts, TableNow, TableKept
<1>3. OthersTyped'
  BY InvParts, SameIds DEF OthersTyped, TriggersTyped, PdefTyped, QueuesTyped, ThreadsTyped,
     InputsTyped
<1>4. UsageTracked'
  BY <1>1, InvParts DEF UsageTracked
<1> QED BY <1>2, <1>3, <1>4, InvParts

\* A worker reports the end of its job, or hands it over, and leaves it.
LEMMA LeavesJob ==
  ASSUME ManagerInv, NEW w \in Workers, workerQ[w] # <<>>,
         NEW type \in {"failed", "raw_file", "finished"},
         type = "raw_file" => worker[w] # "reporting",
         Post(type, Head(workerQ[w])),
         worker' = [worker EXCEPT ![w] = "idle"], workerQ' = [workerQ EXCEPT ![w] = Tail(@)],
         UNCHANGED <<table, nextId, nextWorker, lastTrigger, usage, endian, filterQ, cleanupQ,
                     filter, pending, groups, now, alerts, reply, lost>>
  PROVE  ManagerInv'
<1> DEFINE job == Head(workerQ[w])
           m == [type |-> type, job |-> job]
<1>1. /\ job \in Job /\ workerQ[w] \in Seq(Job) /\ Tail(workerQ[w]) \in Seq(Job)
      /\ JobIds(workerQ[w]) = JobIds(Tail(workerQ[w])) \cup {job.id}
      /\ job.id \notin JobIds(Tail(workerQ[w])) /\ DistinctJobs(Tail(workerQ[w]))
      /\ \A v \in Workers : v # w => job.id \notin JobIds(workerQ[v])
      /\ job.id \notin MsgIds(mgrQ, EndMessages)
      /\ job.id \notin AwaitingIds /\ job.id \notin lost
  BY WorkerJob
<1> HIDE DEF job
<1>2. /\ type \in JobTypes /\ type \in EndMessages /\ type \notin DoneTypes
      /\ type \notin {"file_ready"} /\ (type \in RawTypes <=> type = "raw_file")
  BY DEF JobTypes, EndMessages, DoneTypes, RawTypes
<1>3. /\ m \in Message
      /\ \A types : Of(m, types) = IF type \in types THEN {job.id} ELSE {}
  BY <1>1, <1>2, MessageOfJob
<1>4. /\ mgrQ \in Seq(Message) /\ mgrQ' = Append(mgrQ, m)
      /\ workerQ \in [Workers -> Seq(Job)]
      /\ worker \in [Workers -> {"idle", "capturing", "reporting"}]
  BY InvParts DEF OthersTyped, QueuesTyped, ThreadsTyped, Post, job
<1>5. HeldApart /\ HeldIffActive /\ FilesApart /\ StartedBefore(mgrQ, BusyIds) /\ BusyHasJob /\ FilesInv
  BY InvParts DEF HeldInv, FilesInv, StartedFirst
<1>6. /\ mgrQ' \in Seq(Message)
      /\ MsgIds(mgrQ', EndMessages) = MsgIds(mgrQ, EndMessages) \cup {job.id}
      /\ MsgIds(mgrQ', RawTypes) =
           MsgIds(mgrQ, RawTypes) \cup (IF type = "raw_file" THEN {job.id} ELSE {})
      /\ MsgIds(mgrQ', DoneTypes) = MsgIds(mgrQ, DoneTypes)
      /\ MsgIds(mgrQ', {"file_ready"}) = MsgIds(mgrQ, {"file_ready"})
      /\ DistinctMsgs(mgrQ', EndMessages) /\ DistinctMsgs(mgrQ', {"file_ready"})
  <2>1. /\ Of(m, EndMessages) = {job.id} /\ Of(m, DoneTypes) = {} /\ Of(m, {"file_ready"}) = {}
        /\ Of(m, RawTypes) = (IF type = "raw_file" THEN {job.id} ELSE {})
    BY <1>2, <1>3
  <2>2. DistinctMsgs(mgrQ, EndMessages) /\ DistinctMsgs(mgrQ, {"file_ready"})
    BY <1>5 DEF HeldApart, FilesApart
  <2> HIDE DEF m
  <2>3. /\ mgrQ' \in Seq(Message)
        /\ \A types : MsgIds(mgrQ', types) = MsgIds(mgrQ, types) \cup Of(m, types)
        /\ \A types : DistinctMsgs(mgrQ, types) /\ Of(m, types) \cap MsgIds(mgrQ, types) = {}
                        => DistinctMsgs(mgrQ', types)
    BY <1>3, <1>4, Posted
  <2>4. DistinctMsgs(mgrQ', EndMessages) /\ DistinctMsgs(mgrQ', {"file_ready"})
    BY <1>1, <2>1, <2>2, <2>3
  <2>5. /\ MsgIds(mgrQ', EndMessages) = MsgIds(mgrQ, EndMessages) \cup {job.id}
        /\ MsgIds(mgrQ', RawTypes) =
             MsgIds(mgrQ, RawTypes) \cup (IF type = "raw_file" THEN {job.id} ELSE {})
        /\ MsgIds(mgrQ', DoneTypes) = MsgIds(mgrQ, DoneTypes)
        /\ MsgIds(mgrQ', {"file_ready"}) = MsgIds(mgrQ, {"file_ready"})
    BY <2>1, <2>3
  <2> QED BY <2>3, <2>4, <2>5
<1>7. /\ workerQ'[w] = Tail(workerQ[w]) /\ \A v \in Workers : v # w => workerQ'[v] = workerQ[v]
      /\ worker'[w] = "idle" /\ \A v \in Workers : v # w => worker'[v] = worker[v]
      /\ workerQ' \in [Workers -> Seq(Job)]
      /\ worker' \in [Workers -> {"idle", "capturing", "reporting"}]
  BY <1>1, <1>4
<1>8. Awaiting' = Awaiting /\ AwaitingIds' = AwaitingIds
  BY DEF Awaiting, AwaitingIds
<1>9. BusyHasJob'
  BY <1>5, <1>7 DEF BusyHasJob
<1>10. HeldInv'
  <2>1. \A v \in Workers : JobIds(workerQ'[v]) = JobIds(workerQ[v]) \ {job.id}
    BY <1>1, <1>7
  <2>2. \A v \in Workers : DistinctJobs(workerQ'[v])
    BY <1>1, <1>5, <1>7 DEF HeldApart
  <2>3. \A u, v \in Workers : u # v => JobIds(workerQ'[u]) \cap JobIds(workerQ'[v]) = {}
    BY <1>5, <2>1 DEF HeldApart
  <2>4. \A v \in Workers :
          JobIds(workerQ'[v]) \cap (MsgIds(mgrQ', EndMessages) \cup AwaitingIds' \cup lost') = {}
    BY <1>5, <1>6, <1>8, <2>1 DEF HeldApart
  <2>5. /\ MsgIds(mgrQ', EndMessages) \cap (AwaitingIds' \cup lost') = {}
        /\ AwaitingIds' \cap lost' = {} /\ DistinctJobs(Awaiting')
    BY <1>1, <1>5, <1>6, <1>8 DEF HeldApart
  <2>6. HeldApart'
    BY <1>6, <2>2, <2>3, <2>4, <2>5 DEF HeldApart
  <2>7. QueuedIds' = QueuedIds \ {job.id} /\ job.id \in QueuedIds
    BY <1>1, <2>1 DEF QueuedIds
  <2>8. HeldIffActive'
    BY <1>5, <1>6, <1>8, <2>7 DEF HeldIffActive
  <2> QED BY <2>6, <2>8 DEF HeldInv
<1>11. StartedFirst'
  <2>1. BusyIds \subseteq BusyIds' \cup {job.id}
    BY <1>7 DEF BusyIds, job
  <2>2. m.type \in EndMessages /\ m.job.id = job.id /\ m.type # "started"
    BY <1>2 DEF EndMessages
  <2> HIDE DEF m
  <2>3. StartedBefore(Append(mgrQ, m), BusyIds')
    BY <1>3, <1>4, <1>5, <2>1, <2>2, AppendStarted
  <2> QED BY <1>4, <2>3 DEF StartedFirst
<1>12. FilesInv'
  <2>1. \A v \in Workers : UnreportedIds(v)' \subseteq UnreportedIds(v)
    BY <1>1, <1>7 DEF UnreportedIds, Unreported
  <2>2. type = "raw_file" => job.id \in UnreportedIds(w)
    BY <1>1 DEF UnreportedIds, Unreported
  <2>3. RawIds' \subseteq RawIds \cup (IF type = "raw_file" THEN {job.id} ELSE {})
    BY <1>6, <1>8 DEF RawIds, RawTypes
  <2>4. \A id \in RawIds' : id \in RawIds \/ \E v \in Workers : id \in UnreportedIds(v)
    BY <2>2, <2>3
  <2>5. ListingIds' \subseteq ListingIds
    BY <1>6 DEF ListingIds
  <2>6. ArchivingIds' \cup ArchivedIds(table') \subseteq ArchivingIds \cup ArchivedIds(table)
    BY <1>6 DEF ArchivingIds, DoneTypes
  <2>7. IsInjective(cleanupQ') /\ Range(cleanupQ') \subseteq Range(cleanupQ)
    BY <1>5 DEF FilesApart
  <2> QED BY <1>5, <1>6, <2>1, <2>4, <2>5, <2>6, <2>7, FilesShrink
<1> QED BY <1>6, <1>7, <1>9, <1>10, <1>11, <1>12, WorkerStepKeeps

\* A worker that cannot open its capture reports a failure.
LEMMA WorkerPrepareFailsKeeps ==
  ASSUME ManagerInv, NEW w \in Workers, WorkerPrepareFails(w)
  PROVE  ManagerInv'
<1>1. /\ workerQ[w] # <<>> /\ Post("failed", Head(workerQ[w])) /\ worker[w] = "idle"
      /\ workerQ' = [workerQ EXCEPT ![w] = Tail(@)] /\ worker' = worker
      /\ UNCHANGED <<table, nextId, nextWorker, lastTrigger, usage, endian, filterQ, cleanupQ,
                     filter, pending, groups, now, alerts, reply, lost>>
  BY DEF WorkerPrepareFails, tableVars, pdefVars, threadVars, inputVars
<1>2. worker' = [worker EXCEPT ![w] = "idle"]
  BY <1>1, InvParts DEF OthersTyped, ThreadsTyped
<1> QED BY <1>1, <1>2, LeavesJob

\* A worker hands its raw file to the manager and is done with the capture.
LEMMA WorkerSendsRawKeeps ==
  ASSUME ManagerInv, NEW w \in Workers, WorkerSendsRaw(w)
  PROVE  ManagerInv'
<1>1. /\ Post("raw_file", Head(workerQ[w])) /\ worker[w] = "capturing"
      /\ workerQ' = [workerQ EXCEPT ![w] = Tail(@)] /\ worker' = [worker EXCEPT ![w] = "idle"]
      /\ UNCHANGED <<table, nextId, nextWorker, lastTrigger, usage, endian, filterQ, cleanupQ,
                     filter, pending, groups, now, alerts, reply, lost>>
  BY DEF WorkerSendsRaw, tableVars, pdefVars, inputVars
<1>2. workerQ[w] # <<>>
  BY <1>1, InvParts DEF BusyHasJob
<1> QED BY <1>1, <1>2, LeavesJob

\* A worker reports the end of a capture.
LEMMA WorkerFinishesKeeps ==
  ASSUME ManagerInv, NEW w \in Workers, WorkerFinishes(w)
  PROVE  ManagerInv'
<1>1. /\ Post("finished", Head(workerQ[w])) /\ worker[w] = "reporting"
      /\ workerQ' = [workerQ EXCEPT ![w] = Tail(@)] /\ worker' = [worker EXCEPT ![w] = "idle"]
      /\ UNCHANGED <<table, nextId, nextWorker, lastTrigger, usage, endian, filterQ, cleanupQ,
                     filter, pending, groups, now, alerts, reply, lost>>
  BY DEF WorkerFinishes, tableVars, pdefVars, inputVars
<1>2. workerQ[w] # <<>>
  BY <1>1, InvParts DEF BusyHasJob
<1> QED BY <1>1, <1>2, LeavesJob

\* A worker tells that it has started, or that the file is there, and stays at
\* its job.
LEMMA StaysAtJob ==
  ASSUME ManagerInv, NEW w \in Workers, workerQ[w] # <<>>, worker[w] # "reporting",
         NEW type, NEW phase,
         \/ type = "started" /\ phase = "capturing"
         \/ type = "file_ready" /\ phase = "reporting" /\ worker[w] = "capturing",
         Post(type, Head(workerQ[w])), worker' = [worker EXCEPT ![w] = phase],
         UNCHANGED <<table, nextId, nextWorker, lastTrigger, usage, endian, workerQ, filterQ,
                     cleanupQ, filter, pending, groups, now, alerts, reply, lost>>
  PROVE  ManagerInv'
<1> DEFINE job == Head(workerQ[w])
           m == [type |-> type, job |-> job]
           listed == IF type = "file_ready" THEN {job.id} ELSE {}
<1>1. /\ job \in Job /\ workerQ[w] \in Seq(Job)
      /\ JobIds(workerQ[w]) = JobIds(Tail(workerQ[w])) \cup {job.id}
      /\ job.id \notin JobIds(Tail(workerQ[w]))
      /\ \A v \in Workers : v # w => job.id \notin JobIds(workerQ[v])
      /\ job.id \notin RawIds
  BY WorkerJob
<1> HIDE DEF job
<1>2. /\ type \in JobTypes /\ type \notin EndMessages /\ type \notin DoneTypes /\ type \notin RawTypes
  BY DEF JobTypes, EndMessages, DoneTypes, RawTypes
<1>3. /\ m \in Message
      /\ \A types : Of(m, types) = IF type \in types THEN {job.id} ELSE {}
  BY <1>1, <1>2, MessageOfJob
<1>4. /\ mgrQ \in Seq(Message) /\ mgrQ' = Append(mgrQ, m)
      /\ workerQ \in [Workers -> Seq(Job)]
      /\ worker \in [Workers -> {"idle", "capturing", "reporting"}]
  BY InvParts DEF OthersTyped, QueuesTyped, ThreadsTyped, Post, job
<1>5. HeldApart /\ HeldInv /\ FilesApart /\ ArchivedLast /\ StartedBefore(mgrQ, BusyIds) /\ BusyHasJob
  BY InvParts DEF HeldInv, FilesInv, StartedFirst
<1>6. job.id \in UnreportedIds(w)
  BY <1>1 DEF UnreportedIds, Unreported
<1>7. /\ job.id \notin ListingIds /\ job.id \notin Range(cleanupQ)
      /\ job.id \notin ArchivingIds /\ job.id \notin ArchivedIds(table)
  BY <1>5, <1>6 DEF FilesApart, ArchivedLast
<1>8. /\ mgrQ' \in Seq(Message)
      /\ MsgIds(mgrQ', EndMessages) = MsgIds(mgrQ, EndMessages)
      /\ MsgIds(mgrQ', RawTypes) = MsgIds(mgrQ, RawTypes)
      /\ MsgIds(mgrQ', DoneTypes) = MsgIds(mgrQ, DoneTypes)
      /\ ListingIds' = ListingIds \cup listed
      /\ DistinctMsgs(mgrQ', EndMessages) /\ DistinctMsgs(mgrQ', {"file_ready"})
  <2>1. /\ Of(m, EndMessages) = {} /\ Of(m, DoneTypes) = {} /\ Of(m, RawTypes) = {}
        /\ Of(m, {"file_ready"}) = listed
    BY <1>2, <1>3
  <2>2. DistinctMsgs(mgrQ, EndMessages) /\ DistinctMsgs(mgrQ, {"file_ready"})
    BY <1>5 DEF HeldApart, FilesApart
  <2>3. listed \cap MsgIds(mgrQ, {"file_ready"}) = {}
    BY <1>7 DEF ListingIds
  <2> HIDE DEF m, listed
  <2>4. /\ mgrQ' \in Seq(Message)
        /\ \A types : MsgIds(mgrQ', types) = MsgIds(mgrQ, types) \cup Of(m, types)
        /\ \A types : DistinctMsgs(mgrQ, types) /\ Of(m, types) \cap MsgIds(mgrQ, types) = {}
                        => DistinctMsgs(mgrQ', types)
    BY <1>3, <1>4, Posted
  <2>5. DistinctMsgs(mgrQ', EndMessages) /\ DistinctMsgs(mgrQ', {"file_ready"})
    BY <2>1, <2>2, <2>3, <2>4
  <2>6. /\ MsgIds(mgrQ', EndMessages) = MsgIds(mgrQ, EndMessages)
        /\ MsgIds(mgrQ', RawTypes) = MsgIds(mgrQ, RawTypes)
        /\ MsgIds(mgrQ', DoneTypes) = MsgIds(mgrQ, DoneTypes)
        /\ ListingIds' = ListingIds \cup listed
    BY <2>1, <2>4 DEF ListingIds
  <2> QED BY <2>4, <2>5, <2>6
<1>9. /\ worker'[w] = phase /\ \A v \in Workers : v # w => worker'[v] = worker[v]
      /\ worker' \in [Workers -> {"idle", "capturing", "reporting"}]
  BY <1>4
<1>10. Awaiting' = Awaiting /\ AwaitingIds' = AwaitingIds
  BY DEF Awaiting, AwaitingIds
<1>11. BusyHasJob'
  BY <1>5, <1>9 DEF BusyHasJob
<1>12. HeldInv'
  BY <1>5, <1>8, <1>10, HeldKept
<1>13. StartedFirst'
  <2>1. BusyIds \subseteq BusyIds'
    BY <1>9 DEF BusyIds
  <2>2. m.type = type /\ m.job.id = job.id
    OBVIOUS
  <2>3. job.id \in BusyIds'
    BY <1>9 DEF BusyIds, job
  <2> HIDE DEF m
  <2>4. StartedBefore(Append(mgrQ, m), BusyIds')
    BY <1>3, <1>4, <1>5, <2>1, <2>2, <2>3, AppendStarted
  <2> QED BY <1>4, <2>4 DEF StartedFirst
<1>14. FilesInv'
  <2>1. \A v \in Workers : UnreportedIds(v)' \subseteq UnreportedIds(v)
    BY <1>1, <1>9 DEF UnreportedIds, Unreported
  <2>2. \A v \in Workers : UnreportedIds(v)' \cap listed = {}
    <3>1. CASE type # "file_ready"
      BY <3>1
    <3>2. CASE type = "file_ready"
      <4>1. UnreportedIds(w)' = JobIds(Tail(workerQ[w]))
        BY <1>9, <3>2 DEF UnreportedIds, Unreported
      <4>2. \A v \in Workers : v # w => UnreportedIds(v)' \subseteq JobIds(workerQ[v])
        <5>1. ASSUME NEW v \in Workers, worker[v] = "reporting"
              PROVE  JobIds(Tail(workerQ[v])) \subseteq JobIds(workerQ[v])
          BY <1>4, <1>5, <5>1, TailJobs DEF BusyHasJob
        <5> QED BY <1>9, <5>1 DEF UnreportedIds, Unreported
      <4> QED BY <1>1, <3>2, <4>1, <4>2
    <3> QED BY <3>1, <3>2
  <2>3. RawIds' = RawIds /\ ArchivingIds' = ArchivingIds
    BY <1>8, <1>10 DEF RawIds, ArchivingIds, RawTypes, DoneTypes
  <2>4. FilesApart'
    BY <1>1, <1>5, <1>7, <1>8, <2>1, <2>2, <2>3 DEF FilesApart
  <2>5. ArchivedLast'
    BY <1>5, <1>7, <1>8, <2>1, <2>3 DEF ArchivedLast
  <2> QED BY <2>4, <2>5 DEF FilesInv
<1> QED BY <1>4, <1>8, <1>9, <1>11, <1>12, <1>13, <1>14, WorkerStepKeeps

\* A worker reports that it has started, and stays at its job.
LEMMA WorkerStartsKeeps ==
  ASSUME ManagerInv, NEW w \in Workers, WorkerStarts(w)
  PROVE  ManagerInv'
<1>1. /\ workerQ[w] # <<>> /\ worker[w] # "reporting" /\ Post("started", Head(workerQ[w]))
      /\ worker' = [worker EXCEPT ![w] = "capturing"]
      /\ UNCHANGED <<table, nextId, nextWorker, lastTrigger, usage, endian, workerQ, filterQ,
                     cleanupQ, filter, pending, groups, now, alerts, reply, lost>>
  BY DEF WorkerStarts, tableVars, pdefVars, inputVars
<1> QED BY <1>1, StaysAtJob

\* A worker reports its file before it reports the end.
LEMMA WorkerSendsFileKeeps ==
  ASSUME ManagerInv, NEW w \in Workers, WorkerSendsFile(w)
  PROVE  ManagerInv'
<1>1. /\ worker[w] = "capturing" /\ Post("file_ready", Head(workerQ[w]))
      /\ worker' = [worker EXCEPT ![w] = "reporting"]
      /\ UNCHANGED <<table, nextId, nextWorker, lastTrigger, usage, endian, workerQ, filterQ,
                     cleanupQ, filter, pending, groups, now, alerts, reply, lost>>
  BY DEF WorkerSendsFile, tableVars, pdefVars, inputVars
<1>2. workerQ[w] # <<>>
  BY <1>1, InvParts DEF BusyHasJob
<1> QED BY <1>1, <1>2, StaysAtJob
-----------------------------------------------------------------------------
(* The filter thread. *)

\* The job the filter thread is to answer next.
LEMMA FilterJob ==
  ASSUME ManagerInv, filter.phase # "sent", filterQ # <<>>
  PROVE  LET job == Head(filterQ)
         IN  /\ job \in Job /\ filterQ \in Seq(Job) /\ Tail(filterQ) \in Seq(Job)
             /\ Awaiting = filterQ /\ Range(filterQ) = Range(Tail(filterQ)) \cup {job}
             /\ AwaitingIds = JobIds(Tail(filterQ)) \cup {job.id}
             /\ job.id \notin JobIds(Tail(filterQ)) /\ DistinctJobs(Tail(filterQ))
             /\ \A w \in Workers : job.id \notin JobIds(workerQ[w])
             /\ job.id \notin MsgIds(mgrQ, EndMessages) /\ job.id \notin lost
<1>1. filterQ \in Seq(Job) /\ Awaiting = filterQ
  BY AwaitingFacts DEF Awaiting
<1>2. HeldApart
  BY InvParts DEF HeldInv
<1>3. /\ Head(filterQ) \in Job /\ Tail(filterQ) \in Seq(Job)
      /\ Range(filterQ) = Range(Tail(filterQ)) \cup {Head(filterQ)}
  BY <1>1, TailFacts
<1>4. DistinctJobs(filterQ)
  BY <1>1, <1>2 DEF HeldApart
<1>5. /\ AwaitingIds = JobIds(Tail(filterQ)) \cup {Head(filterQ).id}
      /\ Head(filterQ).id \notin JobIds(Tail(filterQ)) /\ DistinctJobs(Tail(filterQ))
  BY <1>1, <1>4, TailJobs DEF AwaitingIds
<1>6. /\ \A w \in Workers : Head(filterQ).id \notin JobIds(workerQ[w])
      /\ Head(filterQ).id \notin MsgIds(mgrQ, EndMessages) /\ Head(filterQ).id \notin lost
  BY <1>2, <1>5 DEF HeldApart
<1> QED BY <1>1, <1>3, <1>5, <1>6

\* A step of the filter thread: everybody else is as before.
LEMMA FilterStepKeeps ==
  ASSUME ManagerInv, mgrQ' \in Seq(Message), HeldInv', FilesInv', StartedFirst',
         Range(Awaiting') \subseteq Range(Awaiting),
         filterQ' \in Seq(Job), lost' \in SUBSET IdsSoFar,
         filter' \in [phase : {"idle", "filtering", "sent"}, auto : BOOLEAN],
         filter'.phase # "idle" => filterQ' # <<>>,
         UNCHANGED <<table, nextId, nextWorker, lastTrigger, usage, endian, workerQ, cleanupQ,
                     worker, pending, groups, now, alerts, reply>>
  PROVE  ManagerInv'
<1>1. TableInv'
  BY InvParts, TableNow, TableKept
<1>2. OthersTyped'
  BY InvParts, SameIds DEF OthersTyped, TriggersTyped, PdefTyped, QueuesTyped, ThreadsTyped,
     InputsTyped
<1>3. UsageTracked'
  BY InvParts DEF UsageTracked
<1>4. BusyHasJob'
  BY InvParts DEF BusyHasJob
<1> QED BY <1>1, <1>2, <1>3, <1>4, InvParts

\* The filter thread drops a file it cannot open or parse: the capture is lost.
LEMMA FilterGivesUpKeeps ==
  ASSUME ManagerInv, FilterGivesUp
  PROVE  ManagerInv'
<1> DEFINE job == Head(filterQ)
<1>1. /\ filter.phase = "idle" /\ filterQ # <<>> /\ lost' = lost \cup {job.id}
      /\ filterQ' = Tail(filterQ)
      /\ UNCHANGED <<table, nextId, nextWorker, lastTrigger, usage, endian, mgrQ, workerQ, cleanupQ,
                     worker, filter, pending, groups, now, alerts, reply>>
  BY DEF FilterGivesUp, tableVars, pdefVars, threadVars, inputVars
<1>2. /\ job \in Job /\ Tail(filterQ) \in Seq(Job)
      /\ Awaiting = filterQ /\ Range(filterQ) = Range(Tail(filterQ)) \cup {job}
      /\ AwaitingIds = JobIds(Tail(filterQ)) \cup {job.id}
      /\ job.id \notin JobIds(Tail(filterQ)) /\ DistinctJobs(Tail(filterQ))
      /\ \A w \in Workers : job.id \notin JobIds(workerQ[w])
      /\ job.id \notin MsgIds(mgrQ, EndMessages) /\ job.id \notin lost
  BY <1>1, FilterJob
<1> HIDE DEF job
<1>3. Awaiting' = Tail(filterQ) /\ AwaitingIds' = AwaitingIds \ {job.id} /\ BusyIds' = BusyIds
  BY <1>1, <1>2 DEF Awaiting, AwaitingIds, BusyIds
<1>4. HeldApart /\ HeldIffActive /\ FilesInv /\ StartedFirst /\ mgrQ \in Seq(Message)
  BY InvParts DEF HeldInv, OthersTyped, QueuesTyped
<1>5. HeldInv'
  <2>1. AwaitingIds' \cup lost' = AwaitingIds \cup lost /\ AwaitingIds' \cap lost' = {}
    BY <1>1, <1>2, <1>3, <1>4 DEF HeldApart
  <2>2. HeldApart'
    BY <1>1, <1>2, <1>3, <1>4, <2>1 DEF HeldApart
  <2>3. QueuedIds' = QueuedIds
    BY <1>1 DEF QueuedIds
  <2>4. HeldIffActive'
    BY <1>1, <1>4, <2>1, <2>3 DEF HeldIffActive
  <2> QED BY <2>2, <2>4 DEF HeldInv
<1>6. FilesInv'
  <2>1. \A w \in Workers : UnreportedIds(w)' \subseteq UnreportedIds(w)
    BY <1>1 DEF UnreportedIds, Unreported
  <2>2. RawIds' \subseteq RawIds /\ ListingIds' = ListingIds
    BY <1>1, <1>3 DEF RawIds, ListingIds
  <2>3. ArchivingIds' \cup ArchivedIds(table') \subseteq ArchivingIds \cup ArchivedIds(table)
    BY <1>1 DEF ArchivingIds
  <2>4. /\ DistinctMsgs(mgrQ', {"file_ready"}) /\ IsInjective(cleanupQ')
        /\ Range(cleanupQ') \subseteq Range(cleanupQ)
    BY <1>1, <1>4 DEF FilesInv, FilesApart
  <2> QED BY <1>4, <2>1, <2>2, <2>3, <2>4, FilesShrink
<1>7. StartedFirst'
  BY <1>1, <1>3, <1>4 DEF StartedFirst
<1>8. /\ filter' \in [phase : {"idle", "filtering", "sent"}, auto : BOOLEAN]
      /\ lost' \in SUBSET IdsSoFar
  BY <1>1, <1>2, InvParts DEF OthersTyped, ThreadsTyped, InputsTyped, Job
<1>9. Range(Awaiting') \subseteq Range(Awaiting) /\ filterQ' \in Seq(Job) /\ filter'.phase = "idle"
  BY <1>1, <1>2, <1>3
<1> QED BY <1>1, <1>4, <1>5, <1>6, <1>7, <1>8, <1>9, FilterStepKeeps

\* A step of the filter thread that answers no job and posts nothing.
LEMMA FilterQuietKeeps ==
  ASSUME ManagerInv, Awaiting' = Awaiting, filterQ' \in Seq(Job),
         filter' \in [phase : {"idle", "filtering", "sent"}, auto : BOOLEAN],
         filter'.phase # "idle" => filterQ' # <<>>,
         UNCHANGED <<table, nextId, nextWorker, lastTrigger, usage, endian, mgrQ, workerQ, cleanupQ,
                     worker, pending, groups, now, alerts, reply, lost>>
  PROVE  ManagerInv'
<1>1. HeldInv /\ FilesInv /\ StartedFirst /\ mgrQ \in Seq(Message) /\ lost \in SUBSET IdsSoFar
  BY InvParts DEF OthersTyped, QueuesTyped, InputsTyped
<1>2. HeldInv'
  BY <1>1, HeldKept DEF HeldInv, HeldApart
<1>3. FilesInv'
  BY <1>1, FilesKept
<1>4. StartedFirst'
  BY <1>1 DEF StartedFirst, BusyIds
<1> QED BY <1>1, <1>2, <1>3, <1>4, FilterStepKeeps

\* The filter thread begins with a file, which stays at the head of its queue.
LEMMA FilterBeginsKeeps ==
  ASSUME ManagerInv, FilterBegins
  PROVE  ManagerInv'
<1>1. /\ filter.phase = "idle" /\ filterQ # <<>>
      /\ UNCHANGED <<table, nextId, nextWorker, lastTrigger, usage, endian, mgrQ, workerQ, filterQ,
                     cleanupQ, worker, pending, groups, now, alerts, reply, lost>>
  BY DEF FilterBegins, tableVars, pdefVars, inputVars
<1>2. PICK auto \in ParsesAsAuto(Head(filterQ)) : filter' = [phase |-> "filtering", auto |-> auto]
  BY DEF FilterBegins
<1>3. auto \in BOOLEAN
  BY Zenon DEF ParsesAsAuto
<1>4. filter' \in [phase : {"idle", "filtering", "sent"}, auto : BOOLEAN] /\ filter'.phase = "filtering"
  BY <1>2, <1>3
<1>5. Awaiting' = Awaiting /\ filterQ \in Seq(Job)
  BY <1>1, <1>4, AwaitingFacts DEF Awaiting
<1> QED BY <1>1, <1>4, <1>5, FilterQuietKeeps

\* The filter thread is done with a file of known endianness.
LEMMA FilterEndsKeeps ==
  ASSUME ManagerInv, FilterEnds
  PROVE  ManagerInv'
<1>1. /\ filter.phase = "sent" /\ filter' = Idle /\ filterQ' = Tail(filterQ)
      /\ UNCHANGED <<table, nextId, nextWorker, lastTrigger, usage, endian, mgrQ, workerQ,
                     cleanupQ, worker, pending, groups, now, alerts, reply, lost>>
  BY DEF FilterEnds, tableVars, pdefVars, inputVars
<1>2. filter' \in [phase : {"idle", "filtering", "sent"}, auto : BOOLEAN] /\ filter'.phase = "idle"
  BY <1>1 DEF Idle
<1>3. Awaiting' = Awaiting /\ Awaiting \in Seq(Job) /\ Awaiting = Tail(filterQ)
  BY <1>1, <1>2, AwaitingFacts DEF Awaiting
<1> QED BY <1>1, <1>2, <1>3, FilterQuietKeeps

\* The filter thread reports the endianness it has detected.
LEMMA FilterSendsEndianKeeps ==
  ASSUME ManagerInv, NEW e \in Endians, FilterSendsEndian(e)
  PROVE  ManagerInv'
<1> DEFINE m == [type |-> "endian", pdef |-> Head(filterQ).pdef, endian |-> e]
<1>1. /\ filter.phase = "sent" /\ filter' = Idle /\ filterQ' = Tail(filterQ)
      /\ Head(filterQ).pdef # NoFile /\ mgrQ' = Append(mgrQ, m)
      /\ UNCHANGED <<table, nextId, nextWorker, lastTrigger, usage, endian, workerQ,
                     cleanupQ, worker, pending, groups, now, alerts, reply, lost>>
  BY DEF FilterSendsEndian, tableVars, pdefVars, inputVars
<1>2. filter' \in [phase : {"idle", "filtering", "sent"}, auto : BOOLEAN] /\ filter'.phase = "idle"
  BY <1>1 DEF Idle
<1>3. Awaiting' = Awaiting /\ Awaiting \in Seq(Job) /\ Awaiting = Tail(filterQ)
  BY <1>1, <1>2, AwaitingFacts DEF Awaiting
<1>4. Head(filterQ) \in Job
  BY <1>1, AwaitingFacts, TailFacts
<1>5. m \in Message /\ m.type \notin JobTypes
  BY <1>1, <1>4 DEF Message, Job, JobTypes
<1> HIDE DEF m
<1>6. mgrQ' \in Seq(Message) /\ HeldInv' /\ StartedFirst' /\ FilesInv'
  BY <1>1, <1>3, <1>5, InertPosted
<1>7. lost' \in SUBSET IdsSoFar
  BY <1>1, InvParts DEF OthersTyped, InputsTyped
<1> QED BY <1>1, <1>2, <1>3, <1>6, <1>7, FilterStepKeeps

\* The filtered file is sent: the duty to report goes from the filter thread to
\* the message.
LEMMA FilterSendsFileKeeps ==
  ASSUME ManagerInv, FilterSendsFile
  PROVE  ManagerInv'
<1> DEFINE job == Head(filterQ)
           m == [type |-> "filtered", job |-> job]
<1>1. /\ filter.phase = "filtering" /\ Post("filtered", job)
      /\ filter' = [filter EXCEPT !.phase = "sent"]
      /\ UNCHANGED <<table, nextId, nextWorker, lastTrigger, usage, endian, workerQ, filterQ, cleanupQ,
                     worker, pending, groups, now, alerts, reply, lost>>
  BY DEF FilterSendsFile, tableVars, pdefVars, inputVars
<1>2. filterQ # <<>>
  BY <1>1, AwaitingFacts
<1>3. /\ job \in Job /\ filterQ \in Seq(Job)
      /\ Awaiting = filterQ /\ Range(filterQ) = Range(Tail(filterQ)) \cup {job}
      /\ AwaitingIds = JobIds(Tail(filterQ)) \cup {job.id}
      /\ job.id \notin JobIds(Tail(filterQ)) /\ DistinctJobs(Tail(filterQ))
      /\ \A w \in Workers : job.id \notin JobIds(workerQ[w])
      /\ job.id \notin MsgIds(mgrQ, EndMessages) /\ job.id \notin lost
  BY <1>1, <1>2, FilterJob
<1> HIDE DEF job
<1>4. filter' \in [phase : {"idle", "filtering", "sent"}, auto : BOOLEAN] /\ filter'.phase = "sent"
  BY <1>1, InvParts DEF OthersTyped, ThreadsTyped
<1>5. Awaiting' = Tail(filterQ) /\ AwaitingIds' = AwaitingIds \ {job.id} /\ BusyIds' = BusyIds
  BY <1>1, <1>3, <1>4 DEF Awaiting, AwaitingIds, BusyIds
<1>6. /\ "filtered" \in JobTypes /\ "filtered" \in EndMessages /\ "filtered" \in RawTypes
      /\ "filtered" \notin DoneTypes /\ "filtered" \notin {"file_ready"} /\ "filtered" # "started"
  BY DEF JobTypes, EndMessages, DoneTypes, RawTypes
<1>7. /\ m \in Message /\ m.type = "filtered"
      /\ Of(m, EndMessages) = {job.id} /\ Of(m, RawTypes) = {job.id} /\ Of(m, DoneTypes) = {}
      /\ Of(m, {"file_ready"}) = {}
  <2>1. m \in Message /\ \A types : Of(m, types) = IF "filtered" \in types THEN {job.id} ELSE {}
    BY <1>3, <1>6, MessageOfJob
  <2>2. m.type = "filtered"
    OBVIOUS
  <2> HIDE DEF m
  <2> QED BY <1>6, <2>1, <2>2
<1>8. mgrQ' = Append(mgrQ, m)
  BY <1>1 DEF Post
<1> HIDE DEF m
<1>9. HeldApart /\ HeldIffActive /\ FilesInv /\ FilesApart /\ StartedFirst /\ mgrQ \in Seq(Message)
  BY InvParts DEF HeldInv, OthersTyped, QueuesTyped, FilesInv
<1>10. /\ mgrQ' \in Seq(Message)
       /\ MsgIds(mgrQ', EndMessages) = MsgIds(mgrQ, EndMessages) \cup {job.id}
       /\ MsgIds(mgrQ', RawTypes) = MsgIds(mgrQ, RawTypes) \cup {job.id}
       /\ MsgIds(mgrQ', DoneTypes) = MsgIds(mgrQ, DoneTypes)
       /\ MsgIds(mgrQ', {"file_ready"}) = MsgIds(mgrQ, {"file_ready"})
       /\ DistinctMsgs(mgrQ', EndMessages) /\ DistinctMsgs(mgrQ', {"file_ready"})
  <2>1. DistinctMsgs(mgrQ, EndMessages) /\ DistinctMsgs(mgrQ, {"file_ready"})
    BY <1>9 DEF HeldApart, FilesApart
  <2>2. /\ mgrQ' \in Seq(Message)
        /\ \A types : MsgIds(mgrQ', types) = MsgIds(mgrQ, types) \cup Of(m, types)
        /\ \A types : DistinctMsgs(mgrQ, types) /\ Of(m, types) \cap MsgIds(mgrQ, types) = {}
                        => DistinctMsgs(mgrQ', types)
    BY <1>7, <1>8, <1>9, Posted
  <2>3. DistinctMsgs(mgrQ', EndMessages) /\ DistinctMsgs(mgrQ', {"file_ready"})
    BY <1>3, <1>7, <2>1, <2>2
  <2>4. /\ MsgIds(mgrQ', EndMessages) = MsgIds(mgrQ, EndMessages) \cup {job.id}
        /\ MsgIds(mgrQ', RawTypes) = MsgIds(mgrQ, RawTypes) \cup {job.id}
        /\ MsgIds(mgrQ', DoneTypes) = MsgIds(mgrQ, DoneTypes)
        /\ MsgIds(mgrQ', {"file_ready"}) = MsgIds(mgrQ, {"file_ready"})
    BY <1>7, <2>2
  <2> QED BY <2>2, <2>3, <2>4
<1>11. HeldInv'
  <2> DEFINE M == MsgIds(mgrQ, EndMessages)
  <2>1. /\ M' \cup AwaitingIds' = M \cup AwaitingIds /\ M' \cap (AwaitingIds' \cup lost') = {}
        /\ AwaitingIds' \cap lost' = {}
    BY <1>1, <1>3, <1>5, <1>9, <1>10 DEF HeldApart
  <2>2. /\ \A w \in Workers : JobIds(workerQ'[w]) \cap (M' \cup AwaitingIds' \cup lost') = {}
        /\ \A v, w \in Workers : v # w => JobIds(workerQ'[v]) \cap JobIds(workerQ'[w]) = {}
        /\ \A w \in Workers : DistinctJobs(workerQ'[w])
    BY <1>1, <1>9, <2>1 DEF HeldApart
  <2>3. HeldApart'
    BY <1>3, <1>5, <1>10, <2>1, <2>2 DEF HeldApart
  <2>4. QueuedIds' = QueuedIds
    BY <1>1 DEF QueuedIds
  <2>5. HeldIffActive'
    BY <1>1, <1>9, <2>1, <2>4 DEF HeldIffActive
  <2> QED BY <2>3, <2>5 DEF HeldInv
<1>12. FilesInv'
  <2>1. \A w \in Workers : UnreportedIds(w)' \subseteq UnreportedIds(w)
    BY <1>1 DEF UnreportedIds, Unreported
  <2>2. RawIds' \subseteq RawIds
    BY <1>3, <1>5, <1>10 DEF RawIds, RawTypes
  <2>3. ListingIds' \subseteq ListingIds
    BY <1>10 DEF ListingIds
  <2>4. ArchivingIds' \cup ArchivedIds(table') \subseteq ArchivingIds \cup ArchivedIds(table)
    BY <1>1, <1>10 DEF ArchivingIds, DoneTypes
  <2>5. IsInjective(cleanupQ') /\ Range(cleanupQ') \subseteq Range(cleanupQ)
    BY <1>1, <1>9 DEF FilesApart
  <2> QED BY <1>9, <1>10, <2>1, <2>2, <2>3, <2>4, <2>5, FilesShrink
<1>13. StartedFirst'
  <2>1. StartedBefore(Append(mgrQ, m), BusyIds)
    BY <1>6, <1>7, <1>9, AppendStarted DEF StartedFirst
  <2> QED BY <1>5, <1>8, <2>1 DEF StartedFirst
<1>14. lost' \in SUBSET IdsSoFar /\ Range(Awaiting') \subseteq Range(Awaiting)
  BY <1>1, <1>3, <1>5, InvParts DEF OthersTyped, InputsTyped
<1> QED BY <1>1, <1>2, <1>3, <1>4, <1>10, <1>11, <1>12, <1>13, <1>14, FilterStepKeeps
-----------------------------------------------------------------------------
(* The cleanup thread. *)

\* A step of the cleanup thread that only it and its own files are about.
LEMMA CleanupStepKeeps ==
  ASSUME ManagerInv, mgrQ' \in Seq(Message), HeldInv', FilesInv', StartedFirst',
         TableOK(table', nextId), cleanupQ' \in Seq(IdsSoFar),
         pending' \in SUBSET IdsSoFar, groups' \in SUBSET IdsSoFar,
         UNCHANGED <<nextId, nextWorker, lastTrigger, usage, endian, workerQ, filterQ, worker, filter,
                     now, alerts, reply, lost>>
  PROVE  ManagerInv'
<1>1. TableInv'
  BY InvParts, TableKept
<1>2. OthersTyped'
  BY InvParts, SameIds DEF OthersTyped, TriggersTyped, PdefTyped, QueuesTyped, ThreadsTyped,
     InputsTyped
<1>3. UsageTracked' /\ BusyHasJob'
  BY InvParts DEF UsageTracked, BusyHasJob, Awaiting
<1> QED BY <1>1, <1>2, <1>3, InvParts

\* enqueue_files: the capture goes from the channel to the waiting files.
LEMMA CleanupEnqueueKeeps ==
  ASSUME ManagerInv, CleanupEnqueue
  PROVE  ManagerInv'
<1> DEFINE id == Head(cleanupQ)
<1>1. /\ cleanupQ # <<>> /\ pending' = pending \cup {id} /\ table' = SetFile(table, id, "ready")
      /\ cleanupQ' = Tail(cleanupQ)
      /\ UNCHANGED <<nextId, nextWorker, lastTrigger, usage, endian, mgrQ, workerQ, filterQ,
                     worker, filter, groups, now, alerts, reply, lost>>
  BY DEF CleanupEnqueue, pdefVars, inputVars
<1>2. /\ cleanupQ \in Seq(IdsSoFar) /\ mgrQ \in Seq(Message)
      /\ pending \in SUBSET IdsSoFar /\ groups \in SUBSET IdsSoFar
      /\ HeldInv /\ HeldApart /\ FilesApart /\ ArchivedLast /\ StartedFirst
  BY InvParts DEF OthersTyped, QueuesTyped, ThreadsTyped, HeldInv, FilesInv
<1>3. /\ Tail(cleanupQ) \in Seq(IdsSoFar) /\ id \in IdsSoFar
      /\ Range(cleanupQ) = Range(Tail(cleanupQ)) \cup {id}
  BY <1>1, <1>2, TailFacts
<1>4. IsInjective(Tail(cleanupQ)) /\ id \notin Range(Tail(cleanupQ))
  BY <1>1, <1>2, TailIds DEF FilesApart
<1> HIDE DEF id
<1>5. /\ TableOK(table', nextId) /\ Ids(table') = Ids(table)
      /\ ActiveIds(table') = ActiveIds(table)
      /\ \A j \in Ids(table) : table'.slots[j].file = IF j = id THEN "ready" ELSE table.slots[j].file
  BY <1>1, InvParts, TableNow, SetFileOK
<1>6. ArchivedIds(table') \subseteq ArchivedIds(table)
  BY <1>5 DEF ArchivedIds
<1>7. Awaiting' = Awaiting /\ BusyIds' = BusyIds
  BY <1>1 DEF Awaiting, BusyIds
<1>8. HeldInv'
  BY <1>1, <1>2, <1>5, <1>7, HeldKept DEF HeldApart
<1>9. FilesInv'
  <2>1. /\ \A w \in Workers : UnreportedIds(w)' = UnreportedIds(w)
        /\ RawIds' = RawIds /\ ListingIds' = ListingIds
        /\ ArchivingIds' = ArchivingIds \cup {id}
    BY <1>1, <1>7 DEF UnreportedIds, Unreported, RawIds, AwaitingIds, ListingIds, ArchivingIds
  <2>2. Range(cleanupQ') \subseteq Range(cleanupQ) /\ id \notin Range(cleanupQ')
    BY <1>1, <1>3, <1>4
  <2>3. FilesApart'
    BY <1>1, <1>2, <1>4, <2>1, <2>2 DEF FilesApart
  <2>4. /\ \A w \in Workers : id \notin UnreportedIds(w)
        /\ id \notin RawIds /\ id \notin ListingIds
    BY <1>2, <1>3 DEF FilesApart
  <2>5. ArchivedLast'
    BY <1>2, <1>6, <2>1, <2>2, <2>4 DEF ArchivedLast
  <2> QED BY <2>3, <2>5 DEF FilesInv
<1>10. StartedFirst'
  BY <1>1, <1>2, <1>7 DEF StartedFirst
<1> QED BY <1>1, <1>2, <1>3, <1>5, <1>8, <1>9, <1>10, CleanupStepKeeps

\* The cleanup timer takes the files that wait.
LEMMA CleanupTimerKeeps ==
  ASSUME ManagerInv, CleanupTimer
  PROVE  ManagerInv'
<1>1. /\ groups = {} /\ groups' = pending /\ pending' = {}
      /\ UNCHANGED <<table, nextId, nextWorker, lastTrigger, usage, endian, mgrQ, workerQ, filterQ,
                     cleanupQ, worker, filter, now, alerts, reply, lost>>
  BY DEF CleanupTimer, tableVars, pdefVars, inputVars
<1>2. /\ cleanupQ \in Seq(IdsSoFar) /\ mgrQ \in Seq(Message) /\ pending \in SUBSET IdsSoFar
      /\ HeldInv /\ HeldApart /\ FilesInv /\ FilesApart /\ StartedFirst
  BY InvParts DEF OthersTyped, QueuesTyped, ThreadsTyped, HeldInv, FilesInv
<1>3. Awaiting' = Awaiting /\ BusyIds' = BusyIds
  BY <1>1 DEF Awaiting, BusyIds
<1>4. HeldInv'
  BY <1>1, <1>2, <1>3, HeldKept DEF HeldApart
<1>5. FilesInv'
  <2>1. /\ \A w \in Workers : UnreportedIds(w)' \subseteq UnreportedIds(w)
        /\ RawIds' \subseteq RawIds /\ ListingIds' \subseteq ListingIds
    BY <1>1, <1>3 DEF UnreportedIds, Unreported, RawIds, AwaitingIds, ListingIds
  <2>2. ArchivingIds' \cup ArchivedIds(table') \subseteq ArchivingIds \cup ArchivedIds(table)
    BY <1>1 DEF ArchivingIds
  <2>3. DistinctMsgs(mgrQ', {"file_ready"}) /\ IsInjective(cleanupQ')
    BY <1>1, <1>2 DEF FilesApart
  <2> QED BY <1>1, <1>2, <2>1, <2>2, <2>3, FilesShrink
<1>6. StartedFirst'
  BY <1>1, <1>2, <1>3 DEF StartedFirst
<1>7. TableOK(table', nextId)
  BY <1>1, InvParts, TableNow
<1> QED BY <1>1, <1>2, <1>4, <1>5, <1>6, <1>7, CleanupStepKeeps

\* compress_batch and its report: the capture stays with the archiver.
LEMMA CleanupGroupKeeps ==
  ASSUME ManagerInv, NEW id \in groups, NEW result \in {"compress_done", "compress_failed"},
         CleanupGroup(id, result)
  PROVE  ManagerInv'
<1> DEFINE job == [id |-> id, pdef |-> NoFile, inline |-> FALSE]
           m == [type |-> result, job |-> job]
<1>1. /\ mgrQ' = Append(mgrQ, m) /\ groups' = groups \ {id}
      /\ UNCHANGED <<table, nextId, nextWorker, lastTrigger, usage, endian, workerQ, filterQ,
                     cleanupQ, worker, filter, pending, now, alerts, reply, lost>>
  BY DEF CleanupGroup, Post, tableVars, pdefVars, inputVars
<1>2. /\ cleanupQ \in Seq(IdsSoFar) /\ mgrQ \in Seq(Message)
      /\ pending \in SUBSET IdsSoFar /\ groups \in SUBSET IdsSoFar
      /\ HeldInv /\ HeldApart /\ FilesInv /\ FilesApart /\ StartedFirst
  BY InvParts DEF OthersTyped, QueuesTyped, ThreadsTyped, HeldInv, FilesInv
<1>3. job \in Job /\ job.id = id
  BY <1>2 DEF Job
<1> HIDE DEF job
<1>4. /\ result \in JobTypes /\ result \in DoneTypes /\ result \notin EndMessages
      /\ result \notin RawTypes /\ result \notin {"file_ready"} /\ result # "started"
  BY DEF JobTypes, DoneTypes, EndMessages, RawTypes
<1>5. /\ m \in Message /\ m.type = result
      /\ \A types : Of(m, types) = IF result \in types THEN {id} ELSE {}
  BY <1>3, <1>4, MessageOfJob
<1> HIDE DEF m
<1>6. /\ mgrQ' \in Seq(Message)
      /\ MsgIds(mgrQ', EndMessages) = MsgIds(mgrQ, EndMessages)
      /\ MsgIds(mgrQ', RawTypes) = MsgIds(mgrQ, RawTypes)
      /\ MsgIds(mgrQ', DoneTypes) = MsgIds(mgrQ, DoneTypes) \cup {id}
      /\ MsgIds(mgrQ', {"file_ready"}) = MsgIds(mgrQ, {"file_ready"})
      /\ DistinctMsgs(mgrQ', EndMessages) /\ DistinctMsgs(mgrQ', {"file_ready"})
  <2>1. /\ Of(m, EndMessages) = {} /\ Of(m, RawTypes) = {} /\ Of(m, DoneTypes) = {id}
        /\ Of(m, {"file_ready"}) = {}
    BY <1>4, <1>5
  <2>2. /\ mgrQ' \in Seq(Message)
        /\ \A types : MsgIds(mgrQ', types) = MsgIds(mgrQ, types) \cup Of(m, types)
        /\ \A types : DistinctMsgs(mgrQ, types) /\ Of(m, types) \cap MsgIds(mgrQ, types) = {}
                        => DistinctMsgs(mgrQ', types)
    BY <1>1, <1>2, <1>5, Posted
  <2>3. DistinctMsgs(mgrQ, EndMessages) /\ DistinctMsgs(mgrQ, {"file_ready"})
    BY <1>2 DEF HeldApart, FilesApart
  <2>4. DistinctMsgs(mgrQ', EndMessages) /\ DistinctMsgs(mgrQ', {"file_ready"})
    BY <2>1, <2>2, <2>3
  <2>5. /\ MsgIds(mgrQ', EndMessages) = MsgIds(mgrQ, EndMessages)
        /\ MsgIds(mgrQ', RawTypes) = MsgIds(mgrQ, RawTypes)
        /\ MsgIds(mgrQ', DoneTypes) = MsgIds(mgrQ, DoneTypes) \cup {id}
        /\ MsgIds(mgrQ', {"file_ready"}) = MsgIds(mgrQ, {"file_ready"})
    BY <2>1, <2>2
  <2> QED BY <2>2, <2>4, <2>5
<1>7. Awaiting' = Awaiting /\ BusyIds' = BusyIds
  BY <1>1 DEF Awaiting, BusyIds
<1>8. HeldInv'
  BY <1>1, <1>2, <1>6, <1>7, HeldKept
<1>9. FilesInv'
  <2>1. /\ \A w \in Workers : UnreportedIds(w)' \subseteq UnreportedIds(w)
        /\ RawIds' \subseteq RawIds /\ ListingIds' \subseteq ListingIds
    BY <1>1, <1>6, <1>7 DEF UnreportedIds, Unreported, RawIds, AwaitingIds, ListingIds, RawTypes
  <2>2. ArchivingIds' \cup ArchivedIds(table') \subseteq ArchivingIds \cup ArchivedIds(table)
    BY <1>1, <1>6 DEF ArchivingIds, DoneTypes
  <2>3. IsInjective(cleanupQ')
    BY <1>1, <1>2 DEF FilesApart
  <2> QED BY <1>1, <1>2, <1>6, <2>1, <2>2, <2>3, FilesShrink
<1>10. StartedFirst'
  <2>1. StartedBefore(Append(mgrQ, m), BusyIds)
    BY <1>2, <1>4, <1>5, AppendStarted DEF StartedFirst
  <2> QED BY <1>1, <1>7, <2>1 DEF StartedFirst
<1>11. TableOK(table', nextId) /\ pending' \in SUBSET IdsSoFar /\ groups' \in SUBSET IdsSoFar
  BY <1>1, <1>2, InvParts, TableNow
<1> QED BY <1>1, <1>2, <1>6, <1>8, <1>9, <1>10, <1>11, CleanupStepKeeps
-----------------------------------------------------------------------------
(* The invariant. *)

\* The empty table is in order.
LEMMA EmptyTableOK ==
  ASSUME MaxConcurrent \in Nat, NEW n
  PROVE  TableOK(EmptyTable, n) /\ Ids(EmptyTable) = {} /\ ActiveIds(EmptyTable) = {}
<1>1. Ids(EmptyTable) = {}
  BY DEF Ids, EmptyTable, EmptyMap
<1>2. ActiveIds(EmptyTable) = {}
  BY <1>1 DEF ActiveIds
<1>3. Cardinality({}) = 0
  BY FS_EmptySet
<1> QED BY <1>1, <1>2, <1>3, EmptyTableExact DEF TableOK

\* Nothing is queued, held or listed at first.
LEMMA InitInv ==
  ASSUME Init
  PROVE  ManagerInv
<1>1. /\ table = EmptyTable /\ nextId = FirstId /\ nextWorker = 0 /\ lastTrigger = EmptyMap
      /\ endian = InitialEndian /\ mgrQ = <<>> /\ filterQ = <<>> /\ cleanupQ = <<>>
      /\ usage = [f \in PdefFiles |->
                    [active |-> {}, endian |-> "unknown", needed |-> FALSE, done |-> FALSE]]
      /\ workerQ = [w \in Workers |-> <<>>] /\ worker = [w \in Workers |-> "idle"]
      /\ filter = Idle /\ pending = {} /\ groups = {} /\ reply = [c \in Conns |-> "none"]
      /\ now = 0 /\ alerts = 0 /\ lost = {}
  BY DEF Init
<1>2. /\ MaxConcurrent \in Nat /\ FirstId \in Nat /\ MaxTime \in Nat /\ MaxAlerts \in Nat
      /\ 0 \in Workers /\ InitialEndian \in [PdefFiles -> Endians \cup {"auto"}]
  BY ManagerAssumption DEF Workers
<1>3. TableOK(table, nextId) /\ Ids(table) = {} /\ ActiveIds(table) = {}
  BY <1>1, <1>2, EmptyTableOK
<1>4. TableInv
  <2>1. Exact(table)
    BY <1>3 DEF TableOK
  <2>2. table.count["running"] + table.count["resolving"] <= MaxConcurrent
    BY <2>1, <1>3, ActiveCounted DEF TableOK
  <2> QED BY <1>1, <1>2, <1>3, <2>1, <2>2 DEF TableInv, TableTyped, TableIndexed, TableCounted,
          TableBounded, Exact
<1>5. OthersTyped
  <2>1. TriggersTyped
    BY <1>1 DEF TriggersTyped, EmptyMap
  <2>2. PdefTyped
    BY <1>1, <1>2 DEF PdefTyped, Usage
  <2>3. QueuesTyped
    BY <1>1 DEF QueuesTyped
  <2>4. ThreadsTyped
    BY <1>1 DEF ThreadsTyped, Idle
  <2>5. InputsTyped
    BY <1>1, <1>2 DEF InputsTyped
  <2> QED BY <2>1, <2>2, <2>3, <2>4, <2>5 DEF OthersTyped
<1>6. Idle.phase = "idle"
  BY DEF Idle
<1>7. DOMAIN <<>> = {} /\ Range(<<>>) = {}
  BY DEF Range
<1>8. /\ JobIds(<<>>) = {} /\ DistinctJobs(<<>>)
      /\ \A types : MsgIds(<<>>, types) = {} /\ DistinctMsgs(<<>>, types)
      /\ IsInjective(<<>>)
  BY <1>7 DEF JobIds, DistinctJobs, MsgIds, DistinctMsgs, IsInjective
<1>9. Awaiting = <<>> /\ AwaitingIds = {} /\ \A w \in Workers : Unreported(w) = <<>> /\ UnreportedIds(w) = {}
  BY <1>1, <1>6, <1>8 DEF Awaiting, AwaitingIds, Unreported, UnreportedIds
<1>10. BusyHasJob
  BY <1>1, <1>6 DEF BusyHasJob
<1>11. HeldInv
  <2>1. \A w \in Workers : JobIds(workerQ[w]) = {} /\ DistinctJobs(workerQ[w])
    BY <1>1, <1>8
  <2>2. HeldApart
    BY <1>1, <1>8, <1>9, <2>1 DEF HeldApart
  <2>3. QueuedIds = {}
    BY <2>1 DEF QueuedIds
  <2>4. HeldIffActive
    BY <1>1, <1>3, <1>8, <1>9, <2>3 DEF HeldIffActive
  <2> QED BY <2>2, <2>4 DEF HeldInv
<1>12. StartedFirst
  BY <1>1, <1>7 DEF StartedFirst, StartedBefore
<1>13. FilesInv
  <2>1. RawIds = {} /\ ListingIds = {} /\ ArchivingIds = {} /\ ArchivedIds(table) = {}
    BY <1>1, <1>3, <1>8, <1>9 DEF RawIds, ListingIds, ArchivingIds, ArchivedIds
  <2> QED BY <1>1, <1>7, <1>8, <1>9, <2>1 DEF FilesInv, FilesApart, ArchivedLast
<1>14. UsageTracked
  BY <1>1, <1>7, <1>9 DEF UsageTracked
<1> QED BY <1>4, <1>5, <1>10, <1>11, <1>12, <1>13, <1>14, InvParts

\* Every step keeps it.
LEMMA StepInv ==
  ASSUME ManagerInv, [Next]_vars
  PROVE  ManagerInv'
<1>1. ASSUME NEW c \in Conns, HttpStop(c) \/ \E r \in Targets : HttpStart(c, r) PROVE ManagerInv'
  BY <1>1, HttpKeeps
<1>2. ASSUME NEW m \in Modules, SampleAlert(m) PROVE ManagerInv'
  BY <1>2, SampleAlertKeeps
<1>3. CASE Tick
  BY <1>3, TickKeeps
<1>4. CASE Manager
  BY <1>4, HandleStartKeeps, HandleStopKeeps, HandleSampleAlertKeeps, HandleStartedKeeps,
     HandleFileReadyKeeps, HandleEndKeeps, HandleRawFileKeeps, HandleFilteredKeeps,
     HandleEndianKeeps, HandleCompressDoneKeeps, HandleCompressFailedKeeps DEF Manager
<1>5. ASSUME NEW w \in Workers, Worker(w) PROVE ManagerInv'
  BY <1>5, WorkerPrepareFailsKeeps, WorkerStartsKeeps, WorkerSendsRawKeeps, WorkerSendsFileKeeps,
     WorkerFinishesKeeps DEF Worker
<1>6. CASE Filter
  BY <1>6, FilterGivesUpKeeps, FilterBeginsKeeps, FilterSendsFileKeeps, FilterEndsKeeps,
     FilterSendsEndianKeeps DEF Filter
<1>7. CASE CleanupWork
  BY <1>7, CleanupEnqueueKeeps, CleanupGroupKeeps DEF CleanupWork
<1>8. CASE CleanupTimer
  BY <1>8, CleanupTimerKeeps
<1>9. CASE UNCHANGED vars
  <2>1. UNCHANGED <<table, nextId, nextWorker, lastTrigger, usage, endian, mgrQ, workerQ, filterQ,
                    cleanupQ, worker, filter, pending, groups, reply, now, alerts, lost>>
    BY <1>9 DEF vars
  <2>2. InputsTyped'
    BY <2>1, InvParts, SameIds DEF OthersTyped, InputsTyped
  <2> QED BY <2>1, <2>2, SameKeeps
<1> QED BY <1>1, <1>2, <1>3, <1>4, <1>5, <1>6, <1>7, <1>8, <1>9 DEF Next

\* The inductive invariant of the capture pipeline holds in every reachable
\* state, whatever order requests, alerts, workers' messages, the filter thread
\* and the cleanup thread take.
THEOREM ManagerInvariant == Spec => []ManagerInv
<1>1. Init => ManagerInv
  BY InitInv
<1>2. ManagerInv /\ [Next]_vars => ManagerInv'
  BY StepInv
<1> QED BY <1>1, <1>2, PTL DEF Spec

\* Types: every id in a table, queue, thread or usage record was issued by
\* next_capture_id.
THEOREM ManagerTypeOK == Spec => []TypeOK
<1>1. ManagerInv => TypeOK
  BY DEF ManagerInv
<1> QED BY <1>1, ManagerInvariant, PTL

\* The secondary indexes of the task table lead to exactly its tasks, so two
\* active captures never share a key or a signature.
THEOREM ManagerTableIndexed == Spec => []TableIndexed
<1>1. ManagerInv => TableIndexed
  BY DEF ManagerInv
<1> QED BY <1>1, ManagerInvariant, PTL

\* The status counters agree with the table.
THEOREM ManagerTableCounted == Spec => []TableCounted
<1>1. ManagerInv => TableCounted
  BY DEF ManagerInv
<1> QED BY <1>1, ManagerInvariant, PTL

\* The capacity check of handle_start_capture is enough: never more captures
\* resolving or running than the limit.
THEOREM ManagerCapacityRespected == Spec => []CapacityRespected
<1>1. ASSUME ManagerInv PROVE CapacityRespected
  <2>1. TableOK(table, nextId)
    BY InvParts, TableNow, <1>1
  <2>2. ActiveIds(table) = {id \in Ids(table) : table.slots[id].status \in {"resolving", "running"}}
    BY <2>1 DEF TableOK, ActiveIds, ActiveStatuses
  <2>3. Cardinality(ActiveIds(table)) <= MaxConcurrent
    BY <2>1 DEF TableOK
  <2> QED BY <2>2, <2>3 DEF CapacityRespected
<1> QED BY <1>1, ManagerInvariant, PTL

\* The places in the filter thread's channel that await an answer, by index.
LEMMA AwaitingByIndex ==
  ASSUME ManagerInv
  PROVE  /\ \A i \in DOMAIN filterQ : AwaitsFilter(i) => filterQ[i] \in Range(Awaiting)
         /\ \A job \in Range(Awaiting) : \E i \in DOMAIN filterQ : AwaitsFilter(i) /\ filterQ[i] = job
         /\ \A i, j \in DOMAIN filterQ :
              AwaitsFilter(i) /\ AwaitsFilter(j) /\ filterQ[i].id = filterQ[j].id => i = j
<1>1. filterQ \in Seq(Job) /\ (filter.phase # "idle" => filterQ # <<>>)
  BY AwaitingFacts
<1>2. DistinctJobs(Awaiting)
  BY InvParts DEF HeldInv, HeldApart
<1>3. CASE filter.phase # "sent"
  <2>1. Awaiting = filterQ /\ \A i : AwaitsFilter(i) <=> i \in DOMAIN filterQ
    BY <1>3 DEF Awaiting, AwaitsFilter
  <2> QED BY <1>2, <2>1 DEF DistinctJobs, Range
<1>4. CASE filter.phase = "sent"
  <2>1. Awaiting = Tail(filterQ) /\ filterQ # <<>>
    BY <1>1, <1>4 DEF Awaiting
  <2>2. /\ Len(filterQ) \in Nat /\ DOMAIN filterQ = 1..Len(filterQ)
        /\ DOMAIN Awaiting = 1..(Len(filterQ) - 1)
        /\ \A i \in 1..(Len(filterQ) - 1) : i + 1 \in 1..Len(filterQ) /\ Awaiting[i] = filterQ[i + 1]
        /\ \A i \in 1..Len(filterQ) :
             i # 1 => i - 1 \in 1..(Len(filterQ) - 1) /\ filterQ[i] = Awaiting[i - 1]
    BY <1>1, <2>1, TailFacts
  <2>3. \A i \in DOMAIN filterQ : AwaitsFilter(i) <=> i # 1
    BY <1>4 DEF AwaitsFilter
  <2>4. \A i \in DOMAIN filterQ : AwaitsFilter(i) => filterQ[i] \in Range(Awaiting)
    BY <2>2, <2>3 DEF Range
  <2>5. ASSUME NEW job \in Range(Awaiting)
        PROVE  \E i \in DOMAIN filterQ : AwaitsFilter(i) /\ filterQ[i] = job
    <3>1. PICK k \in 1..(Len(filterQ) - 1) : Awaiting[k] = job
      BY <2>2 DEF Range
    <3>2. k + 1 \in DOMAIN filterQ /\ filterQ[k + 1] = job /\ k + 1 # 1
      BY <2>2, <3>1
    <3> QED BY <2>3, <3>2
  <2>6. ASSUME NEW i \in DOMAIN filterQ, NEW j \in DOMAIN filterQ,
               AwaitsFilter(i), AwaitsFilter(j), filterQ[i].id = filterQ[j].id
        PROVE  i = j
    <3>1. /\ i - 1 \in DOMAIN Awaiting /\ j - 1 \in DOMAIN Awaiting
          /\ Awaiting[i - 1].id = Awaiting[j - 1].id
      BY <2>2, <2>3, <2>6
    <3>2. i - 1 = j - 1
      BY <1>2, <3>1 DEF DistinctJobs
    <3> QED BY <2>2, <3>2
  <2> QED BY <2>4, <2>5, <2>6
<1> QED BY <1>3, <1>4

\* The duty to report a capture's end is in one place as long as the capture is
\* active, and in none after it has ended or was evicted.
THEOREM ManagerHeldOnce == Spec => []HeldOnce
<1>1. ASSUME ManagerInv, NEW id \in IdsSoFar
      PROVE  Cardinality(Holders(id)) = IF IsActive(table, id) THEN 1 ELSE 0
  <2> DEFINE ws == WorkerHolders(id)
             ms == MessageHolders(id)
             fs == FilterHolders(id)
             ls == LostHolders(id)
             M == MsgIds(mgrQ, EndMessages)
  <2>1. Holders(id) = ws \cup ms \cup fs \cup ls
    BY DEF Holders
  <2>2. IsActive(table, id) <=> id \in ActiveIds(table)
    BY DEF IsActive, ActiveIds
  <2>3. id \in ActiveIds(table) <=>
          (\E w \in Workers : id \in JobIds(workerQ[w])) \/ id \in M \/ id \in AwaitingIds \/ id \in lost
    BY <1>1, InvParts DEF HeldInv, HeldIffActive, QueuedIds
  <2>4. HeldApart
    BY <1>1, InvParts DEF HeldInv
  <2>5. /\ (\A w \in Workers : id \notin JobIds(workerQ[w])) => ws = {}
        /\ \A w \in Workers : id \in JobIds(workerQ[w]) => \E x : ws = {x}
    <3>1. \A w \in Workers : \A j \in DOMAIN workerQ[w] : workerQ[w][j].id = id => id \in JobIds(workerQ[w])
      BY DEF JobIds, Range
    <3>2. ASSUME \A w \in Workers : id \notin JobIds(workerQ[w]) PROVE ws = {}
      BY <3>1, <3>2 DEF WorkerHolders
    <3>3. ASSUME NEW w \in Workers, id \in JobIds(workerQ[w]) PROVE \E x : ws = {x}
      <4>1. PICK i \in DOMAIN workerQ[w] : workerQ[w][i].id = id
        BY <3>3 DEF JobIds, Range
      <4>2. \A v \in Workers : v # w => id \notin JobIds(workerQ[v])
        BY <2>4, <3>3 DEF HeldApart
      <4>3. \A j \in DOMAIN workerQ[w] : workerQ[w][j].id = id => j = i
        BY <2>4, <4>1 DEF HeldApart, DistinctJobs
      <4>4. <<"worker", w, i>> \in ws
        BY <4>1 DEF WorkerHolders
      <4>5. \A y \in ws : y = <<"worker", w, i>>
        BY <3>1, <4>2, <4>3 DEF WorkerHolders
      <4>6. ws = {<<"worker", w, i>>}
        BY ONLY <4>4, <4>5
      <4> QED BY <4>6
    <3> QED BY <3>2, <3>3
  <2>6. (id \notin M => ms = {}) /\ (id \in M => \E x : ms = {x})
    <3>1. \A j \in DOMAIN mgrQ : mgrQ[j].type \in EndMessages /\ mgrQ[j].job.id = id => id \in M
      BY DEF MsgIds, Range
    <3>2. ASSUME id \in M PROVE \E x : ms = {x}
      <4>1. PICK i \in DOMAIN mgrQ : mgrQ[i].type \in EndMessages /\ mgrQ[i].job.id = id
        BY <3>2 DEF MsgIds, Range
      <4>2. \A j \in DOMAIN mgrQ : mgrQ[j].type \in EndMessages /\ mgrQ[j].job.id = id => j = i
        BY <2>4, <4>1 DEF HeldApart, DistinctMsgs
      <4>3. ms = {<<"manager", i>>}
        BY <4>1, <4>2 DEF MessageHolders
      <4> QED BY <4>3
    <3> QED BY <3>1, <3>2 DEF MessageHolders
  <2>7. (id \notin AwaitingIds => fs = {}) /\ (id \in AwaitingIds => \E x : fs = {x})
    <3>1. \A j \in DOMAIN filterQ : AwaitsFilter(j) /\ filterQ[j].id = id => id \in AwaitingIds
      BY <1>1, AwaitingByIndex DEF AwaitingIds, JobIds
    <3>2. ASSUME id \in AwaitingIds PROVE \E x : fs = {x}
      <4>1. PICK job \in Range(Awaiting) : job.id = id
        BY <3>2 DEF AwaitingIds, JobIds
      <4>2. PICK i \in DOMAIN filterQ : AwaitsFilter(i) /\ filterQ[i].id = id
        BY <1>1, <4>1, AwaitingByIndex
      <4>3. \A j \in DOMAIN filterQ : AwaitsFilter(j) /\ filterQ[j].id = id => j = i
        BY <1>1, <4>2, AwaitingByIndex
      <4>4. fs = {<<"filter", i>>}
        BY <4>2, <4>3 DEF FilterHolders
      <4> QED BY <4>4
    <3> QED BY <3>1, <3>2 DEF FilterHolders
  <2>8. (id \notin lost => ls = {}) /\ (id \in lost => \E x : ls = {x})
    BY DEF LostHolders
  <2>9. /\ \A w \in Workers : id \in JobIds(workerQ[w]) => id \notin M /\ id \notin AwaitingIds /\ id \notin lost
        /\ id \in M => id \notin AwaitingIds /\ id \notin lost
        /\ id \in AwaitingIds => id \notin lost
    BY <2>4 DEF HeldApart
  <2> HIDE DEF ws, ms, fs, ls, M
  <2>10. IF IsActive(table, id) THEN \E x : Holders(id) = {x} ELSE Holders(id) = {}
    <3>1. CASE \E w \in Workers : id \in JobIds(workerQ[w])
      BY <2>1, <2>2, <2>3, <2>5, <2>6, <2>7, <2>8, <2>9, <3>1
    <3>2. CASE (\A w \in Workers : id \notin JobIds(workerQ[w])) /\ id \in M
      BY <2>1, <2>2, <2>3, <2>5, <2>6, <2>7, <2>8, <2>9, <3>2
    <3>3. CASE (\A w \in Workers : id \notin JobIds(workerQ[w])) /\ id \notin M /\ id \in AwaitingIds
      BY <2>1, <2>2, <2>3, <2>5, <2>6, <2>7, <2>8, <2>9, <3>3
    <3>4. CASE (\A w \in Workers : id \notin JobIds(workerQ[w])) /\ id \notin M /\ id \notin AwaitingIds
      BY <2>1, <2>2, <2>3, <2>5, <2>6, <2>7, <2>8, <2>9, <3>4
    <3> QED BY <3>1, <3>2, <3>3, <3>4
  <2> QED BY <2>10, FS_Singleton, FS_EmptySet
<1>2. ManagerInv => HeldOnce
  BY <1>1 DEF HeldOnce
<1> QED BY <1>2, ManagerInvariant, PTL
-----------------------------------------------------------------------------
(* What no step may do. *)

\* Of the table: move a capture out of a final status, evict an active capture,
\* forget that a file is archived.
Terminal(t, u) ==
  \A id \in Ids(t) \cap Ids(u) :
    t.slots[id].status \notin ActiveStatuses => u.slots[id].status = t.slots[id].status
Evicts(t, u) == \A id \in Ids(t) \ Ids(u) : ~IsActive(t, id)
Archives(t, u) ==
  \A id \in Ids(t) \cap Ids(u) : t.slots[id].file = "archived" => u.slots[id].file = "archived"

TableGoesOn == Terminal(table, table') /\ Evicts(table, table') /\ Archives(table, table')

\* Only an active capture changes status.
LEMMA SetStatusGoesOn ==
  ASSUME ManagerInv, NEW id \in ActiveIds(table), NEW status \in {"running", "completed", "failed"},
         table' = SetStatus(table, id, status)
  PROVE  TableGoesOn
<1>1. /\ Ids(table') = Ids(table)
      /\ \A j \in Ids(table) : /\ table'.slots[j].file = table.slots[j].file
                               /\ j # id => table'.slots[j] = table.slots[j]
  BY InvParts, TableNow, SetStatusOK
<1> QED BY <1>1 DEF TableGoesOn, Terminal, Evicts, Archives, ActiveIds

\* A file is listed before it is archived.
LEMMA SetFileGoesOn ==
  ASSUME ManagerInv, NEW id, NEW file \in {"ready", "archived"},
         file = "archived" \/ id \notin ArchivedIds(table),
         table' = SetFile(table, id, file)
  PROVE  TableGoesOn
<1>1. /\ Ids(table') = Ids(table)
      /\ \A j \in Ids(table) :
           /\ table'.slots[j].status = table.slots[j].status
           /\ table'.slots[j].file = IF j = id THEN file ELSE table.slots[j].file
  BY InvParts, TableNow, SetFileOK
<1> QED BY <1>1 DEF TableGoesOn, Terminal, Evicts, Archives, ArchivedIds

\* A new capture takes the place of ended ones only.
LEMMA StartCaptureGoesOn ==
  ASSUME ManagerInv, NEW r \in Targets, NEW c, NEW user \in Modules \cup {NoModule},
         StartCapture(r, c, user)
  PROVE  TableGoesOn
<1>1. CASE table' = table
  BY <1>1 DEF TableGoesOn, Terminal, Evicts, Archives
<1>2. CASE Verdict(r) = "200" /\ CreateAndDispatch(r, user)
  <2>1. table' = SetStatus(AddTask(table, nextId, NewTask(r, now, user)), nextId, "resolving")
    BY <1>2 DEF CreateAndDispatch, NewTask
  <2>2. /\ nextId \in Nat /\ nextId >= FirstId /\ FirstId \in Nat
        /\ now \in 0..MaxTime /\ TableOK(table, nextId) /\ MaxConcurrent \in Nat
        /\ table.count \in [Statuses -> Int]
    BY InvParts, TableNow DEF TableInv, TableTyped, OthersTyped, InputsTyped, IsTable
  <2>3. /\ ~IsSignatureActive(table, r.sig) /\ ~IsKeyActive(table, r.key)
        /\ table.count["running"] + table.count["resolving"] < MaxConcurrent
    BY <1>2, <2>2 DEF Verdict, Statuses
  <2>4. /\ nextId \notin Ids(table)
        /\ \A j \in Ids(table') \ {nextId} : table'.slots[j] = table.slots[j]
        /\ \A j \in Ids(table) \ Ids(table') : ~IsActive(table, j)
    BY <2>1, <2>2, <2>3, CreateOK
  <2> QED BY <2>4 DEF TableGoesOn, Terminal, Evicts, Archives
<1> QED BY <1>1, <1>2 DEF StartCapture, tableVars

\* The capture a message is about, by the type of the message.
LEMMA MessageId ==
  ASSUME ManagerInv, NEW type, Receives(type)
  PROVE  /\ Head(mgrQ) \in Message /\ Head(mgrQ).type = type /\ Head(mgrQ) \in Range(mgrQ)
         /\ \A types : type \in types => Id \in MsgIds(mgrQ, types)
         /\ type \in EndMessages => Id \in ActiveIds(table)
<1>1. mgrQ \in Seq(Message) /\ mgrQ # <<>> /\ Head(mgrQ).type = type
  BY InvParts DEF OthersTyped, QueuesTyped, Receives
<1>2. Head(mgrQ) \in Message /\ Head(mgrQ) \in Range(mgrQ)
  BY <1>1, TailFacts
<1>3. \A types : type \in types => Id \in MsgIds(mgrQ, types)
  BY <1>1, <1>2 DEF MsgIds, Id
<1>4. type \in EndMessages => Id \in ActiveIds(table)
  <2>1. MsgIds(mgrQ, EndMessages) \subseteq ActiveIds(table)
    BY InvParts DEF HeldInv, HeldIffActive
  <2> QED BY <1>3, <2>1
<1> QED BY <1>1, <1>2, <1>3, <1>4

\* No handler of the manager changes a terminal status or removes an active task.
LEMMA ManagerGoesOn ==
  ASSUME ManagerInv, Manager
  PROVE  TableGoesOn
<1>0. ASSUME table' = table PROVE TableGoesOn
  BY <1>0 DEF TableGoesOn, Terminal, Evicts, Archives
<1>1. CASE HandleStart
  <2>1. Receives("start") /\ StartCapture(Head(mgrQ).target, Head(mgrQ).conn, NoModule)
    BY <1>1 DEF HandleStart
  <2>2. Head(mgrQ).target \in Targets
    BY <2>1, MessageId DEF Message, JobTypes
  <2> QED BY <2>1, <2>2, StartCaptureGoesOn
<1>2. CASE HandleSampleAlert
  <2> DEFINE m == Head(mgrQ).module
  <2>1. /\ Receives("alert")
        /\ \/ UNCHANGED tableVars
           \/ PreparedTarget(m) # NoTarget /\ StartCapture(PreparedTarget(m), NoConn, m)
    BY <1>2 DEF HandleSampleAlert
  <2>2. m \in Modules
    BY <2>1, MessageId DEF Message, JobTypes
  <2>3. CASE UNCHANGED tableVars
    BY <1>0, <2>3 DEF tableVars
  <2>4. CASE PreparedTarget(m) # NoTarget /\ StartCapture(PreparedTarget(m), NoConn, m)
    <3>1. PreparedTarget(m) \in Targets
      BY <2>2, <2>4, ManagerAssumption DEF PreparedTarget
    <3> QED BY <2>2, <2>4, <3>1, StartCaptureGoesOn
  <2> QED BY <2>1, <2>3, <2>4
<1>3. CASE HandleStarted
  <2>1. Receives("started") /\ table' = SetStatus(table, Id, "running")
    BY <1>3 DEF HandleStarted
  <2> QED BY <2>1, StartedIsActive, SetStatusGoesOn
<1>4. CASE HandleFinished \/ HandleFailed
  <2>1. \/ Receives("finished") /\ table' = SetStatus(table, Id, "completed")
        \/ Receives("failed") /\ table' = SetStatus(table, Id, "failed")
    BY <1>4 DEF HandleFinished, HandleFailed
  <2>2. Id \in ActiveIds(table)
    BY <2>1, MessageId DEF EndMessages
  <2> QED BY <2>1, <2>2, SetStatusGoesOn
<1>5. CASE HandleFileReady
  <2>1. Receives("file_ready") /\ table' = SetFile(table, Id, "ready")
    BY <1>5 DEF HandleFileReady
  <2>2. Id \in ListingIds
    BY <2>1, MessageId DEF ListingIds
  <2>3. Id \notin ArchivedIds(table)
    BY <2>2, InvParts DEF FilesInv, ArchivedLast
  <2> QED BY <2>1, <2>3, SetFileGoesOn
<1>6. CASE HandleCompressDone
  BY <1>6, SetFileGoesOn DEF HandleCompressDone
<1>7. CASE HandleFiltered
  <2> DEFINE t == SetFile(table, Id, "ready")
  <2>1. Receives("filtered") /\ table' = SetStatus(t, Id, "completed")
    BY <1>7 DEF HandleFiltered
  <2>2. "filtered" \in EndMessages /\ "filtered" \in {"raw_file", "filtered"}
    BY DEF EndMessages
  <2>3. Id \in RawIds /\ Id \in ActiveIds(table)
    BY <2>1, <2>2, MessageId DEF RawIds
  <2>4. Id \notin ArchivedIds(table)
    BY <2>3, InvParts DEF FilesInv, ArchivedLast
  <2>5. /\ TableOK(t, nextId) /\ Ids(t) = Ids(table) /\ ActiveIds(t) = ActiveIds(table)
        /\ \A j \in Ids(table) :
             /\ t.slots[j].status = table.slots[j].status
             /\ t.slots[j].file = IF j = Id THEN "ready" ELSE table.slots[j].file
    BY InvParts, TableNow, SetFileOK
  <2> HIDE DEF t
  <2>6. /\ Ids(table') = Ids(t)
        /\ \A j \in Ids(t) : /\ table'.slots[j].file = t.slots[j].file
                             /\ j # Id => table'.slots[j] = t.slots[j]
    BY <2>1, <2>5, InvParts, TableNow, SetStatusOK
  <2> QED BY <2>3, <2>4, <2>5, <2>6 DEF TableGoesOn, Terminal, Evicts, Archives, ArchivedIds, ActiveIds
<1>8. CASE HandleStop \/ HandleRawFile \/ HandleEndian \/ HandleCompressFailed
  BY <1>0, <1>8 DEF HandleStop, HandleRawFile, HandleEndian, HandleCompressFailed, tableVars
<1> QED BY <1>1, <1>2, <1>3, <1>4, <1>5, <1>6, <1>7, <1>8 DEF Manager

\* Neither does any other step.
LEMMA NextGoesOn ==
  ASSUME ManagerInv, [Next]_vars
  PROVE  TableGoesOn
<1>0. ASSUME table' = table PROVE TableGoesOn
  BY <1>0 DEF TableGoesOn, Terminal, Evicts, Archives
<1>1. CASE Manager
  BY <1>1, ManagerGoesOn
<1>2. CASE CleanupEnqueue
  <2>1. cleanupQ # <<>> /\ table' = SetFile(table, Head(cleanupQ), "ready")
    BY <1>2 DEF CleanupEnqueue
  <2>2. Head(cleanupQ) \in Range(cleanupQ)
    BY <2>1, InvParts, TailFacts DEF OthersTyped, QueuesTyped
  <2>3. Head(cleanupQ) \notin ArchivedIds(table)
    BY <2>2, InvParts DEF FilesInv, ArchivedLast
  <2> QED BY <2>1, <2>3, SetFileGoesOn
<1>3. CASE \/ \E c \in Conns : HttpStop(c) \/ \E r \in Targets : HttpStart(c, r)
           \/ \E m \in Modules : SampleAlert(m)
           \/ Tick
           \/ CleanupTimer
           \/ \E id \in groups, result \in {"compress_done", "compress_failed"} :
                CleanupGroup(id, result)
           \/ UNCHANGED vars
  BY <1>0, <1>3 DEF HttpStop, HttpStart, SampleAlert, Tick, CleanupTimer, CleanupGroup, vars, tableVars
<1>4. CASE \E w \in Workers : Worker(w)
  BY <1>0, <1>4 DEF Worker, WorkerPrepareFails, WorkerStarts, WorkerSendsRaw, WorkerSendsFile,
     WorkerFinishes, tableVars
<1>5. CASE Filter
  BY <1>0, <1>5 DEF Filter, FilterGivesUp, FilterBegins, FilterSendsFile, FilterEnds,
     FilterSendsEndian, tableVars
<1> QED BY <1>1, <1>2, <1>3, <1>4, <1>5 DEF Next, CleanupWork

\* A started message, a final message or a late update never moves a capture out
\* of completed or failed.
THEOREM ManagerTerminalStable == Spec => TerminalStable
<1>1. ManagerInv /\ [Next]_vars =>
        [\A id \in Ids(table) \cap Ids(table') :
           table.slots[id].status \notin ActiveStatuses
             => table'.slots[id].status = table.slots[id].status]_vars
  BY NextGoesOn DEF TableGoesOn, Terminal
<1> QED BY <1>1, ManagerInvariant, PTL DEF Spec, TerminalStable

\* add_task never evicts a capture that is going on.
THEOREM ManagerNeverEvictsActive == Spec => NeverEvictsActive
<1>1. ManagerInv /\ [Next]_vars => [\A id \in Ids(table) \ Ids(table') : ~IsActive(table, id)]_vars
  BY NextGoesOn DEF TableGoesOn, Evicts
<1> QED BY <1>1, ManagerInvariant, PTL DEF Spec, NeverEvictsActive

\* A file recorded as archived is not listed as a plain file again.
THEOREM ManagerArchivedStays == Spec => ArchivedStays
<1>1. ManagerInv /\ [Next]_vars =>
        [\A id \in Ids(table) \cap Ids(table') :
           table.slots[id].file = "archived" => table'.slots[id].file = "archived"]_vars
  BY NextGoesOn DEF TableGoesOn, Archives
<1> QED BY <1>1, ManagerInvariant, PTL DEF Spec, ArchivedStays
-----------------------------------------------------------------------------
(* PDEF files on disk. *)

\* The only steps that touch a PDEF file are those of try_writeback_pdef_endian.
LEMMA NextWrites ==
  ASSUME ManagerInv, [Next]_vars
  PROVE  UNCHANGED endian \/ \E f \in PdefFiles : \E u : WritesBack(f, u)
<1>1. CASE HandleFiltered
  BY <1>1, FilteredWrites
<1>2. CASE HandleEndian
  BY <1>2, EndianWrites
<1>3. CASE HandleStart \/ HandleStop \/ HandleSampleAlert \/ HandleStarted \/ HandleFileReady
  BY <1>3 DEF HandleStart, HandleStop, HandleSampleAlert, HandleStarted, HandleFileReady, pdefVars
<1>4. CASE HandleFinished \/ HandleFailed \/ HandleRawFile \/ HandleCompressDone \/ HandleCompressFailed
  BY <1>4 DEF HandleFinished, HandleFailed, HandleRawFile, HandleCompressDone, HandleCompressFailed, pdefVars
<1>5. CASE \/ \E c \in Conns : HttpStop(c) \/ \E r \in Targets : HttpStart(c, r)
           \/ \E m \in Modules : SampleAlert(m)
           \/ Tick
           \/ CleanupWork
           \/ CleanupTimer
           \/ UNCHANGED vars
  BY <1>5 DEF HttpStop, HttpStart, SampleAlert, Tick, CleanupWork, CleanupEnqueue, CleanupTimer,
     CleanupGroup, vars, pdefVars
<1>6. CASE \E w \in Workers : Worker(w)
  BY <1>6 DEF Worker, WorkerPrepareFails, WorkerStarts, WorkerSendsRaw, WorkerSendsFile,
     WorkerFinishes, pdefVars
<1>7. CASE Filter
  BY <1>7 DEF Filter, FilterGivesUp, FilterBegins, FilterSendsFile, FilterEnds,
     FilterSendsEndian, pdefVars
<1> QED BY <1>1, <1>2, <1>3, <1>4, <1>5, <1>6, <1>7 DEF Next, Manager

\* A PDEF file is rewritten only while the filter thread has no job that uses it:
\* each such job is in the usage record that the writeback found empty.
THEOREM ManagerWritebackExclusive == Spec => WritebackExclusive
<1>1. ASSUME ManagerInv, [Next]_vars, NEW f \in PdefFiles, endian'[f] # endian[f],
             NEW i \in DOMAIN filterQ, AwaitsFilter(i), filterQ[i].pdef = f
      PROVE  FALSE
  <2>1. PICK g \in PdefFiles : \E u : WritesBack(g, u)
    BY <1>1, NextWrites
  <2>2. PICK u : WritesBack(g, u)
    BY <2>1
  <2>3. /\ TryWriteback(g, u) /\ u \in Usage /\ (u.needed => u.endian \in Endians)
        /\ \A job \in Range(Awaiting) : job.pdef = g => job.id \in u.active
    BY <2>2 DEF WritesBack
  <2>4. PdefTyped
    BY <1>1, InvParts DEF OthersTyped
  <2>5. f = g /\ u.active = {}
    BY <1>1, <2>3, <2>4, WritebackFacts
  <2>6. filterQ[i] \in Range(Awaiting)
    BY <1>1, AwaitingByIndex
  <2> QED BY <1>1, <2>3, <2>5, <2>6
<1>2. ManagerInv /\ [Next]_vars =>
        [\A f \in PdefFiles : endian'[f] # endian[f]
           => ~\E i \in DOMAIN filterQ : AwaitsFilter(i) /\ filterQ[i].pdef = f]_vars
  BY <1>1
<1> QED BY <1>2, ManagerInvariant, PTL DEF Spec, WritebackExclusive

EndianParts == JobsOneDefinition /\ DetectedWhileAuto

\* The jobs a step adds to a queue have inline text or a file read alone, not both.
JobsAfter ==
  /\ \A w \in Workers : \A job \in Range(workerQ'[w]) : job \in Range(workerQ[w]) \/ Single(job)
  /\ \A m \in Range(mgrQ') : m \in Range(mgrQ) \/ m.type \notin JobTypes \/ Single(m.job)
  /\ \A job \in Range(filterQ') : job \in Range(filterQ) \/ Single(job)

\* A step neither detects nor writes an endianness.
DetectsNothing ==
  /\ UNCHANGED <<endian, filter>>
  /\ \A f \in PdefFiles : usage'[f].needed = usage[f].needed /\ usage'[f].done = usage[f].done
  /\ \A m \in Range(mgrQ') : m \in Range(mgrQ) \/ m.type # "endian"
  /\ filter.phase # "idle" => Head(filterQ') = Head(filterQ)

\* No job comes to have both.
LEMMA JobsKept ==
  ASSUME JobsOneDefinition, JobsAfter
  PROVE  JobsOneDefinition'
BY DEF JobsOneDefinition, JobsAfter

\* A step that detects and writes nothing leaves the detections as they are.
LEMMA DetectionKept ==
  ASSUME DetectedWhileAuto, DetectsNothing
  PROVE  DetectedWhileAuto'
<1>1. ReadAlone \subseteq PdefFiles
  BY DEF ReadAlone
<1> QED BY <1>1 DEF DetectedWhileAuto, DetectsNothing

\* Handling a message only shortens the manager's queue.
LEMMA DequeueShrinks ==
  ASSUME ManagerInv, NEW type, Receives(type), Dequeue
  PROVE  Range(mgrQ') \subseteq Range(mgrQ) /\ Head(mgrQ) \in Range(mgrQ)
<1>1. mgrQ \in Seq(Message) /\ mgrQ # <<>>
  BY InvParts DEF OthersTyped, QueuesTyped, Receives
<1> QED BY <1>1, TailFacts DEF Dequeue

\* A start request: the new job has the definition of its target.
LEMMA StartKeepsEndian ==
  ASSUME ManagerInv, EndianParts, NEW type, Receives(type), Dequeue,
         UNCHANGED <<usage, endian, filterQ, filter>>,
         \/ UNCHANGED workerQ
         \/ \E r \in Targets : \E c, user : StartCapture(r, c, user)
  PROVE  EndianParts'
<1>1. Range(mgrQ') \subseteq Range(mgrQ)
  BY DequeueShrinks
<1>2. \A w \in Workers : \A job \in Range(workerQ'[w]) : job \in Range(workerQ[w]) \/ Single(job)
  <2>1. CASE UNCHANGED workerQ
    BY <2>1
  <2>2. ASSUME NEW r \in Targets, NEW c, NEW user, StartCapture(r, c, user),
               NEW w \in Workers, NEW j \in Range(workerQ'[w])
        PROVE  j \in Range(workerQ[w]) \/ Single(j)
    <3> DEFINE job == [id |-> nextId, pdef |-> r.pdef, inline |-> r.inline]
    <3>1. Single(job)
      BY DEF ReadAlone, Single
    <3>2. workerQ \in [Workers -> Seq(Job)] /\ nextWorker \in Workers
      BY InvParts DEF OthersTyped, QueuesTyped, TableInv, TableTyped
    <3>3. UNCHANGED workerQ \/ workerQ' = [workerQ EXCEPT ![nextWorker] = Append(@, job)]
      BY <2>2 DEF StartCapture, CreateAndDispatch
    <3> HIDE DEF job
    <3>4. Range(Append(workerQ[nextWorker], job)) = Range(workerQ[nextWorker]) \cup {job}
      BY <3>2, AppendRange
    <3> QED BY <2>2, <3>1, <3>2, <3>3, <3>4
  <2> QED BY <2>1, <2>2
<1>3. JobsAfter
  BY <1>1, <1>2 DEF JobsAfter
<1>4. DetectsNothing
  BY <1>1 DEF DetectsNothing
<1> QED BY <1>3, <1>4, JobsKept, DetectionKept DEF EndianParts

\* The manager hands a job to the filter thread, or drops it.
LEMMA RawFileKeepsEndian ==
  ASSUME ManagerInv, EndianParts, HandleRawFile
  PROVE  EndianParts'
<1> DEFINE job == Head(mgrQ).job
<1>1. /\ Receives("raw_file") /\ Dequeue /\ "raw_file" \in JobTypes
      /\ UNCHANGED <<endian, workerQ, filter>>
      /\ filterQ' = filterQ \/ filterQ' = Append(filterQ, job)
      /\ usage' = UsageStart(job.pdef, job.id) \/ usage' = UsageEnd(job.pdef, job.id)
  BY DEF HandleRawFile, JobTypes, threadVars
<1>2. Range(mgrQ') \subseteq Range(mgrQ) /\ Head(mgrQ) \in Range(mgrQ)
  BY <1>1, DequeueShrinks
<1>3. Head(mgrQ) \in Message /\ Head(mgrQ).type = "raw_file"
  BY <1>1, MessageId
<1>4. job \in Job /\ Single(job)
  <2>1. job \in Job
    BY <1>3 DEF Message, JobTypes
  <2>2. Single(job)
    BY <1>1, <1>2, <1>3 DEF EndianParts, JobsOneDefinition
  <2> QED BY <2>1, <2>2
<1>5. \A f \in PdefFiles : usage'[f].needed = usage[f].needed /\ usage'[f].done = usage[f].done
  <2>1. usage \in [PdefFiles -> Usage]
    BY InvParts DEF OthersTyped, PdefTyped
  <2>2. job.pdef \in PdefFiles \cup {NoFile}
    BY <1>4 DEF Job
  <2> HIDE DEF job
  <2> QED BY <1>1, <2>1, <2>2 DEF UsageStart, UsageEnd, Usage
<1> HIDE DEF job
<1>6. filterQ \in Seq(Job) /\ (filter.phase # "idle" => filterQ # <<>>)
  BY AwaitingFacts
<1>7. Range(filterQ') \subseteq Range(filterQ) \cup {job}
  BY <1>1, <1>6, AppendRange
<1>8. filter.phase # "idle" => Head(filterQ') = Head(filterQ)
  BY <1>1, <1>4, <1>6, TailAppend
<1>9. JobsAfter
  BY <1>1, <1>2, <1>4, <1>7 DEF JobsAfter
<1>10. DetectsNothing
  BY <1>1, <1>2, <1>5, <1>8 DEF DetectsNothing
<1> QED BY <1>9, <1>10, JobsKept, DetectionKept DEF EndianParts

\* A writeback: the record that asks for it stands for a detection, so the file
\* was in automatic mode, and is marked done with the write.
LEMMA WritebackKeepsEndian ==
  ASSUME ManagerInv, EndianParts, NEW type, Receives(type), Dequeue,
         UNCHANGED <<workerQ, filterQ, filter>>,
         UNCHANGED <<usage, endian>> \/ \E f \in PdefFiles : \E u : WritesBack(f, u)
  PROVE  EndianParts' /\ \A f \in ReadAlone : endian[f] # "auto" => endian'[f] = endian[f]
<1>1. Range(mgrQ') \subseteq Range(mgrQ)
  BY DequeueShrinks
<1>2. JobsAfter
  BY <1>1 DEF JobsAfter
<1>3. CASE UNCHANGED <<usage, endian>>
  <2>1. DetectsNothing
    BY <1>1, <1>3 DEF DetectsNothing
  <2> QED BY <1>2, <1>3, <2>1, JobsKept, DetectionKept DEF EndianParts
<1>4. ASSUME NEW f \in PdefFiles, NEW u, WritesBack(f, u)
      PROVE  DetectedWhileAuto' /\ \A g \in ReadAlone : endian[g] # "auto" => endian'[g] = endian[g]
  <2>1. /\ TryWriteback(f, u) /\ u \in Usage /\ (u.needed => u.endian \in Endians)
        /\ u.done = usage[f].done
        /\ u.needed => usage[f].needed \/ \E m \in Range(mgrQ) : m.type = "endian" /\ m.pdef = f
    BY <1>4 DEF WritesBack
  <2>2. PdefTyped
    BY InvParts DEF OthersTyped
  <2>3. /\ \A g \in PdefFiles : g # f => usage'[g] = usage[g]
        /\ usage'[f].needed = u.needed /\ (u.done => usage'[f].done)
        /\ \A g \in PdefFiles : endian'[g] # endian[g] =>
             g = f /\ u.needed /\ ~u.done /\ usage'[f].done
    BY <2>1, <2>2, WritebackFacts
  <2>4. f \in ReadAlone /\ u.needed /\ ~u.done => endian[f] = "auto"
    BY <2>1 DEF EndianParts, DetectedWhileAuto
  <2>5. \A g \in ReadAlone : endian[g] # "auto" => endian'[g] = endian[g]
    BY <2>3, <2>4 DEF ReadAlone
  <2>6. ASSUME NEW g \in ReadAlone
        PROVE  endian'[g] = "auto" \/ usage'[g].done \/
               /\ ~usage'[g].needed
               /\ \A m \in Range(mgrQ') : m.type = "endian" => m.pdef # g
               /\ filter'.phase # "idle" /\ filter'.auto => Head(filterQ').pdef # g
    <3>0. g \in PdefFiles
      BY DEF ReadAlone
    <3>1. CASE endian'[g] # endian[g]
      BY <2>3, <3>0, <3>1
    <3>2. CASE endian'[g] = endian[g]
      BY <1>1, <3>0, <2>1, <2>3, <2>4, <3>2 DEF EndianParts, DetectedWhileAuto
    <3> QED BY <3>1, <3>2
  <2> QED BY <2>5, <2>6 DEF DetectedWhileAuto
<1>5. JobsOneDefinition'
  BY <1>2, JobsKept DEF EndianParts
<1> QED BY <1>3, <1>4, <1>5 DEF EndianParts

\* A message that is posted, and whose job, if it has one, does not have both.
LEMMA PostKeepsEndian ==
  ASSUME ManagerInv, EndianParts, NEW m, mgrQ' = Append(mgrQ, m),
         m.type \notin JobTypes \/ Single(m.job), m.type # "endian",
         UNCHANGED <<usage, endian, filterQ, filter>>,
         \A w \in Workers : Range(workerQ'[w]) \subseteq Range(workerQ[w])
  PROVE  EndianParts'
<1>1. Range(mgrQ') = Range(mgrQ) \cup {m}
  BY InvParts, AppendRange DEF OthersTyped, QueuesTyped
<1>2. JobsAfter
  BY <1>1 DEF JobsAfter
<1>3. DetectsNothing
  BY <1>1 DEF DetectsNothing
<1> QED BY <1>2, <1>3, JobsKept, DetectionKept DEF EndianParts

\* A worker posts the job it is at, and may be done with it.
LEMMA WorkerKeepsEndian ==
  ASSUME ManagerInv, EndianParts, NEW w \in Workers, Worker(w)
  PROVE  EndianParts'
<1> DEFINE job == Head(workerQ[w])
<1>1. workerQ[w] # <<>>
  BY InvParts DEF BusyHasJob, Worker, WorkerPrepareFails, WorkerStarts, WorkerSendsRaw,
     WorkerSendsFile, WorkerFinishes
<1>2. PICK type \in JobTypes : Post(type, job)
  BY DEF Worker, WorkerPrepareFails, WorkerStarts, WorkerSendsRaw, WorkerSendsFile,
     WorkerFinishes, JobTypes
<1>3. /\ UNCHANGED <<usage, endian, filterQ, filter>>
      /\ UNCHANGED workerQ \/ workerQ' = [workerQ EXCEPT ![w] = Tail(@)]
  BY DEF Worker, WorkerPrepareFails, WorkerStarts, WorkerSendsRaw, WorkerSendsFile,
     WorkerFinishes, pdefVars, threadVars
<1>4. workerQ \in [Workers -> Seq(Job)]
  BY InvParts DEF OthersTyped, QueuesTyped
<1>5. job \in Range(workerQ[w]) /\ Range(Tail(workerQ[w])) \subseteq Range(workerQ[w])
  BY <1>1, <1>4, TailFacts
<1>6. Single(job)
  BY <1>5 DEF EndianParts, JobsOneDefinition
<1> HIDE DEF job
<1>7. \A v \in Workers : Range(workerQ'[v]) \subseteq Range(workerQ[v])
  BY <1>3, <1>4, <1>5
<1>8. mgrQ' = Append(mgrQ, [type |-> type, job |-> job]) /\ type # "endian"
  BY <1>2 DEF Post, JobTypes
<1> QED BY <1>3, <1>6, <1>7, <1>8, PostKeepsEndian

\* The filter thread detects only in automatic mode, which it has read from the
\* file itself: its job has no inline text.
LEMMA FilterKeepsEndian ==
  ASSUME ManagerInv, EndianParts, Filter
  PROVE  EndianParts'
<1> DEFINE job == Head(filterQ)
<1>1. /\ filterQ \in Seq(Job) /\ (filter.phase # "idle" => filterQ # <<>>)
      /\ mgrQ \in Seq(Message) /\ filter \in [phase : {"idle", "filtering", "sent"}, auto : BOOLEAN]
  BY AwaitingFacts, InvParts DEF OthersTyped, QueuesTyped, ThreadsTyped
<1>2. filterQ # <<>> => /\ job \in Range(filterQ) /\ Single(job)
                        /\ Range(Tail(filterQ)) \subseteq Range(filterQ)
  BY <1>1, TailFacts DEF EndianParts, JobsOneDefinition
<1>3. CASE FilterGivesUp
  <2>1. /\ filter.phase = "idle" /\ filterQ # <<>> /\ filterQ' = Tail(filterQ)
        /\ UNCHANGED <<usage, endian, mgrQ, workerQ, filter>>
    BY <1>3 DEF FilterGivesUp, pdefVars, threadVars
  <2>2. JobsAfter
    BY <1>2, <2>1 DEF JobsAfter
  <2>3. DetectsNothing
    BY <2>1 DEF DetectsNothing
  <2> QED BY <2>2, <2>3, JobsKept, DetectionKept DEF EndianParts
<1>4. CASE FilterBegins
  <2>1. /\ filterQ # <<>> /\ UNCHANGED <<usage, endian, mgrQ, workerQ, filterQ>>
    BY <1>4 DEF FilterBegins, pdefVars
  <2>2. PICK auto \in ParsesAsAuto(job) : filter' = [phase |-> "filtering", auto |-> auto]
    BY <1>4 DEF FilterBegins
  <2>3. JobsAfter
    BY <2>1 DEF JobsAfter
  <2>4. ASSUME NEW f \in ReadAlone, auto, job.pdef = f PROVE endian[f] = "auto"
    <3>1. ~job.inline
      BY <1>2, <2>1, <2>4 DEF Single
    <3> QED BY <2>4, <3>1, Zenon DEF ParsesAsAuto
  <2>5. filter'.auto = auto /\ Head(filterQ') = job
    BY <2>1, <2>2
  <2> HIDE DEF job
  <2>6. DetectedWhileAuto'
    BY <2>1, <2>4, <2>5 DEF EndianParts, DetectedWhileAuto
  <2> QED BY <2>3, <2>6, JobsKept DEF EndianParts
<1>5. CASE FilterSendsFile
  <2>1. /\ filter.phase = "filtering" /\ mgrQ' = Append(mgrQ, [type |-> "filtered", job |-> job])
        /\ filter' = [filter EXCEPT !.phase = "sent"]
        /\ UNCHANGED <<usage, endian, workerQ, filterQ>>
    BY <1>5 DEF FilterSendsFile, Post, pdefVars
  <2>2. Single(job) /\ filter'.auto = filter.auto
    BY <1>1, <1>2, <2>1
  <2> HIDE DEF job
  <2>3. Range(mgrQ') = Range(mgrQ) \cup {[type |-> "filtered", job |-> job]}
    BY <1>1, <2>1, AppendRange
  <2>4. JobsAfter
    BY <2>1, <2>2, <2>3 DEF JobsAfter
  <2>5. DetectedWhileAuto'
    BY <2>1, <2>2, <2>3 DEF EndianParts, DetectedWhileAuto
  <2> QED BY <2>4, <2>5, JobsKept DEF EndianParts
<1>6. ASSUME NEW e \in Endians, FilterSendsEndian(e) PROVE EndianParts'
  <2> DEFINE m == [type |-> "endian", pdef |-> job.pdef, endian |-> e]
  <2>1. /\ filter.phase = "sent" /\ filter.auto /\ mgrQ' = Append(mgrQ, m)
        /\ filter' = Idle /\ filterQ' = Tail(filterQ) /\ UNCHANGED <<usage, endian, workerQ>>
    BY <1>6 DEF FilterSendsEndian, pdefVars
  <2>2. Range(mgrQ') = Range(mgrQ) \cup {m}
    BY <1>1, <2>1, AppendRange
  <2>3. JobsAfter
    BY <1>1, <1>2, <2>1, <2>2 DEF JobsAfter, JobTypes
  <2>4. filter'.phase = "idle"
    BY <2>1 DEF Idle
  <2>5. DetectedWhileAuto'
    BY <2>1, <2>2, <2>4 DEF EndianParts, DetectedWhileAuto
  <2> QED BY <2>3, <2>5, JobsKept DEF EndianParts
<1>7. CASE FilterEnds
  <2>1. /\ filter.phase = "sent" /\ filter' = Idle /\ filterQ' = Tail(filterQ)
        /\ UNCHANGED <<usage, endian, mgrQ, workerQ>>
    BY <1>7 DEF FilterEnds, pdefVars
  <2>2. JobsAfter
    BY <1>1, <1>2, <2>1 DEF JobsAfter
  <2>3. filter'.phase = "idle"
    BY <2>1 DEF Idle
  <2>4. DetectedWhileAuto'
    BY <2>1, <2>3 DEF EndianParts, DetectedWhileAuto
  <2> QED BY <2>2, <2>4, JobsKept DEF EndianParts
<1> QED BY <1>3, <1>4, <1>5, <1>6, <1>7 DEF Filter

\* Every step keeps jobs with inline text off the files read alone and, for those
\* files, detects only in automatic mode and leaves the ones that declare an
\* endianness as they are.
LEMMA StepEndian ==
  ASSUME ManagerInv, EndianParts, [Next]_vars
  PROVE  EndianParts' /\ \A f \in ReadAlone : endian[f] # "auto" => endian'[f] = endian[f]
<1>1. CASE HandleFiltered
  <2>1. Receives("filtered") /\ Dequeue /\ UNCHANGED <<workerQ, filterQ, filter>>
    BY <1>1 DEF HandleFiltered, threadVars
  <2> QED BY <1>1, <2>1, FilteredWrites, WritebackKeepsEndian
<1>2. CASE HandleEndian
  <2>1. Receives("endian") /\ Dequeue /\ UNCHANGED <<workerQ, filterQ, filter>>
    BY <1>2 DEF HandleEndian, threadVars
  <2> QED BY <1>2, <2>1, EndianWrites, WritebackKeepsEndian
<1>3. CASE HandleRawFile
  <2>1. UNCHANGED endian
    BY <1>3 DEF HandleRawFile
  <2> QED BY <1>3, <2>1, RawFileKeepsEndian
<1>4. CASE HandleStart
  <2>1. /\ Receives("start") /\ Dequeue /\ UNCHANGED <<usage, endian, filterQ, filter>>
        /\ StartCapture(Head(mgrQ).target, Head(mgrQ).conn, NoModule)
    BY <1>4 DEF HandleStart, pdefVars, threadVars
  <2>2. Head(mgrQ).target \in Targets
    BY <2>1, MessageId DEF Message, JobTypes
  <2> QED BY <2>1, <2>2, StartKeepsEndian
<1>5. CASE HandleSampleAlert
  <2> DEFINE m == Head(mgrQ).module
  <2>1. /\ Receives("alert") /\ Dequeue /\ UNCHANGED <<usage, endian, filterQ, filter>>
        /\ \/ UNCHANGED workerQ
           \/ PreparedTarget(m) # NoTarget /\ StartCapture(PreparedTarget(m), NoConn, m)
    BY <1>5 DEF HandleSampleAlert, pdefVars, threadVars
  <2>2. m \in Modules
    BY <2>1, MessageId DEF Message, JobTypes
  <2>3. PreparedTarget(m) # NoTarget => PreparedTarget(m) \in Targets
    BY <2>2, ManagerAssumption DEF PreparedTarget
  <2>4. UNCHANGED workerQ \/ \E r \in Targets : \E c, user : StartCapture(r, c, user)
    BY <2>1, <2>3
  <2> QED BY <2>1, <2>4, StartKeepsEndian
<1>6. CASE \/ HandleStop \/ HandleStarted \/ HandleFileReady \/ HandleFinished \/ HandleFailed
           \/ HandleCompressDone \/ HandleCompressFailed
  <2>1. PICK type : Receives(type)
    BY <1>6 DEF HandleStop, HandleStarted, HandleFileReady, HandleFinished, HandleFailed,
       HandleCompressDone, HandleCompressFailed
  <2>2. Dequeue /\ UNCHANGED <<usage, endian, filterQ, filter, workerQ>>
    BY <1>6 DEF HandleStop, HandleStarted, HandleFileReady, HandleFinished, HandleFailed,
       HandleCompressDone, HandleCompressFailed, pdefVars, threadVars
  <2> QED BY <2>1, <2>2, StartKeepsEndian
<1>7. CASE \/ \E c \in Conns : HttpStop(c) \/ \E r \in Targets : HttpStart(c, r)
           \/ \E m \in Modules : SampleAlert(m)
           \/ \E id \in groups, result \in {"compress_done", "compress_failed"} :
                CleanupGroup(id, result)
  <2>1. UNCHANGED <<usage, endian, filterQ, filter, workerQ>>
    BY <1>7 DEF HttpStop, HttpStart, SampleAlert, CleanupGroup, pdefVars, threadVars
  <2>2. PICK m : /\ mgrQ' = Append(mgrQ, m) /\ m.type # "endian"
                 /\ m.type \notin JobTypes \/ Single(m.job)
    <3> DEFINE Adds == \E m : /\ mgrQ' = Append(mgrQ, m) /\ m.type # "endian"
                              /\ m.type \notin JobTypes \/ Single(m.job)
    <3>1. ASSUME NEW c \in Conns, HttpStop(c) PROVE Adds
      <4> DEFINE m == [type |-> "stop", conn |-> c]
      <4>1. mgrQ' = Append(mgrQ, m)
        BY <3>1 DEF HttpStop
      <4>2. m.type # "endian" /\ m.type \notin JobTypes
        BY DEF JobTypes
      <4> QED BY <4>1, <4>2
    <3>2. ASSUME NEW c \in Conns, NEW r \in Targets, HttpStart(c, r) PROVE Adds
      <4> DEFINE m == [type |-> "start", conn |-> c, target |-> r]
      <4>1. mgrQ' = Append(mgrQ, m)
        BY <3>2 DEF HttpStart
      <4>2. m.type # "endian" /\ m.type \notin JobTypes
        BY DEF JobTypes
      <4> QED BY <4>1, <4>2
    <3>3. ASSUME NEW module \in Modules, SampleAlert(module) PROVE Adds
      <4> DEFINE m == [type |-> "alert", module |-> module]
      <4>1. mgrQ' = Append(mgrQ, m)
        BY <3>3 DEF SampleAlert
      <4>2. m.type # "endian" /\ m.type \notin JobTypes
        BY DEF JobTypes
      <4> QED BY <4>1, <4>2
    <3>4. ASSUME NEW id \in groups, NEW result \in {"compress_done", "compress_failed"},
                 CleanupGroup(id, result)
          PROVE  Adds
      <4> DEFINE m == [type |-> result, job |-> [id |-> id, pdef |-> NoFile, inline |-> FALSE]]
      <4>1. mgrQ' = Append(mgrQ, m)
        BY <3>4 DEF CleanupGroup, Post
      <4>2. m.type # "endian" /\ Single(m.job)
        BY DEF Single
      <4> QED BY <4>1, <4>2
    <3> QED BY <1>7, <3>1, <3>2, <3>3, <3>4
  <2> QED BY <2>1, <2>2, PostKeepsEndian
<1>8. CASE Tick \/ CleanupTimer \/ CleanupEnqueue \/ UNCHANGED vars
  <2>1. UNCHANGED <<usage, endian, filterQ, filter, workerQ, mgrQ>>
    BY <1>8 DEF Tick, CleanupTimer, CleanupEnqueue, pdefVars, threadVars, vars
  <2> QED BY <2>1 DEF EndianParts, JobsOneDefinition, DetectedWhileAuto
<1>9. CASE \E w \in Workers : Worker(w)
  <2>1. UNCHANGED endian
    BY <1>9 DEF Worker, WorkerPrepareFails, WorkerStarts, WorkerSendsRaw, WorkerSendsFile,
       WorkerFinishes, pdefVars
  <2> QED BY <1>9, <2>1, WorkerKeepsEndian
<1>10. CASE Filter
  <2>1. UNCHANGED endian
    BY <1>10 DEF Filter, FilterGivesUp, FilterBegins, FilterSendsFile, FilterEnds,
       FilterSendsEndian, pdefVars
  <2> QED BY <1>10, <2>1, FilterKeepsEndian
<1> QED BY <1>1, <1>2, <1>3, <1>4, <1>5, <1>6, <1>7, <1>8, <1>9, <1>10 DEF Next, Manager, CleanupWork

\* For a file no request names together with inline text, a detection is recorded
\* or under way only in automatic mode or after the file was written back.
THEOREM ManagerEndianInvariant == Spec => []EndianInv
<1>1. Init => EndianInv
  <2>1. ASSUME Init PROVE EndianParts
    <3>1. /\ mgrQ = <<>> /\ filterQ = <<>> /\ workerQ = [w \in Workers |-> <<>>]
          /\ filter.phase = "idle" /\ \A f \in PdefFiles : ~usage[f].needed
      BY <2>1 DEF Init, Idle
    <3>2. ReadAlone \subseteq PdefFiles
      BY DEF ReadAlone
    <3> QED BY <3>1, <3>2 DEF EndianParts, JobsOneDefinition, DetectedWhileAuto, Range
  <2> QED BY <2>1 DEF EndianInv, EndianParts
<1>2. ManagerInv /\ EndianInv /\ [Next]_vars => EndianInv'
  BY StepEndian DEF EndianInv, EndianParts
<1> QED BY <1>1, <1>2, ManagerInvariant, PTL DEF Spec

\* A file that no request names together with inline text and that declares an
\* endianness, by its author or by an earlier writeback, keeps it.
THEOREM ManagerExplicitEndianKept == Spec => ExplicitEndianKept
<1>1. ManagerInv /\ EndianInv /\ [Next]_vars =>
        [\A f \in ReadAlone : endian[f] # "auto" => endian'[f] = endian[f]]_vars
  BY StepEndian DEF EndianInv, EndianParts
<1> QED BY <1>1, ManagerInvariant, ManagerEndianInvariant, PTL DEF Spec, ExplicitEndianKept
=============================================================================
