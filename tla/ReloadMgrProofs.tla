-------------------------- MODULE ReloadMgrProofs ---------------------------
(***************************************************************************)
(* Theorems about the strategy configuration, for any set of readers, any  *)
(* number of edits of the file, any length of the clock and any length of  *)
(* a second.                                                               *)
(***************************************************************************)
EXTENDS ReloadMgr, TLAPS

\* The initial state satisfies the invariant.
LEMMA ReloadInit == Init => ReloadInv
<1> SUFFICES ASSUME Init PROVE ReloadInv
  OBVIOUS
<1> USE ReloadAssumption DEF Init
<1>1. objects = [i \in {0, 1} |-> NewObject] /\ NewObject \in Object
  BY DEF NewObject, Object
<1>2. objects[0] = NewObject /\ objects[1] = NewObject /\ NewObject.a = 0 /\ NewObject.b = 0
  BY <1>1 DEF NewObject
<1>3. \A r \in Readers : ~Reading(r) /\ seen[r] = 0
  BY DEF Reading
<1>4. TypeOK
  <2>1. missable \in BOOLEAN
    BY Zenon
  <2>2. \A i \in {0, 1} : objects[i].a = objects[i].b
    BY <1>2
  <2>3. now \in StartTime..MaxTime /\ due \in 0..(MaxTime + Second) /\ edits \in 0..MaxEdits
    OBVIOUS
  <2> QED BY <1>3, <2>1, <2>2, <2>3 DEF TypeOK, Reading
<1>5. DataTyped
  <2>1. torn \in BOOLEAN
    BY Zenon
  <2>2. file \in [ver : Nat, state : {"ok", "broken", "absent"}, mtime : Int]
    OBVIOUS
  <2>3. temp \in [ver : Nat, time : Int] /\ seen \in [Readers -> Nat]
    OBVIOUS
  <2> QED BY <1>1, <1>3, <2>1, <2>2, <2>3 DEF DataTyped
<1>6. ReadsShort /\ OldObjectAtRest /\ FirstHalfKept
  BY <1>3 DEF ReadsShort, OldObjectAtRest, FirstHalfKept
<1>7. WholeButTarget /\ ReadWhole
  BY <1>2 DEF WholeButTarget, ReadWhole
<1>8. VersionsOrdered
  BY <1>2, <1>3 DEF VersionsOrdered
<1> QED BY <1>4, <1>5, <1>6, <1>7, <1>8 DEF ReloadInv

\* The timer starts a reload only when nobody holds the idle object any more.
LEMMA ReloadTimerInv ==
  ASSUME ReloadInv, ReloadTimer
  PROVE  ReloadInv'
<1> USE ReloadAssumption
<1>1. TypeOK'
  BY DEF ReloadInv, ReloadTimer, fileVars, readVars, TypeOK
<1>2. DataTyped'
  BY DEF ReloadInv, ReloadTimer, fileVars, readVars, DataTyped, Reading
<1>3. ReadsShort'
  BY DEF ReloadInv, ReloadTimer, fileVars, readVars, ReadsShort, Reading
<1>4. OldObjectAtRest'
  <2> SUFFICES ASSUME NEW r \in Readers, Reading(r), reader[r].obj # curr
               PROVE  pc' = "idle" /\ due' >= reader[r].since + Second
    BY DEF ReloadTimer, readVars, OldObjectAtRest, Reading
  <2>1. /\ due >= reader[r].since + Second
        /\ reader[r].since <= now /\ now < reader[r].since + Second
        /\ {now, due, reader[r].since} \subseteq Nat
    BY DEF ReloadInv, OldObjectAtRest, ReadsShort, TypeOK, DataTyped, Read
  <2>2. ~NeedReload
    BY <2>1 DEF ReloadTimer, Reading
  <2> QED BY <2>1, <2>2 DEF ReloadTimer
<1>5. WholeButTarget'
  BY DEF ReloadInv, ReloadTimer, WholeButTarget, Target
<1>6. FirstHalfKept'
  BY DEF ReloadInv, ReloadTimer, readVars, FirstHalfKept, Reading
<1>7. VersionsOrdered'
  BY DEF ReloadInv, ReloadTimer, fileVars, readVars, VersionsOrdered, Reading, Target
<1>8. ReadWhole'
  BY DEF ReloadInv, ReloadTimer, readVars, ReadWhole
<1> QED BY <1>1, <1>2, <1>3, <1>4, <1>5, <1>6, <1>7, <1>8 DEF ReloadInv

\* Reading the file takes its version, which no object is ahead of.
LEMMA ReadFileInv ==
  ASSUME ReloadInv, ReadFile
  PROVE  ReloadInv'
<1> USE ReloadAssumption DEF ReadFile, fileVars, readVars
<1>1. TypeOK'
  BY DEF ReloadInv, TypeOK
<1>2. DataTyped'
  BY DEF ReloadInv, DataTyped, Reading
<1>3. ReadsShort' /\ OldObjectAtRest'
  BY DEF ReloadInv, ReadsShort, OldObjectAtRest, Reading
<1>4. WholeButTarget' /\ FirstHalfKept' /\ ReadWhole'
  BY DEF ReloadInv, WholeButTarget, FirstHalfKept, Reading, Target, ReadWhole
<1>5. VersionsOrdered'
  BY DEF ReloadInv, DataTyped, Object, TypeOK, VersionsOrdered, Reading, Target
<1> QED BY <1>1, <1>2, <1>3, <1>4, <1>5 DEF ReloadInv

\* A file that cannot be read leaves every object alone.
LEMMA LoadFailsInv ==
  ASSUME ReloadInv, LoadFails
  PROVE  ReloadInv'
<1> USE ReloadAssumption DEF LoadFails, Return, fileVars, readVars
<1>1. TypeOK'
  BY DEF ReloadInv, TypeOK, WholeButTarget
<1>2. DataTyped'
  BY DEF ReloadInv, DataTyped, Reading
<1>3. ReadsShort' /\ OldObjectAtRest'
  BY DEF ReloadInv, TypeOK, ReadsShort, OldObjectAtRest, Reading
<1>4. WholeButTarget' /\ FirstHalfKept' /\ ReadWhole'
  BY DEF ReloadInv, WholeButTarget, FirstHalfKept, Reading, Target, ReadWhole
<1>5. VersionsOrdered'
  BY DEF ReloadInv, VersionsOrdered, Reading, Target
<1> QED BY <1>1, <1>2, <1>3, <1>4, <1>5 DEF ReloadInv

\* Asking for the file's time changes only the temporary object.
LEMMA StatFileInv ==
  ASSUME ReloadInv, StatFile
  PROVE  ReloadInv'
<1> USE ReloadAssumption DEF StatFile, fileVars, readVars
<1>1. TypeOK'
  BY DEF ReloadInv, TypeOK
<1>2. DataTyped'
  BY DEF ReloadInv, DataTyped, Reading, ModTime
<1>3. ReadsShort' /\ OldObjectAtRest'
  BY DEF ReloadInv, ReadsShort, OldObjectAtRest, Reading
<1>4. WholeButTarget' /\ FirstHalfKept' /\ ReadWhole'
  BY DEF ReloadInv, WholeButTarget, FirstHalfKept, Reading, Target, ReadWhole
<1>5. VersionsOrdered'
  BY DEF ReloadInv, DataTyped, VersionsOrdered, Reading, Target
<1> QED BY <1>1, <1>2, <1>3, <1>4, <1>5 DEF ReloadInv

\* While a reload or load copies, no reader holds the object it copies to.
LEMMA TargetUnread ==
  ASSUME ReloadInv, pc \in {"assign", "assign_rest"}, NEW r \in Readers, Reading(r)
  PROVE  mode = "reload" /\ reader[r].obj = curr /\ reader[r].obj # Target
BY DEF ReloadInv, TypeOK, OldObjectAtRest, ReadsShort, Target

\* Copying the first fields.
LEMMA AssignFirstInv ==
  ASSUME ReloadInv, AssignFirst
  PROVE  ReloadInv'
<1> USE ReloadAssumption DEF AssignFirst, fileVars, readVars
<1>1. /\ Target \in {0, 1} /\ Target' = Target
      /\ objects' \in [{0, 1} -> Object]
      /\ objects'[Target].a = temp.ver
      /\ \A i \in {0, 1} : objects'[i].b = objects[i].b
      /\ \A i \in {0, 1} : i # Target => objects'[i] = objects[i]
  BY DEF ReloadInv, TypeOK, DataTyped, Object, Target
<1>2. TypeOK'
  BY DEF ReloadInv, TypeOK
<1>3. DataTyped'
  BY <1>1 DEF ReloadInv, DataTyped, Reading
<1>4. ReadsShort' /\ OldObjectAtRest'
  BY DEF ReloadInv, ReadsShort, OldObjectAtRest, Reading
<1>5. WholeButTarget' /\ ReadWhole'
  BY <1>1 DEF ReloadInv, WholeButTarget, ReadWhole
<1>6. FirstHalfKept'
  BY <1>1, TargetUnread DEF ReloadInv, DataTyped, Read, FirstHalfKept, Reading
<1>7. VersionsOrdered'
  <2>1. curr \in {0, 1} /\ 1 - curr \in {0, 1} /\ curr' = curr
    BY DEF ReloadInv, TypeOK
  <2>2. \A r \in Readers : Reading(r) => reader[r].obj \in {0, 1}
    BY DEF ReloadInv, DataTyped, Read
  <2> QED BY <1>1, <2>1, <2>2 DEF ReloadInv, VersionsOrdered, Reading
<1> QED BY <1>2, <1>3, <1>4, <1>5, <1>6, <1>7 DEF ReloadInv

\* Copying the last fields and switching: the object that becomes current is
\* whole and newer than the one readers still hold, which stays as it is.
LEMMA AssignRestInv ==
  ASSUME ReloadInv, AssignRest
  PROVE  ReloadInv'
<1> USE ReloadAssumption DEF AssignRest, Return, fileVars, readVars
<1>1. /\ Target \in {0, 1} /\ curr \in {0, 1} /\ curr' = Target
      /\ objects' \in [{0, 1} -> Object]
      /\ objects'[Target].a = temp.ver /\ objects'[Target].b = temp.ver
      /\ \A i \in {0, 1} : i # Target => objects'[i] = objects[i]
  BY DEF ReloadInv, TypeOK, DataTyped, Object, Target, VersionsOrdered
<1>2. \A i \in {0, 1} : objects'[i].a = objects'[i].b
  BY <1>1 DEF ReloadInv, WholeButTarget
<1>3. TypeOK'
  BY <1>1, <1>2 DEF ReloadInv, TypeOK
<1>4. DataTyped'
  BY <1>1 DEF ReloadInv, DataTyped, Reading
<1>5. ReadsShort'
  BY DEF ReloadInv, ReadsShort, Reading
<1>6. OldObjectAtRest'
  BY DEF ReloadInv, TypeOK, DataTyped, Read, ReadsShort, OldObjectAtRest, Reading
<1>7. WholeButTarget' /\ ReadWhole'
  BY <1>2 DEF ReloadInv, WholeButTarget, ReadWhole
<1>8. FirstHalfKept'
  BY <1>1, TargetUnread DEF ReloadInv, DataTyped, Read, FirstHalfKept, Reading
<1>9. VersionsOrdered'
  <2>1. /\ objects[curr].b <= temp.ver /\ temp.ver <= file.ver
        /\ {objects[0].b, objects[1].b, temp.ver, file.ver} \subseteq Nat
    BY DEF ReloadInv, VersionsOrdered, TypeOK, DataTyped, Object
  <2>2. (objects[1 - curr].b <= objects[curr].b /\ objects[curr].b <= file.ver)'
    BY <1>1, <2>1 DEF Target, ReloadInv, VersionsOrdered
  <2>3. ASSUME NEW r \in Readers
        PROVE  /\ seen[r] <= objects'[curr'].b
               /\ Reading(r) => seen[r] <= objects'[reader[r].obj].b
    <3>1. seen[r] \in Nat /\ seen[r] <= objects[curr].b
      BY DEF ReloadInv, DataTyped, VersionsOrdered
    <3>2. seen[r] <= objects'[curr'].b
      BY <3>1, <2>1, <1>1
    <3>3. Reading(r) => seen[r] <= objects'[reader[r].obj].b
      BY <3>1, <1>1, TargetUnread
    <3> QED BY <3>2, <3>3
  <2> QED BY <2>2, <2>3 DEF VersionsOrdered, Reading
<1> QED BY <1>3, <1>4, <1>5, <1>6, <1>7, <1>8, <1>9 DEF ReloadInv

\* Starting the threads.
LEMMA StartThreadsInv ==
  ASSUME ReloadInv, StartThreads
  PROVE  ReloadInv'
<1> USE ReloadAssumption DEF StartThreads, fileVars, readVars
<1>1. TypeOK'
  BY DEF ReloadInv, TypeOK, WholeButTarget
<1>2. DataTyped'
  BY DEF ReloadInv, DataTyped, Reading
<1>3. ReadsShort' /\ OldObjectAtRest'
  BY DEF ReloadInv, ReadsShort, OldObjectAtRest, Reading
<1>4. WholeButTarget' /\ FirstHalfKept' /\ ReadWhole'
  BY DEF ReloadInv, WholeButTarget, FirstHalfKept, Reading, Target, ReadWhole
<1>5. VersionsOrdered'
  BY DEF ReloadInv, VersionsOrdered, Reading, Target
<1> QED BY <1>1, <1>2, <1>3, <1>4, <1>5 DEF ReloadInv

\* current(): the reader gets the object that is whole.
LEMMA BeginReadInv ==
  ASSUME ReloadInv, NEW q \in Readers, BeginRead(q)
  PROVE  ReloadInv'
<1> USE ReloadAssumption DEF BeginRead, fileVars, loadVars
<1>1. /\ DOMAIN reader = Readers /\ DOMAIN reader' = Readers
      /\ reader'[q] = [obj |-> curr, since |-> now, first |-> -1]
      /\ \A r \in Readers \ {q} : reader'[r] = reader[r]
  BY DEF ReloadInv, DataTyped
<1>2. reader'[q] \in Read
  BY <1>1 DEF ReloadInv, TypeOK, Read
<1>3. TypeOK'
  BY <1>1 DEF ReloadInv, TypeOK
<1>4. DataTyped'
  BY <1>1, <1>2 DEF ReloadInv, DataTyped, Reading
<1>5. ReadsShort' /\ OldObjectAtRest'
  BY <1>1 DEF ReloadInv, TypeOK, ReadsShort, OldObjectAtRest, Reading
<1>6. WholeButTarget' /\ ReadWhole'
  BY DEF ReloadInv, WholeButTarget, Target, ReadWhole
<1>7. FirstHalfKept'
  BY <1>1 DEF ReloadInv, FirstHalfKept, Reading
<1>8. VersionsOrdered'
  BY <1>1 DEF ReloadInv, VersionsOrdered, Reading, Target
<1> QED BY <1>3, <1>4, <1>5, <1>6, <1>7, <1>8 DEF ReloadInv

\* The first use of the pointer.
LEMMA ReadFirstInv ==
  ASSUME ReloadInv, NEW q \in Readers, ReadFirst(q)
  PROVE  ReloadInv'
<1> USE ReloadAssumption DEF ReadFirst, fileVars, loadVars
<1>1. /\ DOMAIN reader = Readers /\ DOMAIN reader' = Readers
      /\ Reading(q) /\ reader[q] \in Read
      /\ reader'[q].first = objects[reader[q].obj].a
      /\ reader'[q].obj = reader[q].obj /\ reader'[q].since = reader[q].since
      /\ \A r \in Readers \ {q} : reader'[r] = reader[r]
  BY DEF ReloadInv, DataTyped, Reading, Read
<1>2. reader'[q] \in Read
  BY <1>1 DEF ReloadInv, DataTyped, Read, Object
<1>3. TypeOK'
  BY <1>1 DEF ReloadInv, TypeOK, Read
<1>4. DataTyped'
  BY <1>1, <1>2 DEF ReloadInv, DataTyped, Reading
<1>5. ReadsShort' /\ OldObjectAtRest'
  BY <1>1 DEF ReloadInv, ReadsShort, OldObjectAtRest, Reading
<1>6. WholeButTarget' /\ ReadWhole'
  BY DEF ReloadInv, WholeButTarget, Target, ReadWhole
<1>7. FirstHalfKept'
  BY <1>1 DEF ReloadInv, FirstHalfKept, Reading
<1>8. VersionsOrdered'
  BY <1>1 DEF ReloadInv, VersionsOrdered, Reading, Target
<1> QED BY <1>3, <1>4, <1>5, <1>6, <1>7, <1>8 DEF ReloadInv

\* The object a reader holds is whole.
LEMMA HeldObjectWhole ==
  ASSUME ReloadInv, NEW r \in Readers, Reading(r)
  PROVE  objects[reader[r].obj].a = objects[reader[r].obj].b
BY DEF ReloadInv, TypeOK, DataTyped, Read, ReadsShort, OldObjectAtRest, WholeButTarget, Target

\* The last use of the pointer: both halves are of one version, not older than
\* the version the reader has seen before.
LEMMA ReadRestInv ==
  ASSUME ReloadInv, NEW q \in Readers, ReadRest(q)
  PROVE  ReloadInv' /\ \A r \in Readers : seen[r] <= seen'[r]
<1> USE ReloadAssumption DEF ReadRest, fileVars, loadVars
<1>1. /\ DOMAIN reader = Readers /\ DOMAIN reader' = Readers
      /\ Reading(q) /\ reader[q] \in Read /\ reader[q].first # -1
      /\ reader'[q] = NoRead
      /\ \A r \in Readers \ {q} : reader'[r] = reader[r]
      /\ seen'[q] = objects[reader[q].obj].b
      /\ \A r \in Readers \ {q} : seen'[r] = seen[r]
      /\ seen' \in [Readers -> Nat]
  BY DEF ReloadInv, DataTyped, Reading, Read, Object
<1>2. torn' = torn
  BY <1>1, HeldObjectWhole DEF ReloadInv, FirstHalfKept, ReadWhole, DataTyped
<1>3. TypeOK'
  BY <1>1 DEF ReloadInv, TypeOK
<1>4. DataTyped'
  BY <1>1, <1>2 DEF ReloadInv, DataTyped, Reading
<1>5. ReadsShort' /\ OldObjectAtRest'
  BY <1>1 DEF ReloadInv, ReadsShort, OldObjectAtRest, Reading
<1>6. WholeButTarget' /\ ReadWhole'
  BY <1>2 DEF ReloadInv, WholeButTarget, Target, ReadWhole
<1>7. FirstHalfKept'
  BY <1>1 DEF ReloadInv, FirstHalfKept, Reading
<1>8. objects[reader[q].obj].b <= objects[curr].b
  BY <1>1 DEF ReloadInv, TypeOK, DataTyped, Object, Read, VersionsOrdered
<1>9. VersionsOrdered'
  BY <1>1, <1>8 DEF ReloadInv, VersionsOrdered, Reading, Target
<1>10. \A r \in Readers : seen[r] <= seen'[r]
  BY <1>1 DEF ReloadInv, DataTyped, VersionsOrdered
<1> QED BY <1>3, <1>4, <1>5, <1>6, <1>7, <1>9, <1>10 DEF ReloadInv

\* An edit makes the file's version larger and touches nothing else.
LEMMA EditInv ==
  ASSUME ReloadInv, NEW state \in {"ok", "broken", "absent"}, NEW m \in {1, now \div Second},
         Edit(state, m)
  PROVE  ReloadInv'
<1> USE ReloadAssumption DEF Edit, loadVars, readVars
<1>1. m \in Int
  BY DEF ReloadInv, TypeOK
<1>2. file'.ver = file.ver + 1 /\ file.ver \in Nat
  BY DEF ReloadInv, DataTyped
<1>3. TypeOK'
  BY DEF ReloadInv, TypeOK
<1>4. DataTyped'
  BY <1>1, <1>2 DEF ReloadInv, DataTyped, Reading
<1>5. ReadsShort' /\ OldObjectAtRest'
  BY DEF ReloadInv, ReadsShort, OldObjectAtRest, Reading
<1>6. WholeButTarget' /\ FirstHalfKept' /\ ReadWhole'
  BY DEF ReloadInv, WholeButTarget, FirstHalfKept, Reading, Target, ReadWhole
<1>7. VersionsOrdered'
  BY <1>2 DEF ReloadInv, VersionsOrdered, Reading, Target, TypeOK, DataTyped, Object
<1> QED BY <1>3, <1>4, <1>5, <1>6, <1>7 DEF ReloadInv

\* Time passes only as far as the readers' pointers allow.
LEMMA TickInv ==
  ASSUME ReloadInv, Tick
  PROVE  ReloadInv'
<1> USE ReloadAssumption DEF Tick, fileVars, loadVars, readVars
<1>1. TypeOK'
  BY DEF ReloadInv, TypeOK
<1>2. DataTyped'
  BY DEF ReloadInv, DataTyped, Reading
<1>3. ReadsShort' /\ OldObjectAtRest'
  BY DEF ReloadInv, TypeOK, DataTyped, Read, ReadsShort, OldObjectAtRest, Reading
<1>4. WholeButTarget' /\ FirstHalfKept' /\ ReadWhole'
  BY DEF ReloadInv, WholeButTarget, FirstHalfKept, Reading, Target, ReadWhole
<1>5. VersionsOrdered'
  BY DEF ReloadInv, VersionsOrdered, Reading, Target
<1> QED BY <1>1, <1>2, <1>3, <1>4, <1>5 DEF ReloadInv

\* Every step preserves the invariant, and no step takes a reader back.
LEMMA ReloadStep ==
  ASSUME ReloadInv, [Next]_vars
  PROVE  ReloadInv' /\ \A r \in Readers : seen[r] <= seen'[r]
<1>1. seen \in [Readers -> Nat]
  BY DEF ReloadInv, DataTyped
<1> USE <1>1
<1>2. CASE ReloadTimer
  BY <1>2, ReloadTimerInv DEF ReloadTimer, readVars
<1>3. CASE ReadFile
  BY <1>3, ReadFileInv DEF ReadFile, readVars
<1>4. CASE LoadFails
  BY <1>4, LoadFailsInv DEF LoadFails, readVars
<1>5. CASE StatFile
  BY <1>5, StatFileInv DEF StatFile, readVars
<1>6. CASE AssignFirst
  BY <1>6, AssignFirstInv DEF AssignFirst, readVars
<1>7. CASE AssignRest
  BY <1>7, AssignRestInv DEF AssignRest, readVars
<1>8. CASE StartThreads
  BY <1>8, StartThreadsInv DEF StartThreads, readVars
<1>9. CASE Tick
  BY <1>9, TickInv DEF Tick, readVars
<1>10. ASSUME NEW r \in Readers, BeginRead(r)
       PROVE  ReloadInv' /\ \A s \in Readers : seen[s] <= seen'[s]
  <2>1. ReloadInv'
    BY <1>10, BeginReadInv
  <2>2. seen' = seen
    BY <1>10 DEF BeginRead
  <2> QED BY <2>1, <2>2
<1>11. ASSUME NEW r \in Readers, ReadFirst(r)
       PROVE  ReloadInv' /\ \A s \in Readers : seen[s] <= seen'[s]
  <2>1. ReloadInv'
    BY <1>11, ReadFirstInv
  <2>2. seen' = seen
    BY <1>11 DEF ReadFirst
  <2> QED BY <2>1, <2>2
<1>12. ASSUME NEW r \in Readers, ReadRest(r)
       PROVE  ReloadInv' /\ \A s \in Readers : seen[s] <= seen'[s]
  BY <1>12, ReadRestInv
<1>13. ASSUME NEW state \in {"ok", "broken", "absent"}, NEW m \in {1, now \div Second},
              Edit(state, m)
       PROVE  ReloadInv' /\ \A s \in Readers : seen[s] <= seen'[s]
  BY <1>13, EditInv DEF Edit, readVars
<1>14. CASE UNCHANGED vars
  BY <1>14 DEF vars, fileVars, loadVars, readVars, ReloadInv, TypeOK, DataTyped, ReadsShort,
               OldObjectAtRest, WholeButTarget, FirstHalfKept, VersionsOrdered, ReadWhole,
               Reading, Target
<1> QED
  BY <1>2, <1>3, <1>4, <1>5, <1>6, <1>7, <1>8, <1>9, <1>10, <1>11, <1>12, <1>13, <1>14
     DEF Next, Loading

\* The inductive invariant of the configuration objects, their loader and
\* their readers holds in every reachable state.
THEOREM ReloadInvariant == Spec => []ReloadInv
<1>1. ReloadInv /\ [Next]_vars => ReloadInv'
  BY ReloadStep
<1> QED BY ReloadInit, <1>1, PTL DEF Spec

\* The state of the reload manager keeps its types, and between reloads both
\* objects are whole.
THEOREM ReloadTypeOK == Spec => []TypeOK
<1>1. ReloadInv => TypeOK
  BY DEF ReloadInv
<1> QED BY <1>1, ReloadInvariant, PTL

\* Whatever the reload thread does meanwhile, a reader that keeps the pointer
\* of current() for less than a second never sees halves of two versions.
THEOREM ReloadReadWhole == Spec => []ReadWhole
<1>1. ReloadInv => ReadWhole
  BY DEF ReloadInv
<1> QED BY <1>1, ReloadInvariant, PTL

\* No reader is ever taken back to an older version of the configuration.
THEOREM ReloadNeverOlder == Spec => NeverOlder
<1>1. ReloadInv /\ [Next]_vars => [\A r \in Readers : seen[r] <= seen'[r]]_vars
  BY ReloadStep
<1> QED BY <1>1, ReloadInvariant, PTL DEF Spec, NeverOlder
=============================================================================
