------------------------------ MODULE ReloadMgr -----------------------------
(* The strategy configuration: reload_mgr (core/legacy_core.h), the          *)
(* configuration objects it switches (src/rxstrategyconfig.cpp), the reload  *)
(* thread and CRxProcData::reload, and the threads that read through         *)
(* current(). A tick is half a second: the timer runs every two, file times  *)
(* count every two. Versions of the file are numbered, 0 is what a new       *)
(* object holds.                                                             *)
EXTENDS Integers

CONSTANTS Readers, NoRead,
          StartTime, MaxTime,  \* clock
          MaxEdits,            \* changes of the file
          Second               \* ticks of a second

ASSUME ReloadAssumption ==
    /\ {StartTime, MaxTime, MaxEdits} \subseteq Nat
    /\ StartTime <= MaxTime
    /\ Second \in Nat \ {0}

VARIABLES now,
          file,     \* [ver, state, mtime]; state is ok, broken or absent
          objects,  \* _objects: two halves of the fields, and last_load_time_
          curr,     \* _curr
          mode,     \* load() at startup or reload() by the timer
          pc,       \* where the thread that loads is
          temp,     \* the temporary object it loads into: [ver, time]
          due,      \* when the timer fires next
          reader,   \* a reader between current() and its last use of the pointer
          seen,     \* history: the version each reader read last
          torn,     \* history: some reader saw halves of two versions
          edits,
          missable  \* history: the last edit took the time of a version loaded before it

fileVars == <<file, edits, missable>>
loadVars == <<objects, curr, mode, pc, temp, due>>
readVars == <<reader, seen, torn>>
vars == <<now, fileVars, loadVars, readVars>>

NewObject == [a |-> 0, b |-> 0, time |-> 0]

\* query_mod_time
ModTime(f) == IF f.state = "absent" THEN -1 ELSE f.mtime

\* CRxProcData::init: two objects, neither loaded; main then calls load().
Init ==
    /\ now = StartTime
    /\ \E s \in {"ok", "broken", "absent"} : file = [ver |-> 1, state |-> s, mtime |-> 1]
    /\ objects = [i \in {0, 1} |-> NewObject] /\ curr = 0
    /\ mode = "load" /\ pc = "read" /\ temp = [ver |-> 0, time |-> 0]
    /\ due = StartTime
    /\ reader = [r \in Readers |-> NoRead] /\ seen = [r \in Readers |-> 0] /\ torn = FALSE
    /\ edits = 0 /\ missable = FALSE

-----------------------------------------------------------------------------
(* Main thread at startup, then the reload thread. *)

\* Mutant: a file that was replaced by an older one is not noticed.
NeedReloadNewer == ModTime(file) > objects[curr].time

\* need_reload of the current object.
NeedReload == ModTime(file) > 0 /\ ModTime(file) # objects[curr].time

\* handle_timeout: CRxProcData::reload, then the timer is armed again. When the
\* clock has reached its bound, time is taken to pass while nobody reads.
ReloadTimer ==
    /\ pc = "idle"
    /\ now >= due \/ (now = MaxTime /\ \A r \in Readers : reader[r] = NoRead)
    /\ IF NeedReload THEN pc' = "read" /\ UNCHANGED due ELSE due' = now + Second /\ UNCHANGED pc
    /\ UNCHANGED <<now, fileVars, objects, curr, mode, temp, readVars>>

\* Mutant: reload() writes the object that readers use.
TargetCurrent == curr

\* The object written: load() takes the current one, reload() the other.
Target == IF mode = "load" THEN curr ELSE 1 - curr

\* The end of load() or reload().
Return ==
    IF mode = "load" THEN pc' = "start" /\ UNCHANGED due ELSE pc' = "idle" /\ due' = now + Second

\* load_internal: the file is read; one that is absent or does not parse ends it.
ReadFile ==
    /\ pc = "read" /\ file.state = "ok"
    /\ temp' = [temp EXCEPT !.ver = file.ver]
    /\ pc' = "stat"
    /\ UNCHANGED <<now, fileVars, objects, curr, mode, due, readVars>>

\* Mutant: the objects are switched although nothing was loaded.
LoadFailsSwitching ==
    /\ pc = "read" /\ file.state # "ok"
    /\ Return
    /\ curr' = IF mode = "load" THEN curr ELSE 1 - curr
    /\ UNCHANGED <<now, fileVars, objects, mode, temp, readVars>>

LoadFails ==
    /\ pc = "read" /\ file.state # "ok"
    /\ Return
    /\ UNCHANGED <<now, fileVars, objects, curr, mode, temp, readVars>>

\* The end of load_internal: last_load_time_ is the file's time by then.
StatFile ==
    /\ pc = "stat"
    /\ temp' = [temp EXCEPT !.time = ModTime(file)]
    /\ pc' = "assign"
    /\ UNCHANGED <<now, fileVars, objects, curr, mode, due, readVars>>

\* load() and reload() copy the temporary object field by field.
AssignFirst ==
    /\ pc = "assign"
    /\ objects' = [objects EXCEPT ![Target].a = temp.ver]
    /\ pc' = "assign_rest"
    /\ UNCHANGED <<now, fileVars, curr, mode, temp, due, readVars>>

\* Mutant: the objects are switched before the last fields are copied.
AssignRestSwitched ==
    /\ pc = "assign_rest"
    /\ objects' = [objects EXCEPT ![1 - Target].b = temp.ver, ![1 - Target].time = temp.time]
    /\ curr' = IF mode = "load" THEN curr ELSE 1 - curr
    /\ Return
    /\ UNCHANGED <<now, fileVars, mode, temp, readVars>>

AssignRest ==
    /\ pc = "assign_rest"
    /\ objects' = [objects EXCEPT ![Target].b = temp.ver, ![Target].time = temp.time]
    /\ curr' = IF mode = "load" THEN curr ELSE 1 - curr
    /\ Return
    /\ UNCHANGED <<now, fileVars, mode, temp, readVars>>

\* init_threads: the reload thread starts, and the threads that read.
StartThreads ==
    /\ pc = "start"
    /\ mode' = "reload" /\ pc' = "idle" /\ due' = now + Second
    /\ UNCHANGED <<now, fileVars, objects, curr, temp, readVars>>

Loading == ReloadTimer \/ ReadFile \/ LoadFails \/ StatFile \/ AssignFirst \/ AssignRest \/ StartThreads

-----------------------------------------------------------------------------
(* Readers: get_capture_config_snapshot, get_record_base_dir, the manager's  *)
(* use of the protocol map, emit_alert.                                      *)

BeginRead(r) ==
    /\ reader[r] = NoRead /\ mode = "reload" /\ now < MaxTime
    /\ reader' = [reader EXCEPT ![r] = [obj |-> curr, since |-> now, first |-> -1]]
    /\ UNCHANGED <<now, fileVars, loadVars, seen, torn>>

ReadFirst(r) ==
    /\ reader[r] # NoRead /\ reader[r].first = -1
    /\ reader' = [reader EXCEPT ![r].first = objects[reader[r].obj].a]
    /\ UNCHANGED <<now, fileVars, loadVars, seen, torn>>

ReadRest(r) ==
    /\ reader[r] # NoRead /\ reader[r].first # -1
    /\ reader' = [reader EXCEPT ![r] = NoRead]
    /\ seen' = [seen EXCEPT ![r] = objects[reader[r].obj].b]
    /\ torn' = (torn \/ objects[reader[r].obj].b # reader[r].first)
    /\ UNCHANGED <<now, fileVars, loadVars>>

-----------------------------------------------------------------------------
(* The environment. *)

\* Someone replaces the file, with the time of day or with an older time. The
\* edit may be missed when its time is the one the loader takes, or took, for
\* a version read before it.
Edit(state, m) ==
    /\ edits < MaxEdits
    /\ edits' = edits + 1
    /\ file' = [ver |-> file.ver + 1, state |-> state, mtime |-> m]
    /\ missable' = \/ pc = "stat"
                   \/ pc \in {"assign", "assign_rest"} /\ m = temp.time
                   \/ m = objects[curr].time
    /\ UNCHANGED <<now, loadVars, readVars>>

\* A reader is done with its pointer before a second has passed.
Tick ==
    /\ now < MaxTime
    /\ \A r \in Readers : reader[r] # NoRead => now + 1 < reader[r].since + Second
    /\ now' = now + 1
    /\ UNCHANGED <<fileVars, loadVars, readVars>>

Next ==
    \/ Loading \/ Tick
    \/ \E r \in Readers : BeginRead(r) \/ ReadFirst(r) \/ ReadRest(r)
    \/ \E state \in {"ok", "broken", "absent"}, m \in {1, now \div Second} : Edit(state, m)

\* The reload thread runs and its timer is armed after every turn; readers end.
Spec == Init /\ [][Next]_vars /\ WF_vars(Loading) /\ WF_vars(Tick)
             /\ \A r \in Readers : WF_vars(ReadFirst(r) \/ ReadRest(r))

-----------------------------------------------------------------------------
(* Properties. *)

\* The state has its types, and between reloads both objects are whole.
TypeOK ==
    /\ now \in StartTime..MaxTime /\ curr \in {0, 1} /\ due \in 0..(MaxTime + Second)
    /\ mode \in {"load", "reload"}
    /\ pc \in {"read", "stat", "assign", "assign_rest", "start", "idle"}
    /\ \A i \in {0, 1} : pc = "idle" => objects[i].a = objects[i].b
    /\ \A r \in Readers : reader[r] = NoRead \/ reader[r].obj \in {0, 1}
    /\ edits \in 0..MaxEdits /\ missable \in BOOLEAN

\* A reader that keeps the pointer of current() for less than a second never
\* sees a configuration that mixes two versions of the file, however the
\* reload thread runs meanwhile.
ReadWhole == ~torn

-----------------------------------------------------------------------------
(* What ReadWhole and NeverOlder rest on: an inductive invariant.            *)

Object == [a : Nat, b : Nat, time : Int]
Read == [obj : {0, 1}, since : Nat, first : Nat \cup {-1}]

Reading(r) == reader[r] # NoRead

\* The types ReadWhole and NeverOlder need beyond TypeOK.
DataTyped ==
    /\ file \in [ver : Nat, state : {"ok", "broken", "absent"}, mtime : Int]
    /\ objects \in [{0, 1} -> Object]
    /\ temp \in [ver : Nat, time : Int]
    /\ DOMAIN reader = Readers /\ \A r \in Readers : Reading(r) => reader[r] \in Read
    /\ seen \in [Readers -> Nat]
    /\ torn \in BOOLEAN

\* A reader holds its pointer for less than a second, and only once the threads
\* have started.
ReadsShort ==
    \A r \in Readers : Reading(r) =>
        /\ mode = "reload"
        /\ reader[r].since <= now /\ now < reader[r].since + Second

\* A reader that still holds the object the last reload switched away from
\* began before that reload ended, so the timer leaves it time to finish.
OldObjectAtRest ==
    \A r \in Readers : Reading(r) /\ reader[r].obj # curr =>
        pc = "idle" /\ due >= reader[r].since + Second

\* Only the object being copied to has halves of two versions.
WholeButTarget ==
    \A i \in {0, 1} :
        objects[i].a = objects[i].b \/ (pc = "assign_rest" /\ i = Target)

\* The half a reader has read is still the one its object has.
FirstHalfKept ==
    \A r \in Readers : Reading(r) /\ reader[r].first # -1 =>
        reader[r].first = objects[reader[r].obj].a

\* Versions only grow: from the idle object to the current one, to the one
\* being loaded, to the file; and no reader is ahead of what it holds.
VersionsOrdered ==
    /\ pc = "assign_rest" => objects[Target].a = temp.ver
    /\ objects[1 - curr].b <= objects[curr].b
    /\ objects[curr].b <= file.ver
    /\ pc \in {"stat", "assign", "assign_rest"} =>
          objects[curr].b <= temp.ver /\ temp.ver <= file.ver
    /\ \A r \in Readers :
          /\ seen[r] <= objects[curr].b
          /\ Reading(r) => seen[r] <= objects[reader[r].obj].b

\* The inductive invariant of the reload.
ReloadInv ==
    /\ TypeOK /\ DataTyped /\ ReadsShort /\ OldObjectAtRest
    /\ WholeButTarget /\ FirstHalfKept /\ VersionsOrdered /\ ReadWhole

-----------------------------------------------------------------------------
\* Readers never go back to an older version, also when reloads fail.
NeverOlder == [][\A r \in Readers : seen[r] <= seen'[r]]_vars

\* Once the file is left alone and is readable, its version becomes and stays
\* current, except when the last edit got the time of a version already loaded
\* (a second edit in one second, or one between reading the file and asking for
\* its time).
EditsApplied ==
    <>[](file.state = "ok" /\ ~missable => objects[curr].a = file.ver)
=============================================================================
