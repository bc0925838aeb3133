-------------------------- MODULE FileStoreProofs --------------------------
(***************************************************************************)
(* Theorems about the files of captures, for any requests, number of       *)
(* workers, packets, limits, clock, faults and files left by earlier runs. *)
(***************************************************************************)
EXTENDS FileStore, QueueLemmas, FiniteSetTheorems

-----------------------------------------------------------------------------
(* Partial functions and constants. *)

\* Adding to a partial function.
LEMMA PutFacts ==
  ASSUME NEW f, NEW x, NEW y
  PROVE  /\ DOMAIN Put(f, x, y) = DOMAIN f \cup {x}
         /\ Put(f, x, y)[x] = y
         /\ \A z \in DOMAIN f : z # x => Put(f, x, y)[z] = f[z]
         /\ Put(f, x, y) = [z \in DOMAIN Put(f, x, y) |-> Put(f, x, y)[z]]
  BY DEF Put

\* Taking keys from a partial function.
LEMMA WithoutFacts ==
  ASSUME NEW f, NEW K
  PROVE  /\ DOMAIN Without(f, K) = DOMAIN f \ K
         /\ \A z \in DOMAIN f \ K : Without(f, K)[z] = f[z]
         /\ Without(f, K) = [z \in DOMAIN Without(f, K) |-> Without(f, K)[z]]
  BY DEF Without

\* What the assumption says of each constant.
LEMMA Constants ==
  /\ MaxCaptures \in Nat /\ MaxTime \in Nat /\ MaxCrashes \in Nat /\ MaxFaults \in Nat
  /\ BatchSize \in Nat /\ KeepTime \in Nat /\ MaxTotal \in Nat
  /\ NumWorkers \in Nat \ {0} /\ MaxPackets \in Nat \ {0} /\ StartTime \in Nat \ {0}
  /\ Minute \in Nat \ {0} /\ MaxBytes \in Nat \ {0} /\ BatchCount \in Nat \ {0}
  /\ RecordMax \in Nat \ {0} /\ RecordFiles \in Nat /\ RecordFiles >= 2
  BY StoreAssumption

\* The queues are empty at the start.
LEMMA EmptyRange == Range(<<>>) = {}
  BY EmptySeq, LenProperties DEF Range

-----------------------------------------------------------------------------
(* The first state. *)

HistoryTyped ==
  /\ opens \in [DOMAIN opens -> Nat \ {0}] /\ owner \in [DOMAIN owner -> 0..started]
  /\ DOMAIN opens \subseteq DOMAIN owner /\ DOMAIN owner \subseteq Paths
  /\ got \subseteq [id : Packets, path : Paths, open : Nat] /\ dropped \subseteq {g.id : g \in got}

\* The record files an earlier run left are finitely many.
LEMMA RecordsFinite ==
  ASSUME NEW files, NEW t \in Nat, RecordsInOrder(files, t)
  PROVE  IsFiniteSet(DOMAIN files) /\ IsFiniteSet(DOMAIN files \ {0})
         /\ Cardinality(DOMAIN files \ {0}) \in Nat
<1>1. IsFiniteSet(0..t)
  BY FS_Interval
<1>2. IsFiniteSet(DOMAIN files)
  BY <1>1, FS_Subset DEF RecordsInOrder
<1>3. IsFiniteSet(DOMAIN files \ {0})
  BY <1>2, FS_Subset
<1> QED BY <1>2, <1>3, FS_CardinalityType

\* The invariant holds when the program starts.
LEMMA InitInv ==
  ASSUME Init
  PROVE  StoreInv
<1>1. Range(rawQ) = {} /\ Range(readyQ) = {} /\ Range(pending) = {} /\ Running = {}
  BY EmptyRange DEF Init, Running
<1>2. Held = {} /\ JobFiles = {} /\ ToCompress = {} /\ Waiting = {} /\ removing = {}
  BY <1>1 DEF Init, Held, JobFiles, ToCompress, Waiting
<1>3. DOMAIN disk = {} /\ DOMAIN opens = {} /\ DOMAIN owner = {}
  BY DEF Init
<1> DEFINE n == Cardinality(DOMAIN OldRecords \ {0})
<1>4. n \in Nat
  BY OldFilesAssumption, Constants, RecordsFinite
<1>5. missed \in Nat /\ n <= RecordFiles + missed
  <2>1. missed = IF n > RecordFiles THEN n - RecordFiles ELSE 0
    BY DEF Init, Excess
  <2> HIDE DEF n
  <2> QED BY <1>4, <2>1, Constants
<1>6. TypeOK
  <2>1. <<>> \in Seq(FileMsgs)
    BY EmptySeq
  <2>2. CleanupTyped
    <3>1. -1 \in -1..RecordMax
      BY Constants
    <3>2. groups \subseteq FileMsgs /\ removing \subseteq FileMsgs /\ step = "idle"
      BY DEF Init
    <3> QED BY <1>5, <2>1, <3>1, <3>2, OldFilesAssumption DEF Init, CleanupTyped
  <2>3. DiskTyped /\ JobsTyped
    BY <1>3 DEF Init, DiskTyped, JobsTyped
  <2>4. HistoryTyped
    BY <1>3 DEF Init, HistoryTyped
  <2> QED BY <2>2, <2>3, <2>4, Constants, StoreAssumption DEF Init, TypeOK, HistoryTyped
<1>7. CapturesApart
  BY <1>1, <1>2, EmptySeq, LenProperties DEF Init, CapturesApart, CapsOf
<1>8. NamesOwned /\ DumperHasFile /\ RemovedInBatch
  BY <1>1, <1>2 DEF NamesOwned, DumperHasFile, RemovedInBatch
<1>9. ArchivedOnce
  <2>1. Batches = {}
    <3>1. \A a \in DOMAIN archives : a.at \in 0..(StartTime - 1)
      BY OldFilesAssumption DEF Init
    <3>2. \A t \in 0..(StartTime - 1) : ~(t >= StartTime)
      BY Constants
    <3> QED BY <3>1, <3>2 DEF Batches
  <2> QED BY <2>1 DEF ArchivedOnce
<1>10. PacketsKept
  BY DEF Init, PacketsKept
<1>11. RecordsSound
  <2>1. 0 \in DOMAIN OldRecords => Cardinality(OldRecords[0].lines) \in Nat
    BY OldFilesAssumption, FS_Interval, FS_CardinalityType DEF CurrentNewest
  <2>2. recFiles = OldRecords /\ lines = OldLines /\ now = StartTime /\ step = "idle" /\ recSize = -1
    BY DEF Init
  <2>3. Cardinality(DOMAIN recFiles \ {0}) <= RecordFiles + missed + IF step = "prune" THEN 1 ELSE 0
    BY <1>4, <1>5, <2>2, Constants
  <2>4. recSize <= IF 0 \in DOMAIN recFiles THEN Cardinality(recFiles[0].lines) ELSE 0
    BY <2>1, <2>2
  <2> QED BY <2>2, <2>3, <2>4, OldFilesAssumption DEF RecordsSound
<1> QED BY <1>6, <1>7, <1>8, <1>9, <1>10, <1>11 DEF StoreInv

-----------------------------------------------------------------------------
(* What a step has to show.  The record files are a matter of their own. *)

CoreInv ==
  /\ TypeOK /\ CapturesApart /\ NamesOwned /\ DumperHasFile /\ ArchivedOnce /\ RemovedInBatch
  /\ PacketsKept
FilesInv == NamesOwned /\ DumperHasFile /\ RemovedInBatch /\ PacketsKept

\* A step opens files again or not, and names them for another capture or not.
MoreNamed ==
  /\ DOMAIN owner \subseteq DOMAIN owner'
  /\ \A p \in DOMAIN owner : owner'[p] \in {owner[p], 0}
MoreOpened ==
  /\ DOMAIN opens \subseteq DOMAIN opens'
  /\ \A p \in DOMAIN opens : opens'[p] \in Nat /\ opens[p] <= opens'[p]
MoreBatches == \A a \in Batches : a \in Batches' /\ archives'[a].pkts = archives[a].pkts

\* A file is left alone, but for packets that the end of the process lost.
Stays(p) ==
  /\ p \in DOMAIN disk' /\ disk'[p].ino = disk[p].ino
  /\ disk'[p].pkts \subseteq disk[p].pkts /\ disk[p].pkts \subseteq disk'[p].pkts \cup dropped'

\* Only files whose owner is one of the captures C, or that have none, are touched.
TouchedBy(C, T) ==
  /\ MoreNamed /\ MoreOpened /\ MoreBatches /\ dropped \subseteq dropped'
  /\ \A p \in DOMAIN disk : p \in T \/ Stays(p)
  /\ \A p \in DOMAIN disk' : p \in DOMAIN disk \/ p \in T
  /\ \A p \in T : p \in DOMAIN owner' => owner'[p] \in C \cup {0}

\* The packet is where it was written, or where the code put it since.
Somewhere(g) ==
  \/ g.path \in DOMAIN disk /\ g.id \in disk[g.path].pkts
  \/ g.id \in dropped \/ InBatch(g.id) \/ InFiltered(g)

\* A packet that came in the step is in its file, unless its write failed.
Arrived(g) ==
  /\ g.id.cap <= started' /\ g.path \in DOMAIN opens' /\ g.open <= opens'[g.path]
  /\ owner'[g.path] = g.id.cap /\ g.open = opens'[g.path] => Somewhere(g)'

\* Captures are numbered, and so are the captures of files threads have.
LEMMA HeldCaps ==
  ASSUME CoreInv
  PROVE  /\ Waiting \cup removing \subseteq FileMsgs
         /\ \A e \in Held : e.cap \in 1..MaxCaptures
         /\ \A e \in Held : e.cap \in Nat /\ e.cap <= started
         /\ started \in Nat
<1>1. job \in [Workers -> Jobs \cup {NoJob}] /\ started \in Nat
  BY Constants DEF CoreInv, TypeOK, JobsTyped
<1>2. \A e \in FileMsgs : e.cap \in 1..MaxCaptures
  BY DEF FileMsgs
<1>3. \A v \in Running : job[v].cap \in 1..MaxCaptures
  BY <1>1 DEF Running, Jobs
<1>4. \A e \in JobFiles : e.cap \in 1..MaxCaptures
  BY <1>3 DEF JobFiles
<1>5. \A q \in Seq(FileMsgs) : Range(q) \subseteq FileMsgs
  BY ElementOfSeq, LenProperties DEF Range
<1>6. Waiting \cup removing \subseteq FileMsgs
  BY <1>5 DEF CoreInv, TypeOK, CleanupTyped, Waiting, ToCompress
<1>7. \A e \in Held : e.cap \in 1..MaxCaptures
  BY <1>2, <1>4, <1>6 DEF Held
<1>8. \A e \in Held : e.cap \in Nat /\ e.cap <= started
  BY <1>7, Constants DEF CoreInv, CapturesApart
<1> QED BY <1>1, <1>6, <1>7, <1>8

\* A step of the captures C keeps what is said of files and packets, if it does
\* for the files it touches.
LEMMA ActorKeeps ==
  ASSUME CoreInv, NEW C, NEW T, TouchedBy(C, T),
         \A c \in C : c \in CapsOf(Held) \/ c = started + 1,
         started' \in Nat, started <= started',
         \A e \in Held' : \/ e \in Held
                          \/ /\ e.cap \in C /\ e.path \in DOMAIN owner' /\ e.path.ext # "filtered"
                             /\ owner'[e.path] \in {e.cap, 0},
         \A v \in Running' :
            \/ v \in Running /\ job'[v] = job[v] /\ job[v].cap \notin C
            \/ job'[v].ino # 0 =>
                  /\ job'[v].path \in DOMAIN opens'
                  /\ owner'[job'[v].path] = job'[v].cap =>
                       job'[v].path \in DOMAIN disk' /\ disk'[job'[v].path].ino = job'[v].ino,
         \A e \in removing' :
            \/ e \in removing /\ e.cap \notin C
            \/ e.path \in DOMAIN disk' /\ owner'[e.path] = e.cap =>
                 \A k \in disk'[e.path].pkts : InBatch(k)',
         \A g \in got : /\ g.id.cap \in C /\ g.path \in T /\ g.path \in DOMAIN disk
                        /\ g.id \in disk[g.path].pkts
                        /\ owner'[g.path] = g.id.cap /\ g.open = opens'[g.path]
                        => Somewhere(g)',
         \A g \in got' : g \in got \/ Arrived(g)
  PROVE  FilesInv'
<1>1. /\ MoreNamed /\ MoreOpened /\ MoreBatches /\ dropped \subseteq dropped'
      /\ \A p \in DOMAIN disk : p \in T \/ Stays(p)
      /\ \A p \in DOMAIN disk' : p \in DOMAIN disk \/ p \in T
      /\ \A p \in T : p \in DOMAIN owner' => owner'[p] \in C \cup {0}
  BY DEF TouchedBy
<1>2. /\ HistoryTyped /\ started \in Nat /\ DOMAIN disk \subseteq DOMAIN opens
      /\ \A e \in Held : e.cap \in 1..MaxCaptures /\ e.cap \in Nat /\ e.cap <= started
  BY HeldCaps DEF CoreInv, TypeOK, DiskTyped, HistoryTyped
<1>3. \A g \in got : g.id.cap \in Nat /\ g.id.cap # 0 /\ g.path \in Paths
  BY <1>2, Constants DEF HistoryTyped, Packets
<1>4. \A k : InBatch(k) => InBatch(k)'
  BY <1>1 DEF InBatch, MoreBatches
<1>5. NamesOwned'
  <2>1. ASSUME NEW e \in Held' PROVE /\ e.path \in DOMAIN owner' /\ owner'[e.path] \in {e.cap, 0}
                                     /\ e.path.ext # "filtered"
    <3>1. CASE e \in Held
      BY <1>1, <3>1 DEF CoreInv, NamesOwned, MoreNamed
    <3> QED BY <3>1
  <2> QED BY <2>1 DEF NamesOwned
<1>6. DumperHasFile'
  <2>1. ASSUME NEW v \in Running', job'[v].ino # 0,
               v \in Running /\ job'[v] = job[v] /\ job[v].cap \notin C
        PROVE  /\ job'[v].path \in DOMAIN opens'
               /\ owner'[job'[v].path] = job'[v].cap =>
                    job'[v].path \in DOMAIN disk' /\ disk'[job'[v].path].ino = job'[v].ino
    <3> DEFINE e == [cap |-> job[v].cap, path |-> job[v].path]
    <3>1. e \in Held /\ e.cap = job[v].cap
      BY <2>1 DEF Held, JobFiles
    <3>2. job[v].cap # 0
      BY <1>2, <3>1
    <3>3. /\ job[v].path \in DOMAIN opens
          /\ owner[job[v].path] = job[v].cap =>
               job[v].path \in DOMAIN disk /\ disk[job[v].path].ino = job[v].ino
      BY <2>1 DEF CoreInv, DumperHasFile
    <3>4. job[v].path \in DOMAIN owner /\ job[v].path \in DOMAIN opens' /\ job[v].path \in DOMAIN owner'
      BY <1>1, <1>2, <3>3 DEF HistoryTyped, MoreOpened, MoreNamed
    <3>5. ASSUME owner'[job[v].path] = job[v].cap
          PROVE  job[v].path \in DOMAIN disk' /\ disk'[job[v].path].ino = job[v].ino
      <4>1. owner[job[v].path] = job[v].cap
        BY <1>1, <3>2, <3>4, <3>5 DEF MoreNamed
      <4>2. job[v].path \notin T
        BY <1>1, <2>1, <3>2, <3>4, <3>5
      <4> QED BY <1>1, <3>3, <4>1, <4>2 DEF Stays
    <3> QED BY <2>1, <3>4, <3>5
  <2> QED BY <2>1 DEF DumperHasFile
<1>7. RemovedInBatch'
  <2>1. ASSUME NEW e \in removing', e \in removing, e.cap \notin C,
               e.path \in DOMAIN disk', owner'[e.path] = e.cap,
               NEW k \in disk'[e.path].pkts
        PROVE  InBatch(k)'
    <3>1. e \in Held
      BY <2>1 DEF Held
    <3>2. e.path \in DOMAIN owner /\ e.cap # 0
      BY <1>2, <3>1 DEF CoreInv, NamesOwned
    <3>3. owner[e.path] = e.cap /\ e.path \in DOMAIN owner'
      BY <1>1, <2>1, <3>2 DEF MoreNamed
    <3>4. e.path \notin T
      BY <1>1, <2>1, <3>2, <3>3
    <3>5. e.path \in DOMAIN disk /\ k \in disk[e.path].pkts
      BY <1>1, <2>1, <3>4 DEF Stays
    <3>6. InBatch(k)
      BY <2>1, <3>3, <3>5 DEF CoreInv, RemovedInBatch
    <3> QED BY <1>4, <3>6
  <2> QED BY <2>1 DEF RemovedInBatch
<1>8. PacketsKept'
  <2>1. ASSUME NEW g \in got PROVE Arrived(g)
    <3>1. /\ g.id.cap <= started /\ g.path \in DOMAIN opens /\ g.open <= opens[g.path]
          /\ owner[g.path] = g.id.cap /\ g.open = opens[g.path] => Somewhere(g)
      BY DEF CoreInv, PacketsKept, Somewhere
    <3>2. g.path \in DOMAIN owner /\ g.open \in Nat /\ opens[g.path] \in Nat
      BY <1>2, <3>1 DEF HistoryTyped
    <3>3. /\ g.path \in DOMAIN opens' /\ opens'[g.path] \in Nat /\ opens[g.path] <= opens'[g.path]
          /\ g.path \in DOMAIN owner' /\ owner'[g.path] \in {owner[g.path], 0}
      BY <1>1, <3>1, <3>2 DEF MoreOpened, MoreNamed
    <3>4. g.id.cap <= started'
      BY <1>2, <1>3, <3>1
    <3>5. g.open <= opens'[g.path]
      BY <3>1, <3>2, <3>3
    <3>6. ASSUME owner'[g.path] = g.id.cap, g.open = opens'[g.path] PROVE Somewhere(g)'
      <4>1. owner[g.path] = g.id.cap
        BY <1>3, <3>3, <3>6
      <4>2. g.open = opens[g.path]
        BY <3>1, <3>2, <3>3, <3>6
      <4>3. Somewhere(g)
        BY <3>1, <4>1, <4>2
      <4>4. CASE g.path \in DOMAIN disk /\ g.id \in disk[g.path].pkts
        <5>1. CASE g.path \in T
          <6>1. g.id.cap \in C
            BY <1>1, <1>3, <3>3, <3>6, <5>1
          <6> QED BY <3>6, <4>4, <5>1, <6>1
        <5>2. CASE g.path \notin T
          BY <1>1, <4>4, <5>2 DEF Stays, Somewhere
        <5> QED BY <5>1, <5>2
      <4>5. CASE g.id \in dropped \/ InBatch(g.id)
        BY <1>1, <1>4, <4>5 DEF Somewhere
      <4>6. CASE InFiltered(g)
        <5> DEFINE out == FilteredPath(g.path)
        <5>1. /\ out \in DOMAIN owner
              /\ owner[out] = g.id.cap => /\ out \in DOMAIN disk /\ g.id \in disk[out].pkts
                                          /\ g.id.cap \notin CapsOf(Held)
          BY <4>6 DEF InFiltered
        <5>2. out \in DOMAIN owner' /\ owner'[out] \in {owner[out], 0}
          BY <1>1, <5>1 DEF MoreNamed
        <5> HIDE DEF out
        <5>3. CASE owner'[out] # g.id.cap
          BY <5>2, <5>3 DEF Somewhere, InFiltered, out
        <5>4. CASE owner'[out] = g.id.cap
          <6>1. out \in DOMAIN disk /\ g.id \in disk[out].pkts /\ g.id.cap \notin CapsOf(Held)
            BY <1>3, <5>1, <5>2, <5>4
          <6>2. g.id.cap \notin C
            BY <1>2, <1>3, <3>1, <6>1
          <6>3. out \notin T
            BY <1>1, <1>3, <5>2, <5>4, <6>2
          <6>4. Stays(out)
            BY <1>1, <6>1, <6>3
          <6>5. g.id.cap \notin CapsOf(Held')
            BY <6>1, <6>2 DEF CapsOf
          <6>6. CASE g.id \in dropped'
            BY <6>6 DEF Somewhere
          <6>7. CASE g.id \notin dropped'
            <7>1. out \in DOMAIN disk' /\ g.id \in disk'[out].pkts
              BY <6>1, <6>4, <6>7 DEF Stays
            <7>2. InFiltered(g)'
              BY <5>2, <6>5, <7>1 DEF InFiltered, out
            <7> QED BY <7>2 DEF Somewhere
          <6> QED BY <6>6, <6>7
        <5> QED BY <5>3, <5>4
      <4> QED BY <4>3, <4>4, <4>5, <4>6 DEF Somewhere
    <3> QED BY <3>3, <3>4, <3>5, <3>6 DEF Arrived
  <2>2. \A g \in got' : Arrived(g)
    BY <2>1
  <2> QED BY <2>2 DEF PacketsKept, Arrived, Somewhere
<1> QED BY <1>5, <1>6, <1>7, <1>8 DEF FilesInv

-----------------------------------------------------------------------------
(* Capture worker. *)

\* A file is opened once more.
LEMMA Counted ==
  ASSUME HistoryTyped, NEW p, CountOpen(p)
  PROVE  /\ opens' \in [DOMAIN opens' -> Nat \ {0}] /\ DOMAIN opens' = DOMAIN opens \cup {p}
         /\ MoreOpened /\ OpenCount(p) \in Nat \ {0} /\ opens'[p] = OpenCount(p)
         /\ p \in DOMAIN opens => opens[p] < opens'[p]
<1>1. opens \in [DOMAIN opens -> Nat \ {0}]
  BY DEF HistoryTyped
<1> DEFINE n == OpenCount(p)
<1>2. n \in Nat \ {0} /\ (p \in DOMAIN opens => n = opens[p] + 1)
  BY <1>1 DEF OpenCount
<1>3. opens' = Put(opens, p, n)
  BY DEF CountOpen
<1> HIDE DEF n
<1>4. /\ DOMAIN opens' = DOMAIN opens \cup {p} /\ opens'[p] = n
      /\ \A z \in DOMAIN opens : z # p => opens'[z] = opens[z]
      /\ opens' = [z \in DOMAIN opens' |-> opens'[z]]
  BY <1>3 DEF Put
<1>5. \A z \in DOMAIN opens' : opens'[z] \in Nat \ {0}
  BY <1>1, <1>2, <1>4
<1>6. opens' \in [DOMAIN opens' -> Nat \ {0}]
  BY <1>4, <1>5
<1>7. p \in DOMAIN opens => opens[p] < opens'[p]
  BY <1>1, <1>2, <1>4
<1>8. MoreOpened
  <2>1. ASSUME NEW z \in DOMAIN opens PROVE opens'[z] \in Nat /\ opens[z] <= opens'[z]
    <3>1. CASE z = p
      BY <1>1, <1>2, <1>4, <3>1
    <3>2. CASE z # p
      BY <1>1, <1>4, <3>2
    <3> QED BY <3>1, <3>2
  <2> QED BY <1>4, <2>1 DEF MoreOpened
<1> QED BY <1>2, <1>4, <1>6, <1>7, <1>8 DEF n

\* A capture names a file.
LEMMA Named ==
  ASSUME HistoryTyped, started \in Nat, started' \in Nat, started <= started',
         NEW c \in Nat, c <= started', NEW p, Name(c, p)
  PROVE  /\ owner' \in [DOMAIN owner' -> 0..started'] /\ DOMAIN owner' = DOMAIN owner \cup {p}
         /\ MoreNamed /\ owner'[p] \in {c, 0}
<1>1. owner \in [DOMAIN owner -> 0..started]
  BY DEF HistoryTyped
<1> DEFINE n == IF p \in DOMAIN owner /\ owner[p] # c THEN 0 ELSE c
<1>2. n \in {c, 0} /\ (p \in DOMAIN owner => n \in {owner[p], 0}) /\ n \in 0..started'
  OBVIOUS
<1>3. owner' = Put(owner, p, n)
  BY DEF Name
<1> HIDE DEF n
<1>4. /\ DOMAIN owner' = DOMAIN owner \cup {p} /\ owner'[p] = n
      /\ \A z \in DOMAIN owner : z # p => owner'[z] = owner[z]
      /\ owner' = [z \in DOMAIN owner' |-> owner'[z]]
  BY <1>3 DEF Put
<1>5. \A z \in DOMAIN owner' : owner'[z] \in 0..started'
  <2>1. 0..started \subseteq 0..started'
    OBVIOUS
  <2> QED BY <1>1, <1>2, <1>4, <2>1
<1>6. owner' \in [DOMAIN owner' -> 0..started']
  BY <1>4, <1>5
<1> QED BY <1>2, <1>4, <1>6 DEF MoreNamed

\* pcap_dump_open: the files there are afterwards.
LEMMA OpenedFiles ==
  ASSUME DiskTyped, HistoryTyped, NEW p \in Paths, CountOpen(p), got \subseteq got',
         NEW first \in SUBSET {g.id : g \in got'}, NEW d, d = DumpOpened(p, first)
  PROVE  /\ d \in [DOMAIN disk \cup {p} -> [ino : Nat \ {0}, pkts : SUBSET {g.id : g \in got'}]]
         /\ DOMAIN disk \cup {p} \subseteq DOMAIN opens'
         /\ d[p].pkts = first /\ d[p].ino \in Nat \ {0}
         /\ \A z \in DOMAIN disk : z # p => d[z] = disk[z]
<1>1. /\ disk \in [DOMAIN disk -> [ino : Nat \ {0}, pkts : SUBSET {g.id : g \in got}]]
      /\ DOMAIN disk \subseteq DOMAIN opens
  BY DEF DiskTyped
<1> DEFINE i == IF p \in DOMAIN disk THEN disk[p].ino ELSE OpenCount(p)
           file == [ino |-> i, pkts |-> first]
           Files == [ino : Nat \ {0}, pkts : SUBSET {g.id : g \in got'}]
<1>2. i \in Nat \ {0}
  BY <1>1, Counted
<1>3. file.pkts = first /\ file.ino = i /\ file \in Files
  BY <1>2
<1>4. \A z \in DOMAIN disk : disk[z] \in Files
  BY <1>1
<1>5. d = Put(disk, p, file)
  BY DEF DumpOpened
<1> HIDE DEF i, file
<1>6. /\ d = [z \in DOMAIN disk \cup {p} |-> IF z = p THEN file ELSE disk[z]]
      /\ d[p] = file
      /\ \A z \in DOMAIN disk : z # p => d[z] = disk[z]
  BY <1>5 DEF Put
<1>7. d \in [DOMAIN disk \cup {p} -> Files]
  BY <1>3, <1>4, <1>6
<1>8. DOMAIN disk \cup {p} \subseteq DOMAIN opens'
  BY <1>1, Counted
<1> QED BY <1>2, <1>3, <1>6, <1>7, <1>8

\* pcap_dump_open by a dumper.
LEMMA Opening ==
  ASSUME DiskTyped, HistoryTyped, NEW p \in Paths, CountOpen(p), got \subseteq got',
         NEW first \in SUBSET {g.id : g \in got'}, disk' = DumpOpened(p, first)
  PROVE  /\ DiskTyped' /\ DOMAIN disk' = DOMAIN disk \cup {p}
         /\ disk'[p].pkts = first /\ disk'[p].ino \in Nat \ {0}
         /\ \A z \in DOMAIN disk : z # p => disk'[z] = disk[z]
<1>1. /\ disk' \in [DOMAIN disk \cup {p} -> [ino : Nat \ {0}, pkts : SUBSET {g.id : g \in got'}]]
      /\ DOMAIN disk \cup {p} \subseteq DOMAIN opens'
      /\ disk'[p].pkts = first /\ disk'[p].ino \in Nat \ {0}
      /\ \A z \in DOMAIN disk : z # p => disk'[z] = disk[z]
  BY OpenedFiles
<1> QED BY <1>1 DEF DiskTyped

\* A dumper context before rotate_open, with any path.
Drafts(X) ==
  [cap : 1..MaxCaptures, target : {r.target : r \in Requests}, kind : {"plain", "pdef", "inline"},
   seq : BOOLEAN, start : StartTime..MaxTime, n : 0..(MaxPackets - 1), written : 0..MaxBytes, path : X,
   ino : Nat, packets : 0..MaxPackets]

\* The next segment of a capture.
LEMMA SegmentFacts ==
  ASSUME NEW X, NEW r \in Drafts(X)
  PROVE  /\ NextSegment(r) \in Jobs
         /\ NextSegment(r).path = ExpandPattern(NextSegment(r))
         /\ NextSegment(r).path \in Paths /\ NextSegment(r).path.ext # "filtered"
         /\ NextSegment(r).n = r.n + 1 /\ NextSegment(r).written = 0
         /\ NextSegment(r).cap = r.cap /\ NextSegment(r).packets = r.packets
<1> DEFINE k == [r EXCEPT !.n = @ + 1, !.written = 0]
           p == ExpandPattern(k)
           j == [k EXCEPT !.path = p]
<1>1. /\ k.n = r.n + 1 /\ k.written = 0 /\ k.cap = r.cap /\ k.packets = r.packets
      /\ k \in [cap : 1..MaxCaptures, target : {q.target : q \in Requests},
                kind : {"plain", "pdef", "inline"}, seq : BOOLEAN, start : StartTime..MaxTime,
                n : 1..MaxPackets, written : 0..MaxBytes, path : X, ino : Nat, packets : 0..MaxPackets]
  <2>1. r.n + 1 \in 1..MaxPackets /\ 0 \in 0..MaxBytes
    BY Constants DEF Drafts
  <2>2. k = [r EXCEPT !.n = r.n + 1, !.written = 0]
    BY DEF Drafts
  <2> QED BY <2>1, <2>2 DEF Drafts
<1> HIDE DEF k
<1>2. p \in Paths /\ p.ext # "filtered"
  <2>1. /\ k.target \in {q.target : q \in Requests} /\ k.start \in StartTime..MaxTime
        /\ k.n \in 1..MaxPackets
    BY <1>1
  <2>2. k.start \div Minute \in {t \div Minute : t \in StartTime..MaxTime}
    BY <2>1
  <2>3. (IF k.seq THEN k.n ELSE 0) \in 0..MaxPackets
    BY <2>1, Constants
  <2>4. (IF k.kind = "pdef" THEN "raw" ELSE "") \in {"", "raw"}
    OBVIOUS
  <2> QED BY <2>1, <2>2, <2>3, <2>4 DEF ExpandPattern, Paths
<1> HIDE DEF p
<1>3. /\ j \in Jobs /\ j.n = k.n /\ j.written = k.written /\ j.cap = k.cap /\ j.packets = k.packets
      /\ j.path = p
      /\ j.target = k.target /\ j.start = k.start /\ j.seq = k.seq /\ j.kind = k.kind
  BY <1>1, <1>2 DEF Jobs
<1>4. ExpandPattern(j) = ExpandPattern(k)
  BY <1>3 DEF ExpandPattern
<1>5. NextSegment(r) = j
  BY DEF NextSegment, k, p
<1> HIDE DEF j
<1> QED BY <1>1, <1>2, <1>3, <1>4, <1>5 DEF p

\* The types that a step of a worker or of the filter thread may change.
Typed == DiskTyped /\ JobsTyped /\ HistoryTyped

\* A worker's capture starts, or goes on: it stays in that worker's hands only.
LEMMA JobReplaced ==
  ASSUME CoreInv, NEW w \in Workers, NEW j \in Jobs, job' = [job EXCEPT ![w] = j],
         UNCHANGED <<rawQ, readyQ, pending, groups, removing, archives>>,
         \/ job[w] # NoJob /\ j.cap = job[w].cap /\ started' = started
         \/ job[w] = NoJob /\ j.cap = started + 1 /\ started' = started + 1
  PROVE  /\ CapturesApart' /\ ArchivedOnce'
         /\ started' \in Nat /\ started <= started' /\ j.cap \in Nat /\ j.cap <= started'
         /\ j.cap \in CapsOf(Held) \/ j.cap = started + 1
         /\ Held' \subseteq Held \cup {[cap |-> j.cap, path |-> j.path]}
         /\ Running' \subseteq Running \cup {w} /\ job'[w] = j
         /\ \A v \in Running' : v # w => v \in Running /\ job'[v] = job[v] /\ job[v].cap # j.cap
         /\ \A e \in Waiting \cup removing : e.cap # j.cap
<1> DEFINE x == [cap |-> j.cap, path |-> j.path]
<1>1. job \in [Workers -> Jobs \cup {NoJob}] /\ started \in Nat
  BY Constants DEF CoreInv, TypeOK, JobsTyped
<1>2. job'[w] = j /\ \A v \in Workers : v # w => job'[v] = job[v]
  BY <1>1
<1>3. /\ Running' \subseteq Running \cup {w} /\ Running' \subseteq Workers
      /\ \A v \in Running' : v # w => v \in Running /\ job'[v] = job[v]
  BY <1>2 DEF Running
<1>4. JobFiles' \subseteq JobFiles \cup {x}
  BY <1>2, <1>3 DEF JobFiles, Running
<1>5. Waiting' = Waiting /\ ToCompress' = ToCompress /\ removing' = removing
  BY DEF Waiting, ToCompress
<1>6. Held' \subseteq Held \cup {x}
  BY <1>4, <1>5 DEF Held
<1>7. /\ x.cap = j.cap
      /\ j.cap \in CapsOf(JobFiles) \/ (j.cap = started + 1 /\ started' = started + 1)
  <2>1. CASE job[w] # NoJob /\ j.cap = job[w].cap
    <3>1. [cap |-> job[w].cap, path |-> job[w].path] \in JobFiles
      BY <2>1 DEF JobFiles, Running
    <3>2. [cap |-> job[w].cap, path |-> job[w].path].cap = j.cap
      BY <2>1
    <3> QED BY <3>1, <3>2 DEF CapsOf
  <2> QED BY <2>1
<1>8. \A e \in Held : e.cap \in Nat /\ e.cap <= started
  BY HeldCaps
<1>9. CapsOf(JobFiles') \subseteq CapsOf(JobFiles) \cup {j.cap} /\ CapsOf(JobFiles) \subseteq CapsOf(Held)
  BY <1>4 DEF CapsOf, Held
<1>10. /\ started' \in Nat /\ started <= started' /\ j.cap \in Nat /\ j.cap <= started'
       /\ j.cap \in CapsOf(Held) \/ j.cap = started + 1
  <2>1. \A c \in CapsOf(JobFiles) : c \in Nat /\ c <= started
    BY <1>8 DEF CapsOf, Held
  <2> QED BY <1>1, <1>7, <1>9, <2>1
<1>11. ASSUME NEW t \in Running, t # w PROVE job[t].cap # j.cap
  <2>1. [cap |-> job[t].cap, path |-> job[t].path] \in Held
    BY DEF Held, JobFiles
  <2>2. job[t].cap \in Nat /\ job[t].cap <= started
    BY <1>8, <2>1
  <2>3. CASE job[w] # NoJob /\ j.cap = job[w].cap
    BY <1>11, <2>3 DEF CoreInv, CapturesApart, Running
  <2>4. CASE j.cap = started + 1
    BY <1>1, <2>2, <2>4
  <2> QED BY <2>3, <2>4
<1>12. j.cap \notin CapsOf(Waiting \cup removing)
  <2>1. CapsOf(Waiting \cup removing) \subseteq CapsOf(Held)
    BY DEF CapsOf, Held
  <2>2. \A e \in Held : e.cap # started + 1
    BY <1>1, <1>8
  <2>3. started + 1 \notin CapsOf(Waiting \cup removing)
    BY <2>1, <2>2 DEF CapsOf
  <2> QED BY <1>7, <2>3 DEF CoreInv, CapturesApart
<1>13. CapturesApart'
  <2>1. \A e \in Held' : e.cap <= started'
    <3> HIDE DEF x
    <3> QED BY <1>1, <1>6, <1>7, <1>8, <1>10
  <2>2. ASSUME NEW u \in Running', NEW v \in Running', job'[u].cap = job'[v].cap PROVE u = v
    BY <1>2, <1>3, <1>11, <2>2 DEF CoreInv, CapturesApart, Running
  <2>3. CapsOf(JobFiles') \cap CapsOf(Waiting' \cup removing') = {}
    BY <1>5, <1>9, <1>12 DEF CoreInv, CapturesApart
  <2> QED BY <1>5, <2>1, <2>2, <2>3 DEF CoreInv, CapturesApart
<1>14. ArchivedOnce'
  <2>1. Batches' = Batches
    BY DEF Batches
  <2>2. CapsOf((JobFiles \cup ToCompress)') \subseteq CapsOf(JobFiles \cup ToCompress) \cup {j.cap}
    BY <1>4, <1>5 DEF CapsOf
  <2>3. ASSUME NEW a \in Batches PROVE a.id \in 1..started' /\ a.id # j.cap
    <3>1. a.id \in 1..started /\ a.id \notin CapsOf(JobFiles \cup ToCompress)
      BY DEF CoreInv, ArchivedOnce
    <3> QED BY <1>1, <1>7, <3>1 DEF CapsOf
  <2> QED BY <2>1, <2>2, <2>3 DEF CoreInv, ArchivedOnce
<1>15. \A e \in Waiting \cup removing : e.cap # j.cap
  BY <1>12 DEF CapsOf
<1> QED BY <1>2, <1>3, <1>6, <1>10, <1>11, <1>13, <1>14, <1>15

\* The bounds of a dumper context.
WellCounted(j) == j.path = ExpandPattern(j) /\ j.n + j.written <= j.packets + 1

\* The paths jobs write to.
LEMMA JobPath ==
  ASSUME NEW j \in Jobs, j.path = ExpandPattern(j)
  PROVE  j.path \in Paths /\ j.path.ext # "filtered"
<1>1. j.path \in Paths
  BY DEF Jobs
<1>2. ExpandPattern(j).ext \in {"raw", ""}
  BY DEF ExpandPattern
<1> QED BY <1>1, <1>2

\* A worker's capture takes a file: it fails to open it, or opens it and gets
\* the packets came, of which those in first are written.
Takes(w, j, came, first) ==
  /\ WellCounted(j) /\ job' = [job EXCEPT ![w] = j]
  /\ UNCHANGED <<rawQ, readyQ, pending, groups, removing, archives>>
  /\ \/ job[w] # NoJob /\ j.cap = job[w].cap /\ started' = started
     \/ job[w] = NoJob /\ j.cap = started + 1 /\ started' = started + 1
  /\ Name(j.cap, j.path)
  /\ came \subseteq Packets /\ \A k \in came : k.cap = j.cap
  /\ first \subseteq came /\ dropped' = dropped \cup (came \ first)
  /\ got' = got \cup {[id |-> k, path |-> j.path, open |-> opens'[j.path]] : k \in came}
  /\ \/ CountOpen(j.path) /\ disk' = DumpOpened(j.path, first) /\ j.ino = disk'[j.path].ino
     \/ opens' = opens /\ disk' = disk /\ came = {} /\ j.ino = 0

\* What that keeps.
LEMMA JobTakesFile ==
  ASSUME CoreInv, NEW w \in Workers, NEW j \in Jobs, NEW came, NEW first, Takes(w, j, came, first)
  PROVE  CapturesApart' /\ ArchivedOnce' /\ FilesInv' /\ Typed'
<1> USE DEF Takes
<1> DEFINE x == [cap |-> j.cap, path |-> j.path]
<1>1. DiskTyped /\ JobsTyped /\ HistoryTyped /\ started \in Nat
  BY HeldCaps DEF CoreInv, TypeOK, HistoryTyped
<1>2. j.path \in Paths /\ j.path.ext # "filtered"
  BY JobPath DEF WellCounted
<1>3. /\ CapturesApart' /\ ArchivedOnce'
      /\ started' \in Nat /\ started <= started' /\ j.cap \in Nat /\ j.cap <= started'
      /\ j.cap \in CapsOf(Held) \/ j.cap = started + 1
      /\ Held' \subseteq Held \cup {x}
      /\ Running' \subseteq Running \cup {w} /\ job'[w] = j
      /\ \A v \in Running' : v # w => v \in Running /\ job'[v] = job[v] /\ job[v].cap # j.cap
      /\ \A e \in Waiting \cup removing : e.cap # j.cap
  BY JobReplaced
<1>4. x.cap = j.cap /\ x.path = j.path
  OBVIOUS
<1> HIDE DEF x
<1>5. /\ owner' \in [DOMAIN owner' -> 0..started'] /\ DOMAIN owner' = DOMAIN owner \cup {j.path}
      /\ MoreNamed /\ owner'[j.path] \in {j.cap, 0}
  BY <1>1, <1>3, Named
<1>6. /\ opens' \in [DOMAIN opens' -> Nat \ {0}] /\ DOMAIN opens' \subseteq DOMAIN opens \cup {j.path}
      /\ DOMAIN opens \subseteq DOMAIN opens' /\ MoreOpened
      /\ CountOpen(j.path) => /\ j.path \in DOMAIN opens'
                              /\ j.path \in DOMAIN opens => opens[j.path] < opens'[j.path]
  <2>1. CASE CountOpen(j.path)
    BY <1>1, <2>1, Counted
  <2>2. CASE opens' = opens /\ ~CountOpen(j.path)
    BY <1>1, <2>2 DEF HistoryTyped, MoreOpened
  <2> QED BY <2>1, <2>2
<1> DEFINE new(k) == [id |-> k, path |-> j.path, open |-> opens'[j.path]]
<1>7. \A k \in came : /\ new(k) \in got' /\ new(k).id = k /\ new(k).path = j.path
                      /\ new(k).open = opens'[j.path]
  OBVIOUS
<1>8. got \subseteq got' /\ \A g \in got' : g \in got \/ \E k \in came : g = new(k)
  OBVIOUS
<1>9. came \subseteq {g.id : g \in got'}
  BY <1>7
<1>10. /\ came # {} => CountOpen(j.path)
       /\ CountOpen(j.path) => disk' = DumpOpened(j.path, first) \/ came = {}
  OBVIOUS
<1> HIDE DEF new
<1>11. HistoryTyped'
  <2>1. ASSUME NEW k \in came PROVE new(k) \in [id : Packets, path : Paths, open : Nat]
    <3>1. opens'[j.path] \in Nat
      BY <1>6, <1>10
    <3> QED BY <1>2, <3>1 DEF new
  <2>2. got' \subseteq [id : Packets, path : Paths, open : Nat]
    BY <1>1, <1>8, <2>1 DEF HistoryTyped
  <2>3. dropped' \subseteq {g.id : g \in got'}
    BY <1>1, <1>8, <1>9 DEF HistoryTyped
  <2> QED BY <1>1, <1>2, <1>5, <1>6, <2>2, <2>3 DEF HistoryTyped
<1>12. /\ DiskTyped' /\ DOMAIN disk \subseteq DOMAIN disk' /\ DOMAIN disk' \subseteq DOMAIN disk \cup {j.path}
       /\ \A z \in DOMAIN disk : z # j.path => disk'[z] = disk[z]
       /\ j.ino # 0 => /\ j.path \in DOMAIN opens' /\ j.path \in DOMAIN disk'
                       /\ disk'[j.path].ino = j.ino
       /\ came # {} => j.path \in DOMAIN disk' /\ disk'[j.path].pkts = first
  <2>1. CASE CountOpen(j.path) /\ disk' = DumpOpened(j.path, first) /\ j.ino = disk'[j.path].ino
    <3>1. first \in SUBSET {g.id : g \in got'}
      BY <1>9
    <3>2. /\ DiskTyped' /\ DOMAIN disk' = DOMAIN disk \cup {j.path} /\ disk'[j.path].pkts = first
          /\ \A z \in DOMAIN disk : z # j.path => disk'[z] = disk[z]
      BY <1>1, <1>2, <1>8, <2>1, <3>1, Opening
    <3> QED BY <1>6, <2>1, <3>2
  <2>2. CASE disk' = disk /\ came = {} /\ j.ino = 0
    <3>1. DiskTyped'
      BY <1>1, <1>6, <1>8, <2>2 DEF DiskTyped
    <3> QED BY <2>2, <3>1
  <2> QED BY <2>1, <2>2
<1>13. JobsTyped'
  <2>1. job' \in [Workers -> Jobs \cup {NoJob}]
    BY <1>1 DEF JobsTyped
  <2>2. ASSUME NEW v \in Workers, job'[v] # NoJob PROVE WellCounted(job'[v])
    BY <1>1, <1>3, <2>2 DEF JobsTyped, WellCounted
  <2> QED BY <2>1, <2>2 DEF JobsTyped, WellCounted
<1>14. TouchedBy({j.cap}, {j.path})
  <2>1. MoreBatches
    BY DEF MoreBatches, Batches
  <2>2. \A p \in DOMAIN disk : p \in {j.path} \/ Stays(p)
    BY <1>12 DEF Stays
  <2> QED BY <1>5, <1>6, <1>12, <2>1, <2>2 DEF TouchedBy
<1>15. FilesInv'
  <2>1. \A c \in {j.cap} : c \in CapsOf(Held) \/ c = started + 1
    BY <1>3
  <2>2. \A e \in Held' : \/ e \in Held
                         \/ /\ e.cap \in {j.cap} /\ e.path \in DOMAIN owner' /\ e.path.ext # "filtered"
                            /\ owner'[e.path] \in {e.cap, 0}
    BY <1>2, <1>3, <1>4, <1>5
  <2>3. \A v \in Running' :
            \/ v \in Running /\ job'[v] = job[v] /\ job[v].cap \notin {j.cap}
            \/ job'[v].ino # 0 =>
                  /\ job'[v].path \in DOMAIN opens'
                  /\ owner'[job'[v].path] = job'[v].cap =>
                       job'[v].path \in DOMAIN disk' /\ disk'[job'[v].path].ino = job'[v].ino
    BY <1>3, <1>12
  <2>4. \A e \in removing' :
            \/ e \in removing /\ e.cap \notin {j.cap}
            \/ e.path \in DOMAIN disk' /\ owner'[e.path] = e.cap =>
                 \A k \in disk'[e.path].pkts : InBatch(k)'
    BY <1>3
  <2>5. ASSUME NEW g \in got, g.path \in {j.path}, g.path \in DOMAIN disk, g.id \in disk[g.path].pkts,
               g.open = opens'[g.path]
        PROVE  Somewhere(g)'
    <3>1. g.path \in DOMAIN opens /\ g.open <= opens[g.path]
      BY DEF CoreInv, PacketsKept
    <3>2. opens[g.path] \in Nat /\ opens'[g.path] \in Nat
      BY <1>1, <1>6, <3>1 DEF HistoryTyped
    <3>3. CASE CountOpen(j.path)
      BY <1>6, <2>5, <3>1, <3>2, <3>3
    <3>4. CASE disk' = disk
      BY <2>5, <3>4 DEF Somewhere
    <3> QED BY <3>3, <3>4
  <2>6. ASSUME NEW g \in got' PROVE g \in got \/ Arrived(g)
    <3>1. CASE g \notin got
      <4>1. PICK k \in came : g = new(k)
        BY <1>8, <3>1
      <4>2. g.id = k /\ g.path = j.path /\ g.open = opens'[j.path] /\ k.cap = j.cap
        BY <1>7, <4>1
      <4>3. g.path \in DOMAIN opens' /\ opens'[g.path] \in Nat
        BY <1>6, <1>10, <4>2
      <4>4. Somewhere(g)'
        BY <1>12, <4>2 DEF Somewhere
      <4> QED BY <1>3, <4>2, <4>3, <4>4 DEF Arrived
    <3> QED BY <3>1
  <2>7. \A g \in got : /\ g.id.cap \in {j.cap} /\ g.path \in {j.path} /\ g.path \in DOMAIN disk
                       /\ g.id \in disk[g.path].pkts
                       /\ owner'[g.path] = g.id.cap /\ g.open = opens'[g.path]
                       => Somewhere(g)'
    BY <2>5
  <2>8. \A g \in got' : g \in got \/ Arrived(g)
    BY <2>6
  <2> QED BY <1>3, <1>14, <2>1, <2>2, <2>3, <2>4, <2>7, <2>8, ActorKeeps
<1> QED BY <1>3, <1>11, <1>12, <1>13, <1>15 DEF Typed

\* Files and captures stay as they are, but for the thread that has them.
LEMMA Quiet ==
  ASSUME CoreInv, UNCHANGED <<disk, job, opens, owner, got, dropped>>, MoreBatches,
         started' \in {started, started + 1}, Held' \subseteq Held,
         \A e \in removing' : \/ e \in removing
                              \/ e.path \in DOMAIN disk /\ owner[e.path] = e.cap =>
                                   \A k \in disk[e.path].pkts : InBatch(k)'
  PROVE  FilesInv' /\ Typed' /\ started' \in Nat /\ started <= started'
<1>1. DiskTyped /\ JobsTyped /\ HistoryTyped /\ started \in Nat
  BY HeldCaps DEF CoreInv, TypeOK, HistoryTyped
<1>2. started' \in Nat /\ started <= started' /\ 0..started \subseteq 0..started'
  BY <1>1
<1>3. TouchedBy({}, {})
  BY <1>1 DEF TouchedBy, MoreNamed, MoreOpened, Stays, HistoryTyped
<1>4. Running' = Running
  BY DEF Running
<1>5. FilesInv'
  <2>1. \A v \in Running' : v \in Running /\ job'[v] = job[v] /\ job[v].cap \notin {}
    BY <1>4
  <2>2. \A e \in removing' : \/ e \in removing /\ e.cap \notin {}
                             \/ e.path \in DOMAIN disk' /\ owner'[e.path] = e.cap =>
                                  \A k \in disk'[e.path].pkts : InBatch(k)'
    OBVIOUS
  <2>3. \A c \in {} : c \in CapsOf(Held) \/ c = started + 1
    OBVIOUS
  <2>4. \A e \in Held' : e \in Held
    OBVIOUS
  <2>5. \A g \in got' : g \in got
    OBVIOUS
  <2> QED BY <1>2, <1>3, <2>1, <2>2, <2>3, <2>4, <2>5, ActorKeeps
<1>6. Typed'
  BY <1>1, <1>2 DEF Typed, DiskTyped, JobsTyped, HistoryTyped
<1> QED BY <1>2, <1>5, <1>6

\* The cleanup thread and the queues stay as they are.
LEMMA CleanupQuiet ==
  ASSUME TypeOK, UNCHANGED <<rawQ, readyQ, cleanupVars>>
  PROVE  CleanupTyped'
  BY DEF TypeOK, CleanupTyped, cleanupVars, recordVars

\* A step that fails stays within the bound.
LEMMA FaultsBounded ==
  ASSUME TypeOK, NEW n \in Nat, Fail(n)
  PROVE  faults' \in 0..MaxFaults /\ faults <= faults' /\ faults' = faults + n
  BY Constants DEF TypeOK, Fail

\* prepare.
LEMMA PrepareKeeps ==
  ASSUME CoreInv, NEW w \in Workers, NEW r \in Requests, Prepare(w, r)
  PROVE  CoreInv'
<1> DEFINE d == [cap |-> started + 1, target |-> r.target, kind |-> r.kind, seq |-> r.seq,
                 start |-> now, n |-> 0, written |-> 0, path |-> <<>>, ino |-> 0, packets |-> 0]
           s == NextSegment(d)
<1>1. /\ now \in StartTime..MaxTime /\ started \in 0..MaxCaptures /\ started < MaxCaptures
      /\ faults \in 0..MaxFaults /\ crashes \in 0..MaxCrashes
  BY DEF CoreInv, TypeOK, Prepare
<1>2. d \in Drafts({<<>>}) /\ d.n = 0 /\ d.cap = started + 1 /\ d.packets = 0
  <2>1. started + 1 \in 1..MaxCaptures /\ 0 \in 0..(MaxPackets - 1) /\ 0 \in 0..MaxBytes /\ 0 \in 0..MaxPackets
    BY <1>1, Constants
  <2>2. r.target \in {q.target : q \in Requests} /\ r.kind \in {"plain", "pdef", "inline"} /\ r.seq \in BOOLEAN
    BY StoreAssumption
  <2> QED BY <1>1, <2>1, <2>2 DEF Drafts
<1>3. /\ job[w] = NoJob /\ started' = started + 1
      /\ UNCHANGED <<now, rawQ, readyQ, cleanupVars, got, dropped, crashes>>
      /\ \/ /\ disk' = DumpOpened(s.path, {}) /\ CountOpen(s.path) /\ Name(s.cap, s.path)
            /\ job' = [job EXCEPT ![w] = [s EXCEPT !.ino = disk'[s.path].ino]]
            /\ UNCHANGED faults
         \/ Fail(1) /\ UNCHANGED <<disk, opens, owner, job>>
  BY DEF Prepare
<1> HIDE DEF d
<1>4. /\ s \in Jobs /\ s.path = ExpandPattern(s) /\ s.path \in Paths
      /\ s.n = 1 /\ s.written = 0 /\ s.cap = started + 1 /\ s.packets = 0
  BY <1>1, <1>2, SegmentFacts
<1> HIDE DEF s
<1>5. faults' \in 0..MaxFaults
  BY <1>1, <1>3, Constants DEF Fail
<1>6. started' \in 0..MaxCaptures /\ CleanupTyped'
  <2>1. started' \in 0..MaxCaptures
    BY <1>1, <1>3, Constants
  <2>2. CleanupTyped'
    BY <1>3, CleanupQuiet DEF CoreInv
  <2> QED BY <2>1, <2>2
<1>7. CapturesApart' /\ ArchivedOnce' /\ FilesInv' /\ Typed'
  <2>1. CASE /\ disk' = DumpOpened(s.path, {}) /\ CountOpen(s.path) /\ Name(s.cap, s.path)
             /\ job' = [job EXCEPT ![w] = [s EXCEPT !.ino = disk'[s.path].ino]]
    <3> DEFINE i == disk'[s.path].ino
               j == [s EXCEPT !.ino = i]
    <3>1. i \in Nat
      <4>1. {} \in SUBSET {g.id : g \in got'} /\ got \subseteq got'
        BY <1>3
      <4>2. DiskTyped /\ HistoryTyped
        BY DEF CoreInv, TypeOK, HistoryTyped
      <4> QED BY <1>4, <2>1, <4>1, <4>2, Opening
    <3> HIDE DEF i
    <3>2. /\ j \in Jobs /\ j.path = s.path /\ j.ino = i /\ j.n = 1 /\ j.written = 0 /\ j.packets = 0
          /\ j.cap = started + 1 /\ j.target = s.target /\ j.start = s.start /\ j.seq = s.seq
          /\ j.kind = s.kind
      BY <1>4, <3>1 DEF Jobs
    <3>3. WellCounted(j)
      <4>1. ExpandPattern(j) = ExpandPattern(s)
        BY <1>4, <3>2 DEF ExpandPattern
      <4> QED BY <1>4, <3>2, <4>1 DEF WellCounted
    <3>4. job' = [job EXCEPT ![w] = j] /\ disk' = DumpOpened(j.path, {}) /\ CountOpen(j.path)
          /\ j.ino = disk'[j.path].ino /\ Name(j.cap, j.path)
      BY <1>4, <2>1, <3>2 DEF i
    <3> HIDE DEF j
    <3>5. PICK none : none = {}
      OBVIOUS
    <3>6. /\ got' = got \cup {[id |-> k, path |-> j.path, open |-> opens'[j.path]] : k \in none}
          /\ dropped' = dropped \cup (none \ none) /\ none \in SUBSET Packets /\ none \in SUBSET none
          /\ (\A k \in none : k.cap = j.cap) /\ disk' = DumpOpened(j.path, none)
          /\ UNCHANGED <<rawQ, readyQ, pending, groups, removing, archives>>
      BY <1>3, <3>4, <3>5 DEF cleanupVars
    <3>7. Takes(w, j, none, none)
      BY <1>3, <3>2, <3>3, <3>4, <3>6 DEF Takes
    <3> QED BY <3>2, <3>7, JobTakesFile
  <2>2. CASE UNCHANGED <<disk, opens, owner, job>>
    <3>1. /\ UNCHANGED <<disk, job, opens, owner, got, dropped, rawQ, readyQ, pending, groups, removing, archives>>
          /\ started' = started + 1
      BY <1>3, <2>2 DEF cleanupVars
    <3>2. /\ Running' = Running /\ JobFiles' = JobFiles /\ ToCompress' = ToCompress
          /\ Waiting' = Waiting /\ Held' = Held /\ Batches' = Batches /\ MoreBatches
      BY <3>1 DEF Running, JobFiles, ToCompress, Waiting, Held, Batches, MoreBatches
    <3>3. FilesInv' /\ Typed' /\ started' \in Nat /\ started <= started'
      BY <3>1, <3>2, Quiet
    <3>4. CapturesApart'
      <4>1. \A e \in Held : e.cap <= started'
        BY <3>1, <3>3, HeldCaps
      <4> QED BY <3>1, <3>2, <4>1 DEF CoreInv, CapturesApart
    <3>5. ArchivedOnce'
      <4>1. 1..started \subseteq 1..started'
        BY <3>3, HeldCaps
      <4> QED BY <3>2, <4>1 DEF CoreInv, ArchivedOnce
    <3> QED BY <3>3, <3>4, <3>5
  <2> QED BY <1>3, <2>1, <2>2
<1> QED BY <1>1, <1>3, <1>5, <1>6, <1>7 DEF CoreInv, FilesInv, TypeOK, Typed, HistoryTyped

\* A packet for a worker whose segment is full: the next segment, and the packet.
LEMMA RotationFacts ==
  ASSUME CoreInv, NEW w \in Workers, PacketComes(w), RotationDue(job[w])
  PROVE  /\ job[w] # NoJob /\ NextSegment(job[w]) \in Jobs
         /\ NextSegment(job[w]).path = ExpandPattern(NextSegment(job[w]))
         /\ NextSegment(job[w]).path \in Paths /\ NextSegment(job[w]).written = 0
         /\ NextSegment(job[w]).cap = job[w].cap
         /\ NextSegment(job[w]).n <= NextSegment(job[w]).packets + 1
         /\ NextSegment(job[w]).packets + 1 \in 1..MaxPackets
         /\ Packet(NextSegment(job[w])) \in Packets
<1>1. /\ job[w] # NoJob /\ job[w] \in Jobs
      /\ job[w].n + job[w].written <= job[w].packets + 1
      /\ job[w].packets < MaxPackets /\ job[w].written + 1 > MaxBytes
  BY DEF CoreInv, TypeOK, JobsTyped, PacketComes, RotationDue
<1>2. /\ job[w].n \in 1..MaxPackets /\ job[w].written \in 0..MaxBytes /\ job[w].packets \in 0..MaxPackets
      /\ job[w].cap \in 1..MaxCaptures
  BY <1>1 DEF Jobs
<1>3. job[w].n \in 0..(MaxPackets - 1) /\ job[w].n <= job[w].packets /\ job[w].packets + 1 \in 1..MaxPackets
  BY <1>1, <1>2, Constants
<1>4. job[w] \in Drafts(Paths)
  BY <1>1, <1>3 DEF Jobs, Drafts
<1>5. /\ NextSegment(job[w]) \in Jobs
      /\ NextSegment(job[w]).path = ExpandPattern(NextSegment(job[w]))
      /\ NextSegment(job[w]).path \in Paths
      /\ NextSegment(job[w]).n = job[w].n + 1 /\ NextSegment(job[w]).written = 0
      /\ NextSegment(job[w]).cap = job[w].cap /\ NextSegment(job[w]).packets = job[w].packets
  BY <1>4, SegmentFacts
<1>6. Packet(NextSegment(job[w])) \in Packets
  BY <1>2, <1>3, <1>5 DEF Packet, Packets
<1> QED BY <1>1, <1>2, <1>3, <1>5, <1>6

\* dump_cb with rotate_open.
LEMMA RotateAndWriteKeeps ==
  ASSUME CoreInv, NEW w \in Workers, RotateAndWrite(w)
  PROVE  CoreInv'
<1> DEFINE s == NextSegment(job[w])
           i == disk'[s.path].ino
           o == [s EXCEPT !.ino = i]
           j == Delivered(o)
<1>1. /\ job[w] # NoJob /\ s \in Jobs /\ s.path = ExpandPattern(s) /\ s.path \in Paths
      /\ s.written = 0 /\ s.cap = job[w].cap /\ s.n <= s.packets + 1 /\ s.packets + 1 \in 1..MaxPackets
      /\ Packet(s) \in Packets
  BY RotationFacts DEF RotateAndWrite
<1> DEFINE k == Packet(s)
<1>2. PICK ok \in BOOLEAN :
        /\ disk' = DumpOpened(s.path, IF ok THEN {k} ELSE {})
        /\ CountOpen(s.path) /\ Name(s.cap, s.path)
        /\ job' = [job EXCEPT ![w] = j]
        /\ Got(k, s.path, OpenCount(s.path))
        /\ Written(k, ok)
  BY DEF RotateAndWrite
<1>U. UNCHANGED <<now, started, rawQ, readyQ, cleanupVars, crashes>>
  BY DEF RotateAndWrite
<1> HIDE DEF s
<1> DEFINE first == IF ok THEN {k} ELSE {}
<1>F. /\ first \in SUBSET {k} /\ dropped' = dropped \cup ({k} \ first) /\ faults' \in 0..MaxFaults
      /\ k.cap = s.cap /\ disk' = DumpOpened(s.path, first)
  <2>1. k.cap = s.cap
    BY DEF Packet
  <2>2. faults \in 0..MaxFaults /\ TypeOK
    BY DEF CoreInv, TypeOK
  <2>3. CASE ok
    BY <1>2, <2>1, <2>2, <2>3 DEF Written
  <2>4. CASE ~ok
    <3>1. Fail(1) /\ dropped' = dropped \cup {k}
      BY <1>2, <2>4 DEF Written
    <3> QED BY <1>2, <2>1, <2>2, <2>4, <3>1, FaultsBounded
  <2> QED BY <2>3, <2>4
<1>G. got' = got \cup {[id |-> k, path |-> s.path, open |-> opens'[s.path]]}
  <2>1. HistoryTyped
    BY DEF CoreInv, TypeOK, HistoryTyped
  <2>2. opens'[s.path] = OpenCount(s.path)
    BY <1>2, <2>1, Counted
  <2> QED BY <1>2, <2>2 DEF Got
<1> HIDE DEF first, k
<1>3. i \in Nat
  <2>1. [id |-> k, path |-> s.path, open |-> opens'[s.path]].id = k
    OBVIOUS
  <2>2. first \in SUBSET {g.id : g \in got'} /\ got \subseteq got'
    BY <1>F, <1>G, <2>1
  <2>3. DiskTyped /\ HistoryTyped
    BY DEF CoreInv, TypeOK, HistoryTyped
  <2> QED BY <1>1, <1>2, <1>F, <2>2, <2>3, Opening
<1> HIDE DEF i
<1>4. /\ o \in Jobs /\ o.path = s.path /\ o.ino = i /\ o.n = s.n /\ o.written = 0 /\ o.packets = s.packets
      /\ o.cap = s.cap /\ o.target = s.target /\ o.start = s.start /\ o.seq = s.seq /\ o.kind = s.kind
  BY <1>1, <1>3 DEF Jobs
<1> HIDE DEF o
<1>5. o.packets + 1 \in 0..MaxPackets /\ o.written + 1 \in 0..MaxBytes /\ o.written + 1 = 1
  BY <1>1, <1>4, Constants
<1>6. j = [[o EXCEPT !.packets = o.packets + 1] EXCEPT !.written = o.written + 1]
  BY <1>4 DEF Delivered, Jobs
<1>7. /\ j \in Jobs /\ j.path = o.path /\ j.ino = o.ino /\ j.n = o.n /\ j.written = o.written + 1
      /\ j.packets = o.packets + 1
      /\ j.cap = o.cap /\ j.target = o.target /\ j.start = o.start /\ j.seq = o.seq /\ j.kind = o.kind
  BY <1>4, <1>5, <1>6 DEF Jobs
<1> HIDE DEF j
<1>8. WellCounted(j)
  <2>1. ExpandPattern(j) = ExpandPattern(s)
    BY <1>4, <1>7 DEF ExpandPattern
  <2>2. s.n \in Nat /\ s.packets \in Nat
    BY <1>1, Constants DEF Jobs
  <2>3. j.n + j.written <= j.packets + 1
    BY <1>1, <1>4, <1>5, <1>7, <2>2
  <2> QED BY <1>1, <1>4, <1>7, <2>1, <2>3 DEF WellCounted
<1>9. CapturesApart' /\ ArchivedOnce' /\ FilesInv' /\ Typed'
  <2>1. /\ CountOpen(j.path) /\ disk' = DumpOpened(j.path, first) /\ j.ino = disk'[j.path].ino
        /\ Name(j.cap, j.path) /\ {k} \in SUBSET Packets /\ \A z \in {k} : z.cap = j.cap
        /\ UNCHANGED <<rawQ, readyQ, pending, groups, removing, archives>>
        /\ j.cap = job[w].cap /\ started' = started
    BY <1>1, <1>2, <1>U, <1>F, <1>4, <1>7 DEF cleanupVars, i, k
  <2>2. got' = got \cup {[id |-> z, path |-> j.path, open |-> opens'[j.path]] : z \in {k}}
    BY <1>G, <1>4, <1>7
  <2>3. Takes(w, j, {k}, first)
    BY <1>1, <1>2, <1>F, <1>7, <1>8, <2>1, <2>2 DEF Takes
  <2> QED BY <1>7, <2>3, JobTakesFile
<1>10. CleanupTyped'
  BY <1>U, CleanupQuiet DEF CoreInv
<1> QED BY <1>U, <1>F, <1>9, <1>10 DEF CoreInv, FilesInv, TypeOK, Typed, HistoryTyped

\* dump_cb when rotate_open fails.
LEMMA RotateFailsKeeps ==
  ASSUME CoreInv, NEW w \in Workers, RotateFails(w)
  PROVE  CoreInv'
<1> DEFINE s == NextSegment(job[w])
           j == [s EXCEPT !.ino = 0]
<1>1. /\ job[w] # NoJob /\ s \in Jobs /\ s.path = ExpandPattern(s) /\ s.path \in Paths
      /\ s.written = 0 /\ s.cap = job[w].cap /\ s.n <= s.packets + 1 /\ s.packets + 1 \in 1..MaxPackets
  BY RotationFacts DEF RotateFails
<1>2. /\ job' = [job EXCEPT ![w] = j] /\ Name(s.cap, s.path) /\ Fail(1)
      /\ UNCHANGED <<now, started, disk, rawQ, readyQ, cleanupVars, opens, got, dropped, crashes>>
  BY DEF RotateFails
<1> HIDE DEF s
<1>3. /\ j \in Jobs /\ j.path = s.path /\ j.ino = 0 /\ j.n = s.n /\ j.written = 0
      /\ j.packets = s.packets
      /\ j.cap = s.cap /\ j.target = s.target /\ j.start = s.start /\ j.seq = s.seq /\ j.kind = s.kind
  BY <1>1 DEF Jobs
<1> HIDE DEF j
<1>4. WellCounted(j)
  <2>1. ExpandPattern(j) = ExpandPattern(s)
    BY <1>3 DEF ExpandPattern
  <2>2. s.n \in Nat /\ s.packets \in Nat
    BY <1>1, Constants DEF Jobs
  <2>3. j.n + j.written <= j.packets + 1
    BY <1>1, <1>3, <2>2
  <2> QED BY <1>1, <1>3, <2>1, <2>3 DEF WellCounted
<1>5. CapturesApart' /\ ArchivedOnce' /\ FilesInv' /\ Typed'
  <2>0. PICK none : none = {}
    OBVIOUS
  <2>1. /\ Name(j.cap, j.path) /\ opens' = opens /\ disk' = disk /\ j.ino = 0
        /\ UNCHANGED <<rawQ, readyQ, pending, groups, removing, archives>>
        /\ got' = got \cup {[id |-> k, path |-> j.path, open |-> opens'[j.path]] : k \in none}
        /\ dropped' = dropped \cup (none \ none) /\ none \in SUBSET Packets /\ none \in SUBSET none
        /\ (\A k \in none : k.cap = j.cap) /\ none = {}
        /\ j.cap = job[w].cap /\ started' = started
    BY <1>1, <1>2, <1>3, <2>0 DEF cleanupVars
  <2>2. Takes(w, j, none, none)
    BY <1>1, <1>2, <1>3, <1>4, <2>1 DEF Takes
  <2> QED BY <1>3, <2>2, JobTakesFile
<1>6. CleanupTyped' /\ faults' \in 0..MaxFaults
  <2>1. CleanupTyped'
    BY <1>2, CleanupQuiet DEF CoreInv
  <2>2. TypeOK
    BY DEF CoreInv
  <2>3. faults' \in 0..MaxFaults
    BY <1>2, <2>2, FaultsBounded
  <2> QED BY <2>1, <2>3
<1> QED BY <1>2, <1>5, <1>6 DEF CoreInv, FilesInv, TypeOK, Typed, HistoryTyped

\* dump_cb, straight to the file: a dumper whose file no other capture took
\* still has it.
LEMMA WritePacketKeeps ==
  ASSUME CoreInv, NEW w \in Workers, WritePacket(w)
  PROVE  CoreInv'
<1> DEFINE o == job[w]
           j == Delivered(o)
           k == Packet(o)
           x == [cap |-> o.cap, path |-> o.path]
<1>1. /\ o # NoJob /\ o \in Jobs /\ o.path = ExpandPattern(o) /\ w \in Running
      /\ o.n + o.written <= o.packets + 1 /\ o.packets < MaxPackets /\ o.ino # 0
      /\ ~(o.written + 1 > MaxBytes)
  BY DEF CoreInv, TypeOK, JobsTyped, WritePacket, PacketComes, RotationDue, Running
<1>2. PICK ok \in BOOLEAN : /\ disk' = IF ok THEN Dump(o, k) ELSE disk
                            /\ Got(k, o.path, opens[o.path])
                            /\ Written(k, ok)
  BY DEF WritePacket
<1>3. /\ job' = [job EXCEPT ![w] = j]
      /\ UNCHANGED <<now, started, rawQ, readyQ, cleanupVars, opens, owner, crashes>>
  BY DEF WritePacket
<1>4. x \in Held /\ x.path = o.path /\ x.cap = o.cap
  BY <1>1 DEF Held, JobFiles
<1>5. /\ o.path \in DOMAIN opens
      /\ owner[o.path] = o.cap => o.path \in DOMAIN disk /\ disk[o.path].ino = o.ino
  BY <1>1 DEF CoreInv, DumperHasFile
<1>6. DiskTyped /\ JobsTyped /\ HistoryTyped /\ TypeOK
  BY DEF CoreInv, TypeOK, HistoryTyped
<1> HIDE DEF x
<1>7. o.path \in DOMAIN owner /\ owner[o.path] \in {o.cap, 0} /\ o.path.ext # "filtered" /\ o.cap \in Nat
  BY <1>4, HeldCaps DEF CoreInv, NamesOwned
<1>8. k.cap = o.cap
  BY DEF Packet
<1>9. job[w] = o
  OBVIOUS
<1> HIDE DEF o
<1>10. /\ o.n \in Nat /\ o.written \in Nat /\ o.packets \in Nat
       /\ o.packets + 1 \in 0..MaxPackets /\ o.written + 1 \in 0..MaxBytes /\ k \in Packets
  <2>1. /\ o.n \in Nat /\ o.written \in Nat /\ o.packets \in Nat /\ o.cap \in 1..MaxCaptures
    BY <1>1, Constants DEF Jobs
  <2>2. o.packets + 1 \in 0..MaxPackets /\ o.packets + 1 \in 1..MaxPackets /\ o.written + 1 \in 0..MaxBytes
    BY <1>1, <2>1, Constants
  <2> QED BY <2>1, <2>2 DEF Packet, Packets
<1>11. j = [[o EXCEPT !.packets = o.packets + 1] EXCEPT !.written = o.written + 1]
  BY <1>1 DEF Delivered, Jobs
<1>12. /\ j \in Jobs /\ j.path = o.path /\ j.ino = o.ino /\ j.n = o.n /\ j.written = o.written + 1
       /\ j.packets = o.packets + 1
       /\ j.cap = o.cap /\ j.target = o.target /\ j.start = o.start /\ j.seq = o.seq /\ j.kind = o.kind
  BY <1>1, <1>10, <1>11 DEF Jobs
<1> HIDE DEF j, k
<1>13. WellCounted(j)
  <2>1. ExpandPattern(j) = ExpandPattern(o)
    BY <1>12 DEF ExpandPattern
  <2>2. j.n + j.written <= j.packets + 1
    BY <1>1, <1>10, <1>12
  <2> QED BY <1>1, <1>12, <2>1, <2>2 DEF WellCounted
<1>14. /\ CapturesApart' /\ ArchivedOnce'
       /\ started' \in Nat /\ started <= started' /\ j.cap \in Nat /\ j.cap <= started'
       /\ j.cap \in CapsOf(Held) \/ j.cap = started + 1
       /\ Held' \subseteq Held \cup {[cap |-> j.cap, path |-> j.path]}
       /\ Running' \subseteq Running \cup {w} /\ job'[w] = j
       /\ \A v \in Running' : v # w => v \in Running /\ job'[v] = job[v] /\ job[v].cap # j.cap
       /\ \A e \in Waiting \cup removing : e.cap # j.cap
  <2>1. /\ UNCHANGED <<rawQ, readyQ, pending, groups, removing, archives>>
        /\ job[w] # NoJob /\ j.cap = job[w].cap /\ started' = started
    BY <1>1, <1>3, <1>9, <1>12 DEF cleanupVars
  <2>2. PICK z : z = j
    OBVIOUS
  <2>3. z \in Jobs /\ job' = [job EXCEPT ![w] = z] /\ z.cap = job[w].cap
    BY <1>3, <1>12, <2>1, <2>2
  <2>4. /\ CapturesApart' /\ ArchivedOnce'
        /\ started' \in Nat /\ started <= started' /\ z.cap \in Nat /\ z.cap <= started'
        /\ z.cap \in CapsOf(Held) \/ z.cap = started + 1
        /\ Held' \subseteq Held \cup {[cap |-> z.cap, path |-> z.path]}
        /\ Running' \subseteq Running \cup {w} /\ job'[w] = z
        /\ \A v \in Running' : v # w => v \in Running /\ job'[v] = job[v] /\ job[v].cap # z.cap
        /\ \A e \in Waiting \cup removing : e.cap # z.cap
    BY ONLY CoreInv, w \in Workers, <2>1, <2>3, JobReplaced
  <2> QED BY <2>2, <2>4
<1>15. Held' \subseteq Held
  BY <1>4, <1>12, <1>14 DEF x
<1> DEFINE g0 == [id |-> k, path |-> o.path, open |-> opens[o.path]]
<1>16. /\ got' = got \cup {g0} /\ g0.id = k /\ g0.path = o.path /\ g0.open = opens[o.path]
       /\ g0 \in [id : Packets, path : Paths, open : Nat]
  <2>1. opens[o.path] \in Nat /\ o.path \in Paths
    BY <1>1, <1>5, <1>6 DEF HistoryTyped, Jobs
  <2> QED BY <1>2, <1>10, <2>1 DEF Got
<1> HIDE DEF g0
<1>17. /\ dropped \subseteq dropped' /\ dropped' \subseteq dropped \cup {k} /\ (ok \/ k \in dropped')
       /\ faults' \in 0..MaxFaults
  <2>1. CASE ok
    BY <1>2, <1>6, <2>1 DEF Written, TypeOK
  <2>2. CASE ~ok
    BY <1>2, <1>6, <2>2, FaultsBounded DEF Written
  <2> QED BY <2>1, <2>2
<1>18. HistoryTyped'
  BY <1>3, <1>6, <1>16, <1>17 DEF HistoryTyped
<1>19. /\ DiskTyped' /\ DOMAIN disk' = DOMAIN disk
       /\ \A p \in DOMAIN disk : /\ disk'[p].ino = disk[p].ino /\ disk[p].pkts \subseteq disk'[p].pkts
                                 /\ p # o.path => disk'[p] = disk[p]
       /\ ok /\ o.path \in DOMAIN disk /\ disk[o.path].ino = o.ino => k \in disk'[o.path].pkts
  <2> DEFINE Files == [ino : Nat \ {0}, pkts : SUBSET {g.id : g \in got'}]
  <2>1. /\ disk \in [DOMAIN disk -> [ino : Nat \ {0}, pkts : SUBSET {g.id : g \in got}]]
        /\ DOMAIN disk \subseteq DOMAIN opens
    BY <1>6 DEF DiskTyped
  <2>2. {g.id : g \in got} \subseteq {g.id : g \in got'} /\ k \in {g.id : g \in got'}
    BY <1>16
  <2>3. \A p \in DOMAIN disk : disk[p] \in Files
    BY <2>1, <2>2
  <2>4. CASE ok /\ o.path \in DOMAIN disk /\ disk[o.path].ino = o.ino
    <3> DEFINE file == [disk[o.path] EXCEPT !.pkts = disk[o.path].pkts \cup {k}]
    <3>1. /\ file \in Files /\ file.ino = disk[o.path].ino /\ file.pkts = disk[o.path].pkts \cup {k}
      BY <2>2, <2>3, <2>4
    <3>2. disk' = [disk EXCEPT ![o.path] = file]
      BY <1>2, <2>1, <2>4 DEF Dump
    <3> HIDE DEF file
    <3>3. /\ DOMAIN disk' = DOMAIN disk /\ disk'[o.path] = file
          /\ \A p \in DOMAIN disk : p # o.path => disk'[p] = disk[p]
      BY <2>1, <2>4, <3>2
    <3>4. disk' \in [DOMAIN disk' -> Files]
      BY <2>1, <2>3, <2>4, <3>1, <3>2
    <3> QED BY <1>3, <2>1, <3>1, <3>3, <3>4 DEF DiskTyped
  <2>5. CASE ~(ok /\ o.path \in DOMAIN disk /\ disk[o.path].ino = o.ino)
    <3>1. disk' = disk
      BY <1>2, <2>5 DEF Dump
    <3> QED BY <1>3, <2>1, <2>3, <2>5, <3>1 DEF DiskTyped
  <2> QED BY <2>4, <2>5
<1>20. JobsTyped'
  BY <1>3, <1>6, <1>12, <1>13, <1>14 DEF JobsTyped, WellCounted
<1>21. TouchedBy({j.cap}, {j.path})
  <2>1. MoreBatches /\ MoreNamed /\ MoreOpened
    BY <1>3, <1>6 DEF MoreBatches, Batches, cleanupVars, MoreNamed, MoreOpened, HistoryTyped
  <2>2. \A p \in DOMAIN disk : p \in {j.path} \/ Stays(p)
    BY <1>12, <1>19 DEF Stays
  <2> QED BY <1>3, <1>7, <1>12, <1>17, <1>19, <2>1, <2>2 DEF TouchedBy
<1>22. FilesInv'
  <2>1. \A c \in {j.cap} : c \in CapsOf(Held) \/ c = started + 1
    BY <1>14
  <2>2. \A e \in Held' : e \in Held
    BY <1>15
  <2>3. \A v \in Running' :
            \/ v \in Running /\ job'[v] = job[v] /\ job[v].cap \notin {j.cap}
            \/ job'[v].ino # 0 =>
                  /\ job'[v].path \in DOMAIN opens'
                  /\ owner'[job'[v].path] = job'[v].cap =>
                       job'[v].path \in DOMAIN disk' /\ disk'[job'[v].path].ino = job'[v].ino
    BY <1>3, <1>5, <1>12, <1>14, <1>19
  <2>4. \A e \in removing' :
            \/ e \in removing /\ e.cap \notin {j.cap}
            \/ e.path \in DOMAIN disk' /\ owner'[e.path] = e.cap =>
                 \A i \in disk'[e.path].pkts : InBatch(i)'
    BY <1>3, <1>14 DEF cleanupVars
  <2>5. \A g \in got : /\ g.id.cap \in {j.cap} /\ g.path \in {j.path} /\ g.path \in DOMAIN disk
                       /\ g.id \in disk[g.path].pkts
                       /\ owner'[g.path] = g.id.cap /\ g.open = opens'[g.path]
                       => Somewhere(g)'
    BY <1>19 DEF Somewhere
  <2>6. ASSUME NEW g \in got', g \notin got PROVE Arrived(g)
    <3>1. g.id = k /\ g.path = o.path /\ g.open = opens[o.path]
      BY <1>16, <2>6
    <3>2. g.id.cap <= started' /\ g.path \in DOMAIN opens' /\ g.open = opens'[g.path]
      BY <1>3, <1>5, <1>8, <1>12, <1>14, <3>1
    <3>3. opens[o.path] \in Nat
      BY <1>5, <1>6 DEF HistoryTyped
    <3>4. g.open <= opens'[g.path]
      BY <3>1, <3>2, <3>3
    <3>5. CASE ok
      <4>1. owner'[g.path] = g.id.cap => g.path \in DOMAIN disk' /\ g.id \in disk'[g.path].pkts
        BY <1>3, <1>5, <1>8, <1>19, <3>1, <3>5
      <4> QED BY <3>2, <3>4, <4>1 DEF Arrived, Somewhere
    <3>6. CASE ~ok
      BY <1>17, <3>1, <3>2, <3>4, <3>6 DEF Arrived, Somewhere
    <3> QED BY <3>5, <3>6
  <2>7. \A g \in got' : g \in got \/ Arrived(g)
    BY <2>6
  <2> QED BY <1>14, <1>21, <2>1, <2>2, <2>3, <2>4, <2>5, <2>7, ActorKeeps
<1>23. CleanupTyped'
  BY <1>3, <1>6, CleanupQuiet
<1> QED BY <1>3, <1>6, <1>14, <1>17, <1>18, <1>19, <1>20, <1>22, <1>23
        DEF CoreInv, FilesInv, TypeOK, HistoryTyped

\* The capture ends and its file is reported, to the filter thread or to the
\* cleanup thread.
LEMMA FinishKeeps ==
  ASSUME CoreInv, NEW w \in Workers, Finish(w)
  PROVE  CoreInv'
<1> DEFINE m == [cap |-> job[w].cap, path |-> job[w].path]
<1>1. /\ w \in Running /\ m \in JobFiles /\ m.cap = job[w].cap /\ m.cap \in CapsOf(JobFiles)
  BY DEF Finish, Running, JobFiles, CapsOf
<1>2. m \in FileMsgs
  <2>1. job[w] \in Jobs
    BY <1>1 DEF CoreInv, TypeOK, JobsTyped, Running
  <2> QED BY <2>1 DEF Jobs, FileMsgs
<1>3. /\ job' = [job EXCEPT ![w] = NoJob]
      /\ \/ readyQ' = Append(readyQ, m) /\ UNCHANGED rawQ
         \/ rawQ' = Append(rawQ, m) /\ UNCHANGED readyQ
      /\ UNCHANGED <<now, started, disk, cleanupVars, opens, owner, got, dropped, crashes, faults>>
  BY DEF Finish
<1>4. rawQ \in Seq(FileMsgs) /\ readyQ \in Seq(FileMsgs) /\ job \in [Workers -> Jobs \cup {NoJob}]
  BY DEF CoreInv, TypeOK, CleanupTyped, JobsTyped
<1>5. UNCHANGED <<pending, groups, removing, archives, step, recFiles, recSize, lines, missed>>
  BY <1>3 DEF cleanupVars, recordVars
<1> HIDE DEF m
<1>6. /\ job'[w] = NoJob /\ \A v \in Workers : v # w => job'[v] = job[v]
      /\ Running' = Running \ {w}
  BY <1>3, <1>4 DEF Running
<1>7. JobFiles' \subseteq JobFiles /\ m.cap \notin CapsOf(JobFiles')
  <2>1. JobFiles' = {[cap |-> job[v].cap, path |-> job[v].path] : v \in Running \ {w}}
    BY <1>6 DEF JobFiles, Running
  <2>2. ASSUME NEW e \in JobFiles' PROVE e \in JobFiles /\ e.cap # m.cap
    <3>1. PICK v \in Running \ {w} : e = [cap |-> job[v].cap, path |-> job[v].path]
      BY <2>1
    <3>2. job[v].cap # job[w].cap
      BY <1>1, <3>1 DEF CoreInv, CapturesApart
    <3> QED BY <1>1, <3>1, <3>2 DEF JobFiles
  <2> QED BY <2>2 DEF CapsOf
<1>8. m.cap \notin CapsOf(Waiting \cup removing)
  BY <1>1 DEF CoreInv, CapturesApart
<1>9. /\ rawQ' \in Seq(FileMsgs) /\ readyQ' \in Seq(FileMsgs)
      /\ Range(rawQ') \subseteq Range(rawQ) \cup {m} /\ Range(readyQ') \subseteq Range(readyQ) \cup {m}
      /\ \A i, k \in DOMAIN readyQ' : readyQ'[i].cap = readyQ'[k].cap => i = k
      /\ \A i, k \in DOMAIN rawQ' : rawQ'[i].cap = rawQ'[k].cap => i = k
      /\ (Range(rawQ') \subseteq Range(rawQ) \/ Range(readyQ') \subseteq Range(readyQ))
      /\ (readyQ # <<>> => readyQ' # <<>>)
  <2>1. /\ \A i, k \in DOMAIN readyQ : readyQ[i].cap = readyQ[k].cap => i = k
        /\ \A i, k \in DOMAIN rawQ : rawQ[i].cap = rawQ[k].cap => i = k
    BY DEF CoreInv, CapturesApart
  <2>2. CASE readyQ' = Append(readyQ, m) /\ UNCHANGED rawQ
    <3>1. \A i \in DOMAIN readyQ : readyQ[i].cap # m.cap
      <4>1. ASSUME NEW i \in DOMAIN readyQ PROVE readyQ[i].cap \in CapsOf(Waiting \cup removing)
        BY DEF CapsOf, Waiting, ToCompress, Range
      <4> QED BY <1>8, <4>1
    <3>2. /\ readyQ' \in Seq(FileMsgs) /\ Range(readyQ') = Range(readyQ) \cup {m}
          /\ Len(readyQ) \in Nat /\ DOMAIN readyQ = 1..Len(readyQ) /\ DOMAIN readyQ' = 1..(Len(readyQ) + 1)
          /\ \A i \in 1..Len(readyQ) : readyQ'[i] = readyQ[i]
          /\ readyQ'[Len(readyQ) + 1] = m /\ readyQ' # <<>>
      BY <1>2, <1>4, <2>2, AppendFacts
    <3> QED BY <1>4, <2>1, <2>2, <3>1, <3>2
  <2>3. CASE rawQ' = Append(rawQ, m) /\ UNCHANGED readyQ
    <3>1. \A i \in DOMAIN rawQ : rawQ[i].cap # m.cap
      <4>1. ASSUME NEW i \in DOMAIN rawQ PROVE rawQ[i].cap \in CapsOf(Waiting \cup removing)
        BY DEF CapsOf, Waiting, Range
      <4> QED BY <1>8, <4>1
    <3>2. /\ rawQ' \in Seq(FileMsgs) /\ Range(rawQ') = Range(rawQ) \cup {m}
          /\ Len(rawQ) \in Nat /\ DOMAIN rawQ = 1..Len(rawQ) /\ DOMAIN rawQ' = 1..(Len(rawQ) + 1)
          /\ \A i \in 1..Len(rawQ) : rawQ'[i] = rawQ[i]
          /\ rawQ'[Len(rawQ) + 1] = m
      BY <1>2, <1>4, <2>3, AppendFacts
    <3> QED BY <1>4, <2>1, <2>3, <3>1, <3>2
  <2> QED BY <1>3, <2>2, <2>3
<1>10. Waiting' \subseteq Waiting \cup {m} /\ ToCompress' \subseteq ToCompress \cup {m}
  BY <1>5, <1>9 DEF Waiting, ToCompress
<1>11. Held' \subseteq Held /\ m \in Held
  BY <1>1, <1>5, <1>7, <1>10 DEF Held
<1>12. CapturesApart'
  <2>1. \A e \in Held' : e.cap <= started'
    BY <1>3, <1>11 DEF CoreInv, CapturesApart
  <2>2. \A u, v \in Running' : job'[u].cap = job'[v].cap => u = v
    BY <1>6 DEF CoreInv, CapturesApart, Running
  <2>3. CapsOf(JobFiles') \cap CapsOf(Waiting' \cup removing') = {}
    <3>1. /\ CapsOf(JobFiles') \subseteq CapsOf(JobFiles)
          /\ CapsOf(Waiting' \cup removing') \subseteq CapsOf(Waiting \cup removing) \cup {m.cap}
      BY <1>5, <1>7, <1>10 DEF CapsOf
    <3> QED BY <1>7, <3>1 DEF CoreInv, CapturesApart
  <2>4. CapsOf(Range(readyQ')) \cap CapsOf(Range(pending') \cup groups') = {}
    <3>1. CapsOf(Range(readyQ')) \subseteq CapsOf(Range(readyQ)) \cup {m.cap}
      BY <1>9 DEF CapsOf
    <3>2. CapsOf(Range(pending) \cup groups) \subseteq CapsOf(Waiting \cup removing)
      BY DEF CapsOf, Waiting, ToCompress
    <3> QED BY <1>5, <1>8, <3>1, <3>2 DEF CoreInv, CapturesApart
  <2>5. CapsOf(Range(rawQ')) \cap CapsOf(ToCompress' \cup removing') = {}
    <3>1. /\ CapsOf(Range(rawQ)) \subseteq CapsOf(Waiting \cup removing)
          /\ CapsOf(ToCompress \cup removing) \subseteq CapsOf(Waiting \cup removing)
      BY DEF CapsOf, Waiting
    <3>2. CASE Range(rawQ') \subseteq Range(rawQ)
      <4>1. /\ CapsOf(Range(rawQ')) \subseteq CapsOf(Range(rawQ))
            /\ CapsOf(ToCompress' \cup removing') \subseteq CapsOf(ToCompress \cup removing) \cup {m.cap}
        BY <1>5, <1>10, <3>2 DEF CapsOf
      <4> QED BY <1>8, <3>1, <4>1 DEF CoreInv, CapturesApart
    <3>3. CASE Range(readyQ') \subseteq Range(readyQ)
      <4>1. ToCompress' \subseteq ToCompress
        BY <1>5, <3>3 DEF ToCompress
      <4>2. /\ CapsOf(Range(rawQ')) \subseteq CapsOf(Range(rawQ)) \cup {m.cap}
            /\ CapsOf(ToCompress' \cup removing') \subseteq CapsOf(ToCompress \cup removing)
        BY <1>5, <1>9, <4>1 DEF CapsOf
      <4> QED BY <1>8, <3>1, <4>2 DEF CoreInv, CapturesApart
    <3> QED BY <1>9, <3>2, <3>3
  <2> QED BY <1>9, <2>1, <2>2, <2>3, <2>4, <2>5 DEF CapturesApart
<1>13. HistoryTyped /\ started \in Nat /\ TypeOK
  BY HeldCaps DEF CoreInv, TypeOK, HistoryTyped
<1>14. TouchedBy({m.cap}, {})
  BY <1>3, <1>5, <1>13 DEF TouchedBy, MoreNamed, MoreOpened, MoreBatches, Batches, Stays, HistoryTyped
<1>15. FilesInv'
  <2>1. \A c \in {m.cap} : c \in CapsOf(Held) \/ c = started + 1
    BY <1>11 DEF CapsOf
  <2>2. \A e \in Held' : e \in Held
    BY <1>11
  <2>3. \A v \in Running' : v \in Running /\ job'[v] = job[v] /\ job[v].cap \notin {m.cap}
    BY <1>1, <1>6 DEF CoreInv, CapturesApart, Running
  <2>4. \A e \in removing' : e \in removing /\ e.cap \notin {m.cap}
    BY <1>5, <1>8 DEF CapsOf
  <2>5. \A g \in got' : g \in got
    BY <1>3
  <2> QED BY <1>3, <1>13, <1>14, <2>1, <2>2, <2>3, <2>4, <2>5, ActorKeeps
<1>16. ArchivedOnce'
  <2>1. CapsOf((JobFiles \cup ToCompress)') \subseteq CapsOf(JobFiles \cup ToCompress)
    BY <1>1, <1>7, <1>10 DEF CapsOf
  <2> QED BY <1>3, <1>5, <2>1 DEF CoreInv, ArchivedOnce, Batches
<1>17. DiskTyped' /\ CleanupTyped' /\ JobsTyped'
  <2>1. DiskTyped'
    BY <1>3 DEF CoreInv, TypeOK, DiskTyped
  <2>2. CleanupTyped'
    BY <1>5, <1>9 DEF CoreInv, TypeOK, CleanupTyped
  <2>3. JobsTyped'
    BY <1>3, <1>6 DEF CoreInv, TypeOK, JobsTyped
  <2> QED BY <2>1, <2>2, <2>3
<1> QED BY <1>3, <1>12, <1>13, <1>15, <1>16, <1>17 DEF CoreInv, FilesInv, TypeOK, HistoryTyped

\* The process ends: what was in memory is gone, and what was not flushed.
LEMMA ProcessEndsKeeps ==
  ASSUME CoreInv, NEW flushed, ProcessEnds(flushed)
  PROVE  CoreInv'
<1> DEFINE open == {job[w].path : w \in {v \in Workers : job[v] # NoJob /\ job[v].ino # 0}}
           cut == {k \in UNION {disk[p].pkts : p \in open \cap DOMAIN disk} : k.no > flushed}
<1>1. /\ now < MaxTime /\ crashes < MaxCrashes /\ crashes' = crashes + 1 /\ now' = now + 1
      /\ disk' = [p \in DOMAIN disk |-> IF p \in open THEN [disk[p] EXCEPT !.pkts = @ \ cut] ELSE disk[p]]
      /\ dropped' = dropped \cup cut
      /\ job' = [w \in Workers |-> NoJob]
      /\ rawQ' = <<>> /\ readyQ' = <<>> /\ pending' = <<>> /\ groups' = {} /\ removing' = {} /\ step' = "idle"
      /\ recSize' = -1 /\ missed' = (IF step = "prune" THEN missed + 1 ELSE missed)
      /\ UNCHANGED <<started, archives, recFiles, lines, opens, owner, got, faults>>
  BY DEF ProcessEnds
<1>2. /\ disk \in [DOMAIN disk -> [ino : Nat \ {0}, pkts : SUBSET {g.id : g \in got}]]
      /\ DOMAIN disk \subseteq DOMAIN opens
  BY DEF CoreInv, TypeOK, DiskTyped
<1>3. cut \subseteq {g.id : g \in got}
  BY <1>2
<1> HIDE DEF open, cut
<1>4. /\ DOMAIN disk' = DOMAIN disk
      /\ \A p \in DOMAIN disk : /\ disk'[p] \in [ino : Nat \ {0}, pkts : SUBSET {g.id : g \in got}]
                                /\ disk'[p].ino = disk[p].ino /\ disk'[p].pkts \subseteq disk[p].pkts
                                /\ disk[p].pkts \subseteq disk'[p].pkts \cup cut
  BY <1>1, <1>2
<1>5. DiskTyped'
  <2>1. disk' \in [DOMAIN disk' -> [ino : Nat \ {0}, pkts : SUBSET {g.id : g \in got'}]]
    BY <1>1, <1>4
  <2> QED BY <1>1, <1>2, <1>4, <2>1 DEF DiskTyped
<1>6. /\ Range(rawQ') = {} /\ Range(readyQ') = {} /\ Range(pending') = {} /\ Running' = {}
  BY <1>1, EmptyRange DEF Running
<1>7. /\ Held' = {} /\ JobFiles' = {} /\ ToCompress' = {} /\ Waiting' = {}
  BY <1>1, <1>6 DEF Held, JobFiles, ToCompress, Waiting
<1>8. CapturesApart'
  BY <1>1, <1>6, <1>7, EmptySeq, LenProperties DEF CapturesApart, CapsOf
<1>9. HistoryTyped /\ started \in Nat
  BY HeldCaps DEF CoreInv, TypeOK, HistoryTyped
<1>10. ArchivedOnce'
  BY <1>1, <1>7 DEF CoreInv, ArchivedOnce, Batches, CapsOf
<1>11. HistoryTyped' /\ TouchedBy({}, {})
  <2>1. HistoryTyped'
    BY <1>1, <1>3, <1>9 DEF HistoryTyped
  <2>2. \A p \in DOMAIN disk : Stays(p)
    BY <1>1, <1>4 DEF Stays
  <2> QED BY <1>1, <1>4, <1>9, <2>1, <2>2
          DEF TouchedBy, MoreNamed, MoreOpened, MoreBatches, Batches, HistoryTyped
<1>12. FilesInv'
  <2>1. \A e \in Held' : e \in Held
    BY <1>7
  <2>2. \A v \in Running' : v \in Running /\ job'[v] = job[v] /\ job[v].cap \notin {}
    BY <1>6
  <2>3. \A e \in removing' : e \in removing /\ e.cap \notin {}
    BY <1>1
  <2>4. \A c \in {} : c \in CapsOf(Held) \/ c = started + 1
    OBVIOUS
  <2>5. \A g \in got' : g \in got
    BY <1>1
  <2> QED BY <1>1, <1>9, <1>11, <2>1, <2>2, <2>3, <2>4, <2>5, ActorKeeps
<1>13. JobsTyped'
  BY <1>1 DEF JobsTyped
<1>14. CleanupTyped'
  <2>1. <<>> \in Seq(FileMsgs) /\ -1 \in -1..RecordMax
    BY EmptySeq, Constants
  <2>2. missed' \in Nat
    BY <1>1 DEF CoreInv, TypeOK, CleanupTyped
  <2> QED BY <1>1, <2>1, <2>2 DEF CoreInv, TypeOK, CleanupTyped
<1>15. now' \in StartTime..MaxTime /\ crashes' \in 0..MaxCrashes
  <2>1. now \in StartTime..MaxTime /\ crashes \in 0..MaxCrashes
    BY DEF CoreInv, TypeOK
  <2>2. now < MaxTime /\ crashes < MaxCrashes /\ crashes' = crashes + 1 /\ now' = now + 1
    BY <1>1
  <2> QED BY ONLY <2>1, <2>2, Constants
<1> QED BY <1>1, <1>5, <1>8, <1>10, <1>11, <1>12, <1>13, <1>14, <1>15
        DEF CoreInv, FilesInv, TypeOK, HistoryTyped

-----------------------------------------------------------------------------
(* Filter thread. *)

\* The filter thread takes a raw file, which nobody else has.
LEMMA RawTaken ==
  ASSUME CoreInv, rawQ # <<>>, rawQ' = Tail(rawQ), UNCHANGED <<started, job, readyQ, cleanupVars>>
  PROVE  /\ Head(rawQ) \in FileMsgs /\ Head(rawQ) \in Held /\ CleanupTyped' /\ CapturesApart'
         /\ Held' \subseteq Held /\ ToCompress' = ToCompress /\ JobFiles' = JobFiles
         /\ Running' = Running /\ removing' = removing /\ archives' = archives
         /\ Head(rawQ).cap \notin CapsOf(Held')
         /\ Head(rawQ).cap \notin CapsOf(JobFiles) /\ Head(rawQ).cap \notin CapsOf(removing)
<1> DEFINE m == Head(rawQ)
<1>1. rawQ \in Seq(FileMsgs)
  BY DEF CoreInv, TypeOK, CleanupTyped
<1>2. /\ m \in FileMsgs /\ m \in Range(rawQ) /\ Range(rawQ') \subseteq Range(rawQ)
      /\ rawQ' \in Seq(FileMsgs) /\ Len(rawQ) \in Nat /\ Len(rawQ) >= 1 /\ m = rawQ[1]
      /\ DOMAIN rawQ = 1..Len(rawQ) /\ DOMAIN rawQ' = 1..(Len(rawQ) - 1)
      /\ \A i \in DOMAIN rawQ' : i + 1 \in DOMAIN rawQ /\ rawQ'[i] = rawQ[i + 1]
  BY <1>1, TailFacts
<1>3. UNCHANGED <<pending, groups, removing, archives, step, recFiles, recSize, lines, missed>>
  BY DEF cleanupVars, recordVars
<1>4. /\ Running' = Running /\ JobFiles' = JobFiles /\ ToCompress' = ToCompress
      /\ Waiting' \subseteq Waiting /\ Held' \subseteq Held
  BY <1>2, <1>3 DEF Running, JobFiles, ToCompress, Waiting, Held
<1>5. \A i, k \in DOMAIN rawQ : rawQ[i].cap = rawQ[k].cap => i = k
  BY DEF CoreInv, CapturesApart
<1> HIDE DEF m
<1>6. m.cap \notin CapsOf(Range(rawQ'))
  <2>1. ASSUME NEW i \in DOMAIN rawQ' PROVE rawQ'[i].cap # m.cap
    <3>1. i + 1 \in DOMAIN rawQ /\ 1 \in DOMAIN rawQ /\ i + 1 # 1 /\ rawQ'[i] = rawQ[i + 1]
      BY <1>2
    <3> QED BY <1>2, <1>5, <3>1
  <2> QED BY <2>1 DEF CapsOf, Range
<1>7. CapturesApart'
  <2>1. /\ CapsOf(Waiting' \cup removing') \subseteq CapsOf(Waiting \cup removing)
        /\ CapsOf(Range(rawQ')) \subseteq CapsOf(Range(rawQ))
    BY <1>2, <1>3, <1>4 DEF CapsOf
  <2>2. ASSUME NEW i \in DOMAIN rawQ', NEW k \in DOMAIN rawQ', rawQ'[i].cap = rawQ'[k].cap PROVE i = k
    <3>1. /\ i + 1 \in DOMAIN rawQ /\ k + 1 \in DOMAIN rawQ /\ i \in Int /\ k \in Int
          /\ rawQ[i + 1].cap = rawQ[k + 1].cap
      BY <1>2, <2>2
    <3>2. i + 1 = k + 1
      BY <1>5, <3>1
    <3> QED BY <3>1, <3>2
  <2> QED BY <1>3, <1>4, <2>1, <2>2 DEF CoreInv, CapturesApart
<1>8. CleanupTyped'
  BY <1>2, <1>3 DEF CoreInv, TypeOK, CleanupTyped
<1>9. m \in Held /\ m.cap \in CapsOf(Range(rawQ)) /\ m.cap \in CapsOf(Waiting \cup removing)
  BY <1>2 DEF Held, Waiting, CapsOf
<1>10. m.cap \notin CapsOf(JobFiles) /\ m.cap \notin CapsOf(ToCompress \cup removing)
  BY <1>9 DEF CoreInv, CapturesApart
<1>11. m.cap \notin CapsOf(Held')
  <2>1. Held' = JobFiles \cup (Range(rawQ') \cup ToCompress) \cup removing
    BY <1>3, <1>4 DEF Held, Waiting
  <2> QED BY <1>6, <1>10, <2>1 DEF CapsOf
<1>12. m.cap \notin CapsOf(removing)
  BY <1>10 DEF CapsOf
<1> QED BY <1>2, <1>3, <1>4, <1>7, <1>8, <1>9, <1>10, <1>11, <1>12 DEF m

\* Archives and captures that are as they were stay apart.
LEMMA StillArchivedOnce ==
  ASSUME CoreInv, archives' = archives, started' = started, JobFiles' \subseteq JobFiles,
         ToCompress' \subseteq ToCompress
  PROVE  ArchivedOnce'
  BY DEF CoreInv, ArchivedOnce, Batches, CapsOf

\* The early returns of handle_raw_file.
LEMMA FilterGivesUpKeeps ==
  ASSUME CoreInv, FilterGivesUp
  PROVE  CoreInv'
<1>1. /\ rawQ # <<>> /\ rawQ' = Tail(rawQ)
      /\ UNCHANGED <<now, started, disk, job, readyQ, cleanupVars, opens, owner, got, dropped, crashes>>
  BY DEF FilterGivesUp
<1>2. faults' \in 0..MaxFaults
  <2>1. faults \in 0..MaxFaults /\ TypeOK /\ (Fail(1) \/ UNCHANGED faults)
    BY DEF CoreInv, TypeOK, FilterGivesUp
  <2> QED BY <2>1, FaultsBounded
<1>3. /\ CleanupTyped' /\ CapturesApart' /\ Held' \subseteq Held /\ ToCompress' = ToCompress
      /\ JobFiles' = JobFiles /\ removing' = removing /\ archives' = archives
  BY <1>1, RawTaken
<1>4. ArchivedOnce'
  BY <1>1, <1>3, StillArchivedOnce
<1>5. FilesInv' /\ Typed'
  <2>1. MoreBatches
    BY <1>3 DEF MoreBatches, Batches
  <2> QED BY <1>1, <1>3, <2>1, Quiet
<1> QED BY <1>1, <1>2, <1>3, <1>4, <1>5 DEF CoreInv, FilesInv, TypeOK, Typed, HistoryTyped

\* A raw file becomes a filtered file.
LEMMA FilterFileKeeps ==
  ASSUME CoreInv, FilterFile
  PROVE  CoreInv'
<1> DEFINE m == Head(rawQ)
           raw == m.path
           out == FilteredPath(raw)
<1>1. /\ rawQ # <<>> /\ rawQ' = Tail(rawQ) /\ raw \in DOMAIN disk
      /\ CountOpen(out) /\ Name(m.cap, out)
      /\ UNCHANGED <<now, started, job, readyQ, cleanupVars, got, crashes>>
  BY DEF FilterFile
<1>2. \E match \in SUBSET disk[raw].pkts : \E lost \in SUBSET match, stays \in BOOLEAN :
         /\ Fail((IF lost = {} THEN 0 ELSE 1) + (IF stays THEN 1 ELSE 0))
         /\ disk' = Without(DumpOpened(out, match \ lost), IF stays THEN {} ELSE {raw})
         /\ dropped' = IF stays THEN dropped ELSE dropped \cup (disk[raw].pkts \ (match \ lost))
  BY DEF FilterFile
<1>3. PICK kept, stays :
         /\ kept \subseteq disk[raw].pkts /\ stays \in BOOLEAN
         /\ \E n \in Nat : Fail(n)
         /\ disk' = Without(DumpOpened(out, kept), IF stays THEN {} ELSE {raw})
         /\ dropped' = IF stays THEN dropped ELSE dropped \cup (disk[raw].pkts \ kept)
  <2>0. PICK match \in SUBSET disk[raw].pkts : \E lost \in SUBSET match, stays \in BOOLEAN :
         /\ Fail((IF lost = {} THEN 0 ELSE 1) + (IF stays THEN 1 ELSE 0))
         /\ disk' = Without(DumpOpened(out, match \ lost), IF stays THEN {} ELSE {raw})
         /\ dropped' = IF stays THEN dropped ELSE dropped \cup (disk[raw].pkts \ (match \ lost))
    BY <1>2
  <2>1. PICK lost \in SUBSET match, stays \in BOOLEAN :
         /\ Fail((IF lost = {} THEN 0 ELSE 1) + (IF stays THEN 1 ELSE 0))
         /\ disk' = Without(DumpOpened(out, match \ lost), IF stays THEN {} ELSE {raw})
         /\ dropped' = IF stays THEN dropped ELSE dropped \cup (disk[raw].pkts \ (match \ lost))
    BY <2>0
  <2>2. (IF lost = {} THEN 0 ELSE 1) + (IF stays THEN 1 ELSE 0) \in Nat
    OBVIOUS
  <2>3. match \ lost \subseteq disk[raw].pkts
    OBVIOUS
  <2> QED BY <2>1, <2>2, <2>3
<1>4. /\ m \in FileMsgs /\ m \in Held /\ CleanupTyped' /\ CapturesApart'
      /\ Held' \subseteq Held /\ ToCompress' = ToCompress /\ JobFiles' = JobFiles
      /\ Running' = Running /\ removing' = removing /\ archives' = archives
      /\ m.cap \notin CapsOf(Held') /\ m.cap \notin CapsOf(JobFiles) /\ m.cap \notin CapsOf(removing)
  BY <1>1, RawTaken
<1> HIDE DEF m
<1>5. /\ raw \in DOMAIN owner /\ owner[raw] \in {m.cap, 0} /\ raw.ext # "filtered" /\ raw \in Paths
      /\ m.cap \in Nat /\ m.cap <= started /\ started \in Nat
  BY <1>4, HeldCaps DEF CoreInv, NamesOwned, FileMsgs
<1>6. out \in Paths /\ out # raw
  <2>1. FilteredPath(raw).ext \in {"", "filtered"} /\ FilteredPath(raw) \in Paths
    BY <1>5 DEF FilteredPath, Paths
  <2>2. raw.ext = "raw" => FilteredPath(raw).ext = ""
    BY <1>5 DEF FilteredPath, Paths
  <2>3. raw.ext # "raw" => FilteredPath(raw).ext = "filtered"
    BY <1>5 DEF FilteredPath, Paths
  <2> QED BY <1>5, <2>1, <2>2, <2>3
<1>7. \A g : g.path = raw => FilteredPath(g.path) = out
  OBVIOUS
<1> HIDE DEF raw, out
<1>8. DiskTyped /\ JobsTyped /\ HistoryTyped /\ TypeOK
  BY DEF CoreInv, TypeOK, HistoryTyped
<1>9. /\ opens' \in [DOMAIN opens' -> Nat \ {0}] /\ DOMAIN opens' = DOMAIN opens \cup {out}
      /\ MoreOpened /\ (out \in DOMAIN opens => opens[out] < opens'[out])
  BY <1>1, <1>8, Counted
<1>10. /\ owner' \in [DOMAIN owner' -> 0..started'] /\ DOMAIN owner' = DOMAIN owner \cup {out}
       /\ MoreNamed /\ owner'[out] \in {m.cap, 0}
  <2>1. started' \in Nat /\ started <= started' /\ m.cap <= started'
    BY <1>1, <1>5
  <2> QED BY <1>1, <1>5, <1>8, <2>1, Named
<1>11. disk[raw].pkts \subseteq {g.id : g \in got} /\ DOMAIN disk \subseteq DOMAIN opens
  BY <1>1, <1>8 DEF DiskTyped
<1>12. PICK d : d = DumpOpened(out, kept)
  OBVIOUS
<1>13. /\ d \in [DOMAIN disk \cup {out} -> [ino : Nat \ {0}, pkts : SUBSET {g.id : g \in got'}]]
       /\ DOMAIN disk \cup {out} \subseteq DOMAIN opens'
       /\ d[out].pkts = kept
       /\ \A z \in DOMAIN disk : z # out => d[z] = disk[z]
  <2>1. kept \in SUBSET {g.id : g \in got'} /\ got \subseteq got'
    BY <1>1, <1>3, <1>11
  <2>2. DiskTyped /\ HistoryTyped /\ out \in Paths /\ CountOpen(out)
    BY <1>1, <1>6, <1>8
  <2> QED BY ONLY <1>12, <2>1, <2>2, OpenedFiles
<1> DEFINE gone == IF stays THEN {} ELSE {raw}
<1>14. /\ gone \subseteq {raw} /\ (stays => gone = {}) /\ (~stays => gone = {raw})
       /\ disk' = Without(d, gone)
  BY <1>3, <1>12
<1> HIDE DEF gone
<1>15. /\ disk' = [z \in (DOMAIN disk \cup {out}) \ gone |-> d[z]]
       /\ DOMAIN disk' = (DOMAIN disk \cup {out}) \ gone
       /\ out \in DOMAIN disk' /\ disk'[out].pkts = kept
       /\ \A z \in DOMAIN disk : z # out /\ z # raw => z \in DOMAIN disk' /\ disk'[z] = disk[z]
       /\ stays => raw \in DOMAIN disk' /\ disk'[raw] = disk[raw]
  BY <1>1, <1>6, <1>13, <1>14 DEF Without
<1>16. DiskTyped'
  <2>1. disk' \in [DOMAIN disk' -> [ino : Nat \ {0}, pkts : SUBSET {g.id : g \in got'}]]
    BY <1>13, <1>15
  <2> QED BY <1>13, <1>15, <2>1 DEF DiskTyped
<1>17. dropped \subseteq dropped' /\ HistoryTyped'
  <2>1. dropped \subseteq dropped' /\ dropped' \subseteq dropped \cup disk[raw].pkts
    BY <1>3
  <2> QED BY <1>1, <1>6, <1>8, <1>9, <1>10, <1>11, <2>1 DEF HistoryTyped
<1>18. JobsTyped' /\ faults' \in 0..MaxFaults
  <2>1. JobsTyped'
    BY <1>1, <1>8 DEF JobsTyped
  <2>2. PICK n \in Nat : Fail(n)
    BY <1>3
  <2> QED BY <1>8, <2>1, <2>2, FaultsBounded
<1>19. TouchedBy({m.cap}, {raw, out})
  <2>1. MoreBatches
    BY <1>4 DEF MoreBatches, Batches
  <2>2. \A p \in DOMAIN disk : p \in {raw, out} \/ Stays(p)
    BY <1>15 DEF Stays
  <2>3. owner'[raw] \in {m.cap, 0}
    BY <1>5, <1>10 DEF MoreNamed
  <2> QED BY <1>9, <1>10, <1>15, <1>17, <2>1, <2>2, <2>3 DEF TouchedBy
<1>20. FilesInv'
  <2>1. \A c \in {m.cap} : c \in CapsOf(Held) \/ c = started + 1
    BY <1>4 DEF CapsOf
  <2>2. \A e \in Held' : e \in Held
    BY <1>4
  <2>3. ASSUME NEW v \in Running' PROVE v \in Running /\ job'[v] = job[v] /\ job[v].cap \notin {m.cap}
    <3>1. v \in Running /\ [cap |-> job[v].cap, path |-> job[v].path] \in JobFiles
      BY <1>4 DEF JobFiles
    <3>2. job[v].cap \in CapsOf(JobFiles)
      BY <3>1 DEF CapsOf
    <3> QED BY <1>1, <1>4, <3>1, <3>2
  <2>4. \A e \in removing' : e \in removing /\ e.cap \notin {m.cap}
    BY <1>4 DEF CapsOf
  <2>5. ASSUME NEW g \in got, g.id.cap = m.cap, g.path \in {raw, out}, g.path \in DOMAIN disk,
               g.id \in disk[g.path].pkts, g.open = opens'[g.path]
        PROVE  Somewhere(g)'
    <3>1. g.path \in DOMAIN opens /\ g.open <= opens[g.path]
      BY DEF CoreInv, PacketsKept
    <3>2. opens[g.path] \in Nat /\ opens'[g.path] \in Nat
      BY <1>8, <1>9, <3>1 DEF HistoryTyped
    <3>3. g.path # out
      BY <1>9, <2>5, <3>1, <3>2
    <3>4. CASE stays
      BY <1>15, <2>5, <3>3, <3>4 DEF Somewhere
    <3>5. CASE ~stays /\ g.id \in kept
      <4>1. FilteredPath(g.path) = out /\ out \in DOMAIN owner' /\ out \in DOMAIN disk'
            /\ g.id \in disk'[out].pkts
        BY <1>7, <1>10, <1>15, <2>5, <3>3, <3>5
      <4>2. InFiltered(g)'
        BY <1>4, <2>5, <4>1 DEF InFiltered
      <4> QED BY <4>2 DEF Somewhere
    <3>6. CASE ~stays /\ g.id \notin kept
      BY <1>3, <2>5, <3>3, <3>6 DEF Somewhere
    <3> QED BY <3>4, <3>5, <3>6
  <2>6. \A g \in got : /\ g.id.cap \in {m.cap} /\ g.path \in {raw, out} /\ g.path \in DOMAIN disk
                       /\ g.id \in disk[g.path].pkts
                       /\ owner'[g.path] = g.id.cap /\ g.open = opens'[g.path]
                       => Somewhere(g)'
    BY <2>5
  <2>7. \A g \in got' : g \in got
    BY <1>1
  <2>8. \A v \in Running' : v \in Running /\ job'[v] = job[v] /\ job[v].cap \notin {m.cap}
    BY <2>3
  <2> QED BY <1>1, <1>5, <1>19, <2>1, <2>2, <2>4, <2>6, <2>7, <2>8, ActorKeeps
<1>21. ArchivedOnce'
  BY <1>1, <1>4, StillArchivedOnce
<1> QED BY <1>1, <1>4, <1>8, <1>16, <1>17, <1>18, <1>20, <1>21 DEF CoreInv, FilesInv, TypeOK, HistoryTyped

-----------------------------------------------------------------------------
(* The clock and the cleanup thread. *)

\* Captures, files and queues stay as they are.
LEMMA AllStays ==
  ASSUME CoreInv, UNCHANGED <<started, disk, job, rawQ, readyQ, pending, groups, removing, archives,
                              opens, owner, got, dropped>>
  PROVE  CapturesApart' /\ ArchivedOnce' /\ FilesInv' /\ Typed'
<1>1. /\ Running' = Running /\ JobFiles' = JobFiles /\ ToCompress' = ToCompress
      /\ Waiting' = Waiting /\ Held' = Held
  BY DEF Running, JobFiles, ToCompress, Waiting, Held
<1>2. CapturesApart'
  BY <1>1 DEF CoreInv, CapturesApart
<1>3. ArchivedOnce'
  BY <1>1, StillArchivedOnce
<1>4. MoreBatches
  BY DEF MoreBatches, Batches
<1>5. FilesInv' /\ Typed'
  BY <1>1, <1>4, Quiet
<1> QED BY <1>2, <1>3, <1>5

\* The clock.
LEMMA TickKeeps ==
  ASSUME CoreInv, Tick
  PROVE  CoreInv'
<1>1. /\ now < MaxTime /\ now' = now + 1
      /\ UNCHANGED <<captureVars, readyQ, cleanupVars, dropped, crashes, faults>>
  BY DEF Tick
<1>2. UNCHANGED <<started, disk, job, rawQ, readyQ, pending, groups, removing, archives, opens, owner,
                  got, dropped>>
  BY <1>1 DEF captureVars, cleanupVars
<1>3. CapturesApart' /\ ArchivedOnce' /\ FilesInv' /\ Typed'
  BY <1>2, AllStays
<1>4. CleanupTyped'
  BY <1>1, <1>2, CleanupQuiet DEF CoreInv
<1>5. now' \in StartTime..MaxTime
  <2>1. now \in StartTime..MaxTime /\ now < MaxTime /\ now' = now + 1
    BY <1>1 DEF CoreInv, TypeOK
  <2> QED BY ONLY <2>1, Constants
<1> QED BY <1>1, <1>2, <1>3, <1>4, <1>5 DEF CoreInv, FilesInv, TypeOK, Typed, HistoryTyped

\* A step that changes nothing.
LEMMA StutterKeeps ==
  ASSUME CoreInv, UNCHANGED vars
  PROVE  CoreInv'
<1>1. UNCHANGED <<started, disk, job, rawQ, readyQ, pending, groups, removing, archives, opens, owner,
                  got, dropped>>
  BY DEF vars, captureVars, cleanupVars
<1>2. CapturesApart' /\ ArchivedOnce' /\ FilesInv' /\ Typed'
  BY <1>1, AllStays
<1>3. CleanupTyped'
  BY <1>1, CleanupQuiet DEF vars, CoreInv
<1>4. UNCHANGED <<now, crashes, faults, started>>
  BY <1>1 DEF vars
<1> QED BY <1>2, <1>3, <1>4 DEF CoreInv, FilesInv, TypeOK, Typed, HistoryTyped

\* The timer takes the batch.
LEMMA CleanupTimerKeeps ==
  ASSUME CoreInv, CleanupTimer
  PROVE  CoreInv'
<1>1. /\ step = "idle" /\ step' = "batch" /\ groups' = Range(pending) /\ pending' = <<>>
      /\ UNCHANGED <<now, captureVars, readyQ, removing, archives, recordVars, dropped, crashes, faults>>
  BY DEF CleanupTimer, Batch
<1>2. UNCHANGED <<started, disk, job, rawQ, opens, owner, got, readyQ, removing, archives, dropped,
                  recFiles, recSize, lines, missed>>
  BY <1>1 DEF captureVars, recordVars
<1>3. groups = {} /\ Range(pending') = {}
  BY <1>1, EmptyRange DEF CoreInv, TypeOK, CleanupTyped
<1>4. /\ ToCompress' = ToCompress /\ Waiting' = Waiting /\ Running' = Running
      /\ JobFiles' = JobFiles /\ Held' = Held
  BY <1>1, <1>2, <1>3 DEF ToCompress, Waiting, Running, JobFiles, Held
<1>5. CapturesApart'
  BY <1>1, <1>2, <1>3, <1>4 DEF CoreInv, CapturesApart
<1>6. ArchivedOnce'
  BY <1>2, <1>4, StillArchivedOnce
<1>7. FilesInv' /\ Typed'
  <2>1. MoreBatches
    BY <1>2 DEF MoreBatches, Batches
  <2> QED BY <1>2, <1>4, <2>1, Quiet
<1>8. CleanupTyped'
  <2>1. Range(pending) \subseteq FileMsgs
    BY HeldCaps DEF Waiting, ToCompress
  <2>2. <<>> \in Seq(FileMsgs)
    BY EmptySeq
  <2> QED BY <1>1, <1>2, <2>1, <2>2 DEF CoreInv, TypeOK, CleanupTyped
<1> QED BY <1>1, <1>2, <1>5, <1>6, <1>7, <1>8 DEF CoreInv, FilesInv, TypeOK, Typed, HistoryTyped

\* Min of a set of numbers.
LEMMA MinFacts ==
  ASSUME NEW S \in SUBSET Nat, S # {}
  PROVE  Min(S) \in S /\ \A n \in S : Min(S) <= n
<1>1. \E x \in S : \A y \in S : x <= y
  BY LeastNumber
<1> QED BY <1>1 DEF Min

\* A sequence of the elements of a finite set.
LEMMA SetSequence ==
  ASSUME NEW S, IsFiniteSet(S), NEW s \in SetToSeqs(S)
  PROVE  /\ Len(s) \in Nat /\ DOMAIN s = 1..Len(s)
         /\ \A i \in 1..Len(s) : s[i] \in S
         /\ \A a \in S : \E i \in 1..Len(s) : a = s[i]
         /\ \A i, k \in 1..Len(s) : i # k => s[i] # s[k]
<1> DEFINE n == Cardinality(S)
<1>1. n \in Nat
  BY FS_CardinalityType
<1>2. s \in [1..n -> S] /\ \A i, k \in 1..n : i # k => s[i] # s[k]
  BY DEF SetToSeqs
<1> HIDE DEF n
<1>3. Len(s) = n
  BY <1>1, <1>2
<1>4. s \in Injection(1..n, S)
  BY <1>2 DEF Injection, IsInjective
<1>5. Cardinality(1..n) = n
  BY <1>1, FS_Interval
<1>6. s \in Surjection(1..n, S)
  BY <1>4, <1>5, FS_Injection DEF n
<1>7. \A a \in S : \E i \in 1..n : s[i] = a
  BY <1>6 DEF Surjection
<1> QED BY <1>1, <1>2, <1>3, <1>7

\* How many archives are tried for the total size: the least number that will do.
LEMMA TakenFacts ==
  ASSUME NEW s, Len(s) \in Nat, NEW stuck
  PROVE  /\ Taken(s, stuck) \in 0..Len(s)
         /\ \A n \in 0..Len(s) : n < Taken(s, stuck) =>
              ~(TotalSize(Range(s) \ ({s[i] : i \in 1..n} \ stuck)) <= MaxTotal)
         /\ \/ MaxTotal = 0 \/ Taken(s, stuck) = Len(s)
            \/ TotalSize(Range(s) \ ({s[i] : i \in 1..Taken(s, stuck)} \ stuck)) <= MaxTotal
<1>1. CASE MaxTotal = 0
  <2>1. Taken(s, stuck) = 0
    BY <1>1 DEF Taken
  <2> QED BY <1>1, <2>1
<1>2. CASE MaxTotal # 0
  <2> DEFINE Enough(n) == TotalSize(Range(s) \ ({s[i] : i \in 1..n} \ stuck)) <= MaxTotal
             S == {n \in 0..Len(s) : n = Len(s) \/ Enough(n)}
  <2>1. Taken(s, stuck) = Min(S)
    BY <1>2 DEF Taken
  <2> HIDE DEF Enough
  <2>2. S \in SUBSET Nat /\ S # {}
    BY Len(s) \in 0..Len(s)
  <2>3. Min(S) \in S /\ \A n \in S : Min(S) <= n
    BY <2>2, MinFacts
  <2>4. ASSUME NEW n \in 0..Len(s), n < Taken(s, stuck) PROVE ~Enough(n)
    BY <2>1, <2>3, <2>4
  <2>5. Taken(s, stuck) \in 0..Len(s) /\ (Taken(s, stuck) = Len(s) \/ Enough(Taken(s, stuck)))
    BY <2>1, <2>3
  <2> QED BY <2>4, <2>5 DEF Enough
<1> QED BY <1>1, <1>2

\* prune_archives touches files named capture_ only, and each removal that fails
\* is a fault.
LEMMA Pruned ==
  ASSUME TypeOK, PruneArchives
  PROVE  /\ \/ archives' = archives
            \/ \E X \in SUBSET CaptureArchives : archives' = Without(archives, X)
         /\ faults' \in 0..MaxFaults /\ faults <= faults'
<1>1. CASE Fail(1) /\ UNCHANGED archives
  BY <1>1, FaultsBounded
<1>2. CASE \E s \in ByAge(CaptureArchives \ Expired), stuck \in SUBSET CaptureArchives :
             LET tried == Expired \cup {s[i] : i \in 1..Taken(s, stuck)}
             IN /\ stuck \subseteq tried
                /\ Fail(Cardinality(stuck))
                /\ archives' = Without(archives, tried \ stuck)
  <2>1. PICK s \in ByAge(CaptureArchives \ Expired), stuck \in SUBSET CaptureArchives :
             /\ stuck \subseteq Expired \cup {s[i] : i \in 1..Taken(s, stuck)}
             /\ Fail(Cardinality(stuck))
             /\ archives' = Without(archives, (Expired \cup {s[i] : i \in 1..Taken(s, stuck)}) \ stuck)
    BY <1>2
  <2>2. IsFiniteSet(DOMAIN archives) /\ IsFiniteSet(CaptureArchives) /\ IsFiniteSet(stuck)
        /\ IsFiniteSet(CaptureArchives \ Expired)
    <3>1. IsFiniteSet(DOMAIN archives)
      BY DEF TypeOK, CleanupTyped
    <3>2. IsFiniteSet(CaptureArchives)
      BY <3>1, FS_Subset DEF CaptureArchives
    <3> QED BY <3>1, <3>2, FS_Subset
  <2>3. Cardinality(stuck) \in Nat
    BY <2>2, FS_CardinalityType
  <2>4. faults' \in 0..MaxFaults /\ faults <= faults'
    BY <2>1, <2>3, FaultsBounded
  <2>5. s \in SetToSeqs(CaptureArchives \ Expired)
    BY DEF ByAge
  <2>6. Len(s) \in Nat /\ \A i \in 1..Len(s) : s[i] \in CaptureArchives \ Expired
    BY <2>2, <2>5, SetSequence
  <2>7. Taken(s, stuck) \in 0..Len(s)
    BY <2>6, TakenFacts
  <2>8. (Expired \cup {s[i] : i \in 1..Taken(s, stuck)}) \ stuck \in SUBSET CaptureArchives
    BY <2>6, <2>7 DEF Expired
  <2> QED BY <2>1, <2>4, <2>8
<1> QED BY <1>1, <1>2 DEF PruneArchives

\* prune_archives leaves the archives of this program, which are named batch_.
LEMMA PruneArchivesKeeps ==
  ASSUME CoreInv, PruneArchives
  PROVE  CoreInv'
<1>1. /\ groups = {} /\ removing = {} /\ step' = "idle"
      /\ UNCHANGED <<now, captureVars, readyQ, pending, groups, removing, recordVars, dropped, crashes>>
  BY DEF PruneArchives
<1>2. UNCHANGED <<started, disk, job, rawQ, opens, owner, got, readyQ, dropped, recFiles, recSize, lines,
                  missed>>
  BY <1>1 DEF captureVars, recordVars
<1>3. /\ DOMAIN archives' \subseteq DOMAIN archives
      /\ \A a \in DOMAIN archives' : archives'[a] = archives[a]
      /\ \A a \in DOMAIN archives : a \notin CaptureArchives => a \in DOMAIN archives'
      /\ faults' \in 0..MaxFaults
  <2>1. /\ \/ archives' = archives
           \/ \E X \in SUBSET CaptureArchives : archives' = Without(archives, X)
        /\ faults' \in 0..MaxFaults
    BY Pruned DEF CoreInv
  <2> QED BY <2>1 DEF Without
<1>4. /\ ToCompress' = ToCompress /\ Waiting' = Waiting /\ Running' = Running
      /\ JobFiles' = JobFiles /\ Held' = Held
  BY <1>1, <1>2 DEF ToCompress, Waiting, Running, JobFiles, Held
<1>5. Batches' = Batches /\ MoreBatches
  <2>1. Batches' = Batches
    BY <1>3 DEF Batches, CaptureArchives
  <2> QED BY <1>3, <2>1 DEF MoreBatches, Batches
<1>6. CapturesApart'
  BY <1>1, <1>2, <1>4 DEF CoreInv, CapturesApart
<1>7. ArchivedOnce'
  BY <1>2, <1>4, <1>5 DEF CoreInv, ArchivedOnce
<1>8. FilesInv' /\ Typed'
  BY <1>1, <1>2, <1>4, <1>5, Quiet
<1>9. CleanupTyped'
  <2>1. IsFiniteSet(DOMAIN archives') /\ \A a \in DOMAIN archives' : archives'[a].mtime \in Nat
    <3>1. IsFiniteSet(DOMAIN archives) /\ \A a \in DOMAIN archives : archives[a].mtime \in Nat
      BY DEF CoreInv, TypeOK, CleanupTyped
    <3>2. IsFiniteSet(DOMAIN archives')
      BY <1>3, <3>1, FS_Subset
    <3> QED BY <1>3, <3>1, <3>2
  <2> QED BY <1>1, <1>2, <2>1 DEF CoreInv, TypeOK, CleanupTyped
<1> QED BY <1>1, <1>2, <1>3, <1>6, <1>7, <1>8, <1>9 DEF CoreInv, FilesInv, TypeOK, Typed, HistoryTyped

\* A group is compressed: its archive is new, and what is to be removed is in it.
LEMMA CleanupGroupKeeps ==
  ASSUME CoreInv, CleanupGroup
  PROVE  CoreInv'
<1> DEFINE id == Min({e.cap : e \in groups})
           files == {e \in groups : e.cap = id}
           paths == {e.path : e \in files}
           there == paths \cap DOMAIN disk
           name == [prefix |-> "batch", at |-> now, id |-> id]
           batch(P) == [mtime |-> now, pkts |-> UNION {disk[p].pkts : p \in P}]
<1>1. /\ groups # {} /\ removing = {} /\ groups' = groups \ files
      /\ UNCHANGED <<now, captureVars, readyQ, pending, step, recordVars, dropped, crashes>>
  BY DEF CleanupGroup
<1>2. \/ /\ archives' = Put(archives, name, batch(there))
         /\ removing' = Sources(files, there = paths) /\ faults' = faults
      \/ /\ Fail(1) /\ archives' \in {archives} \cup {Put(archives, name, batch(P)) : P \in SUBSET there}
         /\ removing' = Sources(files, FALSE)
  BY DEF CleanupGroup
<1>3. UNCHANGED <<started, disk, job, rawQ, opens, owner, got, readyQ, pending, dropped, step,
                  recFiles, recSize, lines, missed>>
  BY <1>1 DEF captureVars, recordVars
<1>4. /\ groups \subseteq FileMsgs /\ groups \subseteq Waiting /\ groups \subseteq ToCompress
      /\ groups \subseteq Held /\ step = "batch" /\ pending = <<>> /\ Range(pending) = {}
  BY <1>1, EmptyRange DEF CoreInv, TypeOK, CleanupTyped, Waiting, ToCompress, Held
<1>5. PICK first \in groups : first.cap = id
  <2>1. \A e \in groups : e.cap \in Nat
    BY <1>4, Constants DEF FileMsgs
  <2>2. {e.cap : e \in groups} \in SUBSET Nat /\ {e.cap : e \in groups} # {}
    BY <1>1, <2>1
  <2>3. id \in {e.cap : e \in groups}
    BY <2>2, MinFacts
  <2> QED BY <2>3
<1>6. name.prefix = "batch" /\ name.at = now /\ name.id = id
  OBVIOUS
<1>7. now \in Nat /\ now >= StartTime /\ started \in Nat
  <2>1. now \in StartTime..MaxTime /\ started \in 0..MaxCaptures
    BY DEF CoreInv, TypeOK
  <2> QED BY <2>1, Constants
<1>8. /\ archives' = archives \/ \E X : archives' = Put(archives, name, [mtime |-> now, pkts |-> X])
      /\ removing' \subseteq files
      /\ removing' # {} =>
           archives' = Put(archives, name, [mtime |-> now, pkts |-> UNION {disk[p].pkts : p \in there}])
  <2>1. removing' \subseteq files
    BY <1>2 DEF Sources
  <2>2. Sources(files, FALSE) = {}
    BY DEF Sources
  <2>3. CASE archives' = Put(archives, name, batch(there))
    BY <2>1, <2>3
  <2>4. CASE /\ archives' \in {archives} \cup {Put(archives, name, batch(P)) : P \in SUBSET there}
             /\ removing' = Sources(files, FALSE)
    BY <2>1, <2>2, <2>4
  <2> QED BY <1>2, <2>3, <2>4
<1>9. \A e \in files : e \in groups /\ e.cap = id /\ (e.path \in DOMAIN disk => e.path \in there)
  OBVIOUS
<1>10. \A e \in groups : e.cap = id => e \in files
  OBVIOUS
<1> HIDE DEF id, name, files, there
<1>11. /\ DOMAIN archives \subseteq DOMAIN archives' /\ DOMAIN archives' \subseteq DOMAIN archives \cup {name}
       /\ \A a \in DOMAIN archives : a # name => archives'[a] = archives[a]
       /\ name \in DOMAIN archives' /\ name \notin DOMAIN archives => archives'[name].mtime = now
       /\ removing' # {} => /\ name \in DOMAIN archives'
                            /\ archives'[name].pkts = UNION {disk[p].pkts : p \in there}
  <2>1. CASE removing' # {}
    BY <1>8, <2>1 DEF Put
  <2>2. CASE removing' = {} /\ archives' = archives
    BY <2>2
  <2>3. CASE removing' = {} /\ \E X : archives' = Put(archives, name, [mtime |-> now, pkts |-> X])
    <3>1. PICK X : archives' = Put(archives, name, [mtime |-> now, pkts |-> X])
      BY <2>3
    <3> QED BY <2>3, <3>1 DEF Put
  <2> QED BY <1>8, <2>1, <2>2, <2>3
<1>12. name \notin DOMAIN archives
  <2>1. id \in CapsOf(JobFiles \cup ToCompress)
    BY <1>4, <1>5 DEF CapsOf
  <2> QED BY <1>6, <1>7, <2>1 DEF CoreInv, ArchivedOnce, Batches
<1>13. /\ Batches \subseteq Batches' /\ Batches' \subseteq Batches \cup {name} /\ MoreBatches
       /\ name \in DOMAIN archives' => name \in Batches'
  <2>1. \A a \in Batches : a \in Batches' /\ archives'[a] = archives[a]
    BY <1>11, <1>12 DEF Batches
  <2> QED BY <1>6, <1>7, <1>11, <2>1 DEF Batches, MoreBatches
<1>14. /\ Running' = Running /\ JobFiles' = JobFiles /\ ToCompress' \subseteq ToCompress
       /\ groups' \subseteq groups /\ removing' \subseteq groups
       /\ Waiting' \cup removing' \subseteq Waiting /\ Held' \subseteq Held
       /\ ToCompress' \cup removing' \subseteq ToCompress
  <2>1. groups' \subseteq groups /\ removing' \subseteq groups
    BY <1>1, <1>8, <1>9
  <2>2. Running' = Running /\ JobFiles' = JobFiles /\ ToCompress' \cup removing' \subseteq ToCompress
    BY <1>3, <1>4, <2>1 DEF Running, JobFiles, ToCompress
  <2> QED BY <1>3, <2>1, <2>2 DEF Waiting, Held
<1>15. CapturesApart'
  <2>1. /\ CapsOf(Waiting' \cup removing') \subseteq CapsOf(Waiting \cup removing)
        /\ CapsOf(ToCompress' \cup removing') \subseteq CapsOf(ToCompress \cup removing)
    BY <1>14 DEF CapsOf
  <2>2. CapsOf(Range(pending') \cup groups') \subseteq CapsOf(Range(pending) \cup groups)
    BY <1>3, <1>14 DEF CapsOf
  <2> QED BY <1>3, <1>14, <2>1, <2>2 DEF CoreInv, CapturesApart
<1>16. ArchivedOnce'
  <2>1. CapsOf((JobFiles \cup ToCompress)') \subseteq CapsOf(JobFiles \cup ToCompress)
    BY <1>14 DEF CapsOf
  <2>2. id \in 1..started
    <3>1. first \in Held /\ first.cap \in 1..MaxCaptures /\ first.cap <= started
      BY <1>4, <1>5, HeldCaps
    <3> QED BY <1>5, <1>7, <3>1, Constants
  <2>3. id \notin CapsOf((JobFiles \cup ToCompress)')
    <3>1. id \notin CapsOf(JobFiles)
      BY <1>4, <1>5 DEF CoreInv, CapturesApart, CapsOf
    <3>2. id \notin CapsOf(Range(readyQ))
      BY <1>5 DEF CoreInv, CapturesApart, CapsOf
    <3>3. id \notin CapsOf(groups')
      BY <1>1, <1>10 DEF CapsOf
    <3>4. CapsOf((JobFiles \cup ToCompress)') = CapsOf(JobFiles) \cup CapsOf(Range(readyQ)) \cup CapsOf(groups')
      BY <1>3, <1>4, <1>14 DEF CapsOf, ToCompress
    <3> QED BY <3>1, <3>2, <3>3, <3>4
  <2> QED BY <1>3, <1>6, <1>13, <2>1, <2>2, <2>3 DEF CoreInv, ArchivedOnce
<1>17. ASSUME NEW e \in removing', e.path \in DOMAIN disk, NEW k \in disk[e.path].pkts PROVE InBatch(k)'
  <2>1. e.path \in there
    BY <1>8, <1>9, <1>17
  <2>2. k \in archives'[name].pkts /\ name \in Batches'
    BY <1>11, <1>13, <1>17, <2>1
  <2> QED BY <2>2 DEF InBatch
<1>18. FilesInv' /\ Typed'
  <2>1. \A e \in removing' : \/ e \in removing
                             \/ e.path \in DOMAIN disk /\ owner[e.path] = e.cap =>
                                  \A k \in disk[e.path].pkts : InBatch(k)'
    BY <1>17
  <2> QED BY <1>3, <1>13, <1>14, <2>1, Quiet
<1>19. CleanupTyped'
  <2>1. IsFiniteSet(DOMAIN archives) /\ \A a \in DOMAIN archives : archives[a].mtime \in Nat
    BY DEF CoreInv, TypeOK, CleanupTyped
  <2>2. IsFiniteSet(DOMAIN archives \cup {name})
    BY <2>1, FS_AddElement
  <2>3. IsFiniteSet(DOMAIN archives')
    BY <1>11, <2>2, FS_Subset
  <2>4. \A a \in DOMAIN archives' : archives'[a].mtime \in Nat
    BY <1>7, <1>11, <1>12, <2>1
  <2>5. groups' \subseteq FileMsgs /\ removing' \subseteq FileMsgs
    BY <1>4, <1>14
  <2> QED BY <1>3, <1>4, <2>3, <2>4, <2>5 DEF CoreInv, TypeOK, CleanupTyped
<1>20. faults' \in 0..MaxFaults
  <2>1. faults \in 0..MaxFaults /\ TypeOK /\ (Fail(1) \/ faults' = faults)
    BY <1>2 DEF CoreInv, TypeOK
  <2> QED BY <2>1, FaultsBounded
<1> QED BY <1>1, <1>3, <1>15, <1>16, <1>18, <1>19, <1>20 DEF CoreInv, FilesInv, TypeOK, Typed, HistoryTyped

\* The sources of an archive go: what they have is in it.
LEMMA RemoveSourcesKeeps ==
  ASSUME CoreInv, RemoveSources
  PROVE  CoreInv'
<1> DEFINE paths == {e.path : e \in removing}
<1>1. /\ removing # {} /\ removing' = {}
      /\ UNCHANGED <<now, started, job, rawQ, readyQ, pending, step, groups, archives, recordVars,
                     opens, owner, got, dropped, crashes>>
  BY DEF RemoveSources
<1>2. PICK stuck \in SUBSET (paths \cap DOMAIN disk) :
         Fail(IF stuck = {} THEN 0 ELSE 1) /\ disk' = Without(disk, paths \ stuck)
  BY DEF RemoveSources
<1> DEFINE T == paths \ stuck
           C == CapsOf(removing)
<1>3. \A p \in T : \E e \in removing : e.path = p
  OBVIOUS
<1>4. /\ DOMAIN disk' = DOMAIN disk \ T /\ \A p \in DOMAIN disk' : disk'[p] = disk[p]
      /\ disk' = [p \in DOMAIN disk' |-> disk'[p]]
  BY <1>2 DEF Without
<1>5. faults' \in 0..MaxFaults
  <2>1. faults \in 0..MaxFaults /\ TypeOK /\ (Fail(0) \/ Fail(1))
    BY <1>2 DEF CoreInv, TypeOK
  <2> QED BY <2>1, FaultsBounded
<1> HIDE DEF T, paths
<1>6. DiskTyped /\ JobsTyped /\ HistoryTyped /\ TypeOK /\ started \in Nat
  BY HeldCaps DEF CoreInv, TypeOK, HistoryTyped
<1>7. removing \subseteq Held
  BY DEF Held
<1>8. /\ Running' = Running /\ JobFiles' = JobFiles /\ ToCompress' = ToCompress
      /\ Waiting' = Waiting /\ Held' \subseteq Held /\ removing' \subseteq removing
  BY <1>1 DEF Running, JobFiles, ToCompress, Waiting, Held
<1>9. CapturesApart'
  <2>1. /\ CapsOf(Waiting' \cup removing') \subseteq CapsOf(Waiting \cup removing)
        /\ CapsOf(ToCompress' \cup removing') \subseteq CapsOf(ToCompress \cup removing)
    BY <1>8 DEF CapsOf
  <2> QED BY <1>1, <1>8, <2>1 DEF CoreInv, CapturesApart
<1>10. ArchivedOnce'
  BY <1>1, <1>8, StillArchivedOnce
<1>11. DiskTyped' /\ JobsTyped' /\ HistoryTyped'
  <2>1. /\ disk \in [DOMAIN disk -> [ino : Nat \ {0}, pkts : SUBSET {g.id : g \in got}]]
        /\ DOMAIN disk \subseteq DOMAIN opens
    BY <1>6 DEF DiskTyped
  <2>2. \A p \in DOMAIN disk' : disk'[p] \in [ino : Nat \ {0}, pkts : SUBSET {g.id : g \in got}]
    BY <1>4, <2>1
  <2>3. disk' \in [DOMAIN disk' -> [ino : Nat \ {0}, pkts : SUBSET {g.id : g \in got}]]
    BY <1>4, <2>2
  <2> QED BY <1>1, <1>4, <1>6, <2>1, <2>3 DEF DiskTyped, JobsTyped, HistoryTyped
<1>12. \A e \in removing : e.path \in DOMAIN owner /\ owner[e.path] \in {e.cap, 0} /\ e.cap \in C
  BY <1>7 DEF CoreInv, NamesOwned, CapsOf
<1> HIDE DEF C
<1>13. TouchedBy(C, T)
  <2>1. MoreBatches /\ MoreNamed /\ MoreOpened
    BY <1>1, <1>6 DEF MoreBatches, Batches, MoreNamed, MoreOpened, HistoryTyped
  <2>2. \A p \in DOMAIN disk : p \in T \/ Stays(p)
    BY <1>4 DEF Stays
  <2>3. \A p \in T : owner'[p] \in C \cup {0}
    BY <1>1, <1>3, <1>12
  <2> QED BY <1>1, <1>4, <2>1, <2>2, <2>3 DEF TouchedBy
<1>14. FilesInv'
  <2>1. \A c \in C : c \in CapsOf(Held) \/ c = started + 1
    BY <1>7 DEF C, CapsOf
  <2>2. \A e \in Held' : e \in Held
    BY <1>8
  <2>3. ASSUME NEW v \in Running' PROVE v \in Running /\ job'[v] = job[v] /\ job[v].cap \notin C
    <3>1. v \in Running /\ [cap |-> job[v].cap, path |-> job[v].path] \in JobFiles
      BY <1>8 DEF JobFiles
    <3>2. job[v].cap \in CapsOf(JobFiles) /\ C \subseteq CapsOf(Waiting \cup removing)
      BY <3>1 DEF C, CapsOf
    <3> QED BY <1>1, <3>1, <3>2 DEF CoreInv, CapturesApart
  <2>4. \A e \in removing' : e \in removing /\ e.cap \notin C
    BY <1>1
  <2>5. ASSUME NEW g \in got, g.path \in T, g.path \in DOMAIN disk, g.id \in disk[g.path].pkts,
               owner'[g.path] = g.id.cap
        PROVE  Somewhere(g)'
    <3>1. PICK e \in removing : e.path = g.path
      BY <1>3, <2>5
    <3>2. g.id.cap # 0
      BY <1>6, Constants DEF HistoryTyped, Packets
    <3>3. owner[e.path] = e.cap
      BY <1>1, <1>12, <2>5, <3>1, <3>2
    <3>4. InBatch(g.id)
      BY <2>5, <3>1, <3>3 DEF CoreInv, RemovedInBatch
    <3>5. InBatch(g.id)'
      BY <1>1, <3>4 DEF InBatch, Batches
    <3> QED BY <3>5 DEF Somewhere
  <2>6. \A g \in got : /\ g.id.cap \in C /\ g.path \in T /\ g.path \in DOMAIN disk
                       /\ g.id \in disk[g.path].pkts
                       /\ owner'[g.path] = g.id.cap /\ g.open = opens'[g.path]
                       => Somewhere(g)'
    BY <2>5
  <2>7. \A g \in got' : g \in got
    BY <1>1
  <2>8. \A v \in Running' : v \in Running /\ job'[v] = job[v] /\ job[v].cap \notin C
    BY <2>3
  <2> QED BY <1>1, <1>6, <1>13, <2>1, <2>2, <2>4, <2>6, <2>7, <2>8, ActorKeeps
<1>15. CleanupTyped'
  BY <1>1 DEF CoreInv, TypeOK, CleanupTyped, recordVars
<1> QED BY <1>1, <1>5, <1>6, <1>9, <1>10, <1>11, <1>14, <1>15 DEF CoreInv, FilesInv, TypeOK, HistoryTyped

-----------------------------------------------------------------------------
(* enqueue_files, but for the record files. *)

\* How many lines cleanup.log has.
LogSize(files) == IF 0 \in DOMAIN files THEN Cardinality(files[0].lines) ELSE 0

\* cleanup.log has as many lines as its numbers say.
LEMMA LogLines ==
  ASSUME NEW files, NEW n \in Nat, CurrentNewest(files, n)
  PROVE  /\ LogSize(files) \in Nat
         /\ 0 \in DOMAIN files => \A i \in 1..n : i > n - LogSize(files) => i \in files[0].lines
<1>1. CASE 0 \in DOMAIN files
  <2>1. PICK k \in 0..n : files[0].lines = (k + 1)..n
    BY <1>1 DEF CurrentNewest
  <2>2. k + 1 \in Int /\ n \in Int /\ k \in Nat /\ k <= n
    OBVIOUS
  <2>3. Cardinality((k + 1)..n) = IF k + 1 > n THEN 0 ELSE n - (k + 1) + 1
    BY <2>2, FS_Interval
  <2>4. LogSize(files) = n - k
    BY <1>1, <2>1, <2>2, <2>3 DEF LogSize
  <2> QED BY <1>1, <2>1, <2>2, <2>4
<1>2. CASE 0 \notin DOMAIN files
  BY <1>2 DEF LogSize
<1> QED BY <1>1, <1>2

\* What the cleanup thread takes for the size of cleanup.log is not above it.
LEMMA RecordSizeFacts ==
  ASSUME TypeOK, RecordsSound
  PROVE  RecordSize \in Nat /\ LogSize(recFiles) \in Nat /\ RecordSize <= LogSize(recFiles)
<1>1. recSize \in -1..RecordMax /\ lines \in Nat /\ recSize <= LogSize(recFiles)
  BY DEF TypeOK, CleanupTyped, RecordsSound, LogSize
<1>2. LogSize(recFiles) \in Nat
  BY <1>1, LogLines DEF RecordsSound
<1>3. CASE recSize # -1
  <2>1. RecordSize = recSize /\ recSize \in Nat
    BY <1>1, <1>3, Constants DEF RecordSize
  <2> QED BY <1>1, <1>2, <2>1
<1>4. CASE recSize = -1 /\ 0 \in DOMAIN recFiles
  <2>1. RecordSize = recFiles[0].size /\ LogSize(recFiles) = Cardinality(recFiles[0].lines)
    BY <1>4 DEF RecordSize, LogSize
  <2>2. recFiles[0].size \in 0..Cardinality(recFiles[0].lines)
    BY <1>4 DEF RecordsSound, RecordsInOrder
  <2> QED BY <1>2, <2>1, <2>2
<1>5. CASE recSize = -1 /\ 0 \notin DOMAIN recFiles
  BY <1>5 DEF RecordSize, LogSize
<1> QED BY <1>2, <1>3, <1>4, <1>5

\* A finished file waits for compression.
LEMMA EnqueuedKeeps ==
  ASSUME CoreInv, step # "batch", readyQ # <<>>, Enqueued, UNCHANGED otherVars
  PROVE  /\ CapturesApart' /\ ArchivedOnce' /\ FilesInv' /\ Typed'
         /\ readyQ' \in Seq(FileMsgs) /\ pending' \in Seq(FileMsgs)
<1> DEFINE m == Head(readyQ)
<1>1. readyQ' = Tail(readyQ) /\ pending' = Append(pending, m)
  BY DEF Enqueued
<1>2. UNCHANGED <<now, started, disk, job, rawQ, opens, owner, got, groups, removing, archives, dropped>>
  BY DEF otherVars, captureVars
<1>3. readyQ \in Seq(FileMsgs) /\ pending \in Seq(FileMsgs) /\ groups = {} /\ removing = {}
  BY DEF CoreInv, TypeOK, CleanupTyped
<1>4. /\ readyQ' \in Seq(FileMsgs) /\ m \in FileMsgs /\ m = readyQ[1]
      /\ Len(readyQ) \in Nat /\ Len(readyQ) >= 1 /\ DOMAIN readyQ = 1..Len(readyQ)
      /\ DOMAIN readyQ' = 1..(Len(readyQ) - 1)
      /\ \A i \in 1..(Len(readyQ) - 1) : i + 1 \in 1..Len(readyQ) /\ readyQ'[i] = readyQ[i + 1]
      /\ Range(readyQ) = Range(readyQ') \cup {m}
  BY <1>1, <1>3, TailFacts
<1> HIDE DEF m
<1>5. pending' \in Seq(FileMsgs) /\ Range(pending') = Range(pending) \cup {m}
  BY <1>1, <1>3, <1>4, AppendFacts
<1>6. /\ Running' = Running /\ JobFiles' = JobFiles /\ ToCompress' = ToCompress
      /\ Waiting' = Waiting /\ Held' = Held
  BY <1>2, <1>4, <1>5 DEF Running, JobFiles, ToCompress, Waiting, Held
<1>7. \A i, k \in DOMAIN readyQ : readyQ[i].cap = readyQ[k].cap => i = k
  BY DEF CoreInv, CapturesApart
<1>8. \A i, k \in DOMAIN readyQ' : readyQ'[i].cap = readyQ'[k].cap => i = k
  <2>1. ASSUME NEW i \in DOMAIN readyQ', NEW k \in DOMAIN readyQ', readyQ'[i].cap = readyQ'[k].cap
        PROVE  i = k
    <3>1. i + 1 \in DOMAIN readyQ /\ k + 1 \in DOMAIN readyQ
      BY <1>4
    <3>2. readyQ[i + 1].cap = readyQ[k + 1].cap
      BY <1>4, <2>1
    <3>3. i \in Int /\ k \in Int /\ i + 1 = k + 1
      BY <1>4, <1>7, <3>1, <3>2
    <3> QED BY ONLY <3>3
  <2> QED BY <2>1
<1>9. \A e \in Range(readyQ') : e.cap # m.cap
  <2>1. ASSUME NEW i \in 1..(Len(readyQ) - 1) PROVE readyQ'[i].cap # m.cap
    <3>1. i + 1 \in DOMAIN readyQ /\ 1 \in DOMAIN readyQ /\ i + 1 # 1
      BY <1>4
    <3> QED BY <1>4, <1>7, <3>1
  <2> QED BY <1>4, <2>1 DEF Range
<1>10. CapturesApart'
  <2>1. CapsOf(Range(readyQ')) \cap CapsOf(Range(pending') \cup groups') = {}
    <3>1. CapsOf(Range(readyQ)) \cap CapsOf(Range(pending) \cup groups) = {}
      BY DEF CoreInv, CapturesApart
    <3>2. CapsOf(Range(readyQ')) \subseteq CapsOf(Range(readyQ)) /\ m.cap \notin CapsOf(Range(readyQ'))
      BY <1>4, <1>9 DEF CapsOf
    <3>3. CapsOf(Range(pending') \cup groups') = CapsOf(Range(pending) \cup groups) \cup {m.cap}
      BY <1>2, <1>5 DEF CapsOf
    <3> QED BY <3>1, <3>2, <3>3
  <2> QED BY <1>2, <1>6, <1>8, <2>1 DEF CoreInv, CapturesApart
<1>11. ArchivedOnce'
  BY <1>2, <1>6, StillArchivedOnce
<1>12. MoreBatches
  BY <1>2 DEF MoreBatches, Batches
<1>13. FilesInv' /\ Typed'
  BY <1>2, <1>6, <1>12, Quiet
<1> QED BY <1>4, <1>5, <1>10, <1>11, <1>13

\* A step of enqueue_files keeps what is not about record files.
LEMMA RecordStepKeeps ==
  ASSUME CoreInv, step # "batch", readyQ # <<>>, UNCHANGED otherVars, step' # "batch",
         (Enqueued /\ step' = "idle") \/ UNCHANGED <<readyQ, pending>>,
         step' \in {"idle", "prune", "line"},
         step' \in {"prune", "line"} => recSize' \in 0..(RecordMax - 1),
         recSize' \in -1..RecordMax, lines' \in Nat, missed' \in Nat, faults' \in 0..MaxFaults
  PROVE  CoreInv'
<1>1. UNCHANGED <<now, started, disk, job, rawQ, opens, owner, got, groups, removing, archives, dropped,
                  crashes>>
  BY DEF otherVars, captureVars
<1>2. /\ CapturesApart' /\ ArchivedOnce' /\ FilesInv' /\ Typed'
      /\ readyQ' \in Seq(FileMsgs) /\ pending' \in Seq(FileMsgs)
  <2>1. CASE Enqueued
    BY <2>1, EnqueuedKeeps
  <2>2. CASE UNCHANGED <<readyQ, pending>>
    <3>1. CapturesApart' /\ ArchivedOnce' /\ FilesInv' /\ Typed'
      BY <1>1, <2>2, AllStays
    <3> QED BY <2>2, <3>1 DEF CoreInv, TypeOK, CleanupTyped
  <2> QED BY <2>1, <2>2
<1>3. step' \in {"prune", "line"} => readyQ' # <<>>
  OBVIOUS
<1>4. /\ rawQ \in Seq(FileMsgs) /\ groups = {} /\ removing = {}
      /\ IsFiniteSet(DOMAIN archives) /\ \A a \in DOMAIN archives : archives[a].mtime \in Nat
  BY DEF CoreInv, TypeOK, CleanupTyped
<1>5. CleanupTyped'
  BY <1>1, <1>2, <1>3, <1>4 DEF CleanupTyped
<1> QED BY <1>1, <1>2, <1>5 DEF CoreInv, FilesInv, TypeOK, Typed, HistoryTyped

\* What prune_record_files takes.
LEMMA RecordsToPrune ==
  ASSUME NEW files, IsFiniteSet(DOMAIN files), NEW R \in PruneRecords(files)
  PROVE  /\ R \subseteq DOMAIN files /\ IsFiniteSet(R)
         /\ \A f \in R, g \in DOMAIN files \ R : files[f].mtime <= files[g].mtime
         /\ Cardinality(DOMAIN files \ R) \in Nat /\ Cardinality(DOMAIN files \ R) <= RecordFiles
         /\ R # {} => Cardinality(DOMAIN files \ R) = RecordFiles
<1> DEFINE over == Excess(Cardinality(DOMAIN files), RecordFiles)
<1>1. Cardinality(DOMAIN files) \in Nat /\ RecordFiles \in Nat
  BY FS_CardinalityType, Constants
<1>2. R \in SUBSET DOMAIN files /\ Cardinality(R) = over
  BY DEF PruneRecords, kSubset
<1>3. \A f \in R, g \in DOMAIN files \ R : files[f].mtime <= files[g].mtime
  BY DEF PruneRecords
<1>4. IsFiniteSet(R) /\ (R # {} => Cardinality(R) # 0)
  <2>1. IsFiniteSet(R)
    BY <1>2, FS_Subset
  <2> QED BY <2>1, FS_EmptySet
<1>5. Cardinality(DOMAIN files \ R) = Cardinality(DOMAIN files) - Cardinality(DOMAIN files \cap R)
  BY FS_Difference
<1>6. DOMAIN files \cap R = R
  BY <1>2
<1>7. Cardinality(DOMAIN files \ R) = Cardinality(DOMAIN files) - over
  BY <1>2, <1>5, <1>6
<1> QED BY <1>1, <1>2, <1>3, <1>4, <1>7 DEF Excess

\* The steps of enqueue_files.
LEMMA CleanupEnqueueKeeps ==
  ASSUME CoreInv, RecordsSound, CleanupEnqueue
  PROVE  CoreInv' /\ faults <= faults'
<1>1. /\ TypeOK /\ recSize \in -1..RecordMax /\ lines \in Nat /\ missed \in Nat /\ faults \in Int
      /\ step \in {"prune", "line"} => recSize \in 0..(RecordMax - 1)
      /\ faults \in 0..MaxFaults
  BY DEF CoreInv, TypeOK, CleanupTyped
<1>2. RecordSize \in Nat
  BY <1>1, RecordSizeFacts
<1>3. 0 \in 0..(RecordMax - 1) /\ 0 \in -1..RecordMax /\ 0 \in Nat /\ 1 \in Nat
  BY Constants
<1>4. ASSUME NEW n \in Nat, Fail(n) PROVE faults' \in 0..MaxFaults /\ faults <= faults'
  BY <1>1, <1>4, FaultsBounded
<1>5. CASE RecordDirMissing
  <2>1. step = "idle" /\ readyQ # <<>> /\ Fail(1) /\ Enqueued /\ UNCHANGED <<otherVars, step, recordVars>>
    BY <1>5 DEF RecordDirMissing, Recording
  <2>2. UNCHANGED <<recSize, lines, missed>>
    BY <2>1 DEF recordVars
  <2>3. faults' \in 0..MaxFaults /\ faults <= faults'
    BY <1>3, <1>4, <2>1
  <2> QED BY <1>1, <2>1, <2>2, <2>3, RecordStepKeeps
<1>6. CASE RecordFits
  <2>1. /\ step = "idle" /\ readyQ # <<>> /\ step' = "line" /\ recSize' = RecordSize /\ ~RecordFull
        /\ UNCHANGED <<otherVars, readyQ, pending, recFiles, lines, missed, faults>>
    BY <1>6 DEF RecordFits, Recording
  <2>2. recSize' \in 0..(RecordMax - 1) /\ recSize' \in -1..RecordMax
    BY <1>2, <2>1, Constants DEF RecordFull
  <2> QED BY <1>1, <2>1, <2>2, RecordStepKeeps
<1>7. CASE RotateRecord
  <2>1. /\ step = "idle" /\ readyQ # <<>> /\ step' = "prune" /\ recSize' = 0
        /\ UNCHANGED <<otherVars, readyQ, pending, lines, missed, faults>>
    BY <1>7 DEF RotateRecord, Recording
  <2> QED BY <1>1, <1>3, <2>1, RecordStepKeeps
<1>8. CASE RotateRecordFails
  <2>1. /\ step = "idle" /\ readyQ # <<>> /\ step' = "line" /\ recSize' = 0
        /\ Fail(1) \/ faults' = faults
        /\ UNCHANGED <<otherVars, readyQ, pending, recFiles, lines, missed>>
    BY <1>8 DEF RotateRecordFails, Recording
  <2>2. faults' \in 0..MaxFaults /\ faults <= faults'
    BY <1>1, <1>3, <1>4, <2>1
  <2> QED BY <1>1, <1>3, <2>1, <2>2, RecordStepKeeps
<1>9. CASE PruneRecordFiles
  <2>1. /\ step = "prune" /\ readyQ # <<>> /\ step' = "line"
        /\ UNCHANGED <<otherVars, readyQ, pending, recSize, lines>>
    BY <1>9 DEF PruneRecordFiles, Recording
  <2>2. /\ Fail(1) /\ missed' = missed + 1
        \/ \E n \in Nat : Fail(n) /\ missed' = n
    <3>1. CASE \E R \in PruneRecords(recFiles) : \E stuck \in SUBSET R :
                   Fail(Cardinality(stuck)) /\ missed' = Cardinality(stuck)
      <4>1. PICK R \in PruneRecords(recFiles) : \E stuck \in SUBSET R :
                   Fail(Cardinality(stuck)) /\ missed' = Cardinality(stuck)
        BY <3>1
      <4>2. PICK stuck \in SUBSET R : Fail(Cardinality(stuck)) /\ missed' = Cardinality(stuck)
        BY <4>1
      <4>3. now \in Nat
        BY Constants DEF CoreInv, TypeOK
      <4>4. IsFiniteSet(DOMAIN recFiles)
        BY <4>3, RecordsFinite DEF RecordsSound
      <4>5. IsFiniteSet(R)
        BY <4>4, RecordsToPrune
      <4>6. Cardinality(stuck) \in Nat
        BY <4>5, FS_Subset, FS_CardinalityType
      <4> QED BY <4>2, <4>6
    <3> QED BY <1>9, <3>1 DEF PruneRecordFiles
  <2>3. missed' \in Nat /\ faults' \in 0..MaxFaults /\ faults <= faults'
    BY <1>1, <1>3, <1>4, <2>2
  <2>4. recSize \in 0..(RecordMax - 1)
    BY <1>1, <2>1
  <2> QED BY <1>1, <2>1, <2>3, <2>4, RecordStepKeeps
<1>10. CASE RecordLine
  <2>1. /\ step = "line" /\ readyQ # <<>> /\ step' = "idle" /\ Enqueued
        /\ UNCHANGED otherVars /\ missed' = missed
        /\ Fail(1) \/ faults' = faults
        /\ recSize' \in {recSize, recSize + 1} /\ lines' \in {lines, lines + 1}
    BY <1>10 DEF RecordLine, Recording
  <2>2. faults' \in 0..MaxFaults /\ faults <= faults'
    BY <1>1, <1>3, <1>4, <2>1
  <2>3. recSize' \in -1..RecordMax /\ lines' \in Nat
    BY <1>1, <2>1, Constants
  <2> QED BY <1>1, <2>1, <2>2, <2>3, RecordStepKeeps
<1> QED BY <1>5, <1>6, <1>7, <1>8, <1>9, <1>10 DEF CleanupEnqueue

-----------------------------------------------------------------------------
(* The record files. *)

\* What RecordsSound says of the files, at time t with n lines.
FilesSound(files, n, t) ==
  RecordsInOrder(files, t) /\ CurrentNewest(files, n) /\ NewestKept(files, n)

\* Two elements of a set that has two.
LEMMA TwoOf ==
  ASSUME NEW S, IsFiniteSet(S), Cardinality(S) >= 2
  PROVE  \E f, g \in S : f # g
<1>1. PICK f \in S : TRUE
  BY FS_EmptySet
<1>2. IsFiniteSet(S \ {f}) /\ Cardinality(S \ {f}) = Cardinality(S) - 1 /\ Cardinality(S) \in Nat
  BY FS_RemoveElement, FS_CardinalityType
<1>3. S \ {f} # {}
  BY <1>2, FS_EmptySet
<1> QED BY <1>3

\* The numbers the record files are counted with.
LEMMA RecordNumbers ==
  ASSUME TypeOK, RecordsSound
  PROVE  /\ now \in Nat /\ now # 0 /\ lines \in Nat /\ missed \in Nat /\ recSize \in Int
         /\ FilesSound(recFiles, lines, now)
         /\ LogSize(recFiles) \in Nat /\ recSize <= LogSize(recFiles)
         /\ IsFiniteSet(DOMAIN recFiles) /\ IsFiniteSet(DOMAIN recFiles \ {0})
         /\ Cardinality(DOMAIN recFiles \ {0}) \in Nat
<1>1. now \in StartTime..MaxTime /\ lines \in Nat /\ recSize \in -1..RecordMax /\ missed \in Nat
  BY DEF TypeOK, CleanupTyped
<1>2. now \in Nat /\ now # 0 /\ recSize \in Int
  BY <1>1, Constants
<1>3. FilesSound(recFiles, lines, now) /\ recSize <= LogSize(recFiles)
  BY DEF RecordsSound, FilesSound, LogSize
<1>4. LogSize(recFiles) \in Nat
  BY <1>1, <1>3, LogLines DEF FilesSound
<1> QED BY <1>1, <1>2, <1>3, <1>4, RecordsFinite DEF FilesSound

\* cleanup.log gets a name of its own: it is the last file and has the newest lines.
LEMMA RotateRecordSound ==
  ASSUME TypeOK, RecordsSound, RotateRecord
  PROVE  RecordsSound'
<1> DEFINE D == DOMAIN recFiles \ {0}
<1>1. /\ now \in Nat /\ now # 0 /\ lines \in Nat /\ missed \in Nat
      /\ FilesSound(recFiles, lines, now) /\ LogSize(recFiles) \in Nat
      /\ IsFiniteSet(D) /\ Cardinality(D) \in Nat
  BY RecordNumbers
<1>2. /\ step = "idle" /\ step' = "prune" /\ recSize' = 0 /\ RecordFull /\ 0 \in DOMAIN recFiles
      /\ UNCHANGED <<now, lines, missed>>
      /\ recFiles' = Put(Without(recFiles, {0}), now, recFiles[0])
  BY DEF RotateRecord, Recording, otherVars
<1>3. RecordMax <= LogSize(recFiles)
  <2>1. RecordSize \in Nat /\ RecordSize <= LogSize(recFiles) /\ RecordSize + 1 > RecordMax
    BY <1>2, RecordSizeFacts DEF RecordFull
  <2> QED BY <1>1, <2>1, Constants
<1>4. /\ DOMAIN recFiles' = D \cup {now} /\ recFiles'[now] = recFiles[0]
      /\ \A f \in D : f # now => recFiles'[f] = recFiles[f]
  BY <1>2 DEF Put, Without
<1>5. /\ DOMAIN recFiles \subseteq 0..now
      /\ \A f \in DOMAIN recFiles : recFiles[f].mtime \in 0..now /\ (f # 0 => recFiles[f].mtime <= f)
      /\ \A f \in DOMAIN recFiles : recFiles[f].size \in 0..Cardinality(recFiles[f].lines)
      /\ \A f, g \in DOMAIN recFiles : f # 0 /\ (g = 0 \/ f < g) => f <= recFiles[g].mtime
  BY <1>1 DEF FilesSound, RecordsInOrder
<1>6. 0 \notin DOMAIN recFiles' /\ now \in DOMAIN recFiles'
  BY <1>1, <1>4
<1>7. RecordsInOrder(recFiles', now)
  <2>1. DOMAIN recFiles' \subseteq 0..now
    BY <1>1, <1>4, <1>5
  <2>2. ASSUME NEW f \in DOMAIN recFiles'
        PROVE  /\ recFiles'[f].mtime \in 0..now /\ recFiles'[f].mtime <= f
               /\ recFiles'[f].size \in 0..Cardinality(recFiles'[f].lines)
    <3>1. CASE f = now
      BY <1>1, <1>2, <1>4, <1>5, <3>1
    <3>2. CASE f # now
      BY <1>4, <1>5, <3>2
    <3> QED BY <3>1, <3>2
  <2>3. ASSUME NEW f \in DOMAIN recFiles', NEW g \in DOMAIN recFiles', f # 0, g = 0 \/ f < g
        PROVE  f <= recFiles'[g].mtime
    <3>1. g # 0 /\ f < g /\ f \in 0..now /\ g \in 0..now
      BY <1>6, <2>1, <2>3
    <3>2. f # now /\ f \in D
      BY <1>1, <1>4, <3>1
    <3>3. CASE g = now
      BY <1>2, <1>4, <1>5, <2>3, <3>2, <3>3
    <3>4. CASE g # now
      BY <1>4, <1>5, <3>1, <3>2, <3>4
    <3> QED BY <3>3, <3>4
  <2> QED BY <2>1, <2>2, <2>3 DEF RecordsInOrder
<1>8. ASSUME NEW i \in 1..lines, i > lines - RecordMax PROVE i \in recFiles'[now].lines
  <2>1. \A k \in 1..lines : k > lines - LogSize(recFiles) => k \in recFiles[0].lines
    BY <1>1, <1>2, LogLines DEF FilesSound
  <2>2. i > lines - LogSize(recFiles)
    BY <1>1, <1>3, <1>8, Constants
  <2> QED BY <1>4, <2>1, <2>2
<1>9. LastHasNewest'
  <2>1. \A g \in DOMAIN recFiles' : g <= now
    BY <1>1, <1>4, <1>5
  <2>2. \A i \in 1..lines' : i > lines' - RecordMax => i \in recFiles'[now].lines
    BY <1>2, <1>8
  <2> QED BY <1>6, <2>1, <2>2 DEF LastHasNewest
<1>10. CurrentNewest(recFiles', lines) /\ NewestKept(recFiles', lines)
  BY <1>6, <1>8 DEF CurrentNewest, NewestKept
<1>11. Cardinality(DOMAIN recFiles' \ {0}) <= RecordFiles + missed + 1
  <2>1. DOMAIN recFiles' \ {0} = D \cup {now}
    BY <1>1, <1>4
  <2>2. /\ Cardinality(D \cup {now}) = Cardinality(D) \/ Cardinality(D \cup {now}) = Cardinality(D) + 1
    BY <1>1, FS_AddElement
  <2>3. Cardinality(D) <= RecordFiles + missed
    BY <1>1, <1>2, Constants DEF RecordsSound
  <2> HIDE DEF D
  <2> QED BY <1>1, <2>1, <2>2, <2>3, Constants
<1>12. 0 <= LogSize(recFiles')
  BY <1>6 DEF LogSize
<1> QED BY <1>2, <1>6, <1>7, <1>9, <1>10, <1>11, <1>12 DEF RecordsSound, LogSize

\* The file that cleanup.log became is not one that is pruned: the file before it
\* is older, unless one second made both, and then the one before that is.
LEMMA LastIsKept ==
  ASSUME NEW files, NEW t \in Nat, RecordsInOrder(files, t), 0 \notin DOMAIN files,
         NEW R \in PruneRecords(files), NEW f \in DOMAIN files, \A g \in DOMAIN files : g <= f
  PROVE  f \notin R
<1>1. SUFFICES ASSUME f \in R PROVE FALSE
  OBVIOUS
<1> DEFINE K == DOMAIN files \ R
<1>2. IsFiniteSet(DOMAIN files)
  BY RecordsFinite
<1>3. /\ Cardinality(K) = RecordFiles
      /\ \A x \in R, y \in DOMAIN files \ R : files[x].mtime <= files[y].mtime
  BY <1>1, <1>2, RecordsToPrune
<1>4. IsFiniteSet(K) /\ Cardinality(K) >= 2
  BY <1>2, <1>3, FS_Subset, Constants
<1>5. PICK x, y \in K : x # y
  BY <1>4, TwoOf
<1>6. /\ DOMAIN files \subseteq 0..t
      /\ \A g \in DOMAIN files : files[g].mtime \in 0..t /\ (g # 0 => files[g].mtime <= g)
      /\ \A g, h \in DOMAIN files : g # 0 /\ (h = 0 \/ g < h) => g <= files[h].mtime
  BY DEF RecordsInOrder
<1>7. ASSUME NEW z \in K PROVE z = files[f].mtime
  <2>1. z \in DOMAIN files /\ z # f /\ z # 0 /\ z <= f
    BY <1>1
  <2>2. z \in Nat /\ f \in Nat /\ files[z].mtime \in Nat /\ files[f].mtime \in Nat
    BY <1>6, <2>1
  <2>3. z < f
    BY <2>1, <2>2
  <2>4. z <= files[f].mtime /\ files[f].mtime <= files[z].mtime /\ files[z].mtime <= z
    BY <1>1, <1>3, <1>6, <2>1, <2>3
  <2> QED BY <2>2, <2>4
<1> QED BY <1>5, <1>7

\* prune_record_files.
LEMMA PruneRecordFilesSound ==
  ASSUME TypeOK, RecordsSound, PruneRecordFiles
  PROVE  RecordsSound'
<1>1. /\ now \in Nat /\ now # 0 /\ lines \in Nat /\ missed \in Nat /\ recSize \in Int
      /\ FilesSound(recFiles, lines, now) /\ recSize <= LogSize(recFiles)
      /\ IsFiniteSet(DOMAIN recFiles) /\ Cardinality(DOMAIN recFiles \ {0}) \in Nat
  BY RecordNumbers
<1>2. /\ step = "prune" /\ step' = "line" /\ UNCHANGED <<now, lines, recSize>>
  BY DEF PruneRecordFiles, Recording, otherVars
<1>3. /\ 0 \notin DOMAIN recFiles /\ LastHasNewest
      /\ Cardinality(DOMAIN recFiles \ {0}) <= RecordFiles + missed + 1
  BY <1>2 DEF RecordsSound
<1>4. CASE missed' = missed + 1 /\ recFiles' = recFiles
  <2>1. Cardinality(DOMAIN recFiles \ {0}) <= RecordFiles + missed' + 0
    BY <1>1, <1>3, <1>4, Constants
  <2> QED BY <1>1, <1>2, <1>4, <2>1 DEF RecordsSound, FilesSound, LogSize
<1>5. ASSUME NEW R \in PruneRecords(recFiles), NEW stuck \in SUBSET R,
             recFiles' = Without(recFiles, R \ stuck), missed' = Cardinality(stuck)
      PROVE  RecordsSound'
  <2>1. PICK f \in DOMAIN recFiles :
           /\ \A g \in DOMAIN recFiles : g <= f
           /\ \A i \in 1..lines : i > lines - RecordMax => i \in recFiles[f].lines
    BY <1>3 DEF LastHasNewest
  <2>2. f \notin R
    BY <1>1, <1>3, <2>1, LastIsKept DEF FilesSound
  <2>3. DOMAIN recFiles' = DOMAIN recFiles \ (R \ stuck) /\ \A g \in DOMAIN recFiles' : recFiles'[g] = recFiles[g]
    BY <1>5 DEF Without
  <2>4. RecordsInOrder(recFiles', now)
    BY <1>1, <2>3 DEF FilesSound, RecordsInOrder
  <2>5. CurrentNewest(recFiles', lines) /\ 0 \notin DOMAIN recFiles'
    BY <1>3, <2>3 DEF CurrentNewest
  <2>6. NewestKept(recFiles', lines)
    <3>1. f \in DOMAIN recFiles' /\ recFiles'[f] = recFiles[f]
      BY <2>2, <2>3
    <3> QED BY <2>1, <3>1 DEF NewestKept
  <2>7. Cardinality(DOMAIN recFiles' \ {0}) <= RecordFiles + missed'
    <3> DEFINE K == DOMAIN recFiles \ R
    <3>1. /\ IsFiniteSet(R) /\ R \subseteq DOMAIN recFiles
          /\ Cardinality(K) \in Nat /\ Cardinality(K) <= RecordFiles
      BY <1>1, RecordsToPrune
    <3>2. IsFiniteSet(stuck) /\ IsFiniteSet(K)
      BY <1>1, <3>1, FS_Subset
    <3>3. Cardinality(stuck) \in Nat
      BY <3>2, FS_CardinalityType
    <3>4. K \cap stuck = {} /\ DOMAIN recFiles' \ {0} = K \cup stuck
      BY <1>3, <2>3, <3>1
    <3>5. Cardinality(K \cup stuck) = Cardinality(K) + Cardinality(stuck) - Cardinality(K \cap stuck)
      BY <3>2, FS_Union
    <3>6. Cardinality(K \cap stuck) = 0
      BY <3>4, FS_EmptySet
    <3> HIDE DEF K
    <3>7. Cardinality(DOMAIN recFiles' \ {0}) = Cardinality(K \cup stuck)
      BY <3>4, Zenon
    <3>8. Cardinality(K \cup stuck) <= RecordFiles + Cardinality(stuck)
      BY <3>1, <3>3, <3>5, <3>6, Constants
    <3> QED BY <1>5, <3>7, <3>8
  <2>8. recSize <= 0
    BY <1>1, <1>3 DEF LogSize
  <2>9. Cardinality(DOMAIN recFiles' \ {0}) <= RecordFiles + missed' + 0
    <3>1. RecordFiles + missed' + 0 = RecordFiles + missed'
      <4>1. missed' \in Nat
        BY <1>1, <1>5, RecordsToPrune, FS_Subset, FS_CardinalityType
      <4> QED BY <4>1, Constants
    <3> QED BY <2>7, <3>1
  <2> QED BY <1>2, <2>4, <2>5, <2>6, <2>8, <2>9 DEF RecordsSound
<1> QED BY <1>4, <1>5 DEF PruneRecordFiles

\* A line more: it is the newest one.
LEMMA LineAdded ==
  ASSUME now \in Nat, lines \in Nat, FilesSound(recFiles, lines, now), NEW flushed \in BOOLEAN
  PROVE  /\ FilesSound(WithLine(flushed), lines + 1, now)
         /\ LogSize(WithLine(flushed)) = LogSize(recFiles) + 1
         /\ DOMAIN WithLine(flushed) \ {0} = DOMAIN recFiles \ {0}
<1> DEFINE old == IF 0 \in DOMAIN recFiles THEN recFiles[0] ELSE [lines |-> {}, size |-> 0, mtime |-> now]
           log == [lines |-> old.lines \cup {lines + 1},
                   size |-> IF flushed THEN old.size + 1 ELSE old.size,
                   mtime |-> IF flushed THEN now ELSE old.mtime]
           W == WithLine(flushed)
<1>1. /\ DOMAIN W = DOMAIN recFiles \cup {0} /\ W[0] = log
      /\ \A f \in DOMAIN recFiles : f # 0 => W[f] = recFiles[f]
  BY DEF WithLine, Put
<1>2. PICK k \in 0..lines : old.lines = (k + 1)..lines
  <2>1. CASE 0 \in DOMAIN recFiles
    BY <2>1 DEF FilesSound, CurrentNewest
  <2>2. CASE 0 \notin DOMAIN recFiles
    <3>1. lines \in 0..lines /\ (lines + 1)..lines = {}
      OBVIOUS
    <3> QED BY <2>2, <3>1
  <2> QED BY <2>1, <2>2
<1>3. log.lines = (k + 1)..(lines + 1)
  BY <1>2
<1>4. k \in Nat /\ k <= lines
  OBVIOUS
<1>5. Cardinality((k + 1)..lines) = lines - k
  <2>1. k + 1 \in Int /\ lines \in Int
    BY <1>4
  <2>2. Cardinality((k + 1)..lines) = IF k + 1 > lines THEN 0 ELSE lines - (k + 1) + 1
    BY <2>1, FS_Interval
  <2> QED BY <1>4, <2>2
<1>6. Cardinality((k + 1)..(lines + 1)) = lines + 1 - k
  <2>1. k + 1 \in Int /\ lines + 1 \in Int /\ ~(k + 1 > lines + 1)
    BY <1>4
  <2>2. Cardinality((k + 1)..(lines + 1)) = lines + 1 - (k + 1) + 1
    BY <2>1, FS_Interval
  <2> QED BY <1>4, <2>2
<1>7. /\ old.mtime \in 0..now /\ old.size \in 0..(lines - k)
      /\ \A f \in DOMAIN recFiles : f # 0 => f <= old.mtime
  <2>1. CASE 0 \in DOMAIN recFiles
    <3>1. old = recFiles[0]
      BY <2>1
    <3>2. /\ recFiles[0].mtime \in 0..now /\ recFiles[0].size \in 0..Cardinality(recFiles[0].lines)
          /\ \A f \in DOMAIN recFiles : f # 0 => f <= recFiles[0].mtime
      BY <2>1 DEF FilesSound, RecordsInOrder
    <3>3. Cardinality(recFiles[0].lines) = lines - k
      BY <1>2, <1>5, <3>1
    <3> QED BY <3>1, <3>2, <3>3
  <2>2. CASE 0 \notin DOMAIN recFiles
    <3>1. old.mtime = now /\ old.size = 0
      BY <2>2
    <3>2. DOMAIN recFiles \subseteq 0..now
      BY DEF FilesSound, RecordsInOrder
    <3> QED BY <1>4, <3>1, <3>2
  <2> QED BY <2>1, <2>2
<1>8. /\ log.mtime \in 0..now /\ log.size \in 0..Cardinality(log.lines)
      /\ \A f \in DOMAIN recFiles : f # 0 => f <= log.mtime
  <2>1. Cardinality(log.lines) = lines + 1 - k
    BY <1>3, <1>6
  <2>2. log.mtime \in {now, old.mtime} /\ log.size \in {old.size, old.size + 1}
    OBVIOUS
  <2>3. DOMAIN recFiles \subseteq 0..now
    BY DEF FilesSound, RecordsInOrder
  <2> HIDE DEF log, old
  <2>4. log.size \in 0..(lines + 1 - k)
    BY <1>4, <1>7, <2>2
  <2> QED BY <1>7, <2>1, <2>2, <2>3, <2>4
<1>9. \A i : i \in old.lines => i \in log.lines
  OBVIOUS
<1>10. \A f \in DOMAIN recFiles : \A i \in recFiles[f].lines : f = 0 => i \in old.lines
  OBVIOUS
<1> HIDE DEF W, log, old
<1>11. RecordsInOrder(W, now)
  BY <1>1, <1>8 DEF FilesSound, RecordsInOrder
<1>12. DOMAIN W \ {0} = DOMAIN recFiles \ {0}
  BY <1>1
<1>13. CurrentNewest(W, lines + 1)
  <2>1. k \in 0..(lines + 1)
    BY <1>4
  <2> QED BY <1>1, <1>3, <2>1 DEF CurrentNewest
<1>14. NewestKept(W, lines + 1)
  <2> DEFINE n == lines + 1
  <2>1. ASSUME NEW i \in 1..n, i > n - RecordMax
        PROVE  \E f \in DOMAIN W : i \in W[f].lines
    <3>1. CASE i = lines + 1
      <4>1. i \in log.lines
        BY <1>3, <1>4, <3>1
      <4> QED BY <1>1, <4>1
    <3>2. CASE i # lines + 1
      <4>1. i \in 1..lines /\ i > lines - RecordMax
        BY <2>1, <3>2, Constants
      <4>2. PICK f \in DOMAIN recFiles : i \in recFiles[f].lines
        BY <4>1 DEF FilesSound, NewestKept
      <4> QED BY <1>1, <1>9, <1>10, <4>2
    <3> QED BY <3>1, <3>2
  <2> HIDE DEF n
  <2>2. NewestKept(W, n)
    BY <2>1 DEF NewestKept
  <2> QED BY <2>2 DEF n
<1>15. LogSize(W) = LogSize(recFiles) + 1
  <2>1. LogSize(W) = lines + 1 - k
    BY <1>1, <1>3, <1>6 DEF LogSize
  <2>2. LogSize(recFiles) = lines - k
    <3>1. CASE 0 \in DOMAIN recFiles
      BY <1>2, <1>5, <3>1 DEF LogSize, old
    <3>2. CASE 0 \notin DOMAIN recFiles
      <4>1. (k + 1)..lines = {}
        BY <1>2, <3>2 DEF old
      <4>2. k = lines
        BY <1>4, <4>1
      <4> QED BY <1>4, <3>2, <4>2 DEF LogSize
    <3> QED BY <3>1, <3>2
  <2> QED BY <1>4, <2>1, <2>2
<1> QED BY <1>11, <1>12, <1>13, <1>14, <1>15 DEF FilesSound, W

\* The line is appended, or not.
LEMMA RecordLineSound ==
  ASSUME TypeOK, RecordsSound, RecordLine
  PROVE  RecordsSound'
<1>1. /\ now \in Nat /\ lines \in Nat /\ missed \in Nat /\ recSize \in Int
      /\ FilesSound(recFiles, lines, now) /\ recSize <= LogSize(recFiles) /\ LogSize(recFiles) \in Nat
  BY RecordNumbers
<1>2. /\ step = "line" /\ step' = "idle" /\ UNCHANGED <<now, missed>>
      /\ recSize' \in {recSize, recSize + 1}
      /\ \/ \E flushed \in BOOLEAN : recFiles' = WithLine(flushed) /\ lines' = lines + 1
         \/ UNCHANGED <<recFiles, recSize, lines>>
  BY DEF RecordLine, Recording, otherVars
<1>3. Cardinality(DOMAIN recFiles \ {0}) <= RecordFiles + missed + 0
  BY <1>2 DEF RecordsSound
<1>4. CASE UNCHANGED <<recFiles, recSize, lines>>
  BY <1>1, <1>2, <1>3, <1>4 DEF RecordsSound, FilesSound, LogSize
<1>5. ASSUME NEW flushed \in BOOLEAN, recFiles' = WithLine(flushed), lines' = lines + 1
      PROVE  RecordsSound'
  <2>1. /\ FilesSound(WithLine(flushed), lines + 1, now)
        /\ LogSize(WithLine(flushed)) = LogSize(recFiles) + 1
        /\ DOMAIN WithLine(flushed) \ {0} = DOMAIN recFiles \ {0}
    BY <1>1, LineAdded
  <2>2. FilesSound(recFiles', lines', now') /\ LogSize(recFiles') = LogSize(recFiles) + 1
    BY <1>2, <1>5, <2>1
  <2>3. recSize' <= LogSize(recFiles')
    BY <1>1, <1>2, <2>2
  <2>4. Cardinality(DOMAIN recFiles' \ {0}) <= RecordFiles + missed' + 0
    BY <1>2, <1>3, <1>5, <2>1
  <2> QED BY <1>2, <2>2, <2>3, <2>4 DEF RecordsSound, FilesSound, LogSize
<1> QED BY <1>2, <1>4, <1>5

\* Time passes.
LEMMA LaterSound ==
  ASSUME NEW files, NEW n, NEW t \in Nat, FilesSound(files, n, t)
  PROVE  FilesSound(files, n, t + 1)
<1>1. 0..t \subseteq 0..(t + 1)
  OBVIOUS
<1> QED BY <1>1 DEF FilesSound, RecordsInOrder

\* The files stay as they are while the cleanup thread goes on, or ends.
LEMMA RecordsStay ==
  ASSUME TypeOK, RecordsSound, UNCHANGED <<recFiles, lines>>, now' \in {now, now + 1},
         recSize' \in Int, recSize' <= LogSize(recFiles),
         \/ step' = step /\ missed' = missed
         \/ step # "prune" /\ step' # "prune" /\ missed' = missed
         \/ step = "prune" /\ step' # "prune" /\ missed' = missed + 1
  PROVE  RecordsSound'
<1>1. /\ now \in Nat /\ lines \in Nat /\ missed \in Nat
      /\ FilesSound(recFiles, lines, now) /\ Cardinality(DOMAIN recFiles \ {0}) \in Nat
  BY RecordNumbers
<1>2. FilesSound(recFiles, lines, now')
  BY <1>1, LaterSound
<1>3. /\ Cardinality(DOMAIN recFiles \ {0}) <= RecordFiles + missed + IF step = "prune" THEN 1 ELSE 0
      /\ step = "prune" => 0 \notin DOMAIN recFiles /\ LastHasNewest
  BY DEF RecordsSound
<1>4. LastHasNewest => LastHasNewest'
  BY DEF LastHasNewest
<1>5. Cardinality(DOMAIN recFiles \ {0}) <= RecordFiles + missed' + IF step' = "prune" THEN 1 ELSE 0
  BY <1>1, <1>3, Constants
<1> QED BY <1>2, <1>3, <1>4, <1>5 DEF RecordsSound, FilesSound, LogSize

\* Every step keeps the record files in order and their newest lines.
LEMMA RecordsKeep ==
  ASSUME TypeOK, RecordsSound, [Next]_vars
  PROVE  RecordsSound'
<1>1. /\ recSize \in Int /\ LogSize(recFiles) \in Nat /\ recSize <= LogSize(recFiles)
      /\ RecordSize \in Nat /\ RecordSize <= LogSize(recFiles)
  BY RecordNumbers, RecordSizeFacts
<1>2. CASE RotateRecord
  BY <1>2, RotateRecordSound
<1>3. CASE PruneRecordFiles
  BY <1>3, PruneRecordFilesSound
<1>4. CASE RecordLine
  BY <1>4, RecordLineSound
<1>5. CASE RecordDirMissing \/ RecordFits \/ RotateRecordFails
  <2>1. /\ UNCHANGED <<recFiles, lines, now, missed>> /\ step = "idle" /\ step' # "prune"
        /\ recSize' \in {recSize, RecordSize, 0}
    BY <1>5 DEF RecordDirMissing, RecordFits, RotateRecordFails, Recording, otherVars, recordVars
  <2> QED BY <1>1, <2>1, RecordsStay
<1>6. ASSUME NEW n, ProcessEnds(n) PROVE RecordsSound'
  <2>1. /\ UNCHANGED <<recFiles, lines>> /\ now' = now + 1 /\ recSize' = -1 /\ step' = "idle"
        /\ missed' = IF step = "prune" THEN missed + 1 ELSE missed
    BY <1>6 DEF ProcessEnds
  <2>2. -1 \in Int /\ -1 <= LogSize(recFiles)
    BY <1>1
  <2> QED BY <2>1, <2>2, RecordsStay
<1>7. CASE Tick
  <2>1. UNCHANGED <<recFiles, lines, recSize, step, missed>> /\ now' = now + 1
    BY <1>7 DEF Tick, cleanupVars, recordVars
  <2> QED BY <1>1, <2>1, RecordsStay
<1>8. CASE UNCHANGED <<recFiles, lines, recSize, now, missed, step>>
  BY <1>1, <1>8, RecordsStay
<1>9. ASSUME NEW w, WritePacket(w) \/ RotateAndWrite(w) \/ RotateFails(w) \/ Finish(w) \/ \E r \in Requests : Prepare(w, r)
      PROVE  UNCHANGED <<recFiles, lines, recSize, now, missed, step>>
  BY <1>9 DEF WritePacket, RotateAndWrite, RotateFails, Finish, Prepare, cleanupVars, recordVars
<1>10. CASE FilterFile \/ FilterGivesUp
  <2>1. UNCHANGED <<recFiles, lines, recSize, now, missed, step>>
    BY <1>10 DEF FilterFile, FilterGivesUp, cleanupVars, recordVars
  <2> QED BY <1>8, <2>1
<1>11. CASE CleanupTimer \/ CleanupGroup \/ RemoveSources \/ PruneArchives
  <2>1. /\ UNCHANGED <<recFiles, lines, recSize, now, missed>>
        /\ step' = step \/ (step # "prune" /\ step' # "prune")
    BY <1>11 DEF CleanupTimer, CleanupGroup, RemoveSources, PruneArchives, recordVars
  <2> QED BY <1>1, <2>1, RecordsStay
<1>12. CASE UNCHANGED vars
  <2>1. UNCHANGED <<recFiles, lines, recSize, now, missed, step>>
    BY <1>12 DEF vars, cleanupVars, recordVars
  <2> QED BY <1>8, <2>1
<1> QED BY <1>2, <1>3, <1>4, <1>5, <1>6, <1>7, <1>8, <1>9, <1>10, <1>11, <1>12
    DEF Next, CleanupThread, CleanupFiles, CleanupEnqueue, DumpWithoutFile

-----------------------------------------------------------------------------
(* The invariant. *)

\* Every step keeps the inductive invariant.
LEMMA StoreInvKept == StoreInv /\ [Next]_vars => StoreInv'
<1>1. SUFFICES ASSUME StoreInv, [Next]_vars PROVE StoreInv'
  OBVIOUS
<1>2. CoreInv /\ TypeOK /\ RecordsSound
  BY <1>1 DEF StoreInv, CoreInv
<1>3. RecordsSound'
  BY <1>1, <1>2, RecordsKeep
<1>4. CoreInv'
  <2>1. CASE Tick
    BY <1>2, <2>1, TickKeeps
  <2>2. ASSUME NEW w \in Workers, NEW r \in Requests, Prepare(w, r) PROVE CoreInv'
    BY <1>2, <2>2, PrepareKeeps
  <2>3. ASSUME NEW w \in Workers, WritePacket(w) PROVE CoreInv'
    BY <1>2, <2>3, WritePacketKeeps
  <2>4. ASSUME NEW w \in Workers, RotateAndWrite(w) PROVE CoreInv'
    BY <1>2, <2>4, RotateAndWriteKeeps
  <2>5. ASSUME NEW w \in Workers, RotateFails(w) PROVE CoreInv'
    BY <1>2, <2>5, RotateFailsKeeps
  <2>6. ASSUME NEW w \in Workers, Finish(w) PROVE CoreInv'
    BY <1>2, <2>6, FinishKeeps
  <2>7. ASSUME NEW n, ProcessEnds(n) PROVE CoreInv'
    BY <1>2, <2>7, ProcessEndsKeeps
  <2>8. CASE FilterFile
    BY <1>2, <2>8, FilterFileKeeps
  <2>9. CASE FilterGivesUp
    BY <1>2, <2>9, FilterGivesUpKeeps
  <2>10. CASE CleanupEnqueue
    BY <1>2, <2>10, CleanupEnqueueKeeps
  <2>11. CASE CleanupTimer
    BY <1>2, <2>11, CleanupTimerKeeps
  <2>12. CASE CleanupGroup
    BY <1>2, <2>12, CleanupGroupKeeps
  <2>13. CASE RemoveSources
    BY <1>2, <2>13, RemoveSourcesKeeps
  <2>14. CASE PruneArchives
    BY <1>2, <2>14, PruneArchivesKeeps
  <2>15. CASE UNCHANGED vars
    BY <1>2, <2>15, StutterKeeps
  <2>16. ASSUME NEW w \in Workers, NEW n, DumpWithoutFile(w, n) PROVE CoreInv'
    BY <2>7, <2>16 DEF DumpWithoutFile
  <2> QED BY <1>1, <2>1, <2>2, <2>3, <2>4, <2>5, <2>6, <2>7, <2>8, <2>9, <2>10, <2>11, <2>12, <2>13,
             <2>14, <2>15, <2>16 DEF Next, CleanupThread, CleanupFiles
<1> QED BY <1>3, <1>4 DEF StoreInv, CoreInv

\* The inductive invariant of the file store: only one thread has a capture's
\* file, a file that two captures have named has no owner, a packet whose file its
\* capture owns and did not open again is where the code put it or was lost by a
\* write or the end of the process, the sources waiting for their removal are in
\* an archive, and the record files are in order and no more than the removals
\* that failed or were left out account for.
THEOREM StoreInvariant == Spec => []StoreInv
<1>1. Init => StoreInv
  BY InitInv
<1> QED BY <1>1, StoreInvKept, PTL DEF Spec

\* The state of the file store has its types; a running dumper writes to the path
\* its pattern expands to, and nothing waits for compression during compression.
THEOREM StoreTypeOK == Spec => []TypeOK
<1>1. StoreInv => TypeOK
  BY DEF StoreInv
<1> QED BY <1>1, StoreInvariant, PTL

\* A packet written to a file that no other capture names, and that is not opened
\* again, is not lost by filtering, a failed compression, the removal of sources
\* or the end of the process in between: it is on disk, in an archive, rejected by
\* its filter, or its own write failed or was not flushed.
THEOREM StoreNothingLost == Spec => []NothingLost
<1>1. StoreInv => NothingLost
  <2>1. SUFFICES ASSUME StoreInv, NEW g \in got, Alone(g)
                 PROVE  g.id \in OnDisk \cup Archived \cup dropped
    BY DEF NothingLost
  <2>2. owner[g.path] = g.id.cap /\ g.open = opens[g.path]
    BY <2>1 DEF Alone
  <2>3. CASE g.path \in DOMAIN disk /\ g.id \in disk[g.path].pkts
    BY <2>3 DEF OnDisk
  <2>4. CASE InBatch(g.id)
    BY <2>4 DEF Archived, Batches, InBatch
  <2>5. CASE InFiltered(g)
    BY <2>1, <2>5 DEF InFiltered, Alone, OnDisk
  <2> QED BY <2>1, <2>2, <2>3, <2>4, <2>5 DEF StoreInv, PacketsKept
<1> QED BY <1>1, StoreInvariant, PTL

\* Rotation and pruning of the cleanup thread's record files keep the newest
\* lines, and as many files more than RecordFiles and cleanup.log as removals
\* failed or were left out, whatever fails and wherever the process ends.
THEOREM StoreRecordsKept == Spec => []RecordsKept
<1>1. StoreInv => RecordsKept
  <2>1. SUFFICES ASSUME StoreInv PROVE Cardinality(DOMAIN recFiles) <= RecordFiles + 1 + missed
    BY DEF StoreInv, RecordsSound, RecordsKept
  <2>2. /\ missed \in Nat /\ IsFiniteSet(DOMAIN recFiles) /\ Cardinality(DOMAIN recFiles \ {0}) \in Nat
    BY <2>1, RecordNumbers DEF StoreInv
  <2>3. /\ Cardinality(DOMAIN recFiles) \in Nat
        /\ Cardinality(DOMAIN recFiles \ {0}) =
             IF 0 \in DOMAIN recFiles THEN Cardinality(DOMAIN recFiles) - 1 ELSE Cardinality(DOMAIN recFiles)
    BY <2>2, FS_CardinalityType, FS_RemoveElement
  <2>4. /\ Cardinality(DOMAIN recFiles \ {0}) <= RecordFiles + missed + IF step = "prune" THEN 1 ELSE 0
        /\ step = "prune" => 0 \notin DOMAIN recFiles
    BY <2>1 DEF StoreInv, RecordsSound
  <2> QED BY <2>2, <2>3, <2>4, Constants
<1> QED BY <1>1, StoreInvariant, PTL

-----------------------------------------------------------------------------
(* Retention. *)

\* What PruneExact says of a step.
ExactPrune ==
  LET gone == DOMAIN archives \ DOMAIN archives'
      kept == CaptureArchives \ gone
      fresh == kept \ Expired
  IN /\ Cardinality({b \in kept : \E a \in gone : archives[b].mtime < archives[a].mtime})
           <= faults' - faults
     /\ \A a \in gone \ Expired : \E b \in gone :
           archives[b].mtime >= archives[a].mtime /\ ~(TotalSize(fresh \cup {b}) <= MaxTotal)
     /\ PruneArchives /\ faults' = faults =>
           /\ kept \cap Expired = {}
           /\ MaxTotal = 0 \/ fresh = {} \/ TotalSize(fresh) <= MaxTotal

\* The last number of a set of them.
LEMMA LastNumber ==
  ASSUME NEW T \in Nat, NEW S \in SUBSET (1..T), S # {}
  PROVE  \E m \in S : \A i \in S : i <= m
<1> DEFINE D == {T - i : i \in S}
<1>1. D \in SUBSET Nat /\ D # {}
  <2>1. \A i \in S : T - i \in Nat
    OBVIOUS
  <2> QED BY <2>1
<1>2. PICK d \in D : \A e \in D : d <= e
  BY <1>1, LeastNumber
<1>3. PICK m \in S : d = T - m
  BY <1>2
<1>4. ASSUME NEW i \in S PROVE i <= m
  <2>1. T - i \in D
    OBVIOUS
  <2>2. T - m <= T - i /\ i \in Int /\ m \in Int
    BY <1>2, <1>3, <2>1
  <2> QED BY <2>2
<1> QED BY <1>4

\* A step that removes no archive.
LEMMA NothingPruned ==
  ASSUME DOMAIN archives \subseteq DOMAIN archives', ~PruneArchives,
         faults \in Int, faults' \in Int, faults <= faults'
  PROVE  ExactPrune
<1> DEFINE gone == DOMAIN archives \ DOMAIN archives'
           kept == CaptureArchives \ gone
           older == {b \in kept : \E a \in gone : archives[b].mtime < archives[a].mtime}
<1>1. gone = {} /\ older = {}
  OBVIOUS
<1>2. Cardinality(older) = 0
  BY <1>1, FS_EmptySet
<1> HIDE DEF older
<1>3. Cardinality(older) <= faults' - faults
  <2>1. \A x, y \in Int : x <= y => 0 <= y - x
    OBVIOUS
  <2>2. 0 <= faults' - faults
    BY <2>1
  <2> QED BY <1>2, <2>2, Zenon
<1> QED BY <1>1, <1>3 DEF ExactPrune, older

\* prune_archives.
LEMMA PruneIsExact ==
  ASSUME TypeOK, PruneArchives
  PROVE  ExactPrune
<1>1. /\ IsFiniteSet(DOMAIN archives) /\ \A a \in DOMAIN archives : archives[a].mtime \in Nat
      /\ now \in Nat /\ faults \in Int
  <2>1. now \in StartTime..MaxTime /\ faults \in 0..MaxFaults
    BY DEF TypeOK
  <2>2. now \in Nat
    BY <2>1, Constants
  <2> QED BY <2>1, <2>2 DEF TypeOK, CleanupTyped
<1>2. CASE Fail(1) /\ UNCHANGED archives
  <2> DEFINE gone == DOMAIN archives \ DOMAIN archives'
             older == {b \in CaptureArchives \ gone : \E a \in gone : archives[b].mtime < archives[a].mtime}
  <2>1. gone = {} /\ older = {}
    BY <1>2
  <2>2. faults' = faults + 1
    BY <1>2 DEF Fail
  <2>3. Cardinality(older) = 0
    BY <2>1, FS_EmptySet
  <2>4. Cardinality(older) <= faults' - faults /\ faults' # faults
    BY <1>1, <2>2, <2>3
  <2> QED BY <2>1, <2>4 DEF ExactPrune
<1>3. ASSUME NEW s \in ByAge(CaptureArchives \ Expired), NEW stuck \in SUBSET CaptureArchives,
             stuck \subseteq Expired \cup {s[i] : i \in 1..Taken(s, stuck)},
             Fail(Cardinality(stuck)),
             archives' = Without(archives, (Expired \cup {s[i] : i \in 1..Taken(s, stuck)}) \ stuck)
      PROVE  ExactPrune
  <2> DEFINE left == CaptureArchives \ Expired
             N == Len(s)
             T == Taken(s, stuck)
             tried == {s[i] : i \in 1..T}
             gone == DOMAIN archives \ DOMAIN archives'
             kept == CaptureArchives \ gone
             fresh == kept \ Expired
             older == {b \in kept : \E a \in gone : archives[b].mtime < archives[a].mtime}
  <2>1. IsFiniteSet(CaptureArchives) /\ IsFiniteSet(left) /\ IsFiniteSet(stuck)
    <3>1. IsFiniteSet(CaptureArchives)
      BY <1>1, FS_Subset DEF CaptureArchives
    <3> QED BY <3>1, FS_Subset
  <2>2. Cardinality(stuck) \in Nat /\ faults' = faults + Cardinality(stuck)
    BY <1>3, <2>1, FS_CardinalityType DEF Fail
  <2>3. /\ N \in Nat /\ DOMAIN s = 1..N
        /\ \A i \in 1..N : s[i] \in left
        /\ \A a \in left : \E i \in 1..N : a = s[i]
        /\ \A i, k \in 1..N : i # k => s[i] # s[k]
    BY <2>1, SetSequence DEF ByAge
  <2>4. \A i, k \in 1..N : i < k => archives[s[i]].mtime <= archives[s[k]].mtime
    BY <2>3 DEF ByAge
  <2>5. Range(s) = left
    BY <2>3 DEF Range
  <2>6. /\ T \in 0..N
        /\ \A n \in 0..N : n < T => ~(TotalSize(left \ ({s[i] : i \in 1..n} \ stuck)) <= MaxTotal)
        /\ MaxTotal = 0 \/ T = N \/ TotalSize(left \ (tried \ stuck)) <= MaxTotal
    <3>1. /\ T \in 0..N
          /\ \A n \in 0..N : n < T => ~(TotalSize(Range(s) \ ({s[i] : i \in 1..n} \ stuck)) <= MaxTotal)
          /\ MaxTotal = 0 \/ T = N \/ TotalSize(Range(s) \ (tried \ stuck)) <= MaxTotal
      BY <2>3, TakenFacts
    <3> QED BY <2>5, <3>1, Zenon
  <2>7. /\ CaptureArchives \subseteq DOMAIN archives /\ Expired \subseteq CaptureArchives
        /\ \A a \in Expired : Cutoff # 0 /\ archives[a].mtime < Cutoff
        /\ \A a \in left : ~(Cutoff # 0 /\ archives[a].mtime < Cutoff)
        /\ Cutoff \in Nat
    BY <1>1, Constants DEF CaptureArchives, Expired, Cutoff
  <2>8. tried \subseteq left /\ stuck \subseteq Expired \cup tried
    BY <1>3, <2>3, <2>6
  <2>9. gone = (Expired \cup tried) \ stuck
    <3>1. DOMAIN archives' = DOMAIN archives \ ((Expired \cup tried) \ stuck)
      BY <1>3 DEF Without
    <3> QED BY <2>7, <2>8, <3>1
  <2>10. fresh = left \ (tried \ stuck)
    BY <2>8, <2>9
  <2>11. \A i \in 1..T : i \in 1..N /\ s[i] \in tried
    BY <2>3, <2>6
  <2>12. \A a \in tried : \E i \in 1..T : a = s[i]
    OBVIOUS
  <2>13. \A b \in kept : b \in CaptureArchives /\ b \notin gone
    OBVIOUS
  <2>14. \A b \in older : b \in kept /\ \E a \in gone : archives[b].mtime < archives[a].mtime
    OBVIOUS
  <2>15. \A a \in left : a \in CaptureArchives /\ a \notin Expired
    OBVIOUS
  <2>16. \A a \in CaptureArchives : a \in Expired \/ a \in left
    OBVIOUS
  <2> HIDE DEF T, N, tried, left, gone, kept, fresh, older
  <2>17. older \subseteq stuck
    <3>1. SUFFICES ASSUME NEW b \in older, b \notin stuck PROVE FALSE
      OBVIOUS
    <3>2. PICK a \in gone : archives[b].mtime < archives[a].mtime
      BY <2>14
    <3>3. b \in CaptureArchives /\ b \notin gone /\ b \in DOMAIN archives
      BY <2>7, <2>13, <2>14
    <3>4. b \notin Expired /\ b \notin tried /\ b \in left
      BY <2>9, <2>16, <3>1, <3>3
    <3>5. PICK k \in 1..N : b = s[k]
      BY <2>3, <3>4
    <3>6. k \notin 1..T
      BY <2>11, <3>4, <3>5
    <3>7. a \in DOMAIN archives
      BY <2>7, <2>8, <2>9, <2>15
    <3>8. archives[a].mtime \in Nat /\ archives[b].mtime \in Nat
      BY <1>1, <3>3, <3>7
    <3>9. CASE a \in Expired
      BY <2>7, <3>2, <3>4, <3>8, <3>9
    <3>10. CASE a \in tried
      <4>1. PICK i \in 1..T : a = s[i]
        BY <2>12, <3>10
      <4>2. i \in 1..N /\ i < k
        BY <2>3, <2>6, <2>11, <3>6
      <4>3. archives[a].mtime <= archives[b].mtime
        BY <2>4, <3>5, <4>1, <4>2
      <4> QED BY <3>2, <3>8, <4>3
    <3> QED BY <2>9, <3>9, <3>10
  <2>18. Cardinality(older) <= faults' - faults
    <3>1. Cardinality(older) \in Nat /\ Cardinality(older) <= Cardinality(stuck)
      BY <2>1, <2>17, FS_Subset, FS_CardinalityType
    <3> QED BY <1>1, <2>2, <3>1
  <2>19. ASSUME NEW a \in gone \ Expired
         PROVE  \E b \in gone : archives[b].mtime >= archives[a].mtime /\ ~(TotalSize(fresh \cup {b}) <= MaxTotal)
    <3> DEFINE S == {i \in 1..T : s[i] \notin stuck}
    <3>1. PICK i \in 1..T : a = s[i]
      BY <2>9, <2>12, <2>19
    <3>2. a \notin stuck /\ i \in S
      BY <2>9, <2>19, <3>1
    <3>3. S \in SUBSET (1..T) /\ S # {} /\ T \in Nat
      BY <2>3, <2>6, <3>2
    <3>4. PICK m \in S : \A k \in S : k <= m
      BY <3>3, LastNumber
    <3>5. m \in 1..T /\ s[m] \notin stuck /\ i <= m /\ \A k \in 1..T : k > m => s[k] \in stuck
      <4>1. \A k \in 1..T : s[k] \notin stuck => k <= m
        BY <3>4
      <4>2. \A k \in 1..T : k > m => ~(k <= m)
        BY <3>4
      <4> QED BY <3>2, <3>4, <4>1, <4>2
    <3> HIDE DEF S
    <3>6. m \in 1..N /\ i \in 1..N /\ m - 1 \in 0..N /\ m - 1 < T /\ s[m] \in tried
      BY <2>3, <2>6, <2>11, <3>5
    <3>7. s[m] \in gone
      BY <2>9, <3>5, <3>6
    <3>8. archives[s[m]].mtime >= archives[a].mtime
      <4>1. s[m] \in DOMAIN archives /\ a \in DOMAIN archives
        BY <2>3, <2>7, <2>15, <3>1, <3>6
      <4>2. archives[s[m]].mtime \in Nat /\ archives[a].mtime \in Nat
        BY <1>1, <4>1
      <4>3. CASE i = m
        BY <3>1, <4>2, <4>3
      <4>4. CASE i # m
        <5>1. i < m
          BY <3>5, <4>4
        <5>2. archives[a].mtime <= archives[s[m]].mtime
          BY <2>4, <3>1, <3>6, <5>1
        <5> QED BY <4>2, <5>2
      <4> QED BY <4>3, <4>4
    <3>9. fresh \cup {s[m]} = left \ ({s[k] : k \in 1..(m - 1)} \ stuck)
      <4>1. ASSUME NEW x \in fresh \cup {s[m]} PROVE x \in left /\ x \notin {s[k] : k \in 1..(m - 1)} \ stuck
        <5>1. CASE x = s[m]
          <6>1. \A k \in 1..(m - 1) : k \in 1..N /\ k # m
            BY <2>3, <3>6
          <6> QED BY <2>3, <3>6, <5>1, <6>1
        <5>2. CASE x \in fresh
          <6>1. \A k \in 1..(m - 1) : k \in 1..T
            BY <3>3, <3>5
          <6> QED BY <2>10, <2>11, <5>2, <6>1
        <5> QED BY <4>1, <5>1, <5>2
      <4>2. ASSUME NEW x \in left, x \notin {s[k] : k \in 1..(m - 1)} \ stuck PROVE x \in fresh \cup {s[m]}
        <5>1. CASE x \in tried \ stuck
          <6>1. PICK k \in 1..T : x = s[k]
            BY <2>12, <5>1
          <6>2. ~(k > m) /\ k \notin 1..(m - 1)
            BY <3>5, <4>2, <5>1, <6>1
          <6>3. k = m
            BY <3>5, <6>2
          <6> QED BY <6>1, <6>3
        <5> QED BY <2>10, <4>2, <5>1
      <4> QED BY <4>1, <4>2
    <3>10. ~(TotalSize(left \ ({s[k] : k \in 1..(m - 1)} \ stuck)) <= MaxTotal)
      BY <2>6, <3>6
    <3>11. ~(TotalSize(fresh \cup {s[m]}) <= MaxTotal)
      BY <3>9, <3>10, Zenon
    <3> QED BY <3>7, <3>8, <3>11
  <2>20. ASSUME faults' = faults
         PROVE  kept \cap Expired = {} /\ (MaxTotal = 0 \/ fresh = {} \/ TotalSize(fresh) <= MaxTotal)
    <3>1. stuck = {}
      <4>1. Cardinality(stuck) = 0
        BY <1>1, <2>2, <2>20
      <4> QED BY <2>1, <4>1, FS_EmptySet
    <3>2. kept \cap Expired = {}
      BY <2>9, <2>13, <3>1
    <3>3. T = N => fresh = {}
      <4>1. T = N => \A x \in left : x \in tried
        BY <2>3, <2>11
      <4> QED BY <2>10, <3>1, <4>1
    <3>4. MaxTotal = 0 \/ T = N \/ TotalSize(fresh) <= MaxTotal
      BY <2>6, <2>10, Zenon
    <3> QED BY <3>2, <3>3, <3>4
  <2> QED BY <2>18, <2>19, <2>20 DEF ExactPrune, gone, kept, fresh, older
<1> QED BY <1>2, <1>3 DEF PruneArchives

\* Nothing but prune_archives removes an archive, and faults are only added to.
LEMMA OthersPruneNothing ==
  ASSUME StoreInv, Next, ~PruneArchives
  PROVE  DOMAIN archives \subseteq DOMAIN archives' /\ faults \in Int /\ faults' \in Int /\ faults <= faults'
<1>1. TypeOK /\ CoreInv /\ RecordsSound /\ faults \in Int
  <2>1. faults \in 0..MaxFaults
    BY DEF StoreInv, TypeOK
  <2> QED BY <2>1 DEF StoreInv, CoreInv
<1>2. ASSUME Fail(0) \/ Fail(1) \/ Fail(2) \/ faults' = faults PROVE faults' \in Int /\ faults <= faults'
  BY <1>1, <1>2 DEF Fail
<1>3. ASSUME NEW n, ProcessEnds(n) PROVE archives' = archives /\ faults' = faults
  BY <1>3 DEF ProcessEnds
<1>4. ASSUME NEW w, WritePacket(w) \/ RotateAndWrite(w)
      PROVE  archives' = archives /\ (Fail(1) \/ faults' = faults)
  BY <1>4 DEF WritePacket, RotateAndWrite, Written, cleanupVars
<1>5. ASSUME NEW w, RotateFails(w) \/ Finish(w) \/ \E r \in Requests : Prepare(w, r)
      PROVE  archives' = archives /\ (Fail(1) \/ faults' = faults)
  BY <1>5 DEF RotateFails, Finish, Prepare, cleanupVars
<1>6. CASE FilterFile \/ FilterGivesUp
  <2>1. archives' = archives
    BY <1>6 DEF FilterFile, FilterGivesUp, cleanupVars
  <2>2. CASE FilterFile
    <3>1. PICK n \in {0 + 0, 1 + 0, 0 + 1, 1 + 1} : Fail(n)
      BY <2>2 DEF FilterFile
    <3> QED BY <1>1, <2>1, <3>1 DEF Fail
  <2>3. CASE FilterGivesUp
    BY <1>2, <1>1, <2>1, <2>3 DEF FilterGivesUp
  <2> QED BY <1>6, <2>2, <2>3
<1>7. CASE CleanupEnqueue
  <2>1. faults <= faults' /\ TypeOK'
    BY <1>1, <1>7, CleanupEnqueueKeeps DEF CoreInv
  <2>2. faults' \in 0..MaxFaults
    BY <2>1 DEF TypeOK
  <2>3. archives' = archives
    BY <1>7 DEF CleanupEnqueue, RecordDirMissing, RecordFits, RotateRecord, RotateRecordFails,
                PruneRecordFiles, RecordLine, otherVars
  <2> QED BY <1>1, <2>1, <2>2, <2>3
<1>8. CASE CleanupTimer \/ Tick
  <2>1. archives' = archives /\ faults' = faults
    BY <1>8 DEF CleanupTimer, Tick, cleanupVars
  <2> QED BY <1>1, <2>1
<1>9. CASE RemoveSources
  <2>1. archives' = archives /\ (Fail(0) \/ Fail(1))
    BY <1>9 DEF RemoveSources
  <2> QED BY <1>1, <1>2, <2>1
<1>10. CASE CleanupGroup
  <2>1. Fail(1) \/ faults' = faults
    BY <1>10 DEF CleanupGroup
  <2>2. archives' = archives \/ \E x, y : archives' = Put(archives, x, y)
    BY <1>10 DEF CleanupGroup
  <2>3. DOMAIN archives \subseteq DOMAIN archives'
    BY <2>2 DEF Put
  <2> QED BY <1>1, <1>2, <2>1, <2>3
<1>11. ASSUME archives' = archives /\ (Fail(1) \/ faults' = faults)
       PROVE  DOMAIN archives \subseteq DOMAIN archives' /\ faults' \in Int /\ faults <= faults'
  BY <1>2, <1>11
<1> QED BY <1>1, <1>3, <1>4, <1>5, <1>6, <1>7, <1>8, <1>9, <1>10, <1>11
    DEF Next, CleanupThread, CleanupFiles, DumpWithoutFile

\* prune_archives keeps an archive older than one it removes only where a removal
\* failed, removes no more for the total size than it must, and leaves nothing
\* above the limits when nothing fails; nothing else removes an archive.
THEOREM StorePruneExact == Spec => PruneExact
<1>1. ASSUME StoreInv, [Next]_vars PROVE [ExactPrune]_vars
  <2>1. CASE PruneArchives
    BY <1>1, <2>1, PruneIsExact DEF StoreInv
  <2>2. CASE Next /\ ~PruneArchives
    BY <1>1, <2>2, OthersPruneNothing, NothingPruned
  <2> QED BY <1>1, <2>1, <2>2
<1>2. [][ExactPrune]_vars => PruneExact
  BY PTL DEF PruneExact, ExactPrune
<1> QED BY <1>1, <1>2, StoreInvariant, PTL DEF Spec

=============================================================================
