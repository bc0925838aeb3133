---------------------------- MODULE MCFileStore -----------------------------
(* Instances of FileStore for TLC. *)
EXTENDS FileStore, TLC

\* A capture that starts a file for every segment, one with a PDEF file, whose
\* filtered file may have the same name, and one without {seq} in its pattern.
MCRequests == {[target |-> "a", kind |-> "plain", seq |-> TRUE],
               [target |-> "a", kind |-> "pdef", seq |-> TRUE],
               [target |-> "a", kind |-> "plain", seq |-> FALSE]}

OldFile(at, n) == [prefix |-> "capture", at |-> at, id |-> n]
OldPackets(n) == {[cap |-> 0, no |-> i] : i \in 1..n}

\* Archives named as compress_file names them.
MCOldArchives == OldFile(2, 1) :> [mtime |-> 2, pkts |-> OldPackets(1)]
              @@ OldFile(4, 2) :> [mtime |-> 4, pkts |-> OldPackets(2)]

\* cleanup.log is full, and there is one rotated file too many.
OldLog(line) == [lines |-> {line}, size |-> 1, mtime |-> line]
MCOldRecords == 1 :> OldLog(1) @@ 2 :> OldLog(2) @@ 3 :> OldLog(3) @@ 0 :> OldLog(4)

=============================================================================
