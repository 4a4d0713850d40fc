----------------------------- MODULE OnboardLog ------------------------------
(***************************************************************************)
(* The onboard log of gcs/gcs.c (log_open, log_write, log_sync, log_close)  *)
(* over the runs of the sender that systemd starts again and again.         *)
(*                                                                         *)
(* A record goes from libc's buffer to the page cache, which outlives the   *)
(* process, and from there to the SD card, which outlives the power.  A     *)
(* file is named by the minute it was opened in and a number.  A record is  *)
(* the run that wrote it and its number in the run.                        *)
(***************************************************************************)
EXTENDS Integers, Sequences, SequencesExt

CONSTANTS
  Tries,      \* 100: log_open tries the numbers 1..Tries-1
  Minutes,    \* what strftime's "%m%d-%H%M" can give
  MaxRuns,    \* bound: runs of the sender
  MaxRecords, \* bound: packets of one run
  SyncFails   \* can fflush or fsync fail in log_sync

ASSUME LogAssumption ==
  /\ Tries \in Nat /\ Tries >= 2
  /\ Minutes # {}
  /\ MaxRuns \in Nat \ {0} /\ MaxRecords \in Nat \ {0}
  /\ SyncFails \in BOOLEAN

VARIABLES
  run,      \* number of the current run
  alive,    \* is the process running
  minute,   \* the wall clock; a Pi without a clock may go back at power-up
  state,    \* "unopened", "open" (log_file), or "off" (log_off)
  path,     \* log_path
  seq,      \* telemetry_seq
  buffer,   \* libc's buffer of log_file
  cache,    \* the files as the kernel shows them
  card,     \* the files as a power loss would leave them
  claimed   \* records a log_sync has covered (history)

vars == <<run, alive, minute, state, path, seq, buffer, cache, card, claimed>>

Paths == Minutes \X (1..(Tries - 1))
Record == (1..MaxRuns) \X (0..(MaxRecords - 1))

\* A file is whether it exists and what is in it.
Files == [exists : BOOLEAN, recs : Seq(Record)]
NoFile == [exists |-> FALSE, recs |-> <<>>]
File(recs) == [exists |-> TRUE, recs |-> recs]

Init ==
  /\ run = 1 /\ alive = TRUE
  /\ minute \in Minutes
  /\ state = "unopened" /\ path = <<minute, 1>>
  /\ seq = 0
  /\ buffer = <<>>
  /\ cache = [p \in Paths |-> NoFile] /\ card = cache
  /\ claimed = {}

-----------------------------------------------------------------------------
\* log_open: the first number free in this minute; when all are taken, the
\* last one tried.  (Mutant: always the first.)
FirstName == <<minute, 1>>
FreeName ==
  LET Free == {n \in 1..(Tries - 1) : ~cache[<<minute, n>>].exists}
  IN  <<minute, IF Free = {} THEN Tries - 1
                ELSE CHOOSE n \in Free : \A m \in Free : n <= m>>

\* Some of the buffered records reach the kernel, in order; k of them here.
Flushed(p, k) == [cache EXCEPT ![p] = File(@.recs \o SubSeq(buffer, 1, k))]

\* The packet of this pass has been dealt with.
Sampled == seq' = seq + 1

\* log_write while the log is off.
WriteOff ==
  /\ alive /\ seq < MaxRecords /\ state = "off"
  /\ Sampled
  /\ UNCHANGED <<run, alive, minute, state, path, buffer, cache, card, claimed>>

\* log_write opens the log, and cannot: mkdir or fopen fails.
OpenFails ==
  /\ alive /\ seq < MaxRecords /\ state = "unopened"
  /\ state' = "off"
  /\ Sampled
  /\ UNCHANGED <<run, alive, minute, path, buffer, cache, card, claimed>>

\* log_write opens the log, fopen "wb" truncating what has that name, and
\* buffers its first record.
Open ==
  /\ alive /\ seq < MaxRecords /\ state = "unopened"
  /\ state' = "open"
  /\ path' = FreeName
  /\ cache' = [cache EXCEPT ![path'] = File(<<>>)]
  /\ card' = [card EXCEPT ![path'] = IF @.exists THEN File(<<>>) ELSE @]
  /\ buffer' = <<<<run, seq>>>>
  /\ Sampled
  /\ UNCHANGED <<run, alive, minute, claimed>>

\* log_write on the open log; the buffer may run over into the kernel.
Write ==
  /\ alive /\ seq < MaxRecords /\ state = "open"
  /\ \/ buffer' = Append(buffer, <<run, seq>>) /\ UNCHANGED cache
     \/ \E k \in 1..Len(buffer) :
          /\ cache' = Flushed(path, k)
          /\ buffer' = Append(SubSeq(buffer, k + 1, Len(buffer)), <<run, seq>>)
  /\ Sampled
  /\ UNCHANGED <<run, alive, minute, state, path, card, claimed>>

\* fwrite fails: fclose, which may still flush some, and off for this run.
\* (Mutants: log_off is not set; the buffer stays behind.)
ReopenAfterError == "unopened"
OffAfterError == "off"
BufferKept == buffer
BufferAfterError == <<>>
WriteFails ==
  /\ alive /\ seq < MaxRecords /\ state = "open"
  /\ state' = OffAfterError
  /\ \E k \in 0..Len(buffer) : cache' = Flushed(path, k)
  /\ buffer' = BufferAfterError
  /\ Sampled
  /\ UNCHANGED <<run, alive, minute, path, card, claimed>>

\* fflush, then fsync.  (Mutant: the other way round.)
FsyncFirst == [card EXCEPT ![path] = cache[path]]
FlushFirst == [card EXCEPT ![path] = Flushed(path, Len(buffer))[path]]

Covered == {r \in Record : \E i \in DOMAIN buffer : buffer[i] = r}
           \cup {r \in Record : \E i \in DOMAIN cache[path].recs : cache[path].recs[i] = r}

\* log_sync.
Sync ==
  /\ alive /\ state = "open"
  /\ cache' = Flushed(path, Len(buffer))
  /\ card' = FlushFirst
  /\ buffer' = <<>>
  /\ claimed' = claimed \cup Covered
  /\ UNCHANGED <<run, alive, minute, state, path, seq>>

\* log_sync when fflush fails: nobody looks at its result.  libc drops what
\* it could not write, and fsync does what it can.
SyncErrs ==
  /\ SyncFails
  /\ alive /\ state = "open" /\ buffer # <<>>
  /\ \E k \in 0..(Len(buffer) - 1) :
       /\ cache' = Flushed(path, k)
       /\ card' = [card EXCEPT ![path] = cache'[path]]
  /\ buffer' = <<>>
  /\ UNCHANGED <<run, alive, minute, state, path, seq, claimed>>

\* log_close, with its log_sync, at the end of main.
Close ==
  /\ alive /\ state = "open"
  /\ alive' = FALSE
  /\ cache' = Flushed(path, Len(buffer))
  /\ card' = FlushFirst
  /\ buffer' = <<>>
  /\ claimed' = claimed \cup Covered
  /\ UNCHANGED <<run, minute, state, path, seq>>

-----------------------------------------------------------------------------
\* The process dies without closing: the kernel still has the files.
Die ==
  /\ alive
  /\ alive' = FALSE
  /\ buffer' = <<>>
  /\ UNCHANGED <<run, minute, state, path, seq, cache, card, claimed>>

\* Restart=always: a new run, in this minute or another.
Restart ==
  /\ ~alive /\ run < MaxRuns
  /\ run' = run + 1 /\ alive' = TRUE
  /\ state' = "unopened" /\ seq' = 0
  /\ UNCHANGED <<minute, path, buffer, cache, card, claimed>>

\* The clock moves on, or is set.
Clock ==
  /\ minute' \in Minutes \ {minute}
  /\ UNCHANGED <<run, alive, state, path, seq, buffer, cache, card, claimed>>

\* The kernel writes back a file, or the beginning of it.
WriteBack ==
  /\ \E p \in Paths : \E n \in Len(card[p].recs)..Len(cache[p].recs) :
       /\ cache[p].exists
       /\ card' = [card EXCEPT ![p] = File(SubSeq(cache[p].recs, 1, n))]
  /\ UNCHANGED <<run, alive, minute, state, path, seq, buffer, cache, claimed>>

\* The power fails.
PowerLoss ==
  /\ alive' = FALSE
  /\ buffer' = <<>>
  /\ cache' = card
  /\ UNCHANGED <<run, minute, state, path, seq, card, claimed>>

Next ==
  \/ WriteOff \/ OpenFails \/ Open \/ Write \/ WriteFails
  \/ Sync \/ SyncErrs \/ Close
  \/ Die \/ Restart \/ Clock \/ WriteBack \/ PowerLoss

Spec == Init /\ [][Next]_vars

-----------------------------------------------------------------------------
TypeOK ==
  /\ run \in 1..MaxRuns /\ alive \in BOOLEAN /\ minute \in Minutes
  /\ state \in {"unopened", "open", "off"}
  /\ path \in Paths
  /\ seq \in 0..MaxRecords
  /\ buffer \in Seq(Record)
  /\ (~alive \/ state # "open") => buffer = <<>>
  /\ cache \in [Paths -> Files] /\ card \in [Paths -> Files]
  /\ \A p \in Paths :
       /\ card[p].exists => cache[p].exists
       /\ IsPrefix(card[p].recs, cache[p].recs)
  /\ claimed \subseteq Record

\* The log implements its promise: records are what is in some file or in the
\* buffer, the safe ones are those a log_sync has covered.  So no crash, power
\* loss or later run takes a record that was synced.  (As long as a minute has
\* names left.)
InFiles == {r \in Record : \E p \in Paths :
              \E i \in DOMAIN cache[p].recs : cache[p].recs[i] = r}
InBuffer == {r \in Record : \E i \in DOMAIN buffer : buffer[i] = r}
J == INSTANCE Journal WITH Records <- Record, kept <- InFiles \cup InBuffer,
                           safe <- claimed
JournalSpec == J!Spec

\* Content of a file, with the buffer behind it when it is the open one.
Contents(p) ==
  IF state = "open" /\ p = path THEN cache[p].recs \o buffer ELSE cache[p].recs

\* "never clobber the previous run's file" and "any failure disables it for
\* the rest of the run": a file holds packets of one run, in the order they
\* were sent, and no other file holds packets of that run.
OneRunOneFile ==
  /\ \A p \in Paths : \A i, j \in DOMAIN Contents(p) :
       i < j => /\ Contents(p)[i][1] = Contents(p)[j][1]
                /\ Contents(p)[i][2] < Contents(p)[j][2]
  /\ \A p, q \in Paths : \A i \in DOMAIN Contents(p), j \in DOMAIN Contents(q) :
       Contents(p)[i][1] = Contents(q)[j][1] => p = q

\* "Any failure disables it for the rest of the run": so what was logged of a
\* run has no gap, it is the run's packets from the first on.
NoHoles ==
  \A p \in Paths : \A i \in DOMAIN Contents(p) : Contents(p)[i][2] = i - 1

\* "never clobber the previous run's file": short of a power loss, no step
\* takes a record out of a file.  (Once a minute has no name left one does.)
NeverClobbers ==
  [][alive' => \A p \in Paths : IsPrefix(cache[p].recs, cache'[p].recs)]_vars
=============================================================================
