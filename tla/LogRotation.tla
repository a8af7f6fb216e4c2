---------------------------- MODULE LogRotation ----------------------------
(***************************************************************************)
(* The log file of logging_config.py: apollo.log and its gzipped backups   *)
(* apollo.log.1.gz, .2.gz, ..., in a directory that the API, the CronJobs  *)
(* and create_user share, each process with a RotatingFileHandler of its   *)
(* own (external: Python's logging.handlers).  A process holds its log     *)
(* open by the file and rotates it by the name, so the names are modelled  *)
(* apart from the files.  Its handler has a lock: a process emits one      *)
(* record at a time.                                                       *)
(*                                                                         *)
(* The handler shifts the backups with os.rename; only the log goes        *)
(* through the rotator, so that _gzip_and_remove never meets a file that   *)
(* is compressed already.                                                  *)
(***************************************************************************)
EXTENDS Integers, Sequences, FiniteSets

CONSTANTS
    Process,        \* those that may log into the directory
    Backups,        \* settings.log_backup_count
    Size,           \* settings.log_max_bytes, in lines: as many fit
    MaxLines,       \* bound: lines logged
    MaxFaults       \* bound: emits that fail or are killed, shared by the writers

ASSUME LogAssumption ==
    /\ Backups \in Nat \ {0} /\ Size \in Nat \ {0}
    /\ MaxLines \in Nat /\ MaxFaults \in Nat
    /\ IsFiniteSet(Process) /\ Process \cap {"log", "gz", "torn"} = {}

VARIABLES
    writers,    \* the processes that do log: one, or several
    files,      \* every file there has been: its lines, and its state
    names,      \* the file behind apollo.log (0) and apollo.log.<k>.gz, 0 for none
    proc,       \* of each process: where its emit stands, and its stream
    logged,     \* lines written so far; they are numbered in this order
    faults      \* bound: faults so far

vars == <<writers, files, names, proc, logged, faults>>

Slot == 0..Backups

\* What is read off a file: its lines, unless its compression has not been finished.
\* state is "log", "gz", "torn", or the process that is writing the archive.
Readable(f) == files[f].state \in {"log", "gz"}

Idle == [pc |-> "idle", stream |-> 0, slot |-> 0, source |-> 0, dest |-> 0]

Init ==
    /\ writers \in (SUBSET Process) \ {{}}
    /\ files = <<>>
    /\ names = [k \in Slot |-> 0]
    /\ proc = [p \in writers |-> Idle]
    /\ logged = 0 /\ faults = 0

Rest == <<writers, logged, faults>>

Fault == faults < MaxFaults \div Cardinality(writers) /\ faults' = faults + 1

-----------------------------------------------------------------------------
(* An emit: open if need be, look at the size, rotate, write.              *)

\* FileHandler._open, in mode "a": at the start, after an error, after a rotation.
Open(p) ==
    /\ proc[p].pc \in {"idle", "reopen"} /\ proc[p].stream = 0
    /\ IF names[0] # 0
       THEN UNCHANGED <<files, names>>
       ELSE /\ files' = Append(files, [lines |-> <<>>, state |-> "log"])
            /\ names' = [names EXCEPT ![0] = Len(files')]
    /\ proc' = [proc EXCEPT ![p].stream = names'[0],
                            ![p].pc = IF @ = "idle" THEN "idle" ELSE "write"]
    /\ UNCHANGED Rest

\* Slip: the file is looked at after it has grown past its size.
Fits_OneMore(f) == Len(files[f].lines) <= Size

Fits(f) == Len(files[f].lines) < Size

\* shouldRollover; doRollover then begins with closing the stream.
LookAtSize(p) ==
    /\ logged < MaxLines
    /\ proc[p].pc = "idle" /\ proc[p].stream # 0
    /\ proc' = IF Fits(proc[p].stream)
               THEN [proc EXCEPT ![p].pc = "write"]
               ELSE [proc EXCEPT ![p] = [Idle EXCEPT !.pc = "shift", !.slot = Backups - 1]]
    /\ UNCHANGED <<files, names, Rest>>

\* doRollover: the place after slot is emptied if there is something to move to it.
\* At slot 0 that is the log, which comes next.
EmptySlot(p) ==
    LET k == proc[p].slot IN
    /\ proc[p].pc = "shift"
    /\ IF k = 0 \/ names[k] # 0
       THEN /\ names' = [names EXCEPT ![k + 1] = 0]
            /\ proc' = [proc EXCEPT ![p].pc = IF k = 0 THEN "gzip" ELSE "rename"]
       ELSE /\ proc' = [proc EXCEPT ![p].slot = k - 1]
            /\ UNCHANGED names
    /\ UNCHANGED <<files, Rest>>

\* Slip: the backup stays under its old name as well.
RenameBackup_Link(p) ==
    LET k == proc[p].slot IN
    /\ proc[p].pc = "rename"
    /\ names[k] # 0
    /\ names' = [names EXCEPT ![k + 1] = names[k]]
    /\ proc' = [proc EXCEPT ![p].pc = "shift", ![p].slot = k - 1]
    /\ UNCHANGED <<files, Rest>>

RenameBackup(p) ==
    LET k == proc[p].slot IN
    /\ proc[p].pc = "rename"
    /\ names[k] # 0
    /\ names' = [names EXCEPT ![k + 1] = names[k], ![k] = 0]
    /\ proc' = [proc EXCEPT ![p].pc = "shift", ![p].slot = k - 1]
    /\ UNCHANGED <<files, Rest>>

-----------------------------------------------------------------------------
(* _gzip_and_remove.                                                       *)

\* Both files are open.  The archive is created or, if another process has put one
\* there since, truncated; two that write one archive tear it.
OpenBoth(p) ==
    /\ proc[p].pc = "gzip"
    /\ names[0] # 0
    /\ IF names[1] = 0
       THEN /\ files' = Append(files, [lines |-> <<>>, state |-> p])
            /\ names' = [names EXCEPT ![1] = Len(files')]
       ELSE /\ files' = [files EXCEPT ![names[1]] =
                            [lines |-> <<>>, state |-> IF @.state = "gz" THEN p ELSE "torn"]]
            /\ UNCHANGED names
    /\ proc' = [proc EXCEPT ![p].pc = "copy", ![p].source = names[0], ![p].dest = names'[1]]
    /\ UNCHANGED Rest

\* copyfileobj, and both files are closed.
Copy(p) ==
    /\ proc[p].pc = "copy"
    /\ files' = [files EXCEPT ![proc[p].dest] =
                    IF @.state # p THEN [@ EXCEPT !.state = "torn"]
                    ELSE [lines |-> files[proc[p].source].lines, state |-> "gz"]]
    /\ proc' = [proc EXCEPT ![p].pc = "unlink"]
    /\ UNCHANGED <<names, Rest>>

\* The log is removed by its name, whichever file that is by now.
Unlink(p) ==
    /\ proc[p].pc = "unlink"
    /\ names[0] # 0
    /\ names' = [names EXCEPT ![0] = 0]
    /\ proc' = [proc EXCEPT ![p].pc = "reopen"]
    /\ UNCHANGED <<files, Rest>>

-----------------------------------------------------------------------------

\* StreamHandler.emit, into the file that is open, named or not.
Write(p) ==
    /\ proc[p].pc = "write"
    /\ logged' = logged + 1
    /\ files' = [files EXCEPT ![proc[p].stream].lines = Append(@, logged')]
    /\ proc' = [proc EXCEPT ![p].pc = "idle"]
    /\ UNCHANGED <<writers, names, faults>>

\* An OSError on the way: handleError drops the record, and the next emit starts
\* anew.  A file that another process has moved or removed raises it, and a full
\* disk; so does one that goes between an os.path.exists and the call after it.
Missing(p) ==
    \/ proc[p].pc = "rename" /\ names[proc[p].slot] = 0
    \/ proc[p].pc \in {"gzip", "unlink"} /\ names[0] = 0

\* Slip: the log is removed even if it could not be copied.
EmitFails_Finally(p) ==
    /\ proc[p].pc = "copy"
    /\ Fault
    /\ names' = [names EXCEPT ![0] = 0]
    /\ proc' = [proc EXCEPT ![p] = Idle]
    /\ UNCHANGED <<writers, files, logged>>

EmitFails(p) ==
    /\ proc[p].pc # "idle"
    /\ \/ Missing(p) /\ UNCHANGED faults
       \/ Fault
    /\ proc' = [proc EXCEPT ![p] = [Idle EXCEPT !.stream = proc[p].stream]]
    /\ UNCHANGED <<writers, files, names, logged>>

\* The process ends between two records, or is killed within an emit; it, or its
\* next run, configures its logging anew.
Restart(p) ==
    /\ proc[p] # Idle
    /\ \/ proc[p].pc = "idle" /\ UNCHANGED faults
       \/ proc[p].pc # "idle" /\ Fault
    /\ proc' = [proc EXCEPT ![p] = Idle]
    /\ UNCHANGED <<writers, files, names, logged>>

Rotate(p) == EmptySlot(p) \/ RenameBackup(p) \/ OpenBoth(p) \/ Copy(p) \/ Unlink(p)

Next ==
    \E p \in writers :
        \/ Open(p) \/ LookAtSize(p) \/ Rotate(p) \/ Write(p)
        \/ EmitFails(p) \/ Restart(p)

Spec == Init /\ [][Next]_vars

-----------------------------------------------------------------------------

Lines(k) == IF names[k] # 0 /\ Readable(names[k]) THEN files[names[k]].lines ELSE <<>>

\* What grep and zgrep find in the directory.
Found == UNION {{Lines(k)[i] : i \in DOMAIN Lines(k)} : k \in Slot}

Alone == Cardinality(writers) = 1

\* Type correctness: an archive is named by one name at most, and a process that
\* writes one has it open.
TypeOK ==
    /\ writers \in SUBSET Process
    /\ \A f \in DOMAIN files : files[f].state \in {"log", "gz", "torn"} \cup writers
    /\ names \in [Slot -> 0..Len(files)]
    /\ \A j, k \in Slot : j # k /\ names[j] = names[k] => names[j] = 0
    /\ names[0] # 0 => files[names[0]].state = "log"
    /\ \A p \in writers :
          /\ proc[p].pc \in {"idle", "shift", "rename", "gzip", "copy", "unlink", "reopen", "write"}
          /\ proc[p].stream \in 0..Len(files)
          /\ proc[p].slot \in 0..Backups - 1
          /\ proc[p].pc = "write" => proc[p].stream # 0
          /\ proc[p].stream # 0 => files[proc[p].stream].state = "log"
    /\ logged \in 0..MaxLines + Cardinality(writers) /\ faults \in 0..MaxFaults

\* The lines the backups have room for, of those that were logged.
Kept == IF logged < Backups * Size THEN logged ELSE Backups * Size

\* "Logs survive container restarts" and "APOLLO_LOG_BACKUP_COUNT controls how many are
\* kept before the oldest is deleted": as long as one process logs, what is found is
\* always the latest lines without a gap, and older files hold older lines, whatever
\* fails and wherever the process is killed; and while nothing fails no line is dropped
\* that the backups have room for, not even during a rotation.
ReadsWhole ==
    Alone /\ logged > 0 =>
        /\ \E first \in 1..logged : Found = first..logged
        /\ \A j, k \in Slot :
              j < k /\ Lines(j) # <<>> /\ Lines(k) # <<>> => Lines(k)[1] <= Lines(j)[1]
        /\ faults = 0 => Cardinality(Found) >= Kept

\* "[They] don't grow unbounded": however many processes log into the directory, and
\* however their rotations mix, a log outgrows its size by at most a line for each of
\* the others.
SizeBounded ==
    \A f \in DOMAIN files : Len(files[f].lines) <= Size + Cardinality(writers) - 1

=============================================================================
