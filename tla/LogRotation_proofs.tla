-------------------------- MODULE LogRotation_proofs --------------------------
(***************************************************************************)
(* Proofs about LogRotation, for any finite number of processes, backups   *)
(* of any number and any size.                                             *)
(***************************************************************************)
EXTENDS LogRotation, FiniteSetTheorems, SequenceTheorems, WellFoundedInduction, TLAPS

-----------------------------------------------------------------------------
(* The inductive invariant.                                                *)

Steps == {"idle", "shift", "rename", "gzip", "copy", "unlink", "reopen", "write"}

Handler == [pc : Steps, stream : Nat, slot : 0..Backups - 1, source : Nat, dest : Nat]

File == [lines : Seq(Nat), state : {"log", "gz", "torn"} \cup writers]

\* What the directory and the processes are made of.
Shape ==
    /\ writers # {}
    /\ files \in Seq(File)
    /\ proc \in [writers -> Handler]

\* A name with a number is that of an archive, ...
BackupsAreArchives ==
    \A k \in 1..Backups : names[k] # 0 => files[names[k]].state # "log"

\* ... only archives are renamed, and a copy is one into an archive.
RotatesFiles ==
    \A p \in writers :
        /\ proc[p].pc = "rename" => proc[p].slot # 0
        /\ proc[p].pc = "copy" => /\ proc[p].source \in DOMAIN files
                                  /\ proc[p].dest \in DOMAIN files
                                  /\ files[proc[p].dest].state # "log"

\* The processes that will write a line into file f without another look at its size.
Pending(f) ==
    {p \in writers : \/ proc[p].pc = "write" /\ proc[p].stream = f
                     \/ proc[p].pc = "reopen" /\ names[0] = f}

RoomForAll ==
    \A f \in DOMAIN files :
        Len(files[f].lines) + Cardinality(Pending(f)) <= Size + Cardinality(writers) - 1

\* The processes within an emit; each writes a line at most.
Busy == {p \in writers : proc[p].pc # "idle"}

CountsLines == logged + Cardinality(Busy) <= MaxLines + Cardinality(writers)

IInv ==
    /\ TypeOK /\ Shape
    /\ BackupsAreArchives /\ RotatesFiles
    /\ RoomForAll /\ CountsLines

-----------------------------------------------------------------------------

\* Of the numbers of writers and of a quotient.
LEMMA WritersFinite ==
    ASSUME TypeOK, Shape
    PROVE  IsFiniteSet(writers) /\ Cardinality(writers) \in Nat \ {0}
<1>1. IsFiniteSet(writers)
  BY LogAssumption, FS_Subset DEF TypeOK
<1> QED
  BY <1>1, FS_CardinalityType, FS_EmptySet DEF Shape

LEMMA Quotient ==
    ASSUME NEW a \in Nat, NEW b \in Nat \ {0}
    PROVE  (a \div b) \in Nat /\ a \div b <= a
OBVIOUS

LEMMA FilesType ==
    ASSUME Shape
    PROVE  /\ Len(files) \in Nat /\ DOMAIN files = 1..Len(files)
           /\ \A f \in DOMAIN files : /\ files[f] \in File
                                      /\ files[f].lines \in Seq(Nat)
                                      /\ Len(files[f].lines) \in Nat
<1>1. Len(files) \in Nat /\ DOMAIN files = 1..Len(files)
  BY DEF Shape
<1>2. ASSUME NEW f \in DOMAIN files
      PROVE  files[f] \in File /\ files[f].lines \in Seq(Nat)
  <2>1. files[f] \in File
    BY <1>1, <1>2 DEF Shape
  <2> QED
    BY <2>1 DEF File
<1> QED
  BY <1>1, <1>2, LenProperties

-----------------------------------------------------------------------------
(* Files, names and processes.                                             *)

\* The part of the type invariant that is about them.
NamesOK ==
    /\ names \in [Slot -> 0..Len(files)]
    /\ \A j, k \in Slot : j # k /\ names[j] = names[k] => names[j] = 0
    /\ names[0] # 0 => files[names[0]].state = "log"
    /\ BackupsAreArchives

StreamsOK ==
    /\ \A p \in writers :
          /\ proc[p].stream \in 0..Len(files)
          /\ proc[p].pc = "write" => proc[p].stream # 0
          /\ proc[p].stream # 0 => files[proc[p].stream].state = "log"
    /\ RotatesFiles

Objects == writers \subseteq Process /\ Shape /\ NamesOK /\ StreamsOK

LEMMA IInvObjects == IInv => Objects
BY DEF IInv, TypeOK, Objects, NamesOK, StreamsOK

LEMMA IdleHandler == Idle \in Handler
BY LogAssumption DEF Idle, Handler, Steps

\* Steps of one process that leave the files alone.
LEMMA SameFiles ==
    ASSUME Objects, NEW p \in writers,
           LookAtSize(p) \/ EmptySlot(p) \/ RenameBackup(p) \/ Unlink(p)
              \/ EmitFails(p) \/ Restart(p)
    PROVE  Objects'
<1>1. files' = files /\ writers' = writers
  BY DEF LookAtSize, EmptySlot, RenameBackup, Unlink, EmitFails, Restart, Rest
<1>2. proc \in [writers -> Handler] /\ proc[p] \in Handler
  BY DEF Objects, Shape
<1> DEFINE k == proc[p].slot
<1>3. k \in 0..Backups - 1 /\ proc[p].stream \in Nat
  BY <1>2 DEF Handler
<1>4. /\ Backups - 1 \in 0..Backups - 1 /\ 0 \in 0..Backups - 1 /\ 0 \in Slot
      /\ k \in Slot /\ k + 1 \in Slot \ {0, k}
      /\ k # 0 => k - 1 \in 0..Backups - 1
  <2> HIDE DEF k
  <2> QED
    BY <1>3, LogAssumption DEF Slot
<1> DEFINE Moves(x) ==
       /\ proc' = [proc EXCEPT ![p] = x]
       /\ x.stream \in {proc[p].stream, 0}
       /\ x.pc = "write" => x.stream # 0
       /\ x.pc = "rename" => x.slot # 0
       /\ x.pc # "copy"
<1>5. \E x \in Handler : Moves(x)
  <2>1. CASE LookAtSize(p) /\ Fits(proc[p].stream)
    <3>1. [proc[p] EXCEPT !.pc = "write"] \in Handler
      BY <1>2 DEF Handler, Steps
    <3> WITNESS [proc[p] EXCEPT !.pc = "write"] \in Handler
    <3> QED
      BY <1>2, <2>1 DEF LookAtSize, Handler
  <2>2. CASE LookAtSize(p) /\ ~Fits(proc[p].stream)
    <3>1. [Idle EXCEPT !.pc = "shift", !.slot = Backups - 1] \in Handler
      BY <1>4, IdleHandler DEF Handler, Steps
    <3> WITNESS [Idle EXCEPT !.pc = "shift", !.slot = Backups - 1] \in Handler
    <3> QED
      BY <2>2 DEF LookAtSize, Idle
  <2>3. CASE EmptySlot(p) /\ (k = 0 \/ names[k] # 0)
    <3>1. [proc[p] EXCEPT !.pc = IF k = 0 THEN "gzip" ELSE "rename"] \in Handler
      BY <1>2 DEF Handler, Steps
    <3> WITNESS [proc[p] EXCEPT !.pc = IF k = 0 THEN "gzip" ELSE "rename"] \in Handler
    <3> QED
      BY <1>2, <2>3 DEF EmptySlot, Handler
  <2>4. CASE EmptySlot(p) /\ ~(k = 0 \/ names[k] # 0)
    <3>1. [proc[p] EXCEPT !.slot = k - 1] \in Handler
      BY <1>2, <1>4, <2>4 DEF Handler, Steps
    <3> WITNESS [proc[p] EXCEPT !.slot = k - 1] \in Handler
    <3> QED
      BY <1>2, <2>4 DEF EmptySlot, Handler
  <2>5. CASE RenameBackup(p)
    <3>1. k # 0
      BY <2>5 DEF RenameBackup, Objects, StreamsOK, RotatesFiles
    <3>2. [proc[p] EXCEPT !.pc = "shift", !.slot = k - 1] \in Handler
      BY <1>2, <1>4, <3>1 DEF Handler, Steps
    <3> WITNESS [proc[p] EXCEPT !.pc = "shift", !.slot = k - 1] \in Handler
    <3> QED
      BY <1>2, <2>5 DEF RenameBackup, Handler
  <2>6. CASE Unlink(p)
    <3>1. [proc[p] EXCEPT !.pc = "reopen"] \in Handler
      BY <1>2 DEF Handler, Steps
    <3> WITNESS [proc[p] EXCEPT !.pc = "reopen"] \in Handler
    <3> QED
      BY <1>2, <2>6 DEF Unlink, Handler
  <2>7. CASE EmitFails(p)
    <3>1. [Idle EXCEPT !.stream = proc[p].stream] \in Handler
      BY <1>3, <1>4 DEF Idle, Handler, Steps
    <3> WITNESS [Idle EXCEPT !.stream = proc[p].stream] \in Handler
    <3> QED
      BY <2>7 DEF EmitFails, Idle
  <2>8. CASE Restart(p)
    <3> WITNESS Idle \in Handler
    <3> QED
      BY <2>8 DEF Restart, Idle
  <2> QED
    BY <2>1, <2>2, <2>3, <2>4, <2>5, <2>6, <2>7, <2>8
<1>6. PICK x \in Handler : Moves(x)
  BY <1>5
<1>7. /\ proc' \in [writers -> Handler] /\ proc'[p] = x
      /\ \A q \in writers : q # p => proc'[q] = proc[q]
  BY <1>2, <1>6
<1>8. StreamsOK'
  BY <1>1, <1>6, <1>7 DEF Objects, Shape, StreamsOK, RotatesFiles
<1>9. Shape'
  BY <1>1, <1>7 DEF Objects, Shape, Handler, File
<1>10. NamesOK'
  <2>1. CASE names' = names
    BY <1>1, <2>1 DEF Objects, NamesOK, BackupsAreArchives
  <2>2. CASE EmptySlot(p) /\ names' = [names EXCEPT ![k + 1] = 0]
    <3>1. names \in [Slot -> 0..Len(files)]
      BY DEF Objects, NamesOK
    <3>2. \A j \in Slot : names'[j] \in {names[j], 0}
      BY <1>4, <2>2, <3>1
    <3>3. names' \in [Slot -> 0..Len(files)]
      <4>1. 0 \in 0..Len(files)
        BY FilesType DEF Objects
      <4> QED
        BY <2>2, <3>1, <4>1
    <3>4. \A i, j \in Slot : i # j /\ names'[i] = names'[j] => names'[i] = 0
      BY <3>2 DEF Objects, NamesOK
    <3>5. names'[0] # 0 => files[names'[0]].state = "log"
      BY <1>4, <3>2 DEF Objects, NamesOK
    <3>6. \A j \in 1..Backups : names'[j] # 0 => files[names'[j]].state # "log"
      <4> TAKE j \in 1..Backups
      <4>1. j \in Slot
        BY DEF Slot
      <4> QED
        BY <3>2, <4>1 DEF Objects, NamesOK, BackupsAreArchives
    <3> QED
      BY <1>1, <3>3, <3>4, <3>5, <3>6 DEF NamesOK, BackupsAreArchives
  <2>3. CASE RenameBackup(p)
    <3>1. k # 0 /\ names \in [Slot -> 0..Len(files)]
      BY <2>3 DEF RenameBackup, Objects, StreamsOK, RotatesFiles, NamesOK
    <3>2. k \in Slot \ {0} /\ k + 1 \in Slot \ {0} /\ k + 1 # k /\ 0 \in Slot
      BY <1>4, <3>1
    <3>3. names' = [names EXCEPT ![k + 1] = names[k], ![k] = 0]
      BY <2>3 DEF RenameBackup
    <3>4. names' \in [Slot -> 0..Len(files)]
      BY <3>1, <3>2, <3>3, FilesType DEF Objects
    <3>5. /\ names'[k + 1] = names[k] /\ names'[k] = 0
          /\ \A j \in Slot : j # k /\ j # k + 1 => names'[j] = names[j]
      BY <3>1, <3>2, <3>3
    <3>6. \A i, j \in Slot : i # j /\ names'[i] = names'[j] => names'[i] = 0
      BY <3>2, <3>5 DEF Objects, NamesOK
    <3>7. names'[0] # 0 => files[names'[0]].state = "log"
      BY <3>2, <3>5 DEF Objects, NamesOK
    <3>8. \A j \in 1..Backups : names'[j] # 0 => files[names'[j]].state # "log"
      <4> TAKE j \in 1..Backups
      <4>1. j \in Slot /\ k \in 1..Backups
        <5> HIDE DEF k
        <5> QED
          BY <3>2, LogAssumption DEF Slot
      <4> QED
        BY <3>5, <4>1 DEF Objects, NamesOK, BackupsAreArchives
    <3> QED
      BY <1>1, <3>4, <3>6, <3>7, <3>8 DEF NamesOK, BackupsAreArchives
  <2>4. CASE Unlink(p)
    BY <1>1, <1>2, <2>4, LogAssumption
       DEF Objects, NamesOK, BackupsAreArchives, Unlink, Slot
  <2> QED
    BY <2>1, <2>2, <2>3, <2>4 DEF LookAtSize, EmptySlot, EmitFails, Restart
<1> QED
  BY <1>1, <1>8, <1>9, <1>10 DEF Objects

\* A file is created under a name that is free, or none is.
LEMMA Created ==
    ASSUME Objects, NEW st \in {"log"} \cup writers, NEW k \in {0, 1}, names[k] = 0,
           (k = 0) <=> (st = "log"),
           files' = Append(files, [lines |-> <<>>, state |-> st]),
           names' = [names EXCEPT ![k] = Len(files')], writers' = writers
    PROVE  /\ files' \in Seq(File)' /\ Len(files') = Len(files) + 1
           /\ \A f \in DOMAIN files : f \in DOMAIN files' /\ files'[f] = files[f]
           /\ names'[k] = Len(files') /\ files'[names'[k]].state = st
           /\ files'[names'[k]].lines = <<>>
           /\ NamesOK'
<1> DEFINE e == [lines |-> <<>>, state |-> st]
<1>1. e \in File /\ files \in Seq(File) /\ File' = File /\ files' = Append(files, e)
  BY DEF File, Objects, Shape
<1>2. Len(files) \in Nat /\ DOMAIN files = 1..Len(files)
  BY <1>1
<1>3. /\ files' \in Seq(File) /\ Len(files') = Len(files) + 1
      /\ \A f \in 1..Len(files) : files'[f] = files[f]
      /\ files'[Len(files) + 1] = e
  <2> HIDE DEF e
  <2> QED
    BY <1>1, AppendProperties
<1>4. k \in Slot /\ names \in [Slot -> 0..Len(files)]
  BY LogAssumption DEF Slot, Objects, NamesOK
<1>5. names'[k] = Len(files) + 1 /\ \A j \in Slot : j # k => names'[j] = names[j]
  BY <1>3, <1>4
<1>6. names' \in [Slot -> 0..Len(files')]
  BY <1>2, <1>3, <1>4, <1>5
<1>7. \A i, j \in Slot : i # j /\ names'[i] = names'[j] => names'[i] = 0
  BY <1>2, <1>4, <1>5 DEF Objects, NamesOK
<1>8. \A j \in Slot : names[j] # 0 => names[j] \in 1..Len(files)
  BY <1>2, <1>4
<1>9. st # "log" => st \notin {"log", "gz", "torn"}
  BY LogAssumption DEF Objects
<1>10. \A j \in Slot : j # k /\ names'[j] # 0 =>
          files'[names'[j]].state = files[names[j]].state
  BY <1>3, <1>5, <1>8
<1>11. files'[names'[k]].state = st
  BY <1>3, <1>5
<1>12. names'[0] # 0 => files'[names'[0]].state = "log"
  <2>1. 0 \in Slot
    BY LogAssumption DEF Slot
  <2> QED
    BY <1>5, <1>10, <1>11, <2>1 DEF Objects, NamesOK
<1>13. \A j \in 1..Backups : names'[j] # 0 => files'[names'[j]].state # "log"
  <2> TAKE j \in 1..Backups
  <2>1. j \in Slot /\ j # 0
    BY DEF Slot
  <2> QED
    BY <1>5, <1>10, <1>11, <2>1 DEF Objects, NamesOK, BackupsAreArchives
<1>14. NamesOK'
  BY <1>6, <1>7, <1>12, <1>13 DEF NamesOK, BackupsAreArchives
<1> QED
  BY <1>1, <1>2, <1>3, <1>5, <1>11, <1>14

\* A file is written in its place; only an archive changes its state.
LEMMA Rewritten ==
    ASSUME Objects, NEW f \in DOMAIN files, NEW e \in File,
           (e.state = "log") <=> (files[f].state = "log"),
           files' = [files EXCEPT ![f] = e], names' = names, writers' = writers
    PROVE  /\ files' \in Seq(File)' /\ Len(files') = Len(files)
           /\ DOMAIN files' = DOMAIN files
           /\ files'[f] = e /\ \A g \in DOMAIN files : g # f => files'[g] = files[g]
           /\ \A g \in DOMAIN files : (files'[g].state = "log") <=> (files[g].state = "log")
           /\ NamesOK'
<1>1. files \in Seq(File) /\ File' = File
  BY DEF File, Objects, Shape
<1>2. files' \in Seq(File) /\ Len(files') = Len(files) /\ DOMAIN files' = DOMAIN files
  BY <1>1, ExceptSeq
<1>3. /\ files'[f] = e
      /\ \A g \in DOMAIN files : g # f => files'[g] = files[g]
  BY <1>1
<1>4. \A g \in DOMAIN files : (files'[g].state = "log") <=> (files[g].state = "log")
  BY <1>3
<1>5. \A j \in Slot : names[j] # 0 => names[j] \in DOMAIN files
  BY <1>1 DEF Objects, NamesOK
<1>6. NamesOK'
  <2>1. names' \in [Slot -> 0..Len(files')]
    BY <1>2 DEF Objects, NamesOK
  <2>2. 0 \in Slot /\ \A j \in 1..Backups : j \in Slot
    BY LogAssumption DEF Slot
  <2>3. names'[0] # 0 => files'[names'[0]].state = "log"
    BY <1>4, <1>5, <2>2 DEF Objects, NamesOK
  <2>4. \A j \in 1..Backups : names'[j] # 0 => files'[names'[j]].state # "log"
    BY <1>4, <1>5, <2>2 DEF Objects, NamesOK, BackupsAreArchives
  <2> QED
    BY <2>1, <2>3, <2>4 DEF Objects, NamesOK, BackupsAreArchives
<1> QED
  BY <1>1, <1>2, <1>3, <1>4, <1>6

\* The process of a step, when the files that were logs stay logs.
LEMMA ProcMoves ==
    ASSUME Objects, NEW p \in writers, NEW x \in Handler,
           writers' = writers, proc' = [proc EXCEPT ![p] = x],
           Len(files') >= Len(files), files' \in Seq(File)',
           \A f \in DOMAIN files :
              (files[f].state = "log") <=> (files'[f].state = "log"),
           x.stream \in 0..Len(files'),
           x.pc = "write" => x.stream # 0,
           x.stream # 0 => files'[x.stream].state = "log",
           x.pc = "rename" => x.slot # 0,
           x.pc = "copy" => /\ x.source \in DOMAIN files' /\ x.dest \in DOMAIN files'
                            /\ files'[x.dest].state # "log"
    PROVE  Shape' /\ StreamsOK'
<1>1. proc \in [writers -> Handler] /\ files \in Seq(File) /\ writers # {}
  BY DEF Objects, Shape
<1>2. /\ proc' \in [writers' -> Handler] /\ proc'[p] = x
      /\ \A q \in writers : q # p => proc'[q] = proc[q]
  BY <1>1
<1>3. /\ Len(files) \in Nat /\ Len(files') \in Nat
      /\ DOMAIN files = 1..Len(files) /\ DOMAIN files' = 1..Len(files')
  BY <1>1
<1>4. Shape'
  BY <1>1, <1>2 DEF Shape, Handler
<1>5. ASSUME NEW q \in writers', q # p
      PROVE  /\ proc'[q].stream \in 0..Len(files')
             /\ proc'[q].pc = "write" => proc'[q].stream # 0
             /\ proc'[q].stream # 0 => files'[proc'[q].stream].state = "log"
             /\ proc'[q].pc = "rename" => proc'[q].slot # 0
             /\ proc'[q].pc = "copy" => /\ proc'[q].source \in DOMAIN files'
                                        /\ proc'[q].dest \in DOMAIN files'
                                        /\ files'[proc'[q].dest].state # "log"
  <2>1. proc'[q] = proc[q] /\ q \in writers
    BY <1>2, <1>5
  <2>2. proc[q].stream \in 0..Len(files)
    BY <2>1 DEF Objects, StreamsOK
  <2>3. proc[q].stream # 0 => files'[proc[q].stream].state = "log"
    BY <1>3, <2>1, <2>2 DEF Objects, StreamsOK
  <2> QED
    BY <1>3, <2>1, <2>2, <2>3 DEF Objects, StreamsOK, RotatesFiles
<1>6. StreamsOK'
  BY <1>2, <1>5 DEF StreamsOK, RotatesFiles
<1> QED
  BY <1>4, <1>6

LEMMA OpenObjects ==
    ASSUME Objects, NEW p \in writers, Open(p)
    PROVE  Objects'
<1> DEFINE x == [proc[p] EXCEPT !.stream = names'[0],
                                !.pc = IF @ = "idle" THEN "idle" ELSE "write"]
<1>1. writers' = writers /\ proc[p] \in Handler /\ proc \in [writers -> Handler]
  BY DEF Open, Rest, Objects, Shape
<1>2. proc' = [proc EXCEPT ![p] = x]
  BY <1>1 DEF Open, Handler
<1>3. Len(files) \in Nat /\ DOMAIN files = 1..Len(files) /\ files \in Seq(File)
  BY FilesType DEF Objects, Shape
<1>4. /\ files' \in Seq(File)' /\ Len(files') >= Len(files) /\ NamesOK'
      /\ \A f \in DOMAIN files : (files[f].state = "log") <=> (files'[f].state = "log")
      /\ names'[0] \in 1..Len(files') /\ files'[names'[0]].state = "log"
  <2>1. CASE names[0] # 0
    <3>1. files' = files /\ names' = names /\ 0 \in Slot
      BY <2>1, LogAssumption DEF Open, Slot
    <3>2. names[0] \in 0..Len(files)
      BY <3>1 DEF Objects, NamesOK
    <3> QED
      BY <1>1, <1>3, <2>1, <3>1, <3>2
         DEF Objects, Shape, NamesOK, BackupsAreArchives, File
  <2>2. CASE names[0] = 0
    <3>1. /\ files' = Append(files, [lines |-> <<>>, state |-> "log"])
          /\ names' = [names EXCEPT ![0] = Len(files')]
      BY <2>2 DEF Open
    <3> QED
      BY <1>1, <1>3, <2>2, <3>1, Created
  <2> QED
    BY <2>1, <2>2
<1>5. x \in Handler /\ x.stream = names'[0] /\ x.pc \in {"idle", "write"}
  <2>1. names'[0] \in Nat
    BY <1>4
  <2> QED
    BY <1>1, <2>1 DEF Handler, Steps
<1> HIDE DEF x
<1>6. Shape' /\ StreamsOK'
  <2>1. x.stream \in 0..Len(files') /\ (x.stream # 0 => files'[x.stream].state = "log")
    BY <1>4, <1>5
  <2>2. x.pc # "rename" /\ x.pc # "copy" /\ x.stream # 0
    BY <1>4, <1>5
  <2> QED
    BY <1>1, <1>2, <1>4, <1>5, <2>1, <2>2, ProcMoves
<1> QED
  BY <1>1, <1>4, <1>6 DEF Objects

LEMMA OpenBothObjects ==
    ASSUME Objects, NEW p \in writers, OpenBoth(p)
    PROVE  /\ Objects'
           /\ \A f \in DOMAIN files : f # names[1] => f \in DOMAIN files' /\ files'[f] = files[f]
           /\ \A f \in DOMAIN files' : f \notin DOMAIN files \/ f = names[1] => files'[f].lines = <<>>
<1> DEFINE x == [proc[p] EXCEPT !.pc = "copy", !.source = names[0], !.dest = names'[1]]
<1>1. writers' = writers /\ proc[p] \in Handler /\ proc \in [writers -> Handler]
  BY DEF OpenBoth, Rest, Objects, Shape
<1>2. proc' = [proc EXCEPT ![p] = x]
  BY <1>1 DEF OpenBoth, Handler
<1>3. Len(files) \in Nat /\ DOMAIN files = 1..Len(files) /\ files \in Seq(File)
  BY FilesType DEF Objects, Shape
<1>4. 0 \in Slot /\ 1 \in Slot /\ 1 \in 1..Backups /\ p \notin {"log", "gz", "torn"}
  BY LogAssumption DEF Slot, Objects
<1>5. /\ files' \in Seq(File)' /\ Len(files') >= Len(files) /\ NamesOK'
      /\ \A f \in DOMAIN files : (files[f].state = "log") <=> (files'[f].state = "log")
      /\ names'[1] \in 1..Len(files') /\ names[0] \in 1..Len(files)
      /\ files'[names'[1]].state # "log"
      /\ \A f \in DOMAIN files : f # names[1] => f \in DOMAIN files' /\ files'[f] = files[f]
      /\ \A f \in DOMAIN files' : f \notin DOMAIN files \/ f = names[1] => files'[f].lines = <<>>
  <2>1. names[0] \in 1..Len(files) /\ names[1] \in 0..Len(files)
    BY <1>4 DEF OpenBoth, Objects, NamesOK
  <2>2. CASE names[1] = 0
    <3>1. /\ files' = Append(files, [lines |-> <<>>, state |-> p])
          /\ names' = [names EXCEPT ![1] = Len(files')]
      BY <2>2 DEF OpenBoth
    <3>2. /\ files' \in Seq(File)' /\ Len(files') = Len(files) + 1 /\ NamesOK'
          /\ \A f \in DOMAIN files : f \in DOMAIN files' /\ files'[f] = files[f]
          /\ names'[1] = Len(files') /\ files'[names'[1]].lines = <<>>
          /\ files'[names'[1]].state = p
      <4>1. p \in {"log"} \cup writers /\ 1 \in {0, 1} /\ ((1 = 0) <=> (p = "log"))
        BY <1>4
      <4> QED
        BY <1>1, <2>2, <3>1, <4>1, Created
    <3>3. DOMAIN files' = 1..Len(files')
      BY <3>2
    <3> QED
      BY <1>3, <1>4, <2>1, <2>2, <3>2, <3>3
  <2>3. CASE names[1] # 0
    <3> DEFINE f == names[1]
               e == [lines |-> <<>>, state |-> IF files[f].state = "gz" THEN p ELSE "torn"]
    <3>1. f \in DOMAIN files /\ files[f].state # "log"
      BY <1>3, <1>4, <2>1, <2>3 DEF Objects, NamesOK, BackupsAreArchives
    <3>2. e \in File /\ e.state # "log" /\ e.lines = <<>>
      BY <1>4 DEF File
    <3>3. files' = [files EXCEPT ![f] = e] /\ names' = names
      BY <1>3, <2>3, <3>1 DEF OpenBoth
    <3> HIDE DEF e, f
    <3>4. /\ files' \in Seq(File)' /\ Len(files') = Len(files) /\ DOMAIN files' = DOMAIN files
          /\ files'[f] = e /\ \A g \in DOMAIN files : g # f => files'[g] = files[g]
          /\ \A g \in DOMAIN files : (files'[g].state = "log") <=> (files[g].state = "log")
          /\ NamesOK'
      BY <1>1, <3>1, <3>2, <3>3, Rewritten
    <3> QED
      BY <1>3, <2>1, <2>3, <3>2, <3>3, <3>4 DEF f
  <2> QED
    BY <2>2, <2>3
<1>6. /\ x \in Handler /\ x.stream = proc[p].stream /\ x.pc = "copy"
      /\ x.source = names[0] /\ x.dest = names'[1]
  <2>1. names'[1] \in Nat /\ names[0] \in Nat
    BY <1>5
  <2> QED
    BY <1>1, <2>1 DEF Handler, Steps
<1>7. /\ proc[p].stream \in 0..Len(files)
      /\ proc[p].stream # 0 => files'[proc[p].stream].state = "log"
  BY <1>3, <1>5 DEF Objects, StreamsOK
<1>8. /\ proc[p].stream \in 0..Len(files') /\ names[0] \in DOMAIN files'
      /\ names'[1] \in DOMAIN files'
  BY <1>3, <1>5, <1>7
<1> HIDE DEF x
<1>9. Shape' /\ StreamsOK'
  BY <1>1, <1>2, <1>5, <1>6, <1>7, <1>8, ProcMoves
<1> QED
  BY <1>1, <1>5, <1>9 DEF Objects

LEMMA CopyObjects ==
    ASSUME Objects, NEW p \in writers, Copy(p)
    PROVE  /\ Objects' /\ DOMAIN files' = DOMAIN files
           /\ \A f \in DOMAIN files : f # proc[p].dest => files'[f] = files[f]
           /\ proc[p].source \in DOMAIN files /\ proc[p].dest \in DOMAIN files
           /\ files[proc[p].dest].state # "log"
           /\ files'[proc[p].dest].lines
                 \in {files[proc[p].dest].lines, files[proc[p].source].lines}
<1> DEFINE x == [proc[p] EXCEPT !.pc = "unlink"]
           f == proc[p].dest
           e == IF files[f].state # p THEN [files[f] EXCEPT !.state = "torn"]
                ELSE [lines |-> files[proc[p].source].lines, state |-> "gz"]
<1>1. writers' = writers /\ proc[p] \in Handler /\ proc \in [writers -> Handler] /\ names' = names
  BY DEF Copy, Rest, Objects, Shape
<1>2. proc' = [proc EXCEPT ![p] = x]
  BY <1>1 DEF Copy, Handler
<1>3. Len(files) \in Nat /\ DOMAIN files = 1..Len(files) /\ files \in Seq(File)
  BY FilesType DEF Objects, Shape
<1>4. /\ proc[p].source \in DOMAIN files /\ f \in DOMAIN files
      /\ files[f].state # "log"
  BY DEF Copy, Objects, StreamsOK, RotatesFiles
<1>5. /\ e \in File /\ e.state # "log"
      /\ e.lines \in {files[f].lines, files[proc[p].source].lines}
  <2>1. files[f] \in File /\ files[proc[p].source].lines \in Seq(Nat)
    BY <1>4, FilesType DEF Objects
  <2>2. CASE files[f].state # p
    <3>1. e = [lines |-> files[f].lines, state |-> "torn"]
      BY <2>1, <2>2 DEF File
    <3>2. files[f].lines \in Seq(Nat)
      BY <2>1 DEF File
    <3> HIDE DEF e
    <3> QED
      BY <3>1, <3>2 DEF File
  <2>3. CASE files[f].state = p
    <3>1. e = [lines |-> files[proc[p].source].lines, state |-> "gz"]
      BY <2>3
    <3> HIDE DEF e
    <3> QED
      BY <2>1, <3>1 DEF File
  <2> QED
    BY <2>2, <2>3
<1>6. files' = [files EXCEPT ![f] = e]
  BY <1>3, <1>4 DEF Copy
<1> HIDE DEF e
<1>7. /\ files' \in Seq(File)' /\ Len(files') = Len(files) /\ DOMAIN files' = DOMAIN files
      /\ files'[f] = e /\ \A g \in DOMAIN files : g # f => files'[g] = files[g]
      /\ \A g \in DOMAIN files : (files'[g].state = "log") <=> (files[g].state = "log")
      /\ NamesOK'
  BY <1>1, <1>4, <1>5, <1>6, Rewritten
<1>8. x \in Handler /\ x.stream = proc[p].stream /\ x.pc = "unlink"
  BY <1>1 DEF Handler, Steps
<1>9. /\ proc[p].stream \in 0..Len(files')
      /\ proc[p].stream # 0 => files'[proc[p].stream].state = "log"
  BY <1>3, <1>7 DEF Objects, StreamsOK
<1> HIDE DEF x
<1>10. Shape' /\ StreamsOK'
  <2>1. \A g \in DOMAIN files : (files[g].state = "log") <=> (files'[g].state = "log")
    BY <1>7
  <2>2. x.pc # "write" /\ x.pc # "rename" /\ x.pc # "copy" /\ Len(files') >= Len(files)
    BY <1>3, <1>7, <1>8
  <2> HIDE DEF f
  <2> QED
    BY <1>1, <1>2, <1>7, <1>8, <1>9, <2>1, <2>2, ProcMoves
<1> QED
  BY <1>1, <1>4, <1>5, <1>7, <1>10 DEF Objects

LEMMA WriteObjects ==
    ASSUME Objects, NEW p \in writers, Write(p), logged \in Nat
    PROVE  /\ Objects' /\ DOMAIN files' = DOMAIN files
           /\ \A f \in DOMAIN files : f # proc[p].stream => files'[f] = files[f]
           /\ proc[p].stream \in DOMAIN files
           /\ files'[proc[p].stream].lines = Append(files[proc[p].stream].lines, logged + 1)
<1> DEFINE x == [proc[p] EXCEPT !.pc = "idle"]
           f == proc[p].stream
           e == [files[f] EXCEPT !.lines = Append(files[f].lines, logged + 1)]
<1>1. writers' = writers /\ proc[p] \in Handler /\ proc \in [writers -> Handler] /\ names' = names
  BY DEF Write, Objects, Shape
<1>2. proc' = [proc EXCEPT ![p] = x]
  BY <1>1 DEF Write, Handler
<1>3. Len(files) \in Nat /\ DOMAIN files = 1..Len(files) /\ files \in Seq(File)
  BY FilesType DEF Objects, Shape
<1>4. f \in DOMAIN files /\ files[f].lines \in Seq(Nat) /\ files[f] \in File
  BY <1>3, FilesType DEF Write, Objects, StreamsOK
<1>5. /\ e \in File /\ e.state = files[f].state
      /\ e.lines = Append(files[f].lines, logged + 1)
  <2>1. Append(files[f].lines, logged + 1) \in Seq(Nat)
    BY <1>4
  <2> QED
    BY <1>4, <2>1 DEF File
<1>6. files' = [files EXCEPT ![f] = e]
  BY <1>3, <1>4 DEF Write, File
<1> HIDE DEF e
<1>7. /\ files' \in Seq(File)' /\ Len(files') = Len(files) /\ DOMAIN files' = DOMAIN files
      /\ files'[f] = e /\ \A g \in DOMAIN files : g # f => files'[g] = files[g]
      /\ \A g \in DOMAIN files : (files'[g].state = "log") <=> (files[g].state = "log")
      /\ NamesOK'
  BY <1>1, <1>4, <1>5, <1>6, Rewritten
<1>8. x \in Handler /\ x.stream = proc[p].stream /\ x.pc = "idle"
  BY <1>1 DEF Handler, Steps
<1>9. /\ proc[p].stream \in 0..Len(files')
      /\ proc[p].stream # 0 => files'[proc[p].stream].state = "log"
  BY <1>3, <1>7 DEF Objects, StreamsOK
<1> HIDE DEF x
<1>10. Shape' /\ StreamsOK'
  <2>1. \A g \in DOMAIN files : (files[g].state = "log") <=> (files'[g].state = "log")
    BY <1>7
  <2>2. x.pc # "write" /\ x.pc # "rename" /\ x.pc # "copy" /\ Len(files') >= Len(files)
    BY <1>3, <1>7, <1>8
  <2> HIDE DEF f
  <2> QED
    BY <1>1, <1>2, <1>7, <1>8, <1>9, <2>1, <2>2, ProcMoves
<1> QED
  BY <1>1, <1>4, <1>5, <1>7, <1>10 DEF Objects

\* What a process does.
Act(p) ==
    \/ Open(p) \/ LookAtSize(p) \/ Rotate(p) \/ Write(p)
    \/ EmitFails(p) \/ Restart(p)

LEMMA ObjectsStep ==
    ASSUME IInv, NEW p \in writers, Act(p)
    PROVE  Objects'
<1>1. Objects /\ logged \in Nat
  BY IInvObjects, WritersFinite, LogAssumption DEF IInv, TypeOK
<1> QED
  BY <1>1, SameFiles, OpenObjects, OpenBothObjects, CopyObjects, WriteObjects
     DEF Act, Rotate

LEMMA OthersStay ==
    ASSUME Objects, NEW p \in writers, Act(p)
    PROVE  /\ writers' = writers
           /\ \A q \in writers : q # p => proc'[q] = proc[q]
<1>1. writers' = writers
  BY DEF Act, Rotate, Open, LookAtSize, EmptySlot, RenameBackup, OpenBoth, Copy, Unlink,
         Write, EmitFails, Restart, Rest
<1>2. proc \in [writers -> Handler]
  BY DEF Objects, Shape
<1>3. ASSUME NEW q \in writers, q # p
      PROVE  proc'[q] = proc[q]
  BY <1>2, <1>3
     DEF Act, Rotate, Open, LookAtSize, EmptySlot, RenameBackup, OpenBoth, Copy, Unlink,
         Write, EmitFails, Restart
<1> QED
  BY <1>1, <1>3

-----------------------------------------------------------------------------
(* The lines that are on their way.                                        *)

LEMMA Smaller ==
    ASSUME IsFiniteSet(writers), NEW B, B \subseteq writers, NEW A, A \subseteq B
    PROVE  /\ Cardinality(A) \in Nat /\ Cardinality(B) \in Nat
           /\ Cardinality(A) <= Cardinality(B) /\ Cardinality(B) <= Cardinality(writers)
           /\ \A p \in B : p \notin A => Cardinality(A) + 1 <= Cardinality(B)
<1>1. IsFiniteSet(B) /\ IsFiniteSet(A)
  BY FS_Subset
<1>2. /\ Cardinality(A) \in Nat /\ Cardinality(B) \in Nat
      /\ Cardinality(A) <= Cardinality(B) /\ Cardinality(B) <= Cardinality(writers)
  BY <1>1, FS_Subset, FS_CardinalityType
<1>3. ASSUME NEW p \in B, p \notin A
      PROVE  Cardinality(A) + 1 <= Cardinality(B)
  <2>1. Cardinality(A \cup {p}) = Cardinality(A) + 1
    BY <1>1, <1>3, FS_AddElement
  <2>2. A \cup {p} \subseteq B
    BY <1>3
  <2>3. Cardinality(A \cup {p}) <= Cardinality(B)
    BY <1>1, <2>2, FS_Subset
  <2> QED
    BY <2>1, <2>3
<1> QED
  BY <1>2, <1>3

LEMMA CountersStep ==
    ASSUME IInv, NEW p \in writers, Act(p)
    PROVE  /\ CountsLines'
           /\ logged' \in 0..MaxLines + Cardinality(writers) /\ faults' \in 0..MaxFaults
<1>1. /\ Objects /\ writers' = writers /\ IsFiniteSet(writers)
      /\ Cardinality(writers) \in Nat \ {0}
      /\ \A q \in writers : q # p => proc'[q] = proc[q]
  BY IInvObjects, OthersStay, WritersFinite DEF IInv
<1>2. /\ Busy \subseteq writers /\ Busy' \subseteq writers
      /\ Cardinality(Busy) \in Nat /\ Cardinality(Busy') \in Nat
      /\ Cardinality(Busy') <= Cardinality(writers)
  <2>1. Busy \subseteq writers /\ Busy' \subseteq writers
    BY <1>1 DEF Busy
  <2> QED
    BY <1>1, <2>1, Smaller
<1>3. logged \in Nat /\ MaxLines \in Nat /\ proc \in [writers -> Handler]
  BY <1>1, LogAssumption DEF IInv, TypeOK, Objects, Shape
<1>4. logged' + Cardinality(Busy') <= MaxLines + Cardinality(writers) /\ logged' \in Nat
  <2>1. CASE LookAtSize(p)
    <3>1. logged' = logged /\ logged < MaxLines
      BY <2>1 DEF LookAtSize, Rest
    <3> QED
      BY <1>1, <1>2, <1>3, <3>1
  <2>2. CASE Write(p)
    <3>1. logged' = logged + 1
      BY <2>2 DEF Write
    <3>2. p \in Busy /\ p \notin Busy' /\ Busy' \subseteq Busy
      BY <1>1, <1>3, <2>2 DEF Write, Busy
    <3>3. Cardinality(Busy') + 1 <= Cardinality(Busy)
      BY <1>1, <1>2, <3>2, Smaller
    <3> QED
      BY <1>1, <1>2, <1>3, <3>1, <3>3 DEF IInv, CountsLines
  <2>3. CASE Open(p) \/ Rotate(p) \/ EmitFails(p) \/ Restart(p)
    <3>1. logged' = logged
      BY <2>3 DEF Open, Rotate, EmptySlot, RenameBackup, OpenBoth, Copy, Unlink, EmitFails,
                  Restart, Rest
    <3>2. proc'[p].pc # "idle" => proc[p].pc # "idle"
      BY <1>3, <2>3 DEF Open, Rotate, EmptySlot, RenameBackup, OpenBoth, Copy, Unlink,
                        EmitFails, Restart, Handler, Idle
    <3>3. Busy' \subseteq Busy
      BY <1>1, <3>2 DEF Busy
    <3>4. Cardinality(Busy') <= Cardinality(Busy)
      BY <1>1, <1>2, <3>3, Smaller
    <3> QED
      BY <1>1, <1>2, <1>3, <3>1, <3>4 DEF IInv, CountsLines
  <2> QED
    BY <2>1, <2>2, <2>3 DEF Act
<1>5. faults' \in 0..MaxFaults
  <2>1. faults' = faults \/ Fault
    BY DEF Act, Rotate, Open, LookAtSize, EmptySlot, RenameBackup, OpenBoth, Copy, Unlink,
           Write, EmitFails, Restart, Rest
  <2>2. faults \in 0..MaxFaults /\ MaxFaults \in Nat
    BY LogAssumption DEF IInv, TypeOK
  <2>3. CASE Fault
    <3> DEFINE q == MaxFaults \div Cardinality(writers)
    <3>1. q \in Nat /\ q <= MaxFaults
      BY <1>1, <2>2, Quotient
    <3>2. faults < q /\ faults' = faults + 1
      BY <2>3 DEF Fault
    <3> HIDE DEF q
    <3> QED
      BY <2>2, <3>1, <3>2
  <2> QED
    BY <2>1, <2>2, <2>3
<1>6. logged' \in 0..MaxLines + Cardinality(writers)
  BY <1>1, <1>2, <1>3, <1>4
<1> QED
  BY <1>1, <1>4, <1>5, <1>6 DEF CountsLines

\* A file that does not grow and that nobody else comes to write into stays in bounds.
LEMMA RoomStays ==
    ASSUME IInv, writers' = writers, NEW f \in DOMAIN files,
           Pending(f)' \subseteq Pending(f),
           Len(files'[f].lines) \in Nat, Len(files'[f].lines) <= Len(files[f].lines)
    PROVE  Len(files'[f].lines) + Cardinality(Pending(f)') <= Size + Cardinality(writers) - 1
<1>1. IsFiniteSet(writers) /\ Cardinality(writers) \in Nat
  BY WritersFinite DEF IInv
<1>2. Pending(f) \subseteq writers
  BY DEF Pending
<1>3. /\ Cardinality(Pending(f)') \in Nat /\ Cardinality(Pending(f)) \in Nat
      /\ Cardinality(Pending(f)') <= Cardinality(Pending(f))
  BY <1>1, <1>2, Smaller
<1>4. Len(files[f].lines) \in Nat
  BY FilesType DEF IInv
<1>5. Len(files[f].lines) + Cardinality(Pending(f)) <= Size + Cardinality(writers) - 1
  BY DEF IInv, RoomForAll
<1> QED
  BY <1>1, <1>3, <1>4, <1>5, LogAssumption

\* A file that is empty is.
LEMMA RoomOfEmpty ==
    ASSUME TypeOK, Shape, writers' = writers, NEW f
    PROVE  0 + Cardinality(Pending(f)') <= Size + Cardinality(writers) - 1
<1>1. IsFiniteSet(writers) /\ Cardinality(writers) \in Nat
  BY WritersFinite
<1>2. Pending(f)' \subseteq writers
  BY DEF Pending
<1>3. Cardinality(Pending(f)') \in Nat /\ Cardinality(Pending(f)') <= Cardinality(writers)
  BY <1>1, <1>2, Smaller
<1> QED
  BY <1>1, <1>3, LogAssumption

LEMMA RoomStep ==
    ASSUME IInv, NEW p \in writers, Act(p), NEW f \in DOMAIN files'
    PROVE  Len(files'[f].lines) + Cardinality(Pending(f)') <= Size + Cardinality(writers) - 1
<1>1. /\ Objects /\ writers' = writers /\ TypeOK /\ Shape
      /\ \A q \in writers : q # p => proc'[q] = proc[q]
      /\ Size \in Nat \ {0} /\ logged \in Nat
  BY IInvObjects, OthersStay, WritersFinite, LogAssumption DEF IInv, TypeOK
<1>2. IsFiniteSet(writers) /\ Cardinality(writers) \in Nat \ {0}
  BY <1>1, WritersFinite
<1>3. /\ proc \in [writers -> Handler] /\ 0 \in Slot /\ names \in [Slot -> 0..Len(files)]
      /\ Len(files) \in Nat /\ DOMAIN files = 1..Len(files)
      /\ \A g \in DOMAIN files : Len(files[g].lines) \in Nat
  BY <1>1, FilesType, LogAssumption DEF Objects, Shape, NamesOK, Slot
<1>4. CASE LookAtSize(p)
  <2>1. files' = files /\ names' = names
    BY <1>4 DEF LookAtSize
  <2>2. CASE Fits(proc[p].stream) /\ proc[p].stream = f
    <3>1. Len(files[f].lines) < Size
      BY <2>2 DEF Fits
    <3>2. 0 + Cardinality(Pending(f)') <= Cardinality(writers)
          /\ Cardinality(Pending(f)') \in Nat
      <4>1. Pending(f)' \subseteq writers
        BY <1>1 DEF Pending
      <4> QED
        BY <1>2, <4>1, Smaller
    <3> QED
      BY <1>1, <1>2, <1>3, <2>1, <3>1, <3>2
  <2>3. CASE ~(Fits(proc[p].stream) /\ proc[p].stream = f)
    <3>1. ~(proc'[p].pc = "write" /\ proc'[p].stream = f) /\ proc'[p].pc # "reopen"
      BY <1>3, <1>4, <2>3 DEF LookAtSize, Handler, Idle
    <3>2. Pending(f)' \subseteq Pending(f)
      BY <1>1, <2>1, <3>1 DEF Pending
    <3> QED
      BY <1>1, <1>3, <2>1, <3>2, RoomStays
  <2> QED
    BY <2>2, <2>3
<1>5. CASE Open(p)
  <2>1. /\ proc'[p].pc \in {"idle", "write"} /\ proc'[p].stream = names'[0]
        /\ proc'[p].pc = "write" => proc[p].pc = "reopen"
    BY <1>3, <1>5 DEF Open, Handler
  <2>2. CASE names[0] # 0
    <3>1. files' = files /\ names' = names
      BY <1>5, <2>2 DEF Open
    <3>2. Pending(f)' \subseteq Pending(f)
      BY <1>1, <2>1, <3>1 DEF Pending
    <3> QED
      BY <1>1, <1>3, <3>1, <3>2, RoomStays
  <2>3. CASE names[0] = 0
    <3>1. /\ files' = Append(files, [lines |-> <<>>, state |-> "log"])
          /\ names' = [names EXCEPT ![0] = Len(files')]
      BY <1>5, <2>3 DEF Open
    <3>2. /\ files' \in Seq(File)' /\ Len(files') = Len(files) + 1
          /\ \A g \in DOMAIN files : g \in DOMAIN files' /\ files'[g] = files[g]
          /\ names'[0] = Len(files') /\ files'[names'[0]].lines = <<>>
      BY <1>1, <2>3, <3>1, Created
    <3>3. CASE f \in DOMAIN files
      <4>1. f # names'[0] /\ files'[f] = files[f]
        BY <1>3, <3>2, <3>3
      <4>2. Pending(f)' \subseteq Pending(f)
        BY <1>1, <2>1, <4>1 DEF Pending
      <4> QED
        BY <1>1, <1>3, <3>3, <4>1, <4>2, RoomStays
    <3>4. CASE f \notin DOMAIN files
      <4>1. DOMAIN files' = 1..Len(files')
        BY <3>2
      <4>2. f = names'[0] /\ Len(files'[f].lines) = 0
        BY <1>3, <3>2, <3>4, <4>1
      <4> QED
        BY <1>1, <4>2, RoomOfEmpty
    <3> QED
      BY <3>3, <3>4
  <2> QED
    BY <2>2, <2>3
<1>6. CASE EmptySlot(p) \/ RenameBackup(p) \/ Unlink(p) \/ EmitFails(p) \/ Restart(p)
  <2>1. files' = files
    BY <1>6 DEF EmptySlot, RenameBackup, Unlink, EmitFails, Restart
  <2>2. names'[0] \in {names[0], 0}
    <3>1. CASE EmptySlot(p)
      <4>1. proc[p].slot \in 0..Backups - 1
        BY <1>3 DEF Handler
      <4>2. proc[p].slot + 1 # 0
        BY <4>1, LogAssumption
      <4> QED
        BY <1>3, <3>1, <4>2 DEF EmptySlot
    <3>2. CASE RenameBackup(p)
      <4>1. proc[p].slot \in 0..Backups - 1
        BY <1>3 DEF Handler
      <4>2. proc[p].slot + 1 # 0
        BY <4>1, LogAssumption
      <4> QED
        BY <1>3, <3>2, <4>2 DEF RenameBackup
    <3> QED
      BY <1>3, <1>6, <3>1, <3>2 DEF Unlink, EmitFails, Restart
  <2>3. proc'[p].pc # "write" /\ (proc'[p].pc = "reopen" => names'[0] = 0)
    BY <1>3, <1>6 DEF EmptySlot, RenameBackup, Unlink, EmitFails, Restart, Handler, Idle
  <2>4. f # 0
    BY <1>3, <2>1
  <2>5. Pending(f)' \subseteq Pending(f)
    BY <1>1, <2>2, <2>3, <2>4 DEF Pending
  <2> QED
    BY <1>1, <1>3, <2>1, <2>5, RoomStays
<1>7. CASE OpenBoth(p)
  <2>1. names'[0] = names[0] /\ proc'[p].pc = "copy"
    BY <1>3, <1>7 DEF OpenBoth, Handler
  <2>2. CASE f \in DOMAIN files /\ f # names[1]
    <3>1. files'[f] = files[f]
      BY <1>1, <1>7, <2>2, OpenBothObjects
    <3>2. Pending(f)' \subseteq Pending(f)
      BY <1>1, <2>1 DEF Pending
    <3> QED
      BY <1>1, <1>3, <2>2, <3>1, <3>2, RoomStays
  <2>3. CASE ~(f \in DOMAIN files /\ f # names[1])
    <3>1. files'[f].lines = <<>>
      BY <1>1, <1>7, <2>3, OpenBothObjects
    <3>2. Len(files'[f].lines) = 0
      BY <3>1
    <3> QED
      BY <1>1, <3>2, RoomOfEmpty
  <2> QED
    BY <2>2, <2>3
<1>8. CASE Copy(p)
  <2> DEFINE d == proc[p].dest
             src == proc[p].source
  <2>1. names' = names /\ proc'[p].pc = "unlink"
    BY <1>3, <1>8 DEF Copy, Handler
  <2>2. Pending(f)' \subseteq Pending(f)
    BY <1>1, <2>1 DEF Pending
  <2>3. /\ DOMAIN files' = DOMAIN files /\ src \in DOMAIN files /\ d \in DOMAIN files
        /\ files[d].state # "log"
        /\ f # d => files'[f] = files[f]
        /\ files'[d].lines \in {files[d].lines, files[src].lines}
    BY <1>1, <1>8, CopyObjects
  <2>4. CASE f # d \/ files'[d].lines = files[d].lines
    BY <1>1, <1>3, <2>2, <2>3, <2>4, RoomStays
  <2>5. CASE f = d /\ files'[d].lines = files[src].lines
    <3>1. Pending(d) = {}
      BY <1>1, <2>3, <1>3 DEF Pending, Objects, NamesOK, StreamsOK
    <3>2. Cardinality(Pending(f)') = 0
      BY <2>2, <2>5, <3>1, FS_EmptySet
    <3>3. /\ Len(files[src].lines) + Cardinality(Pending(src)) <= Size + Cardinality(writers) - 1
          /\ Cardinality(Pending(src)) \in Nat
      <4>1. Pending(src) \subseteq writers
        BY DEF Pending
      <4> QED
        BY <1>2, <2>3, <4>1, Smaller DEF IInv, RoomForAll
    <3> HIDE DEF src, d
    <3> QED
      BY <1>1, <1>2, <1>3, <2>3, <2>5, <3>2, <3>3
  <2> QED
    BY <2>3, <2>4, <2>5
<1>9. CASE Write(p)
  <2>1. names' = names /\ proc'[p].pc = "idle" /\ proc[p].pc = "write"
    BY <1>3, <1>9 DEF Write, Handler
  <2>2. Pending(f)' \subseteq Pending(f)
    BY <1>1, <2>1 DEF Pending
  <2>3. /\ DOMAIN files' = DOMAIN files /\ proc[p].stream \in DOMAIN files
        /\ f # proc[p].stream => files'[f] = files[f]
        /\ files'[proc[p].stream].lines = Append(files[proc[p].stream].lines, logged + 1)
    BY <1>1, <1>9, WriteObjects
  <2>4. CASE f # proc[p].stream
    BY <1>1, <1>3, <2>2, <2>3, <2>4, RoomStays
  <2>5. CASE f = proc[p].stream
    <3>1. p \in Pending(f) /\ p \notin Pending(f)'
      BY <2>1, <2>5 DEF Pending
    <3>2. Pending(f) \subseteq writers
      BY DEF Pending
    <3>3. /\ Cardinality(Pending(f)') + 1 <= Cardinality(Pending(f))
          /\ Cardinality(Pending(f)') \in Nat /\ Cardinality(Pending(f)) \in Nat
      BY <1>2, <2>2, <3>1, <3>2, Smaller
    <3>4. Len(files'[f].lines) = Len(files[f].lines) + 1
      <4>1. files[f].lines \in Seq(Nat)
        BY <1>1, <2>3, FilesType
      <4> QED
        BY <2>3, <2>5, <4>1
    <3>5. Len(files[f].lines) + Cardinality(Pending(f)) <= Size + Cardinality(writers) - 1
      BY <2>3 DEF IInv, RoomForAll
    <3> QED
      BY <1>1, <1>2, <1>3, <2>3, <3>3, <3>4, <3>5
  <2> QED
    BY <2>4, <2>5
<1> QED
  BY <1>4, <1>5, <1>6, <1>7, <1>8, <1>9 DEF Act, Rotate

-----------------------------------------------------------------------------
(* The theorems.                                                           *)

LEMMA Start == Init => IInv
<1> SUFFICES ASSUME Init
             PROVE  IInv
  OBVIOUS
<1>1. Len(files) = 0 /\ DOMAIN files = {} /\ files \in Seq(File) /\ 0 \in Slot
  BY LogAssumption DEF Init, Slot
<1>2. Shape
  BY <1>1, IdleHandler DEF Init, Shape
<1>3. IsFiniteSet(writers) /\ Cardinality(writers) \in Nat \ {0}
  <2>1. IsFiniteSet(writers) /\ writers # {}
    BY LogAssumption, FS_Subset DEF Init
  <2> QED
    BY <2>1, FS_CardinalityType, FS_EmptySet
<1>4. TypeOK
  BY <1>1, <1>3, LogAssumption DEF Init, TypeOK, Idle
<1>5. Busy = {}
  BY DEF Busy, Init, Idle
<1>6. CountsLines
  BY <1>3, <1>5, FS_EmptySet, LogAssumption DEF CountsLines, Init
<1>7. BackupsAreArchives /\ RotatesFiles /\ RoomForAll
  BY <1>1 DEF Init, BackupsAreArchives, RotatesFiles, RoomForAll, Idle, Slot
<1> QED
  BY <1>2, <1>4, <1>6, <1>7 DEF IInv

LEMMA Step == IInv /\ [Next]_vars => IInv'
<1> SUFFICES ASSUME IInv, [Next]_vars
             PROVE  IInv'
  OBVIOUS
<1>1. ASSUME NEW p \in writers, Act(p)
      PROVE  IInv'
  <2>1. Objects' /\ writers' = writers
    BY <1>1, ObjectsStep, OthersStay, IInvObjects
  <2>2. /\ CountsLines'
        /\ logged' \in 0..MaxLines + Cardinality(writers) /\ faults' \in 0..MaxFaults
    BY <1>1, CountersStep
  <2>3. RoomForAll'
    BY <1>1, <2>1, RoomStep DEF RoomForAll
  <2>4. TypeOK'
    <3>1. \A f \in DOMAIN files' : files'[f].state \in {"log", "gz", "torn"} \cup writers'
      <4> TAKE f \in DOMAIN files'
      <4>1. files'[f] \in File'
        BY <2>1 DEF Objects, Shape
      <4> QED
        BY <4>1 DEF File
    <3>2. \A q \in writers' : /\ proc'[q].pc \in Steps /\ proc'[q].slot \in 0..Backups - 1
      <4> TAKE q \in writers'
      <4>1. proc'[q] \in Handler
        BY <2>1 DEF Objects, Shape, Handler
      <4> QED
        BY <4>1 DEF Handler
    <3> QED
      BY <2>1, <2>2, <3>1, <3>2 DEF Objects, NamesOK, StreamsOK, TypeOK, Steps
  <2> QED
    BY <2>1, <2>2, <2>3, <2>4 DEF IInv, Objects, NamesOK, StreamsOK
<1>2. CASE UNCHANGED vars
  BY <1>2 DEF vars, IInv, TypeOK, Shape, File, Handler, BackupsAreArchives, RotatesFiles,
     RoomForAll, Pending, CountsLines, Busy
<1> QED
  BY <1>1, <1>2 DEF Next, Act

\* The invariant that the others follow from: archives and logs are kept apart by their
\* names, and each file has room for the lines that are on their way into it.
THEOREM Invariance == Spec => []IInv
BY Start, Step, PTL DEF Spec

\* Rotations of several processes never name one file twice, never write a record into
\* an archive, and never rename the log as if it were a backup.
THEOREM TypeCorrect == Spec => []TypeOK
<1>1. IInv => TypeOK
  BY DEF IInv
<1> QED
  BY <1>1, Invariance, PTL

LEMMA RoomBounds == IInv => SizeBounded
<1>1. ASSUME IInv, NEW f \in DOMAIN files
      PROVE  Len(files[f].lines) <= Size + Cardinality(writers) - 1
  <2>1. IsFiniteSet(writers) /\ Cardinality(writers) \in Nat
    BY <1>1, WritersFinite DEF IInv
  <2>2. Pending(f) \subseteq writers
    BY DEF Pending
  <2>3. Cardinality(Pending(f)) \in Nat
    BY <2>1, <2>2, Smaller
  <2>4. Len(files[f].lines) + Cardinality(Pending(f)) <= Size + Cardinality(writers) - 1
    BY <1>1 DEF IInv, RoomForAll
  <2> QED
    BY <1>1, <2>1, <2>3, <2>4, FilesType, LogAssumption DEF IInv
<1> QED
  BY <1>1 DEF SizeBounded

\* RotatingFileHandler keeps every file within its size and a line for each of the other
\* processes, however many processes log into the directory.
THEOREM FilesStaySmall == Spec => []SizeBounded
BY RoomBounds, Invariance, PTL

-----------------------------------------------------------------------------
(* Lines without a gap.  c is what is read under the names of the          *)
(* directory, n the latest line.                                           *)

Has(s, x) == \E i \in DOMAIN s : s[i] = x

Somewhere(c, x) == \E k \in Slot : Has(c[k], x)

Top(s) == s[Len(s)]

Consecutive(s) == \A i \in DOMAIN s : s[i] = s[1] + i - 1

Older(s, t) == s # <<>> /\ t # <<>> => s[1] <= t[1] /\ Top(s) <= Top(t)

\* Each file holds lines in a row, the files are in order, and of a line that is found
\* all the later ones are found as well.
Whole(c, n) ==
    /\ \A k \in Slot : Consecutive(c[k])
    /\ \A k \in Slot : \A i \in DOMAIN c[k] : c[k][i] \in 1..n
    /\ \A j, k \in Slot : j < k => Older(c[k], c[j])
    /\ \A x \in 1..n : Somewhere(c, x) => x = n \/ Somewhere(c, x + 1)
    /\ n > 0 => Somewhere(c, n)

Runs == [Slot -> Seq(Nat)]

\* Lines in a row are an interval.
LEMMA InARow ==
    ASSUME NEW s \in Seq(Nat), Consecutive(s), s # <<>>
    PROVE  /\ s[1] \in Nat /\ Top(s) \in Nat /\ Len(s) \in Nat \ {0}
           /\ 1 \in DOMAIN s /\ Len(s) \in DOMAIN s
           /\ Top(s) = s[1] + Len(s) - 1
           /\ \A x \in Int : Has(s, x) <=> s[1] <= x /\ x <= Top(s)
<1>1. Len(s) \in Nat \ {0} /\ DOMAIN s = 1..Len(s)
  BY EmptySeq
<1>2. 1 \in DOMAIN s /\ Len(s) \in DOMAIN s
  BY <1>1
<1>3. s[1] \in Nat /\ Top(s) \in Nat
  BY <1>2 DEF Top
<1>4. Top(s) = s[1] + Len(s) - 1
  BY <1>2 DEF Consecutive, Top
<1>5. ASSUME NEW x \in Int, Has(s, x)
      PROVE  s[1] <= x /\ x <= Top(s)
  <2>1. PICK i \in 1..Len(s) : x = s[1] + i - 1
    BY <1>1, <1>5 DEF Has, Consecutive
  <2> QED
    BY <1>1, <1>3, <1>4, <2>1
<1>6. ASSUME NEW x \in Int, s[1] <= x, x <= Top(s)
      PROVE  Has(s, x)
  <2> DEFINE i == x - s[1] + 1
  <2>1. i \in 1..Len(s) /\ s[1] + i - 1 = x
    BY <1>1, <1>3, <1>4, <1>6
  <2> HIDE DEF i
  <2>2. s[i] = x
    BY <1>1, <2>1 DEF Consecutive
  <2> QED
    BY <1>1, <2>1, <2>2 DEF Has
<1> QED
  BY <1>1, <1>2, <1>3, <1>4, <1>5, <1>6

\* The log, unless it is empty, ends with the latest line.
LEMMA LogIsLatest ==
    ASSUME NEW c \in Runs, NEW n \in Nat, Whole(c, n), c[0] # <<>>
    PROVE  Top(c[0]) = n /\ n > 0
<1>1. 0 \in Slot /\ \A k \in Slot : k # 0 => 0 < k
  BY LogAssumption DEF Slot
<1>2. \A k \in Slot : c[k] \in Seq(Nat) /\ Consecutive(c[k])
  BY DEF Runs, Whole
<1>3. Top(c[0]) \in 1..n
  BY <1>1, <1>2, InARow DEF Whole, Top
<1>4. PICK j \in Slot : Has(c[j], n)
  BY <1>3 DEF Whole, Somewhere
<1>5. c[j] # <<>>
  BY <1>4 DEF Has
<1>6. n <= Top(c[j]) /\ Top(c[j]) \in Nat
  BY <1>2, <1>4, <1>5, InARow
<1>7. Top(c[j]) <= Top(c[0])
  BY <1>1, <1>2, <1>5, <1>6, InARow DEF Whole, Older
<1> QED
  BY <1>3, <1>6, <1>7

\* Files may be moved, copied and removed, as long as their order and all lines stay.
LEMMA WholeMoved ==
    ASSUME NEW c \in Runs, NEW n \in Nat, Whole(c, n),
           NEW d \in Runs, NEW r \in [Slot -> Slot],
           \A k \in Slot : d[k] # <<>> => d[k] = c[r[k]],
           \A j, k \in Slot : j < k /\ d[j] # <<>> /\ d[k] # <<>> => r[j] <= r[k],
           \A k \in Slot : c[k] # <<>> => \E j \in Slot : d[j] = c[k]
    PROVE  Whole(d, n)
<1>1. \A k \in Slot : c[k] \in Seq(Nat) /\ Consecutive(c[k])
  BY DEF Runs, Whole
<1>2. ASSUME NEW k \in Slot
      PROVE  Consecutive(d[k]) /\ \A i \in DOMAIN d[k] : d[k][i] \in 1..n
  <2>1. CASE d[k] = <<>>
    BY <2>1 DEF Consecutive
  <2>2. CASE d[k] # <<>>
    BY <2>2 DEF Whole
  <2> QED
    BY <2>1, <2>2
<1>3. ASSUME NEW j \in Slot, NEW k \in Slot, j < k, d[j] # <<>>, d[k] # <<>>
      PROVE  d[k][1] <= d[j][1] /\ Top(d[k]) <= Top(d[j])
  <2>1. d[j] = c[r[j]] /\ d[k] = c[r[k]] /\ r[j] \in Slot /\ r[k] \in Slot /\ r[j] <= r[k]
    BY <1>3
  <2>2. CASE r[j] = r[k]
    BY <1>1, <1>3, <2>1, <2>2, InARow
  <2>3. CASE r[j] < r[k]
    BY <1>3, <2>1, <2>3 DEF Whole, Older
  <2> QED
    BY <2>1, <2>2, <2>3 DEF Slot
<1>4. \A x : Somewhere(c, x) <=> Somewhere(d, x)
  <2> TAKE x
  <2>1. ASSUME NEW k \in Slot, Has(c[k], x)
        PROVE  Somewhere(d, x)
    <3>1. c[k] # <<>>
      BY <2>1 DEF Has
    <3> QED
      BY <2>1, <3>1 DEF Somewhere
  <2>2. ASSUME NEW k \in Slot, Has(d[k], x)
        PROVE  Somewhere(c, x)
    <3>1. d[k] # <<>>
      BY <2>2 DEF Has
    <3> QED
      BY <2>2, <3>1 DEF Somewhere
  <2> QED
    BY <2>1, <2>2 DEF Somewhere
<1> QED
  BY <1>2, <1>3, <1>4 DEF Whole, Older

\* The oldest file may be removed when there is a log.
LEMMA WholeWithoutOldest ==
    ASSUME NEW c \in Runs, NEW n \in Nat, Whole(c, n), c[0] # <<>>
    PROVE  Whole([c EXCEPT ![Backups] = <<>>], n)
<1> DEFINE d == [c EXCEPT ![Backups] = <<>>]
<1>1. 0 \in Slot /\ Backups \in Slot /\ \A k \in Slot : k # Backups => k < Backups
  BY LogAssumption DEF Slot
<1>2. \A k \in Slot : c[k] \in Seq(Nat) /\ Consecutive(c[k])
  BY DEF Runs, Whole
<1>3. d[Backups] = <<>> /\ \A k \in Slot : k # Backups => d[k] = c[k]
  BY <1>1 DEF Runs
<1> HIDE DEF d
<1>4. Has(d[0], n) /\ d[0] = c[0]
  <2>1. 0 # Backups
    BY LogAssumption
  <2>2. 1 <= Len(c[0]) /\ Len(c[0]) \in DOMAIN c[0] /\ Top(c[0]) = n
    BY <1>1, <1>2, InARow, LogIsLatest
  <2> QED
    BY <1>1, <1>3, <2>1, <2>2 DEF Has, Top
<1>5. ASSUME NEW x \in 1..n, Somewhere(d, x), x # n
      PROVE  Somewhere(d, x + 1)
  <2>1. PICK k \in Slot : Has(d[k], x)
    BY <1>5 DEF Somewhere
  <2>2. k # Backups /\ d[k] = c[k] /\ c[k] # <<>> /\ Has(c[k], x)
    BY <1>3, <2>1 DEF Has
  <2>3. PICK j \in Slot : Has(c[j], x + 1)
    BY <1>5, <2>2 DEF Whole, Somewhere
  <2>4. CASE j = Backups
    <3>1. c[j] # <<>> /\ k < j
      BY <1>1, <2>2, <2>3, <2>4 DEF Has
    <3>2. c[k][1] <= x /\ x + 1 <= Top(c[j])
      BY <1>2, <2>2, <2>3, <3>1, InARow
    <3>3. Top(c[j]) <= Top(c[k])
      BY <2>2, <3>1 DEF Whole, Older
    <3>4. /\ c[k][1] \in Nat /\ Top(c[k]) \in Nat /\ Top(c[j]) \in Nat
          /\ \A y \in Int : c[k][1] <= y /\ y <= Top(c[k]) => Has(c[k], y)
      BY <1>2, <2>2, <3>1, InARow
    <3>5. Has(c[k], x + 1)
      BY <3>2, <3>3, <3>4
    <3> QED
      BY <2>2, <3>5 DEF Somewhere
  <2>5. CASE j # Backups
    BY <1>3, <2>3, <2>5 DEF Somewhere
  <2> QED
    BY <2>4, <2>5
<1>6. \A k \in Slot : Consecutive(d[k]) /\ \A i \in DOMAIN d[k] : d[k][i] \in 1..n
  <2> TAKE k \in Slot
  <2>1. CASE k = Backups
    BY <1>3, <2>1 DEF Consecutive
  <2>2. CASE k # Backups
    BY <1>3, <2>2 DEF Whole
  <2> QED
    BY <2>1, <2>2
<1>7. \A j, k \in Slot : j < k => Older(d[k], d[j])
  BY <1>3 DEF Whole, Older
<1>8. Whole(d, n)
  BY <1>1, <1>4, <1>5, <1>6, <1>7 DEF Whole, Somewhere
<1> QED
  BY <1>8 DEF d

\* A line is written to the log.
LEMMA WholeWritten ==
    ASSUME NEW c \in Runs, NEW n \in Nat, Whole(c, n)
    PROVE  Whole([c EXCEPT ![0] = Append(c[0], n + 1)], n + 1)
<1> DEFINE d == [c EXCEPT ![0] = Append(c[0], n + 1)]
           s == c[0]
           t == Append(s, n + 1)
<1>1. 0 \in Slot /\ \A k \in Slot : k # 0 => 0 < k /\ ~(k < 0)
  BY LogAssumption DEF Slot
<1>2. \A k \in Slot : c[k] \in Seq(Nat) /\ Consecutive(c[k])
  BY DEF Runs, Whole
<1>3. d[0] = t /\ \A k \in Slot : k # 0 => d[k] = c[k]
  BY <1>1 DEF Runs
<1>4. s \in Seq(Nat) /\ Consecutive(s) /\ s = c[0]
  BY <1>1, <1>2
<1> HIDE DEF d, s
<1>5. /\ t \in Seq(Nat) /\ Len(t) = Len(s) + 1 /\ t[Len(s) + 1] = n + 1
      /\ Len(s) \in Nat /\ DOMAIN s = 1..Len(s) /\ DOMAIN t = 1..Len(s) + 1
      /\ \A i \in 1..Len(s) : t[i] = s[i]
  BY <1>4, AppendProperties
<1>6. s # <<>> => s[1] \in Nat /\ n = s[1] + Len(s) - 1 /\ Len(s) > 0 /\ s[1] <= n
  <2> SUFFICES ASSUME s # <<>>
               PROVE  s[1] \in Nat /\ n = s[1] + Len(s) - 1 /\ Len(s) > 0 /\ s[1] <= n
    OBVIOUS
  <2>1. Top(s) = n
    BY <1>4, LogIsLatest
  <2>2. s[1] \in Nat /\ Top(s) = s[1] + Len(s) - 1 /\ Len(s) \in Nat \ {0}
    BY <1>4, InARow
  <2> QED
    BY <2>1, <2>2
<1>7. s = <<>> => Len(s) = 0
  OBVIOUS
<1> HIDE DEF t
<1>8. Consecutive(t) /\ \A i \in DOMAIN t : t[i] \in 1..n + 1
  <2>1. CASE s = <<>>
    <3>1. DOMAIN t = {1} /\ t[1] = n + 1
      BY <1>5, <1>7, <2>1
    <3> QED
      BY <3>1 DEF Consecutive
  <2>2. CASE s # <<>>
    <3>1. t[1] = s[1]
      BY <1>5, <1>6, <2>2
    <3>2. \A i \in 1..Len(s) : t[i] = t[1] + i - 1 /\ t[i] \in 1..n
      <4>1. \A i \in 1..Len(s) : s[i] \in 1..n
        BY <1>1, <1>4, <1>5 DEF Whole
      <4> QED
        BY <1>4, <1>5, <3>1, <4>1 DEF Consecutive
    <3>3. t[Len(s) + 1] = t[1] + (Len(s) + 1) - 1
      BY <1>5, <1>6, <2>2, <3>1
    <3>4. \A i \in DOMAIN t : i \in 1..Len(s) \/ i = Len(s) + 1
      BY <1>5
    <3> QED
      BY <1>5, <3>2, <3>3, <3>4 DEF Consecutive
  <2> QED
    BY <2>1, <2>2
<1>9. Top(t) = n + 1
  BY <1>5 DEF Top
<1>10. ASSUME NEW j \in Slot, NEW k \in Slot, j < k
       PROVE  Older(d[k], d[j])
  <2>1. k # 0 /\ d[k] = c[k] /\ (j # 0 => d[j] = c[j])
    BY <1>1, <1>3, <1>10
  <2>2. CASE j # 0
    BY <1>10, <2>1, <2>2 DEF Whole
  <2>3. CASE j = 0
    <3> SUFFICES ASSUME c[k] # <<>>
                 PROVE  c[k][1] <= t[1] /\ Top(c[k]) <= Top(t)
      BY <1>3, <2>1, <2>3 DEF Older
    <3>1. Top(c[k]) \in 1..n /\ c[k][1] \in 1..n
      BY <1>2, InARow DEF Whole, Top
    <3>2. CASE s = <<>>
      <4>1. t[1] = n + 1
        BY <1>5, <1>7, <3>2
      <4> QED
        BY <1>9, <3>1, <4>1
    <3>3. CASE s # <<>>
      <4>1. c[k][1] <= s[1]
        BY <1>1, <1>4, <2>1, <3>3 DEF Whole, Older
      <4>2. t[1] = s[1]
        BY <1>5, <1>6, <3>3
      <4> QED
        BY <1>9, <3>1, <4>1, <4>2
    <3> QED
      BY <3>2, <3>3
  <2> QED
    BY <2>2, <2>3
<1>11. \A x : Somewhere(c, x) => Somewhere(d, x)
  <2> TAKE x
  <2> HAVE Somewhere(c, x)
  <2>1. PICK k \in Slot : Has(c[k], x)
    BY DEF Somewhere
  <2>2. CASE k = 0
    <3>1. PICK i \in 1..Len(s) : s[i] = x
      BY <1>4, <1>5, <2>1, <2>2 DEF Has
    <3>2. i \in DOMAIN t /\ t[i] = x
      BY <1>5, <3>1
    <3> QED
      BY <1>1, <1>3, <3>2 DEF Has, Somewhere
  <2>3. CASE k # 0
    BY <1>3, <2>1, <2>3 DEF Somewhere
  <2> QED
    BY <2>2, <2>3
<1>12. Somewhere(d, n + 1)
  <2>1. Len(s) + 1 \in DOMAIN t
    BY <1>5
  <2> QED
    BY <1>1, <1>3, <1>5, <2>1 DEF Has, Somewhere
<1>13. ASSUME NEW x \in 1..n + 1, Somewhere(d, x), x # n + 1
       PROVE  Somewhere(d, x + 1)
  <2>1. x \in 1..n
    BY <1>13
  <2>2. Somewhere(c, x)
    <3>1. PICK k \in Slot : Has(d[k], x)
      BY <1>13 DEF Somewhere
    <3>2. CASE k # 0
      BY <1>3, <3>1, <3>2 DEF Somewhere
    <3>3. CASE k = 0
      <4>1. PICK i \in DOMAIN t : t[i] = x
        BY <1>3, <3>1, <3>3 DEF Has
      <4>2. i \in 1..Len(s)
        BY <1>5, <1>13, <4>1
      <4>3. s[i] = x /\ i \in DOMAIN s
        BY <1>5, <4>1, <4>2
      <4> QED
        BY <1>1, <1>4, <4>3 DEF Has, Somewhere
    <3> QED
      BY <3>2, <3>3
  <2>3. x = n \/ Somewhere(c, x + 1)
    BY <2>1, <2>2 DEF Whole
  <2> QED
    BY <1>11, <1>12, <2>3
<1>14. \A k \in Slot : Consecutive(d[k]) /\ \A i \in DOMAIN d[k] : d[k][i] \in 1..n + 1
  <2> TAKE k \in Slot
  <2>1. CASE k = 0
    BY <1>3, <1>8, <2>1
  <2>2. CASE k # 0
    <3>1. Consecutive(c[k]) /\ \A i \in DOMAIN c[k] : c[k][i] \in 1..n
      BY DEF Whole
    <3> QED
      BY <1>3, <2>2, <3>1
  <2> QED
    BY <2>1, <2>2
<1>15. Whole(d, n + 1)
  BY <1>10, <1>12, <1>13, <1>14 DEF Whole
<1> QED
  BY <1>15 DEF d, s

LEMMA LeastNatural ==
    ASSUME NEW T, T \subseteq Nat, T # {}
    PROVE  \E m \in T : \A k \in T : m <= k
<1> DEFINE R == OpToRel(<, Nat)
<1>1. IsWellFoundedOn(R, Nat)
  BY NatLessThanWellFounded
<1>2. \A k, m \in Nat : k < m => <<k, m>> \in R
  BY DEF OpToRel
<1> HIDE DEF R
<1>3. PICK m \in T : \A k \in T : ~(<<k, m>> \in R)
  BY <1>1, WFMin
<1>4. ASSUME NEW k \in T
      PROVE  m <= k
  <2>1. k \in Nat /\ m \in Nat /\ ~(k < m)
    BY <1>2, <1>3, <1>4
  <2> QED
    BY <2>1
<1> QED
  BY <1>3, <1>4

\* What is found of lines without a gap are the latest ones.
LEMMA WholeIsLatest ==
    ASSUME NEW c \in Runs, NEW n \in Nat \ {0}, Whole(c, n)
    PROVE  \E first \in 1..n : \A x : Somewhere(c, x) <=> x \in first..n
<1> DEFINE T == {x \in 1..n : Somewhere(c, x)}
<1>1. T \subseteq Nat /\ n \in T
  BY DEF Whole
<1>2. PICK first \in T : \A x \in T : first <= x
  BY <1>1, LeastNatural
<1>3. \A x : Somewhere(c, x) => x \in T
  BY DEF Somewhere, Has, Whole
<1>4. \A x \in T : x = n \/ x + 1 \in T
  <2> TAKE x \in T
  <2> SUFFICES ASSUME x # n
               PROVE  x + 1 \in T
    OBVIOUS
  <2>1. Somewhere(c, x + 1)
    BY DEF Whole
  <2> QED
    BY <2>1, <1>3
<1>5. ASSUME NEW y \in first..n, y \notin T
      PROVE  FALSE
  <2> DEFINE M == {x \in first..n : x \notin T}
  <2>1. M \subseteq Nat /\ M # {}
    BY <1>1, <1>2, <1>5
  <2>2. PICK x \in M : \A z \in M : x <= z
    BY <2>1, LeastNatural
  <2>3. x # first /\ x \in first..n /\ first \in Nat
    BY <1>1, <1>2, <2>2
  <2>4. x - 1 \in first..n /\ x - 1 \notin M
    BY <2>2, <2>3
  <2>5. x - 1 \in T /\ x - 1 # n /\ (x - 1) + 1 = x
    BY <2>3, <2>4
  <2> QED
    BY <1>4, <2>2, <2>5
<1>6. first \in 1..n
  BY <1>2
<1>7. \A x : Somewhere(c, x) <=> x \in first..n
  BY <1>2, <1>3, <1>5
<1> QED
  BY <1>6, <1>7

-----------------------------------------------------------------------------
(* Full backups.                                                           *)

\* s holds the Size lines that end i - 1 times Size lines before line a + 1, as far as
\* there have been so many.
IsBlock(s, i, a) ==
    IF i * Size <= a THEN Len(s) = Size /\ \A x \in 1..Size : s[x] = a - i * Size + x
    ELSE s = <<>>

\* The backups up to lo are where they belong, those from hi on one place further.
Blocks(c, n, lo, hi) ==
    LET a == n - Len(c[0]) IN
    /\ \E m \in Nat : a = m * Size
    /\ \A k \in 1..Backups : /\ k <= lo => IsBlock(c[k], k, a)
                             /\ k >= hi => IsBlock(c[k], k - 1, a)

LEMMA Times ==
    ASSUME NEW a \in Int, NEW b \in Nat
    PROVE  a * b \in Int /\ (a + 1) * b = a * b + b /\ (a - 1) * b = a * b - b
OBVIOUS

LEMMA TimesMonotonic ==
    ASSUME NEW a \in Int, NEW b \in Int, NEW d \in Nat, a <= b
    PROVE  a * d \in Int /\ b * d \in Int /\ a * d <= b * d
OBVIOUS

\* While a full log is rotated the other files keep as many lines as the backups have
\* room for, and they always do.
LEMMA OldestKept ==
    ASSUME NEW c \in Runs, NEW n \in Nat \ {0}, Whole(c, n),
           NEW lo \in 0..Backups, NEW hi \in Int, hi <= lo + 2, Blocks(c, n, lo, hi),
           lo = Backups \/ Len(c[0]) >= Size
    PROVE  \E k \in Slot : c[k] # <<>> /\ (c[k][1] <= 1 \/ c[k][1] <= n - Backups * Size + 1)
<1> DEFINE a == n - Len(c[0])
<1>1. /\ 0 \in Slot /\ 1..Backups \subseteq Slot /\ Backups \in Nat \ {0}
      /\ Size \in Nat \ {0} /\ Backups * Size \in Int
  BY LogAssumption, Times DEF Slot
<1>2. c[0] \in Seq(Nat) /\ Len(c[0]) \in Nat /\ Consecutive(c[0])
  BY <1>1 DEF Runs, Whole
<1>3. a \in Int
  BY <1>2
<1>4. PICK m \in Nat : a = m * Size
  BY DEF Blocks
<1>5. /\ \A k \in 1..Backups : k <= lo => IsBlock(c[k], k, a)
      /\ \A k \in 1..Backups : k >= hi => IsBlock(c[k], k - 1, a)
  BY DEF Blocks
<1>6. c[0] # <<>> => c[0][1] = a + 1
  <2> SUFFICES ASSUME c[0] # <<>>
               PROVE  c[0][1] = a + 1
    OBVIOUS
  <2>1. Top(c[0]) = n
    BY LogIsLatest
  <2> DEFINE l == Len(c[0])
             first == c[0][1]
  <2>2. Top(c[0]) = first + l - 1 /\ first \in Nat
    BY <1>2, InARow
  <2> HIDE DEF first
  <2>3. n = first + l - 1 /\ l \in Nat
    BY <1>2, <2>1, <2>2
  <2> HIDE DEF l
  <2>4. first = (n - l) + 1
    BY <2>2, <2>3
  <2> QED
    BY <2>4 DEF first, l
<1> HIDE DEF a
<1>7. c[0] = <<>> => a = n
  BY DEF a
<1>8. lo # Backups => a <= n - Size
  BY <1>1, <1>2 DEF a
\* A block that was logged is in one of the two places.
<1>9. ASSUME NEW i \in 1..Backups, i <= m, i # Backups \/ lo = Backups
      PROVE  \E k \in Slot : c[k] # <<>> /\ c[k][1] = a - i * Size + 1
  <2>1. i * Size <= a
    <3>1. i \in Int /\ m \in Int /\ Size \in Nat
      BY <1>1
    <3> QED
      BY <1>4, <1>9, <3>1, TimesMonotonic
  <2>2. \A s : IsBlock(s, i, a) => s # <<>> /\ s[1] = a - i * Size + 1
    <3> TAKE s
    <3> HAVE IsBlock(s, i, a)
    <3>1. Len(s) = Size /\ \A x \in 1..Size : s[x] = a - i * Size + x
      BY <2>1 DEF IsBlock
    <3> QED
      BY <1>1, <3>1
  <2>3. CASE i <= lo
    BY <1>1, <1>5, <2>2, <2>3
  <2>4. CASE ~(i <= lo)
    <3>1. i + 1 \in 1..Backups /\ i + 1 >= hi /\ (i + 1) - 1 = i
      BY <1>1, <1>9, <2>4
    <3>2. IsBlock(c[i + 1], i, a)
      BY <1>5, <3>1
    <3> QED
      BY <1>1, <2>2, <3>1, <3>2
  <2> QED
    BY <2>3, <2>4
<1>10. CASE m = 0
  <2>1. a = 0 /\ c[0] # <<>>
    BY <1>1, <1>4, <1>7, <1>10
  <2> QED
    BY <1>1, <1>6, <2>1
<1>11. CASE m # 0 /\ lo = Backups
  <2>1. CASE m <= Backups
    <3>1. PICK k \in Slot : c[k] # <<>> /\ c[k][1] = a - m * Size + 1
      BY <1>1, <1>9, <1>11, <2>1
    <3> QED
      BY <1>3, <1>4, <3>1
  <2>2. CASE ~(m <= Backups)
    <3>1. PICK k \in Slot : c[k] # <<>> /\ c[k][1] = a - Backups * Size + 1
      BY <1>1, <1>9, <1>11, <2>2
    <3>2. a <= n
      BY <1>2 DEF a
    <3> QED
      BY <1>1, <1>3, <3>1, <3>2
  <2> QED
    BY <2>1, <2>2
<1>12. CASE m # 0 /\ lo # Backups
  <2> DEFINE b == Backups - 1
  <2>1. b \in Nat /\ b * Size = Backups * Size - Size
    BY <1>1, Times
  <2>2. CASE m <= b
    <3>1. PICK k \in Slot : c[k] # <<>> /\ c[k][1] = a - m * Size + 1
      BY <1>1, <1>9, <1>12, <2>2
    <3> QED
      BY <1>3, <1>4, <3>1
  <2>3. CASE ~(m <= b) /\ b # 0
    <3>1. PICK k \in Slot : c[k] # <<>> /\ c[k][1] = a - b * Size + 1
      BY <1>1, <1>9, <1>12, <2>3
    <3> HIDE DEF b
    <3> QED
      BY <1>1, <1>3, <1>8, <1>12, <2>1, <3>1
  <2>4. CASE b = 0
    <3>1. c[0] # <<>> /\ c[0][1] <= n - Size + 1
      <4>1. Len(c[0]) # 0
        BY <1>1, <1>2, <1>12
      <4> QED
        BY <1>1, <1>3, <1>6, <1>8, <1>12, <4>1
    <3>2. Backups * Size = Size
      BY <1>1, <2>1, <2>4
    <3> QED
      BY <1>1, <3>1, <3>2
  <2> QED
    BY <2>2, <2>3, <2>4
<1> QED
  BY <1>10, <1>11, <1>12

\* A place in the middle of the backups is found empty, and left for the next.
LEMMA BlocksSkipped ==
    ASSUME NEW c \in Runs, NEW n \in Nat, NEW k \in 1..Backups - 1, c[k] = <<>>,
           \/ Blocks(c, n, k, k + 2) /\ c[k + 1] = <<>>
           \/ Blocks(c, n, Backups, Backups + 1) /\ k = Backups - 1
    PROVE  Blocks(c, n, k - 1, k + 1)
<1> DEFINE a == n - Len(c[0])
<1>1. k \in 1..Backups /\ k + 1 \in 1..Backups /\ Backups \in Nat /\ Size \in Nat \ {0}
      /\ 0 \in Slot
  BY LogAssumption DEF Slot
<1>2. a \in Int /\ k * Size \in Int /\ (k + 1) * Size = k * Size + Size
  <2>1. Len(c[0]) \in Nat
    BY <1>1 DEF Runs
  <2> QED
    BY <1>1, <2>1, Times
<1>3. IsBlock(c[k], k, a)
  <2>1. k <= k /\ k <= Backups
    BY <1>1
  <2>2. CASE Blocks(c, n, k, k + 2)
    BY <1>1, <2>1, <2>2 DEF Blocks
  <2>3. CASE Blocks(c, n, Backups, Backups + 1)
    BY <1>1, <2>1, <2>3 DEF Blocks
  <2> QED
    BY <2>2, <2>3
<1>4. ~(k * Size <= a)
  BY <1>1, <1>3 DEF IsBlock
<1>5. c[k + 1] = <<>>
  <2>1. CASE Blocks(c, n, Backups, Backups + 1) /\ k = Backups - 1
    <3>1. IsBlock(c[k + 1], k + 1, a)
      BY <1>1, <2>1 DEF Blocks
    <3>2. ~((k + 1) * Size <= a)
      <4> HIDE DEF a
      <4> QED
        BY <1>1, <1>2, <1>4
    <3> QED
      BY <3>1, <3>2 DEF IsBlock
  <2> QED
    BY <2>1
<1>6. IsBlock(c[k + 1], (k + 1) - 1, a)
  <2>1. (k + 1) - 1 = k
    BY <1>1
  <2> QED
    BY <1>4, <1>5, <2>1 DEF IsBlock
<1>7. \E m \in Nat : a = m * Size
  BY DEF Blocks
<1>8. ASSUME NEW j \in 1..Backups
      PROVE  (j <= k - 1 => IsBlock(c[j], j, a)) /\ (j >= k + 1 => IsBlock(c[j], j - 1, a))
  <2>1. j <= k - 1 => j <= k /\ j <= Backups
    BY <1>1
  <2>2. j >= k + 1 => j = k + 1 \/ (j >= k + 2 /\ k # Backups - 1)
    BY <1>1
  <2> QED
    BY <1>6, <2>1, <2>2 DEF Blocks
<1> QED
  BY <1>7, <1>8 DEF Blocks

\* A backup is renamed.
LEMMA BlocksRenamed ==
    ASSUME NEW c \in Runs, NEW n \in Nat, NEW k \in 1..Backups - 1, Blocks(c, n, k, k + 2)
    PROVE  Blocks([c EXCEPT ![k + 1] = c[k], ![k] = <<>>], n, k - 1, k + 1)
<1> DEFINE a == n - Len(c[0])
           d == [c EXCEPT ![k + 1] = c[k], ![k] = <<>>]
<1>1. k \in Slot /\ k + 1 \in Slot /\ k + 1 # k /\ 0 \in Slot /\ k # 0 /\ k + 1 # 0
      /\ (k + 1) - 1 = k /\ 1..Backups \subseteq Slot /\ k \in 1..Backups /\ Backups \in Nat
  BY LogAssumption DEF Slot
<1>2. d[k + 1] = c[k] /\ \A j \in Slot : j # k /\ j # k + 1 => d[j] = c[j]
  BY <1>1 DEF Runs
<1>3. d[0] = c[0]
  BY <1>1, <1>2
<1> HIDE DEF d
<1>4. \E m \in Nat : a = m * Size
  BY DEF Blocks
<1>5. ASSUME NEW j \in 1..Backups
      PROVE  (j <= k - 1 => IsBlock(d[j], j, a)) /\ (j >= k + 1 => IsBlock(d[j], j - 1, a))
  <2>1. j <= k - 1 => j <= k /\ d[j] = c[j]
    BY <1>1, <1>2
  <2>2. j >= k + 1 => j = k + 1 \/ (j >= k + 2 /\ d[j] = c[j])
    BY <1>1, <1>2
  <2>3. IsBlock(c[k], k, a)
    BY <1>1 DEF Blocks
  <2> QED
    BY <1>1, <1>2, <2>1, <2>2, <2>3 DEF Blocks
<1>6. Blocks(d, n, k - 1, k + 1)
  BY <1>3, <1>4, <1>5 DEF Blocks
<1> QED
  BY <1>6 DEF d

\* The oldest backup is removed.
LEMMA BlocksWithoutOldest ==
    ASSUME NEW c \in Runs, NEW n \in Nat, Blocks(c, n, Backups, Backups + 1)
    PROVE  Blocks([c EXCEPT ![Backups] = <<>>], n, Backups - 1, Backups + 1)
<1> DEFINE a == n - Len(c[0])
           d == [c EXCEPT ![Backups] = <<>>]
<1>1. 0 \in Slot /\ Backups # 0 /\ Backups \in Nat /\ 1..Backups \subseteq Slot
  BY LogAssumption DEF Slot
<1>2. \A j \in Slot : j # Backups => d[j] = c[j]
  BY <1>1 DEF Runs
<1>3. d[0] = c[0]
  BY <1>1, <1>2
<1> HIDE DEF d
<1>4. \E m \in Nat : a = m * Size
  BY DEF Blocks
<1>5. ASSUME NEW j \in 1..Backups
      PROVE  (j <= Backups - 1 => IsBlock(d[j], j, a)) /\ ~(j >= Backups + 1)
  <2>1. ~(j >= Backups + 1) /\ (j <= Backups - 1 => j # Backups /\ j <= Backups)
    BY <1>1
  <2> QED
    BY <1>1, <1>2, <2>1 DEF Blocks
<1>6. Blocks(d, n, Backups - 1, Backups + 1)
  BY <1>3, <1>4, <1>5 DEF Blocks
<1> QED
  BY <1>6 DEF d

\* A log that is full is copied into the first archive.
LEMMA BlocksCopied ==
    ASSUME NEW c \in Runs, NEW n \in Nat, Whole(c, n), Blocks(c, n, 0, 2), Len(c[0]) = Size
    PROVE  Blocks([c EXCEPT ![1] = c[0]], n, 0, 1)
<1> DEFINE a == n - Len(c[0])
           d == [c EXCEPT ![1] = c[0]]
<1>1. 0 \in Slot /\ 1 \in Slot /\ Size \in Nat \ {0} /\ 0 * Size = 0 /\ 1..Backups \subseteq Slot
  BY LogAssumption DEF Slot
<1>2. d[1] = c[0] /\ \A j \in Slot : j # 1 => d[j] = c[j]
  BY <1>1 DEF Runs
<1>3. d[0] = c[0]
  BY <1>1, <1>2
<1>4. PICK m \in Nat : a = m * Size
  BY DEF Blocks
<1>5. a \in Nat
  BY <1>1, <1>4, TimesMonotonic
<1>6. IsBlock(c[0], 0, a)
  <2>1. c[0] \in Seq(Nat) /\ Consecutive(c[0]) /\ c[0] # <<>> /\ DOMAIN c[0] = 1..Size
    BY <1>1 DEF Runs, Whole
  <2> DEFINE first == c[0][1]
  <2>2. Top(c[0]) = n /\ Top(c[0]) = first + Size - 1 /\ first \in Nat
    BY <2>1, InARow, LogIsLatest
  <2>3. \A x \in 1..Size : c[0][x] = first + x - 1
    BY <2>1 DEF Consecutive
  <2> HIDE DEF first
  <2>4. a = first - 1
    BY <1>1, <2>2
  <2> HIDE DEF a
  <2>5. \A x \in 1..Size : c[0][x] = a - 0 + x
    BY <1>1, <1>5, <2>2, <2>3, <2>4
  <2> QED
    BY <1>1, <1>5, <2>5 DEF IsBlock
<1> HIDE DEF d
<1>7. ASSUME NEW j \in 1..Backups
      PROVE  ~(j <= 0) /\ (j >= 1 => IsBlock(d[j], j - 1, a))
  <2>1. CASE j = 1
    BY <1>2, <1>6, <2>1
  <2>2. CASE j # 1
    <3>1. j >= 2
      BY <2>2
    <3> QED
      BY <1>1, <1>2, <2>2, <3>1 DEF Blocks
  <2> QED
    BY <2>1, <2>2
<1>8. Blocks(d, n, 0, 1)
  BY <1>3, <1>4, <1>7 DEF Blocks
<1> QED
  BY <1>8 DEF d

\* The log is removed, and what was one place further is where it belongs.
LEMMA BlocksUnlinked ==
    ASSUME NEW c \in Runs, NEW n \in Nat, Blocks(c, n, 0, 1), Len(c[0]) = Size
    PROVE  Blocks([c EXCEPT ![0] = <<>>], n, Backups, Backups + 1)
<1> DEFINE a == n - Len(c[0])
           d == [c EXCEPT ![0] = <<>>]
<1>1. 0 \in Slot /\ Size \in Nat \ {0} /\ 1..Backups \subseteq Slot /\ Backups \in Nat
  BY LogAssumption DEF Slot
<1>2. d[0] = <<>> /\ \A j \in Slot : j # 0 => d[j] = c[j]
  BY <1>1 DEF Runs
<1> HIDE DEF d
<1>3. n - Len(d[0]) = n /\ a + Size = n /\ a \in Int
  BY <1>1, <1>2
<1>4. PICK m \in Nat : a = m * Size
  BY DEF Blocks
<1>5. n = (m + 1) * Size
  BY <1>1, <1>3, <1>4, Times
<1>6. ASSUME NEW j \in 1..Backups
      PROVE  IsBlock(d[j], j, n) /\ ~(j >= Backups + 1)
  <2>1. IsBlock(c[j], j - 1, a) /\ d[j] = c[j]
    BY <1>1, <1>2 DEF Blocks
  <2>2. j * Size \in Int /\ (j - 1) * Size = j * Size - Size
    BY <1>1, Times
  <2>3. (j - 1) * Size <= a <=> j * Size <= n
    <3> HIDE DEF a
    <3> QED
      BY <1>1, <1>3, <2>2
  <2>4. \A x \in 1..Size : a - (j - 1) * Size + x = n - j * Size + x
    <3> HIDE DEF a
    <3> QED
      BY <1>1, <1>3, <2>2
  <2> QED
    BY <1>1, <2>1, <2>3, <2>4 DEF IsBlock
<1>7. Blocks(d, n, Backups, Backups + 1)
  <2>1. m + 1 \in Nat
    OBVIOUS
  <2> QED
    BY <1>3, <1>5, <1>6, <2>1 DEF Blocks
<1> QED
  BY <1>7 DEF d

\* A line is written.
LEMMA BlocksWritten ==
    ASSUME NEW c \in Runs, NEW n \in Nat, Blocks(c, n, Backups, Backups + 1)
    PROVE  Blocks([c EXCEPT ![0] = Append(c[0], n + 1)], n + 1, Backups, Backups + 1)
<1> DEFINE d == [c EXCEPT ![0] = Append(c[0], n + 1)]
<1>1. 0 \in Slot /\ 1..Backups \subseteq Slot
  BY LogAssumption DEF Slot
<1>2. d[0] = Append(c[0], n + 1) /\ \A j \in Slot : j # 0 => d[j] = c[j]
  BY <1>1 DEF Runs
<1> HIDE DEF d
<1>3. c[0] \in Seq(Nat) /\ Len(c[0]) \in Nat
  BY <1>1 DEF Runs
<1>4. Len(d[0]) = Len(c[0]) + 1
  BY <1>2, <1>3
<1>5. (n + 1) - Len(d[0]) = n - Len(c[0])
  BY <1>3, <1>4
<1>6. \A j \in 1..Backups : d[j] = c[j]
  BY <1>1, <1>2
<1>7. Blocks(d, n + 1, Backups, Backups + 1)
  BY <1>5, <1>6 DEF Blocks
<1> QED
  BY <1>7 DEF d

-----------------------------------------------------------------------------
(* One process alone.                                                      *)

Contents == [k \in Slot |-> Lines(k)]

\* What its rotation has done so far.
RotatesAlone(p) ==
    LET h == proc[p] IN
    /\ h.stream # 0 => h.stream = names[0]
    /\ h.pc \in {"shift", "rename", "gzip", "copy", "unlink"} =>
          names[0] # 0 /\ Len(files[names[0]].lines) >= Size /\ h.stream = 0
    /\ h.pc = "reopen" => names[0] = 0 /\ h.stream = 0
    /\ h.pc = "shift" => h.slot = Backups - 1 \/ names[h.slot + 1] = 0
    /\ h.pc = "rename" => names[h.slot] # 0 /\ names[h.slot + 1] = 0
    /\ h.pc = "gzip" => names[1] = 0
    /\ h.pc = "copy" => h.source = names[0] /\ h.dest = names[1] /\ files[h.dest].state = p
    /\ h.pc = "unlink" => Lines(1) = Lines(0)

\* The backups up to Lo have not been moved yet, those from Hi on have been.
Lo(h) ==
    IF h.pc = "rename" \/ (h.pc = "shift" /\ h.slot # Backups - 1) THEN h.slot
    ELSE IF h.pc \in {"gzip", "copy", "unlink"} THEN 0
    ELSE Backups

Hi(h) ==
    IF Lo(h) = Backups THEN Backups + 1
    ELSE IF h.pc = "unlink" THEN 1
    ELSE Lo(h) + 2

WholeOf(p) ==
    /\ RotatesAlone(p)
    /\ Whole(Contents, logged)
    /\ faults = 0 => Blocks(Contents, logged, Lo(proc[p]), Hi(proc[p]))

LEMMA LinesType ==
    ASSUME Objects
    PROVE  Contents \in Runs /\ \A k \in Slot : Contents[k] = Lines(k)
<1>1. ASSUME NEW k \in Slot
      PROVE  Lines(k) \in Seq(Nat)
  <2>1. names[k] # 0 => names[k] \in DOMAIN files
    BY FilesType DEF Objects, NamesOK
  <2> QED
    BY <2>1, FilesType DEF Lines, Objects
<1> QED
  BY <1>1 DEF Contents, Runs

\* What the steps of one process that is alone start from.
LEMMA Context ==
    ASSUME IInv, NEW p, writers = {p}
    PROVE  /\ Objects /\ p \in writers /\ logged \in Nat /\ faults \in Nat
           /\ proc \in [writers -> Handler] /\ proc[p] \in Handler
           /\ Contents \in Runs /\ \A k \in Slot : Contents[k] = Lines(k)
           /\ 0 \in Slot /\ 1 \in Slot /\ Backups \in Slot /\ 0 # Backups
           /\ names \in [Slot -> 0..Len(files)]
           /\ \A k \in Slot : names[k] # 0 => names[k] \in DOMAIN files
           /\ \A k \in Slot : names[k] = 0 => Lines(k) = <<>>
           /\ names[0] # 0 => Lines(0) = files[names[0]].lines
           /\ Len(Lines(0)) <= Size
<1>1. /\ Objects /\ p \in writers /\ logged \in Nat /\ faults \in Nat
  BY IInvObjects, WritersFinite, LogAssumption DEF IInv, TypeOK
<1>2. /\ 0 \in Slot /\ 1 \in Slot /\ Backups \in Slot /\ 0 # Backups
  BY LogAssumption DEF Slot
<1>3. proc \in [writers -> Handler] /\ proc[p] \in Handler
  BY <1>1 DEF Objects, Shape
<1>4. /\ names \in [Slot -> 0..Len(files)]
      /\ \A k \in Slot : names[k] # 0 => names[k] \in DOMAIN files
  BY <1>1, FilesType DEF Objects, NamesOK
<1>5. names[0] # 0 => Lines(0) = files[names[0]].lines
  BY <1>1 DEF Objects, NamesOK, Lines, Readable
<1>6. \A k \in Slot : names[k] = 0 => Lines(k) = <<>>
  BY DEF Lines
<1>7. Len(Lines(0)) <= Size
  <2>1. CASE names[0] = 0
    BY <1>2, <1>6, <2>1, LogAssumption
  <2>2. CASE names[0] # 0
    <3>1. Cardinality(writers) = 1
      BY FS_Singleton
    <3>2. Len(files[names[0]].lines) <= Size + 1 - 1
      BY <1>2, <1>4, <2>2, <3>1, RoomBounds DEF SizeBounded
    <3> QED
      BY <1>5, <2>2, <3>2, LogAssumption
  <2> QED
    BY <2>1, <2>2
<1> QED
  BY <1>1, <1>2, <1>3, <1>4, <1>5, <1>6, <1>7, LinesType

\* A name whose file is as it was.
LEMMA LinesStay ==
    ASSUME NEW k \in Slot, names'[k] = names[k],
           names[k] # 0 => files'[names[k]] = files[names[k]]
    PROVE  Lines(k)' = Lines(k)
BY DEF Lines, Readable

\* A step that does not change what is read.
LEMMA WholeStays ==
    ASSUME NEW p, WholeOf(p), RotatesAlone(p)', Contents' = Contents, logged' = logged,
           faults' = 0 => /\ faults = 0 /\ Lo(proc'[p]) = Lo(proc[p])
                          /\ Hi(proc'[p]) = Hi(proc[p])
    PROVE  WholeOf(p)'
BY DEF WholeOf

LEMMA OpenAlone ==
    ASSUME IInv, NEW p, writers = {p}, WholeOf(p), Open(p)
    PROVE  WholeOf(p)'
<1>1. /\ Objects /\ p \in writers /\ proc \in [writers -> Handler] /\ proc[p] \in Handler
      /\ 0 \in Slot /\ 1 \in Slot /\ names \in [Slot -> 0..Len(files)]
      /\ \A k \in Slot : names[k] # 0 => names[k] \in DOMAIN files
      /\ \A k \in Slot : names[k] = 0 => Lines(k) = <<>>
  BY Context
<1>2. /\ proc'[p].pc \in {"idle", "write"} /\ proc'[p].stream = names'[0]
      /\ proc[p].pc \in {"idle", "reopen"} /\ logged' = logged /\ faults' = faults
  BY <1>1 DEF Open, Handler, Rest
<1>3. \A k \in Slot : Lines(k)' = Lines(k)
  <2>1. CASE names[0] # 0
    BY <2>1, LinesStay DEF Open
  <2>2. CASE names[0] = 0
    <3>1. /\ files' = Append(files, [lines |-> <<>>, state |-> "log"])
          /\ names' = [names EXCEPT ![0] = Len(files')] /\ writers' = writers
      BY <2>2 DEF Open, Rest
    <3>2. /\ \A f \in DOMAIN files : files'[f] = files[f]
          /\ names'[0] = Len(files') /\ files'[names'[0]].state = "log"
          /\ files'[names'[0]].lines = <<>>
      BY <1>1, <2>2, <3>1, Created
    <3>3. Lines(0)' = <<>>
      BY <3>2 DEF Lines
    <3>4. ASSUME NEW k \in Slot, k # 0
          PROVE  Lines(k)' = Lines(k)
      <4>1. names'[k] = names[k]
        BY <1>1, <3>1, <3>4
      <4> QED
        BY <1>1, <3>2, <4>1, LinesStay
    <3> QED
      BY <1>1, <2>2, <3>3, <3>4
  <2> QED
    BY <2>1, <2>2
<1>4. Contents' = Contents
  BY <1>3 DEF Contents
<1>5. RotatesAlone(p)'
  BY <1>2 DEF RotatesAlone
<1>6. Lo(proc'[p]) = Lo(proc[p]) /\ Hi(proc'[p]) = Hi(proc[p])
  BY <1>2 DEF Lo, Hi
<1> QED
  BY <1>2, <1>4, <1>5, <1>6, WholeStays

LEMMA LookAtSizeAlone ==
    ASSUME IInv, NEW p, writers = {p}, WholeOf(p), LookAtSize(p)
    PROVE  WholeOf(p)'
<1>1. /\ Objects /\ p \in writers /\ proc \in [writers -> Handler] /\ proc[p] \in Handler
      /\ 0 \in Slot /\ names \in [Slot -> 0..Len(files)]
      /\ \A k \in Slot : names[k] # 0 => names[k] \in DOMAIN files
  BY Context
<1>2. /\ files' = files /\ names' = names /\ logged' = logged /\ faults' = faults
      /\ proc[p].pc = "idle" /\ proc[p].stream = names[0] /\ names[0] # 0
  BY DEF LookAtSize, Rest, WholeOf, RotatesAlone
<1>3. \/ proc'[p].pc = "write" /\ proc'[p].stream = names[0]
      \/ /\ proc'[p].pc = "shift" /\ proc'[p].slot = Backups - 1 /\ proc'[p].stream = 0
         /\ ~Fits(names[0])
  BY <1>1, <1>2 DEF LookAtSize, Handler, Idle
<1>4. Contents' = Contents
  BY <1>2 DEF Contents, Lines, Readable
<1>5. ~Fits(names[0]) => Len(files[names[0]].lines) >= Size
  BY <1>1, <1>2, FilesType, LogAssumption DEF Fits, Objects
<1>6. RotatesAlone(p)'
  BY <1>2, <1>3, <1>5 DEF RotatesAlone
<1>7. Lo(proc'[p]) = Lo(proc[p]) /\ Hi(proc'[p]) = Hi(proc[p])
  BY <1>2, <1>3 DEF Lo, Hi
<1> QED
  BY <1>2, <1>4, <1>6, <1>7, WholeStays

LEMMA StopAlone ==
    ASSUME IInv, NEW p, writers = {p}, WholeOf(p), EmitFails(p) \/ Restart(p)
    PROVE  WholeOf(p)'
<1>1. /\ Objects /\ p \in writers /\ proc \in [writers -> Handler] /\ proc[p] \in Handler
      /\ faults \in Nat /\ RotatesAlone(p)
  BY Context DEF WholeOf
<1>2. /\ files' = files /\ names' = names /\ logged' = logged
      /\ proc'[p].pc = "idle" /\ proc'[p].stream \in {proc[p].stream, 0}
  BY <1>1 DEF EmitFails, Restart, Idle
<1>3. Contents' = Contents
  BY <1>2 DEF Contents, Lines, Readable
<1>4. RotatesAlone(p)'
  BY <1>1, <1>2 DEF RotatesAlone
<1>5. ~Missing(p)
  BY <1>1 DEF Missing, RotatesAlone
<1>6. faults' = 0 => faults = 0 /\ proc[p].pc = "idle"
  BY <1>1, <1>5 DEF EmitFails, Restart, Fault
<1>7. faults' = 0 => Lo(proc'[p]) = Lo(proc[p]) /\ Hi(proc'[p]) = Hi(proc[p])
  BY <1>2, <1>6 DEF Lo, Hi
<1> QED
  BY <1>2, <1>3, <1>4, <1>6, <1>7, WholeStays DEF WholeOf

LEMMA EmptySlotAlone ==
    ASSUME IInv, NEW p, writers = {p}, WholeOf(p), EmptySlot(p)
    PROVE  WholeOf(p)'
<1> DEFINE k == proc[p].slot
           c == Contents
<1>1. /\ Objects /\ p \in writers /\ proc \in [writers -> Handler] /\ proc[p] \in Handler
      /\ 0 \in Slot /\ Backups \in Slot /\ 0 # Backups /\ names \in [Slot -> 0..Len(files)]
      /\ \A j \in Slot : names[j] = 0 => Lines(j) = <<>>
      /\ names[0] # 0 => Lines(0) = files[names[0]].lines
      /\ c \in Runs /\ (\A j \in Slot : c[j] = Lines(j)) /\ logged \in Nat
  BY Context
<1>2. /\ k \in 0..Backups - 1 /\ k \in Slot /\ k + 1 \in Slot /\ k + 1 \in 1..Backups
      /\ k + 1 # 0 /\ k # Backups /\ Backups \in Nat \ {0}
      /\ (k = Backups - 1 <=> k + 1 = Backups) /\ (k # 0 => k \in 1..Backups)
  <2>1. k \in 0..Backups - 1
    BY <1>1 DEF Handler
  <2> HIDE DEF k
  <2> QED
    BY <2>1, LogAssumption DEF Slot
<1>3. /\ files' = files /\ logged' = logged /\ faults' = faults
      /\ proc[p].pc = "shift" /\ proc[p].stream = 0
      /\ names[0] # 0 /\ Len(files[names[0]].lines) >= Size
      /\ k = Backups - 1 \/ names[k + 1] = 0
  BY DEF EmptySlot, Rest, WholeOf, RotatesAlone
<1>4. /\ Whole(c, logged) /\ (faults = 0 => Blocks(c, logged, Lo(proc[p]), Hi(proc[p])))
      /\ Lo(proc[p]) = IF k = Backups - 1 THEN Backups ELSE k
      /\ Hi(proc[p]) = IF k = Backups - 1 THEN Backups + 1 ELSE k + 2
  BY <1>2, <1>3 DEF WholeOf, Lo, Hi
<1>5. c[0] # <<>>
  BY <1>1, <1>3, LogAssumption
<1>6. CASE k = 0 \/ names[k] # 0
  <2>1. /\ names' = [names EXCEPT ![k + 1] = 0]
        /\ proc'[p].pc = (IF k = 0 THEN "gzip" ELSE "rename")
        /\ proc'[p].slot = k /\ proc'[p].stream = 0
    BY <1>1, <1>3, <1>6 DEF EmptySlot, Handler
  <2>2. names'[k + 1] = 0 /\ \A j \in Slot : j # k + 1 => names'[j] = names[j]
    BY <1>1, <1>2, <2>1
  <2>3. \A j \in Slot : j # k + 1 => Lines(j)' = Lines(j)
    BY <1>3, <2>2, LinesStay
  <2>4. \A j \in Slot : j = k + 1 => Lines(j)' = <<>>
    BY <2>2 DEF Lines
  <2>5. Contents' = [c EXCEPT ![k + 1] = <<>>]
    BY <1>1, <2>3, <2>4 DEF Contents
  <2>6. k # Backups - 1 => Contents' = c
    <3> SUFFICES ASSUME k # Backups - 1
                 PROVE  Contents' = c
      OBVIOUS
    <3>1. c[k + 1] = <<>>
      BY <1>1, <1>2, <1>3
    <3> QED
      BY <1>1, <2>5, <3>1 DEF Runs
  <2>7. k = Backups - 1 => Contents' = [c EXCEPT ![Backups] = <<>>]
    BY <1>2, <2>5
  <2>8. RotatesAlone(p)'
    BY <1>1, <1>2, <1>3, <1>6, <2>1, <2>2 DEF RotatesAlone
  <2>9. Whole(Contents', logged)
    BY <1>1, <1>4, <1>5, <2>6, <2>7, WholeWithoutOldest
  <2>10. Lo(proc'[p]) = k /\ Hi(proc'[p]) = k + 2
    BY <1>2, <2>1 DEF Lo, Hi
  <2>11. ASSUME faults = 0
         PROVE  Blocks(Contents', logged, k, k + 2)
    <3>1. CASE k = Backups - 1
      <4>1. Blocks([c EXCEPT ![Backups] = <<>>], logged, Backups - 1, Backups + 1)
        BY <1>1, <1>4, <2>11, <3>1, BlocksWithoutOldest
      <4>2. k + 2 = Backups + 1
        BY <1>2, <3>1
      <4> QED
        BY <2>7, <3>1, <4>1, <4>2
    <3>2. CASE k # Backups - 1
      BY <1>4, <2>6, <2>11, <3>2
    <3> QED
      BY <3>1, <3>2
  <2> QED
    BY <1>3, <2>8, <2>9, <2>10, <2>11 DEF WholeOf
<1>7. CASE ~(k = 0 \/ names[k] # 0)
  <2>1. /\ names' = names /\ proc'[p].pc = "shift"
        /\ proc'[p].slot = k - 1 /\ proc'[p].stream = 0
    BY <1>1, <1>3, <1>7 DEF EmptySlot, Handler
  <2>2. Contents' = c
    BY <1>3, <2>1 DEF Contents, Lines, Readable
  <2>3. (k - 1) + 1 = k /\ k - 1 # Backups - 1 /\ (k - 1) + 2 = k + 1
        /\ k - 1 # Backups /\ k \in 1..Backups - 1
    BY <1>2, <1>7
  <2>4. RotatesAlone(p)'
    BY <1>3, <1>7, <2>1, <2>3 DEF RotatesAlone
  <2>5. Lo(proc'[p]) = k - 1 /\ Hi(proc'[p]) = k + 1
    BY <2>1, <2>3 DEF Lo, Hi
  <2>6. ASSUME faults = 0
        PROVE  Blocks(c, logged, k - 1, k + 1)
    <3>1. c[k] = <<>>
      BY <1>1, <1>2, <1>7
    <3>2. k # Backups - 1 => c[k + 1] = <<>>
      BY <1>1, <1>2, <1>3
    <3> HIDE DEF k
    <3> QED
      BY <1>1, <1>4, <2>3, <2>6, <3>1, <3>2, BlocksSkipped
  <2> QED
    BY <1>3, <1>4, <2>2, <2>4, <2>5, <2>6 DEF WholeOf
<1> QED
  BY <1>6, <1>7

LEMMA RenameBackupAlone ==
    ASSUME IInv, NEW p, writers = {p}, WholeOf(p), RenameBackup(p)
    PROVE  WholeOf(p)'
<1> DEFINE k == proc[p].slot
           c == Contents
           d == [c EXCEPT ![k + 1] = c[k], ![k] = <<>>]
<1>1. /\ Objects /\ p \in writers /\ proc \in [writers -> Handler] /\ proc[p] \in Handler
      /\ 0 \in Slot /\ Backups \in Slot /\ 0 # Backups /\ names \in [Slot -> 0..Len(files)]
      /\ \A j \in Slot : names[j] = 0 => Lines(j) = <<>>
      /\ c \in Runs /\ (\A j \in Slot : c[j] = Lines(j)) /\ logged \in Nat
  BY Context
<1>2. /\ files' = files /\ logged' = logged /\ faults' = faults
      /\ proc[p].pc = "rename" /\ proc[p].stream = 0
      /\ names[0] # 0 /\ Len(files[names[0]].lines) >= Size /\ names[k + 1] = 0
      /\ names' = [names EXCEPT ![k + 1] = names[k], ![k] = 0]
      /\ Whole(c, logged) /\ (faults = 0 => Blocks(c, logged, Lo(proc[p]), Hi(proc[p])))
  BY DEF RenameBackup, Rest, WholeOf, RotatesAlone
<1>3. /\ k \in 1..Backups - 1 /\ k \in Slot /\ k + 1 \in Slot /\ k + 1 # k /\ k + 1 # 0 /\ k # 0
      /\ (k - 1) + 1 = k /\ k - 1 # Backups - 1 /\ (k - 1) + 2 = k + 1 /\ k - 1 # Backups
      /\ k # Backups
  <2>1. k \in 0..Backups - 1 /\ k # 0
    BY <1>1, <1>2 DEF Handler, Objects, StreamsOK, RotatesFiles
  <2> HIDE DEF k
  <2> QED
    BY <2>1, LogAssumption DEF Slot
<1>4. /\ proc'[p].pc = "shift" /\ proc'[p].slot = k - 1 /\ proc'[p].stream = 0
  BY <1>1, <1>2 DEF RenameBackup, Handler
<1>5. /\ names'[k + 1] = names[k] /\ names'[k] = 0
      /\ \A j \in Slot : j # k /\ j # k + 1 => names'[j] = names[j]
  BY <1>1, <1>2, <1>3
<1>6. \A j \in Slot : Lines(j)' = IF j = k + 1 THEN Lines(k)
                                  ELSE IF j = k THEN <<>> ELSE Lines(j)
  <2> TAKE j \in Slot
  <2>1. CASE j = k + 1
    BY <1>2, <1>5, <2>1 DEF Lines, Readable
  <2>2. CASE j = k
    BY <1>3, <1>5, <2>2 DEF Lines
  <2>3. CASE j # k /\ j # k + 1
    BY <1>2, <1>5, <2>3, LinesStay
  <2> QED
    BY <2>1, <2>2, <2>3
<1>7. Contents' = d
  <2>1. \A j \in Slot : d[j] = IF j = k + 1 THEN c[k] ELSE IF j = k THEN <<>> ELSE c[j]
    BY <1>1, <1>3 DEF Runs
  <2>2. d = [j \in Slot |-> d[j]]
    BY <1>1 DEF Runs
  <2> HIDE DEF d, c, k
  <2>3. \A j \in Slot : d[j] = Lines(j)'
    BY <1>1, <1>3, <1>6, <2>1
  <2> QED
    BY <2>2, <2>3 DEF Contents
<1>8. /\ d \in Runs /\ d[k + 1] = c[k] /\ d[k] = <<>>
      /\ \A j \in Slot : j # k /\ j # k + 1 => d[j] = c[j]
  <2>1. <<>> \in Seq(Nat)
    OBVIOUS
  <2> QED
    BY <1>1, <1>3, <2>1 DEF Runs
<1>9. c[k + 1] = <<>>
  BY <1>1, <1>2, <1>3
<1> HIDE DEF d, c, k
<1>10. Whole(d, logged)
  <2> DEFINE r == [j \in Slot |-> IF j = k + 1 THEN k ELSE j]
  <2>1. /\ r \in [Slot -> Slot] /\ r[k + 1] = k
        /\ \A j \in Slot : j # k + 1 => r[j] = j
    BY <1>3
  <2> HIDE DEF r
  <2>2. \A j \in Slot : d[j] # <<>> => d[j] = c[r[j]]
    BY <1>8, <2>1
  <2>3. ASSUME NEW i \in Slot, NEW j \in Slot, i < j, d[i] # <<>>, d[j] # <<>>
        PROVE  r[i] <= r[j]
    <3>1. i # k /\ j # k /\ i \in Int /\ j \in Int /\ k \in Int
      BY <1>3, <1>8, <2>3 DEF Slot
    <3> QED
      BY <2>1, <2>3, <3>1
  <2>4. \A j \in Slot : c[j] # <<>> => \E i \in Slot : d[i] = c[j]
    <3> TAKE j \in Slot
    <3>1. CASE j = k
      BY <1>3, <1>8, <3>1
    <3>2. CASE j = k + 1
      BY <1>9, <3>2
    <3>3. CASE j # k /\ j # k + 1
      BY <1>8, <3>3
    <3> QED
      BY <3>1, <3>2, <3>3
  <2> QED
    BY <1>1, <1>2, <1>8, <2>1, <2>2, <2>3, <2>4, WholeMoved
<1>11. faults = 0 => Blocks(d, logged, k - 1, k + 1)
  <2>1. Lo(proc[p]) = k /\ Hi(proc[p]) = k + 2
    BY <1>2, <1>3 DEF Lo, Hi, k
  <2> QED
    BY <1>1, <1>2, <1>3, <2>1, BlocksRenamed DEF d
<1>12. Lo(proc'[p]) = k - 1 /\ Hi(proc'[p]) = k + 1
  BY <1>3, <1>4 DEF Lo, Hi
<1>13. RotatesAlone(p)'
  BY <1>1, <1>2, <1>3, <1>4, <1>5 DEF RotatesAlone
<1> QED
  BY <1>2, <1>7, <1>10, <1>11, <1>12, <1>13 DEF WholeOf

LEMMA OpenBothAlone ==
    ASSUME IInv, NEW p, writers = {p}, WholeOf(p), OpenBoth(p)
    PROVE  WholeOf(p)'
<1>1. /\ Objects /\ p \in writers /\ proc \in [writers -> Handler] /\ proc[p] \in Handler
      /\ 0 \in Slot /\ 1 \in Slot /\ names \in [Slot -> 0..Len(files)]
      /\ \A k \in Slot : names[k] # 0 => names[k] \in DOMAIN files
      /\ \A k \in Slot : names[k] = 0 => Lines(k) = <<>>
  BY Context
<1>2. /\ names[1] = 0 /\ names[0] # 0 /\ Len(files[names[0]].lines) >= Size
      /\ proc[p].pc = "gzip" /\ proc[p].stream = 0
      /\ logged' = logged /\ faults' = faults /\ writers' = writers
  BY DEF OpenBoth, Rest, WholeOf, RotatesAlone
<1>3. /\ files' = Append(files, [lines |-> <<>>, state |-> p])
      /\ names' = [names EXCEPT ![1] = Len(files')]
  BY <1>2 DEF OpenBoth
<1>4. /\ \A f \in DOMAIN files : files'[f] = files[f]
      /\ files'[names'[1]].state = p /\ p \notin {"log", "gz", "torn"}
  <2>1. p \in {"log"} \cup writers /\ 1 \in {0, 1} /\ p \notin {"log", "gz", "torn"}
        /\ ((1 = 0) <=> (p = "log"))
    BY <1>1, LogAssumption DEF Objects
  <2> QED
    BY <1>1, <1>2, <1>3, <2>1, Created
<1>5. \A k \in Slot : k # 1 => names'[k] = names[k]
  BY <1>1, <1>3
<1>6. \A k \in Slot : Lines(k)' = Lines(k)
  <2>1. Lines(1)' = <<>>
    BY <1>4 DEF Lines, Readable
  <2>2. \A k \in Slot : k # 1 => Lines(k)' = Lines(k)
    BY <1>1, <1>4, <1>5, LinesStay
  <2> QED
    BY <1>1, <1>2, <2>1, <2>2
<1>7. Contents' = Contents
  BY <1>6 DEF Contents
<1>8. /\ proc'[p].pc = "copy" /\ proc'[p].stream = 0
      /\ proc'[p].source = names[0] /\ proc'[p].dest = names'[1]
  BY <1>1, <1>2 DEF OpenBoth, Handler
<1>9. RotatesAlone(p)'
  <2>1. names'[0] = names[0] /\ files'[names[0]] = files[names[0]]
    BY <1>1, <1>2, <1>4, <1>5
  <2> QED
    BY <1>2, <1>4, <1>8, <2>1 DEF RotatesAlone
<1>10. Lo(proc'[p]) = Lo(proc[p]) /\ Hi(proc'[p]) = Hi(proc[p])
  BY <1>2, <1>8 DEF Lo, Hi
<1> QED
  BY <1>2, <1>7, <1>9, <1>10, WholeStays

LEMMA CopyAlone ==
    ASSUME IInv, NEW p, writers = {p}, WholeOf(p), Copy(p)
    PROVE  WholeOf(p)'
<1> DEFINE c == Contents
           d == [c EXCEPT ![1] = c[0]]
<1>1. /\ Objects /\ p \in writers /\ proc \in [writers -> Handler] /\ proc[p] \in Handler
      /\ 0 \in Slot /\ 1 \in Slot /\ names \in [Slot -> 0..Len(files)]
      /\ \A j \in Slot : names[j] # 0 => names[j] \in DOMAIN files
      /\ names[0] # 0 => Lines(0) = files[names[0]].lines
      /\ c \in Runs /\ (\A j \in Slot : c[j] = Lines(j)) /\ logged \in Nat
      /\ Len(Lines(0)) <= Size
  BY Context
<1>2. /\ names' = names /\ logged' = logged /\ faults' = faults
      /\ proc[p].pc = "copy" /\ proc[p].stream = 0
      /\ names[0] # 0 /\ Len(files[names[0]].lines) >= Size
      /\ proc[p].source = names[0] /\ proc[p].dest = names[1] /\ files[names[1]].state = p
      /\ Whole(c, logged) /\ (faults = 0 => Blocks(c, logged, Lo(proc[p]), Hi(proc[p])))
  BY DEF Copy, Rest, WholeOf, RotatesAlone
<1>3. /\ names[1] \in DOMAIN files /\ names[1] # 0
      /\ \A f \in DOMAIN files : f # names[1] => files'[f] = files[f]
      /\ p \notin {"log", "gz", "torn"}
  <2>1. names[1] \in DOMAIN files /\ \A f \in DOMAIN files : f # names[1] => files'[f] = files[f]
    BY <1>1, <1>2, CopyObjects
  <2> QED
    BY <1>1, <2>1, FilesType, LogAssumption DEF Objects
<1>4. files'[names[1]] = [lines |-> files[names[0]].lines, state |-> "gz"]
  BY <1>2, <1>3 DEF Copy
<1>5. proc'[p].pc = "unlink" /\ proc'[p].stream = 0
  BY <1>1, <1>2 DEF Copy, Handler
<1>6. Lines(1)' = Lines(0) /\ \A j \in Slot : j # 1 => Lines(j)' = Lines(j)
  <2>1. Lines(1)' = Lines(0)
    BY <1>1, <1>2, <1>3, <1>4 DEF Lines, Readable
  <2>2. ASSUME NEW j \in Slot, j # 1
        PROVE  Lines(j)' = Lines(j)
    <3>1. names[j] # 0 => names[j] \in DOMAIN files /\ names[j] # names[1]
      BY <1>1, <1>3, <2>2 DEF Objects, NamesOK
    <3> QED
      BY <1>2, <1>3, <2>2, <3>1, LinesStay
  <2> QED
    BY <2>1, <2>2
<1>7. Contents' = d
  BY <1>1, <1>6 DEF Contents
<1>8. d \in Runs /\ d[1] = c[0] /\ \A j \in Slot : j # 1 => d[j] = c[j]
  BY <1>1 DEF Runs
<1>9. Len(c[0]) = Size
  <2>1. Len(c[0]) \in Nat
    BY <1>1 DEF Runs
  <2> QED
    BY <1>1, <1>2, <2>1, LogAssumption
<1>10. c[1] = <<>>
  BY <1>1, <1>2, <1>3 DEF Lines, Readable
<1> HIDE DEF c, d
<1>11. Whole(d, logged)
  <2> DEFINE r == [j \in Slot |-> IF j = 1 THEN 0 ELSE j]
  <2>1. /\ r \in [Slot -> Slot] /\ r[1] = 0
        /\ \A j \in Slot : j # 1 => r[j] = j
    BY <1>1
  <2> HIDE DEF r
  <2>2. \A j \in Slot : d[j] # <<>> => d[j] = c[r[j]]
    BY <1>8, <2>1
  <2>3. ASSUME NEW i \in Slot, NEW j \in Slot, i < j
        PROVE  r[i] <= r[j]
    <3>1. i \in Nat /\ j \in Nat
      BY DEF Slot
    <3> QED
      BY <2>1, <2>3, <3>1
  <2>4. \A j \in Slot : c[j] # <<>> => \E i \in Slot : d[i] = c[j]
    BY <1>8, <1>10
  <2> QED
    BY <1>1, <1>2, <1>8, <2>1, <2>2, <2>3, <2>4, WholeMoved
<1>12. Lo(proc[p]) = 0 /\ Hi(proc[p]) = 2 /\ Lo(proc'[p]) = 0 /\ Hi(proc'[p]) = 1
  BY <1>2, <1>5, LogAssumption DEF Lo, Hi
<1>13. faults = 0 => Blocks(d, logged, 0, 1)
  BY <1>1, <1>2, <1>9, <1>12, BlocksCopied DEF d
<1>14. RotatesAlone(p)'
  <2>1. Lines(1)' = Lines(0)'
    BY <1>1, <1>6
  <2>2. files'[names[0]] = files[names[0]]
    BY <1>1, <1>2, <1>3 DEF Objects, NamesOK
  <2> QED
    BY <1>2, <1>5, <2>1, <2>2 DEF RotatesAlone
<1> QED
  BY <1>2, <1>7, <1>11, <1>12, <1>13, <1>14 DEF WholeOf

LEMMA UnlinkAlone ==
    ASSUME IInv, NEW p, writers = {p}, WholeOf(p), Unlink(p)
    PROVE  WholeOf(p)'
<1> DEFINE c == Contents
           d == [c EXCEPT ![0] = <<>>]
<1>1. /\ Objects /\ p \in writers /\ proc \in [writers -> Handler] /\ proc[p] \in Handler
      /\ 0 \in Slot /\ 1 \in Slot /\ names \in [Slot -> 0..Len(files)]
      /\ names[0] # 0 => Lines(0) = files[names[0]].lines
      /\ c \in Runs /\ (\A j \in Slot : c[j] = Lines(j)) /\ logged \in Nat
      /\ Len(Lines(0)) <= Size
  BY Context
<1>2. /\ files' = files /\ logged' = logged /\ faults' = faults
      /\ names' = [names EXCEPT ![0] = 0]
      /\ proc[p].pc = "unlink" /\ proc[p].stream = 0
      /\ names[0] # 0 /\ Len(files[names[0]].lines) >= Size
      /\ Lines(1) = Lines(0)
      /\ Whole(c, logged) /\ (faults = 0 => Blocks(c, logged, Lo(proc[p]), Hi(proc[p])))
  BY DEF Unlink, Rest, WholeOf, RotatesAlone
<1>3. proc'[p].pc = "reopen" /\ proc'[p].stream = 0
  BY <1>1, <1>2 DEF Unlink, Handler
<1>4. names'[0] = 0 /\ \A j \in Slot : j # 0 => names'[j] = names[j]
  BY <1>1, <1>2
<1>5. Lines(0)' = <<>> /\ \A j \in Slot : j # 0 => Lines(j)' = Lines(j)
  BY <1>2, <1>4 DEF Lines, Readable
<1>6. Contents' = d
  BY <1>1, <1>5 DEF Contents
<1>7. d \in Runs /\ d[0] = <<>> /\ \A j \in Slot : j # 0 => d[j] = c[j]
  <2>1. <<>> \in Seq(Nat)
    OBVIOUS
  <2> QED
    BY <1>1, <2>1 DEF Runs
<1>8. Len(c[0]) = Size /\ c[1] = c[0]
  <2>1. Len(c[0]) \in Nat
    BY <1>1 DEF Runs
  <2> QED
    BY <1>1, <1>2, <2>1, LogAssumption
<1> HIDE DEF c, d
<1>9. Whole(d, logged)
  <2> DEFINE r == [j \in Slot |-> j]
  <2>1. r \in [Slot -> Slot] /\ \A j \in Slot : r[j] = j
    OBVIOUS
  <2> HIDE DEF r
  <2>2. \A j \in Slot : d[j] # <<>> => d[j] = c[r[j]]
    BY <1>7, <2>1
  <2>3. ASSUME NEW i \in Slot, NEW j \in Slot, i < j
        PROVE  r[i] <= r[j]
    <3>1. i \in Nat /\ j \in Nat
      BY DEF Slot
    <3> QED
      BY <2>1, <2>3, <3>1
  <2>4. \A j \in Slot : c[j] # <<>> => \E i \in Slot : d[i] = c[j]
    BY <1>1, <1>7, <1>8
  <2> QED
    BY <1>1, <1>2, <1>7, <2>1, <2>2, <2>3, <2>4, WholeMoved
<1>10. /\ Lo(proc[p]) = 0 /\ Hi(proc[p]) = 1
       /\ Lo(proc'[p]) = Backups /\ Hi(proc'[p]) = Backups + 1
  BY <1>2, <1>3, LogAssumption DEF Lo, Hi
<1>11. faults = 0 => Blocks(d, logged, Backups, Backups + 1)
  BY <1>1, <1>2, <1>8, <1>10, BlocksUnlinked DEF d
<1>12. RotatesAlone(p)'
  BY <1>3, <1>4 DEF RotatesAlone
<1> QED
  BY <1>2, <1>6, <1>9, <1>10, <1>11, <1>12 DEF WholeOf

LEMMA WriteAlone ==
    ASSUME IInv, NEW p, writers = {p}, WholeOf(p), Write(p)
    PROVE  WholeOf(p)'
<1> DEFINE c == Contents
           d == [c EXCEPT ![0] = Append(c[0], logged + 1)]
<1>1. /\ Objects /\ p \in writers /\ proc \in [writers -> Handler] /\ proc[p] \in Handler
      /\ 0 \in Slot /\ 1 \in Slot /\ names \in [Slot -> 0..Len(files)]
      /\ \A j \in Slot : names[j] # 0 => names[j] \in DOMAIN files
      /\ names[0] # 0 => Lines(0) = files[names[0]].lines
      /\ c \in Runs /\ (\A j \in Slot : c[j] = Lines(j)) /\ logged \in Nat
  BY Context
<1>2. /\ names' = names /\ logged' = logged + 1 /\ faults' = faults
      /\ proc[p].pc = "write" /\ proc[p].stream = names[0] /\ names[0] # 0
      /\ Whole(c, logged) /\ (faults = 0 => Blocks(c, logged, Lo(proc[p]), Hi(proc[p])))
  BY <1>1 DEF Write, WholeOf, RotatesAlone, Objects, StreamsOK
<1>3. /\ Objects'
      /\ \A f \in DOMAIN files : f # names[0] => files'[f] = files[f]
      /\ files'[names[0]].lines = Append(files[names[0]].lines, logged + 1)
  BY <1>1, <1>2, WriteObjects
<1>4. proc'[p].pc = "idle" /\ proc'[p].stream = names[0]
  BY <1>1, <1>2 DEF Write, Handler
<1>5. Lines(0)' = Append(Lines(0), logged + 1) /\ \A j \in Slot : j # 0 => Lines(j)' = Lines(j)
  <2>1. files'[names[0]].state = "log"
    BY <1>2, <1>3 DEF Objects, NamesOK
  <2>2. Lines(0)' = Append(Lines(0), logged + 1)
    BY <1>1, <1>2, <1>3, <2>1 DEF Lines, Readable
  <2>3. ASSUME NEW j \in Slot, j # 0
        PROVE  Lines(j)' = Lines(j)
    <3>1. names[j] # 0 => names[j] \in DOMAIN files /\ names[j] # names[0]
      BY <1>1, <1>2, <2>3 DEF Objects, NamesOK
    <3> QED
      BY <1>2, <1>3, <2>3, <3>1, LinesStay
  <2> QED
    BY <2>2, <2>3
<1>6. Contents' = d
  BY <1>1, <1>5 DEF Contents
<1> HIDE DEF c
<1>7. Whole(d, logged + 1)
  BY <1>1, <1>2, WholeWritten
<1>8. /\ Lo(proc[p]) = Backups /\ Hi(proc[p]) = Backups + 1
      /\ Lo(proc'[p]) = Backups /\ Hi(proc'[p]) = Backups + 1
  BY <1>2, <1>4 DEF Lo, Hi
<1>9. faults = 0 => Blocks(d, logged + 1, Backups, Backups + 1)
  BY <1>1, <1>2, <1>8, BlocksWritten
<1>10. RotatesAlone(p)'
  BY <1>2, <1>4 DEF RotatesAlone
<1> QED
  BY <1>2, <1>6, <1>7, <1>8, <1>9, <1>10 DEF WholeOf

\* Whoever is alone leaves the lines whole.
AloneIsWhole == \A p : writers = {p} => WholeOf(p)

LEMMA StartWhole == Init => AloneIsWhole
<1> SUFFICES ASSUME Init, NEW p, writers = {p}
             PROVE  WholeOf(p)
  BY DEF AloneIsWhole
<1>1. /\ proc[p] = Idle /\ logged = 0 /\ 0 \in Slot /\ 1 \in Slot /\ 1..Backups \subseteq Slot
      /\ \A k \in Slot : names[k] = 0
  BY LogAssumption DEF Init, Slot
<1>2. \A k \in Slot : Contents[k] = <<>>
  BY <1>1 DEF Contents, Lines
<1>3. RotatesAlone(p)
  BY <1>1 DEF RotatesAlone, Idle
<1>4. Whole(Contents, 0)
  BY <1>2 DEF Whole, Consecutive, Older, Somewhere, Has
<1>5. Blocks(Contents, 0, Backups, Backups + 1)
  <2>1. 0 - Len(Contents[0]) = 0 /\ 0 * Size = 0
    BY <1>1, <1>2, LogAssumption
  <2>2. ASSUME NEW k \in 1..Backups
        PROVE  IsBlock(Contents[k], k, 0) /\ ~(k >= Backups + 1)
    <3>1. k * Size >= 1 * Size /\ 1 * Size = Size /\ k * Size \in Int
      BY LogAssumption, TimesMonotonic
    <3>2. ~(k * Size <= 0) /\ ~(k >= Backups + 1)
      BY <3>1, LogAssumption
    <3> QED
      BY <1>1, <1>2, <3>2 DEF IsBlock
  <2>3. 0 \in Nat
    OBVIOUS
  <2> QED
    BY <2>1, <2>2, <2>3 DEF Blocks
<1>6. Lo(proc[p]) = Backups /\ Hi(proc[p]) = Backups + 1
  BY <1>1 DEF Lo, Hi, Idle
<1> QED
  BY <1>1, <1>3, <1>4, <1>5, <1>6 DEF WholeOf

LEMMA StepWhole == IInv /\ AloneIsWhole /\ [Next]_vars => AloneIsWhole'
<1> SUFFICES ASSUME IInv, AloneIsWhole, [Next]_vars, NEW p, writers' = {p}
             PROVE  WholeOf(p)'
  BY DEF AloneIsWhole
<1>1. CASE UNCHANGED vars
  <2>1. WholeOf(p)
    BY <1>1 DEF AloneIsWhole, vars
  <2>2. RotatesAlone(p)' /\ Contents' = Contents /\ logged' = logged /\ faults' = faults
        /\ proc' = proc
    BY <1>1, <2>1 DEF vars, WholeOf, RotatesAlone, Contents, Lines, Readable
  <2> QED
    BY <2>1, <2>2, WholeStays
<1>2. ASSUME NEW q \in writers, Act(q)
      PROVE  WholeOf(p)'
  <2>1. writers = {p} /\ q = p
    <3>1. writers' = writers
      BY <1>2, IInvObjects, OthersStay
    <3> QED
      BY <1>2, <3>1
  <2>2. WholeOf(p)
    BY <2>1 DEF AloneIsWhole
  <2> QED
    BY <1>2, <2>1, <2>2, OpenAlone, LookAtSizeAlone, StopAlone, EmptySlotAlone,
       RenameBackupAlone, OpenBothAlone, CopyAlone, UnlinkAlone, WriteAlone DEF Act, Rotate
<1> QED
  BY <1>1, <1>2 DEF Next, Act

LEMMA AloneReadsWhole == IInv /\ AloneIsWhole => ReadsWhole
<1> SUFFICES ASSUME IInv, AloneIsWhole, Alone, logged > 0
             PROVE  /\ \E first \in 1..logged : Found = first..logged
                    /\ \A j, k \in Slot :
                          j < k /\ Lines(j) # <<>> /\ Lines(k) # <<>> => Lines(k)[1] <= Lines(j)[1]
                    /\ faults = 0 => Cardinality(Found) >= Kept
  BY DEF ReadsWhole
<1>1. PICK p : writers = {p}
  <2>1. IsFiniteSet(writers)
    BY WritersFinite DEF IInv
  <2> QED
    BY <2>1, FS_Singleton DEF Alone
<1>2. WholeOf(p)
  BY <1>1 DEF AloneIsWhole
<1> DEFINE c == Contents
<1>3. /\ c \in Runs /\ (\A k \in Slot : c[k] = Lines(k)) /\ logged \in Nat \ {0}
      /\ 0 \in Slot /\ proc[p] \in Handler /\ (names[0] # 0 => c[0] = files[names[0]].lines)
  <2>1. logged \in Nat
    BY <1>1, Context
  <2> QED
    BY <1>1, <2>1, Context
<1>4. Whole(c, logged)
  BY <1>2 DEF WholeOf
<1>5. PICK first \in 1..logged : \A x : Somewhere(c, x) <=> x \in first..logged
  BY <1>3, <1>4, WholeIsLatest
<1>6. \A x : x \in Found <=> Somewhere(c, x)
  BY <1>3 DEF Found, Somewhere, Has
<1>7. Found = first..logged
  BY <1>5, <1>6
<1>8. \A j, k \in Slot :
         j < k /\ Lines(j) # <<>> /\ Lines(k) # <<>> => Lines(k)[1] <= Lines(j)[1]
  BY <1>3, <1>4 DEF Whole, Older
<1>9. ASSUME faults = 0
      PROVE  Cardinality(Found) >= Kept
  <2>1. Blocks(c, logged, Lo(proc[p]), Hi(proc[p]))
    BY <1>2, <1>9 DEF WholeOf
  <2>2. /\ Lo(proc[p]) \in 0..Backups /\ Hi(proc[p]) \in Int /\ Hi(proc[p]) <= Lo(proc[p]) + 2
    <3>1. proc[p].slot \in 0..Backups - 1
      BY <1>3 DEF Handler
    <3> QED
      BY <3>1, LogAssumption DEF Lo, Hi
  <2>3. Lo(proc[p]) = Backups \/ Len(c[0]) >= Size
    BY <1>2, <1>3 DEF Lo, WholeOf, RotatesAlone
  <2>4. PICK k \in Slot : c[k] # <<>> /\ (c[k][1] <= 1 \/ c[k][1] <= logged - Backups * Size + 1)
    BY <1>3, <1>4, <2>1, <2>2, <2>3, OldestKept
  <2>5. c[k][1] \in Nat /\ c[k][1] \in Found
    <3>1. c[k] \in Seq(Nat) /\ Consecutive(c[k])
      BY <1>3, <1>4 DEF Runs, Whole
    <3>2. 1 \in DOMAIN c[k] /\ c[k][1] \in Nat
      BY <2>4, <3>1, InARow
    <3> QED
      BY <1>6, <3>2 DEF Somewhere, Has
  <2>6. first <= c[k][1]
    BY <1>7, <2>5
  <2>7. Cardinality(first..logged) = logged - first + 1
    BY <1>3, FS_Interval
  <2>8. Backups * Size \in Int
    BY LogAssumption, Times
  <2> HIDE DEF c
  <2> DEFINE oldest == c[k][1]
             room == Backups * Size
  <2>9. oldest \in Nat /\ first <= oldest /\ (oldest <= 1 \/ oldest <= logged - room + 1)
        /\ room \in Int
    BY <2>4, <2>5, <2>6, <2>8
  <2> HIDE DEF oldest, room
  <2>10. logged - first + 1 >= (IF logged < room THEN logged ELSE room)
    BY <1>3, <2>9
  <2> QED
    BY <1>7, <2>7, <2>10 DEF Kept, room
<1> QED
  BY <1>7, <1>8, <1>9

\* As long as one process logs, the directory always holds the latest lines without a
\* gap, whatever fails and wherever the process is killed, and as many as the backups
\* have room for if nothing fails: for any number of backups of any size.
THEOREM NoLineInBetweenLost == Spec => []ReadsWhole
<1>1. Spec => []AloneIsWhole
  BY StartWhole, StepWhole, Invariance, PTL DEF Spec
<1> QED
  BY <1>1, AloneReadsWhole, Invariance, PTL

=============================================================================
