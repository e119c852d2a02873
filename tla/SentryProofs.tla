----------------------------- MODULE SentryProofs -----------------------------
(***************************************************************************)
(* Proofs about SentryDaemon for any number of users, lines, connections,  *)
(* saves and restarts: the models file and the labels; what a record       *)
(* remembers is what its windows hold; an event is counted on its own      *)
(* user's record unless that user was evicted or never announced; and once *)
(* the lines of an orderly connection are read, the index of nicks is true.*)
(***************************************************************************)
EXTENDS SentryDaemon, TLAPS, FiniteSetTheorems

-----------------------------------------------------------------------------
(* The models file.  As long as the two savers have not been at work at     *)
(* once, the temporary file is the one writer's own: it is empty when that  *)
(* writer fills it and complete when it is moved.                           *)

SaverFields == {"pc", "snap", "ino"}
Working(s) == savers[s].pc \notin {"idle", "done"}

StoreTypes ==
  /\ DOMAIN savers = Savers
  /\ \A s \in Savers : DOMAIN savers[s] = SaverFields /\ savers[s].ino \in 0..4
  /\ DOMAIN disk = Inodes
  /\ dir = [models |-> dir.models, tmp |-> dir.tmp]
  /\ dir.models \in 0..4 /\ dir.tmp \in 0..4
  /\ overlapped \in BOOLEAN

\* Savers at work: at most one, and the temporary file is its.
OneWriter ==
  /\ \A s, t \in Savers : Working(s) /\ Working(t) => s = t
  /\ \A s \in Savers : savers[s].pc \in {"idle", "open", "write", "rename", "done"}
  /\ \A s \in Savers : savers[s].pc \in {"write", "rename"}
                       => dir.tmp # 0 /\ savers[s].ino = dir.tmp
  /\ \A s \in Savers : savers[s].pc = "write" => disk[dir.tmp].state = "empty"
  /\ \A s \in Savers : savers[s].pc = "rename" => disk[dir.tmp].state = "whole"

WholeFile ==
  /\ dir.models # 0 => disk[dir.models].state = "whole"
  /\ dir.models # 0 => dir.models # dir.tmp

FInv == StoreTypes /\ (~overlapped => OneWriter /\ WholeFile)

LEMMA SaverEdit ==
  ASSUME NEW v, DOMAIN v = SaverFields, NEW p, NEW i
  PROVE  /\ DOMAIN [v EXCEPT !.pc = p] = SaverFields
         /\ [v EXCEPT !.pc = p].pc = p
         /\ [v EXCEPT !.pc = p].ino = v.ino /\ [v EXCEPT !.pc = p].snap = v.snap
         /\ DOMAIN [v EXCEPT !.pc = p, !.ino = i] = SaverFields
         /\ [v EXCEPT !.pc = p, !.ino = i].pc = p
         /\ [v EXCEPT !.pc = p, !.ino = i].ino = i
         /\ [v EXCEPT !.pc = p, !.ino = i].snap = v.snap
  BY DEF SaverFields

LEMMA FreshSavers ==
  /\ DOMAIN NotSaving = SaverFields /\ NotSaving.pc = "idle" /\ NotSaving.ino = 0
  /\ NotSaving.snap = Fresh0
  /\ DOMAIN [NotSaving EXCEPT !.pc = "done"] = SaverFields
  /\ [NotSaving EXCEPT !.pc = "done"].pc = "done" /\ [NotSaving EXCEPT !.pc = "done"].ino = 0
  /\ [NotSaving EXCEPT !.pc = "done"].snap = Fresh0
  <1>1. /\ DOMAIN NotSaving = SaverFields /\ NotSaving.pc = "idle" /\ NotSaving.ino = 0
        /\ NotSaving.snap = Fresh0
    BY DEF NotSaving, SaverFields
  <1>. QED
    BY <1>1, SaverEdit

\* With no temporary file some inode is free: the models file and the two
\* writers have at most three.
LEMMA FreeInodeExists ==
  ASSUME StoreTypes, dir.tmp = 0
  PROVE  /\ FreeInode \in Inodes /\ FreeInode # dir.models
         /\ \A s \in Savers : savers[s].ino # FreeInode
  <1>1. \A s \in Savers : s = "periodic" \/ s = "final"
    BY DEF Savers
  <1>2. PICK a, b, m : a = savers["periodic"].ino /\ b = savers["final"].ino /\ m = dir.models
    OBVIOUS
  <1>3. a \in 0..4 /\ b \in 0..4 /\ m \in 0..4
    BY <1>2 DEF StoreTypes, Savers
  <1>4. \E i \in 1..4 : i # m /\ i # a /\ i # b
    BY <1>3
  <1>5. \E i \in Inodes : i \notin {dir.tmp, dir.models} /\ \A s \in Savers : savers[s].ino # i
    BY <1>1, <1>2, <1>4 DEF Inodes
  <1>. QED
    BY <1>5 DEF FreeInode

LEMMA StoreInit == Init => FInv
  <1>. SUFFICES ASSUME Init PROVE FInv
    OBVIOUS
  <1>1. \A s \in Savers : savers[s] = NotSaving
    BY DEF Init
  <1>2. dir = [models |-> 0, tmp |-> 0] /\ overlapped = FALSE
    BY DEF Init
  <1>3. DOMAIN savers = Savers /\ DOMAIN disk = Inodes
    BY DEF Init
  <1>4. StoreTypes
    <2>1. dir.models = 0 /\ dir.tmp = 0 /\ dir = [models |-> dir.models, tmp |-> dir.tmp]
      BY <1>2
    <2>2. \A s \in Savers : DOMAIN savers[s] = SaverFields /\ savers[s].ino = 0
      BY <1>1, FreshSavers
    <2>3. overlapped \in BOOLEAN
      BY <1>2, Zenon
    <2>4. 0 \in 0..4
      OBVIOUS
    <2>. QED
      BY <1>3, <2>1, <2>2, <2>3, <2>4, Zenon DEF StoreTypes
  <1>5. OneWriter /\ WholeFile
    BY <1>1, <1>2, FreshSavers DEF OneWriter, WholeFile, Working
  <1>. QED
    BY <1>4, <1>5 DEF FInv

LEMMA StoreKept ==
  ASSUME FInv, UNCHANGED store
  PROVE  FInv'
  BY DEF FInv, store, StoreTypes, OneWriter, WholeFile, Working

LEMMA SaveBeginKeeps ==
  ASSUME FInv, NEW s \in Savers, SaveBegin(s)
  PROVE  FInv'
  <1>1. PICK v : v = [pc |-> "open", snap |-> Snapshot, ino |-> 0]
    OBVIOUS
  <1>2. DOMAIN v = SaverFields /\ v.pc = "open" /\ v.ino = 0
    BY <1>1 DEF SaverFields
  <1>3. /\ savers' = [savers EXCEPT ![s] = v] /\ UNCHANGED <<disk, dir>>
        /\ overlapped' = (overlapped \/ \E t \in Savers \ {s} : Working(t))
    BY <1>1 DEF SaveBegin, Working
  <1>4. StoreTypes'
    BY <1>2, <1>3 DEF FInv, StoreTypes
  <1>5. ASSUME ~overlapped' PROVE OneWriter' /\ WholeFile'
    <2>1. ~overlapped /\ \A t \in Savers \ {s} : ~Working(t)
      BY <1>3, <1>5
    <2>. QED
      BY <1>2, <1>3, <2>1 DEF FInv, StoreTypes, OneWriter, WholeFile, Working
  <1>. QED
    BY <1>4, <1>5 DEF FInv

LEMMA SaveOpenKeeps ==
  ASSUME FInv, NEW s \in Savers, SaveOpen(s)
  PROVE  FInv'
  <1>1. PICK i : i = IF dir.tmp # 0 THEN dir.tmp ELSE FreeInode
    OBVIOUS
  <1>2. i \in Inodes /\ i # 0
    BY <1>1, FreeInodeExists DEF FInv, StoreTypes, Inodes
  <1>3. PICK v : v = [savers[s] EXCEPT !.pc = "write", !.ino = i]
    OBVIOUS
  <1>4. DOMAIN v = SaverFields /\ v.pc = "write" /\ v.ino = i
    BY <1>3, SaverEdit DEF FInv, StoreTypes
  <1>5. /\ savers[s].pc = "open"
        /\ savers' = [savers EXCEPT ![s] = v]
        /\ disk' = [disk EXCEPT ![i] = File("empty", Fresh0)]
        /\ dir' = [dir EXCEPT !.tmp = i]
        /\ overlapped' = overlapped
    BY <1>1, <1>3 DEF SaveOpen
  <1>6. dir' = [models |-> dir'.models, tmp |-> dir'.tmp] /\ dir'.models = dir.models /\ dir'.tmp = i
    BY <1>5 DEF FInv, StoreTypes
  <1>7. StoreTypes'
    BY <1>2, <1>4, <1>5, <1>6 DEF FInv, StoreTypes, Inodes
  <1>8. ASSUME ~overlapped PROVE OneWriter' /\ WholeFile'
    <2>1. OneWriter /\ WholeFile
      BY <1>8 DEF FInv
    <2>2. i # dir.models
      BY <1>1, <1>2, <2>1, FreeInodeExists DEF FInv, WholeFile
    <2>3. \A t \in Savers \ {s} : ~Working(t) /\ savers'[t] = savers[t]
      BY <1>5, <2>1 DEF FInv, StoreTypes, OneWriter, Working
    <2>4. savers'[s] = v /\ disk'[i].state = "empty"
      BY <1>2, <1>5 DEF FInv, StoreTypes, File
    <2>5. OneWriter'
      BY <1>2, <1>4, <1>6, <2>1, <2>3, <2>4 DEF OneWriter, Working
    <2>6. disk'[dir.models] = disk[dir.models]
      BY <1>5, <2>2
    <2>7. WholeFile'
      BY <1>6, <2>1, <2>2, <2>6 DEF WholeFile
    <2>. QED
      BY <2>5, <2>7
  <1>. QED
    BY <1>5, <1>7, <1>8 DEF FInv

LEMMA SaveWriteKeeps ==
  ASSUME FInv, NEW s \in Savers, NEW result \in {"whole", "mixed", "failed"}, SaveWrite(s, result)
  PROVE  FInv'
  <1>1. PICK v : v = IF result = "failed"
                     THEN IF s = "final" THEN [NotSaving EXCEPT !.pc = "done"] ELSE NotSaving
                     ELSE [savers[s] EXCEPT !.pc = "rename"]
    OBVIOUS
  <1>2. PICK i : i = savers[s].ino
    OBVIOUS
  <1>3. /\ DOMAIN v = SaverFields /\ v.ino \in 0..4
        /\ result # "failed" => v.pc = "rename" /\ v.ino = i
        /\ result = "failed" => v.pc \in {"idle", "done"}
    BY <1>1, <1>2, SaverEdit, FreshSavers DEF FInv, StoreTypes
  <1>4. PICK g : g = IF result = "whole" THEN File("whole", savers[s].snap) ELSE File("torn", Fresh0)
    OBVIOUS
  <1>5. /\ savers[s].pc = "write"
        /\ result = "mixed" => disk[i].state # "empty"
        /\ savers' = [savers EXCEPT ![s] = v]
        /\ disk' = [disk EXCEPT ![i] = g]
        /\ UNCHANGED <<dir, overlapped>>
    BY <1>1, <1>2, <1>4 DEF SaveWrite
  <1>6. StoreTypes'
    BY <1>3, <1>5 DEF FInv, StoreTypes
  <1>7. ASSUME ~overlapped PROVE OneWriter' /\ WholeFile'
    <2>1. OneWriter /\ WholeFile
      BY <1>7 DEF FInv
    <2>2. i = dir.tmp /\ dir.tmp # 0 /\ disk[dir.tmp].state = "empty" /\ i \in Inodes
      BY <1>2, <1>5, <2>1 DEF OneWriter, FInv, StoreTypes, Inodes
    <2>3. result # "mixed"
      BY <1>5, <2>2
    <2>4. result = "whole" => g.state = "whole"
      BY <1>4 DEF File
    <2>5. \A t \in Savers \ {s} : ~Working(t) /\ savers'[t] = savers[t]
      BY <1>5, <2>1 DEF FInv, StoreTypes, OneWriter, Working
    <2>6. savers'[s] = v /\ disk'[i] = g
      BY <1>5, <2>2 DEF FInv, StoreTypes
    <2>7. OneWriter'
      BY <1>3, <1>5, <2>1, <2>2, <2>3, <2>4, <2>5, <2>6 DEF OneWriter, Working
    <2>8. WholeFile'
      <3>1. dir.models # 0 => disk'[dir.models] = disk[dir.models]
        BY <1>5, <2>1, <2>2 DEF WholeFile
      <3>. QED
        BY <1>5, <2>1, <3>1 DEF WholeFile
    <2>. QED
      BY <2>7, <2>8
  <1>. QED
    BY <1>5, <1>6, <1>7 DEF FInv

LEMMA SaveRenameKeeps ==
  ASSUME FInv, NEW s \in Savers, SaveRename(s)
  PROVE  FInv'
  <1>1. PICK v : v = IF s = "final" THEN [NotSaving EXCEPT !.pc = "done"] ELSE NotSaving
    OBVIOUS
  <1>2. DOMAIN v = SaverFields /\ v.ino = 0 /\ v.pc \in {"idle", "done"}
    BY <1>1, FreshSavers
  <1>3. /\ savers[s].pc = "rename"
        /\ savers' = [savers EXCEPT ![s] = v]
        /\ dir' = IF dir.tmp = 0 THEN dir ELSE [models |-> dir.tmp, tmp |-> 0]
        /\ UNCHANGED <<disk, overlapped>>
    BY <1>1 DEF SaveRename
  <1>4. StoreTypes'
    BY <1>2, <1>3 DEF FInv, StoreTypes
  <1>5. ASSUME ~overlapped PROVE OneWriter' /\ WholeFile'
    <2>1. OneWriter /\ WholeFile
      BY <1>5 DEF FInv
    <2>2. dir.tmp # 0 /\ disk[dir.tmp].state = "whole"
      BY <1>3, <2>1 DEF OneWriter
    <2>3. dir'.models = dir.tmp /\ dir'.tmp = 0
      BY <1>3, <2>2
    <2>4. \A t \in Savers : savers'[t].pc \in {"idle", "done"}
      BY <1>2, <1>3, <2>1 DEF FInv, StoreTypes, OneWriter, Working
    <2>. QED
      BY <1>3, <2>2, <2>3, <2>4 DEF OneWriter, WholeFile, Working
  <1>. QED
    BY <1>3, <1>4, <1>5 DEF FInv

\* A kill tears the file that was being written, which is not the models file.
LEMMA DownKeeps ==
  ASSUME FInv, Down
  PROVE  FInv'
  <1>1. /\ savers' = [s \in Savers |-> NotSaving]
        /\ disk' = [i \in Inodes |-> IF \E s \in Savers : savers[s].pc = "write" /\ savers[s].ino = i
                                     THEN File("torn", Fresh0) ELSE disk[i]]
        /\ UNCHANGED <<dir, overlapped>>
    BY DEF Down
  <1>2. \A s \in Savers : savers'[s] = NotSaving
    BY <1>1
  <1>3. StoreTypes'
    BY <1>1, <1>2, FreshSavers DEF FInv, StoreTypes
  <1>4. ASSUME ~overlapped PROVE OneWriter' /\ WholeFile'
    <2>1. OneWriter /\ WholeFile
      BY <1>4 DEF FInv
    <2>2. OneWriter'
      BY <1>2, FreshSavers DEF OneWriter, Working
    <2>3. ASSUME dir.models # 0 PROVE disk'[dir.models] = disk[dir.models]
      <3>1. dir.models \in Inodes
        BY <2>3 DEF FInv, StoreTypes, Inodes
      <3>2. ~\E s \in Savers : savers[s].pc = "write" /\ savers[s].ino = dir.models
        BY <2>1, <2>3 DEF OneWriter, WholeFile
      <3>. QED
        BY <1>1, <3>1, <3>2
    <2>4. WholeFile'
      BY <1>1, <2>1, <2>3 DEF WholeFile
    <2>. QED
      BY <2>2, <2>4
  <1>. QED
    BY <1>1, <1>3, <1>4 DEF FInv

LEMMA StoreStep == FInv /\ [Next]_vars => FInv'
  <1>. SUFFICES ASSUME FInv, [Next]_vars PROVE FInv'
    OBVIOUS
  <1>1. CASE (Network \/ (running # "down" /\ Daemon)) /\ UNCHANGED <<running, nstops, store>>
    BY <1>1, StoreKept
  <1>2. CASE Term \/ Start \/ UNCHANGED vars
    BY <1>2, StoreKept DEF Term, Start, vars, store
  <1>. QED
    BY <1>1, <1>2, SaveBeginKeeps, SaveOpenKeeps, SaveWriteKeeps, SaveRenameKeeps, DownKeeps
       DEF Next, Steps

\* models.json is complete at every moment the process can be killed at, for
\* any number of saves and restarts, unless the final save began during a
\* periodic one (saveModels writes to a temporary file and renames it).
THEOREM ModelsFileWhole == Spec => []ModelsWhole
  <1>1. FInv => ModelsWhole
    BY DEF FInv, StoreTypes, WholeFile, ModelsWhole
  <1>. QED
    BY <1>1, StoreInit, StoreStep, PTL DEF Spec

-----------------------------------------------------------------------------
(* The labels.  A training step that a reader or the admin API is about to  *)
(* take has its label already, so steps taken and steps due together never  *)
(* exceed the labels; nor do the steps in a snapshot or in a file.          *)

ReaderFields == {"pc", "ev", "rec"}
ReaderTypes == DOMAIN readers = Conns /\ \A c \in Conns : DOMAIN readers[c] = ReaderFields

Trainers == {c \in Conns : readers[c].pc = "train"}
AdminDue == IF admin.pc = "train" THEN 1 ELSE 0
Labels == rows + unrecorded

\* Models that took no more than n steps.
Within0(m, n) == DOMAIN m = {"am", "clf"} /\ m.clf \in Nat /\ m.clf <= n

StepsDue ==
  /\ rows \in Nat /\ unrecorded \in Nat
  /\ DOMAIN models = {"am", "clf"} /\ models.clf \in Nat
  /\ models.clf + Cardinality(Trainers) + AdminDue <= Labels
StoredSteps ==
  /\ \A s \in Savers : Within0(savers[s].snap, Labels)
  /\ \A i \in Inodes : Within0(disk[i].models, Labels)
NoneDown == running = "down" => Trainers = {} /\ admin.pc # "train"

LInv == ReaderTypes /\ StepsDue /\ StoredSteps /\ NoneDown

LEMMA TrainersFinite ==
  IsFiniteSet(Trainers) /\ Cardinality(Trainers) \in Nat
  <1>1. IsFiniteSet(Conns)
    BY ManagerAssumption, FS_Interval DEF Conns
  <1>. QED
    BY <1>1, FS_Subset, FS_CardinalityType DEF Trainers

LEMMA AdminDueType == AdminDue \in {0, 1}
  BY DEF AdminDue

LEMMA IdleReader ==
  /\ DOMAIN Idle = ReaderFields /\ Idle.pc = "idle" /\ Idle.rec = 0
  /\ DOMAIN [Idle EXCEPT !.pc = "none"] = ReaderFields
  /\ [Idle EXCEPT !.pc = "none"].pc = "none" /\ [Idle EXCEPT !.pc = "none"].rec = 0
  /\ DOMAIN [Idle EXCEPT !.pc = "done"] = ReaderFields
  /\ [Idle EXCEPT !.pc = "done"].pc = "done" /\ [Idle EXCEPT !.pc = "done"].rec = 0
  BY DEF Idle, ReaderFields

\* One reader goes on.
LEMMA ReaderGoesOn ==
  ASSUME ReaderTypes, NEW c \in Conns, NEW v, DOMAIN v = ReaderFields,
         readers' = [readers EXCEPT ![c] = v]
  PROVE  /\ ReaderTypes'
         /\ readers'[c] = v /\ \A d \in Conns \ {c} : readers'[d] = readers[d]
         /\ Trainers' = IF v.pc = "train" THEN Trainers \cup {c} ELSE Trainers \ {c}
  <1>1. readers'[c] = v /\ \A d \in Conns \ {c} : readers'[d] = readers[d]
    BY DEF ReaderTypes
  <1>2. ReaderTypes'
    BY <1>1 DEF ReaderTypes
  <1>3. Trainers' = IF v.pc = "train" THEN Trainers \cup {c} ELSE Trainers \ {c}
    BY <1>1 DEF Trainers
  <1>. QED
    BY <1>1, <1>2, <1>3

\* The edits of a reader's state keep its fields.
LEMMA ReaderEdit ==
  ASSUME NEW v, DOMAIN v = ReaderFields, NEW p, NEW r
  PROVE  /\ DOMAIN [v EXCEPT !.pc = p] = ReaderFields
         /\ [v EXCEPT !.pc = p].pc = p /\ [v EXCEPT !.pc = p].ev = v.ev
         /\ [v EXCEPT !.pc = p].rec = v.rec
         /\ DOMAIN [v EXCEPT !.pc = p, !.rec = r] = ReaderFields
         /\ [v EXCEPT !.pc = p, !.rec = r].pc = p /\ [v EXCEPT !.pc = p, !.rec = r].ev = v.ev
         /\ [v EXCEPT !.pc = p, !.rec = r].rec = r
  BY DEF ReaderFields

\* What a reader does next, by action: the state v it is left in.
LEMMA ReaderMoves ==
  ASSUME ReaderTypes, NEW c \in Conns
  PROVE  /\ ReadLoopEnds(c) => \E v : /\ readers' = [readers EXCEPT ![c] = v]
                                      /\ DOMAIN v = ReaderFields /\ v.pc = "done" /\ v.rec = readers[c].rec
         /\ ObserveActivity(c) => \E v : /\ readers' = [readers EXCEPT ![c] = v]
                                         /\ DOMAIN v = ReaderFields /\ v.pc = "locate"
                                         /\ v.ev = Head(lines[c]) /\ v.rec = 0
         /\ ObserveOper(c) => \E rec \in Targets(Head(lines[c]).line) : \E v :
                                  /\ readers' = [readers EXCEPT ![c] = v]
                                  /\ DOMAIN v = ReaderFields /\ v.pc = "record"
                                  /\ v.ev = Head(lines[c]) /\ v.rec = rec
         /\ Create(c) => \E v : /\ readers' = [readers EXCEPT ![c] = v]
                                /\ DOMAIN v = ReaderFields /\ v.pc = "count"
                                /\ v.ev = readers[c].ev /\ v.rec = users'[readers[c].ev.line.uid]
         /\ Count(c) => \E v : /\ readers' = [readers EXCEPT ![c] = v]
                               /\ DOMAIN v = ReaderFields /\ v.pc = "judge"
                               /\ v.ev = readers[c].ev /\ v.rec = readers[c].rec
         /\ Judge(c) \/ LearnTrain(c) => readers' = [readers EXCEPT ![c] = Idle]
         /\ \A ok : LearnRecord(c, ok) =>
              \E v : /\ readers' = [readers EXCEPT ![c] = v]
                     /\ DOMAIN v = ReaderFields
                     /\ IF readers[c].rec = 0 THEN v = Idle
                        ELSE v.pc = "train" /\ v.ev = readers[c].ev /\ v.rec = readers[c].rec
  <1>0. DOMAIN readers = Conns /\ DOMAIN readers[c] = ReaderFields
    BY DEF ReaderTypes
  <1>1. ASSUME NEW p, readers' = [readers EXCEPT ![c].pc = p]
        PROVE  \E v : /\ readers' = [readers EXCEPT ![c] = v] /\ DOMAIN v = ReaderFields
                      /\ v.pc = p /\ v.ev = readers[c].ev /\ v.rec = readers[c].rec
    <2>1. PICK v : v = [readers[c] EXCEPT !.pc = p]
      OBVIOUS
    <2>2. readers' = [readers EXCEPT ![c] = v]
      BY <1>1, <2>1
    <2>3. DOMAIN v = ReaderFields /\ v.pc = p /\ v.ev = readers[c].ev /\ v.rec = readers[c].rec
      BY <1>0, <2>1, ReaderEdit
    <2>. QED
      BY <2>2, <2>3
  <1>2. ASSUME NEW p, NEW rec,
               Goto(c, p, rec)
        PROVE  \E v : /\ readers' = [readers EXCEPT ![c] = v] /\ DOMAIN v = ReaderFields
                      /\ v.pc = p /\ v.ev = Head(lines[c]) /\ v.rec = rec
    <2>1. PICK v : v = [pc |-> p, ev |-> Head(lines[c]), rec |-> rec]
      OBVIOUS
    <2>2. readers' = [readers EXCEPT ![c] = v]
      BY <1>2, <2>1 DEF Goto
    <2>3. DOMAIN v = ReaderFields /\ v.pc = p /\ v.ev = Head(lines[c]) /\ v.rec = rec
      BY <2>1 DEF ReaderFields
    <2>. QED
      BY <2>2, <2>3
  <1>3. ASSUME ReadLoopEnds(c) PROVE readers' = [readers EXCEPT ![c].pc = "done"]
    BY <1>3 DEF ReadLoopEnds
  <1>4. ASSUME ObserveActivity(c) PROVE Goto(c, "locate", 0)
    BY <1>4 DEF ObserveActivity
  <1>5. ASSUME ObserveOper(c) PROVE \E rec \in Targets(Head(lines[c]).line) : Goto(c, "record", rec)
    BY <1>5 DEF ObserveOper
  <1>6. ASSUME Count(c) PROVE readers' = [readers EXCEPT ![c].pc = "judge"]
    BY <1>6 DEF Count
  <1>7. ASSUME Create(c)
        PROVE  \E v : /\ readers' = [readers EXCEPT ![c] = v]
                      /\ DOMAIN v = ReaderFields /\ v.pc = "count"
                      /\ v.ev = readers[c].ev /\ v.rec = users'[readers[c].ev.line.uid]
    <2>1. PICK r : r = users'[readers[c].ev.line.uid]
      OBVIOUS
    <2>2. PICK v : v = [readers[c] EXCEPT !.pc = "count", !.rec = r]
      OBVIOUS
    <2>3. readers' = [readers EXCEPT ![c].pc = "count", ![c].rec = r]
      BY <1>7, <2>1 DEF Create
    <2>4. readers' = [readers EXCEPT ![c] = v]
      BY <1>0, <2>2, <2>3
    <2>5. DOMAIN v = ReaderFields /\ v.pc = "count" /\ v.ev = readers[c].ev /\ v.rec = r
      BY <1>0, <2>2, ReaderEdit
    <2>. QED
      BY <2>1, <2>4, <2>5
  <1>8. Judge(c) \/ LearnTrain(c) => readers' = [readers EXCEPT ![c] = Idle]
    BY DEF Judge, LearnTrain
  <1>9. ASSUME NEW ok, LearnRecord(c, ok)
        PROVE  \E v : /\ readers' = [readers EXCEPT ![c] = v]
                      /\ DOMAIN v = ReaderFields
                      /\ IF readers[c].rec = 0 THEN v = Idle
                         ELSE v.pc = "train" /\ v.ev = readers[c].ev /\ v.rec = readers[c].rec
    <2>1. PICK v : v = IF readers[c].rec = 0 THEN Idle ELSE [readers[c] EXCEPT !.pc = "train"]
      OBVIOUS
    <2>2. readers' = [readers EXCEPT ![c] = v]
      BY <1>9, <2>1 DEF LearnRecord
    <2>3. /\ DOMAIN v = ReaderFields
          /\ IF readers[c].rec = 0 THEN v = Idle
             ELSE v.pc = "train" /\ v.ev = readers[c].ev /\ v.rec = readers[c].rec
      BY <1>0, <2>1, ReaderEdit, IdleReader
    <2>. QED
      BY <2>2, <2>3
  <1>10. ReadLoopEnds(c) => \E v : /\ readers' = [readers EXCEPT ![c] = v]
                                   /\ DOMAIN v = ReaderFields /\ v.pc = "done" /\ v.rec = readers[c].rec
    BY <1>1, <1>3
  <1>11. ObserveActivity(c) => \E v : /\ readers' = [readers EXCEPT ![c] = v]
                                      /\ DOMAIN v = ReaderFields /\ v.pc = "locate"
                                      /\ v.ev = Head(lines[c]) /\ v.rec = 0
    BY <1>2, <1>4
  <1>12. ObserveOper(c) => \E rec \in Targets(Head(lines[c]).line) : \E v :
                               /\ readers' = [readers EXCEPT ![c] = v]
                               /\ DOMAIN v = ReaderFields /\ v.pc = "record"
                               /\ v.ev = Head(lines[c]) /\ v.rec = rec
    BY <1>2, <1>5
  <1>13. Count(c) => \E v : /\ readers' = [readers EXCEPT ![c] = v]
                            /\ DOMAIN v = ReaderFields /\ v.pc = "judge"
                            /\ v.ev = readers[c].ev /\ v.rec = readers[c].rec
    BY <1>1, <1>6
  <1>. QED
    BY <1>7, <1>8, <1>9, <1>10, <1>11, <1>12, <1>13

LEMMA LocateMoves ==
  ASSUME ReaderTypes, NEW c \in Conns, Locate(c)
  PROVE  \E v : /\ readers' = [readers EXCEPT ![c] = v]
                /\ DOMAIN v = ReaderFields
                /\ \/ /\ v.pc = "count" /\ v.ev = readers[c].ev
                      /\ v.rec = users[Lookup(readers[c].ev.line)] /\ v.rec # 0
                   \/ /\ v.pc = "create" /\ v.ev = readers[c].ev /\ v.rec = readers[c].rec
                      /\ users[readers[c].ev.line.uid] = 0
                   \/ v = Idle
  <1>0. DOMAIN readers = Conns /\ DOMAIN readers[c] = ReaderFields
    BY DEF ReaderTypes
  <1>1. PICK owner : owner = Lookup(readers[c].ev.line)
    OBVIOUS
  <1>2. CASE users[owner] # 0
    <2>1. PICK v : v = [readers[c] EXCEPT !.pc = "count", !.rec = users[owner]]
      OBVIOUS
    <2>2. readers' = [readers EXCEPT ![c] = v]
      BY <1>1, <1>2, <2>1 DEF Locate
    <2>3. DOMAIN v = ReaderFields /\ v.pc = "count" /\ v.ev = readers[c].ev /\ v.rec = users[owner]
      BY <1>0, <2>1, ReaderEdit
    <2>. QED
      BY <1>1, <1>2, <2>2, <2>3
  <1>3. CASE users[owner] = 0 /\ owner = readers[c].ev.line.uid
    <2>1. PICK v : v = [readers[c] EXCEPT !.pc = "create"]
      OBVIOUS
    <2>2. readers' = [readers EXCEPT ![c] = v]
      BY <1>1, <1>3, <2>1 DEF Locate
    <2>3. DOMAIN v = ReaderFields /\ v.pc = "create" /\ v.ev = readers[c].ev /\ v.rec = readers[c].rec
      BY <1>0, <2>1, ReaderEdit
    <2>4. users[readers[c].ev.line.uid] = 0
      BY <1>3
    <2>. QED
      BY <2>2, <2>3, <2>4
  <1>4. CASE users[owner] = 0 /\ owner # readers[c].ev.line.uid
    <2>1. readers' = [readers EXCEPT ![c] = Idle]
      BY <1>1, <1>4 DEF Locate
    <2>. QED
      BY <2>1, IdleReader
  <1>. QED
    BY <1>2, <1>3, <1>4

\* A step that stores no label and takes no training step.
LEMMA LabelsKept ==
  ASSUME LInv, ReaderTypes', Trainers' \subseteq Trainers,
         admin'.pc = "train" => admin.pc = "train",
         UNCHANGED <<rows, unrecorded, running, savers, disk>>,
         DOMAIN models' = {"am", "clf"}, models'.clf = models.clf
  PROVE  LInv'
  <1>1. Cardinality(Trainers') \in Nat /\ Cardinality(Trainers') <= Cardinality(Trainers)
    BY TrainersFinite, FS_Subset, FS_CardinalityType
  <1>2. AdminDue \in {0, 1} /\ AdminDue' \in {0, 1} /\ AdminDue' <= AdminDue
    BY DEF AdminDue
  <1>3. Cardinality(Trainers) \in Nat
    BY TrainersFinite
  <1>4. Labels' = Labels /\ Labels \in Nat
    BY DEF Labels, LInv, StepsDue
  <1>5. models.clf \in Nat /\ models.clf + Cardinality(Trainers) + AdminDue <= Labels
    BY DEF LInv, StepsDue
  <1>6. models'.clf + Cardinality(Trainers') + AdminDue' <= Labels'
    BY <1>1, <1>2, <1>3, <1>4, <1>5
  <1>7. StepsDue'
    BY <1>5, <1>6 DEF LInv, StepsDue
  <1>8. StoredSteps'
    BY <1>4 DEF LInv, StoredSteps
  <1>9. NoneDown'
    BY DEF LInv, NoneDown
  <1>. QED
    BY <1>7, <1>8, <1>9 DEF LInv

\* More labels than before leave what is stored within them.
LEMMA MoreLabels ==
  ASSUME LInv, UNCHANGED <<savers, disk>>, Labels' \in Nat, Labels <= Labels'
  PROVE  StoredSteps'
  <1>1. Labels \in Nat
    BY DEF LInv, StepsDue, Labels
  <1>2. \A m : Within0(m, Labels) => Within0(m, Labels')
    BY <1>1 DEF Within0
  <1>. QED
    BY <1>2 DEF LInv, StoredSteps

LEMMA LearnRecordLabels ==
  ASSUME LInv, NEW c \in Conns, NEW ok \in BOOLEAN, LearnRecord(c, ok), running # "down",
         UNCHANGED <<running, store>>
  PROVE  LInv'
  <1>1. PICK v : /\ readers' = [readers EXCEPT ![c] = v] /\ DOMAIN v = ReaderFields
    BY ReaderMoves DEF LInv
  <1>2. ReaderTypes' /\ (Trainers' = Trainers \cup {c} \/ Trainers' = Trainers \ {c})
    BY <1>1, ReaderGoesOn DEF LInv
  <1>3. Cardinality(Trainers') \in Nat /\ Cardinality(Trainers') <= Cardinality(Trainers) + 1
    <2>1. Cardinality(Trainers \cup {c}) \in Nat /\ Cardinality(Trainers \cup {c}) <= Cardinality(Trainers) + 1
      BY TrainersFinite, FS_AddElement, FS_CardinalityType
    <2>2. Cardinality(Trainers \ {c}) \in Nat /\ Cardinality(Trainers \ {c}) <= Cardinality(Trainers)
      BY TrainersFinite, FS_Subset, FS_CardinalityType
    <2>3. Cardinality(Trainers) \in Nat
      BY TrainersFinite
    <2>4. CASE Trainers' = Trainers \cup {c}
      BY <2>1, <2>4
    <2>5. CASE Trainers' = Trainers \ {c}
      BY <2>2, <2>3, <2>5
    <2>. QED
      BY <1>2, <2>4, <2>5
  <1>4. /\ (rows' = rows + 1 /\ unrecorded' = unrecorded) \/ (rows' = rows /\ unrecorded' = unrecorded + 1)
        /\ UNCHANGED <<models, admin>>
    BY DEF LearnRecord, Recorded
  <1>5. rows \in Nat /\ unrecorded \in Nat /\ models.clf \in Nat
        /\ models.clf + Cardinality(Trainers) + AdminDue <= rows + unrecorded
    BY DEF LInv, StepsDue, Labels
  <1>6. AdminDue' = AdminDue /\ AdminDue \in {0, 1}
    BY <1>4 DEF AdminDue
  <1>7. rows' \in Nat /\ unrecorded' \in Nat /\ rows' + unrecorded' = rows + unrecorded + 1
    BY <1>4, <1>5
  <1>8. StepsDue'
    <2>1. models.clf + Cardinality(Trainers') + AdminDue <= rows + unrecorded + 1
      BY <1>3, <1>5, <1>6, TrainersFinite
    <2>2. models' = models /\ DOMAIN models = {"am", "clf"}
      BY <1>4 DEF LInv, StepsDue
    <2>3. models'.clf + Cardinality(Trainers)' + AdminDue' <= rows' + unrecorded'
      BY <1>6, <1>7, <2>1, <2>2
    <2>. QED
      BY <1>5, <1>7, <2>2, <2>3 DEF StepsDue, Labels
  <1>9. StoredSteps'
    <2>1. rows + unrecorded \in Nat
      BY <1>5
    <2>2. rows + unrecorded + 1 \in Nat /\ rows + unrecorded <= rows + unrecorded + 1
      BY <2>1
    <2>3. Labels' = rows + unrecorded + 1 /\ Labels = rows + unrecorded
      BY <1>7 DEF Labels
    <2>4. Labels' \in Nat /\ Labels <= Labels'
      BY <2>2, <2>3
    <2>. QED
      BY <2>4, MoreLabels DEF store
  <1>. QED
    BY <1>2, <1>8, <1>9 DEF LInv, NoneDown

LEMMA LearnTrainLabels ==
  ASSUME LInv, NEW c \in Conns, LearnTrain(c), running # "down", UNCHANGED <<running, store>>
  PROVE  LInv'
  <1>1. readers' = [readers EXCEPT ![c] = Idle]
    BY ReaderMoves DEF LInv
  <1>2. ReaderTypes' /\ Trainers' = Trainers \ {c} /\ c \in Trainers
    BY <1>1, ReaderGoesOn, IdleReader DEF LInv, LearnTrain, Trainers
  <1>3. Cardinality(Trainers') = Cardinality(Trainers) - 1 /\ Cardinality(Trainers) \in Nat
    <2>1. Cardinality(Trainers \ {c}) = Cardinality(Trainers) - 1
      BY <1>2, TrainersFinite, FS_RemoveElement
    <2>. QED
      BY <1>2, <2>1, TrainersFinite
  <1>4. models' = [models EXCEPT !.clf = models.clf + 1] /\ UNCHANGED <<rows, unrecorded, admin>>
    BY DEF LearnTrain, Trained, ghosts
  <1>5. /\ rows \in Nat /\ unrecorded \in Nat /\ models.clf \in Nat
        /\ DOMAIN models = {"am", "clf"}
        /\ models.clf + Cardinality(Trainers) + AdminDue <= rows + unrecorded
    BY DEF LInv, StepsDue, Labels
  <1>6. DOMAIN models' = {"am", "clf"} /\ models'.clf = models.clf + 1
    BY <1>4, <1>5
  <1>7. AdminDue' = AdminDue /\ AdminDue \in {0, 1}
    BY <1>4 DEF AdminDue
  <1>8. StepsDue'
    <2>1. models'.clf + Cardinality(Trainers') + AdminDue <= rows + unrecorded
      BY <1>3, <1>5, <1>6, <1>7
    <2>. QED
      BY <1>4, <1>5, <1>6, <1>7, <2>1 DEF StepsDue, Labels
  <1>9. StoredSteps'
    BY <1>4 DEF LInv, StoredSteps, store, Labels
  <1>. QED
    BY <1>2, <1>8, <1>9 DEF LInv, NoneDown

LEMMA AdminLabels ==
  ASSUME LInv, running # "down", UNCHANGED <<running, store>>,
         AdminTrain \/ \E ok, decisive \in BOOLEAN : AdminRecord(ok, decisive)
  PROVE  LInv'
  <1>0. /\ rows \in Nat /\ unrecorded \in Nat /\ models.clf \in Nat
        /\ DOMAIN models = {"am", "clf"} /\ Cardinality(Trainers) \in Nat
        /\ models.clf + Cardinality(Trainers) + AdminDue <= rows + unrecorded
    BY TrainersFinite DEF LInv, StepsDue, Labels
  <1>1. UNCHANGED <<readers, unrecorded>>
    BY DEF AdminTrain, AdminRecord, ghosts
  <1>2. ReaderTypes' /\ Trainers' = Trainers
    BY <1>1 DEF LInv, ReaderTypes, Trainers
  <1>3. CASE AdminTrain
    <2>1. AdminDue = 1 /\ AdminDue' = 0
      BY <1>3 DEF AdminTrain, AdminDue, IdleAdmin
    <2>2. rows' = rows /\ (models' = models \/ models' = [models EXCEPT !.clf = models.clf + 1])
      BY <1>3 DEF AdminTrain, Trained
    <2>3. DOMAIN models' = {"am", "clf"} /\ models'.clf \in {models.clf, models.clf + 1}
      BY <1>0, <2>2
    <2>4. models'.clf \in Nat /\ models'.clf + Cardinality(Trainers) + 0 <= rows + unrecorded
      BY <1>0, <2>1, <2>3
    <2>5. StepsDue'
      BY <1>0, <1>1, <1>2, <2>1, <2>2, <2>3, <2>4 DEF StepsDue, Labels
    <2>6. StoredSteps'
      BY <1>1, <2>2 DEF LInv, StoredSteps, store, Labels
    <2>. QED
      BY <1>2, <2>5, <2>6 DEF LInv, NoneDown
  <1>4. ASSUME NEW ok \in BOOLEAN, NEW decisive \in BOOLEAN, AdminRecord(ok, decisive)
        PROVE  LInv'
    <2>1. AdminDue = 0 /\ AdminDue' \in {0, 1} /\ models' = models
      BY <1>4 DEF AdminRecord, AdminDue
    <2>2. (rows' = rows + 1) \/ (rows' = rows /\ AdminDue' = 0)
      BY <1>4 DEF AdminRecord, Recorded, AdminDue, IdleAdmin
    <2>3. rows' \in Nat /\ models.clf + Cardinality(Trainers) + AdminDue' <= rows' + unrecorded
      BY <1>0, <2>1, <2>2
    <2>4. StepsDue'
      BY <1>0, <1>1, <1>2, <2>1, <2>3 DEF StepsDue, Labels
    <2>5. Labels' \in Nat /\ Labels <= Labels'
      BY <1>0, <1>1, <2>2 DEF Labels
    <2>6. StoredSteps'
      BY <2>5, MoreLabels DEF store
    <2>. QED
      BY <1>2, <2>4, <2>6 DEF LInv, NoneDown
  <1>. QED
    BY <1>3, <1>4

LEMMA NetworkFrame ==
  ASSUME Network
  PROVE  UNCHANGED <<readers, recs, users, byNick, admin, rows, unrecorded, models, conn,
                     forgotten, strayed>>
  <1>1. ASSUME NEW u, NEW line, Tell(u, line)
        PROVE  UNCHANGED <<readers, recs, users, byNick, admin, rows, unrecorded, models, conn,
                           forgotten, strayed>>
    BY <1>1 DEF Tell, table
  <1>2. ASSUME NEW u \in UIDs, NEW kind \in Kinds, NEW nick \in Nicks \cup {NoNick},
               ChangeState(u, kind, nick)
        PROVE  \E line : Tell(u, line)
    BY <1>2 DEF ChangeState
  <1>3. ASSUME NEW u \in UIDs, NEW kind \in Kinds, NEW body \in Bodies,
               NEW target \in Nicks \cup {NoNick}, Act(u, kind, body, target)
        PROVE  \E line : Tell(u, line)
    BY <1>3 DEF Act
  <1>4. Garble \/ Tick => UNCHANGED <<readers, recs, users, byNick, admin, rows, unrecorded, models,
                                      conn, forgotten, strayed>>
    BY DEF Garble, Tick, table, ghosts
  <1>. QED
    BY <1>1, <1>2, <1>3, <1>4 DEF Network

\* The steps of the daemon that neither store a label nor train.
LEMMA DaemonLabels ==
  ASSUME LInv, Daemon, running # "down", UNCHANGED <<running, store>>
  PROVE  LInv'
  <1>0. ReaderTypes /\ DOMAIN models = {"am", "clf"}
    BY DEF LInv, StepsDue
  <1>1. UNCHANGED <<savers, disk>>
    BY DEF store
  <1>2. ASSUME UNCHANGED <<readers, rows, unrecorded, models>>, admin'.pc = "train" => admin.pc = "train"
        PROVE  LInv'
    <2>1. ReaderTypes' /\ Trainers' = Trainers
      BY <1>0, <1>2 DEF ReaderTypes, Trainers
    <2>. QED
      BY <1>0, <1>1, <1>2, <2>1, LabelsKept
  <1>3. ASSUME NEW c \in Conns, NEW v, readers' = [readers EXCEPT ![c] = v],
               DOMAIN v = ReaderFields, v.pc # "train",
               UNCHANGED <<rows, unrecorded, admin>>,
               models' = models \/ models' = Sampled(models)
        PROVE  LInv'
    <2>1. ReaderTypes' /\ Trainers' \subseteq Trainers
      BY <1>0, <1>3, ReaderGoesOn
    <2>2. DOMAIN models' = {"am", "clf"} /\ models'.clf = models.clf
      BY <1>0, <1>3 DEF Sampled
    <2>. QED
      BY <1>1, <1>3, <2>1, <2>2, LabelsKept
  <1>4. ASSUME NEW c \in Conns, NEW kept \in 0..MaxBacklog, Accept(c, kept) PROVE LInv'
    <2>1. readers' = [readers EXCEPT ![c] = Idle] /\ UNCHANGED <<rows, unrecorded, admin, models>>
      BY <1>4 DEF Accept
    <2>. QED
      BY <1>3, <2>1, IdleReader
  <1>5. ASSUME NEW c \in Conns, ReadLoopEnds(c) \/ ObserveActivity(c) \/ ObserveOper(c) \/ Create(c) \/ Count(c)
        PROVE  LInv'
    <2>1. \E v : readers' = [readers EXCEPT ![c] = v] /\ DOMAIN v = ReaderFields /\ v.pc # "train"
      BY <1>0, <1>5, ReaderMoves
    <2>2. UNCHANGED <<rows, unrecorded, admin, models>>
      BY <1>5 DEF ReadLoopEnds, ObserveActivity, ObserveOper, Create, Count, ghosts
    <2>. QED
      BY <1>3, <2>1, <2>2
  <1>6. ASSUME NEW c \in Conns, ObserveIdentity(c) PROVE LInv'
    BY <1>2, <1>6 DEF ObserveIdentity, ghosts
  <1>7. ASSUME NEW c \in Conns, Locate(c) PROVE LInv'
    <2>1. \E v : readers' = [readers EXCEPT ![c] = v] /\ DOMAIN v = ReaderFields /\ v.pc # "train"
      BY <1>0, <1>7, LocateMoves, IdleReader
    <2>2. UNCHANGED <<rows, unrecorded, admin, models>>
      BY <1>7 DEF Locate
    <2>. QED
      BY <1>3, <2>1, <2>2
  <1>8. ASSUME NEW c \in Conns, Judge(c) PROVE LInv'
    <2>1. readers' = [readers EXCEPT ![c] = Idle] /\ UNCHANGED <<rows, unrecorded, admin>>
      BY <1>8 DEF Judge
    <2>2. models' = models \/ models' = Sampled(models)
      BY <1>8 DEF Judge
    <2>. QED
      BY <1>3, <2>1, <2>2, IdleReader
  <1>9. ASSUME gc PROVE LInv'
    BY <1>2, <1>9 DEF gc
  <1>10. ASSUME NEW u \in UIDs, AdminLookup(u) PROVE LInv'
    <2>1. admin'.pc = "have" /\ UNCHANGED <<readers, rows, unrecorded, models>>
      BY <1>10 DEF AdminLookup, ghosts
    <2>. QED
      BY <1>2, <2>1
  <1>11. ASSUME AdminExplain PROVE LInv'
    <2>1. admin'.pc = "idle" /\ UNCHANGED <<readers, rows, unrecorded, models>>
      BY <1>11 DEF AdminExplain, ghosts, IdleAdmin
    <2>. QED
      BY <1>2, <2>1
  <1>. QED
    BY <1>4, <1>5, <1>6, <1>7, <1>8, <1>9, <1>10, <1>11, LearnRecordLabels, LearnTrainLabels,
       AdminLabels DEF Daemon

\* New models, and those that were saved, took no more steps than there are
\* labels.
LEMMA ModelsWithin ==
  ASSUME LInv
  PROVE  Within0(Fresh0, Labels) /\ Within0(models, Labels) /\ Labels \in Nat
  <1>1. /\ rows \in Nat /\ unrecorded \in Nat /\ models.clf \in Nat
        /\ Cardinality(Trainers) \in Nat /\ AdminDue \in {0, 1}
        /\ models.clf + Cardinality(Trainers) + AdminDue <= rows + unrecorded
    BY TrainersFinite DEF LInv, StepsDue, Labels, AdminDue
  <1>2. Labels \in Nat /\ models.clf <= Labels
    BY <1>1 DEF Labels
  <1>3. DOMAIN Fresh0 = {"am", "clf"} /\ Fresh0.clf = 0
    BY DEF Fresh0
  <1>. QED
    BY <1>1, <1>2, <1>3 DEF Within0, LInv, StepsDue

\* A save moves models about that are within the labels.
LEMMA SaveLabels ==
  ASSUME FInv, LInv, NEW s \in Savers,
         \/ SaveBegin(s) \/ SaveOpen(s) \/ SaveRename(s)
         \/ \E result \in {"whole", "mixed", "failed"} : SaveWrite(s, result)
  PROVE  LInv'
  <1>0. UNCHANGED <<readers, admin, rows, unrecorded, models, running>>
    BY DEF SaveBegin, SaveOpen, SaveRename, SaveWrite, managerVars
  <1>1. ReaderTypes' /\ StepsDue' /\ NoneDown' /\ Labels' = Labels
    BY <1>0 DEF LInv, ReaderTypes, StepsDue, NoneDown, Trainers, AdminDue, Labels
  <1>2. /\ \A t \in Savers : Within0(savers[t].snap, Labels) /\ DOMAIN savers[t] = SaverFields
        /\ \A i \in Inodes : Within0(disk[i].models, Labels)
        /\ DOMAIN savers = Savers /\ DOMAIN disk = Inodes
        /\ Within0(Fresh0, Labels) /\ Within0(models, Labels)
    BY ModelsWithin DEF LInv, StoredSteps, FInv, StoreTypes
  <1>3. ASSUME NEW v, savers' = [savers EXCEPT ![s] = v], Within0(v.snap, Labels)
        PROVE  \A t \in Savers : Within0(savers'[t].snap, Labels)
    BY <1>2, <1>3
  <1>4. ASSUME NEW i, NEW g, disk' = [disk EXCEPT ![i] = g], Within0(g.models, Labels)
        PROVE  \A j \in Inodes : Within0(disk'[j].models, Labels)
    BY <1>2, <1>4
  <1>5. ASSUME NEW st, NEW m PROVE File(st, m).models = m
    BY DEF File
  <1>6. CASE SaveBegin(s)
    <2>1. PICK v : v = [pc |-> "open", snap |-> models, ino |-> 0]
      OBVIOUS
    <2>2. savers' = [savers EXCEPT ![s] = v] /\ disk' = disk
      BY <1>6, <2>1 DEF SaveBegin, Snapshot
    <2>3. v.snap = models
      BY <2>1
    <2>. QED
      BY <1>1, <1>2, <1>3, <2>2, <2>3 DEF LInv, StoredSteps
  <1>7. CASE SaveOpen(s)
    <2>1. PICK i : i = IF dir.tmp # 0 THEN dir.tmp ELSE FreeInode
      OBVIOUS
    <2>2. PICK v : v = [savers[s] EXCEPT !.pc = "write", !.ino = i]
      OBVIOUS
    <2>3. savers' = [savers EXCEPT ![s] = v] /\ disk' = [disk EXCEPT ![i] = File("empty", Fresh0)]
      BY <1>7, <2>1, <2>2 DEF SaveOpen
    <2>4. v.snap = savers[s].snap
      BY <1>2, <2>2, SaverEdit
    <2>5. \A t \in Savers : Within0(savers'[t].snap, Labels)
      BY <1>2, <1>3, <2>3, <2>4
    <2>6. \A j \in Inodes : Within0(disk'[j].models, Labels)
      BY <1>2, <1>4, <1>5, <2>3
    <2>. QED
      BY <1>1, <2>5, <2>6 DEF LInv, StoredSteps
  <1>8. CASE SaveRename(s)
    <2>1. PICK v : v = IF s = "final" THEN [NotSaving EXCEPT !.pc = "done"] ELSE NotSaving
      OBVIOUS
    <2>2. savers' = [savers EXCEPT ![s] = v] /\ disk' = disk
      BY <1>8, <2>1 DEF SaveRename
    <2>3. v.snap = Fresh0
      BY <2>1, FreshSavers
    <2>. QED
      BY <1>1, <1>2, <1>3, <2>2, <2>3 DEF LInv, StoredSteps
  <1>9. ASSUME NEW result \in {"whole", "mixed", "failed"}, SaveWrite(s, result) PROVE LInv'
    <2>1. PICK v : v = IF result = "failed"
                       THEN IF s = "final" THEN [NotSaving EXCEPT !.pc = "done"] ELSE NotSaving
                       ELSE [savers[s] EXCEPT !.pc = "rename"]
      OBVIOUS
    <2>2. PICK g : g = IF result = "whole" THEN File("whole", savers[s].snap) ELSE File("torn", Fresh0)
      OBVIOUS
    <2>3. savers' = [savers EXCEPT ![s] = v] /\ disk' = [disk EXCEPT ![savers[s].ino] = g]
      BY <1>9, <2>1, <2>2 DEF SaveWrite
    <2>4. v.snap \in {Fresh0, savers[s].snap}
      BY <1>2, <2>1, SaverEdit, FreshSavers
    <2>5. g.models \in {Fresh0, savers[s].snap}
      BY <1>5, <2>2
    <2>6. \A t \in Savers : Within0(savers'[t].snap, Labels)
      BY <1>2, <1>3, <2>3, <2>4
    <2>7. \A j \in Inodes : Within0(disk'[j].models, Labels)
      BY <1>2, <1>4, <2>3, <2>5
    <2>. QED
      BY <1>1, <2>6, <2>7 DEF LInv, StoredSteps
  <1>. QED
    BY <1>6, <1>7, <1>8, <1>9

LEMMA ProcessLabels ==
  ASSUME FInv, LInv, Term \/ Down \/ Start
  PROVE  LInv'
  <1>0. Within0(Fresh0, Labels) /\ Within0(models, Labels) /\ Labels \in Nat
    BY ModelsWithin
  <1>1. CASE Term
    <2>1. UNCHANGED <<readers, admin, rows, unrecorded, models, savers, disk>> /\ running' = "stopping"
      BY <1>1 DEF Term, managerVars, store
    <2>. QED
      BY <2>1 DEF LInv, ReaderTypes, StepsDue, StoredSteps, NoneDown, Trainers, AdminDue, Labels
  <1>2. CASE Down
    <2>1. /\ readers' = [c \in Conns |-> IF readers[c].pc = "none" THEN readers[c]
                                         ELSE [Idle EXCEPT !.pc = "done"]]
          /\ admin' = IdleAdmin /\ UNCHANGED <<rows, unrecorded, models>>
          /\ savers' = [s \in Savers |-> NotSaving]
      BY <1>2 DEF Down
    <2>2. ReaderTypes' /\ \A c \in Conns : readers'[c].pc \in {"none", "done"}
      BY <2>1, IdleReader DEF LInv, ReaderTypes
    <2>3. Trainers' = {} /\ admin'.pc = "idle"
      BY <2>1, <2>2 DEF Trainers, IdleAdmin
    <2>4. Cardinality(Trainers)' = 0 /\ AdminDue' = 0
      BY <2>3, FS_EmptySet DEF AdminDue
    <2>5. Labels' = Labels
      BY <2>1 DEF Labels
    <2>6. StepsDue'
      <3>1. models.clf + 0 + 0 <= Labels /\ models.clf \in Nat
        BY <1>0 DEF Within0
      <3>. QED
        BY <2>1, <2>4, <2>5, <3>1 DEF LInv, StepsDue
    <2>7. StoredSteps'
      <3>1. \A s \in Savers : savers'[s].snap = Fresh0
        BY <2>1, FreshSavers
      <3>2. ASSUME NEW i \in Inodes PROVE Within0(disk'[i].models, Labels)
        <4>1. disk'[i] = disk[i] \/ disk'[i] = File("torn", Fresh0)
          BY <1>2 DEF Down
        <4>2. File("torn", Fresh0).models = Fresh0
          BY DEF File
        <4>. QED
          BY <1>0, <4>1, <4>2 DEF LInv, StoredSteps
      <3>. QED
        BY <1>0, <2>5, <3>1, <3>2 DEF StoredSteps
    <2>. QED
      BY <2>2, <2>3, <2>6, <2>7 DEF LInv, NoneDown
  <1>3. CASE Start
    <2>1. /\ running = "down" /\ running' = "up" /\ models' = Loaded
          /\ UNCHANGED <<readers, admin, rows, unrecorded, savers, disk>>
      BY <1>3 DEF Start, ghosts, store
    <2>2. Within0(Loaded, Labels)
      <3>1. dir.models # 0 => dir.models \in Inodes
        BY DEF FInv, StoreTypes, Inodes
      <3>. QED
        BY <1>0, <3>1 DEF Loaded, LInv, StoredSteps
    <2>3. Trainers' = {} /\ admin'.pc # "train" /\ Labels' = Labels
      BY <2>1 DEF LInv, NoneDown, Trainers, Labels
    <2>4. Cardinality(Trainers)' = 0 /\ AdminDue' = 0
      BY <2>3, FS_EmptySet DEF AdminDue
    <2>5. StepsDue'
      <3>1. models'.clf + 0 + 0 <= Labels /\ models'.clf \in Nat /\ DOMAIN models' = {"am", "clf"}
        BY <1>0, <2>1, <2>2 DEF Within0
      <3>. QED
        BY <2>1, <2>3, <2>4, <3>1 DEF LInv, StepsDue
    <2>. QED
      BY <2>1, <2>3, <2>5 DEF LInv, ReaderTypes, StoredSteps, NoneDown
  <1>. QED
    BY <1>1, <1>2, <1>3

LEMMA LabelsInit == Init => LInv
  <1>. SUFFICES ASSUME Init PROVE LInv
    OBVIOUS
  <1>1. /\ readers = [c \in Conns |-> [Idle EXCEPT !.pc = "none"]]
        /\ admin = IdleAdmin /\ rows = 0 /\ unrecorded = 0 /\ models = [am |-> 0, clf |-> 0]
        /\ savers = [s \in Savers |-> NotSaving]
        /\ disk = [i \in Inodes |-> File("none", Fresh0)] /\ running = "up"
    BY DEF Init, ManagerInit
  <1>2. ReaderTypes /\ Trainers = {} /\ admin.pc = "idle"
    BY <1>1, IdleReader DEF ReaderTypes, Trainers, IdleAdmin
  <1>3. Cardinality(Trainers) = 0 /\ AdminDue = 0
    BY <1>2, FS_EmptySet DEF AdminDue
  <1>4. StepsDue
    BY <1>1, <1>3 DEF StepsDue, Labels
  <1>5. StoredSteps
    <2>1. \A s \in Savers : savers[s].snap = Fresh0
      BY <1>1, FreshSavers
    <2>2. \A i \in Inodes : disk[i].models = Fresh0
      BY <1>1 DEF File
    <2>3. Within0(Fresh0, Labels)
      BY <1>1 DEF Within0, Fresh0, Labels
    <2>. QED
      BY <2>1, <2>2, <2>3 DEF StoredSteps
  <1>. QED
    BY <1>1, <1>2, <1>4, <1>5 DEF LInv, NoneDown

LEMMA LabelsStep == FInv /\ LInv /\ [Next]_vars => LInv'
  <1>. SUFFICES ASSUME FInv, LInv, [Next]_vars PROVE LInv'
    OBVIOUS
  <1>1. CASE Network /\ UNCHANGED <<running, nstops, store>>
    BY <1>1, NetworkFrame DEF store, LInv, ReaderTypes, StepsDue, StoredSteps, NoneDown, Trainers,
       AdminDue, Labels
  <1>2. CASE UNCHANGED vars
    BY <1>2 DEF vars, managerVars, LInv, ReaderTypes, StepsDue, StoredSteps, NoneDown, Trainers,
       AdminDue, Labels
  <1>. QED
    BY <1>1, <1>2, DaemonLabels, SaveLabels, ProcessLabels DEF Next, Steps

\* Every training step of L3 in the models, in a snapshot of them or in their
\* file has its label, killed and restarted or not, except those of operator
\* actions whose label could not be stored (learnFromOperAction trains after
\* it has recorded, RecordFeedback only if it could).
THEOREM TrainingOnRecord == Spec => []StepsOnRecord
  <1>1. LInv => StepsOnRecord
    BY ModelsWithin DEF Within0, StepsOnRecord, Labels
  <1>. QED
    BY <1>1, StoreInit, StoreStep, LabelsInit, LabelsStep, PTL DEF Spec


-----------------------------------------------------------------------------
(* One record. *)

RecordFields ==
  {"UID", "Nick", "FirstSeen", "LastActivity", "LastMsg", "MsgCount", "CTCPCount",
   "burstStartIdleGap", "recentMsgs", "recentJoins", "recentNicks", "recentHops",
   "recentUserMsg", "recentMentions", "msgHashes", "Account", "IsTLS", "cachedFeatures"}

WindowMessages == [at : Nat, body : Bodies]

\* The places in window ms where hash h is.
PlacesOf(ms, h) == {i \in DOMAIN ms : ms[i].body.hash = h}

\* The message window is one, and the hash counts are those of its messages.
WindowCounted(q) ==
  /\ q.recentMsgs \in Seq(WindowMessages) /\ Len(q.recentMsgs) <= MaxRecentMessages
  /\ DOMAIN q.msgHashes = Hashes
  /\ \A h \in Hashes : q.msgHashes[h] = Cardinality(PlacesOf(q.recentMsgs, h))

\* What is cached is what would be computed now, the account and TLS apart.
CacheCurrent(q) ==
  /\ q.FirstSeen \in Nat
  /\ \A fv \in q.cachedFeatures :
       /\ fv.age \in Int
       /\ SetAside(fv, q) = computeFeatures(q, fv.age + q.FirstSeen)

RecordOK(q) == DOMAIN q = RecordFields /\ WindowCounted(q) /\ CacheCurrent(q)

-----------------------------------------------------------------------------
(* Lines and events. *)

SentLines == [kind : Kinds, uid : UIDs \cup {NoNick}, nick : Nicks \cup {NoNick},
              host : {NoNick} \cup {Hosts[u] : u \in UIDs}, at : Nat, body : Bodies,
              target : Nicks \cup {NoNick}, account : BOOLEAN, tls : BOOLEAN]
Told == [line : SentLines \cup {[kind |-> "bad"]}, due : SUBSET RateRules]

\* An event of a user that has connected to network nt, its time and its text.
Dated(l) == l.at \in Nat /\ l.body \in Bodies
Known(l, nt) == l.uid \in UIDs /\ nt[l.uid] # "new"
LineOK(l, nt) == /\ l.kind # "bad" => Dated(l)
                 /\ l.kind \notin {"bad", "oper_kline"} => Known(l, nt)

\* The event that a reader is at.
EventOK(v, nt) ==
  /\ v.pc \notin {"none", "idle", "done"} => Dated(v.ev.line)
  /\ v.pc \in {"locate", "create", "count"} => Known(v.ev.line, nt)

LinesTyped == /\ DOMAIN lines = Conns
              /\ \A c \in Conns : lines[c] \in Seq(Told) /\ Len(lines[c]) <= MaxBacklog
LinesOK == \A c \in Conns : \A i \in 1..Len(lines[c]) : LineOK(lines[c][i].line, net)
EventsOK == \A c \in Conns : EventOK(readers[c], net)

EInv == /\ ReaderTypes /\ now \in Nat /\ conn \in Conns \cup {0} /\ DOMAIN net = UIDs
        /\ LinesTyped /\ LinesOK /\ EventsOK

-----------------------------------------------------------------------------
(* The table. *)

RecordsOK == DOMAIN recs = Records /\ \A r \in Records : RecordOK(recs[r])

\* A user's record is its own.
OwnRecords ==
  /\ DOMAIN users = UIDs /\ \A u \in UIDs : users[u] \in Records \cup {0}
  /\ \A u \in UIDs : users[u] # 0 => recs[users[u]].UID = u

\* The first line about u is still before a reader.
Pending(ls, u) == \E d \in Conns : \E i \in 1..Len(ls[d]) :
                    ls[d][i].line.kind = Opening /\ ls[d][i].line.uid = u

\* A user that has connected has a record, or had one, or has its first line
\* before a reader, or that line is lost.
Announced ==
  \A u \in UIDs : \/ net[u] = "new" \/ users[u] # 0
                  \/ u \in unheard \/ u \in forgotten \/ Pending(lines, u)

TInv == RecordsOK /\ OwnRecords
AInv == forgotten \subseteq UIDs /\ Announced /\ AttributedToSelf

-----------------------------------------------------------------------------
(* What the operations of UserState do to a record. *)

LEMMA NewRecord ==
  ASSUME NEW uid, NEW at \in Nat
  PROVE  RecordOK(NewUser(uid, at)) /\ NewUser(uid, at).UID = uid
  <1>1. PICK q : q = NewUser(uid, at)
    OBVIOUS
  <1>2. /\ DOMAIN q = RecordFields /\ q.UID = uid /\ q.FirstSeen = at
        /\ q.recentMsgs = <<>> /\ q.msgHashes = [h \in Hashes |-> 0] /\ q.cachedFeatures = {}
    BY <1>1 DEF NewUser, RecordFields
  <1>3. \A h : PlacesOf(<<>>, h) = {}
    BY DEF PlacesOf
  <1>4. WindowCounted(q)
    <2>1. <<>> \in Seq(WindowMessages) /\ Len(<<>>) = 0 /\ 0 <= MaxRecentMessages
      BY StateAssumption
    <2>. QED
      BY <1>2, <1>3, <2>1, FS_EmptySet DEF WindowCounted
  <1>. QED
    BY <1>1, <1>2, <1>4 DEF RecordOK, CacheCurrent

FeatureVector(age, account, tls, ms, joins, ctcps, nicks, hops) ==
  [age |-> age, account |-> account, tls |-> tls, msgs |-> ms, joins |-> joins,
   ctcps |-> ctcps, nicks |-> nicks, hops |-> hops]

\* A feature vector with another account and TLS.
LEMMA FeatureFields ==
  ASSUME NEW age, NEW b, NEW c, NEW ms, NEW joins, NEW ctcps, NEW nicks, NEW hops, NEW p,
         NEW f, f = FeatureVector(age, b, c, ms, joins, ctcps, nicks, hops)
  PROVE  SetAside(f, p) = FeatureVector(age, p.Account, p.IsTLS, ms, joins, ctcps, nicks, hops)
  <1>0. PICK b2, c2, g : /\ b2 = p.Account /\ c2 = p.IsTLS
                         /\ g = FeatureVector(age, b2, c2, ms, joins, ctcps, nicks, hops)
    OBVIOUS
  <1>1. /\ DOMAIN g = {"age", "account", "tls", "msgs", "joins", "ctcps", "nicks", "hops"}
        /\ DOMAIN f = DOMAIN g
    BY <1>0 DEF FeatureVector
  <1>2. PICK e : e = [f EXCEPT !.account = b2, !.tls = c2]
    OBVIOUS
  <1>3. DOMAIN e = DOMAIN g /\ e = [x \in DOMAIN e |-> e[x]]
    BY <1>1, <1>2
  <1>4. \A x \in DOMAIN g : e[x] = g[x]
    <2>1. e.account = b2 /\ e.tls = c2
      BY <1>1, <1>2
    <2>2. \A x \in DOMAIN f : x # "account" /\ x # "tls" => e[x] = f[x]
      BY <1>2
    <2>3. \A x \in {"age", "msgs", "joins", "ctcps", "nicks", "hops"} : f[x] = g[x]
      BY <1>0 DEF FeatureVector
    <2>4. g.account = b2 /\ g.tls = c2
      BY <1>0 DEF FeatureVector
    <2>. QED
      BY <1>1, <2>1, <2>2, <2>3, <2>4
  <1>5. g = [x \in DOMAIN g |-> g[x]]
    BY <1>0 DEF FeatureVector
  <1>6. [x \in DOMAIN g |-> e[x]] = [x \in DOMAIN g |-> g[x]]
    BY <1>4, Zenon
  <1>7. SetAside(f, p) = e
    BY <1>0, <1>2 DEF SetAside
  <1>. QED
    BY <1>0, <1>3, <1>5, <1>6, <1>7

\* What was computed has the record's own account and TLS.
LEMMA ComputedAside ==
  ASSUME NEW q, NEW t
  PROVE  SetAside(computeFeatures(q, t), q) = computeFeatures(q, t)
  <1>1. PICK f : f = computeFeatures(q, t)
    OBVIOUS
  <1>2. f = FeatureVector(t - q.FirstSeen, q.Account, q.IsTLS,
                          messagesInWindow(q.recentMsgs, t), rateOverWindow(q.recentJoins, t),
                          q.CTCPCount, rateOverWindow(q.recentNicks, t),
                          rateOverWindow(q.recentHops, t))
    BY <1>1 DEF computeFeatures, FeatureVector
  <1>. QED
    BY <1>1, <1>2, FeatureFields

\* Features of two records that differ in the account and TLS only.
LEMMA FeaturesAlike ==
  ASSUME NEW p, NEW q, NEW t, NEW f,
         p.FirstSeen = q.FirstSeen, p.recentMsgs = q.recentMsgs, p.recentJoins = q.recentJoins,
         p.CTCPCount = q.CTCPCount, p.recentNicks = q.recentNicks, p.recentHops = q.recentHops,
         SetAside(f, q) = computeFeatures(q, t)
  PROVE  SetAside(f, p) = computeFeatures(p, t)
  <1>1. PICK g : g = computeFeatures(q, t)
    OBVIOUS
  <1>2. computeFeatures(p, t) = SetAside(g, p)
    <2>1. /\ g = FeatureVector(t - q.FirstSeen, q.Account, q.IsTLS,
                               messagesInWindow(q.recentMsgs, t), rateOverWindow(q.recentJoins, t),
                               q.CTCPCount, rateOverWindow(q.recentNicks, t),
                               rateOverWindow(q.recentHops, t))
          /\ computeFeatures(p, t) =
               FeatureVector(t - q.FirstSeen, p.Account, p.IsTLS,
                             messagesInWindow(q.recentMsgs, t), rateOverWindow(q.recentJoins, t),
                             q.CTCPCount, rateOverWindow(q.recentNicks, t),
                             rateOverWindow(q.recentHops, t))
      BY <1>1 DEF computeFeatures, FeatureVector
    <2>. QED
      BY <2>1, FeatureFields
  <1>3. g = SetAside(f, q)
    BY <1>1
  <1>4. SetAside(g, p) = SetAside(f, p)
    BY <1>3 DEF SetAside
  <1>. QED
    BY <1>2, <1>4

\* Changes that leave the windows and the cache alone.
LEMMA RecordRenamed ==
  ASSUME NEW q, RecordOK(q), NEW p, DOMAIN p = RecordFields, p.UID = q.UID,
         p.FirstSeen = q.FirstSeen, p.recentMsgs = q.recentMsgs, p.msgHashes = q.msgHashes,
         p.cachedFeatures = q.cachedFeatures, p.recentJoins = q.recentJoins,
         p.CTCPCount = q.CTCPCount, p.recentNicks = q.recentNicks, p.recentHops = q.recentHops
  PROVE  RecordOK(p)
  <1>1. WindowCounted(p)
    BY DEF RecordOK, WindowCounted
  <1>2. ASSUME NEW fv \in p.cachedFeatures
        PROVE  /\ fv.age \in Int
               /\ SetAside(fv, p) =
                    computeFeatures(p, fv.age + p.FirstSeen)
    <2>1. /\ fv.age \in Int
          /\ SetAside(fv, q) =
               computeFeatures(q, fv.age + q.FirstSeen)
      BY DEF RecordOK, CacheCurrent
    <2>2. PICK t : t = fv.age + q.FirstSeen
      OBVIOUS
    <2>3. SetAside(fv, q) = computeFeatures(q, t)
      BY <2>1, <2>2
    <2>4. SetAside(fv, p) = computeFeatures(p, t)
      BY <2>3, FeaturesAlike
    <2>. QED
      BY <2>1, <2>2, <2>4
  <1>. QED
    BY <1>1, <1>2 DEF RecordOK, CacheCurrent

\* The features are computed unless they are cached.
LEMMA RecordWithFeatures ==
  ASSUME NEW q, RecordOK(q), NEW t \in Nat
  PROVE  RecordOK(WithFeatures(q, t)) /\ WithFeatures(q, t).UID = q.UID
  <1>1. PICK f : f = snapshotFeatures(q, t)
    OBVIOUS
  <1>2. /\ f.age \in Int
        /\ SetAside(f, q) = computeFeatures(q, f.age + q.FirstSeen)
    <2>1. CASE q.cachedFeatures # {}
      BY <1>1, <2>1 DEF snapshotFeatures, RecordOK, CacheCurrent
    <2>2. CASE q.cachedFeatures = {}
      <3>1. f = computeFeatures(q, t)
        BY <1>1, <2>2 DEF snapshotFeatures
      <3>2. f.age = t - q.FirstSeen /\ q.FirstSeen \in Nat
        BY <3>1 DEF computeFeatures, RecordOK, CacheCurrent
      <3>3. f.age + q.FirstSeen = t /\ f.age \in Int
        BY <3>2
      <3>4. SetAside(f, q) = f
        BY <3>1, ComputedAside
      <3>. QED
        BY <3>1, <3>3, <3>4
    <2>. QED
      BY <2>1, <2>2
  <1>3. PICK p : p = [q EXCEPT !.cachedFeatures = {f}]
    OBVIOUS
  <1>4. /\ DOMAIN p = RecordFields /\ p.UID = q.UID /\ p.FirstSeen = q.FirstSeen
        /\ p.recentMsgs = q.recentMsgs /\ p.msgHashes = q.msgHashes
        /\ p.cachedFeatures = {f} /\ p.recentJoins = q.recentJoins
        /\ p.CTCPCount = q.CTCPCount /\ p.recentNicks = q.recentNicks
        /\ p.recentHops = q.recentHops
    BY <1>3 DEF RecordOK, RecordFields
  <1>5. SetAside(f, p) = computeFeatures(p, f.age + p.FirstSeen)
    <2>1. PICK s : s = f.age + q.FirstSeen
      OBVIOUS
    <2>2. SetAside(f, q) = computeFeatures(q, s)
      BY <1>2, <2>1
    <2>3. SetAside(f, p) = computeFeatures(p, s)
      BY <1>4, <2>2, FeaturesAlike
    <2>. QED
      BY <1>4, <2>1, <2>3
  <1>6. RecordOK(p)
    BY <1>2, <1>4, <1>5 DEF RecordOK, WindowCounted, CacheCurrent
  <1>. QED
    BY <1>1, <1>3, <1>4, <1>6 DEF WithFeatures

\* An event that is no message empties the cache and leaves the messages.
LEMMA RecordTouched ==
  ASSUME NEW q, RecordOK(q), NEW p, DOMAIN p = RecordFields, p.UID = q.UID,
         p.FirstSeen = q.FirstSeen, p.recentMsgs = q.recentMsgs, p.msgHashes = q.msgHashes,
         p.cachedFeatures = {}
  PROVE  RecordOK(p)
  BY DEF RecordOK, WindowCounted, CacheCurrent

LEMMA QuietEvents ==
  ASSUME NEW q, RecordOK(q), NEW ev
  PROVE  /\ RecordOK(onJoin(q, ev)) /\ onJoin(q, ev).UID = q.UID
         /\ RecordOK(onPart(q, ev)) /\ onPart(q, ev).UID = q.UID
         /\ RecordOK(onNick(q, ev)) /\ onNick(q, ev).UID = q.UID
         /\ RecordOK(onCTCP(q, ev)) /\ onCTCP(q, ev).UID = q.UID
  <1>0. PICK w : w = touch(q, ev.at)
    OBVIOUS
  <1>1. /\ DOMAIN w = RecordFields /\ w.UID = q.UID /\ w.FirstSeen = q.FirstSeen
        /\ w.recentMsgs = q.recentMsgs /\ w.msgHashes = q.msgHashes /\ w.cachedFeatures = {}
    BY <1>0 DEF touch, RecordOK, RecordFields
  <1>2. RecordOK(onJoin(q, ev)) /\ onJoin(q, ev).UID = q.UID
    <2>1. PICK j, k : j = appendTimeBounded(w.recentJoins, ev.at, MaxRecentJoins)
                      /\ k = appendTimeBounded(w.recentHops, ev.at, MaxRecentEvents)
      OBVIOUS
    <2>2. PICK p : p = [w EXCEPT !.recentJoins = j, !.recentHops = k]
      OBVIOUS
    <2>3. p = onJoin(q, ev)
      BY <1>0, <1>1, <2>1, <2>2 DEF onJoin
    <2>4. /\ DOMAIN p = RecordFields /\ p.UID = w.UID /\ p.FirstSeen = w.FirstSeen
          /\ p.recentMsgs = w.recentMsgs /\ p.msgHashes = w.msgHashes /\ p.cachedFeatures = {}
      BY <1>1, <2>2 DEF RecordFields
    <2>. QED
      BY <1>1, <2>3, <2>4, RecordTouched
  <1>3. RecordOK(onPart(q, ev)) /\ onPart(q, ev).UID = q.UID
    <2>1. PICK k : k = appendTimeBounded(w.recentHops, ev.at, MaxRecentEvents)
      OBVIOUS
    <2>2. PICK p : p = [w EXCEPT !.recentHops = k]
      OBVIOUS
    <2>3. p = onPart(q, ev)
      BY <1>0, <1>1, <2>1, <2>2 DEF onPart
    <2>4. /\ DOMAIN p = RecordFields /\ p.UID = w.UID /\ p.FirstSeen = w.FirstSeen
          /\ p.recentMsgs = w.recentMsgs /\ p.msgHashes = w.msgHashes /\ p.cachedFeatures = {}
      BY <1>1, <2>2 DEF RecordFields
    <2>. QED
      BY <1>1, <2>3, <2>4, RecordTouched
  <1>4. RecordOK(onNick(q, ev)) /\ onNick(q, ev).UID = q.UID
    <2>1. PICK j, k : j = appendTimeBounded(w.recentNicks, ev.at, MaxRecentEvents)
                      /\ k = IF ev.nick # NoNick THEN ev.nick ELSE w.Nick
      OBVIOUS
    <2>2. PICK p : p = [w EXCEPT !.recentNicks = j, !.Nick = k]
      OBVIOUS
    <2>3. p = onNick(q, ev)
      BY <1>0, <1>1, <2>1, <2>2 DEF onNick
    <2>4. /\ DOMAIN p = RecordFields /\ p.UID = w.UID /\ p.FirstSeen = w.FirstSeen
          /\ p.recentMsgs = w.recentMsgs /\ p.msgHashes = w.msgHashes /\ p.cachedFeatures = {}
      BY <1>1, <2>2 DEF RecordFields
    <2>. QED
      BY <1>1, <2>3, <2>4, RecordTouched
  <1>5. RecordOK(onCTCP(q, ev)) /\ onCTCP(q, ev).UID = q.UID
    <2>1. PICK k : k = w.CTCPCount + 1
      OBVIOUS
    <2>2. PICK p : p = [w EXCEPT !.CTCPCount = k]
      OBVIOUS
    <2>3. p = onCTCP(q, ev)
      BY <1>0, <1>1, <2>1, <2>2 DEF onCTCP
    <2>4. /\ DOMAIN p = RecordFields /\ p.UID = w.UID /\ p.FirstSeen = w.FirstSeen
          /\ p.recentMsgs = w.recentMsgs /\ p.msgHashes = w.msgHashes /\ p.cachedFeatures = {}
      BY <1>1, <2>2 DEF RecordFields
    <2>. QED
      BY <1>1, <2>3, <2>4, RecordTouched
  <1>. QED
    BY <1>2, <1>3, <1>4, <1>5

LEMMA PlacesFinite ==
  ASSUME NEW s \in Seq(WindowMessages), NEW h
  PROVE  IsFiniteSet(PlacesOf(s, h)) /\ Cardinality(PlacesOf(s, h)) \in Nat
  <1>1. PlacesOf(s, h) \subseteq 1..Len(s) /\ Len(s) \in Nat
    BY DEF PlacesOf
  <1>2. IsFiniteSet(1..Len(s))
    BY <1>1, FS_Interval
  <1>3. IsFiniteSet(PlacesOf(s, h))
    BY <1>1, <1>2, FS_Subset
  <1>. QED
    BY <1>3, FS_CardinalityType

\* One message more.
LEMMA PlacesAppend ==
  ASSUME NEW s \in Seq(WindowMessages), NEW m \in WindowMessages, NEW h
  PROVE  /\ Append(s, m) \in Seq(WindowMessages)
         /\ Cardinality(PlacesOf(Append(s, m), h)) =
              Cardinality(PlacesOf(s, h)) + (IF m.body.hash = h THEN 1 ELSE 0)
  <1>1. PICK t : t = Append(s, m)
    OBVIOUS
  <1>2. /\ t \in Seq(WindowMessages) /\ Len(t) = Len(s) + 1 /\ t[Len(s) + 1] = m
        /\ DOMAIN t = 1..Len(s) + 1 /\ DOMAIN s = 1..Len(s) /\ Len(s) \in Nat
        /\ \A i \in 1..Len(s) : t[i] = s[i]
    BY <1>1
  <1>3. CASE m.body.hash = h
    <2>1. PlacesOf(t, h) = PlacesOf(s, h) \cup {Len(s) + 1} /\ Len(s) + 1 \notin PlacesOf(s, h)
      BY <1>2, <1>3 DEF PlacesOf
    <2>2. Cardinality(PlacesOf(t, h)) = Cardinality(PlacesOf(s, h)) + 1
      BY <2>1, PlacesFinite, FS_AddElement
    <2>. QED
      BY <1>1, <1>2, <1>3, <2>2
  <1>4. CASE m.body.hash # h
    <2>1. PlacesOf(t, h) = PlacesOf(s, h)
      BY <1>2, <1>4 DEF PlacesOf
    <2>2. Cardinality(PlacesOf(s, h)) \in Nat
      BY PlacesFinite
    <2>. QED
      BY <1>1, <1>2, <1>4, <2>1, <2>2
  <1>. QED
    BY <1>3, <1>4

\* One message less, the first.
LEMMA PlacesTail ==
  ASSUME NEW s \in Seq(WindowMessages), s # <<>>, NEW h
  PROVE  /\ Tail(s) \in Seq(WindowMessages) /\ Len(Tail(s)) = Len(s) - 1
         /\ Cardinality(PlacesOf(Tail(s), h)) =
              Cardinality(PlacesOf(s, h)) - (IF s[1].body.hash = h THEN 1 ELSE 0)
  <1>1. PICK t : t = Tail(s)
    OBVIOUS
  <1>2. /\ t \in Seq(WindowMessages) /\ Len(t) = Len(s) - 1 /\ Len(s) \in Nat \ {0}
        /\ DOMAIN t = 1..Len(s) - 1 /\ DOMAIN s = 1..Len(s)
        /\ \A i \in 1..Len(s) - 1 : t[i] = s[i + 1]
    BY <1>1
  <1>3. PICK A, B : A = PlacesOf(t, h) /\ B = PlacesOf(s, h) \ {1}
    OBVIOUS
  <1>4. A = {i \in 1..Len(s) - 1 : s[i + 1].body.hash = h}
    BY <1>2, <1>3 DEF PlacesOf
  <1>5. B = {i \in 2..Len(s) : s[i].body.hash = h}
    BY <1>2, <1>3 DEF PlacesOf
  <1>6. PICK f : f = [i \in A |-> i + 1]
    OBVIOUS
  <1>7. f \in Bijection(A, B)
    <2>1. \A i \in A : f[i] = i + 1 /\ i + 1 \in B /\ i \in Int
      BY <1>4, <1>5, <1>6
    <2>2. \A j \in B : j - 1 \in A /\ f[j - 1] = j
      BY <1>4, <1>5, <1>6
    <2>3. f \in [A -> B]
      BY <1>6, <2>1
    <2>4. \A i, j \in A : f[i] = f[j] => i = j
      BY <2>1
    <2>. QED
      BY <2>2, <2>3, <2>4 DEF Bijection, Injection, Surjection, IsInjective
  <1>8. IsFiniteSet(A) /\ IsFiniteSet(B) /\ Cardinality(A) = Cardinality(B)
    BY <1>2, <1>3, <1>7, PlacesFinite, FS_Bijection DEF ExistsBijection
  <1>9. Cardinality(B) = Cardinality(PlacesOf(s, h)) - (IF s[1].body.hash = h THEN 1 ELSE 0)
    <2>1. CASE s[1].body.hash = h
      <3>1. 1 \in PlacesOf(s, h)
        BY <1>2, <2>1 DEF PlacesOf
      <3>2. Cardinality(PlacesOf(s, h) \ {1}) = Cardinality(PlacesOf(s, h)) - 1
        BY <3>1, PlacesFinite, FS_RemoveElement
      <3>. QED
        BY <1>3, <2>1, <3>2
    <2>2. CASE s[1].body.hash # h
      <3>1. B = PlacesOf(s, h)
        BY <1>2, <1>3, <2>2 DEF PlacesOf
      <3>2. Cardinality(PlacesOf(s, h)) \in Nat
        BY PlacesFinite
      <3>. QED
        BY <2>2, <3>1, <3>2
    <2>. QED
      BY <2>1, <2>2
  <1>. QED
    BY <1>1, <1>2, <1>3, <1>8, <1>9

\* appendTimeBounded takes the first message off a full window.
LEMMA WindowMoves ==
  ASSUME NEW s \in Seq(WindowMessages), Len(s) <= MaxRecentMessages, NEW m \in WindowMessages
  PROVE  LET t == appendTimeBounded(s, m, MaxRecentMessages)
         IN IF Len(s) < MaxRecentMessages THEN t = Append(s, m)
            ELSE s # <<>> /\ t = Tail(Append(s, m))
  <1>0. MaxRecentMessages \in Nat \ {0}
    BY StateAssumption
  <1>1. PICK f : f = Append(s, m)
    OBVIOUS
  <1>2. f \in Seq(WindowMessages) /\ Len(f) = Len(s) + 1 /\ Len(s) \in Nat
    BY <1>1
  <1>3. CASE Len(s) < MaxRecentMessages
    <2>1. ~(Len(f) > MaxRecentMessages)
      BY <1>0, <1>2, <1>3
    <2>. QED
      BY <1>1, <1>3, <2>1 DEF appendTimeBounded
  <1>4. CASE ~(Len(s) < MaxRecentMessages)
    <2>1. Len(s) = MaxRecentMessages
      BY <1>0, <1>2, <1>4
    <2>2. Len(f) > MaxRecentMessages /\ Len(f) - MaxRecentMessages + 1 = 2
      BY <1>0, <1>2, <2>1
    <2>3. appendTimeBounded(s, m, MaxRecentMessages) = SubSeq(f, 2, Len(f))
      BY <1>1, <2>2 DEF appendTimeBounded
    <2>4. SubSeq(f, 2, Len(f)) = Tail(f)
      BY <1>2
    <2>5. s # <<>>
      BY <1>0, <2>1
    <2>. QED
      BY <1>1, <1>4, <2>3, <2>4, <2>5
  <1>. QED
    BY <1>3, <1>4

\* A message in, and out at the other end when the window is full: the counts
\* follow, also when both have the same hash.
LEMMA CountsFollow ==
  ASSUME NEW q, RecordOK(q), NEW at \in Nat, NEW body \in Bodies
  PROVE  LET t == appendTimeBounded(q.recentMsgs, [at |-> at, body |-> body], MaxRecentMessages)
         IN /\ t \in Seq(WindowMessages) /\ Len(t) <= MaxRecentMessages
            /\ DOMAIN HashesAfter(q, body) = Hashes
            /\ \A h \in Hashes : HashesAfter(q, body)[h] = Cardinality(PlacesOf(t, h))
  <1>0. /\ MaxRecentMessages \in Nat \ {0}
        /\ body.hash \in Hashes
    BY StateAssumption DEF Hashes
  <1>1. PICK s, m, t : /\ s = q.recentMsgs /\ m = [at |-> at, body |-> body]
                       /\ t = appendTimeBounded(s, m, MaxRecentMessages)
    OBVIOUS
  <1>2. /\ s \in Seq(WindowMessages) /\ Len(s) <= MaxRecentMessages /\ Len(s) \in Nat
        /\ DOMAIN q.msgHashes = Hashes
        /\ \A h \in Hashes : q.msgHashes[h] = Cardinality(PlacesOf(s, h))
    BY <1>1 DEF RecordOK, WindowCounted
  <1>3. m \in WindowMessages /\ m.body = body
    BY <1>1 DEF WindowMessages
  <1>4. PICK more : more = [q.msgHashes EXCEPT ![body.hash] = @ + 1]
    OBVIOUS
  <1>5. PICK f : f = Append(s, m)
    OBVIOUS
  <1>6. /\ f \in Seq(WindowMessages) /\ Len(f) = Len(s) + 1
        /\ \A i \in 1..Len(s) : f[i] = s[i]
    BY <1>2, <1>3, <1>5
  <1>7. DOMAIN more = Hashes
    BY <1>2, <1>4
  <1>8. ASSUME NEW h \in Hashes PROVE more[h] = Cardinality(PlacesOf(f, h)) /\ more[h] \in Nat
    <2>1. Cardinality(PlacesOf(f, h)) = Cardinality(PlacesOf(s, h)) + (IF body.hash = h THEN 1 ELSE 0)
      BY <1>2, <1>3, <1>5, PlacesAppend
    <2>2. Cardinality(PlacesOf(s, h)) \in Nat
      BY <1>2, PlacesFinite
    <2>3. more[h] = IF body.hash = h THEN q.msgHashes[h] + 1 ELSE q.msgHashes[h]
      BY <1>2, <1>4
    <2>4. q.msgHashes[h] = Cardinality(PlacesOf(s, h))
      BY <1>2
    <2>. QED
      BY <2>1, <2>2, <2>3, <2>4
  <1>9. CASE Len(s) < MaxRecentMessages
    <2>1. t = f
      BY <1>1, <1>2, <1>3, <1>5, <1>9, WindowMoves
    <2>2. HashesAfter(q, body) = more
      BY <1>1, <1>4, <1>9 DEF HashesAfter
    <2>3. Len(f) <= MaxRecentMessages
      BY <1>0, <1>2, <1>6, <1>9
    <2>. QED
      BY <1>1, <1>6, <1>7, <1>8, <2>1, <2>2, <2>3
  <1>10. CASE ~(Len(s) < MaxRecentMessages)
    <2>1. s # <<>> /\ t = Tail(f)
      BY <1>1, <1>2, <1>3, <1>5, <1>10, WindowMoves
    <2>2. f # <<>> /\ f[1] = s[1] /\ s[1] \in WindowMessages /\ Head(s) = s[1]
      BY <1>2, <1>6, <2>1
    <2>3. PICK g : g = s[1].body.hash
      OBVIOUS
    <2>4. g \in Hashes
      BY <2>2, <2>3 DEF WindowMessages, Hashes
    <2>5. HashesAfter(q, body) = [more EXCEPT ![g] = IF @ <= 1 THEN 0 ELSE @ - 1]
      BY <1>1, <1>4, <1>10, <2>2, <2>3 DEF HashesAfter
    <2>6. t \in Seq(WindowMessages) /\ Len(t) = Len(f) - 1
      BY <1>6, <2>1, <2>2, PlacesTail
    <2>7. Len(t) <= MaxRecentMessages
      BY <1>0, <1>2, <1>6, <2>6
    <2>8. ASSUME NEW h \in Hashes
          PROVE  HashesAfter(q, body)[h] = Cardinality(PlacesOf(t, h))
      <3>1. Cardinality(PlacesOf(t, h)) = Cardinality(PlacesOf(f, h)) - (IF g = h THEN 1 ELSE 0)
        BY <1>6, <2>1, <2>2, <2>3, PlacesTail
      <3>2. more[h] = Cardinality(PlacesOf(f, h)) /\ more[h] \in Nat
        BY <1>8
      <3>3. CASE g = h
        <4>1. 1 \in PlacesOf(f, h)
          <5>1. 1 \in DOMAIN f
            BY <1>2, <1>6
          <5>. QED
            BY <2>2, <2>3, <3>3, <5>1 DEF PlacesOf
        <4>2. PlacesOf(f, h) # {} /\ IsFiniteSet(PlacesOf(f, h))
          BY <1>6, <4>1, PlacesFinite
        <4>3. Cardinality(PlacesOf(f, h)) # 0
          BY <4>2, FS_EmptySet
        <4>4. HashesAfter(q, body)[h] = IF more[h] <= 1 THEN 0 ELSE more[h] - 1
          BY <1>7, <2>5, <3>3
        <4>. QED
          BY <3>1, <3>2, <3>3, <4>3, <4>4
      <3>4. CASE g # h
        <4>1. HashesAfter(q, body)[h] = more[h]
          BY <1>7, <2>5, <3>4
        <4>. QED
          BY <3>1, <3>2, <3>4, <4>1
      <3>. QED
        BY <3>3, <3>4
    <2>9. DOMAIN HashesAfter(q, body) = Hashes
      BY <1>7, <2>5
    <2>. QED
      BY <1>1, <2>6, <2>7, <2>8, <2>9
  <1>. QED
    BY <1>9, <1>10

LEMMA MessageCounted ==
  ASSUME NEW q, RecordOK(q), NEW ev, Dated(ev)
  PROVE  RecordOK(onMessage(q, ev)) /\ onMessage(q, ev).UID = q.UID
  <1>0. PICK w : w = touch(q, ev.at)
    OBVIOUS
  <1>1. /\ DOMAIN w = RecordFields /\ w.UID = q.UID /\ w.FirstSeen = q.FirstSeen
        /\ w.recentMsgs = q.recentMsgs /\ w.cachedFeatures = {}
    BY <1>0 DEF touch, RecordOK, RecordFields
  <1>2. PICK a, b, um, me, rm, hs :
          /\ a = BurstGap(q, ev.at) /\ b = w.MsgCount + 1
          /\ um = IF ev.kind = "usermsg" /\ ev.target # NoNick
                  THEN appendTimeBounded(w.recentUserMsg, [at |-> ev.at, target |-> ev.target,
                                                  body |-> ev.body], MaxRecentMessages)
                  ELSE w.recentUserMsg
          /\ me = IF ev.kind = "chanmsg" /\ ev.body.mentions >= 3
                  THEN appendTimeBounded(w.recentMentions, ev.at, MaxRecentMessages)
                  ELSE w.recentMentions
          /\ rm = appendTimeBounded(w.recentMsgs, [at |-> ev.at, body |-> ev.body],
                                    MaxRecentMessages)
          /\ hs = HashesAfter(q, ev.body)
    OBVIOUS
  <1>3. PICK p : p = [w EXCEPT !.burstStartIdleGap = a, !.MsgCount = b, !.LastMsg = ev.at,
                               !.msgHashes = hs, !.recentUserMsg = um, !.recentMentions = me,
                               !.recentMsgs = rm]
    OBVIOUS
  <1>4. p = onMessage(q, ev)
    BY <1>0, <1>1, <1>2, <1>3 DEF onMessage
  <1>5. /\ DOMAIN p = RecordFields /\ p.UID = q.UID /\ p.FirstSeen = q.FirstSeen
        /\ p.recentMsgs = rm /\ p.msgHashes = hs /\ p.cachedFeatures = {}
    BY <1>1, <1>3 DEF RecordFields
  <1>6. WindowCounted(p)
    <2>1. /\ rm \in Seq(WindowMessages) /\ Len(rm) <= MaxRecentMessages /\ DOMAIN hs = Hashes
          /\ \A h \in Hashes : hs[h] = Cardinality(PlacesOf(rm, h))
      BY <1>1, <1>2, CountsFollow DEF Dated
    <2>. QED
      BY <1>5, <2>1 DEF WindowCounted
  <1>7. CacheCurrent(p)
    BY <1>5 DEF CacheCurrent, RecordOK
  <1>. QED
    BY <1>4, <1>5, <1>6, <1>7 DEF RecordOK

LEMMA EventCounted ==
  ASSUME NEW q, RecordOK(q), NEW ev, Dated(ev)
  PROVE  RecordOK(Counted(q, ev)) /\ Counted(q, ev).UID = q.UID
  <1>1. Counted(q, ev) \in {onMessage(q, ev), onJoin(q, ev), onPart(q, ev), onCTCP(q, ev),
                            onNick(q, ev), q}
    BY DEF Counted
  <1>. QED
    BY <1>1, MessageCounted, QuietEvents

-----------------------------------------------------------------------------
(* Lines and events stay what they are: every line is about a user that has *)
(* connected, and so is the event that a reader took from it.               *)

LEMMA ToldParts ==
  ASSUME NEW s \in Seq(Told), s # <<>>
  PROVE  /\ Head(s) = s[1] /\ 1 \in 1..Len(s)
         /\ Tail(s) \in Seq(Told) /\ Len(Tail(s)) <= Len(s)
         /\ \A i \in 1..Len(Tail(s)) : i + 1 \in 1..Len(s) /\ Tail(s)[i] = s[i + 1]
  OBVIOUS

\* Whoever was known stays known.
Remembered == \A u \in UIDs : net[u] # "new" => net'[u] # "new"

LEMMA StillOK ==
  ASSUME Remembered
  PROVE  /\ \A l : LineOK(l, net) => LineOK(l, net')
         /\ \A v : EventOK(v, net) => EventOK(v, net')
  BY DEF Remembered, LineOK, EventOK, Known

LEMMA LineAppended ==
  ASSUME EInv, Remembered, DOMAIN net' = UIDs, NEW t \in Told, LineOK(t.line, net'),
         conn # 0, Len(lines[conn]) < MaxBacklog,
         lines' = [lines EXCEPT ![conn] = Append(lines[conn], t)],
         UNCHANGED <<now, conn, readers>>
  PROVE  EInv'
  <1>0. conn \in Conns /\ MaxBacklog \in Nat /\ DOMAIN lines = Conns /\ lines[conn] \in Seq(Told)
    BY ManagerAssumption DEF EInv, LinesTyped
  <1>1. PICK s : s = Append(lines[conn], t)
    OBVIOUS
  <1>2. /\ s \in Seq(Told) /\ Len(s) = Len(lines[conn]) + 1 /\ Len(lines[conn]) \in Nat
        /\ s[Len(s)] = t /\ \A i \in 1..Len(lines[conn]) : s[i] = lines[conn][i]
    BY <1>0, <1>1
  <1>3. /\ DOMAIN lines' = Conns /\ lines'[conn] = s
        /\ \A c \in Conns \ {conn} : lines'[c] = lines[c]
    BY <1>0, <1>1
  <1>4. Len(s) <= MaxBacklog
    BY <1>0, <1>2
  <1>5. LinesTyped'
    BY <1>2, <1>3, <1>4 DEF EInv, LinesTyped
  <1>6. ASSUME NEW c \in Conns, NEW i \in 1..Len(lines'[c]) PROVE LineOK(lines'[c][i].line, net')
    <2>1. CASE c # conn
      <3>1. LineOK(lines[c][i].line, net) /\ lines'[c] = lines[c]
        BY <1>3, <1>6, <2>1 DEF EInv, LinesOK
      <3>. QED
        BY <3>1, StillOK
    <2>2. CASE c = conn /\ i = Len(s)
      BY <1>2, <1>3, <2>2
    <2>3. CASE c = conn /\ i # Len(s)
      <3>1. i \in 1..Len(lines[conn])
        BY <1>2, <1>3, <1>6, <2>3
      <3>2. LineOK(lines[conn][i].line, net) /\ s[i] = lines[conn][i]
        BY <1>0, <1>2, <3>1 DEF EInv, LinesOK
      <3>. QED
        BY <1>3, <2>3, <3>2, StillOK
    <2>. QED
      BY <2>1, <2>2, <2>3
  <1>7. EventsOK'
    BY StillOK DEF EInv, EventsOK
  <1>8. ReaderTypes' /\ now' \in Nat /\ conn' \in Conns \cup {0}
    BY DEF EInv, ReaderTypes
  <1>. QED
    BY <1>5, <1>6, <1>7, <1>8 DEF EInv, LinesOK

LEMMA LinesUntouched ==
  ASSUME EInv, Remembered, DOMAIN net' = UIDs, now' \in Nat, UNCHANGED <<lines, conn, readers>>
  PROVE  EInv'
  <1>1. LinesOK' /\ EventsOK'
    BY StillOK DEF EInv, LinesOK, EventsOK
  <1>. QED
    BY <1>1 DEF EInv, ReaderTypes, LinesTyped

LEMMA DueTyped == ASSUME NEW did, NEW line PROVE Due(did, line) \in SUBSET RateRules
  BY DEF Due

LEMMA TellEvents ==
  ASSUME EInv, NEW u \in UIDs, NEW l \in SentLines, LineOK(l, net'), Tell(u, l),
         Remembered, DOMAIN net' = UIDs
  PROVE  EInv'
  <1>1. PICK did : did = IF l.kind \in Rated THEN Append(lately[u], l) ELSE lately[u]
    OBVIOUS
  <1>2. PICK t : t = [line |-> l, due |-> Due(did, l)]
    OBVIOUS
  <1>3. t \in Told /\ t.line = l
    BY <1>2, DueTyped DEF Told
  <1>4. /\ UNCHANGED <<now, conn, readers>>
        /\ IF conn # 0 THEN /\ Len(lines[conn]) < MaxBacklog
                            /\ lines' = [lines EXCEPT ![conn] = Append(lines[conn], t)]
                       ELSE UNCHANGED lines
    BY <1>1, <1>2 DEF Tell
  <1>5. CASE conn # 0
    BY <1>3, <1>4, <1>5, LineAppended
  <1>6. CASE conn = 0
    BY <1>4, <1>6, LinesUntouched DEF EInv
  <1>. QED
    BY <1>5, <1>6

LEMMA LineParts ==
  ASSUME NEW u \in UIDs \cup {NoNick}, NEW kind \in Kinds, NEW nick \in Nicks \cup {NoNick},
         NEW body \in Bodies, NEW target \in Nicks \cup {NoNick}, now \in Nat
  PROVE  LET l == Line(u, kind, nick, body, target)
         IN /\ l \in SentLines /\ l.kind = kind /\ l.uid = u /\ l.nick = nick /\ Dated(l)
            /\ l.at = now /\ l.target = target
  BY DEF Line, SentLines, Dated

LEMMA PlainBody == Plain \in Bodies
  BY StateAssumption DEF Plain

\* A user leaves "new" by its opening line only, and never comes back to it.
LEMMA ChangeStateMoves ==
  ASSUME NEW u \in UIDs, NEW kind \in Kinds, NEW nick \in Nicks \cup {NoNick},
         ChangeState(u, kind, nick), DOMAIN net = UIDs
  PROVE  /\ DOMAIN net' = UIDs /\ net'[u] # "new" /\ Remembered
         /\ \A v \in UIDs \ {u} : net'[v] = net[v]
         /\ net[u] = "new" => kind = Opening
         /\ kind # "bad" /\ kind # "oper_kline"
  <1>0. "new" \notin Nicks
    BY ManagerAssumption
  <1>1. kind \in {"connect", "register", "nick", "quit", "oper_kill"}
    BY DEF ChangeState
  <1>2. /\ kind = "connect" => net[u] = "new"
        /\ kind = "register" => net[u] = (IF Opening = "connect" THEN "open" ELSE "new") /\ nick \in Nicks
        /\ kind = "nick" => net[u] \in Nicks /\ nick \in Nicks
        /\ kind \in {"quit", "oper_kill"} => net[u] \in Nicks
    BY <1>1 DEF ChangeState
  <1>3. PICK x : x = CASE kind = "connect" -> "open"
                       [] kind \in {"register", "nick"} -> nick
                       [] OTHER -> "gone"
    OBVIOUS
  <1>4. net' = [net EXCEPT ![u] = x]
    BY <1>3 DEF ChangeState
  <1>5. x # "new"
    BY <1>0, <1>1, <1>2, <1>3
  <1>6. net[u] = "new" => kind = Opening
    BY <1>0, <1>1, <1>2 DEF Opening
  <1>. QED
    BY <1>1, <1>4, <1>5, <1>6 DEF Remembered

\* The line of an action is one of a user that is on the network.
ActLine(u, kind, body, target) ==
  IF kind = "oper_kline" THEN [Line(NoNick, kind, NoNick, body, target) EXCEPT !.host = Hosts[u]]
                         ELSE Line(u, kind, net[u], body, target)

LEMMA ActMoves ==
  ASSUME EInv, NEW u \in UIDs, NEW kind \in Kinds, NEW body \in Bodies,
         NEW target \in Nicks \cup {NoNick}, Act(u, kind, body, target)
  PROVE  LET l == ActLine(u, kind, body, target)
         IN /\ Tell(u, l) /\ UNCHANGED net
            /\ l \in SentLines /\ LineOK(l, net) /\ l.kind = kind /\ kind # Opening
  <1>0. now \in Nat /\ net[u] \in Nicks /\ "new" \notin Nicks
    BY ManagerAssumption DEF EInv, Act
  <1>1. Tell(u, ActLine(u, kind, body, target)) /\ UNCHANGED net
    BY DEF Act, ActLine
  <1>2. kind # Opening
    BY DEF Act, Opening
  <1>3. CASE kind = "oper_kline"
    <2>1. PICK l0 : l0 = Line(NoNick, kind, NoNick, body, target)
      OBVIOUS
    <2>2. l0 \in SentLines /\ l0.kind = kind /\ Dated(l0)
      BY <1>0, <2>1 DEF Line, SentLines, Dated
    <2>3. PICK l : l = [l0 EXCEPT !.host = Hosts[u]]
      OBVIOUS
    <2>4. l \in SentLines /\ l.kind = kind /\ l.at = l0.at /\ l.body = l0.body
      BY <2>2, <2>3 DEF SentLines
    <2>5. l = ActLine(u, kind, body, target)
      BY <1>3, <2>1, <2>3 DEF ActLine
    <2>6. LineOK(l, net)
      BY <1>3, <2>2, <2>4 DEF LineOK, Dated
    <2>. QED
      BY <1>1, <1>2, <2>4, <2>5, <2>6
  <1>4. CASE kind # "oper_kline"
    <2>1. PICK l : l = Line(u, kind, net[u], body, target)
      OBVIOUS
    <2>2. l \in SentLines /\ l.kind = kind /\ l.uid = u /\ Dated(l)
      BY <1>0, <2>1, LineParts
    <2>3. LineOK(l, net)
      BY <1>0, <2>2 DEF LineOK, Known
    <2>4. l = ActLine(u, kind, body, target)
      BY <1>4, <2>1 DEF ActLine
    <2>. QED
      BY <1>1, <1>2, <2>2, <2>3, <2>4
  <1>. QED
    BY <1>3, <1>4

\* The line about a change: as plain as the others, unless it is that of a new
\* nick with the new nick as its target.
LEMMA ChangeStateTells ==
  ASSUME EInv, NEW u \in UIDs, NEW kind \in Kinds, NEW nick \in Nicks \cup {NoNick},
         ChangeState(u, kind, nick)
  PROVE  \E l : /\ Tell(u, l) /\ l \in SentLines /\ LineOK(l, net') /\ l.kind = kind /\ l.uid = u
                /\ l.at = now /\ (~Retargets(l) => l = Line(u, kind, nick, Plain, NoNick))
  <1>0. now \in Nat /\ DOMAIN net = UIDs
    BY DEF EInv
  <1>1. net'[u] # "new"
    BY <1>0, ChangeStateMoves
  <1>2. CASE Tell(u, Line(u, kind, nick, Plain, NoNick))
    <2>1. PICK l : l = Line(u, kind, nick, Plain, NoNick)
      OBVIOUS
    <2>2. l \in SentLines /\ l.kind = kind /\ l.uid = u /\ Dated(l) /\ l.at = now
      BY <1>0, <2>1, PlainBody, LineParts
    <2>3. LineOK(l, net')
      BY <1>1, <2>2 DEF LineOK, Known
    <2>. QED
      BY <1>2, <2>1, <2>2, <2>3
  <1>3. CASE kind = "nick" /\ Tell(u, Line(u, kind, net[u], Plain, nick))
    <2>1. PICK l : l = Line(u, kind, net[u], Plain, nick)
      OBVIOUS
    <2>2. net[u] \in Nicks /\ nick \in Nicks /\ NoNick \notin Nicks
      BY <1>3, ManagerAssumption DEF ChangeState
    <2>3. /\ l \in SentLines /\ l.kind = kind /\ l.uid = u /\ Dated(l) /\ l.at = now
          /\ l.target = nick
      BY <1>0, <2>1, <2>2, PlainBody, LineParts
    <2>4. LineOK(l, net') /\ Retargets(l)
      BY <1>1, <1>3, <2>2, <2>3 DEF LineOK, Known, Retargets
    <2>. QED
      BY <1>3, <2>1, <2>3, <2>4
  <1>4. \/ Tell(u, Line(u, kind, nick, Plain, NoNick))
        \/ kind = "nick" /\ Tell(u, Line(u, kind, net[u], Plain, nick))
    BY DEF ChangeState
  <1>. QED
    BY <1>2, <1>3, <1>4

LEMMA NetworkEvents == ASSUME EInv, Network PROVE EInv'
  <1>0. DOMAIN net = UIDs /\ now \in Nat
    BY DEF EInv
  <1>1. ASSUME NEW u \in UIDs, NEW kind \in Kinds, NEW nick \in Nicks \cup {NoNick},
               ChangeState(u, kind, nick)
        PROVE  EInv'
    <2>2. PICK l : Tell(u, l) /\ l \in SentLines /\ LineOK(l, net')
      BY <1>1, ChangeStateTells
    <2>3. Remembered /\ DOMAIN net' = UIDs
      BY <1>0, <1>1, ChangeStateMoves
    <2>. QED
      BY <2>2, <2>3, TellEvents
  <1>2. ASSUME NEW u \in UIDs, NEW kind \in Kinds, NEW body \in Bodies,
               NEW target \in Nicks \cup {NoNick}, Act(u, kind, body, target)
        PROVE  EInv'
    <2>1. PICK l : l = ActLine(u, kind, body, target)
      OBVIOUS
    <2>2. Tell(u, l) /\ l \in SentLines /\ LineOK(l, net) /\ UNCHANGED net
      BY <1>2, <2>1, ActMoves
    <2>3. Remembered /\ DOMAIN net' = UIDs
      BY <1>0, <2>2 DEF Remembered
    <2>. QED
      BY <2>2, <2>3, TellEvents
  <1>3. ASSUME Garble PROVE EInv'
    <2>1. PICK t : t = [line |-> [kind |-> "bad"], due |-> {}]
      OBVIOUS
    <2>2. t \in Told /\ t.line.kind = "bad"
      BY <2>1 DEF Told
    <2>3. LineOK(t.line, net')
      BY <2>2 DEF LineOK
    <2>4. Remembered /\ DOMAIN net' = UIDs
      BY <1>0, <1>3 DEF Garble, Remembered
    <2>5. /\ conn # 0 /\ Len(lines[conn]) < MaxBacklog /\ UNCHANGED <<now, conn, readers>>
          /\ lines' = [lines EXCEPT ![conn] = Append(lines[conn], t)]
      BY <1>3, <2>1 DEF Garble
    <2>. QED
      BY <2>2, <2>3, <2>4, <2>5, LineAppended
  <1>4. ASSUME Tick PROVE EInv'
    <2>1. now' \in Nat /\ UNCHANGED <<net, lines, conn, readers>>
      BY <1>0, <1>4 DEF Tick
    <2>. QED
      BY <1>0, <2>1, LinesUntouched DEF Remembered
  <1>. QED
    BY <1>1, <1>2, <1>3, <1>4 DEF Network

\* The next line of a connection.
LEMMA NextLine ==
  ASSUME EInv, NEW c \in Conns, lines[c] # <<>>
  PROVE  LineOK(Head(lines[c]).line, net)
  <1>1. lines[c] \in Seq(Told)
    BY DEF EInv, LinesTyped
  <1>2. Head(lines[c]) = lines[c][1] /\ 1 \in 1..Len(lines[c])
    BY <1>1, ToldParts
  <1>. QED
    BY <1>2 DEF EInv, LinesOK

LEMMA LineTaken ==
  ASSUME EInv, NEW c \in Conns, lines[c] # <<>>, Take(c), UNCHANGED net
  PROVE  LinesTyped' /\ LinesOK'
  <1>0. DOMAIN lines = Conns /\ lines[c] \in Seq(Told) /\ Len(lines[c]) <= MaxBacklog /\ MaxBacklog \in Nat
    BY ManagerAssumption DEF EInv, LinesTyped
  <1>1. PICK s : s = Tail(lines[c])
    OBVIOUS
  <1>2. /\ s \in Seq(Told) /\ Len(s) <= Len(lines[c])
        /\ \A i \in 1..Len(s) : i + 1 \in 1..Len(lines[c]) /\ s[i] = lines[c][i + 1]
    BY <1>0, <1>1, ToldParts
  <1>3. /\ DOMAIN lines' = Conns /\ lines'[c] = s
        /\ \A d \in Conns \ {c} : lines'[d] = lines[d]
    BY <1>0, <1>1 DEF Take
  <1>4. Len(s) <= MaxBacklog
    BY <1>0, <1>2
  <1>5. LinesTyped'
    BY <1>2, <1>3, <1>4 DEF EInv, LinesTyped
  <1>6. ASSUME NEW d \in Conns, NEW i \in 1..Len(lines'[d]) PROVE LineOK(lines'[d][i].line, net')
    <2>1. CASE d # c
      BY <1>3, <1>6, <2>1 DEF EInv, LinesOK
    <2>2. CASE d = c
      <3>1. i + 1 \in 1..Len(lines[c]) /\ lines'[d][i] = lines[c][i + 1]
        BY <1>2, <1>3, <1>6, <2>2
      <3>. QED
        BY <3>1 DEF EInv, LinesOK
    <2>. QED
      BY <2>1, <2>2
  <1>. QED
    BY <1>5, <1>6 DEF LinesOK

LEMMA ReaderEvents ==
  ASSUME EInv, NEW c \in Conns, NEW v, DOMAIN v = ReaderFields,
         readers' = [readers EXCEPT ![c] = v], EventOK(v, net), UNCHANGED net
  PROVE  ReaderTypes' /\ EventsOK'
  <1>1. ReaderTypes' /\ readers'[c] = v /\ \A d \in Conns \ {c} : readers'[d] = readers[d]
    BY ReaderGoesOn DEF EInv
  <1>. QED
    BY <1>1 DEF EInv, EventsOK

\* A reader goes on with its event, or to none.
LEMMA SameEvent ==
  ASSUME EInv, NEW c \in Conns, NEW v, DOMAIN v = ReaderFields,
         readers' = [readers EXCEPT ![c] = v],
         \/ v.pc \in {"none", "idle", "done"}
         \/ /\ v.ev = readers[c].ev /\ readers[c].pc \notin {"none", "idle", "done"}
            /\ v.pc \in {"locate", "create", "count"} => readers[c].pc \in {"locate", "create", "count"},
         UNCHANGED <<net, now, conn, lines>>
  PROVE  EInv'
  <1>1. EventOK(readers[c], net)
    BY DEF EInv, EventsOK
  <1>2. EventOK(v, net)
    BY <1>1 DEF EventOK
  <1>3. ReaderTypes' /\ EventsOK'
    BY <1>2, ReaderEvents
  <1>4. LinesOK' /\ LinesTyped'
    BY DEF EInv, LinesOK, LinesTyped
  <1>. QED
    BY <1>3, <1>4 DEF EInv

LEMMA TakenEvent ==
  ASSUME EInv, NEW c \in Conns, Ready(c), Take(c), NEW v, DOMAIN v = ReaderFields,
         readers' = [readers EXCEPT ![c] = v], v.ev = Head(lines[c]),
         Head(lines[c]).line.kind # "bad",
         v.pc \in {"locate", "create", "count"} => Head(lines[c]).line.kind \notin Opers,
         UNCHANGED <<net, now, conn>>
  PROVE  EInv'
  <1>0. lines[c] # <<>>
    BY DEF Ready
  <1>1. LineOK(Head(lines[c]).line, net)
    BY <1>0, NextLine
  <1>2. EventOK(v, net)
    BY <1>1 DEF EventOK, LineOK, Opers
  <1>3. ReaderTypes' /\ EventsOK'
    BY <1>2, ReaderEvents
  <1>4. LinesOK' /\ LinesTyped'
    BY <1>0, LineTaken
  <1>. QED
    BY <1>3, <1>4 DEF EInv

LEMMA AcceptEvents ==
  ASSUME EInv, NEW c \in Conns, NEW kept \in 0..MaxBacklog, Accept(c, kept)
  PROVE  EInv'
  <1>0. readers' = [readers EXCEPT ![c] = Idle] /\ conn' = c /\ UNCHANGED <<net, now>>
    BY DEF Accept, network
  <1>1. ReaderTypes' /\ EventsOK'
    BY <1>0, ReaderEvents, IdleReader DEF EventOK
  <1>2. LinesTyped' /\ LinesOK'
    <2>1. CASE conn = 0
      <3>1. UNCHANGED lines
        BY <2>1 DEF Accept
      <3>. QED
        BY <1>0, <3>1 DEF EInv, LinesTyped, LinesOK
    <2>2. CASE conn # 0
      <3>0. conn \in Conns /\ lines[conn] \in Seq(Told) /\ DOMAIN lines = Conns
            /\ Len(lines[conn]) <= MaxBacklog /\ MaxBacklog \in Nat
        BY <2>2, ManagerAssumption DEF EInv, LinesTyped
      <3>1. PICK s : s = SubSeq(lines[conn], 1, kept)
        OBVIOUS
      <3>2. kept \in 0..Len(lines[conn]) /\ lines' = [lines EXCEPT ![conn] = s]
        BY <2>2, <3>1 DEF Accept
      <3>3. s \in Seq(Told) /\ Len(s) = kept /\ \A i \in 1..kept : s[i] = lines[conn][i]
        BY <3>0, <3>1, <3>2
      <3>4. lines'[conn] = s /\ DOMAIN lines' = Conns /\ \A d \in Conns \ {conn} : lines'[d] = lines[d]
        BY <3>0, <3>2
      <3>5. Len(s) <= MaxBacklog
        BY <3>0, <3>2, <3>3
      <3>6. LinesTyped'
        BY <3>3, <3>4, <3>5 DEF EInv, LinesTyped
      <3>7. ASSUME NEW d \in Conns, NEW i \in 1..Len(lines'[d]) PROVE LineOK(lines'[d][i].line, net)
        <4>1. CASE d # conn
          BY <3>4, <3>7, <4>1 DEF EInv, LinesOK
        <4>2. CASE d = conn
          <5>1. i \in 1..Len(lines[conn]) /\ lines'[d][i] = lines[conn][i]
            BY <3>0, <3>2, <3>3, <3>4, <3>7, <4>2
          <5>. QED
            BY <3>0, <5>1 DEF EInv, LinesOK
        <4>. QED
          BY <4>1, <4>2
      <3>. QED
        BY <1>0, <3>6, <3>7 DEF LinesOK
    <2>. QED
      BY <2>1, <2>2
  <1>. QED
    BY <1>0, <1>1, <1>2 DEF EInv

LEMMA DaemonEvents == ASSUME EInv, Daemon PROVE EInv'
  <1>0. ReaderTypes
    BY DEF EInv
  <1>1. ASSUME UNCHANGED <<net, now, lines, conn, readers>> PROVE EInv'
    BY <1>1 DEF EInv, ReaderTypes, LinesTyped, LinesOK, EventsOK
  <1>2. ASSUME NEW c \in Conns, ReadLoopEnds(c) PROVE EInv'
    <2>1. PICK v : readers' = [readers EXCEPT ![c] = v] /\ DOMAIN v = ReaderFields /\ v.pc = "done"
      BY <1>0, <1>2, ReaderMoves
    <2>2. UNCHANGED <<net, now, lines>> /\ conn' \in Conns \cup {0}
      BY <1>2 DEF ReadLoopEnds, network, EInv
    <2>3. ReaderTypes' /\ EventsOK'
      BY <2>1, <2>2, ReaderEvents DEF EventOK
    <2>. QED
      BY <2>2, <2>3 DEF EInv, LinesTyped, LinesOK
  <1>3. ASSUME NEW c \in Conns, ObserveIdentity(c) PROVE EInv'
    <2>1. lines[c] # <<>> /\ Take(c) /\ UNCHANGED <<net, now, conn, readers>>
      BY <1>3 DEF ObserveIdentity, Ready, network
    <2>2. LinesTyped' /\ LinesOK'
      BY <2>1, LineTaken
    <2>. QED
      BY <2>1, <2>2 DEF EInv, ReaderTypes, EventsOK
  <1>4. ASSUME NEW c \in Conns, ObserveActivity(c) PROVE EInv'
    <2>1. PICK v : /\ readers' = [readers EXCEPT ![c] = v] /\ DOMAIN v = ReaderFields
                   /\ v.pc = "locate" /\ v.ev = Head(lines[c])
      BY <1>0, <1>4, ReaderMoves
    <2>2. /\ Ready(c) /\ Take(c) /\ UNCHANGED <<net, now, conn>>
          /\ Head(lines[c]).line.kind # "bad" /\ Head(lines[c]).line.kind \notin Opers
      BY <1>4 DEF ObserveActivity, network
    <2>. QED
      BY <2>1, <2>2, TakenEvent
  <1>5. ASSUME NEW c \in Conns, ObserveOper(c) PROVE EInv'
    <2>1. PICK v : /\ readers' = [readers EXCEPT ![c] = v] /\ DOMAIN v = ReaderFields
                   /\ v.pc = "record" /\ v.ev = Head(lines[c])
      BY <1>0, <1>5, ReaderMoves
    <2>2. /\ Ready(c) /\ Take(c) /\ UNCHANGED <<net, now, conn>>
          /\ Head(lines[c]).line.kind # "bad"
      BY <1>5 DEF ObserveOper, network, Opers
    <2>. QED
      BY <2>1, <2>2, TakenEvent
  <1>6. ASSUME NEW c \in Conns, Locate(c) PROVE EInv'
    <2>1. readers[c].pc = "locate" /\ UNCHANGED <<net, now, conn, lines>>
      BY <1>6 DEF Locate, network
    <2>2. PICK v : /\ readers' = [readers EXCEPT ![c] = v] /\ DOMAIN v = ReaderFields
                   /\ (v.pc \in {"count", "create"} /\ v.ev = readers[c].ev) \/ v.pc = "idle"
      BY <1>0, <1>6, LocateMoves, IdleReader
    <2>. QED
      BY <2>1, <2>2, SameEvent
  <1>7. ASSUME NEW c \in Conns, Create(c) \/ Count(c) PROVE EInv'
    <2>1. readers[c].pc \in {"create", "count"} /\ UNCHANGED <<net, now, conn, lines>>
      BY <1>7 DEF Create, Count, network
    <2>2. PICK v : /\ readers' = [readers EXCEPT ![c] = v] /\ DOMAIN v = ReaderFields
                   /\ v.ev = readers[c].ev
      BY <1>0, <1>7, ReaderMoves
    <2>. QED
      BY <2>1, <2>2, SameEvent
  <1>8. ASSUME NEW c \in Conns, Judge(c) \/ LearnTrain(c) PROVE EInv'
    <2>1. UNCHANGED <<net, now, conn, lines>>
      BY <1>8 DEF Judge, LearnTrain, network
    <2>2. readers' = [readers EXCEPT ![c] = Idle]
      BY <1>0, <1>8, ReaderMoves
    <2>. QED
      BY <2>1, <2>2, SameEvent, IdleReader
  <1>9. ASSUME NEW c \in Conns, NEW ok \in BOOLEAN, LearnRecord(c, ok) PROVE EInv'
    <2>1. readers[c].pc = "record" /\ UNCHANGED <<net, now, conn, lines>>
      BY <1>9 DEF LearnRecord, network
    <2>2. PICK v : /\ readers' = [readers EXCEPT ![c] = v] /\ DOMAIN v = ReaderFields
                   /\ v = Idle \/ (v.pc = "train" /\ v.ev = readers[c].ev)
      BY <1>0, <1>9, ReaderMoves
    <2>. QED
      BY <2>1, <2>2, SameEvent, IdleReader
  <1>10. ASSUME \/ gc \/ AdminExplain \/ AdminTrain \/ \E u \in UIDs : AdminLookup(u)
                \/ \E ok, decisive \in BOOLEAN : AdminRecord(ok, decisive)
         PROVE  EInv'
    BY <1>1, <1>10 DEF gc, AdminExplain, AdminTrain, AdminLookup, AdminRecord, network
  <1>. QED
    BY <1>2, <1>3, <1>4, <1>5, <1>6, <1>7, <1>8, <1>9, <1>10, AcceptEvents DEF Daemon

LEMMA EventsStep == EInv /\ [Next]_vars => EInv'
  <1>. SUFFICES ASSUME EInv, [Next]_vars PROVE EInv'
    OBVIOUS
  <1>1. ASSUME UNCHANGED <<net, now, lines, conn, readers>> PROVE EInv'
    BY <1>1 DEF EInv, ReaderTypes, LinesTyped, LinesOK, EventsOK
  <1>2. ASSUME NEW s \in Savers,
               \/ SaveBegin(s) \/ SaveOpen(s) \/ SaveRename(s)
               \/ \E result \in {"whole", "mixed", "failed"} : SaveWrite(s, result)
        PROVE  EInv'
    BY <1>1, <1>2 DEF SaveBegin, SaveOpen, SaveRename, SaveWrite, managerVars
  <1>3. ASSUME Term \/ Start \/ UNCHANGED vars PROVE EInv'
    BY <1>1, <1>3 DEF Term, Start, vars, managerVars, network
  <1>4. ASSUME Down PROVE EInv'
    <2>1. /\ lines' = [c \in Conns |-> <<>>] /\ conn' = 0 /\ UNCHANGED <<net, now>>
          /\ readers' = [c \in Conns |-> IF readers[c].pc = "none" THEN readers[c]
                                         ELSE [Idle EXCEPT !.pc = "done"]]
      BY <1>4 DEF Down, network
    <2>2. ReaderTypes' /\ \A c \in Conns : readers'[c].pc \in {"none", "done"}
      BY <2>1, IdleReader DEF EInv, ReaderTypes
    <2>3. EventsOK'
      BY <2>2 DEF EventsOK, EventOK
    <2>4. <<>> \in Seq(Told) /\ Len(<<>>) = 0 /\ 0 <= MaxBacklog
      BY ManagerAssumption
    <2>5. LinesTyped' /\ LinesOK'
      BY <2>1, <2>4 DEF LinesTyped, LinesOK
    <2>. QED
      BY <2>1, <2>2, <2>3, <2>5 DEF EInv
  <1>. QED
    BY <1>2, <1>3, <1>4, NetworkEvents, DaemonEvents DEF Next, Steps

LEMMA EventsInit == Init => EInv
  <1>. SUFFICES ASSUME Init PROVE EInv
    OBVIOUS
  <1>1. /\ net = [u \in UIDs |-> "new"] /\ now = 0 /\ conn = 0
        /\ lines = [c \in Conns |-> <<>>]
        /\ readers = [c \in Conns |-> [Idle EXCEPT !.pc = "none"]]
    BY DEF Init, ManagerInit
  <1>2. ReaderTypes /\ \A c \in Conns : readers[c].pc = "none"
    BY <1>1, IdleReader DEF ReaderTypes
  <1>3. <<>> \in Seq(Told) /\ Len(<<>>) = 0 /\ 0 <= MaxBacklog
    BY ManagerAssumption
  <1>4. LinesTyped /\ LinesOK /\ EventsOK
    BY <1>1, <1>2, <1>3 DEF LinesTyped, LinesOK, EventsOK, EventOK
  <1>. QED
    BY <1>1, <1>2, <1>4 DEF EInv

-----------------------------------------------------------------------------
(* The table: records stay in order, and a user's record is its own.        *)

\* There is a record that nobody uses: fewer are in use than there are.
LEMMA FreshRecord ==
  ASSUME ReaderTypes, OwnRecords
  PROVE  Fresh \in Records /\ Fresh # 0 /\ \A u \in UIDs : users[u] # Fresh
  <1>0. /\ IsFiniteSet(UIDs) /\ Cardinality(UIDs) \in Nat /\ MaxConns \in Nat
        /\ IsFiniteSet(Conns) /\ Cardinality(Conns) = MaxConns
    <2>1. IsFiniteSet(UIDs) /\ MaxConns \in Nat
      BY ManagerAssumption
    <2>2. Cardinality(UIDs) \in Nat
      BY <2>1, FS_CardinalityType
    <2>3. IsFiniteSet(1..MaxConns) /\ Cardinality(1..MaxConns) = MaxConns
      BY <2>1, FS_Interval
    <2>. QED
      BY <2>1, <2>2, <2>3 DEF Conns
  <1>1. PICK Used : Used = {users[u] : u \in UIDs}
    OBVIOUS
  <1>2. IsFiniteSet(Used) /\ Cardinality(Used) <= Cardinality(UIDs) /\ Cardinality(Used) \in Nat
    <2>1. PICK f : f = [u \in UIDs |-> users[u]]
      OBVIOUS
    <2>2. f \in Surjection(UIDs, Used)
      BY <1>1, <2>1 DEF Surjection
    <2>3. IsFiniteSet(Used) /\ Cardinality(Used) <= Cardinality(UIDs)
      BY <1>0, <2>2, FS_Surjection
    <2>. QED
      BY <2>3, FS_CardinalityType
  <1>3. IsFiniteSet(Held) /\ Cardinality(Held) <= MaxConns /\ Cardinality(Held) \in Nat
    <2>1. PICK f : f = [c \in Conns |-> readers[c].rec]
      OBVIOUS
    <2>2. f \in Surjection(Conns, Held)
      BY <2>1 DEF Surjection, Held
    <2>3. IsFiniteSet(Held) /\ Cardinality(Held) <= Cardinality(Conns)
      BY <1>0, <2>2, FS_Surjection
    <2>. QED
      BY <1>0, <2>3, FS_CardinalityType
  <1>4. IsFiniteSet(Used \cup Held) /\ Cardinality(Used \cup Held) <= Cardinality(UIDs) + MaxConns
        /\ Cardinality(Used \cup Held) \in Nat
    <2>1. /\ IsFiniteSet(Used \cup Held)
          /\ Cardinality(Used \cup Held) = Cardinality(Used) + Cardinality(Held) - Cardinality(Used \cap Held)
      BY <1>2, <1>3, FS_Union
    <2>2. Cardinality(Used \cap Held) \in Nat
      BY <1>2, FS_Intersection, FS_CardinalityType
    <2>3. Cardinality(Used \cup Held) \in Nat
      BY <2>1, FS_CardinalityType
    <2>. QED
      BY <1>0, <1>2, <1>3, <2>1, <2>2, <2>3
  <1>5. IsFiniteSet(Records) /\ Cardinality(Records) = Cardinality(UIDs) + MaxConns + 1
    <2>1. PICK n : n = Cardinality(UIDs) + MaxConns + 1
      OBVIOUS
    <2>2. n \in Nat
      BY <1>0, <2>1
    <2>3. IsFiniteSet(1..n) /\ Cardinality(1..n) = n
      BY <2>2, FS_Interval
    <2>. QED
      BY <2>1, <2>3 DEF Records
  <1>6. ~(Records \subseteq Used \cup Held)
    <2>1. ASSUME Records \subseteq Used \cup Held PROVE FALSE
      <3>1. Cardinality(Records) <= Cardinality(Used \cup Held)
        BY <1>4, <2>1, FS_Subset
      <3>. QED
        BY <1>0, <1>4, <1>5, <3>1
    <2>. QED
      BY <2>1
  <1>7. \E r \in Records : r \notin Held /\ \A u \in UIDs : users[u] # r
    BY <1>1, <1>6
  <1>8. Fresh \in Records /\ \A u \in UIDs : users[u] # Fresh
    BY <1>7 DEF Fresh
  <1>9. 0 \notin Records
    BY DEF Records
  <1>. QED
    BY <1>8, <1>9

LEMMA RecordEdited ==
  ASSUME TInv, NEW r, NEW v, recs' = [recs EXCEPT ![r] = v], UNCHANGED users,
         r \in Records => RecordOK(v) /\ v.UID = recs[r].UID
  PROVE  TInv'
  <1>1. DOMAIN recs' = Records /\ \A d \in Records : recs'[d] = IF d = r THEN v ELSE recs[d]
    BY DEF TInv, RecordsOK
  <1>2. RecordsOK'
    BY <1>1 DEF TInv, RecordsOK
  <1>3. \A d \in Records : recs'[d].UID = recs[d].UID
    BY <1>1
  <1>4. OwnRecords'
    BY <1>3 DEF TInv, OwnRecords
  <1>. QED
    BY <1>2, <1>4 DEF TInv

LEMMA UpsertTable ==
  ASSUME ReaderTypes, TInv, NEW ev, Dated(ev), ev.uid \in UIDs, upsertUser(ev)
  PROVE  /\ TInv' /\ users'[ev.uid] # 0 /\ \A v \in UIDs \ {ev.uid} : users'[v] = users[v]
         /\ recs'[users'[ev.uid]].Nick = IF ev.nick # NoNick THEN ev.nick
                                        ELSE IF users[ev.uid] # 0 THEN recs[users[ev.uid]].Nick
                                        ELSE NoNick
         /\ \A v \in UIDs \ {ev.uid} : users[v] # 0 => recs'[users[v]] = recs[users[v]]
  <1>0. /\ DOMAIN recs = Records /\ DOMAIN users = UIDs
        /\ \A d \in Records : RecordOK(recs[d])
        /\ \A u \in UIDs : users[u] \in Records \cup {0}
        /\ \A u \in UIDs : users[u] # 0 => recs[users[u]].UID = u
    BY DEF TInv, RecordsOK, OwnRecords
  <1>1. PICK r : r = IF users[ev.uid] # 0 THEN users[ev.uid] ELSE Fresh
    OBVIOUS
  <1>2. PICK q : q = IF users[ev.uid] # 0 THEN recs[r] ELSE NewUser(ev.uid, ev.at)
    OBVIOUS
  <1>3. PICK n : n = IF ev.nick # NoNick THEN ev.nick ELSE q.Nick
    OBVIOUS
  <1>4. PICK p : p = [q EXCEPT !.Nick = n, !.Account = @ \/ ev.account, !.IsTLS = ev.tls,
                               !.LastActivity = ev.at]
    OBVIOUS
  <1>5. r \in Records /\ r # 0 /\ \A v \in UIDs \ {ev.uid} : users[v] # r
    <2>1. CASE users[ev.uid] # 0
      <3>1. ASSUME NEW v \in UIDs \ {ev.uid}, users[v] = r PROVE FALSE
        BY <1>0, <1>1, <2>1, <3>1
      <3>. QED
        BY <1>0, <1>1, <2>1, <3>1
    <2>2. CASE users[ev.uid] = 0
      BY <1>1, <2>2, FreshRecord DEF TInv
    <2>. QED
      BY <2>1, <2>2
  <1>6. RecordOK(q) /\ q.UID = ev.uid
    <2>1. CASE users[ev.uid] # 0
      BY <1>0, <1>1, <1>2, <1>5, <2>1
    <2>2. CASE users[ev.uid] = 0
      BY <1>2, <2>2, NewRecord DEF Dated
    <2>. QED
      BY <2>1, <2>2
  <1>7. RecordOK(p) /\ p.UID = ev.uid /\ p.Nick = n
    <2>1. RecordOK(p) /\ p.UID = ev.uid
      <3>1. /\ DOMAIN p = RecordFields /\ p.UID = q.UID
            /\ p.FirstSeen = q.FirstSeen /\ p.recentMsgs = q.recentMsgs
            /\ p.msgHashes = q.msgHashes /\ p.cachedFeatures = q.cachedFeatures
            /\ p.recentJoins = q.recentJoins /\ p.CTCPCount = q.CTCPCount
            /\ p.recentNicks = q.recentNicks /\ p.recentHops = q.recentHops
        BY <1>4, <1>6 DEF RecordOK, RecordFields
      <3>. QED
        BY <1>6, <3>1, RecordRenamed
    <2>2. p.Nick = n
      BY <1>4, <1>6 DEF RecordOK, RecordFields
    <2>. QED
      BY <2>1, <2>2
  <1>8. users' = [users EXCEPT ![ev.uid] = r]
    BY <1>1 DEF upsertUser
  <1>9. recs' = [recs EXCEPT ![r] = p]
    <2>1. CASE users[ev.uid] # 0
      BY <1>1, <1>2, <1>3, <1>4, <2>1 DEF upsertUser
    <2>2. CASE users[ev.uid] = 0
      BY <1>1, <1>2, <1>3, <1>4, <2>2 DEF upsertUser
    <2>. QED
      BY <2>1, <2>2
  <1>10. /\ DOMAIN users' = UIDs /\ users'[ev.uid] = r
         /\ \A v \in UIDs \ {ev.uid} : users'[v] = users[v]
    BY <1>0, <1>8
  <1>11. /\ DOMAIN recs' = Records /\ recs'[r] = p
         /\ \A d \in Records \ {r} : recs'[d] = recs[d]
    BY <1>0, <1>5, <1>9
  <1>12. RecordsOK'
    BY <1>0, <1>7, <1>11 DEF RecordsOK
  <1>13. OwnRecords'
    BY <1>0, <1>5, <1>7, <1>10, <1>11 DEF OwnRecords
  <1>14. q.Nick = IF users[ev.uid] # 0 THEN recs[users[ev.uid]].Nick ELSE NoNick
    BY <1>1, <1>2 DEF NewUser
  <1>15. \A v \in UIDs \ {ev.uid} : users[v] # 0 => recs'[users[v]] = recs[users[v]]
    BY <1>0, <1>5, <1>11
  <1>. QED
    BY <1>3, <1>5, <1>7, <1>10, <1>11, <1>12, <1>13, <1>14, <1>15 DEF TInv

LEMMA NickTable ==
  ASSUME TInv, NEW ev, ev.uid \in UIDs, handleNick(ev) \/ UNCHANGED table
  PROVE  /\ TInv' /\ users' = users
         /\ handleNick(ev) /\ users[ev.uid] # 0 =>
              /\ recs'[users[ev.uid]].Nick = NewNick(ev)
              /\ \A v \in UIDs \ {ev.uid} : users[v] # 0 => recs'[users[v]] = recs[users[v]]
  <1>1. CASE ~(handleNick(ev) /\ users[ev.uid] # 0)
    <2>1. UNCHANGED <<recs, users>>
      BY <1>1 DEF handleNick, table
    <2>. QED
      BY <1>1, <2>1 DEF TInv, RecordsOK, OwnRecords
  <1>2. CASE handleNick(ev) /\ users[ev.uid] # 0
    <2>1. PICK r : r = users[ev.uid]
      OBVIOUS
    <2>2. PICK p : p = [recs[r] EXCEPT !.Nick = NewNick(ev), !.LastActivity = ev.at]
      OBVIOUS
    <2>3. r \in Records /\ DOMAIN recs = Records /\ RecordOK(recs[r])
      BY <1>2, <2>1 DEF TInv, RecordsOK, OwnRecords
    <2>4. recs' = [recs EXCEPT ![r].Nick = NewNick(ev), ![r].LastActivity = ev.at] /\ UNCHANGED users
      BY <1>2, <2>1 DEF handleNick
    <2>5. recs' = [recs EXCEPT ![r] = p]
      BY <2>2, <2>3, <2>4
    <2>6. RecordOK(p) /\ p.UID = recs[r].UID
      <3>1. PICK q : q = recs[r]
        OBVIOUS
      <3>2. /\ DOMAIN p = RecordFields /\ p.UID = q.UID
            /\ p.FirstSeen = q.FirstSeen /\ p.recentMsgs = q.recentMsgs
            /\ p.msgHashes = q.msgHashes /\ p.cachedFeatures = q.cachedFeatures
            /\ p.recentJoins = q.recentJoins /\ p.CTCPCount = q.CTCPCount
            /\ p.recentNicks = q.recentNicks /\ p.recentHops = q.recentHops
        BY <2>2, <2>3, <3>1 DEF RecordOK, RecordFields
      <3>. QED
        BY <2>3, <3>1, <3>2, RecordRenamed
    <2>10. p.Nick = NewNick(ev)
      BY <2>2, <2>3 DEF RecordOK, RecordFields
    <2>7. recs'[r] = p /\ \A d \in Records \ {r} : recs'[d] = recs[d]
      BY <2>3, <2>5
    <2>8. \A v \in UIDs \ {ev.uid} : users[v] # 0 => users[v] \in Records /\ users[v] # r
      BY <1>2, <2>1 DEF TInv, OwnRecords
    <2>9. TInv'
      BY <2>4, <2>5, <2>6, RecordEdited
    <2>. QED
      BY <2>1, <2>4, <2>7, <2>8, <2>9, <2>10
  <1>. QED
    BY <1>1, <1>2

LEMMA NoRecordOK == RecordOK(NoRecord)
  BY NewRecord DEF NoRecord

LEMMA EvictTable ==
  ASSUME TInv, gc
  PROVE  /\ TInv' /\ forgotten' = forgotten \cup {u \in UIDs : Stale(u)}
         /\ \A u \in UIDs : users'[u] = IF Stale(u) THEN 0 ELSE users[u]
         /\ \A u \in UIDs : users'[u] # 0 => users'[u] = users[u] /\ recs'[users[u]] = recs[users[u]]
  <1>0. /\ DOMAIN recs = Records /\ DOMAIN users = UIDs
        /\ \A d \in Records : RecordOK(recs[d])
        /\ \A u \in UIDs : users[u] \in Records \cup {0}
        /\ \A u \in UIDs : users[u] # 0 => recs[users[u]].UID = u
    BY DEF TInv, RecordsOK, OwnRecords
  <1>1. /\ users' = [u \in UIDs |-> IF Stale(u) THEN 0 ELSE users[u]]
        /\ forgotten' = forgotten \cup {u \in UIDs : Stale(u)}
        /\ recs' = [r \in Records |-> IF r \notin Held /\ \E u \in UIDs : Stale(u) /\ users[u] = r
                                      THEN NoRecord ELSE recs[r]]
    BY DEF gc
  <1>2. RecordsOK'
    BY <1>0, <1>1, NoRecordOK DEF RecordsOK
  <1>3. ASSUME NEW u \in UIDs, users'[u] # 0
        PROVE  users'[u] = users[u] /\ recs'[users[u]] = recs[users[u]] /\ recs'[users'[u]].UID = u
    <2>1. ~Stale(u) /\ users'[u] = users[u] /\ users[u] \in Records /\ users[u] # 0
      BY <1>0, <1>1, <1>3
    <2>2. \A v \in UIDs : Stale(v) => users[v] # users[u]
      BY <1>0, <2>1
    <2>3. recs'[users[u]] = recs[users[u]]
      BY <1>1, <2>1, <2>2
    <2>. QED
      BY <1>0, <2>1, <2>3
  <1>4. OwnRecords'
    BY <1>0, <1>1, <1>3 DEF OwnRecords
  <1>. QED
    BY <1>1, <1>2, <1>3, <1>4 DEF TInv

\* Every step of the daemon, and what it does to the table.
LEMMA DaemonTable ==
  ASSUME EInv, TInv, Daemon
  PROVE  TInv'
  <1>0. ReaderTypes /\ now \in Nat
    BY DEF EInv
  <1>1. ASSUME UNCHANGED <<recs, users>> PROVE TInv'
    BY <1>1 DEF TInv, RecordsOK, OwnRecords
  <1>2. ASSUME NEW c \in Conns,
               \/ \E kept \in 0..MaxBacklog : Accept(c, kept)
               \/ ReadLoopEnds(c) \/ ObserveOper(c) \/ Locate(c)
               \/ \E ok \in BOOLEAN : LearnRecord(c, ok)
        PROVE  TInv'
    BY <1>1, <1>2 DEF Accept, ReadLoopEnds, ObserveOper, Locate, LearnRecord, table
  <1>3. ASSUME NEW c \in Conns, ObserveIdentity(c) PROVE TInv'
    <2>1. PICK ev : ev = Head(lines[c]).line
      OBVIOUS
    <2>2. LineOK(ev, net)
      BY <1>3, <2>1, NextLine DEF ObserveIdentity, Ready
    <2>3. \/ UNCHANGED table
          \/ ev.kind \in {"connect", "register"} /\ upsertUser(ev)
      BY <1>3, <2>1 DEF ObserveIdentity
    <2>4. CASE ev.kind \in {"connect", "register"} /\ upsertUser(ev)
      <3>1. Dated(ev) /\ ev.uid \in UIDs
        BY <2>2, <2>4 DEF LineOK, Known
      <3>. QED
        BY <1>0, <2>4, <3>1, UpsertTable
    <2>. QED
      BY <1>1, <2>3, <2>4 DEF table
  <1>4. ASSUME NEW c \in Conns, ObserveActivity(c) PROVE TInv'
    <2>1. PICK ev : ev = Head(lines[c]).line
      OBVIOUS
    <2>2. LineOK(ev, net)
      BY <1>4, <2>1, NextLine DEF ObserveActivity, Ready
    <2>3. /\ ev.kind \notin Opers \cup {"bad", "quit", "connect", "register"}
          /\ handleNick(ev) \/ UNCHANGED table
      BY <1>4, <2>1 DEF ObserveActivity
    <2>4. ev.uid \in UIDs
      BY <2>2, <2>3 DEF LineOK, Known, Opers
    <2>. QED
      BY <2>3, <2>4, NickTable
  <1>5. ASSUME NEW c \in Conns, Create(c) PROVE TInv'
    <2>1. PICK ev : ev = readers[c].ev.line
      OBVIOUS
    <2>2. upsertUser(ev) /\ readers[c].pc = "create"
      BY <1>5, <2>1 DEF Create
    <2>3. Dated(ev) /\ ev.uid \in UIDs
      BY <2>1, <2>2 DEF EInv, EventsOK, EventOK, Known
    <2>. QED
      BY <1>0, <2>2, <2>3, UpsertTable
  <1>6. ASSUME NEW c \in Conns, Count(c) PROVE TInv'
    <2>1. PICK ev, r : ev = readers[c].ev.line /\ r = readers[c].rec
      OBVIOUS
    <2>2. PICK v : v = Counted(recs[r], ev)
      OBVIOUS
    <2>3. recs' = [recs EXCEPT ![r] = v] /\ UNCHANGED users /\ readers[c].pc = "count"
      BY <1>6, <2>1, <2>2 DEF Count
    <2>4. Dated(ev)
      BY <2>1, <2>3 DEF EInv, EventsOK, EventOK
    <2>5. r \in Records => RecordOK(v) /\ v.UID = recs[r].UID
      BY <2>2, <2>4, EventCounted DEF TInv, RecordsOK
    <2>. QED
      BY <2>3, <2>5, RecordEdited
  <1>7. ASSUME NEW r, NEW t \in Nat, recs' = [recs EXCEPT ![r] = WithFeatures(recs[r], t)],
               UNCHANGED users
        PROVE  TInv'
    <2>1. PICK v : v = WithFeatures(recs[r], t)
      OBVIOUS
    <2>2. r \in Records => RecordOK(v) /\ v.UID = recs[r].UID
      BY <2>1, RecordWithFeatures DEF TInv, RecordsOK
    <2>. QED
      BY <1>7, <2>1, <2>2, RecordEdited
  <1>8. ASSUME NEW c \in Conns, Judge(c) \/ LearnTrain(c) PROVE TInv'
    <2>1. PICK t, r : t = readers[c].ev.line.at /\ r = readers[c].rec
      OBVIOUS
    <2>2. /\ recs' = [recs EXCEPT ![r] = WithFeatures(recs[r], t)] /\ UNCHANGED users
          /\ readers[c].pc \in {"judge", "train"}
      BY <1>8, <2>1 DEF Judge, LearnTrain
    <2>3. t \in Nat
      BY <2>1, <2>2 DEF EInv, EventsOK, EventOK, Dated
    <2>. QED
      BY <1>7, <2>2, <2>3
  <1>9. ASSUME AdminExplain \/ AdminTrain PROVE TInv'
    <2>1. UNCHANGED users
      BY <1>9 DEF AdminExplain, AdminTrain, table
    <2>2. \/ UNCHANGED recs
          \/ recs' = [recs EXCEPT ![users[admin.uid]] = WithFeatures(recs[users[admin.uid]], now)]
      BY <1>9 DEF AdminExplain, AdminTrain
    <2>. QED
      BY <1>0, <1>1, <1>7, <2>1, <2>2
  <1>10. ASSUME (\E u \in UIDs : AdminLookup(u)) \/ \E ok, decisive \in BOOLEAN : AdminRecord(ok, decisive)
         PROVE  TInv'
    BY <1>1, <1>10 DEF AdminLookup, AdminRecord, table
  <1>. QED
    BY <1>2, <1>3, <1>4, <1>5, <1>6, <1>8, <1>9, <1>10, EvictTable DEF Daemon

LEMMA TableInit == Init => TInv
  <1>. SUFFICES ASSUME Init PROVE TInv
    OBVIOUS
  <1>1. recs = [r \in Records |-> NoRecord] /\ users = [u \in UIDs |-> 0]
    BY DEF Init, ManagerInit
  <1>. QED
    BY <1>1, NoRecordOK DEF TInv, RecordsOK, OwnRecords

LEMMA TableStep == EInv /\ TInv /\ [Next]_vars => TInv'
  <1>. SUFFICES ASSUME EInv, TInv, [Next]_vars PROVE TInv'
    OBVIOUS
  <1>1. ASSUME UNCHANGED <<recs, users>> PROVE TInv'
    BY <1>1 DEF TInv, RecordsOK, OwnRecords
  <1>2. ASSUME Network PROVE TInv'
    BY <1>1, <1>2, NetworkFrame
  <1>3. ASSUME NEW s \in Savers,
               \/ SaveBegin(s) \/ SaveOpen(s) \/ SaveRename(s)
               \/ \E result \in {"whole", "mixed", "failed"} : SaveWrite(s, result)
        PROVE  TInv'
    BY <1>1, <1>3 DEF SaveBegin, SaveOpen, SaveRename, SaveWrite, managerVars
  <1>4. ASSUME Term \/ Start \/ UNCHANGED vars PROVE TInv'
    BY <1>1, <1>4 DEF Term, Start, vars, managerVars, table
  <1>5. ASSUME Down PROVE TInv'
    <2>1. recs' = [r \in Records |-> NoRecord] /\ users' = [u \in UIDs |-> 0]
      BY <1>5 DEF Down
    <2>. QED
      BY <2>1, NoRecordOK DEF TInv, RecordsOK, OwnRecords
  <1>. QED
    BY <1>2, <1>3, <1>4, <1>5, DaemonTable DEF Next, Steps

\* The hash counts that repeatRule reads are those of the messages in the
\* window, for windows of any length and messages of any hashes: onMessage
\* counts what comes in and uncounts what a full window loses, also when both
\* are the same text.
THEOREM HashesFollowWindow == Spec => []HashesMatchWindow
  <1>1. TInv => HashesMatchWindow
    BY DEF TInv, RecordsOK, RecordOK, WindowCounted, PlacesOf, HashesMatchWindow
  <1>. QED
    BY <1>1, EventsInit, EventsStep, TableInit, TableStep, PTL DEF Spec

\* A cached feature vector is never out of date in what it says of the windows,
\* whichever goroutine filled the cache: every event that changes a window or a
\* count that computeFeatures reads empties it (touch).  The account and TLS,
\* which upsertUser changes without emptying the cache, are left out.
THEOREM CacheNeverStale == Spec => []FeaturesCurrent
  <1>1. TInv => FeaturesCurrent
    BY DEF TInv, RecordsOK, RecordOK, CacheCurrent, SetAside, FeaturesCurrent
  <1>. QED
    BY <1>1, EventsInit, EventsStep, TableInit, TableStep, PTL DEF Spec

-----------------------------------------------------------------------------
(* Whose record an event is counted on.  A user that has connected has a    *)
(* record as long as its first line was read and it was not evicted, and    *)
(* the record that is found for it is its own.                              *)

LEMMA PendingIsOvertaken ==
  ASSUME EInv, NEW u PROVE Pending(lines, u) => Overtaken(u)
  <1>1. MaxBacklog \in Nat /\ \A d \in Conns : Len(lines[d]) \in Nat /\ Len(lines[d]) <= MaxBacklog
    BY ManagerAssumption DEF EInv, LinesTyped
  <1>2. \A d \in Conns : \A i \in 1..Len(lines[d]) : i \in 1..MaxBacklog /\ i <= Len(lines[d])
    BY <1>1
  <1>. QED
    BY <1>2 DEF Pending, Overtaken

\* A step that forgets nobody, loses no first line and counts nothing.
LEMMA AttributionKept ==
  ASSUME AInv, forgotten \subseteq forgotten', forgotten' \subseteq UIDs, unheard \subseteq unheard',
         strayed' \subseteq strayed \cup forgotten' \cup unheard',
         \A u \in UIDs :
           users[u] # 0 \/ Pending(lines, u) =>
             u \in unheard' \/ u \in forgotten' \/ users'[u] # 0 \/ Pending(lines', u),
         \A u \in UIDs : net[u] = "new" => net'[u] = "new" \/ u \in unheard' \/ Pending(lines', u)
  PROVE  AInv'
  <1>1. Announced'
    BY DEF AInv, Announced
  <1>2. AttributedToSelf'
    BY DEF AInv, AttributedToSelf
  <1>. QED
    BY <1>1, <1>2 DEF AInv

LEMMA PendingAppended ==
  ASSUME EInv, conn # 0, NEW t \in Told, lines' = [lines EXCEPT ![conn] = Append(lines[conn], t)]
  PROVE  /\ \A u : Pending(lines, u) => Pending(lines', u)
         /\ t.line.kind = Opening => Pending(lines', t.line.uid)
  <1>0. conn \in Conns /\ DOMAIN lines = Conns /\ lines[conn] \in Seq(Told)
    BY DEF EInv, LinesTyped
  <1>1. PICK s : s = Append(lines[conn], t)
    OBVIOUS
  <1>2. /\ Len(s) = Len(lines[conn]) + 1 /\ Len(lines[conn]) \in Nat
        /\ s[Len(s)] = t /\ Len(s) \in 1..Len(s)
        /\ \A i \in 1..Len(lines[conn]) : i \in 1..Len(s) /\ s[i] = lines[conn][i]
    BY <1>0, <1>1
  <1>3. lines'[conn] = s /\ \A d \in Conns \ {conn} : lines'[d] = lines[d]
    BY <1>0, <1>1
  <1>4. ASSUME NEW u, Pending(lines, u) PROVE Pending(lines', u)
    <2>1. PICK d \in Conns : \E i \in 1..Len(lines[d]) :
            lines[d][i].line.kind = Opening /\ lines[d][i].line.uid = u
      BY <1>4 DEF Pending
    <2>2. PICK i \in 1..Len(lines[d]) :
            lines[d][i].line.kind = Opening /\ lines[d][i].line.uid = u
      BY <2>1
    <2>3. i \in 1..Len(lines'[d]) /\ lines'[d][i] = lines[d][i]
      BY <1>2, <1>3, <2>2
    <2>. QED
      BY <2>2, <2>3 DEF Pending
  <1>5. ASSUME t.line.kind = Opening PROVE Pending(lines', t.line.uid)
    BY <1>0, <1>2, <1>3, <1>5 DEF Pending
  <1>. QED
    BY <1>4, <1>5

LEMMA PendingTaken ==
  ASSUME EInv, NEW c \in Conns, lines[c] # <<>>, Take(c), NEW u, Pending(lines, u)
  PROVE  \/ Pending(lines', u)
         \/ Head(lines[c]).line.kind = Opening /\ Head(lines[c]).line.uid = u
  <1>0. DOMAIN lines = Conns /\ lines[c] \in Seq(Told)
    BY DEF EInv, LinesTyped
  <1>1. PICK d \in Conns : \E i \in 1..Len(lines[d]) :
          lines[d][i].line.kind = Opening /\ lines[d][i].line.uid = u
    BY DEF Pending
  <1>2. PICK i \in 1..Len(lines[d]) :
          lines[d][i].line.kind = Opening /\ lines[d][i].line.uid = u
    BY <1>1
  <1>3. lines'[c] = Tail(lines[c]) /\ \A e \in Conns \ {c} : lines'[e] = lines[e]
    BY <1>0 DEF Take
  <1>4. CASE d # c
    BY <1>2, <1>3, <1>4 DEF Pending
  <1>5. CASE d = c /\ i = 1
    BY <1>0, <1>2, <1>5, ToldParts
  <1>6. CASE d = c /\ i # 1
    <2>1. Len(lines[c]) \in Nat /\ i \in 2..Len(lines[c])
      BY <1>0, <1>2, <1>6
    <2>2. i - 1 \in 1..Len(Tail(lines[c])) /\ Tail(lines[c])[i - 1] = lines[c][i]
      BY <1>0, <2>1
    <2>. QED
      BY <1>2, <1>3, <1>6, <2>2 DEF Pending
  <1>. QED
    BY <1>4, <1>5, <1>6

LEMMA NetworkAttribution == ASSUME EInv, AInv, Network PROVE AInv'
  <1>0. /\ UNCHANGED <<users, conn, forgotten, strayed>>
        /\ DOMAIN net = UIDs /\ forgotten \subseteq UIDs /\ strayed \subseteq forgotten \cup unheard
    BY NetworkFrame DEF EInv, AInv, AttributedToSelf
  <1>1. ASSUME NEW u \in UIDs, NEW l \in SentLines, Tell(u, l),
               \A v \in UIDs : net[v] = "new" => net'[v] = "new" \/ (v = u /\ l.kind = Opening /\ l.uid = u)
        PROVE  AInv'
    <2>1. PICK did : did = IF l.kind \in Rated THEN Append(lately[u], l) ELSE lately[u]
      OBVIOUS
    <2>2. PICK t : t = [line |-> l, due |-> Due(did, l)]
      OBVIOUS
    <2>3. t \in Told /\ t.line = l
      BY <2>2, DueTyped DEF Told
    <2>4. IF conn # 0 THEN lines' = [lines EXCEPT ![conn] = Append(lines[conn], t)] /\ UNCHANGED unheard
          ELSE UNCHANGED lines /\ unheard' = unheard \cup (IF l.kind = Opening THEN {u} ELSE {})
      BY <1>1, <2>1, <2>2 DEF Tell
    <2>5. CASE conn # 0
      <3>1. /\ \A v : Pending(lines, v) => Pending(lines', v)
            /\ l.kind = Opening => Pending(lines', l.uid)
        BY <2>3, <2>4, <2>5, PendingAppended
      <3>. QED
        BY <1>0, <1>1, <2>4, <2>5, <3>1, AttributionKept
    <2>6. CASE conn = 0
      BY <1>0, <1>1, <2>4, <2>6, AttributionKept
    <2>. QED
      BY <2>5, <2>6
  <1>2. ASSUME NEW u \in UIDs, NEW kind \in Kinds, NEW nick \in Nicks \cup {NoNick},
               ChangeState(u, kind, nick)
        PROVE  AInv'
    <2>2. PICK l : Tell(u, l) /\ l \in SentLines /\ l.kind = kind /\ l.uid = u
      BY <1>2, ChangeStateTells
    <2>3. (\A v \in UIDs \ {u} : net'[v] = net[v]) /\ (net[u] = "new" => kind = Opening)
      BY <1>0, <1>2, ChangeStateMoves
    <2>. QED
      BY <1>1, <2>2, <2>3
  <1>3. ASSUME NEW u \in UIDs, NEW kind \in Kinds, NEW body \in Bodies,
               NEW target \in Nicks \cup {NoNick}, Act(u, kind, body, target)
        PROVE  AInv'
    <2>1. PICK l : l = ActLine(u, kind, body, target)
      OBVIOUS
    <2>2. Tell(u, l) /\ l \in SentLines /\ UNCHANGED net
      BY <1>3, <2>1, ActMoves
    <2>. QED
      BY <1>1, <2>2
  <1>4. ASSUME Garble PROVE AInv'
    <2>1. PICK t : t = [line |-> [kind |-> "bad"], due |-> {}]
      OBVIOUS
    <2>2. t \in Told
      BY <2>1 DEF Told
    <2>3. /\ conn # 0 /\ UNCHANGED <<net, unheard>>
          /\ lines' = [lines EXCEPT ![conn] = Append(lines[conn], t)]
      BY <1>4, <2>1 DEF Garble, ghosts
    <2>4. \A v : Pending(lines, v) => Pending(lines', v)
      BY <2>2, <2>3, PendingAppended
    <2>. QED
      BY <1>0, <2>3, <2>4, AttributionKept
  <1>5. ASSUME Tick PROVE AInv'
    <2>1. UNCHANGED <<net, unheard, lines>>
      BY <1>5 DEF Tick, ghosts
    <2>. QED
      BY <1>0, <2>1, AttributionKept
  <1>. QED
    BY <1>2, <1>3, <1>4, <1>5 DEF Network

LEMMA AcceptAttribution ==
  ASSUME EInv, AInv, NEW c \in Conns, NEW kept \in 0..MaxBacklog, Accept(c, kept)
  PROVE  AInv'
  <1>0. /\ UNCHANGED <<net, users, forgotten, strayed>>
        /\ forgotten \subseteq UIDs /\ strayed \subseteq forgotten \cup unheard
    BY DEF Accept, network, table, AInv, AttributedToSelf
  <1>1. CASE conn = 0
    <2>1. UNCHANGED <<lines, unheard>>
      BY <1>1 DEF Accept
    <2>. QED
      BY <1>0, <2>1, AttributionKept
  <1>2. CASE conn # 0
    <2>0. conn \in Conns /\ lines[conn] \in Seq(Told) /\ DOMAIN lines = Conns
      BY <1>2 DEF EInv, LinesTyped
    <2>1. PICK old : old = lines[conn]
      OBVIOUS
    <2>2. PICK s : s = SubSeq(old, 1, kept)
      OBVIOUS
    <2>3. /\ kept \in 0..Len(old) /\ lines' = [lines EXCEPT ![conn] = s]
          /\ unheard' = unheard \cup {old[i].line.uid : i \in
                          {j \in (kept + 1)..Len(old) : old[j].line.kind = Opening}}
      BY <1>2, <2>1, <2>2 DEF Accept
    <2>4. Len(s) = kept /\ (\A i \in 1..kept : s[i] = old[i]) /\ Len(old) \in Nat
      BY <2>0, <2>1, <2>2, <2>3
    <2>5. lines'[conn] = s /\ \A d \in Conns \ {conn} : lines'[d] = lines[d]
      BY <2>0, <2>3
    <2>6. ASSUME NEW u \in UIDs, Pending(lines, u) PROVE u \in unheard' \/ Pending(lines', u)
      <3>1. PICK d \in Conns : \E i \in 1..Len(lines[d]) :
              lines[d][i].line.kind = Opening /\ lines[d][i].line.uid = u
        BY <2>6 DEF Pending
      <3>2. PICK i \in 1..Len(lines[d]) :
              lines[d][i].line.kind = Opening /\ lines[d][i].line.uid = u
        BY <3>1
      <3>3. CASE d # conn
        BY <2>5, <3>2, <3>3 DEF Pending
      <3>4. CASE d = conn /\ i <= kept
        <4>1. i \in 1..Len(lines'[d]) /\ lines'[d][i] = lines[d][i]
          BY <2>1, <2>3, <2>4, <2>5, <3>2, <3>4
        <4>. QED
          BY <3>2, <4>1 DEF Pending
      <3>5. CASE d = conn /\ ~(i <= kept)
        <4>1. i \in (kept + 1)..Len(old) /\ old[i].line.kind = Opening /\ old[i].line.uid = u
          BY <2>1, <2>3, <2>4, <3>2, <3>5
        <4>. QED
          BY <2>3, <4>1
      <3>. QED
        BY <3>3, <3>4, <3>5
    <2>. QED
      BY <1>0, <2>3, <2>6, AttributionKept
  <1>. QED
    BY <1>1, <1>2

\* getOrCreate: the user's own record, or it is one that has none.
LEMMA LocateAttribution ==
  ASSUME EInv, TInv, AInv, NEW c \in Conns, Locate(c)
  PROVE  AInv'
  <1>0. /\ UNCHANGED <<net, users, lines, forgotten>> /\ readers[c].pc = "locate"
        /\ forgotten \subseteq UIDs /\ strayed \subseteq forgotten \cup unheard
    BY DEF Locate, network, table, AInv, AttributedToSelf
  <1>1. PICK ev, owner : ev = readers[c].ev.line /\ owner = Lookup(ev)
    OBVIOUS
  <1>2. ev.uid \in UIDs /\ net[ev.uid] # "new"
    BY <1>0, <1>1 DEF EInv, EventsOK, EventOK, Known
  <1>3. unheard' = unheard \cup (IF Overtaken(ev.uid) THEN {ev.uid} ELSE {})
    BY <1>1 DEF Locate
  <1>4. \/ strayed' = strayed
        \/ strayed' = strayed \cup
             (IF users[owner] # 0 /\ recs[users[owner]].UID = ev.uid THEN {} ELSE {ev.uid})
    BY <1>1 DEF Locate, Stray
  <1>5. strayed' \subseteq strayed \cup forgotten' \cup unheard'
    <2>1. CASE users[ev.uid] # 0
      <3>1. owner = ev.uid
        BY <1>1, <2>1 DEF Lookup
      <3>2. recs[users[ev.uid]].UID = ev.uid
        BY <1>2, <2>1 DEF TInv, OwnRecords
      <3>. QED
        BY <1>4, <2>1, <3>1, <3>2
    <2>2. CASE users[ev.uid] = 0
      <3>1. ev.uid \in unheard \/ ev.uid \in forgotten \/ Pending(lines, ev.uid)
        BY <1>2, <2>2 DEF AInv, Announced
      <3>2. ev.uid \in unheard' \/ ev.uid \in forgotten'
        BY <1>0, <1>3, <3>1, PendingIsOvertaken
      <3>. QED
        BY <1>4, <3>2
    <2>. QED
      BY <2>1, <2>2
  <1>6. unheard \subseteq unheard'
    BY <1>3
  <1>. QED
    BY <1>0, <1>5, <1>6, AttributionKept

\* learnFromOperAction: the same.
LEMMA OperAttribution ==
  ASSUME EInv, TInv, AInv, NEW c \in Conns, ObserveOper(c)
  PROVE  AInv'
  <1>0. /\ UNCHANGED <<net, users, forgotten>> /\ lines[c] # <<>> /\ Take(c)
        /\ forgotten \subseteq UIDs /\ strayed \subseteq forgotten \cup unheard
    BY DEF ObserveOper, network, table, AInv, AttributedToSelf, Ready
  <1>1. PICK ev : ev = Head(lines[c]).line
    OBVIOUS
  <1>2. ev.kind \in Opers /\ LineOK(ev, net)
    BY <1>0, <1>1, NextLine DEF ObserveOper
  <1>3. ev.kind # "oper_kline" => ev.uid \in UIDs /\ net[ev.uid] # "new"
    BY <1>2 DEF LineOK, Known, Opers
  <1>4. PICK rec \in Targets(ev) :
          strayed' = strayed \cup (IF /\ ev.kind # "oper_kline" /\ rec # 0
                                      /\ recs[rec].UID # ev.uid THEN {ev.uid} ELSE {})
    BY <1>1 DEF ObserveOper
  <1>5. unheard' = unheard \cup (IF ev.kind # "oper_kline" /\ Overtaken(ev.uid) THEN {ev.uid} ELSE {})
    BY <1>1 DEF ObserveOper
  <1>6. strayed' \subseteq strayed \cup forgotten' \cup unheard'
    <2>1. CASE ev.kind = "oper_kline"
      BY <1>4, <2>1
    <2>2. CASE ev.kind # "oper_kline" /\ users[ev.uid] # 0
      <3>1. rec = users[ev.uid]
        BY <1>4, <2>2 DEF Targets
      <3>2. recs[users[ev.uid]].UID = ev.uid
        BY <1>3, <2>2 DEF TInv, OwnRecords
      <3>. QED
        BY <1>4, <3>1, <3>2
    <2>3. CASE ev.kind # "oper_kline" /\ users[ev.uid] = 0
      <3>1. ev.uid \in unheard \/ ev.uid \in forgotten \/ Pending(lines, ev.uid)
        BY <1>3, <2>3 DEF AInv, Announced
      <3>2. ev.uid \in unheard' \/ ev.uid \in forgotten'
        BY <1>0, <1>5, <2>3, <3>1, PendingIsOvertaken
      <3>. QED
        BY <1>4, <3>2
    <2>. QED
      BY <2>1, <2>2, <2>3
  <1>7. Opening \notin Opers
    BY DEF Opening, Opers
  <1>8. \A u : Pending(lines, u) => Pending(lines', u)
    BY <1>0, <1>1, <1>2, <1>7, PendingTaken
  <1>9. unheard \subseteq unheard'
    BY <1>5
  <1>. QED
    BY <1>0, <1>6, <1>8, <1>9, AttributionKept

LEMMA DaemonAttribution == ASSUME EInv, TInv, AInv, Daemon PROVE AInv'
  <1>0. /\ forgotten \subseteq UIDs /\ strayed \subseteq forgotten \cup unheard
        /\ ReaderTypes
    BY DEF AInv, AttributedToSelf, EInv
  <1>1. ASSUME UNCHANGED <<net, lines, users, forgotten, unheard, strayed>> PROVE AInv'
    BY <1>1 DEF AInv, Announced, AttributedToSelf
  <1>2. ASSUME NEW c \in Conns,
               ReadLoopEnds(c) \/ Count(c) \/ Judge(c) \/ LearnTrain(c)
               \/ \E ok \in BOOLEAN : LearnRecord(c, ok)
        PROVE  AInv'
    BY <1>1, <1>2 DEF ReadLoopEnds, Count, Judge, LearnTrain, LearnRecord, network, table, ghosts
  <1>3. ASSUME \/ AdminExplain \/ AdminTrain \/ \E u \in UIDs : AdminLookup(u)
               \/ \E ok, decisive \in BOOLEAN : AdminRecord(ok, decisive)
        PROVE  AInv'
    BY <1>1, <1>3 DEF AdminExplain, AdminTrain, AdminLookup, AdminRecord, network, table, ghosts
  <1>4. ASSUME NEW c \in Conns, ObserveIdentity(c) PROVE AInv'
    <2>1. PICK ev : ev = Head(lines[c]).line
      OBVIOUS
    <2>2. /\ lines[c] # <<>> /\ Take(c) /\ UNCHANGED <<net, unheard, forgotten, strayed>>
          /\ \/ ev.kind \in {"bad", "quit"} /\ UNCHANGED table
             \/ ev.kind \in {"connect", "register"} /\ upsertUser(ev)
      BY <1>4, <2>1 DEF ObserveIdentity, Ready, network, ghosts
    <2>3. \A u : Pending(lines, u) => Pending(lines', u) \/ (ev.kind = Opening /\ ev.uid = u)
      BY <2>1, <2>2, PendingTaken
    <2>4. CASE ev.kind \in {"bad", "quit"} /\ UNCHANGED table
      <3>1. ev.kind # Opening /\ UNCHANGED users
        BY <2>4 DEF Opening, table
      <3>. QED
        BY <1>0, <2>2, <2>3, <3>1, AttributionKept
    <2>5. CASE ev.kind \in {"connect", "register"} /\ upsertUser(ev)
      <3>1. LineOK(ev, net)
        BY <2>1, <2>2, NextLine
      <3>2. Dated(ev) /\ ev.uid \in UIDs
        BY <2>5, <3>1 DEF LineOK, Known
      <3>3. users'[ev.uid] # 0 /\ \A v \in UIDs \ {ev.uid} : users'[v] = users[v]
        BY <1>0, <2>5, <3>2, UpsertTable
      <3>. QED
        BY <1>0, <2>2, <2>3, <3>3, AttributionKept
    <2>. QED
      BY <2>2, <2>4, <2>5
  <1>5. ASSUME NEW c \in Conns, ObserveActivity(c) PROVE AInv'
    <2>1. PICK ev : ev = Head(lines[c]).line
      OBVIOUS
    <2>2. /\ lines[c] # <<>> /\ Take(c) /\ UNCHANGED <<net, unheard, forgotten, strayed>>
          /\ ev.kind \notin Opers \cup {"bad", "quit", "connect", "register"}
          /\ handleNick(ev) \/ UNCHANGED table
      BY <1>5, <2>1 DEF ObserveActivity, Ready, network, ghosts
    <2>3. LineOK(ev, net)
      BY <2>1, <2>2, NextLine
    <2>4. ev.uid \in UIDs
      BY <2>2, <2>3 DEF LineOK, Known, Opers
    <2>5. UNCHANGED users
      BY <2>2, <2>4, NickTable
    <2>6. ev.kind # Opening
      BY <2>2 DEF Opening
    <2>7. \A u : Pending(lines, u) => Pending(lines', u)
      BY <2>1, <2>2, <2>6, PendingTaken
    <2>. QED
      BY <1>0, <2>2, <2>5, <2>7, AttributionKept
  <1>6. ASSUME NEW c \in Conns, Create(c) PROVE AInv'
    <2>1. PICK ev : ev = readers[c].ev.line
      OBVIOUS
    <2>2. upsertUser(ev) /\ readers[c].pc = "create" /\ UNCHANGED <<net, lines, unheard, forgotten, strayed>>
      BY <1>6, <2>1 DEF Create, network, ghosts
    <2>3. Dated(ev) /\ ev.uid \in UIDs
      BY <2>1, <2>2 DEF EInv, EventsOK, EventOK, Known
    <2>4. users'[ev.uid] # 0 /\ \A v \in UIDs \ {ev.uid} : users'[v] = users[v]
      BY <1>0, <2>2, <2>3, UpsertTable
    <2>. QED
      BY <1>0, <2>2, <2>4, AttributionKept
  <1>7. ASSUME gc PROVE AInv'
    <2>1. UNCHANGED <<net, lines, unheard, strayed>>
      BY <1>7 DEF gc, network
    <2>2. /\ forgotten' = forgotten \cup {u \in UIDs : Stale(u)}
          /\ \A u \in UIDs : users'[u] = IF Stale(u) THEN 0 ELSE users[u]
      BY <1>7, EvictTable
    <2>. QED
      BY <1>0, <2>1, <2>2, AttributionKept
  <1>. QED
    BY <1>2, <1>3, <1>4, <1>5, <1>6, <1>7, AcceptAttribution, LocateAttribution, OperAttribution
       DEF Daemon

LEMMA AttributionInit == Init => AInv
  BY DEF Init, ManagerInit, AInv, Announced, AttributedToSelf

LEMMA AttributionStep == EInv /\ TInv /\ AInv /\ [Next]_vars => AInv'
  <1>. SUFFICES ASSUME EInv, TInv, AInv, [Next]_vars PROVE AInv'
    OBVIOUS
  <1>1. ASSUME UNCHANGED <<net, lines, users, forgotten, unheard, strayed>> PROVE AInv'
    BY <1>1 DEF AInv, Announced, AttributedToSelf
  <1>2. ASSUME NEW s \in Savers,
               \/ SaveBegin(s) \/ SaveOpen(s) \/ SaveRename(s)
               \/ \E result \in {"whole", "mixed", "failed"} : SaveWrite(s, result)
        PROVE  AInv'
    BY <1>1, <1>2 DEF SaveBegin, SaveOpen, SaveRename, SaveWrite, managerVars
  <1>3. ASSUME Term \/ Start \/ UNCHANGED vars PROVE AInv'
    BY <1>1, <1>3 DEF Term, Start, vars, managerVars, network, table, ghosts
  <1>4. ASSUME Down PROVE AInv'
    <2>1. forgotten' = UIDs /\ UNCHANGED <<net, unheard, strayed>>
      BY <1>4 DEF Down, network
    <2>. QED
      BY <2>1 DEF AInv, Announced, AttributedToSelf
  <1>. QED
    BY <1>2, <1>3, <1>4, NetworkAttribution, DaemonAttribution DEF Next, Steps

\* An event is counted on, and an operator's action put down to, the record of
\* its own user, however many connections overlap and whatever lines are lost,
\* unless that user was evicted or its first line never reached the table
\* before it: only then do getOrCreate and learnFromOperAction fall back on the
\* nick.
THEOREM EventsAttributed == Spec => []AttributedToSelf
  <1>1. AInv => AttributedToSelf
    BY DEF AInv
  <1>. QED
    BY <1>1, EventsInit, EventsStep, TableInit, TableStep, AttributionInit, AttributionStep,
       PTL DEF Spec

-----------------------------------------------------------------------------
(* The nick index of an orderly connection.                                 *)

\* The lines that the one reader has before it.
Queue == IF conn = 0 THEN <<>> ELSE lines[conn]

\* Only the reader of the current connection has work; connections are
\* accepted in the order of their numbers.
Resting(v) == v.pc \in {"none", "idle", "done"}
OnlyReader ==
  /\ \A d \in Conns : d # conn => lines[d] = <<>> /\ Resting(readers[d])
  /\ conn # 0 => readers[conn].pc \notin {"none", "done"}
  /\ \A d, e \in Conns : d < e /\ readers[d].pc = "none" => readers[e].pc = "none"

\* A line that carries u's nick; one that gives u a nick; u's first lines.
Named(l, u) == l.kind \notin {"bad", "oper_kline", "connect"} /\ l.uid = u
Naming(l, u) == l.kind \in {"register", "nick"} /\ l.uid = u
First(l, u) == l.kind \in {"connect", "register"} /\ l.uid = u
Straight(l) == l.nick \in Nicks /\ ~Retargets(l)

\* The nick that goes with a state of the network.
Called(x) == IF x = "open" THEN NoNick ELSE x

Renamed(q, u) == \E i \in 1..Len(q) : Naming(q[i].line, u)
Registering(q, u) == \E i \in 1..Len(q) : q[i].line.kind = "register" /\ q[i].line.uid = u
Nameless(q, u, x) == x \in {"new", "open"} \/ Registering(q, u)

\* What queue q says of u, whose state is x: its first lines come first, and
\* its lines since its last change of nick carry the nick it has.
QueueTells(q, u, x) ==
  /\ x \in {"new", "open"} => \A i \in 1..Len(q) : ~Named(q[i].line, u)
  /\ \A i \in 1..Len(q) : Named(q[i].line, u) => Straight(q[i].line)
  /\ \A i, j \in 1..Len(q) : First(q[i].line, u) /\ Named(q[j].line, u) => i <= j
  /\ \A i \in 1..Len(q) : q[i].line.kind = "connect" /\ q[i].line.uid = u
                            => q[i].line.nick = NoNick /\ Nameless(q, u, x)
  /\ x \notin Offline =>
       \A i \in 1..Len(q) :
         Named(q[i].line, u) /\ (\A j \in 1..Len(q) : j > i => ~Naming(q[j].line, u))
           => q[i].line.nick = Called(x)

\* What a record of u with nick n says: its nick, as of the lines read so far.
RecordTells(q, u, x, n) ==
  /\ x # "new"
  /\ x \notin Offline /\ ~Renamed(q, u) => n = Called(x)
  /\ Nameless(q, u, x) => n = NoNick

\* What the event l of a reader before its record is found says.
EventTells(q, l, x) ==
  /\ Named(l, l.uid) /\ l.nick \in Nicks /\ ~Nameless(q, l.uid, x)
  /\ x \notin Offline /\ ~Renamed(q, l.uid) => l.nick = Called(x)

NickOf(u) == recs[users[u]].Nick

\* The reader at work: a change of nick reaches the record that it is counted on.
ReaderTells(v) ==
  LET l == v.ev.line
  IN /\ v.pc \in {"locate", "create"} => EventTells(Queue, l, net[l.uid])
     /\ v.pc = "locate" /\ l.kind = "nick" /\ users[l.uid] # 0 => NickOf(l.uid) = l.nick
     /\ v.pc = "create" => users[l.uid] = 0
     /\ v.pc = "count" /\ l.kind = "nick" => v.rec \in Records /\ recs[v.rec].Nick = l.nick

\* An entry has a record of that nick.
EntriesKept ==
  /\ DOMAIN byNick = Nicks
  /\ \A n \in Nicks : byNick[n] # NoNick =>
       byNick[n] \in UIDs /\ users[byNick[n]] # 0 /\ NickOf(byNick[n]) = n

QueueTold == \A u \in UIDs : QueueTells(Queue, u, net[u])
RecordsTold == \A u \in UIDs : users[u] # 0 => RecordTells(Queue, u, net[u], NickOf(u))
EventTold == conn # 0 => ReaderTells(readers[conn])

NInv == orderly => OnlyReader /\ QueueTold /\ RecordsTold /\ EventTold /\ EntriesKept

\* What a line l of the network leads to, for the states x and y of u around it.
Follows(l, u, x, y) ==
  /\ y = x \/ Naming(l, u) \/ y \in Offline \/ x = "new"
  /\ y \in {"new", "open"} => x \in {"new", "open"}
  /\ x \in {"new", "open"} => y \in {"new", "open"} \/ (l.kind = "register" /\ l.uid = u)
  /\ First(l, u) => x \in {"new", "open"}
  /\ x # "new" => y # "new"
  /\ l.kind = "connect" /\ l.uid = u => l.nick = NoNick /\ y \in {"new", "open"}
  /\ Named(l, u) => /\ y \notin {"new", "open"} /\ Straight(l)
                    /\ y \notin Offline => l.nick = Called(y)

LEMMA QueueParts ==
  ASSUME NEW q \in Seq(Told), NEW t \in Told
  PROVE  /\ Len(q) \in Nat /\ Len(Append(q, t)) = Len(q) + 1 /\ Append(q, t)[Len(q) + 1] = t
         /\ \A i \in 1..Len(q) : Append(q, t)[i] = q[i]
         /\ \A i \in 1..Len(Append(q, t)) : i \in 1..Len(q) \/ i = Len(q) + 1
         /\ \A i \in 1..Len(q) : i \in 1..Len(Append(q, t)) /\ i < Len(q) + 1
         /\ Len(q) + 1 \in 1..Len(Append(q, t))
  OBVIOUS

LEMMA AppendSays ==
  ASSUME NEW q \in Seq(Told), NEW t \in Told, NEW u
  PROVE  /\ Renamed(Append(q, t), u) <=> Renamed(q, u) \/ Naming(t.line, u)
         /\ Registering(Append(q, t), u) <=>
              Registering(q, u) \/ (t.line.kind = "register" /\ t.line.uid = u)
  <1>1. PICK r, n : r = Append(q, t) /\ n = Len(q)
    OBVIOUS
  <1>2. /\ n \in Nat /\ r[n + 1] = t /\ n + 1 \in 1..Len(r)
        /\ \A i \in 1..n : r[i] = q[i] /\ i \in 1..Len(r)
        /\ \A i \in 1..Len(r) : i \in 1..n \/ i = n + 1
    BY <1>1, QueueParts
  <1>3. Renamed(r, u) <=> Renamed(q, u) \/ Naming(t.line, u)
    BY <1>1, <1>2 DEF Renamed
  <1>4. Registering(r, u) <=> Registering(q, u) \/ (t.line.kind = "register" /\ t.line.uid = u)
    BY <1>1, <1>2 DEF Registering
  <1>. QED
    BY <1>1, <1>3, <1>4

\* A line more in the queue.
LEMMA AppendTells ==
  ASSUME NEW q \in Seq(Told), NEW t \in Told, NEW u, NEW x, NEW y,
         QueueTells(q, u, x), Follows(t.line, u, x, y)
  PROVE  QueueTells(Append(q, t), u, y)
  <1>1. PICK r, n, l : r = Append(q, t) /\ n = Len(q) /\ l = t.line
    OBVIOUS
  <1>2. /\ n \in Nat /\ Len(r) = n + 1 /\ r[n + 1] = t /\ n + 1 \in 1..Len(r)
        /\ \A i \in 1..n : r[i] = q[i] /\ i \in 1..Len(r) /\ i < n + 1
        /\ \A i \in 1..Len(r) : i \in 1..n \/ i = n + 1
    BY <1>1, QueueParts
  <1>3. x \in {"new", "open"} => \A i \in 1..n : ~Named(q[i].line, u)
    BY <1>1 DEF QueueTells
  <1>4. y \in {"new", "open"} => \A i \in 1..Len(r) : ~Named(r[i].line, u)
    BY <1>1, <1>2, <1>3 DEF Follows
  <1>5. \A i \in 1..Len(r) : Named(r[i].line, u) => Straight(r[i].line)
    <2>1. \A i \in 1..n : Named(q[i].line, u) => Straight(q[i].line)
      BY <1>1 DEF QueueTells
    <2>2. Named(l, u) => Straight(l)
      BY <1>1 DEF Follows
    <2>. QED
      BY <1>1, <1>2, <2>1, <2>2
  <1>6. ASSUME NEW i \in 1..Len(r), NEW j \in 1..Len(r), First(r[i].line, u), Named(r[j].line, u)
        PROVE  i <= j
    <2>1. CASE i = n + 1 /\ j \in 1..n
      <3>1. x \in {"new", "open"}
        BY <1>1, <1>2, <1>6, <2>1 DEF Follows
      <3>. QED
        BY <1>2, <1>3, <1>6, <2>1, <3>1
    <2>2. CASE i \in 1..n /\ j \in 1..n
      BY <1>1, <1>2, <1>6, <2>2 DEF QueueTells
    <2>3. CASE j = n + 1
      BY <1>2, <1>6, <2>3
    <2>. QED
      BY <1>2, <2>1, <2>2, <2>3
  <1>7. ASSUME NEW i \in 1..Len(r), r[i].line.kind = "connect", r[i].line.uid = u
        PROVE  r[i].line.nick = NoNick /\ Nameless(r, u, y)
    <2>1. Registering(r, u) <=> Registering(q, u) \/ (l.kind = "register" /\ l.uid = u)
      BY <1>1, AppendSays
    <2>2. CASE i \in 1..n
      <3>1. q[i].line.nick = NoNick /\ Nameless(q, u, x)
        BY <1>1, <1>2, <1>7, <2>2 DEF QueueTells
      <3>2. Nameless(r, u, y)
        BY <1>1, <2>1, <3>1 DEF Nameless, Follows
      <3>. QED
        BY <1>2, <2>2, <3>1, <3>2
    <2>3. CASE i = n + 1
      BY <1>1, <1>2, <1>7, <2>3 DEF Nameless, Follows
    <2>. QED
      BY <1>2, <2>2, <2>3
  <1>8. ASSUME y \notin Offline, NEW i \in 1..Len(r), Named(r[i].line, u),
               \A j \in 1..Len(r) : j > i => ~Naming(r[j].line, u)
        PROVE  r[i].line.nick = Called(y)
    <2>1. CASE i = n + 1
      BY <1>1, <1>2, <1>8, <2>1 DEF Follows
    <2>2. CASE i \in 1..n
      <3>1. ~Naming(l, u)
        BY <1>1, <1>2, <1>8, <2>2
      <3>2. x # "new"
        BY <1>2, <1>3, <1>8, <2>2
      <3>3. y = x
        BY <1>1, <1>8, <3>1, <3>2 DEF Follows
      <3>4. \A j \in 1..n : j > i => ~Naming(q[j].line, u)
        BY <1>2, <1>8
      <3>5. Named(q[i].line, u) /\ q[i] = r[i]
        BY <1>2, <1>8, <2>2
      <3>6. q[i].line.nick = Called(x)
        BY <1>1, <1>8, <2>2, <3>3, <3>4, <3>5 DEF QueueTells
      <3>. QED
        BY <3>3, <3>5, <3>6
    <2>. QED
      BY <1>2, <2>1, <2>2
  <1>9. QueueTells(r, u, y)
    BY <1>4, <1>5, <1>6, <1>7, <1>8 DEF QueueTells
  <1>. QED
    BY <1>1, <1>9

LEMMA TailSays ==
  ASSUME NEW q \in Seq(Told), q # <<>>, NEW u
  PROVE  /\ Renamed(q, u) <=> Renamed(Tail(q), u) \/ Naming(Head(q).line, u)
         /\ Registering(q, u) <=>
              Registering(Tail(q), u) \/ (Head(q).line.kind = "register" /\ Head(q).line.uid = u)
  <1>1. PICK r : r = Tail(q)
    OBVIOUS
  <1>2. /\ Head(q) = q[1] /\ 1 \in 1..Len(q)
        /\ \A i \in 1..Len(r) : i + 1 \in 1..Len(q) /\ r[i] = q[i + 1]
    BY <1>1, ToldParts
  <1>3. \A i \in 1..Len(q) : i = 1 \/ (i - 1 \in 1..Len(r) /\ r[i - 1] = q[i])
    BY <1>1
  <1>4. Renamed(q, u) <=> Renamed(r, u) \/ Naming(Head(q).line, u)
    BY <1>2, <1>3 DEF Renamed
  <1>5. ASSUME Registering(q, u)
        PROVE  Registering(r, u) \/ (Head(q).line.kind = "register" /\ Head(q).line.uid = u)
    <2>1. PICK i \in 1..Len(q) : q[i].line.kind = "register" /\ q[i].line.uid = u
      BY <1>5 DEF Registering
    <2>. QED
      BY <1>2, <1>3, <2>1 DEF Registering
  <1>6. ASSUME Registering(r, u) PROVE Registering(q, u)
    <2>1. PICK i \in 1..Len(r) : r[i].line.kind = "register" /\ r[i].line.uid = u
      BY <1>6 DEF Registering
    <2>. QED
      BY <1>2, <2>1 DEF Registering
  <1>7. Head(q).line.kind = "register" /\ Head(q).line.uid = u => Registering(q, u)
    BY <1>2 DEF Registering
  <1>. QED
    BY <1>1, <1>4, <1>5, <1>6, <1>7

\* A line less in the queue.
LEMMA TailTells ==
  ASSUME NEW q \in Seq(Told), q # <<>>, NEW u, NEW x, QueueTells(q, u, x)
  PROVE  QueueTells(Tail(q), u, x)
  <1>1. PICK r : r = Tail(q)
    OBVIOUS
  <1>2. /\ Head(q) = q[1] /\ 1 \in 1..Len(q) /\ Len(r) \in Nat /\ Len(q) \in Nat
        /\ \A i \in 1..Len(r) : i + 1 \in 1..Len(q) /\ r[i] = q[i + 1]
        /\ \A i \in 1..Len(q) : i = 1 \/ (i - 1 \in 1..Len(r) /\ r[i - 1] = q[i])
    <2>1. \A i \in 1..Len(q) : i = 1 \/ (i - 1 \in 1..Len(r) /\ r[i - 1] = q[i])
      BY <1>1
    <2>. QED
      BY <1>1, <2>1, ToldParts
  <1>3. \A i \in 1..Len(r) : ~Named(r[i].line, u) \/ x \notin {"new", "open"}
    BY <1>2 DEF QueueTells
  <1>4. \A i \in 1..Len(r) : Named(r[i].line, u) => Straight(r[i].line)
    BY <1>2 DEF QueueTells
  <1>5. ASSUME NEW i \in 1..Len(r), NEW j \in 1..Len(r), First(r[i].line, u), Named(r[j].line, u)
        PROVE  i <= j
    <2>1. i + 1 <= j + 1
      BY <1>2, <1>5 DEF QueueTells
    <2>. QED
      BY <1>2, <2>1
  <1>6. ASSUME NEW i \in 1..Len(r), r[i].line.kind = "connect", r[i].line.uid = u
        PROVE  r[i].line.nick = NoNick /\ Nameless(r, u, x)
    <2>1. r[i].line.nick = NoNick /\ Nameless(q, u, x)
      BY <1>2, <1>6 DEF QueueTells
    <2>2. ASSUME Head(q).line.kind = "register", Head(q).line.uid = u PROVE FALSE
      <3>1. Named(q[1].line, u) /\ First(q[i + 1].line, u) /\ i + 1 \in 1..Len(q)
        BY <1>2, <1>6, <2>2 DEF Named, First
      <3>2. i + 1 <= 1
        BY <1>2, <3>1 DEF QueueTells
      <3>. QED
        BY <1>2, <3>2
    <2>3. Registering(q, u) => Registering(r, u)
      BY <1>1, <2>2, TailSays
    <2>. QED
      BY <2>1, <2>3 DEF Nameless
  <1>7. ASSUME x \notin Offline, NEW i \in 1..Len(r), Named(r[i].line, u),
               \A j \in 1..Len(r) : j > i => ~Naming(r[j].line, u)
        PROVE  r[i].line.nick = Called(x)
    <2>1. i + 1 \in 1..Len(q) /\ r[i] = q[i + 1]
      BY <1>2
    <2>2. ASSUME NEW j \in 1..Len(q), j > i + 1 PROVE ~Naming(q[j].line, u)
      <3>1. j - 1 \in 1..Len(r) /\ r[j - 1] = q[j] /\ j - 1 > i
        BY <1>2, <2>2
      <3>. QED
        BY <1>7, <3>1
    <2>. QED
      BY <1>7, <2>1, <2>2 DEF QueueTells
  <1>8. QueueTells(r, u, x)
    BY <1>3, <1>4, <1>5, <1>6, <1>7 DEF QueueTells
  <1>. QED
    BY <1>1, <1>8

\* The line that is read carries the nick that u had, and has if it was the last.
LEMMA HeadTells ==
  ASSUME NEW q \in Seq(Told), q # <<>>, NEW u, NEW x, QueueTells(q, u, x),
         Named(Head(q).line, u)
  PROVE  /\ Straight(Head(q).line) /\ Head(q).line.nick \in Nicks /\ ~Nameless(Tail(q), u, x)
         /\ x \notin Offline /\ ~Renamed(Tail(q), u) => Head(q).line.nick = Called(x)
  <1>1. PICK r : r = Tail(q)
    OBVIOUS
  <1>2. /\ Head(q) = q[1] /\ 1 \in 1..Len(q) /\ Len(r) \in Nat /\ Len(q) \in Nat
        /\ \A i \in 1..Len(r) : i + 1 \in 1..Len(q) /\ r[i] = q[i + 1]
        /\ \A i \in 1..Len(q) : i = 1 \/ (i - 1 \in 1..Len(r) /\ r[i - 1] = q[i])
    <2>1. \A i \in 1..Len(q) : i = 1 \/ (i - 1 \in 1..Len(r) /\ r[i - 1] = q[i])
      BY <1>1
    <2>. QED
      BY <1>1, <2>1, ToldParts
  <1>3. Straight(Head(q).line) /\ Head(q).line.nick \in Nicks /\ x \notin {"new", "open"}
    BY <1>2 DEF QueueTells, Straight
  <1>4. ASSUME Registering(r, u) PROVE FALSE
    <2>1. PICK i \in 1..Len(r) : r[i].line.kind = "register" /\ r[i].line.uid = u
      BY <1>4 DEF Registering
    <2>2. First(q[i + 1].line, u) /\ i + 1 \in 1..Len(q)
      BY <1>2, <2>1 DEF First
    <2>3. i + 1 <= 1
      BY <1>2, <2>2 DEF QueueTells
    <2>. QED
      BY <1>2, <2>3
  <1>5. ASSUME x \notin Offline, ~Renamed(r, u) PROVE Head(q).line.nick = Called(x)
    <2>1. ASSUME NEW j \in 1..Len(q), j > 1 PROVE ~Naming(q[j].line, u)
      <3>1. j - 1 \in 1..Len(r) /\ r[j - 1] = q[j]
        BY <1>2, <2>1
      <3>. QED
        BY <1>5, <3>1 DEF Renamed
    <2>. QED
      BY <1>2, <1>5, <2>1 DEF QueueTells
  <1>. QED
    BY <1>1, <1>3, <1>4, <1>5 DEF Nameless

-----------------------------------------------------------------------------
(* Lines of the network. *)

LEMMA QueueType == ASSUME EInv PROVE Queue \in Seq(Told)
  <1>1. <<>> \in Seq(Told)
    OBVIOUS
  <1>. QED
    BY <1>1 DEF EInv, LinesTyped, Queue

\* One line more: what the queue, the records and the reader tell is true of
\* the network as the line leaves it.
LEMMA LineTells ==
  ASSUME EInv, orderly, NInv, conn # 0, NEW t \in Told,
         lines' = [lines EXCEPT ![conn] = Append(lines[conn], t)],
         \A w \in UIDs : Follows(t.line, w, net[w], net'[w]),
         UNCHANGED <<conn, readers, recs, users, byNick>>
  PROVE  NInv'
  <1>0. /\ OnlyReader /\ QueueTold /\ RecordsTold /\ EventTold /\ EntriesKept
        /\ conn \in Conns /\ DOMAIN lines = Conns
    BY DEF NInv, EInv, LinesTyped
  <1>1. PICK q, r : q = Queue /\ r = Append(q, t)
    OBVIOUS
  <1>2. q \in Seq(Told) /\ q = lines[conn]
    BY <1>1, QueueType DEF Queue
  <1>3. lines'[conn] = r /\ Queue' = r /\ \A d \in Conns \ {conn} : lines'[d] = lines[d]
    BY <1>0, <1>1, <1>2 DEF Queue
  <1>4. \A w : /\ Renamed(r, w) <=> Renamed(q, w) \/ Naming(t.line, w)
               /\ Registering(r, w) <=>
                    Registering(q, w) \/ (t.line.kind = "register" /\ t.line.uid = w)
    BY <1>1, <1>2, AppendSays
  <1>5. OnlyReader'
    BY <1>0, <1>3 DEF OnlyReader
  <1>6. QueueTold'
    BY <1>0, <1>1, <1>2, <1>3, AppendTells DEF QueueTold
  <1>7. ASSUME NEW w \in UIDs, NEW n, RecordTells(q, w, net[w], n) PROVE RecordTells(r, w, net'[w], n)
    BY <1>4, <1>7 DEF RecordTells, Nameless, Follows, First
  <1>8. RecordsTold'
    BY <1>0, <1>1, <1>3, <1>7 DEF RecordsTold, NickOf
  <1>9. ASSUME NEW l, l.uid \in UIDs, EventTells(q, l, net[l.uid]) PROVE EventTells(r, l, net'[l.uid])
    BY <1>4, <1>9 DEF EventTells, Nameless, Follows, First
  <1>10. readers[conn].pc \in {"locate", "create"} => readers[conn].ev.line.uid \in UIDs
    BY <1>0 DEF EInv, EventsOK, EventOK, Known
  <1>11. EventTold'
    BY <1>0, <1>1, <1>3, <1>9, <1>10 DEF EventTold, ReaderTells, NickOf
  <1>12. EntriesKept'
    BY <1>0 DEF EntriesKept, NickOf
  <1>. QED
    BY <1>5, <1>6, <1>8, <1>11, <1>12 DEF NInv

LEMMA ChangeStateFollows ==
  ASSUME EInv, NEW u \in UIDs, NEW kind \in Kinds, NEW nick \in Nicks \cup {NoNick},
         ChangeState(u, kind, nick), NEW l, l.kind = kind, l.uid = u, l.nick = nick, ~Retargets(l)
  PROVE  \A w \in UIDs : Follows(l, w, net[w], net'[w])
  <1>0. NoNick \notin Nicks /\ "new" \notin Nicks /\ "open" \notin Nicks /\ "gone" \notin Nicks
    BY ManagerAssumption
  <1>1. DOMAIN net = UIDs
    BY DEF EInv
  <1>2. kind \in {"connect", "register", "nick", "quit", "oper_kill"}
    BY DEF ChangeState
  <1>3. /\ kind = "connect" => net[u] = "new" /\ nick = NoNick
        /\ kind = "register" => net[u] \in {"new", "open"} /\ nick \in Nicks
        /\ kind = "nick" => net[u] \in Nicks /\ nick \in Nicks
        /\ kind \in {"quit", "oper_kill"} => net[u] \in Nicks /\ nick = net[u]
    BY <1>2 DEF ChangeState
  <1>4. PICK y : y = CASE kind = "connect" -> "open"
                       [] kind \in {"register", "nick"} -> nick
                       [] OTHER -> "gone"
    OBVIOUS
  <1>5. net' = [net EXCEPT ![u] = y]
    BY <1>4 DEF ChangeState
  <1>6. net'[u] = y /\ \A w \in UIDs \ {u} : net'[w] = net[w]
    BY <1>1, <1>5
  <1>7. /\ kind = "connect" => y = "open"
        /\ kind \in {"register", "nick"} => y = nick
        /\ kind \in {"quit", "oper_kill"} => y = "gone"
    BY <1>2, <1>4
  <1>8. Follows(l, u, net[u], y)
    BY <1>0, <1>2, <1>3, <1>7 DEF Follows, Naming, Named, First, Offline, Called, Straight
  <1>9. \A w \in UIDs \ {u} : Follows(l, w, net[w], net[w])
    BY DEF Follows, Naming, Named, First
  <1>. QED
    BY <1>6, <1>8, <1>9

LEMMA ActFollows ==
  ASSUME EInv, NEW u \in UIDs, NEW kind \in Kinds, NEW body \in Bodies,
         NEW target \in Nicks \cup {NoNick}, Act(u, kind, body, target),
         NEW l, l = ActLine(u, kind, body, target)
  PROVE  \A w \in UIDs : Follows(l, w, net[w], net'[w])
  <1>0. NoNick \notin Nicks /\ "new" \notin Nicks /\ "open" \notin Nicks /\ "gone" \notin Nicks
    BY ManagerAssumption
  <1>1. /\ net[u] \in Nicks /\ UNCHANGED net
        /\ kind \notin {"bad", "connect", "register", "nick", "quit", "oper_kill"}
    BY DEF Act
  <1>2. l.kind = kind
    BY ActMoves
  <1>3. CASE kind = "oper_kline"
    BY <1>1, <1>2, <1>3 DEF Follows, Naming, Named, First
  <1>4. CASE kind # "oper_kline"
    <2>1. l.uid = u /\ l.nick = net[u]
      BY <1>4 DEF ActLine, Line
    <2>2. Straight(l)
      BY <1>1, <1>2, <2>1 DEF Straight, Retargets
    <2>. QED
      BY <1>0, <1>1, <1>2, <2>1, <2>2 DEF Follows, Naming, Named, First, Called
  <1>. QED
    BY <1>3, <1>4

LEMMA TellTells ==
  ASSUME EInv, NInv, NEW u \in UIDs, NEW l \in SentLines, Tell(u, l),
         ~Retargets(l) => \A w \in UIDs : Follows(l, w, net[w], net'[w])
  PROVE  NInv'
  <1>1. PICK did : did = IF l.kind \in Rated THEN Append(lately[u], l) ELSE lately[u]
    OBVIOUS
  <1>2. PICK t : t = [line |-> l, due |-> Due(did, l)]
    OBVIOUS
  <1>3. t \in Told /\ t.line = l
    BY <1>2, DueTyped DEF Told
  <1>4. /\ UNCHANGED <<conn, readers, recs, users, byNick>>
        /\ IF conn # 0 THEN /\ lines' = [lines EXCEPT ![conn] = Append(lines[conn], t)]
                            /\ orderly' = (orderly /\ ~Retargets(l))
                       ELSE orderly' = FALSE
    BY <1>1, <1>2 DEF Tell, table
  <1>5. CASE conn # 0 /\ orderly /\ ~Retargets(l)
    BY <1>3, <1>4, <1>5, LineTells
  <1>6. CASE ~(conn # 0 /\ orderly /\ ~Retargets(l))
    BY <1>4, <1>6 DEF NInv
  <1>. QED
    BY <1>5, <1>6

\* A step that leaves the index, the lines, the readers and the network alone.
LEMMA NicksUntouched ==
  ASSUME NInv, UNCHANGED <<net, lines, conn, readers, recs, users, byNick, orderly>>
  PROVE  NInv'
  BY DEF NInv, OnlyReader, QueueTold, RecordsTold, EventTold, EntriesKept, Queue, ReaderTells, NickOf

LEMMA NetworkNicks == ASSUME EInv, NInv, Network PROVE NInv'
  <1>0. UNCHANGED <<readers, recs, users, byNick, conn>>
    BY NetworkFrame
  <1>1. ASSUME NEW u \in UIDs, NEW kind \in Kinds, NEW nick \in Nicks \cup {NoNick},
               ChangeState(u, kind, nick)
        PROVE  NInv'
    <2>2. PICK l : /\ Tell(u, l) /\ l \in SentLines /\ l.kind = kind /\ l.uid = u
                   /\ ~Retargets(l) => l = Line(u, kind, nick, Plain, NoNick)
      BY <1>1, ChangeStateTells
    <2>4. ~Retargets(l) => \A w \in UIDs : Follows(l, w, net[w], net'[w])
      <3>1. ~Retargets(l) => l.nick = nick
        BY <2>2 DEF Line
      <3>. QED
        BY <1>1, <2>2, <3>1, ChangeStateFollows
    <2>. QED
      BY <2>2, <2>4, TellTells
  <1>2. ASSUME NEW u \in UIDs, NEW kind \in Kinds, NEW body \in Bodies,
               NEW target \in Nicks \cup {NoNick}, Act(u, kind, body, target)
        PROVE  NInv'
    <2>1. PICK l : l = ActLine(u, kind, body, target)
      OBVIOUS
    <2>2. Tell(u, l) /\ l \in SentLines
      BY <1>2, <2>1, ActMoves
    <2>3. \A w \in UIDs : Follows(l, w, net[w], net'[w])
      BY <1>2, <2>1, ActFollows
    <2>. QED
      BY <2>2, <2>3, TellTells
  <1>3. ASSUME Garble PROVE NInv'
    <2>1. PICK t : t = [line |-> [kind |-> "bad"], due |-> {}]
      OBVIOUS
    <2>2. t \in Told /\ t.line.kind = "bad"
      BY <2>1 DEF Told
    <2>3. /\ conn # 0 /\ UNCHANGED <<net, orderly>>
          /\ lines' = [lines EXCEPT ![conn] = Append(lines[conn], t)]
      BY <1>3, <2>1 DEF Garble
    <2>4. \A w \in UIDs : Follows(t.line, w, net[w], net'[w])
      BY <2>2, <2>3 DEF Follows, Naming, Named, First
    <2>5. CASE orderly
      BY <1>0, <2>2, <2>3, <2>4, <2>5, LineTells
    <2>6. CASE ~orderly
      BY <2>3, <2>6 DEF NInv
    <2>. QED
      BY <2>5, <2>6
  <1>4. ASSUME Tick PROVE NInv'
    <2>1. UNCHANGED <<net, lines, orderly>>
      BY <1>4 DEF Tick
    <2>. QED
      BY <1>0, <2>1, NicksUntouched
  <1>. QED
    BY <1>1, <1>2, <1>3, <1>4 DEF Network

-----------------------------------------------------------------------------
(* Steps of the daemon. *)

\* The reader at work goes on, with other lines left as they are.
LEMMA OnlyReaderGoesOn ==
  ASSUME EInv, OnlyReader, conn # 0, NEW v, DOMAIN v = ReaderFields,
         readers' = [readers EXCEPT ![conn] = v], v.pc \notin {"none", "done"}, UNCHANGED conn,
         \A d \in Conns \ {conn} : lines'[d] = lines[d]
  PROVE  OnlyReader'
  <1>0. conn \in Conns /\ ReaderTypes
    BY DEF EInv
  <1>1. readers'[conn] = v /\ \A d \in Conns \ {conn} : readers'[d] = readers[d]
    BY <1>0, ReaderGoesOn
  <1>. QED
    BY <1>0, <1>1 DEF OnlyReader

\* Nicks of records stay, and so does what they, the lines and the index tell.
LEMMA NicksKept ==
  ASSUME TInv, QueueTold, RecordsTold, EntriesKept, UNCHANGED <<net, users, byNick>>,
         Queue' = Queue, \A r \in Records : recs'[r].Nick = recs[r].Nick
  PROVE  /\ QueueTold' /\ RecordsTold' /\ EntriesKept'
         /\ \A u \in UIDs : users[u] # 0 => NickOf(u)' = NickOf(u)
  <1>1. \A u \in UIDs : users[u] # 0 => NickOf(u)' = NickOf(u)
    BY DEF TInv, OwnRecords, NickOf
  <1>2. QueueTold'
    BY DEF QueueTold
  <1>3. RecordsTold'
    BY <1>1 DEF RecordsTold
  <1>4. EntriesKept'
    BY <1>1 DEF EntriesKept
  <1>. QED
    BY <1>1, <1>2, <1>3, <1>4

\* The features of a record are computed, or an event is counted on it that
\* changes no nick.
LEMMA NickStays ==
  ASSUME NEW q, DOMAIN q = RecordFields
  PROVE  /\ \A t : WithFeatures(q, t).Nick = q.Nick
         /\ \A ev : ev.kind # "nick" \/ ev.nick = q.Nick => Counted(q, ev).Nick = q.Nick
  <1>1. \A t : WithFeatures(q, t).Nick = q.Nick
    BY DEF WithFeatures, RecordFields
  <1>2. ASSUME NEW ev PROVE /\ onMessage(q, ev).Nick = q.Nick /\ onJoin(q, ev).Nick = q.Nick
                            /\ onPart(q, ev).Nick = q.Nick /\ onCTCP(q, ev).Nick = q.Nick
                            /\ ev.nick = q.Nick => onNick(q, ev).Nick = q.Nick
    <2>1. PICK p : p = touch(q, ev.at)
      OBVIOUS
    <2>2. DOMAIN p = RecordFields /\ p.Nick = q.Nick
      BY <2>1 DEF touch, RecordFields
    <2>3. onMessage(q, ev).Nick = q.Nick
      BY <2>1, <2>2 DEF onMessage, RecordFields
    <2>4. onJoin(q, ev).Nick = q.Nick /\ onPart(q, ev).Nick = q.Nick /\ onCTCP(q, ev).Nick = q.Nick
      BY <2>1, <2>2 DEF onJoin, onPart, onCTCP, RecordFields
    <2>5. ev.nick = q.Nick => onNick(q, ev).Nick = q.Nick
      BY <2>1, <2>2 DEF onNick, RecordFields
    <2>. QED
      BY <2>3, <2>4, <2>5
  <1>3. ASSUME NEW ev, ev.kind # "nick" \/ ev.nick = q.Nick PROVE Counted(q, ev).Nick = q.Nick
    BY <1>2, <1>3 DEF Counted, Messages
  <1>. QED
    BY <1>1, <1>3

\* A step of the reader after which it is at no event, or past counting it.
LEMMA ReaderRests ==
  ASSUME EInv, TInv, orderly, NInv, conn # 0, NEW v, DOMAIN v = ReaderFields,
         readers' = [readers EXCEPT ![conn] = v],
         v.pc \in {"idle", "judge", "record", "train"},
         UNCHANGED <<net, lines, conn, users, byNick>>,
         \A r \in Records : recs'[r].Nick = recs[r].Nick
  PROVE  NInv'
  <1>0. conn \in Conns /\ ReaderTypes /\ OnlyReader /\ QueueTold /\ RecordsTold /\ EntriesKept
    BY DEF EInv, NInv
  <1>1. readers'[conn] = v
    BY <1>0, ReaderGoesOn
  <1>2. EventTold'
    BY <1>1 DEF EventTold, ReaderTells
  <1>3. OnlyReader'
    BY <1>0, OnlyReaderGoesOn
  <1>4. Queue' = Queue
    BY DEF Queue
  <1>. QED
    BY <1>0, <1>2, <1>3, <1>4, NicksKept DEF NInv

\* A step that changes records only, and no nick.
LEMMA RecordsOnly ==
  ASSUME TInv, NInv, \A r \in Records : recs'[r].Nick = recs[r].Nick,
         UNCHANGED <<net, lines, conn, readers, users, byNick, orderly>>, EInv
  PROVE  NInv'
  <1>1. CASE orderly
    <2>0. OnlyReader /\ QueueTold /\ RecordsTold /\ EntriesKept /\ EventTold
      BY <1>1 DEF NInv
    <2>1. Queue' = Queue
      BY DEF Queue
    <2>2. QueueTold' /\ RecordsTold' /\ EntriesKept' /\ \A u \in UIDs : users[u] # 0 => NickOf(u)' = NickOf(u)
      BY <2>0, <2>1, NicksKept
    <2>3. OnlyReader'
      BY <2>0 DEF OnlyReader
    <2>4. conn # 0 /\ readers[conn].pc \in {"locate", "create"} => readers[conn].ev.line.uid \in UIDs
      BY DEF EInv, EventsOK, EventOK, Known
    <2>5. EventTold'
      BY <2>0, <2>1, <2>2, <2>4 DEF EventTold, ReaderTells
    <2>. QED
      BY <2>2, <2>3, <2>5 DEF NInv
  <1>2. CASE ~orderly
    BY <1>2 DEF NInv
  <1>. QED
    BY <1>1, <1>2

\* The reader takes the next line, which changes nobody's nick, and goes on with
\* event l of it, or with none.
LEMMA LineRead ==
  ASSUME EInv, TInv, orderly, NInv, conn # 0, lines[conn] # <<>>, Take(conn),
         NEW v, NEW l, DOMAIN v = ReaderFields, l = Head(lines[conn]).line,
         \/ readers' = readers /\ v = readers[conn] /\ v.pc = "idle"
         \/ readers' = [readers EXCEPT ![conn] = v] /\ v.pc \in {"idle", "locate", "record"},
         UNCHANGED <<net, conn>>,
         RecordsTold', EntriesKept',
         v.pc = "locate" =>
            /\ v.ev = Head(lines[conn]) /\ Named(l, l.uid) /\ l.uid \in UIDs
            /\ l.kind = "nick" /\ users'[l.uid] # 0 => NickOf(l.uid)' = l.nick
  PROVE  NInv'
  <1>0. /\ conn \in Conns /\ ReaderTypes /\ OnlyReader /\ QueueTold
        /\ DOMAIN lines = Conns /\ lines[conn] \in Seq(Told) /\ Queue = lines[conn]
    BY DEF EInv, NInv, LinesTyped, Queue
  <1>1. lines'[conn] = Tail(lines[conn]) /\ \A d \in Conns \ {conn} : lines'[d] = lines[d]
    BY <1>0 DEF Take
  <1>2. Queue' = Tail(lines[conn])
    BY <1>1 DEF Queue
  <1>3. readers'[conn] = v /\ \A d \in Conns \ {conn} : readers'[d] = readers[d]
    BY <1>0, ReaderGoesOn
  <1>4. OnlyReader'
    BY <1>0, <1>1, <1>3 DEF OnlyReader
  <1>5. QueueTold'
    BY <1>0, <1>2, TailTells DEF QueueTold
  <1>6. EventTold'
    <2>1. CASE v.pc # "locate"
      BY <1>3, <2>1 DEF EventTold, ReaderTells
    <2>2. CASE v.pc = "locate"
      <3>2. /\ v.ev.line = l /\ Named(l, l.uid) /\ l.uid \in UIDs
            /\ l.kind = "nick" /\ users'[l.uid] # 0 => NickOf(l.uid)' = l.nick
        BY <2>2
      <3>3. QueueTells(lines[conn], l.uid, net[l.uid])
        BY <1>0, <3>2 DEF QueueTold
      <3>4. EventTells(Tail(lines[conn]), l, net[l.uid])
        BY <1>0, <3>2, <3>3, HeadTells DEF EventTells
      <3>. QED
        BY <1>2, <1>3, <2>2, <3>2, <3>4 DEF EventTold, ReaderTells
    <2>. QED
      BY <2>1, <2>2
  <1>. QED
    BY <1>4, <1>5, <1>6 DEF NInv

\* A record says as much once a line is read that gives its user no nick.
LEMMA TailRecord ==
  ASSUME NEW q \in Seq(Told), q # <<>>, NEW u, NEW x, NEW n, RecordTells(q, u, x, n),
         ~Naming(Head(q).line, u)
  PROVE  RecordTells(Tail(q), u, x, n)
  BY TailSays DEF RecordTells, Nameless

\* A line that leaves the table alone.
LEMMA TableLeft ==
  ASSUME EInv, orderly, NInv, conn # 0, lines[conn] # <<>>, Take(conn),
         UNCHANGED <<net, conn, recs, users, byNick>>,
         Head(lines[conn]).line.kind \notin {"register", "nick"} \/ users[Head(lines[conn]).line.uid] = 0
  PROVE  RecordsTold' /\ EntriesKept'
  <1>0. /\ conn \in Conns /\ RecordsTold /\ EntriesKept
        /\ DOMAIN lines = Conns /\ lines[conn] \in Seq(Told) /\ Queue = lines[conn]
    BY DEF EInv, NInv, LinesTyped, Queue
  <1>1. Queue' = Tail(lines[conn])
    BY <1>0 DEF Queue, Take
  <1>2. ASSUME NEW u \in UIDs, users[u] # 0 PROVE RecordTells(Queue', u, net[u], NickOf(u))
    <2>1. ~Naming(Head(lines[conn]).line, u)
      BY <1>2 DEF Naming
    <2>2. RecordTells(lines[conn], u, net[u], NickOf(u))
      BY <1>0, <1>2 DEF RecordsTold
    <2>. QED
      BY <1>0, <1>1, <2>1, <2>2, TailRecord
  <1>3. RecordsTold'
    BY <1>2 DEF RecordsTold, NickOf
  <1>4. EntriesKept'
    BY <1>0 DEF EntriesKept, NickOf
  <1>. QED
    BY <1>3, <1>4

\* upsertUser with a nick, for a user that no entry names.
LEMMA UpsertEntries ==
  ASSUME ReaderTypes, TInv, EntriesKept, NEW ev, Dated(ev), ev.uid \in UIDs, ev.nick \in Nicks,
         upsertUser(ev), users[ev.uid] # 0 => NickOf(ev.uid) = NoNick
  PROVE  EntriesKept'
  <1>0. NoNick \notin Nicks
    BY ManagerAssumption
  <1>1. /\ users'[ev.uid] # 0 /\ recs'[users'[ev.uid]].Nick = ev.nick
        /\ \A v \in UIDs \ {ev.uid} : users'[v] = users[v]
        /\ \A v \in UIDs \ {ev.uid} : users[v] # 0 => recs'[users[v]] = recs[users[v]]
    BY <1>0, UpsertTable
  <1>2. byNick' = [byNick EXCEPT ![ev.nick] = ev.uid]
    BY <1>0 DEF upsertUser
  <1>3. /\ DOMAIN byNick' = Nicks /\ byNick'[ev.nick] = ev.uid
        /\ \A n \in Nicks \ {ev.nick} : byNick'[n] = byNick[n]
    BY <1>2 DEF EntriesKept
  <1>4. ASSUME NEW n \in Nicks \ {ev.nick}, byNick[n] # NoNick
        PROVE  byNick[n] \in UIDs /\ users'[byNick[n]] # 0 /\ recs'[users'[byNick[n]]].Nick = n
    <2>1. byNick[n] \in UIDs /\ users[byNick[n]] # 0 /\ NickOf(byNick[n]) = n
      BY <1>4 DEF EntriesKept
    <2>2. byNick[n] # ev.uid
      BY <1>0, <2>1
    <2>. QED
      BY <1>1, <2>1, <2>2 DEF NickOf
  <1>. QED
    BY <1>1, <1>3, <1>4 DEF EntriesKept, NickOf

\* upsertUser without a nick: the record keeps the one it has.
LEMMA ConnectEntries ==
  ASSUME ReaderTypes, TInv, EntriesKept, NEW ev, Dated(ev), ev.uid \in UIDs, ev.nick = NoNick,
         upsertUser(ev)
  PROVE  EntriesKept'
  <1>1. /\ users'[ev.uid] # 0
        /\ users[ev.uid] # 0 => recs'[users'[ev.uid]].Nick = NickOf(ev.uid)
        /\ \A v \in UIDs \ {ev.uid} : users'[v] = users[v]
        /\ \A v \in UIDs \ {ev.uid} : users[v] # 0 => recs'[users[v]] = recs[users[v]]
    BY UpsertTable DEF NickOf
  <1>2. byNick' = byNick
    BY DEF upsertUser
  <1>3. ASSUME NEW u \in UIDs, users[u] # 0 PROVE users'[u] # 0 /\ recs'[users'[u]].Nick = NickOf(u)
    BY <1>1, <1>3 DEF NickOf
  <1>. QED
    BY <1>2, <1>3 DEF EntriesKept, NickOf

\* handleNick: the entry of the old nick goes, so none is left that names the
\* user but the new one.
LEMMA NickEntries ==
  ASSUME TInv, EntriesKept, NEW ev, ev.uid \in UIDs, ev.nick \in Nicks,
         ~Retargets(ev), ev.kind = "nick", handleNick(ev), users[ev.uid] # 0
  PROVE  EntriesKept'
  <1>0. NewNick(ev) = ev.nick
    BY DEF NewNick, Retargets
  <1>1. /\ users' = users /\ recs'[users[ev.uid]].Nick = ev.nick
        /\ \A v \in UIDs \ {ev.uid} : users[v] # 0 => recs'[users[v]] = recs[users[v]]
    BY <1>0, NickTable
  <1>2. PICK old : old = NickOf(ev.uid)
    OBVIOUS
  <1>3. byNick' = [n \in Nicks |-> CASE n = ev.nick -> ev.uid
                                     [] n = old /\ n # ev.nick -> NoNick
                                     [] OTHER -> byNick[n]]
    BY <1>0, <1>2 DEF handleNick, NickOf
  <1>4. DOMAIN byNick' = Nicks /\ byNick'[ev.nick] = ev.uid
    BY <1>3
  <1>5. ASSUME NEW n \in Nicks \ {ev.nick}, byNick'[n] # NoNick
        PROVE  byNick'[n] \in UIDs /\ users[byNick'[n]] # 0 /\ recs'[users[byNick'[n]]].Nick = n
    <2>1. n # old /\ byNick'[n] = byNick[n]
      BY <1>3, <1>5
    <2>2. byNick[n] \in UIDs /\ users[byNick[n]] # 0 /\ NickOf(byNick[n]) = n
      BY <1>5, <2>1 DEF EntriesKept
    <2>3. byNick[n] # ev.uid
      BY <1>2, <2>1, <2>2
    <2>. QED
      BY <1>1, <2>1, <2>2, <2>3 DEF NickOf
  <1>. QED
    BY <1>1, <1>4, <1>5 DEF EntriesKept, NickOf

\* A connect or a register is read.
LEMMA IdentityNicks ==
  ASSUME EInv, TInv, orderly, NInv, conn # 0, lines[conn] # <<>>, Take(conn),
         NEW ev, ev = Head(lines[conn]).line, ev.kind \in {"connect", "register"}, upsertUser(ev),
         UNCHANGED <<net, conn>>
  PROVE  RecordsTold' /\ EntriesKept'
  <1>0. /\ conn \in Conns /\ ReaderTypes /\ QueueTold /\ RecordsTold /\ EntriesKept
        /\ DOMAIN lines = Conns /\ lines[conn] \in Seq(Told) /\ Queue = lines[conn]
    BY DEF EInv, NInv, LinesTyped, Queue
  <1>1. PICK q, r, u, x : q = lines[conn] /\ r = Tail(q) /\ u = ev.uid /\ x = net[u]
    OBVIOUS
  <1>2. Queue' = r
    BY <1>0, <1>1 DEF Queue, Take
  <1>3. LineOK(ev, net)
    BY <1>0, NextLine
  <1>4. Dated(ev) /\ u \in UIDs /\ x # "new"
    BY <1>1, <1>3 DEF LineOK, Known
  <1>5. /\ users'[u] # 0
        /\ recs'[users'[u]].Nick = IF ev.nick # NoNick THEN ev.nick
                                   ELSE IF users[u] # 0 THEN recs[users[u]].Nick ELSE NoNick
        /\ \A v \in UIDs \ {u} : users'[v] = users[v]
        /\ \A v \in UIDs \ {u} : users[v] # 0 => recs'[users[v]] = recs[users[v]]
    BY <1>0, <1>1, <1>4, UpsertTable
  <1>6. QueueTells(q, u, x) /\ (users[u] # 0 => RecordTells(q, u, x, NickOf(u)))
    BY <1>0, <1>1, <1>4 DEF QueueTold, RecordsTold
  <1>7. Head(q) = q[1] /\ 1 \in 1..Len(q)
    BY <1>0, <1>1, ToldParts
  <1>8. ASSUME NEW v \in UIDs \ {u}, users'[v] # 0 PROVE RecordTells(r, v, net[v], recs'[users'[v]].Nick)
    <2>1. RecordTells(q, v, net[v], NickOf(v)) /\ ~Naming(ev, v)
      BY <1>0, <1>1, <1>5, <1>8 DEF RecordsTold, Naming
    <2>2. RecordTells(r, v, net[v], NickOf(v))
      BY <1>0, <1>1, <2>1, TailRecord
    <2>. QED
      BY <1>5, <1>8, <2>2 DEF NickOf
  <1>9. CASE ev.kind = "register"
    <2>1. Named(Head(q).line, u)
      BY <1>1, <1>9 DEF Named
    <2>2. /\ ev.nick \in Nicks /\ ~Nameless(r, u, x)
          /\ x \notin Offline /\ ~Renamed(r, u) => ev.nick = Called(x)
      BY <1>0, <1>1, <1>6, <2>1, HeadTells
    <2>3. ev.nick # NoNick
      BY <2>2, ManagerAssumption
    <2>4. RecordTells(r, u, x, recs'[users'[u]].Nick)
      BY <1>4, <1>5, <2>2, <2>3 DEF RecordTells
    <2>5. RecordsTold'
      BY <1>1, <1>2, <1>8, <2>4 DEF RecordsTold, NickOf
    <2>6. Nameless(q, u, x)
      BY <1>1, <1>7, <1>9 DEF Nameless, Registering
    <2>7. users[u] # 0 => NickOf(u) = NoNick
      BY <1>6, <2>6 DEF RecordTells
    <2>8. EntriesKept'
      BY <1>0, <1>1, <1>4, <2>2, <2>7, UpsertEntries
    <2>. QED
      BY <2>5, <2>8
  <1>10. CASE ev.kind = "connect"
    <2>1. ev.nick = NoNick /\ Nameless(q, u, x)
      BY <1>1, <1>6, <1>7, <1>10 DEF QueueTells
    <2>2. users[u] # 0 => NickOf(u) = NoNick
      BY <1>6, <2>1 DEF RecordTells
    <2>3. recs'[users'[u]].Nick = NoNick
      BY <1>5, <2>1, <2>2 DEF NickOf
    <2>4. Registering(q, u) => Renamed(r, u)
      <3>1. Registering(q, u) => Registering(r, u)
        BY <1>0, <1>1, <1>10, TailSays
      <3>2. Registering(r, u) => Renamed(r, u)
        BY DEF Registering, Renamed, Naming
      <3>. QED
        BY <3>1, <3>2
    <2>5. x \notin Offline /\ ~Renamed(r, u) => x = "open"
      BY <2>1, <2>4 DEF Nameless, Offline
    <2>6. RecordTells(r, u, x, NoNick)
      BY <1>4, <2>5 DEF RecordTells, Called
    <2>7. RecordsTold'
      BY <1>1, <1>2, <1>8, <2>3, <2>6 DEF RecordsTold, NickOf
    <2>8. EntriesKept'
      BY <1>0, <1>1, <1>4, <2>1, ConnectEntries
    <2>. QED
      BY <2>7, <2>8
  <1>. QED
    BY <1>9, <1>10

\* A change of nick is read.
LEMMA NickNicks ==
  ASSUME EInv, TInv, orderly, NInv, conn # 0, lines[conn] # <<>>, Take(conn),
         NEW ev, ev = Head(lines[conn]).line, ev.kind = "nick", handleNick(ev),
         UNCHANGED <<net, conn>>
  PROVE  /\ RecordsTold' /\ EntriesKept'
         /\ users'[ev.uid] # 0 => NickOf(ev.uid)' = ev.nick
  <1>0. /\ conn \in Conns /\ ReaderTypes /\ QueueTold /\ RecordsTold /\ EntriesKept
        /\ DOMAIN lines = Conns /\ lines[conn] \in Seq(Told) /\ Queue = lines[conn]
    BY DEF EInv, NInv, LinesTyped, Queue
  <1>1. PICK q, r, u, x : q = lines[conn] /\ r = Tail(q) /\ u = ev.uid /\ x = net[u]
    OBVIOUS
  <1>2. Queue' = r
    BY <1>0, <1>1 DEF Queue, Take
  <1>3. LineOK(ev, net)
    BY <1>0, NextLine
  <1>4. u \in UIDs /\ x # "new"
    BY <1>1, <1>3 DEF LineOK, Known
  <1>5. users' = users
    BY <1>1, <1>4, NickTable
  <1>6. CASE users[u] = 0
    <2>1. UNCHANGED <<recs, users, byNick>>
      BY <1>1, <1>6 DEF handleNick, table
    <2>2. RecordsTold' /\ EntriesKept'
      BY <1>1, <1>6, <2>1, TableLeft
    <2>. QED
      BY <1>1, <1>5, <1>6, <2>2
  <1>7. CASE users[u] # 0
    <2>2. QueueTells(q, u, x) /\ Named(Head(q).line, u)
      BY <1>0, <1>1, <1>4 DEF QueueTold, Named
    <2>3. /\ ev.nick \in Nicks /\ ~Nameless(r, u, x) /\ Straight(ev)
          /\ x \notin Offline /\ ~Renamed(r, u) => ev.nick = Called(x)
      BY <1>0, <1>1, <2>2, HeadTells
    <2>0. ~Retargets(ev) /\ NewNick(ev) = ev.nick
      BY <2>3 DEF Straight, NewNick, Retargets
    <2>1. /\ recs'[users[u]].Nick = ev.nick
          /\ \A v \in UIDs \ {u} : users[v] # 0 => recs'[users[v]] = recs[users[v]]
      BY <1>1, <1>4, <1>7, <2>0, NickTable
    <2>4. RecordTells(r, u, x, ev.nick)
      BY <1>4, <2>3 DEF RecordTells
    <2>5. ASSUME NEW v \in UIDs \ {u}, users[v] # 0 PROVE RecordTells(r, v, net[v], recs'[users[v]].Nick)
      <3>1. RecordTells(q, v, net[v], NickOf(v)) /\ ~Naming(ev, v)
        BY <1>0, <1>1, <2>5 DEF RecordsTold, Naming
      <3>2. RecordTells(r, v, net[v], NickOf(v))
        BY <1>0, <1>1, <3>1, TailRecord
      <3>. QED
        BY <2>1, <2>5, <3>2 DEF NickOf
    <2>6. RecordsTold'
      BY <1>1, <1>2, <1>5, <2>1, <2>4, <2>5 DEF RecordsTold, NickOf
    <2>7. EntriesKept'
      BY <1>0, <1>1, <1>4, <1>7, <2>0, <2>3, NickEntries
    <2>. QED
      BY <1>1, <1>5, <2>1, <2>6, <2>7 DEF NickOf
  <1>. QED
    BY <1>6, <1>7

\* A line is read.
LEMMA ReadNicks ==
  ASSUME EInv, TInv, orderly, NInv, NEW c \in Conns,
         ObserveIdentity(c) \/ ObserveActivity(c) \/ ObserveOper(c)
  PROVE  NInv'
  <1>0. Ready(c) /\ Take(c) /\ UNCHANGED <<net, conn>> /\ ReaderTypes /\ c # 0
    <2>1. ReaderTypes /\ c # 0
      BY DEF EInv, Conns
    <2>2. ObserveIdentity(c) => Ready(c) /\ Take(c) /\ UNCHANGED <<net, conn>>
      BY DEF ObserveIdentity, network
    <2>3. ObserveActivity(c) => Ready(c) /\ Take(c) /\ UNCHANGED <<net, conn>>
      BY DEF ObserveActivity, network
    <2>4. ObserveOper(c) => Ready(c) /\ Take(c) /\ UNCHANGED <<net, conn>>
      BY DEF ObserveOper, network
    <2>. QED
      BY <2>1, <2>2, <2>3, <2>4
  <1>1. c = conn /\ conn # 0 /\ lines[conn] # <<>> /\ Take(conn) /\ readers[conn].pc = "idle"
    BY <1>0 DEF NInv, OnlyReader, Ready
  <1>2. PICK ev : ev = Head(lines[conn]).line
    OBVIOUS
  <1>3. LineOK(ev, net)
    BY <1>0, <1>1, <1>2, NextLine
  <1>4. DOMAIN readers[conn] = ReaderFields
    BY <1>0, <1>1 DEF ReaderTypes
  <1>5. CASE ObserveIdentity(c)
    <2>1. UNCHANGED readers
      BY <1>5 DEF ObserveIdentity
    <2>2. \/ ev.kind \in {"bad", "quit"} /\ UNCHANGED table
          \/ ev.kind \in {"connect", "register"} /\ upsertUser(ev)
      BY <1>1, <1>2, <1>5 DEF ObserveIdentity
    <2>3. RecordsTold' /\ EntriesKept'
      <3>1. CASE ev.kind \in {"bad", "quit"} /\ UNCHANGED table
        BY <1>0, <1>1, <1>2, <3>1, TableLeft DEF table
      <3>2. CASE ev.kind \in {"connect", "register"} /\ upsertUser(ev)
        BY <1>0, <1>1, <1>2, <3>2, IdentityNicks
      <3>. QED
        BY <2>2, <3>1, <3>2
    <2>4. PICK v : v = readers[conn]
      OBVIOUS
    <2>5. DOMAIN v = ReaderFields /\ v.pc = "idle" /\ readers' = readers
      BY <1>1, <1>4, <2>1, <2>4
    <2>. QED
      BY <1>0, <1>1, <1>2, <2>3, <2>4, <2>5, LineRead
  <1>6. CASE ObserveActivity(c)
    <2>1. PICK v : /\ readers' = [readers EXCEPT ![conn] = v] /\ DOMAIN v = ReaderFields
                   /\ v.pc = "locate" /\ v.ev = Head(lines[conn])
      BY <1>0, <1>1, <1>6, ReaderMoves
    <2>2. /\ ev.kind \notin Opers \cup {"bad", "quit", "connect", "register"}
          /\ IF ev.kind = "nick" THEN handleNick(ev) ELSE UNCHANGED table
      BY <1>1, <1>2, <1>6 DEF ObserveActivity
    <2>3. ev.uid \in UIDs /\ Named(ev, ev.uid)
      BY <1>3, <2>2 DEF LineOK, Known, Opers, Named
    <2>4. /\ RecordsTold' /\ EntriesKept'
          /\ ev.kind = "nick" /\ users'[ev.uid] # 0 => NickOf(ev.uid)' = ev.nick
      <3>1. CASE ev.kind = "nick"
        BY <1>0, <1>1, <1>2, <2>2, <3>1, NickNicks
      <3>2. CASE ev.kind # "nick"
        BY <1>0, <1>1, <1>2, <2>2, <3>2, TableLeft DEF table
      <3>. QED
        BY <3>1, <3>2
    <2>. QED
      BY <1>0, <1>1, <1>2, <2>1, <2>3, <2>4, LineRead
  <1>7. CASE ObserveOper(c)
    <2>1. PICK v : readers' = [readers EXCEPT ![conn] = v] /\ DOMAIN v = ReaderFields /\ v.pc = "record"
      BY <1>0, <1>1, <1>7, ReaderMoves
    <2>2. ev.kind \in Opers /\ UNCHANGED <<recs, users, byNick>>
      BY <1>1, <1>2, <1>7 DEF ObserveOper, table
    <2>3. RecordsTold' /\ EntriesKept'
      BY <1>0, <1>1, <1>2, <2>2, TableLeft DEF Opers
    <2>. QED
      BY <1>0, <1>1, <1>2, <2>1, <2>3, LineRead
  <1>. QED
    BY <1>5, <1>6, <1>7

\* The record is looked for: if it is found, a change of nick has reached it.
LEMMA LocateNicks ==
  ASSUME EInv, TInv, orderly, NInv, NEW c \in Conns, Locate(c)
  PROVE  NInv'
  <1>0. /\ readers[c].pc = "locate" /\ UNCHANGED <<net, conn, lines, recs, users, byNick>> /\ c # 0
        /\ ReaderTypes /\ OnlyReader /\ QueueTold /\ RecordsTold /\ EventTold /\ EntriesKept
    BY DEF Locate, network, table, NInv, EInv, Conns
  <1>1. c = conn /\ conn # 0
    BY <1>0 DEF OnlyReader, Resting
  <1>2. PICK ev : ev = readers[c].ev.line
    OBVIOUS
  <1>3. ev.uid \in UIDs
    BY <1>0, <1>2 DEF EInv, EventsOK, EventOK, Known
  <1>4. /\ EventTells(Queue, ev, net[ev.uid])
        /\ ev.kind = "nick" /\ users[ev.uid] # 0 => NickOf(ev.uid) = ev.nick
    BY <1>0, <1>1, <1>2 DEF EventTold, ReaderTells
  <1>5. PICK v : /\ readers' = [readers EXCEPT ![c] = v] /\ DOMAIN v = ReaderFields
                 /\ \/ v.pc = "count" /\ v.ev = readers[c].ev /\ v.rec = users[Lookup(ev)] /\ v.rec # 0
                    \/ v.pc = "create" /\ v.ev = readers[c].ev /\ users[ev.uid] = 0
                    \/ v = Idle
    BY <1>0, <1>2, LocateMoves
  <1>6. v.pc = "count" /\ ev.kind = "nick" => v.rec \in Records /\ recs[v.rec].Nick = ev.nick
    <2>. SUFFICES ASSUME v.pc = "count", ev.kind = "nick"
                  PROVE  v.rec \in Records /\ recs[v.rec].Nick = ev.nick
      OBVIOUS
    <2>1. v.rec = users[Lookup(ev)] /\ v.rec # 0
      BY <1>5, IdleReader
    <2>2. CASE users[ev.uid] # 0
      <3>1. Lookup(ev) = ev.uid
        BY <2>2 DEF Lookup
      <3>. QED
        BY <1>3, <1>4, <2>1, <2>2, <3>1 DEF NickOf, TInv, OwnRecords
    <2>3. CASE users[ev.uid] = 0
      <3>1. byNick[ev.nick] # NoNick /\ Lookup(ev) = byNick[ev.nick]
        BY <2>1, <2>3 DEF Lookup
      <3>2. ev.nick \in Nicks
        BY <1>4 DEF EventTells
      <3>. QED
        BY <1>0, <2>1, <3>1, <3>2 DEF EntriesKept, NickOf, TInv, OwnRecords
    <2>. QED
      BY <2>2, <2>3
  <1>7. readers'[conn] = v
    BY <1>0, <1>1, <1>5, ReaderGoesOn
  <1>8. Queue' = Queue
    BY <1>0 DEF Queue
  <1>9. v.pc \notin {"none", "done"} /\ v.pc # "locate" /\ (v.pc \in {"count", "create"} => v.ev.line = ev)
        /\ (v.pc = "create" => users[ev.uid] = 0)
    BY <1>2, <1>5, IdleReader
  <1>10. ReaderTells(v)'
    BY <1>0, <1>4, <1>6, <1>8, <1>9 DEF ReaderTells
  <1>11. EventTold'
    BY <1>0, <1>7, <1>10 DEF EventTold, ReaderTells
  <1>12. OnlyReader'
    BY <1>0, <1>1, <1>5, <1>9, OnlyReaderGoesOn
  <1>13. QueueTold' /\ RecordsTold' /\ EntriesKept'
    BY <1>0, <1>8, NicksKept
  <1>. QED
    BY <1>11, <1>12, <1>13 DEF NInv

\* The record is made: by no other reader meanwhile.
LEMMA CreateNicks ==
  ASSUME EInv, TInv, orderly, NInv, NEW c \in Conns, Create(c)
  PROVE  NInv'
  <1>0. /\ readers[c].pc = "create" /\ UNCHANGED <<net, conn, lines>> /\ c # 0
        /\ ReaderTypes /\ OnlyReader /\ QueueTold /\ RecordsTold /\ EventTold /\ EntriesKept
    BY DEF Create, network, NInv, EInv, Conns
  <1>1. c = conn /\ conn # 0
    BY <1>0 DEF OnlyReader, Resting
  <1>2. PICK ev, u : ev = readers[c].ev.line /\ u = ev.uid
    OBVIOUS
  <1>3. u \in UIDs /\ Dated(ev) /\ net[u] # "new"
    BY <1>0, <1>2 DEF EInv, EventsOK, EventOK, Known
  <1>4. EventTells(Queue, ev, net[u]) /\ users[u] = 0 /\ upsertUser(ev)
    BY <1>0, <1>1, <1>2 DEF EventTold, ReaderTells, Create
  <1>5. ev.nick \in Nicks /\ ev.nick # NoNick
    BY <1>4, ManagerAssumption DEF EventTells
  <1>6. /\ TInv' /\ users'[u] # 0 /\ recs'[users'[u]].Nick = ev.nick
        /\ \A v \in UIDs \ {u} : users'[v] = users[v]
        /\ \A v \in UIDs \ {u} : users[v] # 0 => recs'[users[v]] = recs[users[v]]
    BY <1>0, <1>2, <1>3, <1>4, <1>5, UpsertTable
  <1>7. EntriesKept'
    BY <1>0, <1>2, <1>3, <1>4, <1>5, UpsertEntries
  <1>8. Queue' = Queue
    BY <1>0 DEF Queue
  <1>9. QueueTold'
    BY <1>0, <1>8 DEF QueueTold
  <1>10. RecordsTold'
    <2>1. RecordTells(Queue, u, net[u], ev.nick)
      BY <1>2, <1>3, <1>4 DEF EventTells, RecordTells
    <2>2. ASSUME NEW w \in UIDs, users'[w] # 0 PROVE RecordTells(Queue, w, net[w], recs'[users'[w]].Nick)
      BY <1>0, <1>6, <2>1, <2>2 DEF RecordsTold, NickOf
    <2>. QED
      BY <1>0, <1>8, <2>2 DEF RecordsTold, NickOf
  <1>11. PICK v : /\ readers' = [readers EXCEPT ![c] = v] /\ DOMAIN v = ReaderFields /\ v.pc = "count"
                  /\ v.ev = readers[c].ev /\ v.rec = users'[u]
    BY <1>0, <1>2, ReaderMoves
  <1>12. readers'[conn] = v
    BY <1>0, <1>1, <1>11, ReaderGoesOn
  <1>13. v.rec \in Records /\ recs'[v.rec].Nick = ev.nick /\ v.ev.line = ev
    BY <1>2, <1>3, <1>6, <1>11 DEF TInv, OwnRecords
  <1>14. ReaderTells(v)'
    BY <1>11, <1>13 DEF ReaderTells
  <1>15. EventTold'
    BY <1>0, <1>12, <1>14 DEF EventTold, ReaderTells
  <1>16. OnlyReader'
    BY <1>0, <1>1, <1>11, OnlyReaderGoesOn
  <1>. QED
    BY <1>7, <1>9, <1>10, <1>15, <1>16 DEF NInv

\* The steps of a reader after its record is found.
LEMMA CountNicks ==
  ASSUME EInv, TInv, orderly, NInv, NEW c \in Conns,
         Count(c) \/ Judge(c) \/ LearnTrain(c) \/ \E ok \in BOOLEAN : LearnRecord(c, ok)
  PROVE  NInv'
  <1>0. /\ readers[c].pc \in {"count", "judge", "train", "record"} /\ c # 0 /\ ReaderTypes
        /\ UNCHANGED <<net, lines, conn, users, byNick>>
    <2>1. ReaderTypes /\ c # 0
      BY DEF EInv, Conns
    <2>2. Count(c) => readers[c].pc = "count" /\ UNCHANGED <<net, lines, conn, users, byNick>>
      BY DEF Count, network
    <2>3. Judge(c) => readers[c].pc = "judge" /\ UNCHANGED <<net, lines, conn, users, byNick>>
      BY DEF Judge, network
    <2>4. LearnTrain(c) => readers[c].pc = "train" /\ UNCHANGED <<net, lines, conn, users, byNick>>
      BY DEF LearnTrain, network
    <2>5. ASSUME NEW ok \in BOOLEAN, LearnRecord(c, ok)
          PROVE  readers[c].pc = "record" /\ UNCHANGED <<net, lines, conn, users, byNick>>
      BY <2>5 DEF LearnRecord, network, table
    <2>. QED
      BY <2>1, <2>2, <2>3, <2>4, <2>5
  <1>1. c = conn /\ conn # 0
    BY <1>0 DEF NInv, OnlyReader, Resting
  <1>2. DOMAIN recs = Records /\ \A r \in Records : DOMAIN recs[r] = RecordFields
    BY DEF TInv, RecordsOK, RecordOK
  <1>3. PICK ev, r : ev = readers[c].ev.line /\ r = readers[c].rec
    OBVIOUS
  <1>4. CASE Count(c)
    <2>1. PICK v : /\ readers' = [readers EXCEPT ![c] = v] /\ DOMAIN v = ReaderFields /\ v.pc = "judge"
      BY <1>0, <1>4, ReaderMoves
    <2>2. readers[c].pc = "count" /\ recs' = [recs EXCEPT ![r] = Counted(recs[r], ev)]
      BY <1>3, <1>4 DEF Count
    <2>3. ev.kind # "nick" \/ ev.nick = recs[r].Nick
      BY <1>1, <1>3, <2>2 DEF NInv, EventTold, ReaderTells
    <2>4. \A d \in Records : recs'[d].Nick = recs[d].Nick
      BY <1>2, <2>2, <2>3, NickStays
    <2>. QED
      BY <1>0, <1>1, <2>1, <2>4, ReaderRests
  <1>5. CASE Judge(c) \/ LearnTrain(c)
    <2>1. readers' = [readers EXCEPT ![c] = Idle]
      BY <1>0, <1>5, ReaderMoves
    <2>2. recs' = [recs EXCEPT ![r] = WithFeatures(recs[r], ev.at)]
      BY <1>3, <1>5 DEF Judge, LearnTrain
    <2>3. \A d \in Records : recs'[d].Nick = recs[d].Nick
      BY <1>2, <2>2, NickStays
    <2>. QED
      BY <1>0, <1>1, <2>1, <2>3, ReaderRests, IdleReader
  <1>6. ASSUME NEW ok \in BOOLEAN, LearnRecord(c, ok) PROVE NInv'
    <2>1. PICK v : /\ readers' = [readers EXCEPT ![c] = v] /\ DOMAIN v = ReaderFields
                   /\ v.pc \in {"idle", "train"}
      BY <1>0, <1>6, ReaderMoves, IdleReader
    <2>2. recs' = recs
      BY <1>6 DEF LearnRecord, table
    <2>. QED
      BY <1>0, <1>1, <2>1, <2>2, ReaderRests
  <1>. QED
    BY <1>4, <1>5, <1>6

\* Eviction takes the entries of the evicted with it.
LEMMA EvictNicks ==
  ASSUME EInv, TInv, orderly, NInv, gc
  PROVE  NInv'
  <1>0. /\ UNCHANGED <<net, lines, conn, readers, orderly>> /\ ReaderTypes
        /\ OnlyReader /\ QueueTold /\ RecordsTold /\ EventTold /\ EntriesKept
    BY DEF gc, network, NInv, EInv
  <1>1. /\ \A u \in UIDs : users'[u] = IF Stale(u) THEN 0 ELSE users[u]
        /\ \A u \in UIDs : users'[u] # 0 => users'[u] = users[u] /\ recs'[users[u]] = recs[users[u]]
    BY EvictTable
  <1>2. /\ byNick' = [n \in Nicks |-> IF \E u \in UIDs : Stale(u) /\ recs[users[u]].Nick = n
                                      THEN NoNick ELSE byNick[n]]
        /\ recs' = [r \in Records |-> IF r \notin Held /\ \E u \in UIDs : Stale(u) /\ users[u] = r
                                      THEN NoRecord ELSE recs[r]]
    BY DEF gc
  <1>3. Queue' = Queue
    BY <1>0 DEF Queue
  <1>4. OnlyReader' /\ QueueTold'
    BY <1>0, <1>3 DEF OnlyReader, QueueTold
  <1>5. RecordsTold'
    BY <1>0, <1>1, <1>3 DEF RecordsTold, NickOf
  <1>6. EntriesKept'
    <2>1. ASSUME NEW n \in Nicks, byNick'[n] # NoNick
          PROVE  byNick'[n] \in UIDs /\ users'[byNick'[n]] # 0 /\ recs'[users'[byNick'[n]]].Nick = n
      <3>1. byNick'[n] = byNick[n] /\ ~\E u \in UIDs : Stale(u) /\ recs[users[u]].Nick = n
        BY <1>2, <2>1
      <3>2. byNick[n] \in UIDs /\ users[byNick[n]] # 0 /\ recs[users[byNick[n]]].Nick = n
        BY <1>0, <2>1, <3>1 DEF EntriesKept, NickOf
      <3>3. users'[byNick[n]] = users[byNick[n]]
        BY <1>1, <3>1, <3>2
      <3>. QED
        BY <1>1, <3>1, <3>2, <3>3
    <2>2. DOMAIN byNick' = Nicks
      BY <1>2
    <2>. QED
      BY <2>1, <2>2 DEF EntriesKept, NickOf
  <1>7. EventTold'
    <2>. SUFFICES ASSUME conn # 0 PROVE ReaderTells(readers[conn])'
      BY <1>0 DEF EventTold
    <2>0. conn \in Conns
      BY DEF EInv
    <2>1. PICK v, l : v = readers[conn] /\ l = v.ev.line
      OBVIOUS
    <2>2. v.pc \in {"locate", "create"} => l.uid \in UIDs
      BY <2>0, <2>1 DEF EInv, EventsOK, EventOK, Known
    <2>3. /\ v.pc \in {"locate", "create"} => EventTells(Queue, l, net[l.uid])
          /\ v.pc = "locate" /\ l.kind = "nick" /\ users[l.uid] # 0 => NickOf(l.uid) = l.nick
          /\ v.pc = "create" => users[l.uid] = 0
          /\ v.pc = "count" /\ l.kind = "nick" => v.rec \in Records /\ recs[v.rec].Nick = l.nick
      BY <1>0, <2>1 DEF EventTold, ReaderTells
    <2>4. v.rec \in Held
      BY <2>0, <2>1 DEF Held
    <2>5. v.rec \in Records => recs'[v.rec] = recs[v.rec]
      BY <1>2, <2>4
    <2>6. v.pc \in {"locate", "create"} /\ users'[l.uid] # 0 =>
             users[l.uid] # 0 /\ recs'[users'[l.uid]].Nick = recs[users[l.uid]].Nick
      BY <1>1, <2>2
    <2>7. v.pc = "create" => users'[l.uid] = 0
      BY <1>1, <2>2, <2>3
    <2>8. readers'[conn'] = v
      BY <1>0, <2>1
    <2>. QED
      BY <1>0, <1>3, <2>1, <2>3, <2>5, <2>6, <2>7, <2>8 DEF ReaderTells, NickOf
  <1>. QED
    BY <1>4, <1>5, <1>6, <1>7 DEF NInv

\* The connection is replaced: if things stay orderly, nothing was under way.
LEMMA AcceptQuiet ==
  ASSUME EInv, OnlyReader, NEW c \in Conns, NEW kept \in 0..MaxBacklog, Accept(c, kept), orderly'
  PROVE  /\ \A d \in Conns : lines[d] = <<>> /\ lines'[d] = <<>>
         /\ conn # 0 => readers[conn].pc = "idle"
  <1>0. /\ readers[c].pc = "none" /\ \A d \in 1..(c - 1) : ~Busy(d) \/ readers[d].pc = "done"
    BY DEF Accept
  <1>1. conn \in Conns \cup {0} /\ DOMAIN lines = Conns
    BY DEF EInv, LinesTyped
  <1>2. Conns = 1..MaxConns /\ MaxConns \in Nat /\ 0 \notin Conns
    BY ManagerAssumption DEF Conns
  <1>3. ASSUME conn # 0 PROVE lines[conn] = <<>> /\ readers[conn].pc = "idle"
    <2>1. readers[conn].pc \notin {"none", "done"}
      BY <1>3 DEF OnlyReader
    <2>2. ~(c < conn) /\ c # conn
      BY <1>0, <1>1, <1>3, <2>1 DEF OnlyReader
    <2>3. conn \in 1..(c - 1)
      BY <1>1, <1>2, <1>3, <2>2
    <2>. QED
      BY <1>0, <2>1, <2>3 DEF Busy
  <1>4. ASSUME NEW d \in Conns PROVE lines[d] = <<>>
    BY <1>2, <1>3 DEF OnlyReader
  <1>5. ASSUME NEW d \in Conns PROVE lines'[d] = <<>>
    <2>1. CASE conn = 0
      BY <1>4, <2>1 DEF Accept
    <2>2. CASE conn # 0
      <3>1. lines[conn] = <<>> /\ kept \in 0..Len(lines[conn])
            /\ lines' = [lines EXCEPT ![conn] = SubSeq(lines[conn], 1, kept)]
        BY <1>3, <2>2 DEF Accept
      <3>2. SubSeq(lines[conn], 1, kept) = <<>>
        BY <3>1
      <3>. QED
        BY <1>1, <1>4, <3>1, <3>2
    <2>. QED
      BY <2>1, <2>2
  <1>. QED
    BY <1>3, <1>4, <1>5

LEMMA AcceptNicks ==
  ASSUME EInv, orderly, NInv, NEW c \in Conns, NEW kept \in 0..MaxBacklog, Accept(c, kept)
  PROVE  NInv'
  <1>. SUFFICES ASSUME orderly' PROVE NInv'
    BY DEF NInv
  <1>0. /\ readers[c].pc = "none" /\ \A d \in 1..(c - 1) : readers[d].pc # "none"
        /\ readers' = [readers EXCEPT ![c] = Idle] /\ conn' = c
        /\ UNCHANGED <<net, recs, users, byNick>>
    BY DEF Accept, network, table
  <1>1. /\ OnlyReader /\ QueueTold /\ RecordsTold /\ EventTold /\ EntriesKept
        /\ ReaderTypes /\ conn \in Conns \cup {0} /\ DOMAIN lines = Conns
    BY DEF NInv, EInv, LinesTyped
  <1>2. Conns = 1..MaxConns /\ MaxConns \in Nat /\ 0 \notin Conns
    BY ManagerAssumption DEF Conns
  <1>3. /\ \A d \in Conns : lines[d] = <<>> /\ lines'[d] = <<>>
        /\ conn # 0 => readers[conn].pc = "idle"
    BY <1>1, AcceptQuiet
  <1>5. Queue = <<>> /\ Queue' = <<>>
    BY <1>0, <1>1, <1>3 DEF Queue
  <1>6. readers'[c] = Idle /\ \A d \in Conns \ {c} : readers'[d] = readers[d]
    BY <1>0, <1>1, IdleReader, ReaderGoesOn
  <1>7. \A d \in Conns \ {c} : Resting(readers[d])
    BY <1>1, <1>2, <1>3 DEF OnlyReader, Resting
  <1>8. OnlyReader'
    <2>1. ASSUME NEW d \in Conns, NEW e \in Conns, d < e, readers'[d].pc = "none"
          PROVE  readers'[e].pc = "none"
      <3>1. d # c /\ readers[d].pc = "none"
        BY <1>6, <2>1, IdleReader
      <3>2. ~(d < c)
        BY <1>0, <1>2, <3>1
      <3>3. e # c /\ readers[e].pc = "none"
        BY <1>1, <1>2, <2>1, <3>1, <3>2 DEF OnlyReader
      <3>. QED
        BY <1>6, <3>3
    <2>. QED
      BY <1>0, <1>3, <1>6, <1>7, <2>1, IdleReader DEF OnlyReader, Resting
  <1>9. QueueTold' /\ RecordsTold' /\ EntriesKept'
    BY <1>0, <1>1, <1>5 DEF QueueTold, RecordsTold, EntriesKept, NickOf
  <1>10. EventTold'
    BY <1>0, <1>6, IdleReader DEF EventTold, ReaderTells
  <1>. QED
    BY <1>8, <1>9, <1>10 DEF NInv

\* A connection without lines ends.
LEMMA EndNicks ==
  ASSUME EInv, orderly, NInv, NEW c \in Conns, ReadLoopEnds(c)
  PROVE  NInv'
  <1>0. /\ readers[c].pc = "idle" /\ lines[c] = <<>> /\ conn' = (IF conn = c THEN 0 ELSE conn)
        /\ UNCHANGED <<net, lines, recs, users, byNick>>
    BY DEF ReadLoopEnds, network, table
  <1>1. /\ OnlyReader /\ QueueTold /\ RecordsTold /\ EventTold /\ EntriesKept
        /\ ReaderTypes /\ conn \in Conns \cup {0}
    BY DEF NInv, EInv
  <1>2. PICK v : readers' = [readers EXCEPT ![c] = v] /\ DOMAIN v = ReaderFields /\ v.pc = "done"
    BY <1>1, ReaderMoves
  <1>3. readers'[c] = v /\ \A d \in Conns \ {c} : readers'[d] = readers[d]
    BY <1>1, <1>2, ReaderGoesOn
  <1>4. Queue' = Queue
    BY <1>0 DEF Queue
  <1>5. OnlyReader'
    BY <1>0, <1>1, <1>2, <1>3 DEF OnlyReader, Resting
  <1>6. QueueTold' /\ RecordsTold' /\ EntriesKept'
    BY <1>0, <1>1, <1>4 DEF QueueTold, RecordsTold, EntriesKept, NickOf
  <1>7. EventTold'
    <2>. SUFFICES ASSUME conn' # 0 PROVE ReaderTells(readers[conn])'
      BY DEF EventTold
    <2>1. conn' = conn /\ conn \in Conns \ {c}
      BY <1>0, <1>1
    <2>2. readers'[conn] = readers[conn] /\ ReaderTells(readers[conn])
      BY <1>1, <1>3, <2>1 DEF EventTold
    <2>. QED
      BY <1>0, <1>4, <2>1, <2>2 DEF ReaderTells, NickOf
  <1>. QED
    BY <1>5, <1>6, <1>7 DEF NInv

\* A step that computes a record's features: its nick stays.
LEMMA FeaturesNicks ==
  ASSUME EInv, TInv, NInv, NEW r, NEW t, recs' = [recs EXCEPT ![r] = WithFeatures(recs[r], t)],
         UNCHANGED <<net, lines, conn, readers, users, byNick, orderly>>
  PROVE  NInv'
  <1>1. PICK v : v = WithFeatures(recs[r], t)
    OBVIOUS
  <1>2. ASSUME NEW s \in Records PROVE recs'[s].Nick = recs[s].Nick
    <2>1. CASE s = r
      <3>1. DOMAIN recs[r] = RecordFields
        BY <1>2, <2>1 DEF TInv, RecordsOK, RecordOK
      <3>2. v.Nick = recs[r].Nick
        BY <1>1, <3>1, NickStays
      <3>. QED
        BY <1>1, <1>2, <2>1, <3>2 DEF TInv, RecordsOK
    <2>2. CASE s # r
      BY <1>1, <1>2, <2>2 DEF TInv, RecordsOK
    <2>. QED
      BY <2>1, <2>2
  <1>. QED
    BY <1>2, RecordsOnly

LEMMA DaemonNicks == ASSUME EInv, TInv, NInv, Daemon PROVE NInv'
  <1>1. CASE ~orderly
    <2>1. ~orderly'
      BY <1>1 DEF Daemon, Accept, ReadLoopEnds, ObserveIdentity, ObserveActivity, ObserveOper,
                  Locate, Create, Count, Judge, LearnRecord, LearnTrain, gc, AdminLookup,
                  AdminExplain, AdminRecord, AdminTrain
    <2>. QED
      BY <2>1 DEF NInv
  <1>2. CASE orderly
    <2>1. ASSUME AdminExplain \/ AdminTrain PROVE NInv'
      <3>1. UNCHANGED <<net, lines, conn, readers, users, byNick, orderly>>
        BY <2>1 DEF AdminExplain, AdminTrain, network, table
      <3>2. \/ UNCHANGED recs
            \/ recs' = [recs EXCEPT ![users[admin.uid]] = WithFeatures(recs[users[admin.uid]], now)]
        BY <2>1 DEF AdminExplain, AdminTrain
      <3>. QED
        BY <3>1, <3>2, NicksUntouched, FeaturesNicks
    <2>2. ASSUME (\E u \in UIDs : AdminLookup(u)) \/ \E ok, decisive \in BOOLEAN : AdminRecord(ok, decisive)
          PROVE  NInv'
      BY <2>2, NicksUntouched DEF AdminLookup, AdminRecord, network, table
    <2>. QED
      BY <1>2, <2>1, <2>2, ReadNicks, LocateNicks, CreateNicks, CountNicks, EvictNicks, AcceptNicks,
         EndNicks DEF Daemon
  <1>. QED
    BY <1>1, <1>2

LEMMA NicksInit == Init => NInv
  <1>. SUFFICES ASSUME Init PROVE NInv
    OBVIOUS
  <1>1. /\ net = [u \in UIDs |-> "new"] /\ lines = [c \in Conns |-> <<>>] /\ conn = 0
        /\ readers = [c \in Conns |-> [Idle EXCEPT !.pc = "none"]]
        /\ users = [u \in UIDs |-> 0] /\ byNick = [n \in Nicks |-> NoNick]
    BY DEF Init, ManagerInit
  <1>2. \A c \in Conns : readers[c].pc = "none"
    BY <1>1 DEF Idle
  <1>3. OnlyReader
    BY <1>1, <1>2 DEF OnlyReader, Resting
  <1>4. Queue = <<>>
    BY <1>1 DEF Queue
  <1>5. QueueTold
    <2>. SUFFICES ASSUME NEW u \in UIDs PROVE QueueTells(<<>>, u, "new")
      BY <1>1, <1>4 DEF QueueTold
    <2>. QED
      BY DEF QueueTells, Offline
  <1>. QED
    BY <1>1, <1>3, <1>5 DEF NInv, RecordsTold, EventTold, EntriesKept

LEMMA NicksStep == EInv /\ TInv /\ NInv /\ [Next]_vars => NInv'
  <1>. SUFFICES ASSUME EInv, TInv, NInv, [Next]_vars PROVE NInv'
    OBVIOUS
  <1>1. ASSUME NEW s \in Savers,
               \/ SaveBegin(s) \/ SaveOpen(s) \/ SaveRename(s)
               \/ \E result \in {"whole", "mixed", "failed"} : SaveWrite(s, result)
        PROVE  NInv'
    BY <1>1, NicksUntouched DEF SaveBegin, SaveOpen, SaveRename, SaveWrite, managerVars
  <1>2. ASSUME Term \/ Start \/ UNCHANGED vars PROVE NInv'
    BY <1>2, NicksUntouched DEF Term, Start, vars, managerVars, network, table, ghosts
  <1>3. ASSUME Down PROVE NInv'
    BY <1>3 DEF Down, NInv
  <1>. QED
    BY <1>1, <1>2, <1>3, NetworkNicks, DaemonNicks DEF Next, Steps

\* Once the lines of an orderly connection are read, whatever nick changes,
\* quits, evictions and admin calls came between them: a nick that the index
\* holds leads to a record, and if its user is online that is the user's nick,
\* to the network and to its record.  upsertUser, handleNick and removeUser
\* keep the index and the records together at every line.
THEOREM IndexIsHonest == Spec => []IndexHonest
  <1>1. ASSUME EInv, NInv PROVE IndexHonest
    <2>. SUFFICES ASSUME orderly, \A c \in Conns : readers[c].pc \in {"none", "done"} \/ ~Busy(c),
                         NEW n \in Nicks, byNick[n] # NoNick
                  PROVE  /\ users[byNick[n]] # 0
                         /\ Online(byNick[n]) => /\ net[byNick[n]] = n
                                                 /\ recs[users[byNick[n]]].Nick = n
      BY DEF IndexHonest
    <2>1. OnlyReader /\ RecordsTold /\ EntriesKept
      BY <1>1 DEF NInv
    <2>2. PICK u \in UIDs : u = byNick[n]
      BY <2>1 DEF EntriesKept
    <2>3. users[u] # 0 /\ NickOf(u) = n
      BY <2>1, <2>2 DEF EntriesKept
    <2>4. Queue = <<>>
      <3>1. CASE conn = 0
        BY <3>1 DEF Queue
      <3>2. CASE conn # 0
        <4>1. conn \in Conns /\ readers[conn].pc \notin {"none", "done"}
          BY <1>1, <2>1, <3>2 DEF EInv, OnlyReader
        <4>. QED
          BY <3>2, <4>1 DEF Queue, Busy
      <3>. QED
        BY <3>1, <3>2
    <2>5. net[u] \notin Offline => NickOf(u) = Called(net[u])
      <3>1. ~Renamed(<<>>, u)
        BY DEF Renamed
      <3>2. RecordTells(<<>>, u, net[u], NickOf(u))
        BY <2>1, <2>3, <2>4 DEF RecordsTold
      <3>. QED
        BY <3>1, <3>2 DEF RecordTells
    <2>6. n # NoNick
      BY ManagerAssumption
    <2>. QED
      BY <2>2, <2>3, <2>5, <2>6 DEF Online, Called, NickOf
  <1>. QED
    BY <1>1, EventsInit, EventsStep, TableInit, TableStep, NicksInit, NicksStep, PTL DEF Spec
=============================================================================
