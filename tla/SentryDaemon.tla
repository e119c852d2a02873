---------------------------- MODULE SentryDaemon ----------------------------
(***************************************************************************)
(* The process of cmd/sentry: SentryManager, started from the models file, *)
(* which a periodic saver and, once a signal has stopped the daemon, main  *)
(* itself write: a temporary file of one fixed name, renamed over the file *)
(* when it is complete.  The process can be killed at any step; the files  *)
(* and the label store survive, users and unsaved training do not.         *)
(*                                                                         *)
(* Files are inodes: opening truncates the inode that the name leads to,   *)
(* or makes one, and a writer keeps its inode when the name is moved.      *)
(***************************************************************************)
EXTENDS SentryManager

CONSTANTS MaxSaves,    \* bound: saves begun
          MaxStops,    \* bound: signals and kills
          MaxWork      \* bound: lines, requests, saves and stops together

Savers == {"periodic", "final"}
Inodes == 1..4

VARIABLES running,     \* up, stopping (ctx is done), down
          nstops,
          savers,      \* where saveModels is, on each of its two goroutines
          nsaves,
          disk,        \* disk[i]: contents of inode i
          dir,         \* inode of models.json and of models.json.tmp, 0 for none
          overlapped   \* both savers were at work at once

store == <<savers, nsaves, disk, dir, overlapped>>
vars == <<managerVars, running, nstops, savers, nsaves, disk, dir, overlapped>>

Fresh0 == [am |-> 0, clf |-> 0]
File(state, m) == [state |-> state, models |-> m]
NotSaving == [pc |-> "idle", snap |-> Fresh0, ino |-> 0]

-----------------------------------------------------------------------------
(* saveModels on goroutine s. *)

\* Copies of what both models hold, each taken under the model's own lock.
Snapshot == models

\* The ticker, until ctx is done; then main, once.
SaveBegin(s) ==
  /\ savers[s].pc = "idle" /\ nsaves < MaxSaves /\ nsaves' = nsaves + 1
  /\ running = IF s = "periodic" THEN "up" ELSE "stopping"
  /\ savers' = [savers EXCEPT ![s] = [pc |-> "open", snap |-> Snapshot, ino |-> 0]]
  /\ overlapped' = (overlapped \/ \E t \in Savers \ {s} : savers[t].pc \notin {"idle", "done"})
  /\ UNCHANGED <<managerVars, running, nstops, disk, dir>>

\* An inode that no name leads to and no writer has.
FreeInode == CHOOSE i \in Inodes : /\ i \notin {dir.tmp, dir.models}
                                   /\ \A s \in Savers : savers[s].ino # i

\* Wrong form: the models file itself is opened.
OpenInPlace(s) ==
  /\ savers[s].pc = "open"
  /\ LET i == IF dir.models # 0 THEN dir.models ELSE FreeInode
     IN /\ disk' = [disk EXCEPT ![i] = File("empty", Fresh0)]
        /\ dir' = [dir EXCEPT !.models = i]
        /\ savers' = [savers EXCEPT ![s].pc = "write", ![s].ino = i]
  /\ UNCHANGED <<managerVars, running, nstops, nsaves, overlapped>>

SaveOpen(s) ==
  /\ savers[s].pc = "open"
  /\ LET i == IF dir.tmp # 0 THEN dir.tmp ELSE FreeInode
     IN /\ disk' = [disk EXCEPT ![i] = File("empty", Fresh0)]
        /\ dir' = [dir EXCEPT !.tmp = i]
        /\ savers' = [savers EXCEPT ![s].pc = "write", ![s].ino = i]
  /\ UNCHANGED <<managerVars, running, nstops, nsaves, overlapped>>

\* Written from the start: over what another wrote meanwhile, if that is no
\* longer than this, and before its end otherwise.  A write that fails ends
\* the save.
SaveWrite(s, result) ==
  /\ savers[s].pc = "write"
  /\ result = "mixed" => disk[savers[s].ino].state # "empty"
  /\ disk' = [disk EXCEPT ![savers[s].ino] =
                IF result = "whole" THEN File("whole", savers[s].snap) ELSE File("torn", Fresh0)]
  /\ savers' = [savers EXCEPT ![s] = IF result = "failed"
                                     THEN IF s = "final" THEN [NotSaving EXCEPT !.pc = "done"]
                                                         ELSE NotSaving
                                     ELSE [@ EXCEPT !.pc = "rename"]]
  /\ UNCHANGED <<managerVars, running, nstops, nsaves, dir, overlapped>>

\* The name may be gone: the other saver has moved it.
SaveRename(s) ==
  /\ savers[s].pc = "rename"
  /\ dir' = IF dir.tmp = 0 THEN dir ELSE [models |-> dir.tmp, tmp |-> 0]
  /\ savers' = [savers EXCEPT ![s] = IF s = "final" THEN [NotSaving EXCEPT !.pc = "done"]
                                                    ELSE NotSaving]
  /\ UNCHANGED <<managerVars, running, nstops, nsaves, disk, overlapped>>

-----------------------------------------------------------------------------
(* The process. *)

\* loadModels: what the file holds if all of it is there, else new models.
Loaded == IF dir.models # 0 /\ disk[dir.models].state = "whole"
          THEN disk[dir.models].models ELSE Fresh0

Term ==
  /\ running = "up" /\ nstops < MaxStops
  /\ running' = "stopping" /\ nstops' = nstops + 1
  /\ UNCHANGED <<managerVars, store>>

\* Killed, or main has returned: goroutines, connections and users are gone.
Down ==
  /\ \/ running # "down" /\ nstops < MaxStops /\ nstops' = nstops + 1
     \/ running = "stopping" /\ savers["final"].pc = "done" /\ UNCHANGED nstops
  /\ running' = "down"
  /\ lines' = [c \in Conns |-> <<>>] /\ conn' = 0
  /\ readers' = [c \in Conns |-> IF readers[c].pc = "none" THEN readers[c]
                                 ELSE [Idle EXCEPT !.pc = "done"]]
  /\ recs' = [r \in Records |-> NoRecord]
  /\ users' = [u \in UIDs |-> 0] /\ byNick' = [n \in Nicks |-> NoNick]
  /\ admin' = IdleAdmin
  /\ savers' = [s \in Savers |-> NotSaving]
  /\ disk' = [i \in Inodes |-> IF \E s \in Savers : savers[s].pc = "write" /\ savers[s].ino = i
                               THEN File("torn", Fresh0) ELSE disk[i]]
  /\ forgotten' = UIDs /\ orderly' = FALSE
  /\ UNCHANGED <<network, now, nadmin, rows, models, unheard, strayed, misjudged, unrecorded,
                 nsaves, dir, overlapped>>

Start ==
  /\ running = "down" /\ running' = "up"
  /\ models' = Loaded
  /\ UNCHANGED <<network, now, lines, conn, readers, table, admin, nadmin, rows, orderly, ghosts,
                 nstops, store>>

Init ==
  /\ ManagerInit
  /\ running = "up" /\ nstops = 0
  /\ savers = [s \in Savers |-> NotSaving] /\ nsaves = 0
  /\ disk = [i \in Inodes |-> File("none", Fresh0)]
  /\ dir = [models |-> 0, tmp |-> 0] /\ overlapped = FALSE

Steps ==
  \/ (Network \/ (running # "down" /\ Daemon)) /\ UNCHANGED <<running, nstops, store>>
  \/ \E s \in Savers : \/ SaveBegin(s) \/ SaveOpen(s) \/ SaveRename(s)
                       \/ \E result \in {"whole", "mixed", "failed"} : SaveWrite(s, result)
  \/ Term \/ Down \/ Start

Next == Steps /\ nlines' + nadmin' + nsaves' + nstops' <= MaxWork

Spec == Init /\ [][Next]_vars

-----------------------------------------------------------------------------
\* onMessage counts a hash when its message enters the window and uncounts it
\* when the message leaves: the counts are always those of the window.
HashesMatchWindow ==
  \A r \in Records, h \in Hashes :
    recs[r].msgHashes[h] =
      Cardinality({i \in DOMAIN recs[r].recentMsgs : recs[r].recentMsgs[i].body.hash = h})

\* Feature vector fv, with u's account and TLS in place of those it was taken with.
SetAside(fv, u) == [fv EXCEPT !.account = u.Account, !.tls = u.IsTLS]

\* A cached feature vector is what computeFeatures would give on the windows as
\* they are now, for the time at which it was computed, whichever of Observe,
\* learnFromOperAction, Explain and RecordFeedback filled the cache.  All but
\* the account and TLS: upsertUser changes them and leaves the cache alone.
FeaturesCurrent ==
  \A r \in Records : \A fv \in recs[r].cachedFeatures :
    SetAside(fv, recs[r]) = computeFeatures(recs[r], fv.age + recs[r].FirstSeen)

\* An event is counted on, and an operator's action put down to, the record of
\* the user it is about, unless that user's record was evicted as idle (or lost
\* with the process) or its connect was never seen before it: then getOrCreate
\* and learnFromOperAction fall back on the nick, which may lead to the record
\* of a user who has left.
AttributedToSelf == strayed \subseteq forgotten \cup unheard

\* While the lines of one connection come in order and are all handled, the
\* nick index never takes an online user for another: an entry that names one
\* is its nick, its record says the same, and every entry has a record.  (It
\* may lack an entry: evicting a user who left takes the nick's new owner out.)
\* That is so while every nick line has the new nick as its subject, which is
\* how sim writes them: when one has it as its target, as handleNick allows,
\* onNick puts the old nick back into the record and the two go apart.
IndexHonest ==
  orderly /\ (\A c \in Conns : readers[c].pc \in {"none", "done"} \/ ~Busy(c)) =>
    \A n \in Nicks : byNick[n] # NoNick =>
      /\ users[byNick[n]] # 0
      /\ Online(byNick[n]) => /\ net[byNick[n]] = n
                              /\ recs[users[byNick[n]]].Nick = n

\* The bounded windows and the cache lose nothing that a rate rule needs: on an
\* orderly connection the eight rules decide as the code's own comparisons
\* would on an unbounded history of the user's last minute.  None fires unless
\* that reaches the limit, and the six that count fire whenever it does (unless
\* the admin API has had the features computed for a later time between the
\* event and its judgement).  This is about the windows, not about the limits:
\* the comparisons are >=, where comments in l1.go say "more than", and kicks
\* count as parts.
RateAlertsTrue == misjudged = {}

\* saveModels replaces models.json only by a complete file, whatever moment the
\* process is killed at, unless the signal came while the periodic save was at
\* work: the final save then writes the same temporary file.
ModelsWhole ==
  dir.models # 0 /\ disk[dir.models].state # "whole" => overlapped

\* Every training step of L3 that is still in the models has a label in the
\* store, killed and restarted or not, except those of operator actions whose
\* label could not be stored.
StepsOnRecord == models.clf <= rows + unrecorded
=============================================================================
