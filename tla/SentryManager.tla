---------------------------- MODULE SentryManager ----------------------------
(***************************************************************************)
(* The Sentry daemon while it runs: the socket that sentinel writes its    *)
(* event lines to (sentry/socket.go), the table of users with its nick     *)
(* index, idle eviction and the pipeline of Observe (sentry/manager.go),   *)
(* the store of operator labels (sentry/feedback) and the admin API        *)
(* (sentry/adminapi).                                                      *)
(*                                                                         *)
(* The IRC network is external: users connect once, with a UID of their    *)
(* own, register, change nicks (a nick has one owner at a time), talk and  *)
(* quit, and sentinel writes a line for each of it, or none while it has   *)
(* no connection.  When it connects again the daemon closes the connection *)
(* it had, whose reader goes on with the lines that its scanner has        *)
(* already buffered: two readers can then be in Observe at once.           *)
(*                                                                         *)
(* Records are shared by pointer: the table maps a UID to the number of    *)
(* its record, and a reader goes on with a record that was evicted.  The   *)
(* scores of L2 and L3 are floating-point numbers whose alerts go to the   *)
(* log and nowhere else; what the models keep is how many samples they     *)
(* were given.                                                             *)
(***************************************************************************)
EXTENDS UserState

CONSTANTS UIDs, Nicks,
          Hosts,         \* Hosts[u]: where u connects from
          Kinds,         \* kinds of lines that sentinel writes
          Secured,       \* users who come over TLS and log in to an account
          NickForms,     \* where a nick line has the new nick: "nick", "target"
          MaxIdle,       \* m.maxIdle
          MaxLines,      \* bound: lines written
          MaxBacklog,    \* bound: lines waiting on a connection
          MaxConns,      \* bound: connections of sentinel
          MaxTime,       \* bound: ticks
          MaxAdmin       \* bound: requests to the admin API

ASSUME ManagerAssumption ==
  /\ IsFiniteSet(UIDs)
  /\ Nicks \cap {NoNick, "new", "open", "gone"} = {}
  /\ MaxIdle \in Nat /\ MaxConns \in Nat /\ MaxBacklog \in Nat

Conns == 1..MaxConns
Records == 1..(Cardinality(UIDs) + MaxConns + 1)
Offline == {"new", "gone"}
Opers == {"oper_kill", "oper_kick", "oper_kline"}
RateRules == {"flood", "mass_join", "nick_flip", "hop_flood", "pm_flood",
              "pm_shotgun", "mention_storm", "nickserv_spoof"}

\* The first line about a user.
Opening == IF "connect" \in Kinds THEN "connect" ELSE "register"

\* Rules that look for something among the last messages and not at how many
\* there are: it can have left a full window within the minute.
Searching == {"pm_shotgun", "nickserv_spoof"}

Rated == Messages \cup {"join", "part", "kick", "nick"}

VARIABLES net,         \* net[u]: new, open (no nick yet), u's nick, or gone
          lately,      \* lately[u]: what u did in the last minute
          nlines,      \* lines written so far
          now,         \* the clock
          lines,       \* lines[c]: written on connection c and not yet read
          conn,        \* s.conn, 0 for nil
          readers,     \* the goroutine of each connection
          recs,        \* the user records
          users,       \* m.users: number of the record, 0 for none
          byNick,      \* m.byNick: a UID or NoNick
          admin,       \* the request to the admin API
          nadmin,      \* requests so far
          rows,        \* rows of sentry_feedback
          models,      \* samples given to L2 and steps taken by L3
          orderly,     \* no line was lost, no two readers had lines at once, and
                       \* no nick line had the new nick as its target
          unheard,     \* users whose first line was lost or is overtaken
          forgotten,   \* users whose record was evicted
          strayed,     \* users whose event was not counted on their own record
          misjudged,   \* rate rules that were wrong about a user
          unrecorded   \* training steps whose label could not be stored

network == <<net, lately, nlines>>
table == <<recs, users, byNick>>
ghosts == <<unheard, forgotten, strayed, misjudged, unrecorded>>
managerVars == <<net, lately, nlines, now, lines, conn, readers, recs, users, byNick, admin,
                 nadmin, rows, models, orderly, unheard, forgotten, strayed, misjudged, unrecorded>>

NoLine == [kind |-> "none"]
Idle == [pc |-> "idle", ev |-> NoLine, rec |-> 0]
IdleAdmin == [pc |-> "idle", uid |-> NoNick]

-----------------------------------------------------------------------------
(* The network and sentinel. *)

Online(u) == net[u] \notin Offline

\* The limits of the rate rules, on all that u did in the last minute, line included.
Due(did, line) ==
  LET N(P(_)) == Cardinality({i \in DOMAIN did : P(did[i])})
      pms == {i \in DOMAIN did : did[i].kind = "usermsg"}
  IN {k \in RateRules :
        CASE k = "flood"          -> /\ line.kind \in Talk
                                     /\ N(LAMBDA d : d.kind \in Messages) >= Limit.flood
          [] k = "mass_join"      -> /\ line.kind = "join"
                                     /\ N(LAMBDA d : d.kind = "join") >= Limit.joins
          [] k = "nick_flip"      -> /\ line.kind = "nick"
                                     /\ N(LAMBDA d : d.kind = "nick") >= Limit.nicks
          [] k = "hop_flood"      -> /\ line.kind \in {"join", "part"}
                                     /\ N(LAMBDA d : d.kind \in {"join", "part", "kick"}) >= Limit.hops
          [] k = "pm_flood"       -> /\ line.kind = "usermsg"
                                     /\ Cardinality(pms) >= Limit.pms
          [] k = "pm_shotgun"     -> /\ line.kind = "usermsg"
                                     /\ Cardinality({did[i].target : i \in pms}) >= Limit.targets
          [] k = "mention_storm"  -> /\ line.kind = "chanmsg"
                                     /\ N(LAMBDA d : d.kind = "chanmsg" /\ d.body.mentions >= 3)
                                          >= Limit.mentions
          [] k = "nickserv_spoof" -> /\ line.kind = "usermsg"
                                     /\ \E i \in pms : did[i].body.spoof}

\* A nick line that has the old nick as its subject, the new one as its target.
Retargets(line) == line.kind = "nick" /\ line.target # NoNick

\* u does something that sentinel tells: the line is written, or lost.
Tell(u, line) ==
  LET did == IF line.kind \in Rated THEN Append(lately[u], line) ELSE lately[u]
      told == [line |-> line, due |-> Due(did, line)]
  IN /\ nlines < MaxLines /\ nlines' = nlines + 1
     /\ lately' = [lately EXCEPT ![u] = did]
     /\ IF conn # 0 THEN /\ Len(lines[conn]) < MaxBacklog
                         /\ lines' = [lines EXCEPT ![conn] = Append(@, told)]
                         /\ orderly' = (orderly /\ ~Retargets(line))
                         /\ UNCHANGED unheard
                    ELSE /\ orderly' = FALSE
                         /\ unheard' = unheard \cup (IF line.kind = Opening THEN {u} ELSE {})
                         /\ UNCHANGED lines
     /\ UNCHANGED <<now, conn, readers, table, admin, nadmin, rows, models, forgotten, strayed,
                    misjudged, unrecorded>>

Plain == CHOOSE b \in Bodies : TRUE

Line(u, kind, nick, body, target) ==
  [kind |-> kind, uid |-> u, nick |-> nick, host |-> NoNick, at |-> now, body |-> body,
   target |-> target, account |-> kind = "register" /\ u \in Secured,
   tls |-> kind \in {"connect", "register"} /\ u \in Secured]

\* Connecting, registering a free nick, changing it, quitting.
ChangeState(u, kind, nick) ==
  /\ kind \in Kinds
  /\ CASE kind = "connect"              -> net[u] = "new" /\ nick = NoNick
       [] kind = "register"             -> /\ net[u] = IF Opening = "connect" THEN "open" ELSE "new"
                                           /\ nick \in Nicks
       [] kind = "nick"                 -> net[u] \in Nicks /\ nick \in Nicks
       [] kind \in {"quit", "oper_kill"} -> net[u] \in Nicks /\ nick = net[u]
       [] OTHER                         -> FALSE
  /\ kind \in {"register", "nick"} => \A v \in UIDs : net[v] # nick
  /\ net' = [net EXCEPT ![u] = CASE kind = "connect" -> "open"
                                 [] kind \in {"register", "nick"} -> nick
                                 [] OTHER -> "gone"]
  /\ \/ /\ kind = "nick" => "nick" \in NickForms
        /\ Tell(u, Line(u, kind, nick, Plain, NoNick))
     \/ /\ kind = "nick" /\ "target" \in NickForms
        /\ Tell(u, Line(u, kind, net[u], Plain, nick))

\* Everything else a registered user does, or is done to it.
Act(u, kind, body, target) ==
  /\ kind \in Kinds \ {"bad", "connect", "register", "nick", "quit", "oper_kill"}
  /\ net[u] \in Nicks
  /\ kind \notin Talk => body = Plain
  /\ (kind = "usermsg") <=> (target # NoNick)
  /\ Tell(u, IF kind = "oper_kline"
             THEN [Line(NoNick, kind, NoNick, body, target) EXCEPT !.host = Hosts[u]]
             ELSE Line(u, kind, net[u], body, target))
  /\ UNCHANGED net

\* A line that is not an event.
Garble ==
  /\ "bad" \in Kinds /\ conn # 0 /\ Len(lines[conn]) < MaxBacklog
  /\ nlines < MaxLines /\ nlines' = nlines + 1
  /\ lines' = [lines EXCEPT ![conn] = Append(@, [line |-> [kind |-> "bad"], due |-> {}])]
  /\ UNCHANGED <<net, lately, now, conn, readers, table, admin, nadmin, rows, models, orderly, ghosts>>

\* What was done more than a minute ago comes first.
Tick ==
  /\ now < MaxTime /\ now' = now + 1
  /\ lately' = [u \in UIDs |->
       LET old == {i \in DOMAIN lately[u] : ~Within(lately[u][i].at, now')}
       IN SubSeq(lately[u], Cardinality(old) + 1, Len(lately[u]))]
  /\ UNCHANGED <<net, nlines, lines, conn, readers, table, admin, nadmin, rows, models, orderly, ghosts>>

-----------------------------------------------------------------------------
(* The socket. *)

Busy(c) == lines[c] # <<>> \/ readers[c].pc # "idle"

\* Accept: the connection before is closed, with the lines not yet buffered.
Accept(c, kept) ==
  /\ readers[c].pc = "none" /\ \A d \in 1..(c - 1) : readers[d].pc # "none"
  /\ conn' = c
  /\ readers' = [readers EXCEPT ![c] = Idle]
  /\ IF conn = 0 THEN kept = 0 /\ UNCHANGED <<lines, unheard>>
     ELSE LET old == lines[conn]
          IN /\ kept \in 0..Len(old)
             /\ lines' = [lines EXCEPT ![conn] = SubSeq(old, 1, kept)]
             /\ unheard' = unheard \cup {old[i].line.uid : i \in
                             {j \in (kept + 1)..Len(old) : old[j].line.kind = Opening}}
  /\ orderly' = (orderly /\ \A d \in 1..(c - 1) : ~Busy(d) \/ readers[d].pc = "done")
  /\ UNCHANGED <<network, now, table, admin, nadmin, rows, models, forgotten, strayed, misjudged,
                 unrecorded>>

\* The scanner is at the end of a connection that was closed or lost.
ReadLoopEnds(c) ==
  /\ readers[c].pc = "idle" /\ lines[c] = <<>>
  /\ readers' = [readers EXCEPT ![c].pc = "done"]
  /\ conn' = IF conn = c THEN 0 ELSE conn
  /\ UNCHANGED <<network, now, lines, table, admin, nadmin, rows, models, orderly, ghosts>>

-----------------------------------------------------------------------------
(* The table. *)

Held == {readers[c].rec : c \in Conns}
Fresh == CHOOSE r \in Records : r \notin Held /\ \A u \in UIDs : users[u] # r

upsertUser(ev) ==
  LET r == IF users[ev.uid] # 0 THEN users[ev.uid] ELSE Fresh
      u == IF users[ev.uid] # 0 THEN recs[r] ELSE NewUser(ev.uid, ev.at)
  IN /\ users' = [users EXCEPT ![ev.uid] = r]
     /\ recs' = [recs EXCEPT ![r] =
                   [u EXCEPT !.Nick = IF ev.nick # NoNick THEN ev.nick ELSE @,
                             !.Account = @ \/ ev.account,
                             !.IsTLS = ev.tls,
                             !.LastActivity = ev.at]]
     /\ byNick' = IF ev.nick # NoNick THEN [byNick EXCEPT ![ev.nick] = ev.uid] ELSE byNick

\* The nick that handleNick reads off a nick line.
NewNick(ev) == IF ev.target # NoNick THEN ev.target ELSE ev.nick

\* Wrong form: the old nick stays in the index.
HandleNickKeeps(ev) ==
  IF users[ev.uid] = 0 THEN UNCHANGED table
  ELSE /\ recs' = [recs EXCEPT ![users[ev.uid]].Nick = NewNick(ev),
                               ![users[ev.uid]].LastActivity = ev.at]
       /\ byNick' = [byNick EXCEPT ![NewNick(ev)] = ev.uid]
       /\ UNCHANGED users

\* The entry of the old nick goes, whoever it names.  (onNick, which counts the
\* same event, then writes the nick of its subject into the record.)
handleNick(ev) ==
  IF users[ev.uid] = 0 THEN UNCHANGED table
  ELSE LET old == recs[users[ev.uid]].Nick
       IN /\ recs' = [recs EXCEPT ![users[ev.uid]].Nick = NewNick(ev),
                                  ![users[ev.uid]].LastActivity = ev.at]
          /\ byNick' = [n \in Nicks |-> CASE n = NewNick(ev) -> ev.uid
                                          [] n = old /\ n # NewNick(ev) -> NoNick
                                          [] OTHER -> byNick[n]]
          /\ UNCHANGED users

Stale(u) == users[u] # 0 /\ recs[users[u]].LastActivity < now - MaxIdle

NoRecord == NewUser(NoNick, 0)

\* A stale record goes, and its nick's entry, whoever that names.
gc ==
  /\ \E u \in UIDs : Stale(u)
  /\ users' = [u \in UIDs |-> IF Stale(u) THEN 0 ELSE users[u]]
  /\ byNick' = [n \in Nicks |-> IF \E u \in UIDs : Stale(u) /\ recs[users[u]].Nick = n
                                THEN NoNick ELSE byNick[n]]
  /\ recs' = [r \in Records |-> IF r \notin Held /\ \E u \in UIDs : Stale(u) /\ users[u] = r
                                THEN NoRecord ELSE recs[r]]
  /\ forgotten' = forgotten \cup {u \in UIDs : Stale(u)}
  /\ UNCHANGED <<network, now, lines, conn, readers, admin, nadmin, rows, models, orderly,
                 unheard, strayed, misjudged, unrecorded>>

-----------------------------------------------------------------------------
(* Observe, by the reader of connection c. *)

Ready(c) == readers[c].pc = "idle" /\ lines[c] # <<>>
Take(c) == lines' = [lines EXCEPT ![c] = Tail(@)]
Goto(c, pc, rec) ==
  readers' = [readers EXCEPT ![c] = [pc |-> pc, ev |-> Head(lines[c]), rec |-> rec]]

\* A line that is no event, a connect, a register or a quit.
ObserveIdentity(c) ==
  /\ Ready(c)
  /\ LET ev == Head(lines[c]).line
     IN \/ ev.kind \in {"bad", "quit"} /\ UNCHANGED table
        \/ ev.kind \in {"connect", "register"} /\ upsertUser(ev)
  /\ Take(c)
  /\ UNCHANGED <<network, now, conn, readers, admin, nadmin, rows, models, orderly, ghosts>>

ObserveActivity(c) ==
  /\ Ready(c)
  /\ LET ev == Head(lines[c]).line
     IN /\ ev.kind \notin Opers \cup {"bad", "quit", "connect", "register"}
        /\ IF ev.kind = "nick" THEN handleNick(ev) ELSE UNCHANGED table
  /\ Take(c) /\ Goto(c, "locate", 0)
  /\ UNCHANGED <<network, now, conn, admin, nadmin, rows, models, orderly, ghosts>>

\* Where the user's own record should have been and another, or none, was found.
Stray(c, rec) ==
  LET ev == readers[c].ev.line
  IN strayed' = strayed \cup (IF rec # 0 /\ recs[rec].UID = ev.uid THEN {} ELSE {ev.uid})

\* A first line of u that another reader still has before it.
Overtaken(u) == \E d \in Conns, i \in 1..MaxBacklog :
                  i <= Len(lines[d]) /\ lines[d][i].line.kind = Opening /\ lines[d][i].line.uid = u

\* Wrong form: the nick is looked up before the UID.
LookupByNick(ev) == IF ev.nick # NoNick /\ byNick[ev.nick] # NoNick THEN byNick[ev.nick] ELSE ev.uid

\* The UID whose record getOrCreate looks at: its own, or the nick's owner.
Lookup(ev) ==
  IF users[ev.uid] = 0 /\ ev.nick # NoNick /\ byNick[ev.nick] # NoNick THEN byNick[ev.nick] ELSE ev.uid

\* getOrCreate, the lookups; an index entry without a record ends Observe.
Locate(c) ==
  /\ readers[c].pc = "locate"
  /\ LET ev == readers[c].ev.line
         owner == Lookup(ev)
         found == users[owner]
     IN /\ readers' = [readers EXCEPT
                         ![c] = CASE found # 0 -> [@ EXCEPT !.pc = "count", !.rec = found]
                                  [] found = 0 /\ owner = ev.uid -> [@ EXCEPT !.pc = "create"]
                                  [] found = 0 /\ owner # ev.uid -> Idle]
        /\ IF found = 0 /\ owner = ev.uid THEN UNCHANGED strayed ELSE Stray(c, found)
        /\ unheard' = unheard \cup (IF Overtaken(ev.uid) THEN {ev.uid} ELSE {})
  /\ UNCHANGED <<network, now, lines, conn, table, admin, nadmin, rows, models, orderly,
                 forgotten, misjudged, unrecorded>>

\* getOrCreate, a minimal record for a user that was not announced.
Create(c) ==
  /\ readers[c].pc = "create"
  /\ upsertUser(readers[c].ev.line)
  /\ readers' = [readers EXCEPT ![c].pc = "count", ![c].rec = users'[readers[c].ev.line.uid]]
  /\ UNCHANGED <<network, now, lines, conn, admin, nadmin, rows, models, orderly, ghosts>>

Count(c) ==
  /\ readers[c].pc = "count"
  /\ recs' = [recs EXCEPT ![readers[c].rec] = Counted(@, readers[c].ev.line)]
  /\ readers' = [readers EXCEPT ![c].pc = "judge"]
  /\ UNCHANGED <<network, now, lines, conn, users, byNick, admin, nadmin, rows, models, orderly, ghosts>>

\* One more sample in the baseline of L2; one more training step of L3.
Sampled(m) == [m EXCEPT !.am = @ + 1]
Trained(m) == [m EXCEPT !.clf = @ + 1]

FeatureBearing == Messages \cup {"ctcp", "join", "part", "nick"}

\* The rate rules that said something else than what the user did calls for.
\* Features that the admin API had computed in between may lack an alert.
Wrong(u, raised, due) ==
  (raised \ due) \cup (IF u.cachedFeatures = {} THEN due \ (raised \cup Searching) ELSE {})

\* The rules, the baseline (unless a rule fired) and the classifier's score.
Judge(c) ==
  /\ readers[c].pc = "judge"
  /\ LET ev == readers[c].ev.line
         u == recs[readers[c].rec]
         alerts == Dispatch(snapshotFor(u, ev.at), ev)
     IN /\ recs' = [recs EXCEPT ![readers[c].rec] = WithFeatures(@, ev.at)]
        /\ models' = IF alerts = {} /\ ev.kind \in FeatureBearing
                     THEN Sampled(models) ELSE models
        /\ misjudged' = misjudged \cup
             (IF orderly /\ ev.uid \notin forgotten /\ u.UID = ev.uid
              THEN Wrong(u, alerts \cap RateRules, readers[c].ev.due) ELSE {})
  /\ readers' = [readers EXCEPT ![c] = Idle]
  /\ UNCHANGED <<network, now, lines, conn, users, byNick, admin, nadmin, rows, orderly,
                 unheard, forgotten, strayed, unrecorded>>

-----------------------------------------------------------------------------
(* Labels: what operators do and what they say. *)

\* findUserByMask: any record of the host, live or not.
ByMask(host) == {users[u] : u \in {v \in UIDs : users[v] # 0 /\ Hosts[v] = host}}

\* The record that an operator's action is put down to, 0 for none.
Targets(ev) ==
  CASE ev.kind # "oper_kline" /\ users[ev.uid] # 0 -> {users[ev.uid]}
    [] ev.kind # "oper_kline" /\ users[ev.uid] = 0
         -> {IF byNick[ev.nick] # NoNick THEN users[byNick[ev.nick]] ELSE 0}
    [] ev.kind = "oper_kline"
         -> IF ByMask(ev.host) = {} THEN {0} ELSE ByMask(ev.host)

\* learnFromOperAction, the lookup.
ObserveOper(c) ==
  /\ Ready(c)
  /\ LET ev == Head(lines[c]).line
     IN /\ ev.kind \in Opers
        /\ \E rec \in Targets(ev) :
             /\ Goto(c, "record", rec)
             /\ strayed' = strayed \cup (IF /\ ev.kind # "oper_kline" /\ rec # 0
                                            /\ recs[rec].UID # ev.uid THEN {ev.uid} ELSE {})
        /\ unheard' = unheard \cup (IF ev.kind # "oper_kline" /\ Overtaken(ev.uid) THEN {ev.uid} ELSE {})
  /\ Take(c)
  /\ UNCHANGED <<network, now, conn, table, admin, nadmin, rows, models, orderly,
                 forgotten, misjudged, unrecorded>>

\* Wrong form: a label takes the place of the one before it.
RecordedOver(ok) == rows' = IF ok THEN 1 ELSE rows

\* Store.Record: a row more, if the database takes it.
Recorded(ok) == rows' = IF ok THEN rows + 1 ELSE rows

\* The row; a failure is logged and the training goes on without it.
LearnRecord(c, ok) ==
  /\ readers[c].pc = "record"
  /\ Recorded(ok)
  /\ unrecorded' = IF ok THEN unrecorded ELSE unrecorded + 1
  /\ readers' = [readers EXCEPT ![c] = IF @.rec = 0 THEN Idle ELSE [@ EXCEPT !.pc = "train"]]
  /\ UNCHANGED <<network, now, lines, conn, table, admin, nadmin, models, orderly,
                 unheard, forgotten, strayed, misjudged>>

LearnTrain(c) ==
  /\ readers[c].pc = "train"
  /\ recs' = [recs EXCEPT ![readers[c].rec] = WithFeatures(@, readers[c].ev.line.at)]
  /\ models' = Trained(models)
  /\ readers' = [readers EXCEPT ![c] = Idle]
  /\ UNCHANGED <<network, now, lines, conn, users, byNick, admin, nadmin, rows, orderly, ghosts>>

\* A request names a UID, or a nick whose UID is looked up (UIDByNick).
AdminLookup(u) ==
  /\ admin.pc = "idle" /\ nadmin < MaxAdmin /\ nadmin' = nadmin + 1
  /\ admin' = [pc |-> "have", uid |-> u]
  /\ UNCHANGED <<network, now, lines, conn, readers, table, rows, models, orderly, ghosts>>

\* Explain: nothing when the record is gone; the features computed are cached.
AdminExplain ==
  /\ admin.pc = "have"
  /\ recs' = IF users[admin.uid] = 0 THEN recs
             ELSE [recs EXCEPT ![users[admin.uid]] = WithFeatures(@, now)]
  /\ admin' = IdleAdmin
  /\ UNCHANGED <<network, now, lines, conn, readers, users, byNick, nadmin, rows, models, orderly, ghosts>>

\* RecordFeedback: the row first; bad and good are decisive, ignore is not.
AdminRecord(ok, decisive) ==
  /\ admin.pc = "have"
  /\ Recorded(ok)
  /\ admin' = IF ok /\ decisive THEN [admin EXCEPT !.pc = "train"] ELSE IdleAdmin
  /\ UNCHANGED <<network, now, lines, conn, readers, table, nadmin, models, orderly, ghosts>>

AdminTrain ==
  /\ admin.pc = "train"
  /\ IF users[admin.uid] = 0 THEN UNCHANGED <<recs, models>>
     ELSE /\ recs' = [recs EXCEPT ![users[admin.uid]] = WithFeatures(@, now)]
          /\ models' = Trained(models)
  /\ admin' = IdleAdmin
  /\ UNCHANGED <<network, now, lines, conn, readers, users, byNick, nadmin, rows, orderly, ghosts>>

-----------------------------------------------------------------------------
ManagerInit ==
  /\ net = [u \in UIDs |-> "new"] /\ lately = [u \in UIDs |-> <<>>]
  /\ nlines = 0 /\ now = 0
  /\ lines = [c \in Conns |-> <<>>] /\ conn = 0
  /\ readers = [c \in Conns |-> [Idle EXCEPT !.pc = "none"]]
  /\ recs = [r \in Records |-> NoRecord]
  /\ users = [u \in UIDs |-> 0] /\ byNick = [n \in Nicks |-> NoNick]
  /\ admin = IdleAdmin /\ nadmin = 0 /\ rows = 0 /\ models = [am |-> 0, clf |-> 0]
  /\ orderly = TRUE /\ unheard = {} /\ forgotten = {} /\ strayed = {} /\ misjudged = {}
  /\ unrecorded = 0

Network ==
  \/ \E u \in UIDs, kind \in Kinds, nick \in Nicks \cup {NoNick} : ChangeState(u, kind, nick)
  \/ \E u \in UIDs, kind \in Kinds, body \in Bodies, target \in Nicks \cup {NoNick} : Act(u, kind, body, target)
  \/ Garble
  \/ Tick

Daemon ==
  \/ \E c \in Conns, kept \in 0..MaxBacklog : Accept(c, kept)
  \/ \E c \in Conns : \/ ReadLoopEnds(c)
                      \/ ObserveIdentity(c) \/ ObserveActivity(c) \/ ObserveOper(c)
                      \/ Locate(c) \/ Create(c) \/ Count(c) \/ Judge(c)
                      \/ \E ok \in BOOLEAN : LearnRecord(c, ok)
                      \/ LearnTrain(c)
  \/ gc
  \/ \E u \in UIDs : AdminLookup(u)
  \/ AdminExplain
  \/ \E ok, decisive \in BOOLEAN : AdminRecord(ok, decisive)
  \/ AdminTrain
=============================================================================
