---------------------------- MODULE VoicePresence ----------------------------
(***************************************************************************)
(* What the clients of a channel learn of the room: the presence and role  *)
(* envelopes that the handlers of VoiceManager broadcast after they have   *)
(* released room.mu.  view[c] is the roster kept by a client that hears    *)
(* every broadcast to channel c, in the order voiceBridge.send writes them.*)
(*                                                                         *)
(* Two handlers that change the same member's row, one before the other    *)
(* has announced its change, may announce them in either order, and what   *)
(* the client ends up with depends on it: such a row is "any" from then    *)
(* on, until a handler replaces or removes the member with no other one in *)
(* between.  A row such a handler has changed is "due" until it is         *)
(* announced, whatever the client shows meanwhile.                         *)
(***************************************************************************)
EXTENDS VoiceManager

VARIABLE view

-----------------------------------------------------------------------------
(* Envelopes, as a client applies them to its roster v. *)

Put(v, c, n, ro)    == IF v[c][n] = "any" THEN v ELSE [v EXCEPT ![c][n] = ro]
Joined(v, c, n, ro) == Put(v, c, n, ro)
Left(v, c, n)       == Put(v, c, n, "absent")
RoleSet(v, c, n, ro) ==
    IF n = None \/ v[c][n] = "absent" THEN v ELSE Put(v, c, n, ro)

\* What the step goroutine t takes from its current label broadcasts.
ToldNoHeir(t) ==
    LET f == th[t]
    IN  CASE f.at = "join_tell"    -> Joined(view, f.chan, f.nick, role[f.peer])
          [] f.at = "leave_tell"   -> Left(view, f.chan, f.nick)
          [] f.at = "promote_tell" -> RoleSet(view, f.chan, f.who, "streamer")
          [] f.at = "demote_tell"  -> RoleSet(view, f.chan, f.who, "viewer")
          [] f.at = "reg_tell"     -> Joined(view, f.chan, f.nick, "streamer")
          [] f.at = "stop_tell"    -> Left(view, f.chan, f.nick)
          [] OTHER                 -> view
Told(t) ==
    LET f == th[t]
    IN  CASE f.at = "join_tell"    -> Joined(view, f.chan, f.nick, role[f.peer])
          [] f.at = "leave_tell"   -> RoleSet(Left(view, f.chan, f.nick),
                                              f.chan, f.who, "streamer")
          [] f.at = "promote_tell" -> RoleSet(view, f.chan, f.who, "streamer")
          [] f.at = "demote_tell"  -> RoleSet(view, f.chan, f.who, "viewer")
          [] f.at = "reg_tell"     -> Joined(view, f.chan, f.nick, "streamer")
          [] f.at = "stop_tell"    -> Left(view, f.chan, f.nick)
          [] OTHER                 -> view

-----------------------------------------------------------------------------
(* Changes, made under the lock before they are announced. *)

\* The row a handler replaces or removes, and the one whose role it sets.
Whole(f) ==
    IF f.at \in {"join_tell", "leave_tell", "reg_tell", "stop_tell"}
    THEN {<<f.chan, f.nick>>} ELSE {}
Recast(f) ==
    IF f.at \in {"leave_tell", "promote_tell", "demote_tell"} /\ f.who # None
    THEN {<<f.chan, f.who>>} ELSE {}
Owes(f) == Whole(f) \cup Recast(f)
Owed    == UNION {Owes(th[t]) : t \in Thread}

\* Three ways to change a row that no envelope tells of: in a room that is not
\* registered any more, where one of a client and the local participant of the
\* same nick stays, and by RegisterLocal's eviction of that client if it fails.
Astray(t) == th[t].room # registry[th[t].chan]
Twice(t)  == LocalNick \in Members(th[t].room) /\ locals[th[t].room] # NoId
Evicts(t) == th[t].at = "reg_lock" /\ LocalNick \in Members(th[t].room)

\* The rows that the step of goroutine t changes, and those it spoils.
Changed(t) == Owes(th'[t]) \ Owes(th[t])
Spoilt(t) ==
    IF Changed(t) = {} THEN {<<th[t].chan, LocalNick>>}
    ELSE IF Astray(t) \/ Twice(t) THEN Changed(t)
    ELSE Changed(t) \cap UNION {Owes(th[u]) : u \in Thread \ {t}}

Tells(t) ==
    IF Changed(t) # {} \/ (Evicts(t) /\ th'[t].at # "reg_lock")
    THEN view' = [c \in Chan |-> [n \in Nick |->
                      IF <<c, n>> \in Spoilt(t) THEN "any"
                      ELSE IF <<c, n>> \in Changed(t) \cap Whole(th'[t]) THEN "due"
                      ELSE view[c][n]]]
    ELSE view' = Told(t)

PInit == Init /\ view = [c \in Chan |-> [n \in Nick |-> "absent"]]

PNext ==
    \/ \E d \in Dispatcher : (Request(d) \/ Dispatch(d)) /\ Tells(d)
    \/ \E t \in Dispatcher \cup Callback : Leave(t) /\ Tells(t)
    \/ \E p \in PeerId : PCLost(p) /\ UNCHANGED view
    \/ \E l \in Loop : Local(l) /\ Tells(l)

PSpec == PInit /\ [][PNext]_<<vars, view>>
FairPSpec == PSpec /\ GoroutinesRun

-----------------------------------------------------------------------------

\* Who is in channel c, and as what, according to the server.
Roster(c) ==
    LET r == registry[c]
    IN  [n \in Nick |->
            IF r # NoId /\ n \in Members(r) THEN role[peers[r][n]]
            ELSE IF r # NoId /\ n = LocalNick /\ locals[r] # NoId THEN "streamer"
            ELSE "absent"]

\* A client that heard every broadcast has each row of the server's roster right
\* whenever no handler still has to announce it, although broadcasts are sent
\* after the unlock and overtake each other; unless two handlers changed the row
\* across each other, and then the next handler that replaces or removes the row
\* alone puts it right.
RowsTold ==
    \A c \in Chan, n \in Nick :
        <<c, n>> \notin Owed => view[c][n] \in {Roster(c)[n], "any"}
=============================================================================
