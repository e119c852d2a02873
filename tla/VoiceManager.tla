---------------------------- MODULE VoiceManager ----------------------------
(***************************************************************************)
(* The voice/stream room manager of the SFU: voice.go (voiceManager,       *)
(* voiceRoom, voicePeer) and voice_local.go (the in-process participant).  *)
(*                                                                         *)
(* The processes are goroutines.  A Dispatcher is a bridge connection that *)
(* runs one frame's handler at a time.  A Callback is the goroutine pion   *)
(* spawns when the connection state of a PeerConnection changes.  A Loop   *)
(* is Orca's runChannel, which registers and stops the local participant.  *)
(* A handler is split at its lock operations: a critical section of        *)
(* room.mu or m.mu is one step, and everything a handler remembers across  *)
(* a step (the room and the peer it looked up, the heir it still has to    *)
(* announce) is in the goroutine's frame th[t].                            *)
(*                                                                         *)
(* Media (tracks, senders, offers) is the subject of other modules.        *)
(***************************************************************************)
EXTENDS Integers, FiniteSets

CONSTANTS Nick,         \* IRC nicks
          Chan,         \* voice (^) and stream ($) channels
          StreamChan,   \* those whose name starts with $
          LocalNick,    \* the nick of the in-process participant
          LocalChan,    \* the channel it is configured for
          None,         \* "no nick", "no channel"
          Dispatcher,   \* bridge connections being read
          Loop,         \* runChannel goroutines for LocalChan
          MaxRoomSize,  \* cfg.MaxRoomSize
          MaxStreamers, \* streamMaxStreamers
          Faults,       \* which library calls may fail
          MaxPeers,     \* bound: voicePeers allocated in a behaviour
          MaxRooms,     \* bound: voiceRooms allocated
          MaxLocals,    \* bound: voiceLocalPeers allocated
          MaxLost       \* bound: connections lost

PeerId  == 1..MaxPeers
RoomId  == 1..MaxRooms
LocalId == 1..MaxLocals
NoId    == 0
Callback == PeerId \X {"lost", "closed"}
Thread   == Dispatcher \cup Loop \cup Callback
Role     == {"viewer", "streamer"}

ASSUME ConstantsAssumption ==
    /\ StreamChan \subseteq Chan
    /\ LocalNick \in Nick
    /\ LocalChan \in Chan
    /\ None \notin Nick \cup Chan
    /\ IsFiniteSet(Nick)
    /\ MaxRoomSize \in Nat
    /\ MaxStreamers \in Nat \ {0}
    /\ Faults \subseteq {"pc_alloc", "local_track"}
    /\ MaxPeers \in Nat
    /\ MaxRooms \in Nat \ {0}
    /\ MaxLocals \in Nat
    /\ MaxLost \in Nat
    /\ Dispatcher \cap Loop = {}
    /\ (Dispatcher \cup Loop) \cap Callback = {}

VARIABLES
    registry,      \* m.rooms: the room object of each channel, or NoId
    roomChan,      \* room.name, which fixes room.mode
    peers,         \* room.peers: the peer of each nick, or NoId
    locals,        \* room.localPeers[LocalNick], or NoId
    localExpected, \* m.localExpected[LocalChan][LocalNick]
    wedged,        \* rooms whose mutex is held by a goroutine waiting for it
    nRooms, nPeers, nLocals,  \* objects allocated so far
    pnick, proom,  \* peer.nick, peer.room
    role,          \* peer.role; ids grow with joinedAt
    pc,            \* peer.pc: "bare" before its callbacks are set
    lost,          \* peers whose connection was reported lost
    lroom,         \* lp.room
    stopped,       \* lp.stopped
    tap,           \* localTap.peers[LocalChan], or NoId
    th             \* the goroutines

vars == <<registry, roomChan, peers, locals, localExpected, wedged, nRooms,
          nPeers, nLocals, pnick, proom, role, pc, lost, lroom, stopped, tap,
          th>>
roomVars  == <<registry, roomChan, nRooms>>
peerVars  == <<nPeers, pnick, proom>>
localVars == <<locals, localExpected, nLocals, lroom, stopped, tap>>

Label == {"idle", "ready", "leave", "leave_lock", "leave_tell", "leave_reap",
          "join_lock", "join_tell", "promote", "promote_tell", "demote",
          "demote_tell", "reg_lock", "reg_tell", "joined", "stop_lock",
          "stop_tell", "stop_reap", "stuck"}

\* What a goroutine remembers; who is a promote/demote target or an heir.
Frame == [at : Label, nick : Nick \cup {None}, chan : Chan \cup {None},
          room : RoomId \cup {NoId}, peer : Nat, who : Nick \cup {None},
          empty : BOOLEAN, todo : SUBSET Chan]

Idle == [at |-> "idle", nick |-> None, chan |-> None, room |-> NoId,
         peer |-> NoId, who |-> None, empty |-> FALSE, todo |-> {}]

Handler(label, n, c) == [Idle EXCEPT !.at = label, !.nick = n, !.chan = c]

-----------------------------------------------------------------------------
(* Rooms *)

Members(r)   == {n \in Nick : peers[r][n] # NoId}
Streamers(r) == {n \in Members(r) : role[peers[r][n]] = "streamer"}
IsStream(r)  == roomChan[r] \in StreamChan

\* handleJoin's test, which counts a stale peer of the joining nick too.
RoomFullOffByOne(r) == Cardinality(Members(r)) > MaxRoomSize
RoomFull(r) == Cardinality(Members(r)) >= MaxRoomSize

\* The member of S that joined first (streamersUnsafe sorts by joinedAt).
Oldest(r, S) == CHOOSE n \in S : \A m \in S : peers[r][n] <= peers[r][m]

\* getOrCreateRoom, the room object it returns and the registry it leaves.
RoomFor(c) == IF registry[c] # NoId THEN registry[c] ELSE nRooms + 1
GetOrCreateRoom(c) ==
    \/ registry[c] # NoId /\ UNCHANGED roomVars
    \/ /\ registry[c] = NoId
       /\ nRooms < MaxRooms
       /\ nRooms' = nRooms + 1
       /\ registry' = [registry EXCEPT ![c] = nRooms + 1]
       /\ roomChan' = [roomChan EXCEPT ![nRooms + 1] = c]

ReapEmpty(c) ==
    LET r == registry[c]
    IN  registry' = IF r # NoId /\ Members(r) = {} /\ locals[r] = NoId
                    THEN [registry EXCEPT ![c] = NoId]
                    ELSE registry

\* voicePeer.close: pion reports "closed" once, in a goroutine of its own,
\* to the callback if one is set.
ClosePC(p) == IF p = NoId THEN pc ELSE [pc EXCEPT ![p] = "closed"]
CloseSpawns(p) ==
    IF p # NoId /\ pc[p] = "hooked"
    THEN [th EXCEPT ![<<p, "closed">>] =
                        Handler("ready", pnick[p], roomChan[proom[p]])]
    ELSE th

-----------------------------------------------------------------------------
(* Goroutines *)

Starts(t) == th[t].at = "idle"
Runs(t, label) == th[t].at = label
Goto(t, label) == th' = [th EXCEPT ![t].at = label]

\* A handler returns: a quit goes on with its next channel.
Returned(f) ==
    IF f.todo = {}
    THEN {Idle}
    ELSE {[Handler("leave", f.nick, c) EXCEPT !.todo = f.todo \ {c}] : c \in f.todo}
Return(t) == \E f \in Returned(th[t]) : th' = [th EXCEPT ![t] = f]

-----------------------------------------------------------------------------
(* handleJoin *)

JoinsInFlight == Cardinality({d \in Dispatcher : th[d].at = "join_lock"})

JoinEnter(d, n, c) ==
    /\ Starts(d)
    /\ ~(n = LocalNick /\ c = LocalChan /\ localExpected)
    /\ nPeers + JoinsInFlight < MaxPeers
    /\ GetOrCreateRoom(c)
    /\ th' = [th EXCEPT ![d] = [Handler("join_lock", n, c) EXCEPT !.room = RoomFor(c)]]
    /\ UNCHANGED <<peers, localVars, wedged, peerVars, role, pc, lost>>

JoinRoomFull(d) ==
    /\ Runs(d, "join_lock")
    /\ ~wedged[th[d].room]
    /\ RoomFull(th[d].room)
    /\ Return(d)
    /\ UNCHANGED <<roomVars, peers, localVars, wedged, peerVars, role, pc, lost>>

JoinAllocFails(d) ==
    LET r   == th[d].room
        old == peers[r][th[d].nick]
    IN  /\ Runs(d, "join_lock")
        /\ ~wedged[r]
        /\ ~RoomFull(r)
        /\ "pc_alloc" \in Faults
        /\ pc' = ClosePC(old)
        /\ th' = [CloseSpawns(old) EXCEPT ![d] = Idle]
        /\ UNCHANGED <<roomVars, peers, localVars, wedged, peerVars, role, lost>>

\* The role is decided while the stale peer of the same nick is still a member.
JoinRole(r) == IF IsStream(r) /\ Streamers(r) # {} THEN "viewer" ELSE "streamer"

JoinInsert(d) ==
    LET n   == th[d].nick
        r   == th[d].room
        old == peers[r][n]
        p   == nPeers + 1
    IN  /\ Runs(d, "join_lock")
        /\ ~wedged[r]
        /\ ~RoomFull(r)
        /\ nPeers < MaxPeers
        /\ nPeers' = p
        /\ pnick' = [pnick EXCEPT ![p] = n]
        /\ proom' = [proom EXCEPT ![p] = r]
        /\ role'  = [role EXCEPT ![p] = JoinRole(r)]
        /\ peers' = [peers EXCEPT ![r][n] = p]
        /\ pc' = ClosePC(old)
        /\ th' = [CloseSpawns(old) EXCEPT ![d].at = "join_tell", ![d].peer = p]
        /\ UNCHANGED <<roomVars, localVars, wedged, lost>>

\* Sets the callbacks on the PeerConnection and announces the member.
JoinTell(d) ==
    LET p == th[d].peer
    IN  /\ Runs(d, "join_tell")
        /\ pc' = [pc EXCEPT ![p] = IF @ = "bare" THEN "hooked" ELSE @]
        /\ Return(d)
        /\ UNCHANGED <<roomVars, peers, localVars, wedged, peerVars, role, lost>>

-----------------------------------------------------------------------------
(* handleLeave, from a leave or part frame, a quit, or a callback *)

LookedUp(f) ==
    [f EXCEPT !.at = "leave_lock", !.room = registry[f.chan]]

LeaveEnter(d, n, c) ==
    /\ Starts(d)
    /\ registry[c] # NoId
    /\ th' = [th EXCEPT ![d] = LookedUp(Handler("leave", n, c))]
    /\ UNCHANGED <<roomVars, peers, localVars, wedged, peerVars, role, pc, lost>>

\* dispatch, op "quit" without a channel: every room n is in.
QuitEnter(d, n) ==
    LET cs == {c \in Chan : registry[c] # NoId /\ n \in Members(registry[c])}
    IN  /\ Starts(d)
        /\ cs # {}
        /\ \A c \in Chan : registry[c] # NoId => ~wedged[registry[c]]
        /\ \E f \in Returned([Handler("leave", n, None) EXCEPT !.todo = cs]) :
               th' = [th EXCEPT ![d] = f]
        /\ UNCHANGED <<roomVars, peers, localVars, wedged, peerVars, role, pc, lost>>

LeaveLookup(t) ==
    /\ Runs(t, "leave") \/ Runs(t, "ready")
    /\ IF registry[th[t].chan] = NoId
       THEN Return(t)
       ELSE th' = [th EXCEPT ![t] = LookedUp(th[t])]
    /\ UNCHANGED <<roomVars, peers, localVars, wedged, peerVars, role, pc, lost>>

LeaveAbsent(t) ==
    /\ Runs(t, "leave_lock")
    /\ ~wedged[th[t].room]
    /\ th[t].nick \notin Members(th[t].room)
    /\ Return(t)
    /\ UNCHANGED <<roomVars, peers, localVars, wedged, peerVars, role, pc, lost>>

\* Who takes over when member n leaves room r, or None.
HeirNewest(r, n) ==
    LET rest == Members(r) \ {n}
    IN  IF rest # {} /\ IsStream(r) /\ n \in Streamers(r) /\ Streamers(r) \ {n} = {}
        THEN CHOOSE h \in rest : \A m \in rest : peers[r][m] <= peers[r][h]
        ELSE None
Heir(r, n) ==
    LET rest == Members(r) \ {n}
    IN  IF /\ rest # {} /\ IsStream(r)
           /\ n \in Streamers(r) /\ Streamers(r) \ {n} = {}
        THEN Oldest(r, rest)
        ELSE None

Promoted(r, n) ==
    IF n = None THEN role ELSE [role EXCEPT ![peers[r][n]] = "streamer"]

LeaveRemove(t) ==
    LET n == th[t].nick
        r == th[t].room
    IN  /\ Runs(t, "leave_lock")
        /\ ~wedged[r]
        /\ n \in Members(r)
        /\ peers' = [peers EXCEPT ![r][n] = NoId]
        /\ role' = Promoted(r, Heir(r, n))
        /\ th' = [th EXCEPT ![t].at = "leave_tell",
                            ![t].peer = peers[r][n],
                            ![t].who = Heir(r, n),
                            ![t].empty = (Members(r) = {n})]
        /\ UNCHANGED <<roomVars, localVars, wedged, peerVars, pc, lost>>

LeaveTell(t) ==
    LET p == th[t].peer
        c == th[t].chan
    IN  /\ Runs(t, "leave_tell")
        /\ pc' = ClosePC(p)
        /\ IF th[t].empty
           THEN th' = [CloseSpawns(p) EXCEPT ![t].at = "leave_reap"]
           ELSE \E f \in Returned(th[t]) : th' = [CloseSpawns(p) EXCEPT ![t] = f]
        /\ UNCHANGED <<roomVars, peers, localVars, wedged, peerVars, role, lost>>

LeaveReap(t) ==
    /\ Runs(t, "leave_reap")
    /\ ReapEmpty(th[t].chan)
    /\ Return(t)
    /\ UNCHANGED <<roomChan, nRooms, peers, localVars, wedged, peerVars, role, pc,
                   lost>>

\* pion: the connection of an open peer fails or disconnects.
PCLostUnheard(p) ==
    /\ pc[p] = "hooked"
    /\ p \notin lost /\ Cardinality(lost) < MaxLost
    /\ lost' = lost \cup {p}
    /\ UNCHANGED <<roomVars, peers, localVars, wedged, peerVars, role, pc, th>>
PCLost(p) ==
    /\ pc[p] = "hooked"
    /\ p \notin lost /\ Cardinality(lost) < MaxLost
    /\ lost' = lost \cup {p}
    /\ th' = [th EXCEPT ![<<p, "lost">>] =
                 Handler("ready", pnick[p], roomChan[proom[p]])]
    /\ UNCHANGED <<roomVars, peers, localVars, wedged, peerVars, role, pc>>

-----------------------------------------------------------------------------
(* handlePromote and handleDemote *)

\* lookup, then the mode test: both before room.mu is taken again.
RoleRequestAnyMode(d, label, n, c, w) ==
    LET r == registry[c]
    IN  /\ Starts(d)
        /\ r # NoId
        /\ ~wedged[r]
        /\ n \in Members(r)
        /\ th' = [th EXCEPT ![d] = [Handler(label, n, c) EXCEPT
                                       !.room = r, !.peer = peers[r][n], !.who = w]]
        /\ UNCHANGED <<roomVars, peers, localVars, wedged, peerVars, role, pc, lost>>
RoleRequest(d, label, n, c, w) ==
    LET r == registry[c]
    IN  /\ Starts(d)
        /\ r # NoId
        /\ IsStream(r)
        /\ ~wedged[r]
        /\ n \in Members(r)
        /\ th' = [th EXCEPT ![d] = [Handler(label, n, c) EXCEPT
                                       !.room = r, !.peer = peers[r][n], !.who = w]]
        /\ UNCHANGED <<roomVars, peers, localVars, wedged, peerVars, role, pc, lost>>

PromoteEnter(d, n, c, w) == RoleRequest(d, "promote", n, c, w)
DemoteEnter(d, n, c, w)  == RoleRequest(d, "demote", n, c, w)

\* The role tested is that of the peer found by lookup.
MayPromoteOneMore(d) ==
    LET r == th[d].room
    IN  /\ role[th[d].peer] = "streamer"
        /\ th[d].who \in Members(r) \ Streamers(r)
        /\ Cardinality(Streamers(r)) <= MaxStreamers
MayPromote(d) ==
    LET r == th[d].room
    IN  /\ role[th[d].peer] = "streamer"
        /\ th[d].who \in Members(r) \ Streamers(r)
        /\ Cardinality(Streamers(r)) < MaxStreamers

\* The host is the streamer that joined first.
MayDemoteAny(d) ==
    LET r == th[d].room
    IN  th[d].who \in Streamers(r) /\ th[d].nick \in Streamers(r)
MayDemote(d) ==
    LET r == th[d].room
    IN  /\ th[d].who \in Streamers(r)
        /\ th[d].who = th[d].nick \/ th[d].nick = Oldest(r, Streamers(r))

\* The locked half of either handler: a refusal returns, a grant sets the role.
RoleStep(d, label, may, ro, next) ==
    /\ Runs(d, label)
    /\ ~wedged[th[d].room]
    /\ \/ ~may /\ Return(d) /\ UNCHANGED role
       \/ /\ may
          /\ role' = [role EXCEPT ![peers[th[d].room][th[d].who]] = ro]
          /\ Goto(d, next)
    /\ UNCHANGED <<roomVars, peers, localVars, wedged, peerVars, pc, lost>>

Promote(d) == RoleStep(d, "promote", MayPromote(d), "streamer", "promote_tell")
Demote(d)  == RoleStep(d, "demote", MayDemote(d), "viewer", "demote_tell")

RoleTell(d, label, ro) ==
    /\ Runs(d, label)
    /\ Return(d)
    /\ UNCHANGED <<roomVars, peers, localVars, wedged, peerVars, role, pc, lost>>

PromoteTell(d) == RoleTell(d, "promote_tell", "streamer")
DemoteTell(d)  == RoleTell(d, "demote_tell", "viewer")

-----------------------------------------------------------------------------
(* RegisterLocal and voiceLocalPeer.stop, called by localTap.Join and Leave *)

RegEnter(l) ==
    /\ Starts(l)
    /\ tap = NoId
    /\ nLocals + Cardinality({k \in Loop : th[k].at = "reg_lock"}) < MaxLocals
    /\ localExpected' = TRUE
    /\ GetOrCreateRoom(LocalChan)
    /\ th' = [th EXCEPT ![l] = [Handler("reg_lock", LocalNick, LocalChan) EXCEPT
                                   !.room = RoomFor(LocalChan)]]
    /\ UNCHANGED <<peers, locals, nLocals, lroom, stopped, tap, wedged, peerVars,
                   role, pc, lost>>

\* localTap.Join when another loop has joined the channel already.
RegShared(l) ==
    /\ Starts(l)
    /\ tap # NoId
    /\ Goto(l, "joined")
    /\ UNCHANGED <<roomVars, peers, localVars, wedged, peerVars, role, pc, lost>>

\* A PeerConnection-backed peer of the same nick is dropped first.
Evict(r) ==
    /\ peers' = [peers EXCEPT ![r][LocalNick] = NoId]
    /\ pc' = ClosePC(peers[r][LocalNick])

\* prev.stop() runs with room.mu held and takes room.mu.
RegWedge(l) ==
    LET r == th[l].room
    IN  /\ Runs(l, "reg_lock")
        /\ ~wedged[r]
        /\ locals[r] # NoId
        /\ ~stopped[locals[r]]
        /\ Evict(r)
        /\ stopped' = [stopped EXCEPT ![locals[r]] = TRUE]
        /\ wedged' = [wedged EXCEPT ![r] = TRUE]
        /\ th' = [CloseSpawns(peers[r][LocalNick]) EXCEPT ![l].at = "stuck"]
        /\ UNCHANGED <<roomVars, locals, localExpected, nLocals, lroom, tap,
                       peerVars, role, lost>>

RegTrackFails(l) ==
    LET r == th[l].room
    IN  /\ Runs(l, "reg_lock")
        /\ ~wedged[r]
        /\ locals[r] # NoId => stopped[locals[r]]
        /\ "local_track" \in Faults
        /\ Evict(r)
        /\ th' = [CloseSpawns(peers[r][LocalNick]) EXCEPT ![l] = Idle]
        /\ UNCHANGED <<roomVars, localVars, wedged, peerVars, role, lost>>

RegInsert(l) ==
    LET r  == th[l].room
        lp == nLocals + 1
    IN  /\ Runs(l, "reg_lock")
        /\ ~wedged[r]
        /\ locals[r] # NoId => stopped[locals[r]]
        /\ nLocals < MaxLocals
        /\ Evict(r)
        /\ nLocals' = lp
        /\ lroom' = [lroom EXCEPT ![lp] = r]
        /\ locals' = [locals EXCEPT ![r] = lp]
        /\ th' = [CloseSpawns(peers[r][LocalNick]) EXCEPT
                      ![l].at = "reg_tell", ![l].peer = lp]
        /\ UNCHANGED <<roomVars, localExpected, stopped, tap, wedged, peerVars,
                       role, lost>>

RegTell(l) ==
    /\ Runs(l, "reg_tell")
    /\ tap' = th[l].peer
    /\ Goto(l, "joined")
    /\ UNCHANGED <<roomVars, peers, locals, localExpected, nLocals, lroom, stopped,
                   wedged, peerVars, role, pc, lost>>

\* localTap.Leave forgets the peer, then stop() marks it stopped.
StopEnter(l) ==
    /\ Runs(l, "joined")
    /\ tap' = NoId
    /\ IF tap = NoId \/ stopped[tap]
       THEN th' = [th EXCEPT ![l] = Idle] /\ UNCHANGED stopped
       ELSE /\ stopped' = [stopped EXCEPT ![tap] = TRUE]
            /\ th' = [th EXCEPT ![l] =
                          [Handler("stop_lock", LocalNick, LocalChan) EXCEPT
                              !.room = lroom[tap], !.peer = tap]]
    /\ UNCHANGED <<roomVars, peers, locals, localExpected, nLocals, lroom, wedged,
                   peerVars, role, pc, lost>>

\* Deletes whatever local peer holds the nick.
StopRemove(l) ==
    /\ Runs(l, "stop_lock")
    /\ ~wedged[th[l].room]
    /\ locals' = [locals EXCEPT ![th[l].room] = NoId]
    /\ Goto(l, "stop_tell")
    /\ UNCHANGED <<roomVars, peers, localExpected, nLocals, lroom, stopped, tap,
                   wedged, peerVars, role, pc, lost>>

StopTell(l) ==
    /\ Runs(l, "stop_tell")
    /\ localExpected' = FALSE
    /\ Goto(l, "stop_reap")
    /\ UNCHANGED <<roomVars, peers, locals, nLocals, lroom, stopped, tap, wedged,
                   peerVars, role, pc, lost>>

StopReap(l) ==
    /\ Runs(l, "stop_reap")
    /\ ReapEmpty(LocalChan)
    /\ Return(l)
    /\ UNCHANGED <<roomChan, nRooms, peers, localVars, wedged, peerVars, role, pc,
                   lost>>

-----------------------------------------------------------------------------

Init ==
    /\ registry = [c \in Chan |-> NoId]
    /\ roomChan = [r \in RoomId |-> LocalChan]
    /\ peers = [r \in RoomId |-> [n \in Nick |-> NoId]]
    /\ locals = [r \in RoomId |-> NoId]
    /\ localExpected = FALSE
    /\ wedged = [r \in RoomId |-> FALSE]
    /\ nRooms = 0 /\ nPeers = 0 /\ nLocals = 0
    /\ pnick = [p \in PeerId |-> LocalNick]
    /\ proom = [p \in PeerId |-> 1]
    /\ role = [p \in PeerId |-> "viewer"]
    /\ pc = [p \in PeerId |-> "bare"]
    /\ lost = {}
    /\ lroom = [l \in LocalId |-> 1]
    /\ stopped = [l \in LocalId |-> FALSE]
    /\ tap = NoId
    /\ th = [t \in Thread |-> Idle]

\* A frame arrives at a dispatcher that is waiting for one.
Request(d) ==
    \/ \E n \in Nick, c \in Chan : JoinEnter(d, n, c)
    \/ \E n \in Nick, c \in Chan : LeaveEnter(d, n, c)
    \/ \E n \in Nick : QuitEnter(d, n)
    \/ \E n \in Nick, c \in Chan, w \in Nick : PromoteEnter(d, n, c, w)
    \/ \E n \in Nick, c \in Chan, w \in Nick : DemoteEnter(d, n, c, w)

\* The rest of a dispatched handler.
Dispatch(d) ==
    \/ JoinRoomFull(d) \/ JoinAllocFails(d) \/ JoinInsert(d) \/ JoinTell(d)
    \/ Promote(d) \/ PromoteTell(d)
    \/ Demote(d) \/ DemoteTell(d)

Leave(t) ==
    \/ LeaveLookup(t) \/ LeaveAbsent(t) \/ LeaveRemove(t)
    \/ LeaveTell(t) \/ LeaveReap(t)

Local(l) ==
    \/ RegEnter(l) \/ RegShared(l)
    \/ RegWedge(l) \/ RegTrackFails(l) \/ RegInsert(l) \/ RegTell(l)
    \/ StopEnter(l) \/ StopRemove(l) \/ StopTell(l) \/ StopReap(l)

Next ==
    \/ \E d \in Dispatcher : Request(d) \/ Dispatch(d)
    \/ \E t \in Dispatcher \cup Callback : Leave(t)
    \/ \E p \in PeerId : PCLost(p)
    \/ \E l \in Loop : Local(l)

Spec == Init /\ [][Next]_vars

\* Go schedules every runnable goroutine; frames, failures and Orca's joins
\* are the environment's choice and get no fairness.
GoroutinesRun ==
    /\ \A d \in Dispatcher : WF_vars(Dispatch(d))
    /\ \A t \in Dispatcher \cup Callback : WF_vars(Leave(t))
FairSpec == Spec /\ GoroutinesRun

-----------------------------------------------------------------------------
(* Properties *)

\* Every variable holds values of its kind.
TypeOK ==
    /\ registry \in [Chan -> RoomId \cup {NoId}]
    /\ roomChan \in [RoomId -> Chan]
    /\ peers \in [RoomId -> [Nick -> PeerId \cup {NoId}]]
    /\ locals \in [RoomId -> LocalId \cup {NoId}]
    /\ localExpected \in BOOLEAN
    /\ wedged \in [RoomId -> BOOLEAN]
    /\ nRooms \in 0..MaxRooms /\ nPeers \in 0..MaxPeers /\ nLocals \in 0..MaxLocals
    /\ pnick \in [PeerId -> Nick]
    /\ proom \in [PeerId -> RoomId]
    /\ role \in [PeerId -> Role]
    /\ pc \in [PeerId -> {"bare", "hooked", "closed"}]
    /\ lost \subseteq PeerId
    /\ lroom \in [LocalId -> RoomId]
    /\ stopped \in [LocalId -> BOOLEAN]
    /\ tap \in LocalId \cup {NoId}
    /\ th \in [Thread -> Frame]

\* A member entry and the peer object it points to name each other, so no two
\* entries of any rooms share a peer; objects beyond the counters are unused.
PeersFit ==
    /\ \A r \in RoomId, n \in Nick :
           peers[r][n] # NoId => /\ r <= nRooms
                                 /\ peers[r][n] <= nPeers
                                 /\ pnick[peers[r][n]] = n
                                 /\ proom[peers[r][n]] = r
    /\ \A c \in Chan : registry[c] <= nRooms

\* What a goroutine's frame holds at the labels that use it.
FrameFits(f) ==
    /\ f.at \in {"ready", "leave"} => f.nick \in Nick /\ f.chan \in Chan
    /\ f.at \in {"join_lock", "leave_lock", "promote", "demote", "reg_lock"}
       => f.room \in 1..nRooms /\ f.nick \in Nick
    /\ f.at \in {"promote", "demote"} => IsStream(f.room)
    /\ f.at = "leave_tell" => f.peer \in PeerId
    /\ f.at = "reg_tell" => f.peer \in LocalId
    /\ f.at = "stop_lock" => f.room \in RoomId
    /\ f.todo # {} => f.nick \in Nick
FramesFit == \A t \in Thread : FrameFits(th[t])

\* streamMaxStreamers: no interleaving of joins, leaves with their automatic
\* promotion, promotions and rejoins puts more streamers in a $-room than the
\* cap, although handlePromote checks a room other handlers also promote in.
StreamerCap ==
    \A r \in RoomId : IsStream(r) => Cardinality(Streamers(r)) <= MaxStreamers

\* cfg.MaxRoomSize bounds the PeerConnections of a room, however many join
\* handlers race for the last place.
RoomCap == \A r \in RoomId : Cardinality(Members(r)) <= MaxRoomSize

\* In a ^-room every member publishes: no role request, and no handler that
\* looked up a room of another mode, ever leaves a viewer there.
VoiceRoomsPublish ==
    \A r \in RoomId : ~IsStream(r) => Streamers(r) = Members(r)

\* The inductive invariant behind the three properties above.
IInv == TypeOK /\ PeersFit /\ FramesFit /\ StreamerCap /\ RoomCap /\ VoiceRoomsPublish

\* The comment on RegisterLocal, "Idempotent: re-registering the same nick
\* replaces": no room's mutex is ever held by a goroutine that waits for it.
NoRoomWedged == \A r \in RoomId : ~wedged[r]

\* A streamer that stays in its room loses the role only by its own request or
\* by a request of the room's host, as of the moment the role is taken.
OnlySelfOrHostDemotes ==
    [][\A r \in RoomId : \A n \in Streamers(r) :
           (peers'[r][n] = peers[r][n] /\ role'[peers[r][n]] = "viewer")
           => \E d \in Dispatcher :
                 /\ th[d].at = "demote" /\ th[d].room = r /\ th[d].who = n
                 /\ th[d].nick \in {n, Oldest(r, Streamers(r))}]_vars

\* handleLeave: when the last streamer of a $-room goes and others stay, the
\* member that has been there longest becomes the streamer in the same step.
\* (A nick that is still a member, or is now the local participant, has not
\* left: it was replaced by a rejoin, demoted, or evicted.)
SuccessionByTenure ==
    [][\A r \in RoomId :
           LET rest == {n \in Nick : peers'[r][n] # NoId}
           IN  (IsStream(r) /\ Streamers(r) # {} /\ rest # {}
                /\ Streamers(r) \cap rest = {}
                /\ ~(Streamers(r) = {LocalNick} /\ \E l \in Loop : th[l].at = "reg_lock"))
               => {n \in rest : role'[peers'[r][n]] = "streamer"} = {Oldest(r, rest)}]_vars

\* A peer whose connection is lost does not stay a member of the room its
\* channel is registered under.
LostPeersLeave ==
    \A p \in PeerId :
        p \in lost ~> \A c \in Chan : registry[c] # NoId =>
                          \A n \in Nick : peers[registry[c]][n] # p
=============================================================================
