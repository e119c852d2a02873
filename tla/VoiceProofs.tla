----------------------------- MODULE VoiceProofs -----------------------------
(***************************************************************************)
(* Proofs about VoiceManager for all values of its constants.  Whatever    *)
(* the interleaving of the goroutines: the types, the caps on streamers    *)
(* and on members, that every member of a ^-room publishes, who may take   *)
(* the streamer's role away and who succeeds the last streamer; and that   *)
(* one loop alone never locks itself out of its room.                      *)
(***************************************************************************)
EXTENDS VoiceManager, TLAPS, FiniteSetTheorems, WellFoundedInduction

USE ConstantsAssumption DEF NoId

\* The part of IInv that only the rooms and the peer objects decide.
RoomsFit == PeersFit /\ StreamerCap /\ RoomCap /\ VoiceRoomsPublish

\* The variables RoomsFit depends on.
roomState == <<registry, roomChan, nRooms, peers, nPeers, pnick, proom, role>>

-----------------------------------------------------------------------------
(* Sets of nicks are finite, so their cardinalities compare as expected. *)

LEMMA SmallerSet ==
    ASSUME NEW S \in SUBSET Nick, NEW T \in SUBSET S
    PROVE  /\ Cardinality(S) \in Nat /\ Cardinality(T) \in Nat
           /\ Cardinality(T) <= Cardinality(S)
  <1>1. IsFiniteSet(S)
    BY FS_Subset
  <1>2. IsFiniteSet(T) /\ Cardinality(T) <= Cardinality(S)
    BY <1>1, FS_Subset
  <1>. QED
    BY <1>1, <1>2, FS_CardinalityType

LEMMA OneMore ==
    ASSUME NEW S \in SUBSET Nick, NEW x \in Nick
    PROVE  /\ Cardinality(S \cup {x}) \in Nat
           /\ Cardinality(S) \in Nat
           /\ Cardinality(S \cup {x}) <= Cardinality(S) + 1
  <1>1. IsFiniteSet(S)
    BY FS_Subset
  <1>2. /\ IsFiniteSet(S \cup {x})
        /\ Cardinality(S \cup {x}) = IF x \in S THEN Cardinality(S) ELSE Cardinality(S) + 1
    BY <1>1, FS_AddElement
  <1>3. Cardinality(S \cup {x}) \in Nat /\ Cardinality(S) \in Nat
    BY <1>1, <1>2, FS_CardinalityType
  <1>. QED
    BY <1>2, <1>3

LEMMA AtMostOne ==
    ASSUME NEW x, NEW S \in SUBSET {x}
    PROVE  Cardinality(S) <= MaxStreamers
  <1>1. IsFiniteSet({x}) /\ Cardinality({x}) = 1
    BY FS_Singleton
  <1>2. IsFiniteSet(S) /\ Cardinality(S) <= 1
    BY <1>1, FS_Subset
  <1>. QED
    BY <1>2, FS_CardinalityType

-----------------------------------------------------------------------------
(* What each kind of change does to the rooms. *)

LEMMA RoomsUntouched ==
    ASSUME RoomsFit, UNCHANGED roomState
    PROVE  RoomsFit'
  BY DEF RoomsFit, roomState, PeersFit, StreamerCap, RoomCap, VoiceRoomsPublish,
         Members, Streamers, IsStream

\* reapEmpty takes a room off the registry and touches nothing else.
LEMMA RoomsReaped ==
    ASSUME RoomsFit, TypeOK, NEW c, ReapEmpty(c),
           UNCHANGED <<roomChan, nRooms, peers, nPeers, pnick, proom, role>>
    PROVE  RoomsFit'
  BY DEF RoomsFit, TypeOK, ReapEmpty, PeersFit, StreamerCap, RoomCap,
         VoiceRoomsPublish, Members, Streamers, IsStream

\* A new room object has no members, so its mode is nobody's.
LEMMA RoomsCreated ==
    ASSUME RoomsFit, TypeOK, NEW c \in Chan, GetOrCreateRoom(c),
           UNCHANGED <<peers, nPeers, pnick, proom, role>>
    PROVE  /\ RoomsFit'
           /\ registry' \in [Chan -> RoomId \cup {NoId}]
           /\ roomChan' \in [RoomId -> Chan]
           /\ nRooms' \in 0..MaxRooms
           /\ nRooms <= nRooms'
           /\ \A r \in 1..nRooms : roomChan'[r] = roomChan[r]
           /\ RoomFor(c) \in 1..nRooms'
  <1>1. CASE registry[c] # NoId
    BY <1>1, RoomsUntouched DEF GetOrCreateRoom, roomVars, roomState, TypeOK, RoomFor,
       RoomsFit, PeersFit, RoomId
  <1>2. CASE registry[c] = NoId
    <2>1. /\ nRooms < MaxRooms /\ nRooms' = nRooms + 1
          /\ registry' = [registry EXCEPT ![c] = nRooms + 1]
          /\ roomChan' = [roomChan EXCEPT ![nRooms + 1] = c]
      BY <1>2 DEF GetOrCreateRoom
    <2>2. /\ registry' \in [Chan -> RoomId \cup {NoId}]
          /\ roomChan' \in [RoomId -> Chan]
          /\ nRooms' \in 0..MaxRooms
          /\ \A r \in RoomId : r # nRooms + 1 => roomChan'[r] = roomChan[r]
      BY <2>1 DEF TypeOK, RoomId
    <2>3. \A r \in RoomId : r > nRooms => Members(r) = {}
      BY DEF RoomsFit, PeersFit, Members, TypeOK, RoomId
    <2>4. \A r \in RoomId : Members(r)' = Members(r) /\ Streamers(r)' = Streamers(r)
      BY DEF Members, Streamers
    <2>5. PeersFit'
      BY <2>1, <2>2 DEF RoomsFit, PeersFit, TypeOK, RoomId
    <2>6. RoomCap'
      BY <2>4 DEF RoomsFit, RoomCap
    <2>7. ASSUME NEW r \in RoomId
          PROVE  /\ IsStream(r)' => Cardinality(Streamers(r)') <= MaxStreamers
                 /\ ~IsStream(r)' => Streamers(r)' = Members(r)'
      <3>1. CASE r = nRooms + 1
        <4>1. Members(r) = {} /\ Streamers(r) = {}
          BY <3>1, <2>3 DEF Streamers, TypeOK
        <4>. QED
          BY <4>1, <2>4, FS_EmptySet
      <3>2. CASE r # nRooms + 1
        BY <3>2, <2>2, <2>4 DEF IsStream, RoomsFit, StreamerCap, VoiceRoomsPublish
      <3>. QED
        BY <3>1, <3>2
    <2>8. RoomFor(c) \in 1..nRooms'
      BY <2>1, <1>2 DEF RoomFor, TypeOK
    <2>. QED
      BY <2>1, <2>2, <2>5, <2>6, <2>7, <2>8
         DEF RoomsFit, StreamerCap, VoiceRoomsPublish, RoomId, TypeOK
  <1>. QED
    BY <1>1, <1>2

\* A member goes: of its room, at most the heir becomes a streamer.
LEMMA RoomsShrunk ==
    ASSUME RoomsFit, TypeOK, NEW r \in RoomId, NEW n \in Nick,
           peers' = [peers EXCEPT ![r][n] = NoId],
           UNCHANGED <<registry, roomChan, nRooms, nPeers, pnick, proom>>,
           \/ role' = role
           \/ \E h \in Members(r) \ {n} :
                 /\ Streamers(r) \ {n} = {}
                 /\ role' = [role EXCEPT ![peers[r][h]] = "streamer"]
    PROVE  RoomsFit' /\ peers' \in [RoomId -> [Nick -> PeerId \cup {NoId}]]
                     /\ role' \in [PeerId -> Role]
  <1>1. /\ peers' \in [RoomId -> [Nick -> PeerId \cup {NoId}]]
        /\ role' \in [PeerId -> Role]
    BY DEF TypeOK, Members, Role
  <1>2. PeersFit'
    BY <1>1 DEF RoomsFit, PeersFit, TypeOK
  <1>3. /\ Members(r)' = Members(r) \ {n}
        /\ \A q \in RoomId \ {r} : Members(q)' = Members(q)
    BY <1>1 DEF Members, TypeOK
  <1>4. RoomCap'
    <2>1. \A q \in RoomId : Members(q)' \subseteq Members(q) /\ Members(q) \subseteq Nick
      BY <1>3 DEF Members
    <2>. QED
      BY <2>1, SmallerSet DEF RoomsFit, RoomCap
  <1>5. CASE role' = role
    <2>1. /\ Streamers(r)' = Streamers(r) \ {n}
          /\ \A q \in RoomId \ {r} : Streamers(q)' = Streamers(q)
      BY <1>3, <1>5 DEF Streamers, Members, TypeOK
    <2>2. \A q \in RoomId : Streamers(q)' \subseteq Streamers(q) /\ Streamers(q) \subseteq Nick
      BY <2>1 DEF Streamers, Members
    <2>3. StreamerCap'
      BY <2>2, SmallerSet DEF RoomsFit, StreamerCap, IsStream
    <2>4. VoiceRoomsPublish'
      BY <2>1, <1>3 DEF RoomsFit, VoiceRoomsPublish, IsStream
    <2>. QED
      BY <1>1, <1>2, <1>4, <2>3, <2>4 DEF RoomsFit
  <1>6. CASE \E h \in Members(r) \ {n} :
                 /\ Streamers(r) \ {n} = {}
                 /\ role' = [role EXCEPT ![peers[r][h]] = "streamer"]
    <2>1. PICK h \in Members(r) \ {n} :
                 /\ Streamers(r) \ {n} = {}
                 /\ role' = [role EXCEPT ![peers[r][h]] = "streamer"]
      BY <1>6
    <2>2. \A q \in RoomId, m \in Nick :
              (peers[q][m] = peers[r][h]) => q = r /\ m = h
      BY <2>1 DEF RoomsFit, PeersFit, Members
    <2>3. /\ Streamers(r)' = {h}
          /\ \A q \in RoomId \ {r} : Streamers(q)' = Streamers(q)
      BY <2>1, <2>2, <1>3, <1>1 DEF Streamers, Members, TypeOK
    <2>4. StreamerCap'
      <3>1. Cardinality(Streamers(r)') <= MaxStreamers
        BY <2>3, AtMostOne
      <3>. QED
        BY <3>1, <2>3 DEF RoomsFit, StreamerCap, IsStream
    <2>5. VoiceRoomsPublish'
      <3>1. ~IsStream(r) => Members(r) \ {n} = {h}
        BY <2>1 DEF RoomsFit, VoiceRoomsPublish
      <3>. QED
        BY <3>1, <2>3, <1>3 DEF RoomsFit, VoiceRoomsPublish, IsStream
    <2>. QED
      BY <1>1, <1>2, <1>4, <2>4, <2>5 DEF RoomsFit
  <1>. QED
    BY <1>5, <1>6

\* A peer joins, in the place of a stale one of its nick if there was one.
LEMMA RoomsGrown ==
    ASSUME RoomsFit, TypeOK, NEW r \in 1..nRooms, NEW n \in Nick,
           ~RoomFull(r),
           nPeers < MaxPeers,
           nPeers' = nPeers + 1,
           pnick' = [pnick EXCEPT ![nPeers + 1] = n],
           proom' = [proom EXCEPT ![nPeers + 1] = r],
           role'  = [role EXCEPT ![nPeers + 1] = JoinRole(r)],
           peers' = [peers EXCEPT ![r][n] = nPeers + 1],
           UNCHANGED roomVars
    PROVE  /\ RoomsFit'
           /\ peers' \in [RoomId -> [Nick -> PeerId \cup {NoId}]]
           /\ nPeers' \in 0..MaxPeers
           /\ pnick' \in [PeerId -> Nick]
           /\ proom' \in [PeerId -> RoomId]
           /\ role' \in [PeerId -> Role]
  <1>0. r \in RoomId /\ nPeers + 1 \in PeerId /\ JoinRole(r) \in Role
    BY DEF TypeOK, RoomId, PeerId, JoinRole, Role
  <1>1. /\ peers' \in [RoomId -> [Nick -> PeerId \cup {NoId}]]
        /\ nPeers' \in 0..MaxPeers
        /\ pnick' \in [PeerId -> Nick]
        /\ proom' \in [PeerId -> RoomId]
        /\ role' \in [PeerId -> Role]
    BY <1>0 DEF TypeOK, PeerId
  <1>2. \A q \in RoomId, m \in Nick : peers[q][m] <= nPeers
    BY DEF RoomsFit, PeersFit, TypeOK
  <1>3. PeersFit'
    <2>1. ASSUME NEW q \in RoomId, NEW m \in Nick, peers'[q][m] # NoId
          PROVE  /\ q <= nRooms'
                 /\ peers'[q][m] <= nPeers'
                 /\ pnick'[peers'[q][m]] = m
                 /\ proom'[peers'[q][m]] = q
      <3>1. CASE q = r /\ m = n
        BY <3>1, <1>0, <1>1 DEF TypeOK, roomVars
      <3>2. CASE ~(q = r /\ m = n)
        <4>1. peers'[q][m] = peers[q][m] /\ peers[q][m] \in PeerId /\ peers[q][m] # nPeers + 1
          BY <3>2, <2>1, <1>2, <1>1 DEF TypeOK, PeerId
        <4>. QED
          BY <4>1, <2>1 DEF RoomsFit, PeersFit, TypeOK, roomVars, PeerId
      <3>. QED
        BY <3>1, <3>2
    <2>. QED
      BY <2>1 DEF PeersFit, RoomsFit, roomVars
  <1>4. /\ Members(r)' = Members(r) \cup {n}
        /\ \A q \in RoomId \ {r} : Members(q)' = Members(q)
    BY <1>0, <1>1 DEF Members, TypeOK, PeerId
  <1>5. RoomCap'
    <2>1. Members(r) \subseteq Nick
      BY DEF Members
    <2>2. Cardinality(Members(r)') <= MaxRoomSize
      BY <2>1, <1>4, OneMore DEF RoomFull
    <2>. QED
      BY <2>2, <1>4 DEF RoomsFit, RoomCap
  <1>6. \A q \in RoomId, m \in Nick :
            ~(q = r /\ m = n) => /\ peers'[q][m] = peers[q][m]
                                 /\ peers[q][m] # NoId => role'[peers[q][m]] = role[peers[q][m]]
    BY <1>0, <1>1, <1>2 DEF TypeOK, PeerId
  <1>7. \A q \in RoomId \ {r} : Streamers(q)' = Streamers(q)
    BY <1>4, <1>6 DEF Streamers, Members
  <1>8. Streamers(r)' = IF JoinRole(r) = "streamer" THEN Streamers(r) \cup {n}
                                                    ELSE Streamers(r) \ {n}
    <2>1. role'[peers'[r][n]] = JoinRole(r)
      BY <1>0, <1>1 DEF TypeOK
    <2>. QED
      BY <2>1, <1>0, <1>4, <1>6 DEF Streamers, Members
  <1>9. StreamerCap'
    <2>1. CASE IsStream(r) /\ Streamers(r) # {}
      <3>1. Streamers(r)' \subseteq Streamers(r) /\ Streamers(r) \subseteq Nick
        BY <2>1, <1>8 DEF JoinRole, Streamers, Members
      <3>2. Cardinality(Streamers(r)') <= MaxStreamers
        BY <3>1, <2>1, <1>0, SmallerSet DEF RoomsFit, StreamerCap
      <3>. QED
        BY <3>2, <1>7 DEF RoomsFit, StreamerCap, IsStream, roomVars
    <2>2. CASE IsStream(r) /\ Streamers(r) = {}
      <3>1. Streamers(r)' \subseteq {n}
        BY <2>2, <1>8 DEF JoinRole
      <3>2. Cardinality(Streamers(r)') <= MaxStreamers
        BY <3>1, AtMostOne
      <3>. QED
        BY <3>2, <1>7 DEF RoomsFit, StreamerCap, IsStream, roomVars
    <2>3. CASE ~IsStream(r)
      BY <2>3, <1>7 DEF RoomsFit, StreamerCap, IsStream, roomVars
    <2>. QED
      BY <2>1, <2>2, <2>3
  <1>10. VoiceRoomsPublish'
    <2>1. CASE IsStream(r)
      BY <2>1, <1>4, <1>7 DEF RoomsFit, VoiceRoomsPublish, IsStream, roomVars
    <2>2. CASE ~IsStream(r)
      <3>1. JoinRole(r) = "streamer" /\ Streamers(r) = Members(r)
        BY <2>2, <1>0 DEF JoinRole, RoomsFit, VoiceRoomsPublish
      <3>. QED
        BY <3>1, <1>4, <1>7, <1>8 DEF RoomsFit, VoiceRoomsPublish, IsStream, roomVars
    <2>. QED
      BY <2>1, <2>2
  <1>. QED
    BY <1>1, <1>3, <1>5, <1>9, <1>10 DEF RoomsFit

\* A member of a $-room changes role, within the cap.
LEMMA RoomsRecast ==
    ASSUME NEW r \in RoomId, NEW w \in Nick, NEW ro \in Role,
           RoomsFit, TypeOK, IsStream(r), w \in Members(r),
           ro # "streamer" \/ Cardinality(Streamers(r)) < MaxStreamers,
           role' = [role EXCEPT ![peers[r][w]] = ro],
           UNCHANGED <<registry, roomChan, nRooms, peers, nPeers, pnick, proom>>
    PROVE  RoomsFit' /\ role' \in [PeerId -> Role]
  <1>1. role' \in [PeerId -> Role]
    BY DEF TypeOK
  <1>2. \A q \in RoomId, m \in Nick : peers[q][m] = peers[r][w] => q = r /\ m = w
    BY DEF RoomsFit, PeersFit, Members
  <1>3. \A q \in RoomId : Members(q)' = Members(q)
    BY DEF Members
  <1>4. \A q \in RoomId \ {r} : Streamers(q)' = Streamers(q)
    BY <1>2, <1>3 DEF Streamers, Members, TypeOK
  <1>5. Streamers(r)' \subseteq Streamers(r) \cup {w}
    BY <1>2, <1>3 DEF Streamers, Members, TypeOK
  <1>6. ro # "streamer" => Streamers(r)' \subseteq Streamers(r)
    BY <1>2, <1>3 DEF Streamers, Members, TypeOK
  <1>7. Streamers(r) \subseteq Nick /\ w \in Nick
    BY DEF Streamers, Members
  <1>8. Cardinality(Streamers(r)') <= MaxStreamers
    <2>1. CASE ro = "streamer"
      <3>1. Cardinality(Streamers(r) \cup {w}) <= MaxStreamers
        BY <2>1, <1>7, OneMore
      <3>2. Streamers(r) \cup {w} \subseteq Nick
        BY <1>7
      <3>. QED
        BY <3>1, <3>2, <1>5, SmallerSet
    <2>2. CASE ro # "streamer"
      BY <2>2, <1>6, <1>7, SmallerSet DEF RoomsFit, StreamerCap
    <2>. QED
      BY <2>1, <2>2
  <1>9. PeersFit' /\ RoomCap'
    BY <1>3 DEF RoomsFit, PeersFit, RoomCap
  <1>10. StreamerCap' /\ VoiceRoomsPublish'
    BY <1>3, <1>4, <1>8 DEF RoomsFit, StreamerCap, VoiceRoomsPublish, IsStream
  <1>. QED
    BY <1>1, <1>9, <1>10 DEF RoomsFit
-----------------------------------------------------------------------------
(* Goroutine frames *)

\* A frame that fits goes on fitting when room objects are added.
LEMMA FramesKept ==
    ASSUME TypeOK, FramesFit, nRooms' \in Nat, nRooms <= nRooms',
           \A r \in 1..nRooms : roomChan'[r] = roomChan[r],
           th' = [t \in Thread |-> th'[t]],
           \A t \in Thread : th'[t] = th[t] \/ (th'[t] \in Frame /\ FrameFits(th[t])')
    PROVE  th' \in [Thread -> Frame] /\ FramesFit'
  <1>1. \A t \in Thread : th'[t] \in Frame
    BY DEF TypeOK
  <1>2. ASSUME NEW t \in Thread, th'[t] = th[t]
        PROVE  FrameFits(th[t])'
    <2>1. FrameFits(th[t])
      BY DEF FramesFit
    <2>2. th[t].room \in 1..nRooms => /\ th[t].room \in 1..nRooms'
                                      /\ roomChan'[th[t].room] = roomChan[th[t].room]
      BY DEF TypeOK
    <2>. QED
      BY <1>2, <2>1, <2>2 DEF FrameFits, IsStream
  <1>. QED
    BY <1>1, <1>2 DEF FramesFit

LEMMA HandlerFits ==
    ASSUME NEW label \in Label, NEW n \in Nick, NEW c \in Chan
    PROVE  /\ Handler(label, n, c) \in Frame
           /\ Handler(label, n, c).at = label
           /\ Handler(label, n, c).nick = n
           /\ Handler(label, n, c).chan = c
           /\ Handler(label, n, c).todo = {}
  BY DEF Handler, Idle, Frame, Label

LEMMA IdleFits == Idle \in Frame /\ FrameFits(Idle)
  BY DEF Idle, Frame, FrameFits, Label

\* A goroutine that returns is idle or starts on the next channel of a quit.
LEMMA ReturnFits ==
    ASSUME NEW f \in Frame, f.todo # {} => f.nick \in Nick, NEW g \in Returned(f)
    PROVE  g \in Frame /\ FrameFits(g)
  <1>1. CASE f.todo = {}
    BY <1>1, IdleFits DEF Returned
  <1>2. CASE f.todo # {}
    <2>1. PICK c \in f.todo : g = [Handler("leave", f.nick, c) EXCEPT !.todo = f.todo \ {c}]
      BY <1>2 DEF Returned
    <2>2. c \in Chan /\ f.nick \in Nick /\ f.todo \ {c} \in SUBSET Chan
      BY <1>2 DEF Frame
    <2>. QED
      BY <2>1, <2>2 DEF Handler, Idle, Frame, FrameFits, Label
  <1>. QED
    BY <1>1, <1>2

\* Closing a connection starts at most the goroutine of its callback.
LEMMA CloseFits ==
    ASSUME TypeOK, FramesFit, NEW p \in PeerId \cup {NoId}
    PROVE  /\ CloseSpawns(p) = [t \in Thread |-> CloseSpawns(p)[t]]
           /\ \A t \in Thread : CloseSpawns(p)[t] \in Frame /\ FrameFits(CloseSpawns(p)[t])
           /\ \A t \in Dispatcher \cup Loop : CloseSpawns(p)[t] = th[t]
           /\ ClosePC(p) \in [PeerId -> {"bare", "hooked", "closed"}]
  <1>1. ClosePC(p) \in [PeerId -> {"bare", "hooked", "closed"}]
    BY DEF TypeOK, ClosePC
  <1>2. CASE p # NoId /\ pc[p] = "hooked"
    <2>1. pnick[p] \in Nick /\ roomChan[proom[p]] \in Chan
      BY <1>2 DEF TypeOK
    <2> DEFINE f == Handler("ready", pnick[p], roomChan[proom[p]])
    <2>2. f \in Frame /\ FrameFits(f)
      <3>1. "ready" \in Label
        BY DEF Label
      <3>. QED
        BY <2>1, <3>1, HandlerFits DEF FrameFits
    <2> HIDE DEF f
    <2>3. CloseSpawns(p) = [th EXCEPT ![<<p, "closed">>] = f]
      BY <1>2 DEF CloseSpawns, f
    <2>4. \A t \in Dispatcher \cup Loop : t # <<p, "closed">>
      BY <1>2 DEF Callback
    <2>. QED
      BY <1>1, <2>2, <2>3, <2>4 DEF TypeOK, FramesFit, Thread
  <1>3. CASE ~(p # NoId /\ pc[p] = "hooked")
    BY <1>1, <1>3 DEF CloseSpawns, TypeOK, FramesFit, Thread
  <1>. QED
    BY <1>2, <1>3
-----------------------------------------------------------------------------
(* Steps *)

\* The types of the variables RoomsFit depends on, and of the others.
RoomTypes ==
    /\ registry \in [Chan -> RoomId \cup {NoId}]
    /\ roomChan \in [RoomId -> Chan]
    /\ nRooms \in 0..MaxRooms
    /\ peers \in [RoomId -> [Nick -> PeerId \cup {NoId}]]
    /\ nPeers \in 0..MaxPeers
    /\ pnick \in [PeerId -> Nick]
    /\ proom \in [PeerId -> RoomId]
    /\ role \in [PeerId -> Role]
SideTypes ==
    /\ locals \in [RoomId -> LocalId \cup {NoId}]
    /\ localExpected \in BOOLEAN
    /\ wedged \in [RoomId -> BOOLEAN]
    /\ nLocals \in 0..MaxLocals
    /\ pc \in [PeerId -> {"bare", "hooked", "closed"}]
    /\ lost \subseteq PeerId
    /\ lroom \in [LocalId -> RoomId]
    /\ stopped \in [LocalId -> BOOLEAN]
    /\ tap \in LocalId \cup {NoId}

LEMMA InvariantParts ==
    /\ IInv <=> RoomTypes /\ SideTypes /\ RoomsFit /\ th \in [Thread -> Frame] /\ FramesFit
    /\ IInv' <=> RoomTypes' /\ SideTypes' /\ RoomsFit' /\ th' \in [Thread -> Frame] /\ FramesFit'
  BY DEF IInv, TypeOK, RoomTypes, SideTypes, RoomsFit

\* A goroutine steps to a frame that fits.
LEMMA FrameStep ==
    ASSUME IInv, UNCHANGED <<nRooms, roomChan>>,
           NEW t \in Thread, NEW g \in Frame, FrameFits(g),
           th' = [th EXCEPT ![t] = g]
    PROVE  th' \in [Thread -> Frame] /\ FramesFit'
  <1>1. \A u \in Thread : th'[u] = th[u] \/ th'[u] = g
    BY DEF IInv, TypeOK
  <1>2. th' \in [Thread -> Frame]
    BY DEF IInv, TypeOK
  <1>3. ASSUME NEW u \in Thread PROVE FrameFits(th[u])'
    <2>1. FrameFits(th[u]) /\ FrameFits(g)
      BY DEF IInv, FramesFit
    <2>. QED
      BY <2>1, <1>1 DEF FrameFits, IsStream
  <1>. QED
    BY <1>2, <1>3 DEF FramesFit

\* A goroutine steps and the rooms stay as they are.
LEMMA QuietStep ==
    ASSUME IInv, UNCHANGED roomState, SideTypes',
           NEW t \in Thread, NEW g \in Frame, FrameFits(g),
           th' = [th EXCEPT ![t] = g]
    PROVE  IInv'
  <1>1. RoomsFit'
    BY RoomsUntouched, InvariantParts
  <1>2. RoomTypes'
    BY InvariantParts DEF RoomTypes, roomState
  <1>3. th' \in [Thread -> Frame] /\ FramesFit'
    BY FrameStep DEF roomState
  <1>. QED
    BY <1>1, <1>2, <1>3, InvariantParts

\* The frames after a step that may also close the connection of peer p.
LEMMA ClosingFrames ==
    ASSUME IInv, UNCHANGED <<nRooms, roomChan>>, NEW p \in PeerId \cup {NoId},
           NEW t \in Thread, NEW g \in Frame, FrameFits(g),
           th' = [CloseSpawns(p) EXCEPT ![t] = g]
    PROVE  th' \in [Thread -> Frame] /\ FramesFit'
  <1>1. /\ CloseSpawns(p) = [u \in Thread |-> CloseSpawns(p)[u]]
        /\ \A u \in Thread : CloseSpawns(p)[u] \in Frame /\ FrameFits(CloseSpawns(p)[u])
    BY CloseFits DEF IInv
  <1> DEFINE k == CloseSpawns(p)
  <1>2. k = [u \in Thread |-> k[u]] /\ \A u \in Thread : k[u] \in Frame /\ FrameFits(k[u])
    BY <1>1
  <1>3. th' = [k EXCEPT ![t] = g]
    OBVIOUS
  <1> HIDE DEF k
  <1>4. th' \in [Thread -> Frame] /\ \A u \in Thread : th'[u] = k[u] \/ th'[u] = g
    BY <1>2, <1>3
  <1>5. ASSUME NEW u \in Thread PROVE FrameFits(th[u])'
    <2>1. FrameFits(k[u])
      BY <1>2
    <2>. QED
      BY <2>1, <1>4 DEF FrameFits, IsStream
  <1>. QED
    BY <1>4, <1>5 DEF FramesFit

LEMMA ThreadKinds ==
    ASSUME NEW t \in Dispatcher \cup Loop \cup Callback
    PROVE  t \in Thread
  BY DEF Thread

\* getOrCreateRoom, then room.mu: a join or a registration begins.
LEMMA EnterStep ==
    ASSUME IInv, NEW t \in Thread, NEW n \in Nick, NEW c \in Chan,
           NEW label \in {"join_lock", "reg_lock"},
           GetOrCreateRoom(c), UNCHANGED <<peers, nPeers, pnick, proom, role>>,
           SideTypes',
           th' = [th EXCEPT ![t] = [Handler(label, n, c) EXCEPT !.room = RoomFor(c)]]
    PROVE  IInv'
  <1>1. /\ RoomsFit' /\ RoomTypes'
        /\ nRooms <= nRooms'
        /\ \A r \in 1..nRooms : roomChan'[r] = roomChan[r]
        /\ RoomFor(c) \in 1..nRooms'
    BY RoomsCreated, InvariantParts DEF RoomTypes, IInv
  <1>2. RoomFor(c) \in RoomId
    BY <1>1 DEF RoomTypes, RoomId
  <1>3. PICK g : g = [Handler(label, n, c) EXCEPT !.room = RoomFor(c)]
    OBVIOUS
  <1>4. /\ g \in Frame /\ g.at = label /\ g.nick = n /\ g.todo = {}
        /\ g.room = RoomFor(c)
    BY <1>2, <1>3 DEF Handler, Idle, Frame, Label
  <1>5. th' = [th EXCEPT ![t] = g]
    BY <1>3
  <1>6. FrameFits(g)'
    BY <1>1, <1>4 DEF FrameFits
  <1>7. th' \in [Thread -> Frame] /\ FramesFit'
    <2>1. \A u \in Thread : th'[u] = th[u] \/ (th'[u] \in Frame /\ FrameFits(th[u])')
      <3>1. th \in [Thread -> Frame]
        BY DEF IInv, TypeOK
      <3>2. \A u \in Thread : u # t => th'[u] = th[u]
        BY <3>1, <1>5
      <3>3. th'[t] = g
        BY <3>1, <1>5
      <3>4. FrameFits(th[t])'
        BY <3>3, <1>6 DEF FrameFits, IsStream
      <3>. QED
        BY <3>2, <3>3, <3>4, <1>4
    <2>2. th' = [u \in Thread |-> th'[u]]
      BY <1>5 DEF IInv, TypeOK
    <2>3. nRooms' \in Nat /\ TypeOK /\ FramesFit
      BY <1>1 DEF IInv, RoomTypes
    <2>. QED
      BY <1>1, <2>1, <2>2, <2>3, FramesKept
  <1>. QED
    BY <1>1, <1>7, InvariantParts

\* A goroutine returns from its handler and the rooms stay as they are.
LEMMA ReturnStep ==
    ASSUME IInv, UNCHANGED roomState, SideTypes', NEW t \in Thread, Return(t)
    PROVE  IInv'
  <1>1. PICK g \in Returned(th[t]) : th' = [th EXCEPT ![t] = g]
    BY DEF Return
  <1>2. th[t] \in Frame /\ FrameFits(th[t])
    BY DEF IInv, TypeOK, FramesFit
  <1>3. g \in Frame /\ FrameFits(g)
    BY <1>2, ReturnFits DEF FrameFits
  <1>. QED
    BY <1>1, <1>3, QuietStep

\* A goroutine moves to a label at which its frame needs nothing.
LEMMA GotoStep ==
    ASSUME IInv, UNCHANGED roomState, SideTypes', NEW t \in Thread,
           NEW label \in {"joined", "promote_tell", "demote_tell", "stop_tell",
                          "stop_reap", "leave_reap"},
           Goto(t, label)
    PROVE  IInv'
  <1>1. PICK g : g = [th[t] EXCEPT !.at = label]
    OBVIOUS
  <1>2. th[t] \in Frame /\ FrameFits(th[t])
    BY DEF IInv, TypeOK, FramesFit
  <1>3. g \in Frame /\ FrameFits(g)
    BY <1>1, <1>2 DEF Frame, FrameFits, Label
  <1>4. th' = [th EXCEPT ![t] = g]
    BY <1>1 DEF Goto, IInv, TypeOK
  <1>. QED
    BY <1>3, <1>4, QuietStep

LEMMA JoinEnterStep ==
    ASSUME IInv, NEW d \in Dispatcher, NEW n \in Nick, NEW c \in Chan, JoinEnter(d, n, c)
    PROVE  IInv'
  <1>1. SideTypes'
    BY InvariantParts DEF SideTypes, JoinEnter, localVars
  <1>. QED
    BY <1>1, EnterStep, ThreadKinds DEF JoinEnter, peerVars

LEMMA RegEnterStep ==
    ASSUME IInv, NEW l \in Loop, RegEnter(l)
    PROVE  IInv'
  <1>1. SideTypes'
    BY InvariantParts DEF SideTypes, RegEnter
  <1>. QED
    BY <1>1, EnterStep, ThreadKinds DEF RegEnter, peerVars

LEMMA JoinAllocFailsStep ==
    ASSUME IInv, NEW d \in Dispatcher, JoinAllocFails(d)
    PROVE  IInv'
  <1>1. th[d].room \in RoomId /\ th[d].nick \in Nick
    BY ThreadKinds DEF JoinAllocFails, Runs, IInv, FramesFit, FrameFits, TypeOK, RoomId
  <1>2. PICK p \in PeerId \cup {NoId} : p = peers[th[d].room][th[d].nick]
    BY <1>1 DEF IInv, TypeOK
  <1>3. th' = [CloseSpawns(p) EXCEPT ![d] = Idle] /\ pc' = ClosePC(p)
    BY <1>2 DEF JoinAllocFails
  <1>4. SideTypes'
    BY <1>3, CloseFits, InvariantParts DEF SideTypes, JoinAllocFails, localVars, IInv
  <1>5. UNCHANGED roomState
    BY DEF JoinAllocFails, roomState, roomVars, peerVars
  <1>6. RoomsFit' /\ RoomTypes'
    BY <1>5, RoomsUntouched, InvariantParts DEF RoomTypes, roomState
  <1>7. th' \in [Thread -> Frame] /\ FramesFit'
    BY <1>3, <1>5, ClosingFrames, IdleFits, ThreadKinds DEF roomState
  <1>. QED
    BY <1>4, <1>6, <1>7, InvariantParts

LEMMA JoinInsertStep ==
    ASSUME IInv, NEW d \in Dispatcher, JoinInsert(d)
    PROVE  IInv'
  <1>0. th[d].at = "join_lock" /\ th[d] \in Frame /\ FrameFits(th[d])
    BY ThreadKinds DEF JoinInsert, Runs, IInv, FramesFit, TypeOK
  <1>1. /\ th[d].room \in 1..nRooms /\ th[d].nick \in Nick /\ th[d].room \in RoomId
    BY <1>0 DEF FrameFits, IInv, TypeOK, RoomId
  <1>2. PICK p \in PeerId \cup {NoId} : p = peers[th[d].room][th[d].nick]
    BY <1>1 DEF IInv, TypeOK
  <1>3. RoomsFit' /\ RoomTypes'
    BY <1>1, RoomsGrown, InvariantParts DEF JoinInsert, RoomFull, RoomTypes, roomVars, IInv
  <1>4. SideTypes'
    BY <1>2, CloseFits, InvariantParts DEF SideTypes, JoinInsert, localVars, IInv
  <1>5. PICK g : g = [th[d] EXCEPT !.at = "join_tell", !.peer = nPeers + 1]
    OBVIOUS
  <1>6. g \in Frame /\ FrameFits(g)
    <2>1. nPeers + 1 \in Nat
      BY DEF IInv, TypeOK
    <2>2. g \in Frame /\ g.at = "join_tell" /\ g.nick = th[d].nick /\ g.todo = th[d].todo
      BY <1>0, <1>5, <2>1 DEF Frame, Label
    <2>. QED
      BY <2>2, <1>0 DEF FrameFits
  <1>7. th' = [CloseSpawns(p) EXCEPT ![d] = g]
    <2>1. /\ CloseSpawns(p)[d] = th[d]
          /\ CloseSpawns(p) = [u \in Thread |-> CloseSpawns(p)[u]]
      BY CloseFits DEF IInv
    <2>2. th' = [CloseSpawns(p) EXCEPT ![d].at = "join_tell", ![d].peer = nPeers + 1]
      BY <1>2 DEF JoinInsert
    <2>. QED
      BY <2>1, <2>2, <1>0, <1>5, ThreadKinds DEF Frame
  <1>8. th' \in [Thread -> Frame] /\ FramesFit'
    BY <1>6, <1>7, ClosingFrames, ThreadKinds DEF JoinInsert, roomVars
  <1>. QED
    BY <1>3, <1>4, <1>8, InvariantParts

LEMMA JoinRoomFullStep ==
    ASSUME IInv, NEW d \in Dispatcher, JoinRoomFull(d)
    PROVE  IInv'
  <1>1. SideTypes' /\ UNCHANGED roomState
    BY InvariantParts DEF SideTypes, JoinRoomFull, localVars, roomState, roomVars, peerVars
  <1>. QED
    BY <1>1, ReturnStep, ThreadKinds DEF JoinRoomFull

LEMMA JoinTellStep ==
    ASSUME IInv, NEW d \in Dispatcher, JoinTell(d)
    PROVE  IInv'
  <1>1. pc' \in [PeerId -> {"bare", "hooked", "closed"}]
    BY DEF JoinTell, IInv, TypeOK
  <1>2. SideTypes' /\ UNCHANGED roomState
    BY <1>1, InvariantParts DEF SideTypes, JoinTell, localVars, roomState, roomVars, peerVars
  <1>. QED
    BY <1>2, ReturnStep, ThreadKinds DEF JoinTell

\* Of a nonempty set of members, one joined first.
LEMMA OldestExists ==
    ASSUME TypeOK, NEW r \in RoomId, NEW S \in SUBSET Nick, S # {}
    PROVE  Oldest(r, S) \in S
  <1>1. PICK T : T = {peers[r][n] : n \in S}
    OBVIOUS
  <1>2. T \subseteq Nat /\ T # {}
    BY <1>1 DEF TypeOK, PeerId
  <1>3. PICK x \in T : \A y \in T : ~(<<y, x>> \in OpToRel(<, Nat))
    BY <1>2, NatLessThanWellFounded, WFMin
  <1>4. \A y \in T : x <= y
    <2>1. ASSUME NEW y \in T PROVE x <= y
      <3>1. x \in Nat /\ y \in Nat
        BY <1>2, <1>3
      <3>2. ~(y < x)
        BY <1>3, <3>1 DEF OpToRel
      <3>. QED
        BY <3>1, <3>2
    <2>. QED
      BY <2>1
  <1>5. \E n \in S : \A m \in S : peers[r][n] <= peers[r][m]
    <2>1. PICK n \in S : x = peers[r][n]
      BY <1>1
    <2>2. \A m \in S : peers[r][m] \in T
      BY <1>1
    <2>. QED
      BY <2>1, <2>2, <1>4
  <1>. QED
    BY <1>5 DEF Oldest

-----------------------------------------------------------------------------
(* handleLeave *)

\* Looking a room up gives an object that has been created.
LEMMA LookedUpFits ==
    ASSUME IInv, NEW f \in Frame, f.nick \in Nick, f.chan \in Chan,
           registry[f.chan] # NoId
    PROVE  LookedUp(f) \in Frame /\ FrameFits(LookedUp(f))
  <1>1. registry[f.chan] \in RoomId /\ registry[f.chan] \in 1..nRooms
    BY DEF IInv, TypeOK, PeersFit, RoomId
  <1>2. PICK g : g = [f EXCEPT !.at = "leave_lock", !.room = registry[f.chan]]
    OBVIOUS
  <1>3. g \in Frame /\ g.at = "leave_lock" /\ g.room \in 1..nRooms /\ g.nick \in Nick
    BY <1>1, <1>2 DEF Frame, Label
  <1>4. FrameFits(g)
    BY <1>3 DEF FrameFits
  <1>. QED
    BY <1>2, <1>3, <1>4 DEF LookedUp

LEMMA LeaveEnterStep ==
    ASSUME IInv, NEW d \in Dispatcher, NEW n \in Nick, NEW c \in Chan, LeaveEnter(d, n, c)
    PROVE  IInv'
  <1>1. SideTypes' /\ UNCHANGED roomState
    BY InvariantParts DEF SideTypes, LeaveEnter, localVars, roomState, roomVars, peerVars
  <1>2. PICK f : f = Handler("leave", n, c)
    OBVIOUS
  <1>3. f \in Frame /\ f.nick = n /\ f.chan = c
    BY <1>2 DEF Handler, Idle, Frame, Label
  <1>4. LookedUp(f) \in Frame /\ FrameFits(LookedUp(f))
    BY <1>3, LookedUpFits DEF LeaveEnter
  <1>5. th' = [th EXCEPT ![d] = LookedUp(f)]
    BY <1>2 DEF LeaveEnter
  <1>. QED
    BY <1>1, <1>4, <1>5, QuietStep, ThreadKinds

LEMMA QuitEnterStep ==
    ASSUME IInv, NEW d \in Dispatcher, NEW n \in Nick, QuitEnter(d, n)
    PROVE  IInv'
  <1>1. SideTypes' /\ UNCHANGED roomState
    BY InvariantParts DEF SideTypes, QuitEnter, localVars, roomState, roomVars, peerVars
  <1>2. PICK f : f = [Handler("leave", n, None) EXCEPT
                        !.todo = {c \in Chan : registry[c] # NoId /\ n \in Members(registry[c])}]
    OBVIOUS
  <1>3. f \in Frame /\ f.nick = n
    BY <1>2 DEF Handler, Idle, Frame, Label
  <1>4. PICK g \in Returned(f) : th' = [th EXCEPT ![d] = g]
    BY <1>2 DEF QuitEnter
  <1>5. g \in Frame /\ FrameFits(g)
    BY <1>3, ReturnFits
  <1>. QED
    BY <1>1, <1>4, <1>5, QuietStep, ThreadKinds

LEMMA LeaveLookupStep ==
    ASSUME IInv, NEW t \in Dispatcher \cup Callback, LeaveLookup(t)
    PROVE  IInv'
  <1>1. SideTypes' /\ UNCHANGED roomState
    BY InvariantParts DEF SideTypes, LeaveLookup, localVars, roomState, roomVars, peerVars
  <1>2. t \in Thread
    BY ThreadKinds
  <1>3. CASE registry[th[t].chan] = NoId
    BY <1>1, <1>2, <1>3, ReturnStep DEF LeaveLookup
  <1>4. CASE registry[th[t].chan] # NoId
    <2>1. th' = [th EXCEPT ![t] = LookedUp(th[t])]
      BY <1>4 DEF LeaveLookup
    <2>2. th[t] \in Frame /\ th[t].nick \in Nick /\ th[t].chan \in Chan
      BY <1>2 DEF LeaveLookup, Runs, IInv, TypeOK, FramesFit, FrameFits
    <2>3. LookedUp(th[t]) \in Frame /\ FrameFits(LookedUp(th[t]))
      BY <2>2, <1>4, LookedUpFits
    <2>4. PICK g : g = LookedUp(th[t])
      OBVIOUS
    <2>. QED
      BY <1>1, <1>2, <2>1, <2>3, <2>4, QuietStep
  <1>. QED
    BY <1>3, <1>4

LEMMA LeaveAbsentStep ==
    ASSUME IInv, NEW t \in Dispatcher \cup Callback, LeaveAbsent(t)
    PROVE  IInv'
  <1>1. SideTypes' /\ UNCHANGED roomState
    BY InvariantParts DEF SideTypes, LeaveAbsent, localVars, roomState, roomVars, peerVars
  <1>. QED
    BY <1>1, ReturnStep, ThreadKinds DEF LeaveAbsent

LEMMA LeaveRemoveStep ==
    ASSUME IInv, NEW t \in Dispatcher \cup Callback, LeaveRemove(t)
    PROVE  IInv'
  <1>1. t \in Thread
    BY ThreadKinds
  <1>2. th[t].at = "leave_lock" /\ th[t] \in Frame /\ FrameFits(th[t])
    BY <1>1 DEF LeaveRemove, Runs, IInv, FramesFit, TypeOK
  <1>3. PICK n \in Nick, r \in RoomId : n = th[t].nick /\ r = th[t].room
    BY <1>2 DEF FrameFits, IInv, TypeOK, RoomId
  <1>4. n \in Members(r) /\ peers[r][n] \in PeerId
    BY <1>3 DEF LeaveRemove, Members, IInv, TypeOK
  <1>5. PICK h : h = Heir(r, n)
    OBVIOUS
  <1>6. h = None \/ (h \in Members(r) \ {n} /\ Streamers(r) \ {n} = {})
    <2>1. Members(r) \ {n} \in SUBSET Nick
      BY DEF Members
    <2>. QED
      BY <1>5, <2>1, OldestExists DEF Heir, IInv
  <1>7. h \in Nick \cup {None}
    BY <1>6 DEF Members
  <1>8. role' = role \/ \E k \in Members(r) \ {n} :
                 /\ Streamers(r) \ {n} = {}
                 /\ role' = [role EXCEPT ![peers[r][k]] = "streamer"]
    BY <1>3, <1>5, <1>6 DEF LeaveRemove, Promoted
  <1>9. RoomsFit' /\ RoomTypes'
    <2>1. /\ peers' = [peers EXCEPT ![r][n] = NoId]
          /\ UNCHANGED <<registry, roomChan, nRooms, nPeers, pnick, proom>>
      BY <1>3 DEF LeaveRemove, roomVars, peerVars
    <2>2. RoomsFit /\ TypeOK
      BY InvariantParts DEF IInv
    <2>3. RoomsFit' /\ peers' \in [RoomId -> [Nick -> PeerId \cup {NoId}]]
                   /\ role' \in [PeerId -> Role]
      BY <1>8, <2>1, <2>2, RoomsShrunk
    <2>. QED
      BY <2>1, <2>3, InvariantParts DEF RoomTypes
  <1>10. SideTypes'
    BY InvariantParts DEF SideTypes, LeaveRemove, localVars
  <1>11. PICK g : g = [th[t] EXCEPT !.at = "leave_tell", !.peer = peers[r][n],
                                   !.who = h, !.empty = (Members(r) = {n})]
    OBVIOUS
  <1>12. g \in Frame /\ FrameFits(g)
    <2>1. peers[r][n] \in Nat
      BY <1>4 DEF PeerId
    <2>2. (Members(r) = {n}) \in BOOLEAN
      OBVIOUS
    <2>3. /\ g \in Frame /\ g.at = "leave_tell" /\ g.peer = peers[r][n]
          /\ g.nick = th[t].nick
      BY <1>2, <1>7, <1>11, <2>1, <2>2 DEF Frame, Label
    <2>. QED
      BY <1>3, <1>4, <2>3 DEF FrameFits
  <1>13. th' = [th EXCEPT ![t] = g]
    <2>1. th \in [Thread -> Frame]
      BY DEF IInv, TypeOK
    <2>2. th' = [th EXCEPT ![t].at = "leave_tell", ![t].peer = peers[r][n],
                          ![t].who = h, ![t].empty = (Members(r) = {n})]
      BY <1>3, <1>5 DEF LeaveRemove
    <2>. QED
      BY <1>1, <1>11, <2>1, <2>2
  <1>14. th' \in [Thread -> Frame] /\ FramesFit'
    BY <1>1, <1>12, <1>13, FrameStep DEF LeaveRemove, roomVars
  <1>. QED
    BY <1>9, <1>10, <1>14, InvariantParts

LEMMA LeaveTellStep ==
    ASSUME IInv, NEW t \in Dispatcher \cup Callback, LeaveTell(t)
    PROVE  IInv'
  <1>1. t \in Thread
    BY ThreadKinds
  <1>2. th[t].at = "leave_tell" /\ th[t] \in Frame /\ FrameFits(th[t])
    BY <1>1 DEF LeaveTell, Runs, IInv, FramesFit, TypeOK
  <1>3. PICK p \in PeerId : p = th[t].peer
    BY <1>2 DEF FrameFits
  <1>4. SideTypes'
    BY <1>3, CloseFits, InvariantParts DEF SideTypes, LeaveTell, localVars, IInv
  <1>5. UNCHANGED roomState
    BY DEF LeaveTell, roomState, roomVars, peerVars
  <1>6. RoomsFit' /\ RoomTypes'
    BY <1>5, RoomsUntouched, InvariantParts DEF RoomTypes, roomState
  <1>7. \E g \in Frame : FrameFits(g) /\ th' = [CloseSpawns(p) EXCEPT ![t] = g]
    <2>1. CASE th[t].empty
      <3>1. th' = [CloseSpawns(p) EXCEPT ![t].at = "leave_reap"]
        BY <1>3, <2>1 DEF LeaveTell
      <3>2. CloseSpawns(p) = [u \in Thread |-> CloseSpawns(p)[u]]
            /\ \A u \in Thread : CloseSpawns(p)[u] \in Frame /\ FrameFits(CloseSpawns(p)[u])
        BY CloseFits DEF IInv
      <3>3. PICK k : k = CloseSpawns(p)
        OBVIOUS
      <3>4. k[t] \in Frame /\ FrameFits(k[t])
        BY <1>1, <3>2, <3>3
      <3>5. PICK g : g = [k[t] EXCEPT !.at = "leave_reap"]
        OBVIOUS
      <3>6. g \in Frame /\ FrameFits(g)
        BY <3>4, <3>5 DEF Frame, FrameFits, Label
      <3>7. th' = [k EXCEPT ![t] = g]
        BY <3>1, <3>3, <3>5
      <3>. QED
        BY <3>3, <3>6, <3>7
    <2>2. CASE ~th[t].empty
      <3>1. PICK g \in Returned(th[t]) : th' = [CloseSpawns(p) EXCEPT ![t] = g]
        BY <1>3, <2>2 DEF LeaveTell
      <3>2. g \in Frame /\ FrameFits(g)
        BY <1>2, ReturnFits DEF FrameFits
      <3>. QED
        BY <3>1, <3>2
    <2>. QED
      BY <2>1, <2>2
  <1>8. th' \in [Thread -> Frame] /\ FramesFit'
    BY <1>1, <1>5, <1>7, ClosingFrames DEF roomState
  <1>. QED
    BY <1>4, <1>6, <1>8, InvariantParts

\* reapEmpty at the end of handleLeave or of stop.
LEMMA ReapStep ==
    ASSUME IInv, NEW t \in Thread, NEW c, ReapEmpty(c), Return(t),
           UNCHANGED <<roomChan, nRooms, peers, nPeers, pnick, proom, role>>,
           UNCHANGED <<localVars, wedged, pc, lost>>
    PROVE  IInv'
  <1>1. SideTypes'
    BY InvariantParts DEF SideTypes, localVars
  <1>2. RoomsFit'
    BY RoomsReaped, InvariantParts DEF IInv
  <1>3. registry' \in [Chan -> RoomId \cup {NoId}]
    BY DEF ReapEmpty, IInv, TypeOK
  <1>4. RoomTypes'
    BY <1>3, InvariantParts DEF RoomTypes
  <1>5. PICK g \in Returned(th[t]) : th' = [th EXCEPT ![t] = g]
    BY DEF Return
  <1>6. th[t] \in Frame /\ FrameFits(th[t])
    BY DEF IInv, TypeOK, FramesFit
  <1>7. g \in Frame /\ FrameFits(g)
    BY <1>6, ReturnFits DEF FrameFits
  <1>8. th' \in [Thread -> Frame] /\ FramesFit'
    BY <1>5, <1>7, FrameStep
  <1>. QED
    BY <1>1, <1>2, <1>4, <1>8, InvariantParts

LEMMA LeaveReapStep ==
    ASSUME IInv, NEW t \in Dispatcher \cup Callback, LeaveReap(t)
    PROVE  IInv'
  BY ReapStep, ThreadKinds DEF LeaveReap, peerVars

LEMMA PCLostStep ==
    ASSUME IInv, NEW p \in PeerId, PCLost(p)
    PROVE  IInv'
  <1>1. SideTypes' /\ UNCHANGED roomState
    BY InvariantParts DEF SideTypes, PCLost, localVars, roomState, roomVars, peerVars
  <1>2. PICK g : g = Handler("ready", pnick[p], roomChan[proom[p]])
    OBVIOUS
  <1>3. pnick[p] \in Nick /\ roomChan[proom[p]] \in Chan /\ "ready" \in Label
    BY DEF IInv, TypeOK, Label
  <1>4. g \in Frame /\ FrameFits(g)
    BY <1>2, <1>3, HandlerFits DEF FrameFits
  <1>5. <<p, "lost">> \in Thread
    BY DEF Thread, Callback
  <1>6. th' = [th EXCEPT ![<<p, "lost">>] = g]
    BY <1>2 DEF PCLost
  <1>. QED
    BY <1>1, <1>4, <1>5, <1>6, QuietStep

-----------------------------------------------------------------------------
(* handlePromote and handleDemote *)

LEMMA RoleRequestStep ==
    ASSUME IInv, NEW d \in Dispatcher, NEW n \in Nick, NEW c \in Chan, NEW w \in Nick,
           NEW label \in {"promote", "demote"}, RoleRequest(d, label, n, c, w)
    PROVE  IInv'
  <1>1. SideTypes' /\ UNCHANGED roomState
    BY InvariantParts DEF SideTypes, RoleRequest, localVars, roomState, roomVars, peerVars
  <1>2. PICK r \in RoomId : r = registry[c] /\ r <= nRooms
    BY DEF RoleRequest, IInv, TypeOK, PeersFit
  <1>3. PICK g : g = [Handler(label, n, c) EXCEPT !.room = r, !.peer = peers[r][n], !.who = w]
    OBVIOUS
  <1>4. peers[r][n] \in Nat
    BY <1>2 DEF IInv, TypeOK, PeerId
  <1>5. /\ g \in Frame /\ g.at = label /\ g.room = r /\ g.nick = n /\ g.todo = {}
    BY <1>3, <1>4 DEF Handler, Idle, Frame, Label
  <1>6. FrameFits(g)
    BY <1>2, <1>5 DEF FrameFits, RoomId, IsStream, RoleRequest
  <1>7. th' = [th EXCEPT ![d] = g]
    BY <1>2, <1>3 DEF RoleRequest
  <1>. QED
    BY <1>1, <1>5, <1>6, <1>7, QuietStep, ThreadKinds

\* A grant keeps the cap: it was tested in the critical section that sets the
\* role, and the frame's room is a $-room.
LEMMA RoleGrantStep ==
    ASSUME IInv, NEW d \in Dispatcher, NEW label \in {"promote_tell", "demote_tell"},
           NEW ro \in Role,
           th[d].at \in {"promote", "demote"},
           th[d].who \in Members(th[d].room),
           ro = "streamer" => Cardinality(Streamers(th[d].room)) < MaxStreamers,
           role' = [role EXCEPT ![peers[th[d].room][th[d].who]] = ro],
           Goto(d, label),
           UNCHANGED <<roomVars, peers, localVars, wedged, peerVars, pc, lost>>
    PROVE  IInv'
  <1>1. d \in Thread
    BY ThreadKinds
  <1>2. th[d] \in Frame /\ FrameFits(th[d])
    BY <1>1 DEF IInv, TypeOK, FramesFit
  <1>3. PICK r \in RoomId : r = th[d].room /\ IsStream(r)
    BY <1>2 DEF FrameFits, IInv, TypeOK, RoomId
  <1>4. RoomsFit' /\ role' \in [PeerId -> Role]
    <2>1. PICK w \in Nick : w = th[d].who /\ w \in Members(r)
      BY <1>3 DEF Members
    <2>2. role' = [role EXCEPT ![peers[r][w]] = ro]
      BY <1>3, <2>1
    <2>3. UNCHANGED <<registry, roomChan, nRooms, peers, nPeers, pnick, proom>>
      BY DEF roomVars, peerVars
    <2>4. ro # "streamer" \/ Cardinality(Streamers(r)) < MaxStreamers
      BY <1>3
    <2>5. RoomsFit /\ TypeOK
      BY InvariantParts DEF IInv
    <2>. QED
      BY <1>3, <2>1, <2>2, <2>3, <2>4, <2>5, RoomsRecast
  <1>5. RoomTypes' /\ SideTypes'
    BY <1>4, InvariantParts DEF RoomTypes, SideTypes, roomVars, peerVars, localVars
  <1>6. PICK g : g = [th[d] EXCEPT !.at = label]
    OBVIOUS
  <1>7. g \in Frame /\ FrameFits(g)
    BY <1>2, <1>6 DEF Frame, FrameFits, Label
  <1>8. th' = [th EXCEPT ![d] = g]
    BY <1>1, <1>6 DEF Goto, IInv, TypeOK
  <1>9. th' \in [Thread -> Frame] /\ FramesFit'
    BY <1>1, <1>7, <1>8, FrameStep DEF roomVars
  <1>. QED
    BY <1>4, <1>5, <1>9, InvariantParts

LEMMA RoleRefusalStep ==
    ASSUME IInv, NEW d \in Dispatcher, Return(d), UNCHANGED role,
           UNCHANGED <<roomVars, peers, localVars, wedged, peerVars, pc, lost>>
    PROVE  IInv'
  <1>1. SideTypes' /\ UNCHANGED roomState
    BY InvariantParts DEF SideTypes, localVars, roomState, roomVars, peerVars
  <1>. QED
    BY <1>1, ReturnStep, ThreadKinds

LEMMA PromoteStep ==
    ASSUME IInv, NEW d \in Dispatcher, Promote(d)
    PROVE  IInv'
  <1>1. CASE MayPromote(d) /\ Goto(d, "promote_tell")
             /\ role' = [role EXCEPT ![peers[th[d].room][th[d].who]] = "streamer"]
    <2>1. /\ th[d].at = "promote"
          /\ th[d].who \in Members(th[d].room)
          /\ Cardinality(Streamers(th[d].room)) < MaxStreamers
      BY <1>1 DEF Promote, RoleStep, Runs, MayPromote
    <2>. QED
      BY <1>1, <2>1, RoleGrantStep DEF Promote, RoleStep, Role
  <1>2. CASE Return(d) /\ UNCHANGED role
    BY <1>2, RoleRefusalStep DEF Promote, RoleStep
  <1>. QED
    BY <1>1, <1>2 DEF Promote, RoleStep

LEMMA DemoteStep ==
    ASSUME IInv, NEW d \in Dispatcher, Demote(d)
    PROVE  IInv'
  <1>1. CASE MayDemote(d) /\ Goto(d, "demote_tell")
             /\ role' = [role EXCEPT ![peers[th[d].room][th[d].who]] = "viewer"]
    <2>1. th[d].at = "demote" /\ th[d].who \in Members(th[d].room)
      BY <1>1 DEF Demote, RoleStep, Runs, MayDemote, Streamers
    <2>. QED
      BY <1>1, <2>1, RoleGrantStep DEF Demote, RoleStep, Role
  <1>2. CASE Return(d) /\ UNCHANGED role
    BY <1>2, RoleRefusalStep DEF Demote, RoleStep
  <1>. QED
    BY <1>1, <1>2 DEF Demote, RoleStep

LEMMA RoleTellStep ==
    ASSUME IInv, NEW d \in Dispatcher, PromoteTell(d) \/ DemoteTell(d)
    PROVE  IInv'
  BY RoleRefusalStep DEF PromoteTell, DemoteTell, RoleTell

-----------------------------------------------------------------------------
(* RegisterLocal and stop *)

LEMMA RegSharedStep ==
    ASSUME IInv, NEW l \in Loop, RegShared(l)
    PROVE  IInv'
  <1>1. SideTypes' /\ UNCHANGED roomState
    BY InvariantParts DEF SideTypes, RegShared, localVars, roomState, roomVars, peerVars
  <1>. QED
    BY <1>1, GotoStep, ThreadKinds DEF RegShared

\* The critical section of RegisterLocal, however it ends.
LEMMA EvictStep ==
    ASSUME IInv, NEW l \in Loop, th[l].at = "reg_lock", Evict(th[l].room),
           UNCHANGED <<roomVars, peerVars, role, lost, localExpected, tap>>,
           locals' \in [RoomId -> LocalId \cup {NoId}],
           wedged' \in [RoomId -> BOOLEAN],
           nLocals' \in 0..MaxLocals,
           lroom' \in [LocalId -> RoomId],
           stopped' \in [LocalId -> BOOLEAN],
           NEW g \in Frame, FrameFits(g),
           th' = [CloseSpawns(peers[th[l].room][LocalNick]) EXCEPT ![l] = g]
    PROVE  IInv'
  <1>1. l \in Thread
    BY ThreadKinds
  <1>2. th[l] \in Frame /\ FrameFits(th[l])
    BY <1>1 DEF IInv, TypeOK, FramesFit
  <1>3. PICK r \in RoomId : r = th[l].room
    BY <1>2 DEF FrameFits, IInv, TypeOK, RoomId
  <1>4. PICK p \in PeerId \cup {NoId} : p = peers[r][LocalNick]
    BY <1>3 DEF IInv, TypeOK
  <1>5. RoomsFit' /\ RoomTypes'
    <2>1. /\ peers' = [peers EXCEPT ![r][LocalNick] = NoId]
          /\ UNCHANGED <<registry, roomChan, nRooms, nPeers, pnick, proom>>
          /\ role' = role
      BY <1>3 DEF Evict, roomVars, peerVars
    <2>2. RoomsFit /\ TypeOK
      BY InvariantParts DEF IInv
    <2>3. RoomsFit' /\ peers' \in [RoomId -> [Nick -> PeerId \cup {NoId}]]
                   /\ role' \in [PeerId -> Role]
      BY <2>1, <2>2, RoomsShrunk
    <2>. QED
      BY <2>1, <2>3, InvariantParts DEF RoomTypes
  <1>6. SideTypes'
    <2>1. pc' \in [PeerId -> {"bare", "hooked", "closed"}]
      BY <1>3, <1>4, CloseFits DEF Evict, IInv
    <2>. QED
      BY <2>1, InvariantParts DEF SideTypes
  <1>7. th' \in [Thread -> Frame] /\ FramesFit'
    BY <1>1, <1>3, <1>4, ClosingFrames DEF roomVars
  <1>. QED
    BY <1>5, <1>6, <1>7, InvariantParts

LEMMA RegLockFrame ==
    ASSUME IInv, NEW l \in Loop, Runs(l, "reg_lock")
    PROVE  /\ th[l].at = "reg_lock" /\ th[l] \in Frame /\ FrameFits(th[l])
           /\ th[l].room \in RoomId
           /\ LET k == CloseSpawns(peers[th[l].room][LocalNick])
              IN  k = [u \in Thread |-> k[u]] /\ k[l] = th[l] /\ l \in Thread
  <1>1. th[l].at = "reg_lock" /\ th[l] \in Frame /\ FrameFits(th[l]) /\ l \in Thread
    BY ThreadKinds DEF Runs, IInv, TypeOK, FramesFit
  <1>2. th[l].room \in RoomId
    BY <1>1 DEF FrameFits, IInv, TypeOK, RoomId
  <1>3. peers[th[l].room][LocalNick] \in PeerId \cup {NoId}
    BY <1>2 DEF IInv, TypeOK
  <1>. QED
    BY <1>1, <1>2, <1>3, CloseFits DEF IInv

LEMMA RegWedgeStep ==
    ASSUME IInv, NEW l \in Loop, RegWedge(l)
    PROVE  IInv'
  <1>1. Runs(l, "reg_lock")
    BY DEF RegWedge
  <1>2. PICK k : k = CloseSpawns(peers[th[l].room][LocalNick])
    OBVIOUS
  <1>3. /\ th[l] \in Frame /\ FrameFits(th[l]) /\ th[l].at = "reg_lock"
        /\ k = [u \in Thread |-> k[u]] /\ k[l] = th[l] /\ l \in Thread
    BY <1>1, <1>2, RegLockFrame
  <1>4. PICK g : g = [th[l] EXCEPT !.at = "stuck"]
    OBVIOUS
  <1>5. g \in Frame /\ FrameFits(g)
    BY <1>3, <1>4 DEF Frame, FrameFits, Label
  <1>6. th' = [k EXCEPT ![l] = g]
    <2>1. th' = [k EXCEPT ![l].at = "stuck"]
      BY <1>2 DEF RegWedge
    <2>. QED
      BY <2>1, <1>3, <1>4
  <1>7. /\ locals' \in [RoomId -> LocalId \cup {NoId}]
        /\ wedged' \in [RoomId -> BOOLEAN]
        /\ nLocals' \in 0..MaxLocals
        /\ lroom' \in [LocalId -> RoomId]
        /\ stopped' \in [LocalId -> BOOLEAN]
    BY DEF RegWedge, IInv, TypeOK
  <1>. QED
    BY <1>2, <1>3, <1>5, <1>6, <1>7, EvictStep DEF RegWedge

LEMMA RegTrackFailsStep ==
    ASSUME IInv, NEW l \in Loop, RegTrackFails(l)
    PROVE  IInv'
  <1>1. th[l].at = "reg_lock"
    BY DEF RegTrackFails, Runs
  <1>2. /\ locals' \in [RoomId -> LocalId \cup {NoId}]
        /\ wedged' \in [RoomId -> BOOLEAN]
        /\ nLocals' \in 0..MaxLocals
        /\ lroom' \in [LocalId -> RoomId]
        /\ stopped' \in [LocalId -> BOOLEAN]
    BY DEF RegTrackFails, IInv, TypeOK, localVars
  <1>. QED
    BY <1>1, <1>2, IdleFits, EvictStep DEF RegTrackFails, localVars

LEMMA RegInsertStep ==
    ASSUME IInv, NEW l \in Loop, RegInsert(l)
    PROVE  IInv'
  <1>1. Runs(l, "reg_lock")
    BY DEF RegInsert
  <1>2. PICK k : k = CloseSpawns(peers[th[l].room][LocalNick])
    OBVIOUS
  <1>3. /\ th[l] \in Frame /\ FrameFits(th[l]) /\ th[l].at = "reg_lock"
        /\ th[l].room \in RoomId
        /\ k = [u \in Thread |-> k[u]] /\ k[l] = th[l] /\ l \in Thread
    BY <1>1, <1>2, RegLockFrame
  <1>4. nLocals + 1 \in LocalId /\ nLocals + 1 \in Nat
    BY DEF RegInsert, IInv, TypeOK, LocalId
  <1>5. PICK g : g = [th[l] EXCEPT !.at = "reg_tell", !.peer = nLocals + 1]
    OBVIOUS
  <1>6. g \in Frame /\ FrameFits(g)
    <2>1. /\ g \in Frame /\ g.at = "reg_tell" /\ g.peer = nLocals + 1
          /\ g.nick = th[l].nick
      BY <1>3, <1>4, <1>5 DEF Frame, Label
    <2>2. g.nick \in Nick
      BY <1>3, <2>1 DEF FrameFits
    <2>. QED
      BY <1>4, <2>1, <2>2 DEF FrameFits
  <1>7. th' = [k EXCEPT ![l] = g]
    <2>1. th' = [k EXCEPT ![l].at = "reg_tell", ![l].peer = nLocals + 1]
      BY <1>2 DEF RegInsert
    <2>. QED
      BY <2>1, <1>3, <1>5
  <1>8. /\ locals' \in [RoomId -> LocalId \cup {NoId}]
        /\ wedged' \in [RoomId -> BOOLEAN]
        /\ nLocals' \in 0..MaxLocals
        /\ lroom' \in [LocalId -> RoomId]
        /\ stopped' \in [LocalId -> BOOLEAN]
    BY <1>3, <1>4 DEF RegInsert, IInv, TypeOK
  <1>. QED
    BY <1>2, <1>3, <1>6, <1>7, <1>8, EvictStep DEF RegInsert

LEMMA RegTellStep ==
    ASSUME IInv, NEW l \in Loop, RegTell(l)
    PROVE  IInv'
  <1>1. th[l].peer \in LocalId
    BY ThreadKinds DEF RegTell, Runs, IInv, FramesFit, FrameFits
  <1>2. SideTypes' /\ UNCHANGED roomState
    BY <1>1, InvariantParts DEF SideTypes, RegTell, roomState, roomVars, peerVars
  <1>. QED
    BY <1>2, GotoStep, ThreadKinds DEF RegTell

LEMMA StopEnterStep ==
    ASSUME IInv, NEW l \in Loop, StopEnter(l)
    PROVE  IInv'
  <1>1. l \in Thread
    BY ThreadKinds
  <1>2. UNCHANGED roomState
    BY DEF StopEnter, roomState, roomVars, peerVars
  <1>3. CASE tap = NoId \/ stopped[tap]
    <2>1. th' = [th EXCEPT ![l] = Idle] /\ SideTypes'
      BY <1>3, InvariantParts DEF StopEnter, SideTypes
    <2>. QED
      BY <1>1, <1>2, <2>1, IdleFits, QuietStep
  <1>4. CASE ~(tap = NoId \/ stopped[tap])
    <2>1. tap \in LocalId /\ lroom[tap] \in RoomId
      BY <1>4 DEF IInv, TypeOK
    <2>2. stopped' \in [LocalId -> BOOLEAN]
      BY <1>4 DEF StopEnter, IInv, TypeOK
    <2>3. SideTypes'
      BY <2>2, InvariantParts DEF StopEnter, SideTypes
    <2>4. PICK g : g = [Handler("stop_lock", LocalNick, LocalChan) EXCEPT
                          !.room = lroom[tap], !.peer = tap]
      OBVIOUS
    <2>5. tap \in Nat
      BY <2>1 DEF LocalId
    <2>6. g \in Frame /\ g.at = "stop_lock" /\ g.room \in RoomId /\ g.todo = {}
      BY <2>1, <2>4, <2>5 DEF Handler, Idle, Frame, Label
    <2>7. FrameFits(g)
      BY <2>6 DEF FrameFits
    <2>8. th' = [th EXCEPT ![l] = g]
      BY <1>4, <2>4 DEF StopEnter
    <2>. QED
      BY <1>1, <1>2, <2>3, <2>6, <2>7, <2>8, QuietStep
  <1>. QED
    BY <1>3, <1>4

LEMMA StopRemoveStep ==
    ASSUME IInv, NEW l \in Loop, StopRemove(l)
    PROVE  IInv'
  <1>1. locals' \in [RoomId -> LocalId \cup {NoId}]
    BY DEF StopRemove, IInv, TypeOK
  <1>2. SideTypes' /\ UNCHANGED roomState
    BY <1>1, InvariantParts DEF SideTypes, StopRemove, roomState, roomVars, peerVars
  <1>. QED
    BY <1>2, GotoStep, ThreadKinds DEF StopRemove

LEMMA StopTellStep ==
    ASSUME IInv, NEW l \in Loop, StopTell(l)
    PROVE  IInv'
  <1>1. SideTypes' /\ UNCHANGED roomState
    BY InvariantParts DEF SideTypes, StopTell, roomState, roomVars, peerVars
  <1>. QED
    BY <1>1, GotoStep, ThreadKinds DEF StopTell

LEMMA StopReapStep ==
    ASSUME IInv, NEW l \in Loop, StopReap(l)
    PROVE  IInv'
  BY ReapStep, ThreadKinds DEF StopReap, peerVars

-----------------------------------------------------------------------------

LEMMA InitFits == Init => IInv
  <1>. SUFFICES ASSUME Init PROVE IInv
    OBVIOUS
  <1>1. TypeOK
    <2>1. 0 \in 0..MaxRooms /\ 0 \in 0..MaxPeers /\ 0 \in 0..MaxLocals /\ 1 \in RoomId
      BY DEF RoomId
    <2>. QED
      BY <2>1, IdleFits DEF Init, TypeOK, Role
  <1>2. PeersFit
    BY DEF Init, PeersFit
  <1>3. FramesFit
    BY IdleFits DEF Init, FramesFit
  <1>4. \A r \in RoomId : Members(r) = {} /\ Streamers(r) = {}
    BY DEF Init, Members, Streamers
  <1>5. StreamerCap /\ RoomCap /\ VoiceRoomsPublish
    BY <1>4, FS_EmptySet DEF StreamerCap, RoomCap, VoiceRoomsPublish
  <1>. QED
    BY <1>1, <1>2, <1>3, <1>5 DEF IInv

\* Each step of each goroutine, and of the library, keeps the invariant.
LEMMA StepFits == IInv /\ [Next]_vars => IInv'
  <1>. SUFFICES ASSUME IInv, [Next]_vars PROVE IInv'
    OBVIOUS
  <1>1. ASSUME NEW d \in Dispatcher, Request(d) PROVE IInv'
    <2>1. ASSUME NEW n \in Nick, NEW c \in Chan, NEW w \in Nick,
                 PromoteEnter(d, n, c, w) \/ DemoteEnter(d, n, c, w)
          PROVE  IInv'
      BY <2>1, RoleRequestStep DEF PromoteEnter, DemoteEnter
    <2>. QED
      BY <1>1, <2>1, JoinEnterStep, LeaveEnterStep, QuitEnterStep DEF Request
  <1>2. ASSUME NEW d \in Dispatcher, Dispatch(d) PROVE IInv'
    BY <1>2, JoinRoomFullStep, JoinAllocFailsStep, JoinInsertStep, JoinTellStep,
       PromoteStep, DemoteStep, RoleTellStep DEF Dispatch
  <1>3. ASSUME NEW t \in Dispatcher \cup Callback, Leave(t) PROVE IInv'
    BY <1>3, LeaveLookupStep, LeaveAbsentStep, LeaveRemoveStep, LeaveTellStep,
       LeaveReapStep DEF Leave
  <1>4. ASSUME NEW l \in Loop, Local(l) PROVE IInv'
    BY <1>4, RegEnterStep, RegSharedStep, RegWedgeStep, RegTrackFailsStep,
       RegInsertStep, RegTellStep, StopEnterStep, StopRemoveStep, StopTellStep,
       StopReapStep DEF Local
  <1>5. CASE UNCHANGED vars
    BY <1>5 DEF vars, IInv, TypeOK, PeersFit, FramesFit, FrameFits, StreamerCap, RoomCap,
       VoiceRoomsPublish, Members, Streamers, IsStream
  <1>. QED
    BY <1>1, <1>2, <1>3, <1>4, <1>5, PCLostStep DEF Next

\* IInv holds in every state the goroutines can reach.
THEOREM Invariance == Spec => []IInv
  BY InitFits, StepFits, PTL DEF Spec

\* Types, for any number of nicks, channels, connections and loops.
THEOREM Typed == Spec => []TypeOK
  <1>1. IInv => TypeOK
    BY DEF IInv
  <1>. QED
    BY <1>1, Invariance, PTL

\* A $-room never has more than streamMaxStreamers streamers, however the
\* handlers of voice.go interleave.
THEOREM StreamersBounded == Spec => []StreamerCap
  <1>1. IInv => StreamerCap
    BY DEF IInv
  <1>. QED
    BY <1>1, Invariance, PTL

\* A room never has more members than cfg.MaxRoomSize.
THEOREM MembersBounded == Spec => []RoomCap
  <1>1. IInv => RoomCap
    BY DEF IInv
  <1>. QED
    BY <1>1, Invariance, PTL

\* In a ^-room every member publishes.
THEOREM VoiceRoomsHaveNoViewers == Spec => []VoiceRoomsPublish
  <1>1. IInv => VoiceRoomsPublish
    BY DEF IInv
  <1>. QED
    BY <1>1, Invariance, PTL

-----------------------------------------------------------------------------
(* What a step does to the members of the rooms and their roles: the five  *)
(* ways voice.go changes room.peers or peer.role.                          *)

\* handleJoin inserts a peer object nobody has seen.
Admits == \E r \in RoomId, n \in Nick, ro \in Role :
    /\ nPeers + 1 \in PeerId
    /\ peers' = [peers EXCEPT ![r][n] = nPeers + 1]
    /\ role' = [role EXCEPT ![nPeers + 1] = ro]

\* handleLeave removes a member and promotes its heir.
Removes == \E r \in RoomId, n \in Nick :
    /\ n \in Members(r)
    /\ peers' = [peers EXCEPT ![r][n] = NoId]
    /\ role' = Promoted(r, Heir(r, n))

\* handlePromote makes a member a streamer.
Raises == \E r \in RoomId, w \in Nick :
    /\ w \in Members(r)
    /\ peers' = peers
    /\ role' = [role EXCEPT ![peers[r][w]] = "streamer"]

\* handleDemote takes the role at the request of the member or of the host.
Lowers == \E d \in Dispatcher :
    LET r == th[d].room
    IN  /\ r \in RoomId
        /\ th[d].at = "demote"
        /\ th[d].who \in Streamers(r)
        /\ th[d].nick \in {th[d].who, Oldest(r, Streamers(r))}
        /\ peers' = peers
        /\ role' = [role EXCEPT ![peers[r][th[d].who]] = "viewer"]

\* RegisterLocal drops the PeerConnection-backed peer of its nick.
Drops == \E l \in Loop, r \in RoomId :
    /\ th[l].at = "reg_lock"
    /\ peers' = [peers EXCEPT ![r][LocalNick] = NoId]
    /\ role' = role

\* Every step is one of the five or leaves members and roles alone.
LEMMA RoomChanges ==
    ASSUME IInv, [Next]_vars
    PROVE  UNCHANGED <<peers, role>> \/ Admits \/ Removes \/ Raises \/ Lowers \/ Drops
  <1>0. /\ \A t \in Thread : th[t].at \in {"join_lock", "leave_lock", "promote", "demote", "reg_lock"}
               => th[t].room \in RoomId /\ th[t].nick \in Nick
        /\ \A d \in Dispatcher : d \in Thread
        /\ \A d \in Loop : d \in Thread
        /\ \A d \in Callback : d \in Thread
    <2>1. nRooms \in Nat /\ nRooms <= MaxRooms
      BY DEF IInv, TypeOK
    <2>2. \A t \in Thread : FrameFits(th[t])
      BY DEF IInv, FramesFit
    <2>. QED
      BY <2>1, <2>2, ThreadKinds DEF FrameFits, RoomId, Thread
  <1>1. ASSUME NEW d \in Dispatcher, Request(d) PROVE UNCHANGED <<peers, role>>
    BY <1>1 DEF Request, JoinEnter, LeaveEnter, QuitEnter, PromoteEnter, DemoteEnter,
       RoleRequest
  <1>2. ASSUME NEW d \in Dispatcher, JoinInsert(d) PROVE Admits
    <2>1. th[d].room \in RoomId /\ th[d].nick \in Nick
      BY <1>0, <1>2 DEF JoinInsert, Runs
    <2>2. nPeers + 1 \in PeerId
      <3>1. nPeers < MaxPeers
        BY <1>2 DEF JoinInsert
      <3>2. nPeers \in Nat
        BY DEF IInv, TypeOK
      <3>. QED
        BY <3>1, <3>2 DEF PeerId
    <2>3. JoinRole(th[d].room) \in Role
      BY DEF JoinRole, Role
    <2>4. /\ peers' = [peers EXCEPT ![th[d].room][th[d].nick] = nPeers + 1]
          /\ role' = [role EXCEPT ![nPeers + 1] = JoinRole(th[d].room)]
      BY <1>2 DEF JoinInsert
    <2>. QED
      BY <2>1, <2>2, <2>3, <2>4 DEF Admits
  <1>3. ASSUME NEW d \in Dispatcher, Promote(d) PROVE UNCHANGED <<peers, role>> \/ Raises
    <2>1. th[d].room \in RoomId
      BY <1>0, <1>3 DEF Promote, RoleStep, Runs
    <2>2. th[d].who \in Members(th[d].room) \/ UNCHANGED role
      BY <1>3 DEF Promote, RoleStep, MayPromote
    <2>3. /\ peers' = peers
          /\ \/ UNCHANGED role
             \/ role' = [role EXCEPT ![peers[th[d].room][th[d].who]] = "streamer"]
      BY <1>3 DEF Promote, RoleStep
    <2>4. th[d].who \in Members(th[d].room) => th[d].who \in Nick
      BY DEF Members
    <2>. QED
      BY <2>1, <2>2, <2>3, <2>4 DEF Raises
  <1>4. ASSUME NEW d \in Dispatcher, Demote(d) PROVE UNCHANGED <<peers, role>> \/ Lowers
    <2>1. th[d].room \in RoomId /\ th[d].at = "demote"
      BY <1>0, <1>4 DEF Demote, RoleStep, Runs
    <2>2. MayDemote(d) \/ UNCHANGED role
      BY <1>4 DEF Demote, RoleStep
    <2>3. /\ peers' = peers
          /\ \/ UNCHANGED role
             \/ role' = [role EXCEPT ![peers[th[d].room][th[d].who]] = "viewer"]
      BY <1>4 DEF Demote, RoleStep
    <2>4. MayDemote(d) => /\ th[d].who \in Streamers(th[d].room)
                          /\ th[d].nick \in {th[d].who,
                                             Oldest(th[d].room, Streamers(th[d].room))}
      BY DEF MayDemote
    <2>. QED
      BY <2>1, <2>2, <2>3, <2>4 DEF Lowers
  <1>5. ASSUME NEW d \in Dispatcher, Dispatch(d)
        PROVE  UNCHANGED <<peers, role>> \/ Admits \/ Raises \/ Lowers
    <2>1. JoinRoomFull(d) \/ JoinAllocFails(d) \/ JoinTell(d) \/ PromoteTell(d) \/ DemoteTell(d)
          => UNCHANGED <<peers, role>>
      BY DEF JoinRoomFull, JoinAllocFails, JoinTell, PromoteTell, DemoteTell, RoleTell
    <2>. QED
      BY <1>5, <2>1, <1>2, <1>3, <1>4 DEF Dispatch
  <1>6. ASSUME NEW t \in Dispatcher \cup Callback, Leave(t)
        PROVE  UNCHANGED <<peers, role>> \/ Removes
    <2>1. LeaveLookup(t) \/ LeaveAbsent(t) \/ LeaveTell(t) \/ LeaveReap(t)
          => UNCHANGED <<peers, role>>
      BY DEF LeaveLookup, LeaveAbsent, LeaveTell, LeaveReap
    <2>2. ASSUME LeaveRemove(t) PROVE Removes
      <3>1. th[t].room \in RoomId /\ th[t].nick \in Nick
        BY <1>0, <2>2 DEF LeaveRemove, Runs
      <3>2. /\ th[t].nick \in Members(th[t].room)
            /\ peers' = [peers EXCEPT ![th[t].room][th[t].nick] = NoId]
            /\ role' = Promoted(th[t].room, Heir(th[t].room, th[t].nick))
        BY <2>2 DEF LeaveRemove
      <3>. QED
        BY <3>1, <3>2 DEF Removes
    <2>. QED
      BY <1>6, <2>1, <2>2 DEF Leave
  <1>7. ASSUME NEW l \in Loop, Local(l) PROVE UNCHANGED <<peers, role>> \/ Drops
    <2>1. RegEnter(l) \/ RegShared(l) \/ RegTell(l) \/ StopEnter(l) \/ StopRemove(l)
            \/ StopTell(l) \/ StopReap(l)
          => UNCHANGED <<peers, role>>
      BY DEF RegEnter, RegShared, RegTell, StopEnter, StopRemove, StopTell, StopReap
    <2>2. ASSUME RegWedge(l) \/ RegTrackFails(l) \/ RegInsert(l) PROVE Drops
      <3>1. th[l].at = "reg_lock"
        BY <2>2 DEF RegWedge, RegTrackFails, RegInsert, Runs
      <3>2. th[l].room \in RoomId
        BY <1>0, <3>1
      <3>3. peers' = [peers EXCEPT ![th[l].room][LocalNick] = NoId] /\ role' = role
        BY <2>2 DEF RegWedge, RegTrackFails, RegInsert, Evict
      <3>. QED
        BY <3>1, <3>2, <3>3 DEF Drops
    <2>. QED
      BY <1>7, <2>1, <2>2 DEF Local
  <1>8. ASSUME NEW p \in PeerId, PCLost(p) PROVE UNCHANGED <<peers, role>>
    BY <1>8 DEF PCLost
  <1>9. CASE UNCHANGED vars
    BY <1>9 DEF vars
  <1>. QED
    BY <1>1, <1>5, <1>6, <1>7, <1>8, <1>9 DEF Next

\* A member's peer object exists, and no two members share one.
LEMMA PeersDistinct ==
    ASSUME IInv, NEW r \in RoomId, NEW n \in Members(r),
           NEW s \in RoomId, NEW m \in Members(s)
    PROVE  /\ peers[r][n] \in PeerId
           /\ peers[r][n] # nPeers + 1
           /\ peers[r][n] = peers[s][m] => r = s /\ n = m
  <1>1. n \in Nick /\ m \in Nick /\ peers[r][n] # NoId /\ peers[s][m] # NoId
    BY DEF Members
  <1>2. peers[r][n] \in PeerId /\ nPeers \in Nat
    BY <1>1 DEF IInv, TypeOK
  <1>3. peers[r][n] <= nPeers
    BY <1>1 DEF IInv, PeersFit
  <1>4. /\ pnick[peers[r][n]] = n /\ proom[peers[r][n]] = r
        /\ pnick[peers[s][m]] = m /\ proom[peers[s][m]] = s
    BY <1>1 DEF IInv, PeersFit
  <1>5. peers[r][n] # nPeers + 1
    BY <1>2, <1>3 DEF PeerId
  <1>. QED
    BY <1>2, <1>4, <1>5

\* A streamer that stays loses the role only to handleDemote.
LEMMA DemotedByRequest ==
    ASSUME IInv, [Next]_vars, NEW r \in RoomId, NEW n \in Streamers(r),
           peers'[r][n] = peers[r][n], role'[peers[r][n]] = "viewer"
    PROVE  \E d \in Dispatcher :
               /\ th[d].at = "demote" /\ th[d].room = r /\ th[d].who = n
               /\ th[d].nick \in {n, Oldest(r, Streamers(r))}
  <1>1. n \in Members(r) /\ role[peers[r][n]] = "streamer"
    BY DEF Streamers
  <1>2. peers[r][n] \in PeerId /\ peers[r][n] # nPeers + 1
    BY <1>1, PeersDistinct
  <1>3. role \in [PeerId -> Role] /\ role'[peers[r][n]] # "streamer"
    BY DEF IInv, TypeOK
  <1>4. ~UNCHANGED <<peers, role>>
    BY <1>1
  <1>5. ~Admits
    BY <1>1, <1>2, <1>3 DEF Admits
  <1>6. ~Removes
    BY <1>1, <1>2, <1>3 DEF Removes, Promoted
  <1>7. ~Raises
    BY <1>1, <1>2, <1>3 DEF Raises
  <1>8. ~Drops
    BY <1>1 DEF Drops
  <1>9. Lowers
    BY <1>4, <1>5, <1>6, <1>7, <1>8, RoomChanges
  <1>10. PICK d \in Dispatcher :
            /\ th[d].room \in RoomId
            /\ th[d].at = "demote"
            /\ th[d].who \in Streamers(th[d].room)
            /\ th[d].nick \in {th[d].who, Oldest(th[d].room, Streamers(th[d].room))}
            /\ role' = [role EXCEPT ![peers[th[d].room][th[d].who]] = "viewer"]
    BY <1>9 DEF Lowers
  <1>11. peers[r][n] = peers[th[d].room][th[d].who]
    BY <1>1, <1>2, <1>3, <1>10
  <1>12. th[d].who \in Members(th[d].room)
    BY <1>10 DEF Streamers
  <1>13. r = th[d].room /\ n = th[d].who
    BY <1>1, <1>10, <1>11, <1>12, PeersDistinct
  <1>. QED
    BY <1>10, <1>13

\* The members of a room after a step.
Staying(r) == {n \in Nick : peers'[r][n] # NoId}

\* Only handleLeave takes the last streamer of a room from the others, and it
\* makes the one of them that joined first the streamer.
LEMMA OldestSucceeds ==
    ASSUME IInv, [Next]_vars, NEW r \in RoomId, IsStream(r), Streamers(r) # {},
           Staying(r) # {}, Streamers(r) \cap Staying(r) = {},
           ~(Streamers(r) = {LocalNick} /\ \E l \in Loop : th[l].at = "reg_lock")
    PROVE  {n \in Staying(r) : role'[peers'[r][n]] = "streamer"} = {Oldest(r, Staying(r))}
  <1>0. PICK s \in Streamers(r) : TRUE
    OBVIOUS
  <1>1. s \in Nick /\ peers[r][s] # NoId /\ peers'[r][s] = NoId
    BY <1>0 DEF Staying, Streamers, Members
  <1>2. peers \in [RoomId -> [Nick -> PeerId \cup {NoId}]] /\ nPeers \in Nat
    BY DEF IInv, TypeOK
  <1>3. peers' # peers
    BY <1>1
  <1>4. ~Admits
    BY <1>1, <1>2 DEF Admits
  <1>5. ~Drops
    <2>1. SUFFICES ASSUME NEW l \in Loop, NEW q \in RoomId, th[l].at = "reg_lock",
                          peers' = [peers EXCEPT ![q][LocalNick] = NoId]
                   PROVE  FALSE
      BY DEF Drops
    <2>2. \A n \in Nick \ {LocalNick} : peers'[r][n] = peers[r][n]
      BY <1>2, <2>1
    <2>3. Streamers(r) \subseteq {LocalNick}
      BY <2>2 DEF Staying, Streamers, Members
    <2>. QED
      BY <2>1, <2>3
  <1>6. ~Raises /\ ~Lowers
    BY <1>3 DEF Raises, Lowers
  <1>7. Removes
    BY <1>3, <1>4, <1>5, <1>6, RoomChanges
  <1>8. PICK q \in RoomId, m \in Nick :
            /\ m \in Members(q)
            /\ peers' = [peers EXCEPT ![q][m] = NoId]
            /\ role' = Promoted(q, Heir(q, m))
    BY <1>7 DEF Removes
  <1>9. q = r /\ m = s
    BY <1>1, <1>2, <1>8
  <1>10. \A n \in Nick : peers'[r][n] = IF n = s THEN NoId ELSE peers[r][n]
    BY <1>2, <1>8, <1>9
  <1>11. Staying(r) = Members(r) \ {s}
    BY <1>10, <1>1 DEF Staying, Members
  <1>12. Streamers(r) = {s}
    BY <1>0, <1>11 DEF Streamers
  <1>13. Heir(r, s) = Oldest(r, Staying(r))
    BY <1>11, <1>12 DEF Heir
  <1>14. Oldest(r, Staying(r)) \in Staying(r)
    BY OldestExists DEF IInv, Staying
  <1>15. Oldest(r, Staying(r)) # None
    BY <1>14 DEF Staying
  <1>16. role' = [role EXCEPT ![peers[r][Oldest(r, Staying(r))]] = "streamer"]
    BY <1>8, <1>9, <1>13, <1>15 DEF Promoted
  <1>17. ASSUME NEW n \in Staying(r)
         PROVE  role'[peers'[r][n]] = "streamer" <=> n = Oldest(r, Staying(r))
    <2>1. n \in Members(r) /\ n # s /\ Oldest(r, Staying(r)) \in Members(r)
      BY <1>11, <1>14
    <2>2. peers[r][n] \in PeerId /\ peers'[r][n] = peers[r][n]
      BY <2>1, <1>10, PeersDistinct DEF Members
    <2>3. role[peers[r][n]] # "streamer"
      BY <2>1, <1>12 DEF Streamers
    <2>4. peers[r][n] = peers[r][Oldest(r, Staying(r))] => n = Oldest(r, Staying(r))
      BY <2>1, PeersDistinct
    <2>5. role \in [PeerId -> Role]
      BY DEF IInv, TypeOK
    <2>. QED
      BY <2>2, <2>3, <2>4, <2>5, <1>16
  <1>. QED
    BY <1>14, <1>17

\* A streamer that stays in its room loses the role only by its own request or
\* by one of the host: no join, leave, promotion or local registration, of
\* this room or another, takes it (voice.go, handleDemote).
THEOREM DemotionIsAsked == Spec => OnlySelfOrHostDemotes
  <1>1. ASSUME IInv, [Next]_vars
        PROVE  \A r \in RoomId : \A n \in Streamers(r) :
                   (peers'[r][n] = peers[r][n] /\ role'[peers[r][n]] = "viewer")
                   => \E d \in Dispatcher :
                         /\ th[d].at = "demote" /\ th[d].room = r /\ th[d].who = n
                         /\ th[d].nick \in {n, Oldest(r, Streamers(r))}
    BY <1>1, DemotedByRequest
  <1>. QED
    BY <1>1, Invariance, PTL DEF Spec, OnlySelfOrHostDemotes

\* When the last streamer of a $-room leaves and others stay, the one that
\* joined first is the streamer after the same step, and the only one
\* (voice.go, handleLeave).
THEOREM TenureDecides == Spec => SuccessionByTenure
  <1>1. ASSUME IInv, [Next]_vars
        PROVE  \A r \in RoomId :
                   LET rest == {n \in Nick : peers'[r][n] # NoId}
                   IN  (IsStream(r) /\ Streamers(r) # {} /\ rest # {}
                        /\ Streamers(r) \cap rest = {}
                        /\ ~(Streamers(r) = {LocalNick} /\ \E l \in Loop : th[l].at = "reg_lock"))
                       => {n \in rest : role'[peers'[r][n]] = "streamer"} = {Oldest(r, rest)}
    BY <1>1, OldestSucceeds DEF Staying
  <1>. QED
    BY <1>1, Invariance, PTL DEF Spec, SuccessionByTenure

-----------------------------------------------------------------------------
(* The mutex of a room and the local participant.  prev.stop() under        *)
(* room.mu blocks only on a local peer that has not been stopped; with one  *)
(* runChannel goroutine for the channel such a peer is always the one that  *)
(* goroutine is about to hand to the tap, or that the tap holds.            *)

OneLoop == \A k, l \in Loop : k = l

Owned(r) ==
    locals[r] # NoId /\ ~stopped[locals[r]]
    => \E l \in Loop : \/ th[l].at = "reg_tell" /\ th[l].peer = locals[r]
                       \/ th[l].at = "joined" /\ tap = locals[r]

AllOwned == \A r \in RoomId : Owned(r)
WInv == OneLoop => AllOwned /\ NoRoomWedged

\* Closing a connection wakes a callback, never a loop.
LEMMA ClosingKeepsLoops ==
    ASSUME IInv, NEW p \in PeerId \cup {NoId}
    PROVE  DOMAIN CloseSpawns(p) = Thread /\ \A l \in Loop : CloseSpawns(p)[l] = th[l]
  <1>1. /\ CloseSpawns(p) = [t \in Thread |-> CloseSpawns(p)[t]]
        /\ \A t \in Dispatcher \cup Loop : CloseSpawns(p)[t] = th[t]
    BY CloseFits DEF IInv
  <1> DEFINE K == CloseSpawns(p)
  <1>2. K = [t \in Thread |-> K[t]]
    BY <1>1
  <1> HIDE DEF K
  <1>3. DOMAIN K = Thread
    BY <1>2
  <1>. QED
    BY <1>1, <1>3 DEF K

\* No step of a bridge connection or of a callback touches the local
\* participant or the loops.
LEMMA OthersLeaveLoops ==
    ASSUME IInv,
           \/ \E d \in Dispatcher : Request(d) \/ Dispatch(d)
           \/ \E t \in Dispatcher \cup Callback : Leave(t)
           \/ \E p \in PeerId : PCLost(p)
           \/ UNCHANGED vars
    PROVE  /\ UNCHANGED <<locals, stopped, tap, wedged>>
           /\ \A l \in Loop : th'[l] = th[l]
  <1>0. /\ Loop \cap (Dispatcher \cup Callback) = {} /\ Loop \subseteq Thread
        /\ DOMAIN th = Thread
    BY DEF Thread, IInv, TypeOK
  <1>1. ASSUME NEW t \in Dispatcher \cup Callback, NEW f, th' = [th EXCEPT ![t] = f]
        PROVE  \A l \in Loop : th'[l] = th[l]
    BY <1>0, <1>1
  <1>2. ASSUME NEW t \in Dispatcher \cup Callback, Return(t) \/ \E x : Goto(t, x)
        PROVE  \A l \in Loop : th'[l] = th[l]
    BY <1>0, <1>2 DEF Return, Goto
  <1>3. ASSUME NEW d \in Dispatcher, Request(d)
        PROVE  /\ UNCHANGED <<locals, stopped, tap, wedged>>
               /\ \A l \in Loop : th'[l] = th[l]
    <2>1. UNCHANGED <<locals, stopped, tap, wedged>>
      BY <1>3 DEF Request, JoinEnter, LeaveEnter, QuitEnter, PromoteEnter, DemoteEnter,
         RoleRequest, localVars
    <2>2. \E f : th' = [th EXCEPT ![d] = f]
      BY <1>3 DEF Request, JoinEnter, LeaveEnter, QuitEnter, PromoteEnter, DemoteEnter,
         RoleRequest
    <2>. QED
      BY <2>1, <2>2, <1>1
  <1>4. ASSUME NEW d \in Dispatcher, JoinAllocFails(d) \/ JoinInsert(d)
        PROVE  /\ UNCHANGED <<locals, stopped, tap, wedged>>
               /\ \A l \in Loop : th'[l] = th[l]
    <2>1. th[d].room \in RoomId /\ th[d].nick \in Nick
      <3>1. FrameFits(th[d]) /\ nRooms \in 0..MaxRooms
        BY ThreadKinds DEF IInv, TypeOK, FramesFit
      <3>2. th[d].at = "join_lock"
        BY <1>4 DEF JoinAllocFails, JoinInsert, Runs
      <3>. QED
        BY <3>1, <3>2 DEF FrameFits, RoomId
    <2>2. PICK p : p = peers[th[d].room][th[d].nick]
      OBVIOUS
    <2>3. p \in PeerId \cup {NoId}
      BY <2>1, <2>2 DEF IInv, TypeOK
    <2>4. PICK K : K = CloseSpawns(p)
      OBVIOUS
    <2>5. DOMAIN K = Thread /\ \A l \in Loop : K[l] = th[l]
      BY <2>3, <2>4, ClosingKeepsLoops
    <2>6. \/ th' = [K EXCEPT ![d] = Idle]
          \/ th' = [K EXCEPT ![d].at = "join_tell", ![d].peer = nPeers + 1]
      BY <1>4, <2>2, <2>4 DEF JoinAllocFails, JoinInsert
    <2>7. \A l \in Loop : th'[l] = K[l]
      BY <1>0, <2>5, <2>6
    <2>8. UNCHANGED <<locals, stopped, tap, wedged>>
      BY <1>4 DEF JoinAllocFails, JoinInsert, localVars
    <2>. QED
      BY <2>5, <2>7, <2>8
  <1>5. ASSUME NEW d \in Dispatcher, Dispatch(d)
        PROVE  /\ UNCHANGED <<locals, stopped, tap, wedged>>
               /\ \A l \in Loop : th'[l] = th[l]
    <2>1. ASSUME JoinRoomFull(d) \/ JoinTell(d) \/ Promote(d) \/ PromoteTell(d)
                 \/ Demote(d) \/ DemoteTell(d)
          PROVE  UNCHANGED <<locals, stopped, tap, wedged>> /\ (Return(d) \/ \E x : Goto(d, x))
      BY <2>1 DEF JoinRoomFull, JoinTell, Promote, PromoteTell, Demote, DemoteTell,
         RoleStep, RoleTell, localVars
    <2>. QED
      BY <1>5, <1>2, <1>4, <2>1 DEF Dispatch
  <1>6. ASSUME NEW t \in Dispatcher \cup Callback, LeaveTell(t)
        PROVE  /\ UNCHANGED <<locals, stopped, tap, wedged>>
               /\ \A l \in Loop : th'[l] = th[l]
    <2>1. th[t].peer \in PeerId
      BY <1>6, ThreadKinds DEF LeaveTell, Runs, IInv, FramesFit, FrameFits
    <2>2. PICK K : K = CloseSpawns(th[t].peer)
      OBVIOUS
    <2>3. DOMAIN K = Thread /\ \A l \in Loop : K[l] = th[l]
      BY <2>1, <2>2, ClosingKeepsLoops
    <2>4. th' = [K EXCEPT ![t].at = "leave_reap"] \/ \E f : th' = [K EXCEPT ![t] = f]
      BY <1>6, <2>2 DEF LeaveTell
    <2>5. \A l \in Loop : th'[l] = K[l]
      BY <1>0, <2>3, <2>4
    <2>6. UNCHANGED <<locals, stopped, tap, wedged>>
      BY <1>6 DEF LeaveTell, localVars
    <2>. QED
      BY <2>3, <2>5, <2>6
  <1>7. ASSUME NEW t \in Dispatcher \cup Callback, Leave(t)
        PROVE  /\ UNCHANGED <<locals, stopped, tap, wedged>>
               /\ \A l \in Loop : th'[l] = th[l]
    <2>1. ASSUME LeaveAbsent(t) \/ LeaveReap(t) \/ LeaveLookup(t)
          PROVE  /\ UNCHANGED <<locals, stopped, tap, wedged>>
                 /\ Return(t) \/ \E f : th' = [th EXCEPT ![t] = f]
      BY <2>1 DEF LeaveAbsent, LeaveReap, LeaveLookup, localVars
    <2>2. ASSUME LeaveRemove(t)
          PROVE  /\ UNCHANGED <<locals, stopped, tap, wedged>>
                 /\ \A l \in Loop : th'[l] = th[l]
      <3>1. UNCHANGED <<locals, stopped, tap, wedged>>
        BY <2>2 DEF LeaveRemove, localVars
      <3>2. \E x, y, z : th' = [th EXCEPT ![t].at = "leave_tell", ![t].peer = x,
                                          ![t].who = y, ![t].empty = z]
        BY <2>2 DEF LeaveRemove
      <3>. QED
        BY <3>1, <3>2, <1>0
    <2>. QED
      BY <1>7, <1>1, <1>2, <1>6, <2>1, <2>2 DEF Leave
  <1>8. ASSUME NEW p \in PeerId, PCLost(p)
        PROVE  /\ UNCHANGED <<locals, stopped, tap, wedged>>
               /\ \A l \in Loop : th'[l] = th[l]
    <2>1. <<p, "lost">> \in Callback
      BY DEF Callback
    <2>2. UNCHANGED <<locals, stopped, tap, wedged>>
      BY <1>8 DEF PCLost, localVars
    <2>3. \E f : th' = [th EXCEPT ![<<p, "lost">>] = f]
      BY <1>8 DEF PCLost
    <2>. QED
      BY <2>1, <2>2, <2>3, <1>1
  <1>9. ASSUME UNCHANGED vars
        PROVE  /\ UNCHANGED <<locals, stopped, tap, wedged>>
               /\ \A l \in Loop : th'[l] = th[l]
    BY <1>9 DEF vars
  <1>. QED
    BY <1>3, <1>5, <1>7, <1>8, <1>9

\* What the one loop does to the local participant.
LEMMA LoopKeepsOwned ==
    ASSUME IInv, OneLoop, AllOwned, NoRoomWedged, NEW l \in Loop, Local(l)
    PROVE  AllOwned' /\ NoRoomWedged'
  <1>0. /\ l \in Thread /\ DOMAIN th = Thread /\ \A k \in Loop : k = l
        /\ locals \in [RoomId -> LocalId \cup {NoId}]
        /\ stopped \in [LocalId -> BOOLEAN] /\ nLocals \in Nat /\ tap \in LocalId \cup {NoId}
        /\ th[l] \in Frame
    BY ThreadKinds DEF OneLoop, IInv, TypeOK
  <1>1. ASSUME th[l].at \notin {"reg_tell", "joined"}
        PROVE  \A r \in RoomId : locals[r] # NoId => stopped[locals[r]]
    BY <1>0, <1>1 DEF AllOwned, Owned
  <1>2. \A r \in RoomId : ~wedged[r]
    BY DEF NoRoomWedged
  <1>3. ASSUME RegEnter(l) \/ RegShared(l) \/ RegTrackFails(l) \/ StopTell(l) \/ StopReap(l)
        PROVE  AllOwned' /\ NoRoomWedged'
    <2>1. th[l].at \notin {"reg_tell", "joined"}
      BY <1>3 DEF RegEnter, RegShared, RegTrackFails, StopTell, StopReap, Starts, Runs
    <2>2. UNCHANGED <<locals, stopped, wedged>>
      BY <1>3 DEF RegEnter, RegShared, RegTrackFails, StopTell, StopReap, localVars
    <2>. QED
      BY <1>1, <1>2, <2>1, <2>2 DEF AllOwned, Owned, NoRoomWedged
  <1>4. ASSUME RegWedge(l) PROVE FALSE
    <2>1. th[l].at = "reg_lock"
      BY <1>4 DEF RegWedge, Runs
    <2>2. th[l].room \in RoomId
      <3>1. FrameFits(th[l]) /\ nRooms \in 0..MaxRooms
        BY <1>0 DEF IInv, TypeOK, FramesFit
      <3>. QED
        BY <2>1, <3>1 DEF FrameFits, RoomId
    <2>3. locals[th[l].room] # NoId /\ ~stopped[locals[th[l].room]]
      BY <1>4 DEF RegWedge
    <2>. QED
      BY <1>1, <2>1, <2>2, <2>3
  <1>5. ASSUME RegInsert(l) PROVE AllOwned' /\ NoRoomWedged'
    <2>1. th[l].at = "reg_lock"
      BY <1>5 DEF RegInsert, Runs
    <2>2. th[l].room \in RoomId
      <3>1. FrameFits(th[l]) /\ nRooms \in 0..MaxRooms
        BY <1>0 DEF IInv, TypeOK, FramesFit
      <3>. QED
        BY <2>1, <3>1 DEF FrameFits, RoomId
    <2>3. /\ locals' = [locals EXCEPT ![th[l].room] = nLocals + 1]
          /\ stopped' = stopped /\ wedged' = wedged
      BY <1>5 DEF RegInsert
    <2>4. th'[l].at = "reg_tell" /\ th'[l].peer = nLocals + 1
      <3>1. PICK p : p = peers[th[l].room][LocalNick]
        OBVIOUS
      <3>2. p \in PeerId \cup {NoId}
        BY <2>2, <3>1 DEF IInv, TypeOK
      <3>3. PICK K : K = CloseSpawns(p)
        OBVIOUS
      <3>4. DOMAIN K = Thread /\ K[l] = th[l]
        BY <3>2, <3>3, ClosingKeepsLoops
      <3>5. th' = [K EXCEPT ![l].at = "reg_tell", ![l].peer = nLocals + 1]
        BY <1>5, <3>1, <3>3 DEF RegInsert
      <3>6. DOMAIN K[l] = {"at", "nick", "chan", "room", "peer", "who", "empty", "todo"}
        BY <1>0, <3>4 DEF Frame
      <3>. QED
        BY <1>0, <3>4, <3>5, <3>6
    <2>5. ASSUME NEW r \in RoomId PROVE Owned(r)'
      <3>1. CASE r = th[l].room
        BY <1>0, <2>2, <2>3, <2>4, <3>1 DEF Owned
      <3>2. CASE r # th[l].room
        <4>1. locals'[r] = locals[r]
          BY <1>0, <2>3, <3>2
        <4>. QED
          BY <1>1, <2>1, <2>3, <4>1 DEF Owned
      <3>. QED
        BY <3>1, <3>2
    <2>. QED
      BY <1>2, <2>3, <2>5 DEF AllOwned, NoRoomWedged
  <1>6. ASSUME RegTell(l) PROVE AllOwned' /\ NoRoomWedged'
    <2>1. th[l].at = "reg_tell" /\ tap' = th[l].peer /\ UNCHANGED <<locals, stopped, wedged>>
      BY <1>6 DEF RegTell, Runs
    <2>2. th'[l].at = "joined"
      BY <1>0, <1>6 DEF RegTell, Goto, Frame
    <2>3. ASSUME NEW r \in RoomId, locals[r] # NoId, ~stopped[locals[r]]
          PROVE  th[l].peer = locals[r]
      BY <1>0, <2>1, <2>3 DEF AllOwned, Owned
    <2>. QED
      BY <1>2, <2>1, <2>2, <2>3 DEF AllOwned, Owned, NoRoomWedged
  <1>7. ASSUME StopEnter(l) PROVE AllOwned' /\ NoRoomWedged'
    <2>1. th[l].at = "joined" /\ UNCHANGED <<locals, wedged>>
      BY <1>7 DEF StopEnter, Runs
    <2>2. ASSUME NEW r \in RoomId, locals[r] # NoId, ~stopped[locals[r]]
          PROVE  tap = locals[r]
      BY <1>0, <2>1, <2>2 DEF AllOwned, Owned
    <2>3. \/ (tap = NoId \/ stopped[tap]) /\ stopped' = stopped
          \/ tap # NoId /\ stopped' = [stopped EXCEPT ![tap] = TRUE]
      BY <1>7 DEF StopEnter
    <2>4. ASSUME NEW r \in RoomId, locals[r] # NoId PROVE stopped'[locals[r]]
      BY <1>0, <2>2, <2>3, <2>4
    <2>. QED
      BY <1>2, <2>1, <2>4 DEF AllOwned, Owned, NoRoomWedged
  <1>8. ASSUME StopRemove(l) PROVE AllOwned' /\ NoRoomWedged'
    <2>1. th[l].at = "stop_lock"
      BY <1>8 DEF StopRemove, Runs
    <2>2. /\ locals' = [locals EXCEPT ![th[l].room] = NoId]
          /\ UNCHANGED <<stopped, wedged>>
      BY <1>8 DEF StopRemove
    <2>3. \A r \in RoomId : locals'[r] # NoId => stopped'[locals'[r]]
      BY <1>0, <1>1, <2>1, <2>2
    <2>. QED
      BY <1>2, <2>2, <2>3 DEF AllOwned, Owned, NoRoomWedged
  <1>. QED
    BY <1>3, <1>4, <1>5, <1>6, <1>7, <1>8 DEF Local

\* With one runChannel goroutine for the channel (Orca starts one for every
\* entry of ORCA_VOICE_CHANNELS), no goroutine ever waits for a room.mu it
\* holds: RegisterLocal finds only stopped local peers to replace
\* (voice_local.go).
THEOREM OneLoopNeverWedges == Spec => [](OneLoop => NoRoomWedged)
  <1>1. Init => WInv
    BY DEF Init, WInv, AllOwned, Owned, NoRoomWedged
  <1>2. ASSUME IInv, WInv, [Next]_vars PROVE WInv'
    <2>1. SUFFICES ASSUME OneLoop PROVE AllOwned' /\ NoRoomWedged'
      BY DEF WInv, OneLoop
    <2>2. AllOwned /\ NoRoomWedged
      BY <1>2, <2>1 DEF WInv
    <2>3. ASSUME NEW l \in Loop, Local(l) PROVE AllOwned' /\ NoRoomWedged'
      BY <1>2, <2>1, <2>2, <2>3, LoopKeepsOwned
    <2>4. ASSUME UNCHANGED <<locals, stopped, tap, wedged>>, \A l \in Loop : th'[l] = th[l]
          PROVE  AllOwned' /\ NoRoomWedged'
      BY <2>2, <2>4 DEF AllOwned, Owned, NoRoomWedged
    <2>5. CASE ~\E l \in Loop : Local(l)
      <3>1. \/ \E d \in Dispatcher : Request(d) \/ Dispatch(d)
            \/ \E t \in Dispatcher \cup Callback : Leave(t)
            \/ \E p \in PeerId : PCLost(p)
            \/ UNCHANGED vars
        BY <1>2, <2>5 DEF Next
      <3>2. UNCHANGED <<locals, stopped, tap, wedged>> /\ \A l \in Loop : th'[l] = th[l]
        BY <1>2, <3>1, OthersLeaveLoops
      <3>. QED
        BY <2>4, <3>2
    <2>. QED
      BY <2>3, <2>5
  <1>3. WInv => (OneLoop => NoRoomWedged)
    BY DEF WInv
  <1>. QED
    BY <1>1, <1>2, <1>3, Invariance, PTL DEF Spec
=============================================================================
