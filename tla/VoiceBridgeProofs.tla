-------------------------- MODULE VoiceBridgeProofs --------------------------
(***************************************************************************)
(* Proofs about VoiceBridge for any number of connections and signals: the *)
(* connection that b.conn names is the one the IRC server listens on, and  *)
(* what the manager is handed implements SignalStream.                     *)
(*                                                                         *)
(* LiveIsCurrent is not inductive.  What makes it so is what the epochs    *)
(* are for: a handler's epoch is its own, and b.connEpoch is the epoch of  *)
(* the handler that b.conn belongs to, or of one that has ended; and that  *)
(* an open connection is the last one dialled, so that only the handler of *)
(* an earlier one can find it in place.                                    *)
(***************************************************************************)
EXTENDS VoiceBridge, TLAPS, FiniteSetTheorems

\* The variables the argument is about.
current == <<link, handler, epoch, conn, connEpoch>>

Types ==
  /\ link \in [Conns -> {"none", "open", "closed", "cut"}]
  /\ handler \in [Conns -> {"none", "reading", "done"}]
  /\ epoch \in [Conns -> Nat]
  /\ conn \in Conns \cup {0}
  /\ connEpoch \in Nat

\* A handler runs on a connection that was dialled, under an epoch no other
\* handler has.
EpochsOwn ==
  /\ \A c \in Conns : handler[c] # "none" => link[c] # "none" /\ epoch[c] <= connEpoch
  /\ \A c, d \in Conns : /\ handler[c] # "none" /\ handler[d] # "none"
                         /\ epoch[c] = epoch[d]
                         => c = d

\* b.conn is that of the running handler whose epoch is the last one given.
ConnIsLast ==
  /\ conn # 0 => handler[conn] = "reading" /\ epoch[conn] = connEpoch
  /\ \A c \in Conns : handler[c] = "reading" /\ epoch[c] = connEpoch => conn = c

\* An open connection is the last one dialled; one that was cut was in place.
LastDialled ==
  /\ \A c, d \in Conns : link[c] # "none" /\ d < c => link[d] # "none"
  /\ \A c, d \in Conns : link[c] = "open" /\ link[d] # "none" => d <= c
  /\ \A c \in Conns : link[c] = "cut" => handler[c] # "none"

BInv == Types /\ EpochsOwn /\ ConnIsLast /\ LastDialled /\ LiveIsCurrent

-----------------------------------------------------------------------------

LEMMA CurrentKept ==
  ASSUME BInv, UNCHANGED current
  PROVE  BInv'
  BY DEF BInv, current, Types, EpochsOwn, ConnIsLast, LastDialled, LiveIsCurrent

\* A connection that is dialled has no handler yet.
LEMMA DialKeeps ==
  ASSUME BInv, Dial
  PROVE  BInv'
  <1>1. PICK c \in Conns : /\ link[c] = "none" /\ link' = [link EXCEPT ![c] = "open"]
                           /\ \A d \in Conns : link[d] # "open" /\ (d < c => link[d] # "none")
    BY DEF Dial
  <1>2. UNCHANGED <<handler, epoch, conn, connEpoch>>
    BY DEF Dial
  <1>3. handler[c] = "none"
    BY <1>1 DEF BInv, EpochsOwn
  <1>4. Types'
    BY <1>1, <1>2 DEF BInv, Types
  <1>5. EpochsOwn' /\ ConnIsLast'
    BY <1>1, <1>2 DEF BInv, Types, EpochsOwn, ConnIsLast
  <1>6. LiveIsCurrent'
    BY <1>1, <1>2, <1>3 DEF BInv, Types, LiveIsCurrent
  <1>7. LastDialled'
    <2>1. ASSUME NEW d \in Conns, NEW e \in Conns, link'[d] = "open", link'[e] # "none"
          PROVE  e <= d
      <3>1. d = c
        BY <1>1, <2>1 DEF BInv, Types
      <3>2. e = c \/ link[e] # "none"
        BY <1>1, <2>1 DEF BInv, Types
      <3>. QED
        BY <1>1, <3>1, <3>2 DEF Conns, BInv, LastDialled
    <2>. QED
      BY <1>1, <1>2, <2>1 DEF BInv, Types, LastDialled
  <1>. QED
    BY <1>4, <1>5, <1>6, <1>7 DEF BInv

LEMMA HangupKeeps ==
  ASSUME BInv, NEW c \in Conns, Hangup(c)
  PROVE  BInv'
  BY DEF BInv, Hangup, Types, EpochsOwn, ConnIsLast, LastDialled, LiveIsCurrent

\* The handler that registers closes the connection in place, which is the
\* only one that could be open and have a handler.
LEMMA RegisterKeeps ==
  ASSUME BInv, NEW c \in Conns, Register(c)
  PROVE  BInv'
  <1>1. /\ handler[c] = "none" /\ link[c] # "none"
        /\ handler' = [handler EXCEPT ![c] = "reading"]
        /\ connEpoch' = connEpoch + 1
        /\ epoch' = [epoch EXCEPT ![c] = connEpoch + 1]
        /\ conn' = c
        /\ link' = IF conn = 0 THEN link
                   ELSE [link EXCEPT ![conn] = IF link[conn] = "open" THEN "cut" ELSE link[conn]]
        /\ handler[c] = "none" /\ link[c] # "none"
    BY DEF Register, socket
  <1>2. conn # 0 => conn # c
    BY <1>1 DEF BInv, ConnIsLast
  <1>3. Types'
    BY <1>1 DEF BInv, Types
  <1>4. EpochsOwn'
    <2>1. ASSUME NEW d \in Conns, handler'[d] # "none"
          PROVE  link'[d] # "none" /\ epoch'[d] <= connEpoch'
      BY <1>1, <2>1 DEF BInv, Types, EpochsOwn
    <2>2. ASSUME NEW d \in Conns, NEW e \in Conns,
                 handler'[d] # "none", handler'[e] # "none", epoch'[d] = epoch'[e]
          PROVE  d = e
      BY <1>1, <2>2 DEF BInv, Types, EpochsOwn
    <2>. QED
      BY <2>1, <2>2 DEF EpochsOwn
  <1>5. ConnIsLast'
    <2>1. ASSUME NEW d \in Conns, handler'[d] = "reading", epoch'[d] = connEpoch'
          PROVE  conn' = d
      BY <1>1, <2>1 DEF BInv, Types, EpochsOwn
    <2>2. handler'[c] = "reading" /\ epoch'[c] = connEpoch'
      BY <1>1 DEF BInv, Types
    <2>. QED
      BY <1>1, <2>1, <2>2 DEF ConnIsLast
  <1>7. ASSUME NEW d \in Conns, link'[d] = "cut"
        PROVE  \E e \in 1..(d - 1) : epoch'[e] > epoch'[d]
    <2>1. handler[d] # "none" /\ d # c /\ epoch'[d] = epoch[d] /\ epoch[d] <= connEpoch
      BY <1>1, <1>7 DEF BInv, Types, LastDialled, ConnIsLast, EpochsOwn
    <2>2. CASE link[d] = "cut"
      <3>1. PICK e \in 1..(d - 1) : epoch[e] > epoch[d]
        BY <2>2 DEF BInv, LiveIsCurrent
      <3>2. e \in Conns
        BY <3>1, IdsFresh DEF Conns
      <3>3. epoch'[e] = epoch[e] \/ epoch'[e] = connEpoch + 1
        BY <1>1, <3>2 DEF BInv, Types
      <3>. QED
        BY <2>1, <3>1, <3>2, <3>3 DEF BInv, Types
    <2>3. CASE link[d] # "cut"
      <3>1. d = conn /\ link[d] = "open"
        BY <1>1, <1>7, <2>3 DEF BInv, Types
      <3>2. c \in 1..(d - 1)
        BY <1>1, <2>1, <3>1, IdsFresh DEF BInv, LastDialled, Conns
      <3>3. epoch'[c] = connEpoch + 1
        BY <1>1 DEF BInv, Types
      <3>. QED
        BY <2>1, <3>2, <3>3 DEF BInv, Types
    <2>. QED
      BY <2>2, <2>3
  <1>6. LiveIsCurrent'
    <2>1. ASSUME NEW d \in Conns, link'[d] = "open", handler'[d] = "reading", d # c
          PROVE  FALSE
      <3>1. handler[d] = "reading" /\ link[d] = "open"
        BY <1>1, <2>1 DEF BInv, Types
      <3>2. conn = d
        BY <3>1 DEF BInv, LiveIsCurrent
      <3>. QED
        BY <1>1, <2>1, <3>2 DEF Conns, BInv, Types
    <2>. QED
      BY <1>1, <2>1, <1>7 DEF LiveIsCurrent
  <1>8. LastDialled'
    BY <1>1 DEF BInv, Types, LastDialled, ConnIsLast
  <1>. QED
    BY <1>3, <1>4, <1>5, <1>6, <1>8 DEF BInv

\* A handler that ends gives up b.conn only if it is its own.
LEMMA FinishKeeps ==
  ASSUME BInv, NEW c \in Conns, Finish(c) \/ ScanFails(c)
  PROVE  BInv'
  <1>1. /\ handler[c] = "reading"
        /\ handler' = [handler EXCEPT ![c] = "done"]
        /\ conn' = IF epoch[c] = connEpoch THEN 0 ELSE conn
        /\ UNCHANGED <<epoch, connEpoch>>
        /\ link' = link \/ link' = [link EXCEPT ![c] = IF link[c] = "open" THEN "closed" ELSE link[c]]
        /\ link' = link => link[c] # "open"
    <2>1. CASE Finish(c)
      BY <2>1 DEF Finish, LetGo, StillOurs, socket
    <2>2. CASE ScanFails(c)
      BY <2>2 DEF ScanFails, LetGo, StillOurs, BInv, Types
    <2>. QED
      BY <2>1, <2>2
  <1>0. /\ link'[c] # "open" /\ (link'[c] = "cut" <=> link[c] = "cut")
        /\ (link'[c] = "none" <=> link[c] = "none")
        /\ \A d \in Conns \ {c} : link'[d] = link[d]
    BY <1>1 DEF BInv, Types
  <1>2. epoch[c] = connEpoch <=> conn = c
    BY <1>1 DEF Conns, BInv, Types, ConnIsLast
  <1>3. Types' /\ EpochsOwn'
    BY <1>1 DEF BInv, Types, EpochsOwn
  <1>4. ConnIsLast'
    BY <1>1, <1>2 DEF BInv, Types, ConnIsLast
  <1>5. LiveIsCurrent'
    BY <1>0, <1>1, <1>2 DEF BInv, Types, LiveIsCurrent
  <1>6. LastDialled'
    BY <1>0, <1>1 DEF BInv, Types, LastDialled
  <1>. QED
    BY <1>3, <1>4, <1>5, <1>6 DEF BInv

LEMMA BridgeInit == Init => BInv
  BY DEF Init, BInv, Types, EpochsOwn, ConnIsLast, LastDialled, LiveIsCurrent

LEMMA BridgeStep == BInv /\ [Next]_vars => BInv'
  <1>. SUFFICES ASSUME BInv, [Next]_vars PROVE BInv'
    OBVIOUS
  <1>1. ASSUME NEW s \in Signals, Relay(s) PROVE UNCHANGED current
    BY <1>1 DEF Relay, current
  <1>2. ASSUME NEW c \in Conns, Assemble(c) PROVE UNCHANGED current
    BY <1>2 DEF Assemble, current
  <1>3. ASSUME NEW c \in Conns, Dispatch(c) PROVE UNCHANGED current
    BY <1>3 DEF Dispatch, current
  <1>4. ASSUME NEW o \in Outs, SendPiece(o) PROVE UNCHANGED current
    BY <1>4 DEF SendPiece, current
  <1>5. CASE UNCHANGED vars
    BY <1>5, CurrentKept DEF vars, current
  <1>. QED
    BY <1>1, <1>2, <1>3, <1>4, <1>5, CurrentKept, DialKeeps, HangupKeeps,
       RegisterKeeps, FinishKeeps DEF Next

\* The handler of an open connection is the one b.conn belongs to, for any
\* number of connections and however their handlers overlap; only the handler
\* of an earlier connection, registering late, closes an open one.
THEOREM LiveConnection == Spec => []LiveIsCurrent
  <1>1. BInv => LiveIsCurrent
    BY DEF BInv
  <1>. QED
    BY <1>1, BridgeInit, BridgeStep, PTL DEF Spec

-----------------------------------------------------------------------------
(* The bridge implements SignalStream.  A frame is drawn once, is then on   *)
(* one connection at most, and once read it is never on any again.  So a    *)
(* signal that was assembled, all of whose frames were read, cannot be      *)
(* assembled a second time.                                                 *)

FrameOf(s, i) == [sig |-> s, seq |-> i]
AllSeen(s) == \A i \in 0..(Count(s) - 1) : FrameOf(s, i) \in done

\* The client that has sent nx[s] pieces of each signal s has sent frame f: in
\* its turn, or numbered out of range.
Drawn(f, nx) == \/ f.seq < nx[f.sig]
                \/ f.seq >= Total[f.sig] /\ f.seq - Total[f.sig] < nx[f.sig]

Env == {Whole(s) : s \in Signals}

StreamTypes ==
  /\ link \in [Conns -> {"none", "open", "closed", "cut"}]
  /\ conn \in Conns \cup {0}
  /\ inq \in [Conns -> Seq(Frame)]
  /\ hold \in [Conns -> {<<>>} \cup {<<e>> : e \in Env}]
  /\ next \in [Signals -> Nat]
  /\ \A s \in Signals : next[s] <= Count(s)
  /\ done \subseteq Frame
  /\ delivered \in Seq(Env)

OneOpen == \A c, d \in Conns : link[c] = "open" /\ link[d] = "open" => c = d

FramesOnce ==
  /\ \A f \in done : Drawn(f, next)
  /\ \A c \in Conns : \A i \in 1..Len(inq[c]) :
       Drawn(inq[c][i], next) /\ inq[c][i] \notin done
  /\ \A c, d \in Conns : \A i \in 1..Len(inq[c]), j \in 1..Len(inq[d]) :
       inq[c][i] = inq[d][j] => c = d /\ i = j

\* A buffer of s holds pieces of s that are among those seen, and counts them.
Filled(s, b) == {i \in 0..(Total[s] - 1) : b.parts[i] # Empty}
Fits(s, b, seen) ==
  /\ Total[s] > 0
  /\ b = [parts |-> b.parts, received |-> b.received]
  /\ b.parts = [i \in 0..(Total[s] - 1) |-> b.parts[i]]
  /\ \A i \in Filled(s, b) : b.parts[i] = Piece(s, i) /\ FrameOf(s, i) \in seen
  /\ b.received = Cardinality(Filled(s, b))
BuffersFit ==
  \A k \in DOMAIN chunkBuf : \E s \in Signals : k = Key(s) /\ Fits(s, chunkBuf[k], done)

\* A signal on its way to the manager is whole, on its way once, and new.
HeldOnce ==
  /\ \A c \in Conns, s \in Signals :
       hold[c] = <<Whole(s)>> => AllSeen(s) /\ ~Stream!Handed(s)
  /\ \A c, d \in Conns : hold[c] = hold[d] /\ hold[c] # <<>> => c = d
  /\ \A s \in Signals : Stream!Handed(s) => AllSeen(s)

WInv == StreamTypes /\ OneOpen /\ FramesOnce /\ BuffersFit /\ HeldOnce

LEMMA CountPositive ==
  ASSUME NEW s \in Signals
  PROVE  Count(s) \in Nat /\ Count(s) >= 1 /\ 0 \in 0..(Count(s) - 1)
  BY IdsFresh DEF Count

\* The first piece tells signals apart.
LEMMA WholeDiffers ==
  ASSUME NEW s \in Signals, NEW t \in Signals, Whole(s) = Whole(t)
  PROVE  s = t
  <1>1. Whole(s).sdp[0] = <<s, 0>> /\ Whole(t).sdp[0] = <<t, 0>>
    BY CountPositive DEF Whole, Piece
  <1>2. <<s, 0>> = <<t, 0>>
    BY <1>1
  <1>. QED
    BY <1>2

LEMMA StreamInvInit == Init => WInv
  <1>. SUFFICES ASSUME Init PROVE WInv
    OBVIOUS
  <1>1. StreamTypes
    BY CountPositive DEF Init, StreamTypes
  <1>2. OneOpen /\ FramesOnce /\ BuffersFit
    BY DEF Init, OneOpen, FramesOnce, BuffersFit
  <1>3. HeldOnce
    BY DEF Init, HeldOnce, Stream!Handed
  <1>. QED
    BY <1>1, <1>2, <1>3 DEF WInv

\* The way of a signal after it was read.
pipeline == <<chunkBuf, hold, done, delivered>>

LEMMA PipelineKept ==
  ASSUME WInv, UNCHANGED pipeline
  PROVE  BuffersFit' /\ HeldOnce'
  <1>1. BuffersFit'
    BY DEF WInv, pipeline, BuffersFit
  <1>2. HeldOnce'
    BY DEF WInv, pipeline, HeldOnce, AllSeen, Stream!Handed
  <1>. QED
    BY <1>1, <1>2

LEMMA FramesKept ==
  ASSUME FramesOnce, UNCHANGED <<inq, next, done>>
  PROVE  FramesOnce'
  BY DEF FramesOnce

LEMMA DialStream ==
  ASSUME WInv, Dial
  PROVE  WInv'
  <1>1. UNCHANGED pipeline /\ UNCHANGED <<inq, conn, next>>
    BY DEF Dial, pipeline
  <1>2. OneOpen' /\ StreamTypes'
    BY <1>1 DEF Dial, WInv, OneOpen, StreamTypes, pipeline
  <1>3. FramesOnce'
    BY <1>1, FramesKept DEF WInv, pipeline
  <1>. QED
    BY <1>1, <1>2, <1>3, PipelineKept DEF WInv

LEMMA HangupStream ==
  ASSUME WInv, NEW c \in Conns, Hangup(c)
  PROVE  WInv'
  <1>1. UNCHANGED pipeline /\ UNCHANGED <<inq, conn, next>>
    BY DEF Hangup, pipeline
  <1>2. OneOpen' /\ StreamTypes'
    BY <1>1 DEF Hangup, WInv, OneOpen, StreamTypes, pipeline
  <1>3. FramesOnce'
    BY <1>1, FramesKept DEF WInv, pipeline
  <1>. QED
    BY <1>1, <1>2, <1>3, PipelineKept DEF WInv

\* The connection in place is closed; a part of what it brought is still read.
LEMMA RegisterStream ==
  ASSUME WInv, NEW c \in Conns, Register(c)
  PROVE  WInv'
  <1>1. UNCHANGED pipeline /\ UNCHANGED next /\ conn' = c
    BY DEF Register, pipeline
  <1>2. CASE conn = 0
    <2>1. UNCHANGED <<link, inq>>
      BY <1>2 DEF Register, socket
    <2>. QED
      BY <1>1, <2>1, PipelineKept, FramesKept DEF WInv, StreamTypes, OneOpen, pipeline
  <1>3. CASE conn # 0
    <2>0. conn \in Conns
      BY <1>3 DEF WInv, StreamTypes
    <2>1. PICK n \in 0..Len(inq[conn]) :
            /\ link' = [link EXCEPT ![conn] = IF link[conn] = "open" THEN "cut" ELSE link[conn]]
            /\ inq' = [inq EXCEPT ![conn] = SubSeq(inq[conn], 1, n)]
      BY <1>3 DEF Register
    <2>2. inq \in [Conns -> Seq(Frame)]
      BY DEF WInv, StreamTypes
    <2>3. /\ SubSeq(inq[conn], 1, n) \in Seq(Frame)
          /\ Len(SubSeq(inq[conn], 1, n)) = n
          /\ \A i \in 1..n : SubSeq(inq[conn], 1, n)[i] = inq[conn][i]
      BY <2>0, <2>2
    <2>4. \A d \in Conns : /\ Len(inq'[d]) <= Len(inq[d]) /\ Len(inq'[d]) \in Nat
                           /\ \A i \in 1..Len(inq'[d]) : inq'[d][i] = inq[d][i]
      BY <2>0, <2>1, <2>2, <2>3
    <2>5. FramesOnce'
      <3>1. \A d \in Conns : 1..Len(inq'[d]) \subseteq 1..Len(inq[d])
        BY <2>2, <2>4
      <3>2. UNCHANGED <<next, done>>
        BY <1>1 DEF pipeline
      <3>3. ASSUME NEW d \in Conns, NEW i \in 1..Len(inq'[d])
            PROVE  Drawn(inq'[d][i], next) /\ inq'[d][i] \notin done
        BY <2>4, <3>1 DEF WInv, FramesOnce
      <3>4. ASSUME NEW d \in Conns, NEW e \in Conns, NEW i \in 1..Len(inq'[d]),
                   NEW j \in 1..Len(inq'[e]), inq'[d][i] = inq'[e][j]
            PROVE  d = e /\ i = j
        BY <2>4, <3>1, <3>4 DEF WInv, FramesOnce
      <3>5. \A f \in done : Drawn(f, next)
        BY DEF WInv, FramesOnce
      <3>. QED
        BY <3>2, <3>3, <3>4, <3>5 DEF FramesOnce
    <2>6. OneOpen' /\ StreamTypes'
      BY <1>1, <2>0, <2>1, <2>2, <2>3 DEF WInv, OneOpen, StreamTypes, pipeline
    <2>. QED
      BY <1>1, <2>5, <2>6, PipelineKept DEF WInv
  <1>. QED
    BY <1>2, <1>3

\* A client's next frame is new, and at most one connection is open to take it.
LEMMA RelayStream ==
  ASSUME WInv, NEW s \in Signals, Relay(s)
  PROVE  WInv'
  <1>1. PICK i \in {next[s], Total[s] + next[s]} :
          inq' = [c \in Conns |-> IF link[c] = "open"
                                 THEN Append(inq[c], FrameOf(s, i)) ELSE inq[c]]
    BY DEF Relay, FrameOf
  <1>. DEFINE g == FrameOf(s, i)
  <1>2. /\ next[s] \in Nat /\ Total[s] \in Nat /\ next[s] < Count(s)
        /\ next' = [next EXCEPT ![s] = next[s] + 1]
        /\ UNCHANGED pipeline /\ UNCHANGED <<link, conn>>
    BY IdsFresh DEF Relay, WInv, StreamTypes, pipeline
  <1>3. g \in Frame /\ g.sig = s /\ g.seq = i /\ i \in Nat
    BY <1>2 DEF Frame, FrameOf
  <1>4. ~Drawn(g, next) /\ Drawn(g, next')
    <2>1. next'[s] = next[s] + 1
      BY <1>2 DEF WInv, StreamTypes
    <2>2. Drawn(g, next')
      BY <1>1, <1>2, <1>3, <2>1 DEF Drawn
    <2>3. ~Drawn(g, next)
      BY <1>1, <1>2, <1>3 DEF Drawn, Count
    <2>. QED
      BY <2>2, <2>3
  <1>5. \A f \in Frame : Drawn(f, next) => Drawn(f, next')
    BY <1>2, IdsFresh DEF Drawn, Frame, WInv, StreamTypes
  <1>6. StreamTypes'
    BY <1>1, <1>2, <1>3, CountPositive DEF WInv, StreamTypes, pipeline
  <1>7. \A c \in Conns : \A j \in 1..Len(inq'[c]) :
          \/ j \in 1..Len(inq[c]) /\ inq'[c][j] = inq[c][j]
          \/ link[c] = "open" /\ j = Len(inq[c]) + 1 /\ inq'[c][j] = g
    BY <1>1, <1>3 DEF WInv, StreamTypes
  <1>8. \A c \in Conns : \A j \in 1..Len(inq[c]) : inq[c][j] \in Frame /\ inq[c][j] # g
    BY <1>4 DEF WInv, StreamTypes, FramesOnce
  <1>9. g \notin done
    BY <1>4 DEF WInv, FramesOnce
  <1>10. FramesOnce'
    <2>1. \A f \in done' : Drawn(f, next')
      BY <1>2, <1>5 DEF WInv, StreamTypes, FramesOnce, pipeline
    <2>2. ASSUME NEW c \in Conns, NEW j \in 1..Len(inq'[c])
          PROVE  Drawn(inq'[c][j], next') /\ inq'[c][j] \notin done'
      BY <1>2, <1>4, <1>5, <1>7, <1>8, <1>9 DEF WInv, FramesOnce, pipeline
    <2>3. ASSUME NEW c \in Conns, NEW d \in Conns, NEW j \in 1..Len(inq'[c]),
                 NEW k \in 1..Len(inq'[d]), inq'[c][j] = inq'[d][k]
          PROVE  c = d /\ j = k
      BY <1>7, <1>8, <2>3 DEF WInv, FramesOnce, OneOpen
    <2>. QED
      BY <2>1, <2>2, <2>3 DEF FramesOnce
  <1>11. OneOpen'
    BY <1>2 DEF WInv, OneOpen
  <1>. QED
    BY <1>2, <1>6, <1>10, <1>11, PipelineKept DEF WInv

\* A signal that is handed over leaves hold, where it was only once.
LEMMA DispatchStream ==
  ASSUME WInv, NEW c \in Conns, Dispatch(c)
  PROVE  /\ WInv'
         /\ \E s \in Signals : /\ AllSeen(s) /\ ~Stream!Handed(s)
                               /\ delivered' = Append(delivered, Whole(s))
  <1>1. PICK s \in Signals : hold[c] = <<Whole(s)>>
    BY DEF Dispatch, WInv, StreamTypes, Env
  <1>2. /\ delivered' = Append(delivered, Whole(s))
        /\ hold' = [hold EXCEPT ![c] = <<>>]
        /\ UNCHANGED <<link, inq, conn, chunkBuf, next, done>>
    BY <1>1 DEF Dispatch
  <1>3. AllSeen(s) /\ ~Stream!Handed(s)
    BY <1>1 DEF WInv, HeldOnce
  <1>4. \A t \in Signals : (Stream!Handed(t))' <=> Stream!Handed(t) \/ t = s
    <2>1. delivered \in Seq(Env) /\ Whole(s) \in Env
      BY DEF WInv, StreamTypes, Env
    <2>. QED
      BY <1>2, <2>1, WholeDiffers DEF Stream!Handed
  <1>5. StreamTypes'
    <2>1. Whole(s) \in Env
      BY DEF Env
    <2>. QED
      BY <1>2, <2>1 DEF WInv, StreamTypes
  <1>6. HeldOnce'
    <2>1. \A t \in Signals : AllSeen(t)' <=> AllSeen(t)
      BY <1>2 DEF AllSeen
    <2>2. ASSUME NEW d \in Conns, NEW t \in Signals, hold'[d] = <<Whole(t)>>
          PROVE  AllSeen(t) /\ ~(Stream!Handed(t))'
      <3>1. d # c /\ hold[d] = <<Whole(t)>>
        BY <1>2, <2>2 DEF WInv, StreamTypes
      <3>2. t # s
        <4>1. hold[c] # <<>>
          BY DEF Dispatch
        <4>2. hold[d] # hold[c]
          BY <3>1, <4>1 DEF WInv, HeldOnce
        <4>. QED
          BY <1>1, <3>1, <4>2
      <3>. QED
        BY <1>4, <3>1, <3>2 DEF WInv, HeldOnce
    <2>3. ASSUME NEW d \in Conns, NEW e \in Conns, hold'[d] = hold'[e], hold'[d] # <<>>
          PROVE  d = e
      BY <1>2, <2>3 DEF WInv, StreamTypes, HeldOnce
    <2>4. \A t \in Signals : (Stream!Handed(t))' => AllSeen(t)
      BY <1>3, <1>4 DEF WInv, HeldOnce
    <2>. QED
      BY <2>1, <2>2, <2>3, <2>4 DEF HeldOnce
  <1>7. OneOpen' /\ BuffersFit' /\ FramesOnce'
    BY <1>2, FramesKept DEF WInv, OneOpen, BuffersFit
  <1>. QED
    BY <1>2, <1>3, <1>5, <1>6, <1>7 DEF WInv

LEMMA FitsLonger ==
  ASSUME NEW s \in Signals, NEW b, NEW seen, NEW more, Fits(s, b, seen), seen \subseteq more
  PROVE  Fits(s, b, more)
  BY DEF Fits

\* The buffer that assembleChunk finds, or makes.
LEMMA BufferFound ==
  ASSUME WInv, NEW s \in Signals, Total[s] > 0
  PROVE  Fits(s, BufOf(s), done)
  <1>1. CASE Key(s) \in DOMAIN chunkBuf
    <2>1. PICK t \in Signals : Key(s) = Key(t) /\ Fits(t, chunkBuf[Key(s)], done)
      BY <1>1 DEF WInv, BuffersFit
    <2>2. t = s
      BY <2>1, IdsFresh DEF Key
    <2>. QED
      BY <1>1, <2>1, <2>2 DEF BufOf
  <1>2. CASE Key(s) \notin DOMAIN chunkBuf
    <2>1. Total[s] \in Nat
      BY IdsFresh
    <2>2. Filled(s, NewBuf(s)) = {}
      BY <2>1 DEF Filled, NewBuf
    <2>3. Cardinality({}) = 0
      BY FS_EmptySet
    <2>. QED
      BY <1>2, <2>1, <2>2, <2>3 DEF BufOf, NewBuf, Fits
  <1>. QED
    BY <1>1, <1>2

\* One more piece in its empty place.
LEMMA PieceAdded ==
  ASSUME NEW s \in Signals, NEW b, NEW seen, Fits(s, b, seen),
         NEW i \in 0..(Total[s] - 1), b.parts[i] = Empty,
         NEW b2, b2 = [parts |-> [b.parts EXCEPT ![i] = Piece(s, i)],
                       received |-> b.received + 1]
  PROVE  /\ Fits(s, b2, seen \cup {FrameOf(s, i)})
         /\ Assembled(s, b2) => [from |-> From[s], sdp |-> b2.parts] = Whole(s)
  <1>0. Total[s] \in Nat
    BY IdsFresh
  <1>1. Piece(s, i) # Empty
    BY <1>0, IdsFresh DEF Piece
  <1>2. \A j \in 0..(Total[s] - 1) :
          b2.parts[j] = IF j = i THEN Piece(s, i) ELSE b.parts[j]
    BY DEF Fits
  <1>3. Filled(s, b2) = Filled(s, b) \cup {i} /\ i \notin Filled(s, b)
    BY <1>1, <1>2 DEF Filled
  <1>4. IsFiniteSet(0..(Total[s] - 1)) /\ Cardinality(0..(Total[s] - 1)) = Total[s]
    <2>1. 0 \in Int /\ Total[s] - 1 \in Int /\ Total[s] >= 0
      BY <1>0
    <2>2. /\ IsFiniteSet(0..(Total[s] - 1))
          /\ Cardinality(0..(Total[s] - 1)) =
               IF 0 > Total[s] - 1 THEN 0 ELSE (Total[s] - 1) - 0 + 1
      BY <2>1, FS_Interval
    <2>. QED
      BY <1>0, <2>2
  <1>5. IsFiniteSet(Filled(s, b))
    BY <1>4, FS_Subset DEF Filled
  <1>6. Cardinality(Filled(s, b2)) = Cardinality(Filled(s, b)) + 1
    BY <1>3, <1>5, FS_AddElement
  <1>7. Fits(s, b2, seen \cup {FrameOf(s, i)})
    <2>1. \A j \in Filled(s, b2) : /\ b2.parts[j] = Piece(s, j)
                                   /\ FrameOf(s, j) \in seen \cup {FrameOf(s, i)}
      BY <1>2, <1>3 DEF Fits, Filled
    <2>2. b2.parts = [j \in 0..(Total[s] - 1) |-> b2.parts[j]]
      BY DEF Fits
    <2>3. b2.received = Cardinality(Filled(s, b2))
      BY <1>6 DEF Fits
    <2>. QED
      BY <2>1, <2>2, <2>3 DEF Fits
  <1>8. ASSUME Assembled(s, b2) PROVE [from |-> From[s], sdp |-> b2.parts] = Whole(s)
    <2>1. Cardinality(Filled(s, b2)) >= Total[s]
      BY <1>7, <1>8 DEF Assembled, Fits
    <2>2. Filled(s, b2) \subseteq 0..(Total[s] - 1)
      BY DEF Filled
    <2>3. Filled(s, b2) = 0..(Total[s] - 1)
      <3>1. Cardinality(Filled(s, b2)) <= Total[s]
        BY <1>4, <2>2, FS_Subset
      <3>2. Cardinality(Filled(s, b2)) \in Nat
        BY <1>4, <2>2, FS_Subset, FS_CardinalityType
      <3>. QED
        BY <1>0, <1>4, <2>1, <2>2, <3>1, <3>2, FS_Subset
    <2>4. b2.parts = [j \in 0..(Total[s] - 1) |-> Piece(s, j)]
      BY <1>7, <2>3 DEF Fits
    <2>5. Count(s) = Total[s]
      BY <1>0 DEF Count, Fits
    <2>. QED
      BY <2>4, <2>5 DEF Whole
  <1>. QED
    BY <1>7, <1>8

\* A signal whose last missing frame is read was not released before.
LEMMA Released ==
  ASSUME WInv, NEW c \in Conns, NEW s \in Signals, NEW i \in 0..(Count(s) - 1),
         FrameOf(s, i) \notin done, done' = done \cup {FrameOf(s, i)}, UNCHANGED delivered,
         \A j \in 0..(Count(s) - 1) : FrameOf(s, j) \in done',
         hold' = [hold EXCEPT ![c] = <<Whole(s)>>]
  PROVE  HeldOnce' /\ hold' \in [Conns -> {<<>>} \cup {<<e>> : e \in Env}]
  <1>1. ~AllSeen(s) /\ AllSeen(s)'
    BY DEF AllSeen
  <1>2. \A t \in Signals : AllSeen(t) => AllSeen(t)'
    BY DEF AllSeen
  <1>3. \A t \in Signals : (Stream!Handed(t))' <=> Stream!Handed(t)
    BY DEF Stream!Handed
  <1>4. ~Stream!Handed(s)
    BY <1>1 DEF WInv, HeldOnce
  <1>5. \A d \in Conns : hold[d] # <<Whole(s)>>
    BY <1>1 DEF WInv, HeldOnce
  <1>6. \A d \in Conns : hold'[d] = IF d = c THEN <<Whole(s)>> ELSE hold[d]
    BY DEF WInv, StreamTypes
  <1>7. ASSUME NEW d \in Conns, NEW t \in Signals, hold'[d] = <<Whole(t)>>
        PROVE  AllSeen(t)' /\ ~(Stream!Handed(t))'
    <2>1. CASE d = c
      <3>1. Whole(s) = Whole(t)
        BY <1>6, <1>7, <2>1
      <3>. QED
        BY <1>1, <1>3, <1>4, <3>1, WholeDiffers
    <2>2. CASE d # c
      BY <1>2, <1>3, <1>6, <1>7, <2>2 DEF WInv, HeldOnce
    <2>. QED
      BY <2>1, <2>2
  <1>8. ASSUME NEW d \in Conns, NEW e \in Conns, hold'[d] = hold'[e], hold'[d] # <<>>
        PROVE  d = e
    BY <1>5, <1>6, <1>8 DEF WInv, HeldOnce
  <1>9. \A t \in Signals : (Stream!Handed(t))' => AllSeen(t)'
    BY <1>2, <1>3 DEF WInv, HeldOnce
  <1>10. hold' \in [Conns -> {<<>>} \cup {<<e>> : e \in Env}]
    BY DEF WInv, StreamTypes, Env
  <1>. QED
    BY <1>7, <1>8, <1>9, <1>10 DEF HeldOnce

\* When no signal is released, reading a frame leaves hold as it was.
LEMMA NotReleased ==
  ASSUME WInv, done \subseteq done', UNCHANGED <<hold, delivered>>
  PROVE  HeldOnce'
  <1>1. \A t \in Signals : AllSeen(t) => AllSeen(t)'
    BY DEF AllSeen
  <1>2. \A t \in Signals : (Stream!Handed(t))' <=> Stream!Handed(t)
    BY DEF Stream!Handed
  <1>. QED
    BY <1>1, <1>2 DEF WInv, HeldOnce

LEMMA AssembleStream ==
  ASSUME WInv, NEW c \in Conns, Assemble(c)
  PROVE  WInv'
  <1>. DEFINE f  == Head(inq[c])
              s  == f.sig
              i  == f.seq
              b  == BufOf(s)
              b2 == [parts |-> [b.parts EXCEPT ![i] = Piece(s, i)],
                     received |-> b.received + 1]
  <1>1. /\ inq' = [inq EXCEPT ![c] = Tail(inq[c])] /\ inq[c] # <<>>
        /\ done' = done \cup {f}
        /\ UNCHANGED <<link, conn, next, delivered>>
    BY DEF Assemble
  <1>2. /\ inq[c] \in Seq(Frame) /\ Len(inq[c]) >= 1 /\ f = inq[c][1] /\ f \in Frame
        /\ Tail(inq[c]) \in Seq(Frame) /\ Len(Tail(inq[c])) = Len(inq[c]) - 1
        /\ \A j \in 1..Len(Tail(inq[c])) : Tail(inq[c])[j] = inq[c][j + 1]
    BY <1>1 DEF WInv, StreamTypes
  <1>3. s \in Signals /\ i \in Nat /\ f = FrameOf(s, i) /\ Total[s] \in Nat
    BY <1>2, IdsFresh DEF Frame, FrameOf
  <1>4. f \notin done /\ Drawn(f, next)
    BY <1>2 DEF WInv, FramesOnce
  <1>5. FramesOnce'
    <2>1. \A d \in Conns : \A j \in 1..Len(inq'[d]) :
            \E k \in 1..Len(inq[d]) : /\ inq'[d][j] = inq[d][k]
                                      /\ k = IF d = c THEN j + 1 ELSE j
      BY <1>1, <1>2 DEF WInv, StreamTypes
    <2>2. \A d \in Conns : \A j \in 1..Len(inq'[d]) : inq'[d][j] # f
      BY <1>2, <2>1 DEF WInv, FramesOnce
    <2>3. ASSUME NEW d \in Conns, NEW j \in 1..Len(inq'[d])
          PROVE  Drawn(inq'[d][j], next) /\ inq'[d][j] \notin done'
      BY <1>1, <2>1, <2>2 DEF WInv, FramesOnce
    <2>4. ASSUME NEW d \in Conns, NEW e \in Conns, NEW j \in 1..Len(inq'[d]),
                 NEW k \in 1..Len(inq'[e]), inq'[d][j] = inq'[e][k]
          PROVE  d = e /\ j = k
      <3>1. PICK j1 \in 1..Len(inq[d]) : inq'[d][j] = inq[d][j1]
                                         /\ j1 = IF d = c THEN j + 1 ELSE j
        BY <2>1
      <3>2. PICK k1 \in 1..Len(inq[e]) : inq'[e][k] = inq[e][k1]
                                         /\ k1 = IF e = c THEN k + 1 ELSE k
        BY <2>1
      <3>3. inq[d][j1] = inq[e][k1]
        BY <2>4, <3>1, <3>2
      <3>4. d = e /\ j1 = k1
        BY <3>3 DEF WInv, FramesOnce
      <3>. QED
        BY <3>1, <3>2, <3>4
    <2>5. \A g \in done' : Drawn(g, next)
      BY <1>1, <1>4 DEF WInv, FramesOnce
    <2>6. UNCHANGED next
      BY <1>1
    <2>. QED
      BY <2>3, <2>4, <2>5, <2>6 DEF FramesOnce
  <1>6. OneOpen'
    BY <1>1 DEF WInv, OneOpen
  <1>7. SUFFICES /\ BuffersFit' /\ HeldOnce'
                 /\ hold' \in [Conns -> {<<>>} \cup {<<e>> : e \in Env}]
    BY <1>1, <1>2, <1>5, <1>6 DEF WInv, StreamTypes
  <1>8. \A k \in DOMAIN chunkBuf :
          \E t \in Signals : k = Key(t) /\ Fits(t, chunkBuf[k], done')
    BY <1>1, FitsLonger DEF WInv, BuffersFit
  <1>. HIDE DEF f, s, i, b, b2
  <1>9. /\ Total[s] > 0 => Fits(s, b, done)
        /\ Total[s] > 0 /\ InRange(s, i) => i \in 0..(Total[s] - 1) /\ Count(s) = Total[s]
    <2>1. Total[s] > 0 => Fits(s, b, done)
      BY <1>3, BufferFound DEF b
    <2>. QED
      BY <1>3, <2>1 DEF InRange, Count
  <1>10. CASE chunkBuf' = chunkBuf /\ hold' = hold
    BY <1>1, <1>8, <1>10, NotReleased DEF BuffersFit, WInv, StreamTypes
  <1>11. CASE chunkBuf' = Without(Key(s)) /\ hold' = hold
    BY <1>1, <1>8, <1>11, NotReleased DEF BuffersFit, Without, WInv, StreamTypes
  <1>12. CASE /\ Total[s] = 0 /\ chunkBuf' = chunkBuf
              /\ hold' = [hold EXCEPT ![c] =
                            <<[from |-> From[s], sdp |-> [j \in {0} |-> Piece(s, i)]]>>]
    <2>1. Count(s) = 1 /\ next[s] <= 1 /\ next[s] \in Nat
      BY <1>3, <1>12 DEF Count, WInv, StreamTypes
    <2>2. i = 0
      BY <1>3, <1>4, <1>12, <2>1 DEF Drawn, FrameOf
    <2>3. 0..(Count(s) - 1) = {0}
      BY <2>1
    <2>4. [from |-> From[s], sdp |-> [j \in {0} |-> Piece(s, i)]] = Whole(s)
      BY <2>2, <2>3 DEF Whole
    <2>5. HeldOnce' /\ hold' \in [Conns -> {<<>>} \cup {<<e>> : e \in Env}]
      BY <1>1, <1>3, <1>4, <1>12, <2>2, <2>3, <2>4, Released
    <2>. QED
      BY <1>8, <1>12, <2>5 DEF BuffersFit
  <1>13. CASE /\ Total[s] > 0 /\ InRange(s, i) /\ b.parts[i] = Empty
              /\ chunkBuf' = With(Key(s), b2) /\ hold' = hold
    <2>1. Fits(s, b2, done')
      BY <1>1, <1>3, <1>9, <1>13, PieceAdded DEF b2
    <2>2. BuffersFit'
      BY <1>3, <1>8, <1>13, <2>1 DEF BuffersFit, With
    <2>. QED
      BY <1>1, <1>13, <2>2, NotReleased DEF WInv, StreamTypes
  <1>14. CASE /\ Total[s] > 0 /\ InRange(s, i) /\ b.parts[i] = Empty /\ Assembled(s, b2)
              /\ chunkBuf' = Without(Key(s))
              /\ hold' = [hold EXCEPT ![c] = <<[from |-> From[s], sdp |-> b2.parts]>>]
    <2>1. Fits(s, b2, done') /\ [from |-> From[s], sdp |-> b2.parts] = Whole(s)
      BY <1>1, <1>3, <1>9, <1>14, PieceAdded DEF b2
    <2>2. \A j \in 0..(Count(s) - 1) : FrameOf(s, j) \in done'
      <3>1. \A j \in 0..(Total[s] - 1) : b2.parts[j] = Piece(s, j)
        BY <1>9, <1>14, <2>1 DEF Whole
      <3>2. \A j \in 0..(Total[s] - 1) : Piece(s, j) # Empty
        BY <1>3, IdsFresh DEF Piece
      <3>. QED
        BY <1>9, <1>14, <2>1, <3>1, <3>2 DEF Fits, Filled
    <2>3. HeldOnce' /\ hold' \in [Conns -> {<<>>} \cup {<<e>> : e \in Env}]
      BY <1>1, <1>3, <1>4, <1>9, <1>14, <2>1, <2>2, Released
    <2>4. BuffersFit'
      BY <1>8, <1>14 DEF BuffersFit, Without
    <2>. QED
      BY <2>3, <2>4
  <1>. QED
    BY <1>10, <1>11, <1>12, <1>13, <1>14 DEF Assemble, f, s, i, b, b2

\* The frames that were not read yet are lost with the connection.
LEMMA ScanFailsStream ==
  ASSUME WInv, NEW c \in Conns, ScanFails(c)
  PROVE  WInv'
  <1>1. /\ UNCHANGED pipeline /\ UNCHANGED next /\ conn' \in Conns \cup {0}
        /\ link' = [link EXCEPT ![c] = IF link[c] = "open" THEN "closed" ELSE link[c]]
        /\ inq' = [inq EXCEPT ![c] = <<>>]
    BY DEF ScanFails, LetGo, pipeline, WInv, StreamTypes
  <1>2. inq \in [Conns -> Seq(Frame)] /\ inq'[c] = <<>> /\ Len(<<>>) = 0
    BY <1>1 DEF WInv, StreamTypes
  <1>3. \A d \in Conns \ {c} : inq'[d] = inq[d]
    BY <1>1, <1>2
  <1>4. FramesOnce'
    <2>1. \A f \in done' : Drawn(f, next)'
      BY <1>1 DEF pipeline, WInv, FramesOnce, Drawn
    <2>2. ASSUME NEW d \in Conns, NEW i \in 1..Len(inq'[d])
          PROVE  d # c /\ inq'[d] = inq[d]
      BY <1>2, <1>3
    <2>3. ASSUME NEW d \in Conns, NEW i \in 1..Len(inq'[d])
          PROVE  Drawn(inq'[d][i], next') /\ inq'[d][i] \notin done'
      BY <1>1, <2>2 DEF pipeline, WInv, FramesOnce
    <2>4. ASSUME NEW d \in Conns, NEW e \in Conns, NEW i \in 1..Len(inq'[d]),
                 NEW j \in 1..Len(inq'[e]), inq'[d][i] = inq'[e][j]
          PROVE  d = e /\ i = j
      BY <2>2, <2>4 DEF WInv, FramesOnce
    <2>. QED
      BY <2>1, <2>3, <2>4 DEF FramesOnce
  <1>5. OneOpen' /\ StreamTypes'
    BY <1>1, <1>2 DEF WInv, OneOpen, StreamTypes, pipeline
  <1>. QED
    BY <1>1, <1>4, <1>5, PipelineKept DEF WInv

LEMMA StreamInvStep == WInv /\ [Next]_vars => WInv'
  <1>. SUFFICES ASSUME WInv, [Next]_vars PROVE WInv'
    OBVIOUS
  <1>1. ASSUME UNCHANGED pipeline, UNCHANGED <<link, inq, next>>, conn' \in Conns \cup {0}
        PROVE  WInv'
    BY <1>1, PipelineKept, FramesKept DEF WInv, StreamTypes, OneOpen, pipeline
  <1>2. ASSUME NEW c \in Conns, Finish(c) PROVE WInv'
    BY <1>1, <1>2 DEF Finish, LetGo, socket, outbound, pipeline, WInv, StreamTypes
  <1>3. ASSUME NEW o \in Outs, SendPiece(o) PROVE WInv'
    BY <1>1, <1>3 DEF SendPiece, pipeline, WInv, StreamTypes
  <1>4. CASE UNCHANGED vars
    BY <1>1, <1>4 DEF vars, pipeline, WInv, StreamTypes
  <1>. QED
    BY <1>2, <1>3, <1>4, DialStream, HangupStream, RelayStream, RegisterStream, ScanFailsStream,
       AssembleStream, DispatchStream DEF Next

\* A signal all of whose frames were read was sent.
LEMMA SeenIsSent ==
  ASSUME WInv, NEW s \in Signals, AllSeen(s)
  PROVE  s \in Sent
  <1>1. Count(s) - 1 \in 0..(Count(s) - 1) /\ next[s] \in Nat /\ next[s] <= Count(s)
    BY CountPositive DEF WInv, StreamTypes
  <1>2. Drawn(FrameOf(s, Count(s) - 1), next)
    BY <1>1 DEF AllSeen, WInv, FramesOnce
  <1>3. next[s] >= Count(s)
    BY <1>1, <1>2, IdsFresh, CountPositive DEF Drawn, FrameOf, Count
  <1>. QED
    BY <1>1, <1>3, CountPositive DEF Sent, AllRelayed

LEMMA StepImplements ==
  WInv /\ [Next]_vars => [Stream!StreamNext]_<<Sent, delivered>>
  <1>. SUFFICES ASSUME WInv, [Next]_vars PROVE [Stream!StreamNext]_<<Sent, delivered>>
    OBVIOUS
  <1>1. ASSUME UNCHANGED <<next, delivered>> PROVE UNCHANGED <<Sent, delivered>>
    BY <1>1 DEF Sent, AllRelayed
  <1>2. ASSUME NEW s \in Signals, Relay(s) PROVE Stream!Send(s) \/ UNCHANGED <<Sent, delivered>>
    <2>1. /\ next[s] < Count(s) /\ next' = [next EXCEPT ![s] = next[s] + 1]
          /\ UNCHANGED delivered /\ next \in [Signals -> Nat]
      BY <1>2 DEF Relay, WInv, StreamTypes
    <2>2. s \notin Sent
      BY <2>1, CountPositive DEF Sent, AllRelayed
    <2>3. \A t \in Signals : t # s => (t \in Sent' <=> t \in Sent)
      BY <2>1 DEF Sent, AllRelayed
    <2>4. Sent \subseteq Signals /\ Sent' \subseteq Signals
      BY DEF Sent
    <2>5. Sent' = Sent \/ Sent' = Sent \cup {s}
      BY <2>2, <2>3, <2>4
    <2>. QED
      BY <2>1, <2>2, <2>5 DEF Stream!Send
  <1>3. ASSUME NEW c \in Conns, Dispatch(c) PROVE \E s \in Signals : Stream!Deliver(s)
    <2>1. PICK s \in Signals : /\ AllSeen(s) /\ ~Stream!Handed(s)
                               /\ delivered' = Append(delivered, Whole(s))
      BY <1>3, DispatchStream
    <2>2. s \in Sent
      BY <2>1, SeenIsSent
    <2>3. UNCHANGED Sent
      BY <1>3 DEF Dispatch, Sent, AllRelayed
    <2>. QED
      BY <2>1, <2>2, <2>3 DEF Stream!Deliver
  <1>4. ASSUME NEW c \in Conns, \/ Hangup(c) \/ Register(c) \/ Assemble(c)
                               \/ Finish(c) \/ ScanFails(c)
        PROVE  UNCHANGED <<next, delivered>>
    BY <1>4 DEF Hangup, Register, Assemble, Finish, ScanFails, LetGo
  <1>5. ASSUME Dial \/ (\E o \in Outs : SendPiece(o)) \/ UNCHANGED vars
        PROVE  UNCHANGED <<next, delivered>>
    BY <1>5 DEF Dial, SendPiece, vars
  <1>. QED
    BY <1>1, <1>2, <1>3, <1>4, <1>5 DEF Next, Stream!StreamNext

LEMMA InitImplements == Init => Stream!StreamInit
  BY CountPositive DEF Init, Stream!StreamInit, Sent, AllRelayed

\* The bridge hands the manager whole signals, each at most once and only when
\* its client has sent it, for any number of connections, signals and pieces.
THEOREM BridgeImplementsStream == Spec => WholeOnce
  BY InitImplements, StepImplements, StreamInvInit, StreamInvStep, PTL
     DEF Spec, WholeOnce, Stream!StreamSpec

-----------------------------------------------------------------------------
(* What the SFU writes.  A piece is written only while none of its signal   *)
(* was refused, so out[o] is the number of pieces of o written so far.      *)

Pieces == [sig : Outs, seq : Nat]

OutTypes == out \in [Outs -> Int] /\ written \in Seq(Pieces)

Counted ==
  \A o \in Outs : out[o] >= 0 => out[o] = Cardinality(EarlierOf(o, Len(written) + 1))

OInv == OutTypes /\ Counted /\ WrittenInOrder

\* One more piece written.
LEMMA OneWritten ==
  ASSUME OInv, NEW o \in Outs, out[o] >= 0,
         written' = Append(written, [sig |-> o, seq |-> out[o]])
  PROVE  /\ written' \in Seq(Pieces) /\ Len(written') = Len(written) + 1
         /\ WrittenInOrder'
         /\ \A q \in Outs \ {o} : EarlierOf(q, Len(written) + 1)' = EarlierOf(q, Len(written) + 1)
         /\ Cardinality(EarlierOf(o, Len(written) + 1)') = out[o] + 1
  <1>1. written \in Seq(Pieces) /\ Len(written) \in Nat /\ out[o] \in Nat
    BY DEF OInv, OutTypes
  <1>2. PICK e \in Pieces : e.sig = o /\ e.seq = out[o] /\ written' = Append(written, e)
    BY <1>1 DEF Pieces
  <1>3. /\ written' \in Seq(Pieces) /\ Len(written') = Len(written) + 1
        /\ written'[Len(written) + 1] = e
        /\ \A j \in 1..Len(written) : written'[j] = written[j]
    BY <1>1, <1>2
  <1>. DEFINE m == Len(written)
  <1>4. m \in Nat /\ Len(written') = m + 1
    BY <1>1, <1>3
  <1>5. /\ written'[m + 1].sig = o /\ written'[m + 1].seq = out[o]
        /\ \A j \in 1..m : written'[j].sig = written[j].sig /\ written'[j].seq = written[j].seq
    BY <1>2, <1>3
  <1>6. out[o] = Cardinality(EarlierOf(o, m + 1))
    BY DEF OInv, Counted
  <1>7. \A i \in 1..m : written[i].seq = Cardinality(EarlierOf(written[i].sig, i))
    BY DEF OInv, WrittenInOrder
  <1>. HIDE DEF m
  <1>8. ASSUME NEW q, NEW i \in 1..(m + 1)
        PROVE  {j \in 1..(i - 1) : written'[j].sig = q} = EarlierOf(q, i)
    <2>1. \A j \in 1..(i - 1) : j \in 1..m
      BY <1>4
    <2>. QED
      BY <1>5, <2>1 DEF EarlierOf
  <1>9. ASSUME NEW i \in 1..Len(written')
        PROVE  written'[i].seq = Cardinality({j \in 1..(i - 1) : written'[j].sig = written'[i].sig})
    <2>0. i \in 1..(m + 1)
      BY <1>4
    <2>1. {j \in 1..(i - 1) : written'[j].sig = written'[i].sig} = EarlierOf(written'[i].sig, i)
      BY <1>8, <2>0
    <2>2. CASE i = m + 1
      BY <1>5, <1>6, <2>1, <2>2
    <2>3. CASE i # m + 1
      <3>1. i \in 1..m
        BY <1>4, <2>0, <2>3
      <3>. QED
        BY <1>5, <1>7, <2>1, <3>1
    <2>. QED
      BY <2>2, <2>3
  <1>10. {j \in 1..(m + 1) : written'[j].sig = o} = EarlierOf(o, m + 1) \cup {m + 1}
    BY <1>4, <1>5 DEF EarlierOf
  <1>11. IsFiniteSet(EarlierOf(o, m + 1)) /\ m + 1 \notin EarlierOf(o, m + 1)
    <2>1. IsFiniteSet(1..m)
      BY <1>4, FS_Interval
    <2>2. EarlierOf(o, m + 1) \subseteq 1..m
      BY <1>4 DEF EarlierOf
    <2>. QED
      BY <1>4, <2>1, <2>2, FS_Subset
  <1>12. Cardinality(EarlierOf(o, m + 1) \cup {m + 1}) = out[o] + 1
    BY <1>6, <1>11, FS_AddElement
  <1>13. ASSUME NEW q \in Outs \ {o}
         PROVE  {j \in 1..(m + 1) : written'[j].sig = q} = EarlierOf(q, m + 1)
    BY <1>4, <1>5 DEF EarlierOf
  <1>14. Len(written)' = m + 1 /\ (m + 1 + 1) - 1 = m + 1
    BY <1>4
  <1>15. \A q : EarlierOf(q, Len(written) + 1)' = {j \in 1..(m + 1) : written'[j].sig = q}
    BY <1>14 DEF EarlierOf
  <1>16. WrittenInOrder'
    BY <1>9 DEF WrittenInOrder, EarlierOf
  <1>. QED
    BY <1>3, <1>10, <1>12, <1>13, <1>15, <1>16 DEF m

LEMMA OutboundStep == OInv /\ [Next]_vars => OInv'
  <1>. SUFFICES ASSUME OInv, [Next]_vars PROVE OInv'
    OBVIOUS
  <1>1. ASSUME UNCHANGED outbound PROVE OInv'
    BY <1>1 DEF outbound, OInv, OutTypes, Counted, WrittenInOrder, EarlierOf
  <1>2. ASSUME NEW o \in Outs, SendPiece(o) PROVE OInv'
    <2>0. out \in [Outs -> Int] /\ written \in Seq(Pieces) /\ out[o] >= 0
      BY <1>2 DEF OInv, OutTypes, SendPiece
    <2>1. CASE conn # 0 /\ link[conn] = "open"
      <3>1. /\ written' = Append(written, [sig |-> o, seq |-> out[o]])
            /\ out' = [out EXCEPT ![o] = out[o] + 1]
        BY <1>2, <2>1 DEF SendPiece
      <3>2. /\ written' \in Seq(Pieces)
            /\ WrittenInOrder'
            /\ \A q \in Outs \ {o} : EarlierOf(q, Len(written) + 1)' = EarlierOf(q, Len(written) + 1)
            /\ Cardinality(EarlierOf(o, Len(written) + 1)') = out[o] + 1
        BY <2>0, <3>1, OneWritten
      <3>3. /\ out' \in [Outs -> Int] /\ out'[o] = out[o] + 1
            /\ \A q \in Outs \ {o} : out'[q] = out[q]
        BY <2>0, <3>1
      <3>4. ASSUME NEW q \in Outs, out'[q] >= 0
            PROVE  out'[q] = Cardinality(EarlierOf(q, Len(written) + 1)')
        BY <3>2, <3>3, <3>4 DEF OInv, Counted
      <3>. QED
        BY <3>2, <3>3, <3>4 DEF OInv, OutTypes, Counted
    <2>2. CASE ~(conn # 0 /\ link[conn] = "open")
      <3>1. out' = [out EXCEPT ![o] = -1] /\ written' = written
        BY <1>2, <2>2 DEF SendPiece, Refused
      <3>2. /\ out' \in [Outs -> Int] /\ out'[o] = -1
            /\ \A q \in Outs \ {o} : out'[q] = out[q]
        BY <2>0, <3>1
      <3>. QED
        BY <2>0, <3>1, <3>2 DEF OInv, OutTypes, Counted, WrittenInOrder, EarlierOf
    <2>. QED
      BY <2>1, <2>2
  <1>3. ASSUME NEW c \in Conns,
               \/ Hangup(c) \/ Register(c) \/ Assemble(c) \/ Dispatch(c)
               \/ Finish(c) \/ ScanFails(c)
        PROVE  UNCHANGED outbound
    BY <1>3 DEF Hangup, Register, Assemble, Dispatch, Finish, ScanFails, LetGo
  <1>4. ASSUME NEW s \in Signals, Relay(s) PROVE UNCHANGED outbound
    BY <1>4 DEF Relay
  <1>5. ASSUME Dial \/ UNCHANGED vars PROVE UNCHANGED outbound
    BY <1>5 DEF Dial, vars, outbound
  <1>. QED
    BY <1>1, <1>2, <1>3, <1>4, <1>5 DEF Next

LEMMA OutboundInit == Init => OInv
  <1>. SUFFICES ASSUME Init PROVE OInv
    OBVIOUS
  <1>1. written = <<>> /\ out = [o \in Outs |-> 0] /\ Len(written) = 0
    BY DEF Init
  <1>2. \A o \in Outs : EarlierOf(o, Len(written) + 1) = {}
    BY <1>1 DEF EarlierOf
  <1>. QED
    BY <1>1, <1>2, FS_EmptySet DEF OInv, OutTypes, Counted, WrittenInOrder

\* The pieces written of a signal are its first ones in order, for any number
\* of senders and whatever connections come and go between their pieces.
THEOREM PiecesInOrder == Spec => []WrittenInOrder
  <1>1. OInv => WrittenInOrder
    BY DEF OInv
  <1>. QED
    BY <1>1, OutboundInit, OutboundStep, PTL DEF Spec

-----------------------------------------------------------------------------
(* Types.  connEpoch counts the handlers that have registered, so it stays  *)
(* within the number of connections.                                        *)

Registered == {c \in Conns : handler[c] # "none"}

EpochsCount ==
  /\ connEpoch = Cardinality(Registered)
  /\ \A c \in Conns : handler[c] = "none" => epoch[c] = 0

LEMMA FewRegistered ==
  Cardinality(Registered) \in 0..MaxConns
  <1>1. IsFiniteSet(Conns) /\ Cardinality(Conns) = MaxConns
    BY IdsFresh, FS_Interval DEF Conns
  <1>2. Registered \subseteq Conns
    BY DEF Registered
  <1>3. IsFiniteSet(Registered) /\ Cardinality(Registered) <= MaxConns
    BY <1>1, <1>2, FS_Subset
  <1>. QED
    BY <1>3, IdsFresh, FS_CardinalityType

LEMMA EpochsStep == BInv /\ EpochsCount /\ [Next]_vars => EpochsCount'
  <1>. SUFFICES ASSUME BInv, EpochsCount, [Next]_vars PROVE EpochsCount'
    OBVIOUS
  <1>1. ASSUME UNCHANGED <<handler, epoch, connEpoch>> PROVE EpochsCount'
    BY <1>1 DEF EpochsCount, Registered
  <1>2. ASSUME NEW c \in Conns, Register(c) PROVE EpochsCount'
    <2>1. /\ handler[c] = "none"
          /\ handler' = [handler EXCEPT ![c] = "reading"]
          /\ connEpoch' = connEpoch + 1
          /\ epoch' = [epoch EXCEPT ![c] = connEpoch + 1]
      BY <1>2 DEF Register
    <2>2. handler \in [Conns -> {"none", "reading", "done"}] /\ epoch \in [Conns -> Nat]
      BY DEF BInv, Types
    <2>3. Registered' = Registered \cup {c} /\ c \notin Registered
      BY <2>1, <2>2 DEF Registered
    <2>4. IsFiniteSet(Registered)
      BY FS_Interval, FS_Subset, IdsFresh DEF Registered, Conns
    <2>5. Cardinality(Registered \cup {c}) = Cardinality(Registered) + 1
      BY <2>3, <2>4, FS_AddElement
    <2>6. \A d \in Conns : handler'[d] = "none" => epoch'[d] = 0
      BY <2>1, <2>2 DEF EpochsCount
    <2>. QED
      BY <2>1, <2>3, <2>5, <2>6 DEF EpochsCount
  <1>3. ASSUME NEW c \in Conns, Finish(c) \/ ScanFails(c) PROVE EpochsCount'
    <2>1. /\ handler[c] = "reading"
          /\ handler' = [handler EXCEPT ![c] = "done"]
          /\ UNCHANGED <<epoch, connEpoch>>
      BY <1>3 DEF Finish, ScanFails, LetGo
    <2>2. handler \in [Conns -> {"none", "reading", "done"}]
      BY DEF BInv, Types
    <2>3. Registered' = Registered
      BY <2>1, <2>2 DEF Registered
    <2>4. \A d \in Conns : handler'[d] = "none" => handler[d] = "none"
      BY <2>1, <2>2
    <2>. QED
      BY <2>1, <2>3, <2>4 DEF EpochsCount
  <1>4. ASSUME NEW c \in Conns, Hangup(c) \/ Assemble(c) \/ Dispatch(c)
        PROVE  UNCHANGED <<handler, epoch, connEpoch>>
    BY <1>4 DEF Hangup, Assemble, Dispatch
  <1>5. ASSUME \/ Dial \/ UNCHANGED vars
               \/ \E s \in Signals : Relay(s)
               \/ \E o \in Outs : SendPiece(o)
        PROVE  UNCHANGED <<handler, epoch, connEpoch>>
    BY <1>5 DEF Dial, vars, Relay, SendPiece
  <1>. QED
    BY <1>1, <1>2, <1>3, <1>4, <1>5 DEF Next

LEMMA EpochsInit == Init => EpochsCount
  <1>. SUFFICES ASSUME Init PROVE EpochsCount
    OBVIOUS
  <1>1. Registered = {}
    BY DEF Init, Registered
  <1>. QED
    BY <1>1, FS_EmptySet DEF Init, EpochsCount

LEMMA BufferTyped ==
  ASSUME NEW s \in Signals, NEW b, Fits(s, b, done)
  PROVE  b \in Buffer(s)
  <1>1. Total[s] \in Nat /\ Total[s] > 0
    BY IdsFresh DEF Fits
  <1>2. Cardinality(Filled(s, b)) \in Nat
    <2>1. IsFiniteSet(0..(Total[s] - 1))
      BY <1>1, FS_Interval
    <2>2. Filled(s, b) \subseteq 0..(Total[s] - 1)
      BY DEF Filled
    <2>. QED
      BY <2>1, <2>2, FS_Subset, FS_CardinalityType
  <1>3. ASSUME NEW i \in 0..(Total[s] - 1)
        PROVE  b.parts[i] \in {Empty} \cup {Piece(s, j) : j \in 0..Total[s]}
    <2>1. i \in 0..Total[s]
      BY <1>1
    <2>. QED
      BY <2>1 DEF Fits, Filled
  <1>4. b.parts \in [0..(Total[s] - 1) -> {Empty} \cup {Piece(s, j) : j \in 0..Total[s]}]
    <2>. DEFINE P == {Empty} \cup {Piece(s, j) : j \in 0..Total[s]}
    <2>1. /\ b.parts = [i \in 0..(Total[s] - 1) |-> b.parts[i]]
          /\ \A i \in 0..(Total[s] - 1) : b.parts[i] \in P
      BY <1>3 DEF Fits
    <2>. HIDE DEF P
    <2>2. b.parts \in [0..(Total[s] - 1) -> P]
      BY <2>1
    <2>. QED
      BY <2>2 DEF P
  <1>5. b = [parts |-> b.parts, received |-> b.received] /\ b.received \in Nat
    BY <1>2 DEF Fits
  <1>. QED
    BY <1>4, <1>5 DEF Buffer

\* Every variable keeps its type; in particular a buffer only ever holds
\* pieces of the signal whose sender and id are its key.
THEOREM BridgeTyped == Spec => []TypeOK
  <1>1. ASSUME BInv, WInv, OInv, EpochsCount PROVE TypeOK
    <2>1. connEpoch \in 0..MaxConns
      BY <1>1, FewRegistered DEF EpochsCount
    <2>2. epoch \in [Conns -> 0..MaxConns]
      <3>1. epoch \in [Conns -> Nat]
        BY <1>1 DEF BInv, Types
      <3>2. \A c \in Conns : epoch[c] <= connEpoch
        BY <1>1, <2>1 DEF BInv, EpochsOwn, EpochsCount
      <3>3. \A c \in Conns : epoch[c] \in 0..MaxConns
        BY <2>1, <3>1, <3>2, IdsFresh
      <3>. QED
        BY <3>1, <3>3
    <2>3. conn \in 0..MaxConns
      BY <1>1, IdsFresh DEF BInv, Types, Conns
    <2>4. \A c \in Conns : \A i \in 1..Len(inq[c]) : inq[c][i] \in Frame
      BY <1>1 DEF WInv, StreamTypes
    <2>5. \A k \in DOMAIN chunkBuf : \E s \in Signals : k = Key(s) /\ chunkBuf[k] \in Buffer(s)
      BY <1>1, BufferTyped DEF WInv, BuffersFit
    <2>. QED
      BY <1>1, <2>1, <2>2, <2>3, <2>4, <2>5
         DEF TypeOK, BInv, Types, WInv, StreamTypes, OInv, OutTypes
  <1>. QED
    BY <1>1, BridgeInit, BridgeStep, StreamInvInit, StreamInvStep, OutboundInit,
       OutboundStep, EpochsInit, EpochsStep, PTL DEF Spec
=============================================================================
