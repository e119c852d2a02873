----------------------------- MODULE VoiceBridge -----------------------------
(***************************************************************************)
(* The connection between the IRC server and the SFU (voice_bridge.go):    *)
(* accepting a connection and replacing the one before it, reassembling    *)
(* signals that clients split into pieces, and writing the SFU's own       *)
(* signals, split the same way (voice.go, sendChunked).                    *)
(*                                                                         *)
(* Every connection has a handler goroutine of its own.  The IRC server is *)
(* external: it has one connection at a time, dials again when it is gone, *)
(* and relays the pieces of a signal in order, dropping them while it has  *)
(* no connection.  What was written before a hangup can still be read;     *)
(* after the SFU has closed a connection its handler goes on with the      *)
(* frames the scanner had already buffered.  A piece is relayed once, so   *)
(* that the branch of assembleChunk for duplicates is never taken.         *)
(***************************************************************************)
EXTENDS Integers, Sequences, FiniteSets

CONSTANTS Signals,     \* signals of the clients
          From,          \* From[s]: the sender of s
          ChunkId,       \* ChunkId[s]: the id that the pieces of s share
          Total,         \* Total[s]: number of its pieces, 0 if it is not split
          Garbled,       \* signals with pieces numbered out of range
          Outs,          \* signals of the SFU
          OutTotal,      \* OutTotal[o]: number of pieces of o
          MaxConns,      \* bound: how often the IRC server dials
          Empty          \* the empty string: a part that has not arrived

\* A client draws a fresh id for every signal it splits, and no piece is empty.
ASSUME IdsFresh ==
  /\ IsFiniteSet(Signals)
  /\ Total \in [Signals -> Nat] /\ OutTotal \in [Outs -> Nat]
  /\ MaxConns \in Nat /\ Garbled \subseteq Signals
  /\ DOMAIN From = Signals /\ DOMAIN ChunkId = Signals
  /\ \A s, t \in Signals : From[s] = From[t] /\ ChunkId[s] = ChunkId[t] => s = t
  /\ \A s \in Signals : \A i \in 0..Total[s] : <<s, i>> # Empty

Conns == 1..MaxConns

VARIABLES link,        \* state of each connection's socket: none, open, closed, or
                       \* cut: closed while it was open, by another's handler
          inq,           \* frames written to it and not yet read
          handler,       \* where its handler is
          epoch,         \* the epoch its handler was given, 0 before
          conn,          \* b.conn and b.writer, 0 for nil
          connEpoch,     \* b.connEpoch
          chunkBuf,      \* b.chunkBuf
          hold,          \* signal that a handler is about to dispatch
          next,          \* next[s]: pieces of s that its client has sent
          done,          \* frames that assembleChunk has seen
          delivered,     \* signals that the manager was handed
          out,           \* out[o]: pieces of o tried so far, -1 if given up
          written        \* pieces written to the IRC server

socket == <<link, inq>>
outbound == <<out, written>>
vars == <<link, inq, handler, epoch, conn, connEpoch, chunkBuf, hold, next,
          done, delivered, out, written>>

-----------------------------------------------------------------------------
(* Signals and their pieces: the text of piece i of s is the pair <<s, i>>. *)

Count(s) == IF Total[s] = 0 THEN 1 ELSE Total[s]
Piece(s, i) == <<s, i>>
Whole(s) == [from |-> From[s], sdp |-> [i \in 0..(Count(s) - 1) |-> Piece(s, i)]]
Frame == [sig : Signals, seq : Nat]

AllRelayed(s) == next[s] = Count(s)
Sent == {s \in Signals : AllRelayed(s)}

\* Wrong form: the id alone.
KeyOfId(s) == ChunkId[s]

Key(s) == <<From[s], ChunkId[s]>>

\* Wrong form: one part too many.
NewBufLong(s) == [parts |-> [i \in 0..Total[s] |-> Empty], received |-> 0]

NewBuf(s) == [parts |-> [i \in 0..(Total[s] - 1) |-> Empty], received |-> 0]

BufOf(s) == IF Key(s) \in DOMAIN chunkBuf THEN chunkBuf[Key(s)] ELSE NewBuf(s)

Without(k) == [x \in DOMAIN chunkBuf \ {k} |-> chunkBuf[x]]
With(k, b) == [x \in DOMAIN chunkBuf \cup {k} |-> IF x = k THEN b ELSE chunkBuf[x]]

-----------------------------------------------------------------------------
(* The IRC server (external). *)

\* At most one open connection; the next one has the next number.
Dial == /\ \A c \in Conns : link[c] # "open"
        /\ \E c \in Conns : /\ link[c] = "none"
                            /\ \A d \in Conns : d < c => link[d] # "none"
                            /\ link' = [link EXCEPT ![c] = "open"]
        /\ UNCHANGED <<inq, handler, epoch, conn, connEpoch, chunkBuf, hold,
                       next, done, delivered, outbound>>

Hangup(c) == /\ link[c] = "open"
             /\ link' = [link EXCEPT ![c] = "closed"]
             /\ UNCHANGED <<inq, handler, epoch, conn, connEpoch, chunkBuf,
                            hold, next, done, delivered, outbound>>

\* The client's next piece; one that is numbered out of range takes the number
\* Total + i, so that every frame is sent once.
Relay(s) ==
  /\ next[s] < Count(s)
  /\ next' = [next EXCEPT ![s] = @ + 1]
  /\ \E i \in {next[s]} \cup IF s \in Garbled THEN {Total[s] + next[s]} ELSE {} :
       inq' = [c \in Conns |-> IF link[c] = "open"
                 THEN Append(inq[c], [sig |-> s, seq |-> i]) ELSE inq[c]]
  /\ UNCHANGED <<link, handler, epoch, conn, connEpoch, chunkBuf, hold, done,
                 delivered, outbound>>

-----------------------------------------------------------------------------
(* handleConn: the handler of connection c. *)

\* Under b.mu: close the connection in place, take its place.
Register(c) ==
  /\ handler[c] = "none" /\ link[c] # "none"
  /\ handler' = [handler EXCEPT ![c] = "reading"]
  /\ connEpoch' = connEpoch + 1
  /\ epoch' = [epoch EXCEPT ![c] = connEpoch + 1]
  /\ conn' = c
  /\ IF conn = 0 THEN UNCHANGED socket
     ELSE /\ link' = [link EXCEPT ![conn] = IF @ = "open" THEN "cut" ELSE @]
          /\ \E n \in 0..Len(inq[conn]) :
               inq' = [inq EXCEPT ![conn] = SubSeq(@, 1, n)]
  /\ UNCHANGED <<chunkBuf, hold, next, done, delivered, outbound>>

Assembled(s, b) == b.received >= Total[s]

InRange(s, i) == i < Total[s]

\* assembleChunk, under chunkMu: the result is nothing, or what to dispatch.
Assemble(c) ==
  /\ handler[c] = "reading" /\ hold[c] = <<>> /\ inq[c] # <<>>
  /\ LET f == Head(inq[c])
         s == f.sig
         k == Key(s)
         b == BufOf(s)
         b2 == [parts |-> [b.parts EXCEPT ![f.seq] = Piece(s, f.seq)],
                received |-> b.received + 1]
         env(t) == <<[from |-> From[s], sdp |-> t]>>
     IN /\ inq' = [inq EXCEPT ![c] = Tail(@)]
        /\ done' = done \cup {f}
        /\ \/ /\ Total[s] = 0
              /\ hold' = [hold EXCEPT ![c] = env([i \in {0} |-> Piece(s, f.seq)])]
              /\ UNCHANGED chunkBuf
           \/ /\ Total[s] > 0 /\ ~InRange(s, f.seq)
              /\ chunkBuf' = Without(k)
              /\ UNCHANGED hold
           \/ /\ Total[s] > 0 /\ InRange(s, f.seq) /\ b.parts[f.seq] # Empty
              /\ UNCHANGED <<chunkBuf, hold>>
           \/ /\ Total[s] > 0 /\ InRange(s, f.seq) /\ b.parts[f.seq] = Empty
              /\ ~Assembled(s, b2)
              /\ chunkBuf' = With(k, b2)
              /\ UNCHANGED hold
           \/ /\ Total[s] > 0 /\ InRange(s, f.seq) /\ b.parts[f.seq] = Empty
              /\ Assembled(s, b2)
              /\ chunkBuf' = Without(k)
              /\ hold' = [hold EXCEPT ![c] = env(b2.parts)]
  /\ UNCHANGED <<link, handler, epoch, conn, connEpoch, next, delivered, outbound>>

\* dispatch: the manager's handler is entered; VoiceManager has its steps.
Dispatch(c) ==
  /\ hold[c] # <<>>
  /\ delivered' = Append(delivered, hold[c][1])
  /\ hold' = [hold EXCEPT ![c] = <<>>]
  /\ UNCHANGED <<link, inq, handler, epoch, conn, connEpoch, chunkBuf, next,
                 done, outbound>>

\* Wrong form: the handler takes the connection in place for its own.
StillOursAlways(c) == TRUE

\* Wrong form: it never lets go.
StillOursNever(c) == FALSE

StillOurs(c) == epoch[c] = connEpoch

\* Give the connection up if it is still this one; the socket is closed.
LetGo(c) ==
  /\ handler' = [handler EXCEPT ![c] = "done"]
  /\ conn' = IF StillOurs(c) THEN 0 ELSE conn
  /\ UNCHANGED <<epoch, connEpoch, chunkBuf, hold, next, done, delivered, outbound>>

\* The end of the stream.
Finish(c) ==
  /\ handler[c] = "reading" /\ hold[c] = <<>> /\ inq[c] = <<>> /\ link[c] \in {"closed", "cut"}
  /\ LetGo(c)
  /\ UNCHANGED socket

\* The scanner gives up at a line over its limit of a megabyte, or at a read
\* error: whatever follows is lost with the connection.
ScanFails(c) ==
  /\ handler[c] = "reading" /\ hold[c] = <<>>
  /\ LetGo(c)
  /\ link' = [link EXCEPT ![c] = IF @ = "open" THEN "closed" ELSE @]
  /\ inq' = [inq EXCEPT ![c] = <<>>]

-----------------------------------------------------------------------------
(* send and sendChunked: the goroutine that sends o. *)

\* Wrong form: the pieces after a refused one are still sent.
RefusedGoesOn(o) == out[o] + 1

Refused(o) == -1

SendPiece(o) ==
  /\ 0 <= out[o] /\ out[o] < OutTotal[o]
  /\ IF conn # 0 /\ link[conn] = "open"
     THEN /\ written' = Append(written, [sig |-> o, seq |-> out[o]])
          /\ out' = [out EXCEPT ![o] = @ + 1]
     ELSE /\ out' = [out EXCEPT ![o] = Refused(o)]
          /\ UNCHANGED written
  /\ UNCHANGED <<link, inq, handler, epoch, conn, connEpoch, chunkBuf, hold,
                 next, done, delivered>>

-----------------------------------------------------------------------------
Init == /\ link = [c \in Conns |-> "none"]
        /\ inq = [c \in Conns |-> <<>>]
        /\ handler = [c \in Conns |-> "none"]
        /\ epoch = [c \in Conns |-> 0]
        /\ conn = 0
        /\ connEpoch = 0
        /\ chunkBuf = [k \in {} |-> Empty]
        /\ hold = [c \in Conns |-> <<>>]
        /\ next = [s \in Signals |-> 0]
        /\ done = {}
        /\ delivered = <<>>
        /\ out = [o \in Outs |-> 0]
        /\ written = <<>>

Handle(c) == Register(c) \/ Assemble(c) \/ Dispatch(c) \/ Finish(c)

Next == \/ Dial
        \/ \E c \in Conns : Hangup(c)
        \/ \E s \in Signals : Relay(s)
        \/ \E c \in Conns : Register(c)
        \/ \E c \in Conns : Assemble(c)
        \/ \E c \in Conns : Dispatch(c)
        \/ \E c \in Conns : Finish(c)
        \/ \E c \in Conns : ScanFails(c)
        \/ \E o \in Outs : SendPiece(o)

\* The Go scheduler runs every handler on; the IRC server owes nothing.
Fairness == \A c \in Conns : WF_vars(Handle(c))

Spec == Init /\ [][Next]_vars /\ Fairness

-----------------------------------------------------------------------------
(* Properties. *)

Buffer(s) == [parts : [0..(Total[s] - 1) -> {Empty} \cup {Piece(s, i) : i \in 0..Total[s]}],
              received : Nat]

\* Every variable has its type: the parts of a buffer are pieces of the one
\* signal whose sender and id are the buffer's key (assembleChunk).
TypeOK ==
  /\ link \in [Conns -> {"none", "open", "closed", "cut"}]
  /\ \A c \in Conns : \A i \in 1..Len(inq[c]) : inq[c][i] \in Frame
  /\ handler \in [Conns -> {"none", "reading", "done"}]
  /\ epoch \in [Conns -> 0..MaxConns]
  /\ conn \in 0..MaxConns /\ connEpoch \in 0..MaxConns
  /\ \A k \in DOMAIN chunkBuf :
       \E s \in Signals : k = Key(s) /\ chunkBuf[k] \in Buffer(s)
  /\ next \in [Signals -> Nat]
  /\ \A s \in Signals : next[s] <= Count(s)
  /\ out \in [Outs -> Int]

\* The manager is handed whole signals only, each at most once, although
\* their pieces come over several connections whose handlers overlap
\* (assembleChunk, handleConn).
Stream == INSTANCE SignalStream WITH sent <- Sent

\* A pair of overlapping handlers, a replaced connection and pieces of signals
\* that were cut short never make a signal whole twice or from foreign pieces.
WholeOnce == Stream!StreamSpec

\* The SFU talks to the connection that the IRC server listens on: once the
\* handler of an open connection has registered, no other handler that ends
\* takes it away (the epoch check of handleConn).  One thing does: the handler
\* of an earlier connection that registers late closes it and takes its place.
\* Nothing else cuts an open connection.
LiveIsCurrent ==
  \A c \in Conns :
    /\ link[c] = "open" /\ handler[c] = "reading" => conn = c
    /\ link[c] = "cut" => \E d \in 1..(c - 1) : epoch[d] > epoch[c]

\* The pieces of o written before the i-th one.
EarlierOf(o, i) == {j \in 1..(i - 1) : written[j].sig = o}

\* Whatever connections come and go while a split signal is being sent, the
\* pieces written are the first ones in order: none follows a refused piece
\* (the early return of sendChunked).
WrittenInOrder ==
  \A i \in 1..Len(written) :
    written[i].seq = Cardinality(EarlierOf(written[i].sig, i))

\* A handler whose connection is gone ends and lets go of it, so that signals
\* are refused instead of written to a dead socket, also when it is one that
\* registered late and took the place of the live connection.
DeadLetGo == \A c \in Conns :
  (link[c] \in {"closed", "cut"} /\ handler[c] = "reading") ~> (handler[c] = "done" /\ conn # c)
=============================================================================
