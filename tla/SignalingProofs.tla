-------------------------- MODULE SignalingProofs --------------------------
(***************************************************************************)
(* Proof about Signaling for any number of tracks and offers of the        *)
(* client, and any number of lost messages: the server never has two       *)
(* offers out, and waits for an answer exactly while it has one out, or    *)
(* the bridge has lost the offer or its answer.                            *)
(***************************************************************************)
EXTENDS Signaling, TLAPS, FiniteSetTheorems

Messages == [type : {"offer", "answer", "error"}, tracks : SUBSET Track]

Labels == {"idle", "check", "asleep", "mark", "create", "set", "send",
           "answer", "answer_send", "followup", "drain"}

Typed ==
  /\ senders \subseteq Track /\ mids \subseteq Track /\ offered \subseteq Track
  /\ th \in [Thread -> [at : Labels, tracks : SUBSET Track]]
  /\ toClient \in Seq(Messages) /\ toServer \in Seq(Messages)

\* A track that is not on the connection has no goroutine yet.
NotStarted == \A t \in Track : t \notin senders => At(t, "idle")

\* The connection has a remote offer exactly while the dispatcher answers it.
AnswersRemote == sig = "have_remote" <=> At(Dispatcher, "answer")

SInv == Typed /\ NotStarted /\ AnswersRemote /\ OneOfferOut

-----------------------------------------------------------------------------
(* Counting messages and goroutines. *)

Of(s, type) == {i \in DOMAIN s : s[i].type = type}

LEMMA CountNat ==
  ASSUME NEW s \in Seq(Messages), NEW type
  PROVE  /\ IsFiniteSet(Of(s, type)) /\ Count(s, type) = Cardinality(Of(s, type))
         /\ Count(s, type) \in Nat
  <1>1. IsFiniteSet(1..Len(s))
    BY FS_Interval
  <1>2. Of(s, type) \in SUBSET (1..Len(s))
    BY DEF Of
  <1>3. IsFiniteSet(Of(s, type))
    BY <1>1, <1>2, FS_Subset
  <1>. QED
    BY <1>3, FS_CardinalityType DEF Count, Of

LEMMA CountAppend ==
  ASSUME NEW s \in Seq(Messages), NEW m \in Messages, NEW type
  PROVE  Count(Append(s, m), type) = Count(s, type) + IF m.type = type THEN 1 ELSE 0
  <1>. DEFINE a == Append(s, m)
              n == Len(s) + 1
  <1>1. a \in Seq(Messages) /\ Len(a) = n /\ n \notin DOMAIN s /\ a[n] = m
    OBVIOUS
  <1>2. \A i \in 1..Len(s) : a[i] = s[i]
    OBVIOUS
  <1>3. DOMAIN a = 1..n /\ DOMAIN s = 1..Len(s)
    BY <1>1
  <1>. HIDE DEF a
  <1>4. CASE m.type = type
    <2>1. Of(a, type) = Of(s, type) \cup {n} /\ n \notin Of(s, type)
      BY <1>1, <1>2, <1>3, <1>4 DEF Of
    <2>2. Cardinality(Of(a, type)) = Cardinality(Of(s, type)) + 1
      BY <2>1, CountNat, FS_AddElement
    <2>. QED
      BY <1>1, <1>4, <2>2, CountNat DEF a
  <1>5. CASE m.type # type
    <2>1. Of(a, type) = Of(s, type)
      BY <1>1, <1>2, <1>3, <1>5 DEF Of
    <2>2. Count(a, type) = Count(s, type) /\ Count(s, type) \in Nat
      BY <1>1, <2>1, CountNat
    <2>. QED
      BY <1>5, <2>2 DEF a
  <1>. QED
    BY <1>4, <1>5

LEMMA CountTail ==
  ASSUME NEW s \in Seq(Messages), s # <<>>, NEW type
  PROVE  /\ Count(Tail(s), type) = Count(s, type) - IF Head(s).type = type THEN 1 ELSE 0
         /\ Tail(s) \in Seq(Messages)
  <1>. DEFINE a == Tail(s)
              S == Of(s, type) \ {1}
              T == Of(a, type)
              f == [i \in S |-> i - 1]
  <1>1. a \in Seq(Messages) /\ DOMAIN a = 1..(Len(s) - 1) /\ DOMAIN s = 1..Len(s) /\ Len(s) \in Nat \ {0}
    OBVIOUS
  <1>2. \A i \in 1..(Len(s) - 1) : a[i] = s[i + 1]
    OBVIOUS
  <1>. HIDE DEF a
  <1>3. f \in Bijection(S, T)
    <2>1. f \in [S -> T]
      BY <1>1, <1>2 DEF Of
    <2>2. \A i, j \in S : f[i] = f[j] => i = j
      BY <1>1 DEF Of
    <2>3. ASSUME NEW k \in T PROVE \E i \in S : f[i] = k
      <3>1. k + 1 \in S /\ k \in 1..(Len(s) - 1)
        BY <1>1, <1>2 DEF Of
      <3>. QED
        BY <3>1
    <2>. HIDE DEF f, S, T
    <2>. QED
      BY <2>1, <2>2, <2>3 DEF Bijection, Injection, Surjection, IsInjective
  <1>4. IsFiniteSet(S) /\ Cardinality(S) = IF 1 \in Of(s, type) THEN Count(s, type) - 1 ELSE Count(s, type)
    BY CountNat, FS_RemoveElement
  <1>5. Cardinality(T) = Cardinality(S)
    BY <1>3, <1>4, FS_Bijection DEF ExistsBijection
  <1>6. 1 \in Of(s, type) <=> Head(s).type = type
    BY <1>1 DEF Of
  <1>7. Count(a, type) = Cardinality(T)
    BY <1>1, CountNat
  <1>8. Count(s, type) \in Nat
    BY CountNat
  <1>. HIDE DEF S, T
  <1>. QED
    BY <1>1, <1>4, <1>5, <1>6, <1>7, <1>8 DEF a

Sending == {t \in Thread : At(t, "send")}

LEMMA SendingNat == IsFiniteSet(Sending) /\ Cardinality(Sending) \in Nat
  <1>1. IsFiniteSet(Followup)
    BY SignalingAssumption, FS_Interval DEF Followup
  <1>2. IsFiniteSet(Track \cup Followup)
    BY <1>1, SignalingAssumption, FS_Union
  <1>3. IsFiniteSet(Thread)
    BY <1>2, FS_AddElement DEF Thread
  <1>4. Sending \in SUBSET Thread
    BY DEF Sending
  <1>. QED
    BY <1>3, <1>4, FS_Subset, FS_CardinalityType

Out == Cardinality(Sending) + Count(toClient, "offer") + Count(toServer, "answer")

LEMMA OutIs == OffersOut = Out
  BY DEF OffersOut, Out, Sending

Gone == IF lost THEN 1 ELSE 0

LEMMA OutNat == Typed => Out \in Nat /\ Gone \in {0, 1} /\ (Gone = 1 <=> lost)
  BY CountNat, SendingNat DEF Typed, Out, Gone

LEMMA Balance == OneOfferOut <=> Out + Gone = IF sig = "have_local" THEN 1 ELSE 0
  BY OutIs DEF OneOfferOut, Gone

-----------------------------------------------------------------------------
(* Moves of goroutines. *)

Threads == [at : Labels, tracks : SUBSET Track]

\* Goroutine t goes to a place, and no other one moves.
Went(t, label) ==
  /\ th' \in [Thread -> Threads] /\ th'[t].at = label
  /\ \A u \in Thread : u # t => th'[u] = th[u]

LEMMA GotoFacts ==
  ASSUME Typed, NEW t \in Thread, NEW label \in Labels, Goto(t, label)
  PROVE  Went(t, label)
  BY DEF Typed, Goto, Went, Threads

LEMMA ReturnFacts ==
  ASSUME Typed, NEW t \in Thread, Return(t)
  PROVE  Went(t, "idle")
  BY DEF Typed, Return, Idle, Went, Threads, Labels

LEMMA SetFacts ==
  ASSUME Typed, NEW t \in Thread, NEW label \in Labels, NEW S \in SUBSET Track,
         th' = [th EXCEPT ![t] = [at |-> label, tracks |-> S]]
  PROVE  Went(t, label)
  BY DEF Typed, Went, Threads

LEMMA SendingKept ==
  ASSUME NEW t \in Thread, NEW label, Went(t, label), label # "send", ~At(t, "send")
  PROVE  Sending' = Sending
  BY DEF Sending, At, Went

\* What is out does not change when no offer is sent, received or answered.
LEMMA OutKept ==
  ASSUME OneOfferOut, Sending' = Sending,
         Count(toClient, "offer")' = Count(toClient, "offer"),
         Count(toServer, "answer")' = Count(toServer, "answer"),
         sig' = "have_local" <=> sig = "have_local", lost' = lost
  PROVE  OneOfferOut'
  BY OutIs DEF OneOfferOut, OffersOut, Sending

\* A goroutine other than the dispatcher's, or none of the places that count.
LEMMA ThreadsKept ==
  ASSUME NotStarted, AnswersRemote, NEW t \in Thread, NEW label, Went(t, label),
         senders \subseteq senders', t \in Track => t \in senders',
         sig' = "have_remote" <=> sig = "have_remote",
         t = Dispatcher => label # "answer" /\ ~At(t, "answer")
  PROVE  NotStarted' /\ AnswersRemote'
  <1>1. Dispatcher \in Thread /\ Track \subseteq Thread
    BY DEF Thread
  <1>2. NotStarted'
    BY <1>1 DEF NotStarted, At, Went
  <1>3. AnswersRemote'
    BY <1>1 DEF AnswersRemote, At, Went
  <1>. QED
    BY <1>2, <1>3

LEMMA Started ==
  ASSUME NotStarted, NEW t \in Thread, ~At(t, "idle")
  PROVE  t \in Track => t \in senders
  BY DEF NotStarted

-----------------------------------------------------------------------------
(* Steps. *)

LEMMA MessageIs ==
  ASSUME NEW type \in {"offer", "answer", "error"}, NEW S \in SUBSET Track
  PROVE  Message(type, S) \in Messages /\ Message(type, S).type = type
  BY DEF Message, Messages

\* Moves that touch no message and no description.
LEMMA QuietMove ==
  ASSUME SInv, NEW t \in Thread, NEW label, Went(t, label), label \notin {"send", "answer"},
         ~At(t, "send"), ~At(t, "answer"), ~At(t, "idle"),
         UNCHANGED <<sig, senders, mids, offered, toClient, toServer, lost>>
  PROVE  SInv'
  <1>1. Typed'
    BY DEF SInv, Typed, Went, Threads
  <1>2. NotStarted' /\ AnswersRemote'
    BY ThreadsKept, Started DEF SInv
  <1>3. OneOfferOut'
    BY SendingKept, OutKept DEF SInv, Count
  <1>. QED
    BY <1>1, <1>2, <1>3 DEF SInv

LEMMA PublishKeeps ==
  ASSUME SInv, NEW t \in Track, Publish(t)
  PROVE  SInv'
  <1>1. t \in Thread /\ t # Dispatcher
    BY SignalingAssumption DEF Thread
  <1>2. Went(t, "check")
    BY <1>1, GotoFacts DEF SInv, Publish, Labels
  <1>3. At(t, "idle")
    BY DEF Publish, SInv, NotStarted
  <1>4. Typed'
    BY <1>2 DEF SInv, Typed, Publish, Went, Threads
  <1>5. NotStarted' /\ AnswersRemote'
    BY <1>1, <1>2, ThreadsKept DEF SInv, Publish
  <1>6. OneOfferOut'
    BY <1>1, <1>2, <1>3, SendingKept, OutKept DEF SInv, Publish, Count, At, lossVars
  <1>. QED
    BY <1>4, <1>5, <1>6 DEF SInv

LEMMA RenegQuiet ==
  ASSUME SInv, NEW t \in Thread, RenegCheck(t) \/ RenegMark(t) \/ RenegCreate(t)
  PROVE  SInv'
  <1>1. ASSUME RenegCheck(t) PROVE SInv'
    <2>1. \E label \in {"create", "mark"} : Went(t, label)
      BY <1>1, GotoFacts DEF SInv, RenegCheck, Labels
    <2>. QED
      BY <1>1, <2>1, QuietMove DEF RenegCheck, At, pcVars, lossVars
  <1>2. ASSUME RenegMark(t) PROVE SInv'
    BY <1>2, ReturnFacts, QuietMove DEF SInv, RenegMark, At, pcVars, lossVars
  <1>3. ASSUME RenegCreate(t) PROVE SInv'
    <2>1. Went(t, "set")
      BY <1>3, SetFacts DEF SInv, Typed, RenegCreate, Labels
    <2>. QED
      BY <1>3, <2>1, QuietMove DEF RenegCreate, At, lossVars
  <1>. QED
    BY <1>1, <1>2, <1>3

LEMMA RenegSetKeeps ==
  ASSUME SInv, NEW t \in Thread, RenegSet(t)
  PROVE  SInv'
  <1>1. CASE ~MaySetLocal(t)
    BY <1>1, ReturnFacts, QuietMove DEF SInv, RenegSet, At, lossVars
  <1>2. CASE MaySetLocal(t)
    <2>1. /\ At(t, "set") /\ sig = "stable" /\ sig' = "have_local" /\ offered' = th[t].tracks
          /\ UNCHANGED <<senders, mids, toClient, toServer, lost>>
      BY <1>2 DEF RenegSet, MaySetLocal, lossVars
    <2>2. Went(t, "send")
      BY <1>2, GotoFacts DEF SInv, RenegSet, Labels
    <2>3. Typed'
      BY <2>1, <2>2 DEF SInv, Typed, Went, Threads
    <2>4. NotStarted' /\ AnswersRemote'
      BY <2>1, <2>2, ThreadsKept, Started DEF SInv, At
    <2>5. Sending' = Sending \cup {t} /\ t \notin Sending
      BY <2>1, <2>2 DEF Sending, At, Went
    <2>6. Cardinality(Sending') = Cardinality(Sending) + 1
      BY <2>5, SendingNat, FS_AddElement
    <2>7. Out = 0 /\ ~lost
      BY <2>1, Balance, OutNat DEF SInv
    <2>8. Count(toClient, "offer")' = Count(toClient, "offer")
          /\ Count(toServer, "answer")' = Count(toServer, "answer")
      BY <2>1 DEF Count
    <2>9. Cardinality(Sending)' = Cardinality(Sending) + 1
      BY <2>6
    <2>10. Count(toClient, "offer") \in Nat /\ Count(toServer, "answer") \in Nat
           /\ Cardinality(Sending) \in Nat
      BY CountNat, SendingNat DEF SInv, Typed
    <2>11. OffersOut' = 1
      BY <2>7, <2>8, <2>9, <2>10 DEF OffersOut, Out, Sending
    <2>. QED
      BY <2>1, <2>3, <2>4, <2>7, <2>11 DEF SInv, OneOfferOut
  <1>. QED
    BY <1>1, <1>2

LEMMA RenegSendKeeps ==
  ASSUME SInv, NEW t \in Thread, RenegSend(t)
  PROVE  SInv'
  <1>. DEFINE m == Message("offer", th[t].tracks)
  <1>1. /\ At(t, "send") /\ UNCHANGED <<sig, senders, mids, offered, toServer>>
        /\ \/ toClient' = Append(toClient, m) /\ lost' = lost
           \/ toClient' = toClient /\ lost' = TRUE
    BY DEF RenegSend, Send, Drop, pcVars
  <1>2. Went(t, "idle")
    BY ReturnFacts DEF SInv, RenegSend
  <1>3. m \in Messages /\ m.type = "offer"
    BY MessageIs DEF SInv, Typed
  <1>. HIDE DEF m
  <1>4. Typed'
    <2>1. toClient' \in Seq(Messages)
      <3>1. toClient \in Seq(Messages)
        BY DEF SInv, Typed
      <3>2. Append(toClient, m) \in Seq(Messages)
        BY <1>3, <3>1
      <3>. QED
        BY <1>1, <3>1, <3>2
    <2>. QED
      BY <1>1, <1>2, <2>1 DEF SInv, Typed, Went, Threads
  <1>5. NotStarted' /\ AnswersRemote'
    BY <1>1, <1>2, ThreadsKept, Started DEF SInv, At
  <1>6. Sending' = Sending \ {t} /\ t \in Sending
    BY <1>1, <1>2 DEF Sending, At, Went
  <1>7. Cardinality(Sending)' = Cardinality(Sending) - 1
    BY <1>6, SendingNat, FS_RemoveElement
  <1>8. Count(toServer, "answer")' = Count(toServer, "answer")
    BY <1>1 DEF Count
  <1>9. Count(toClient, "offer") \in Nat /\ Count(toServer, "answer") \in Nat
        /\ Cardinality(Sending) \in Nat
    BY CountNat, SendingNat DEF SInv, Typed
  <1>10. CASE toClient' = Append(toClient, m) /\ lost' = lost
    <2>1. Count(Append(toClient, m), "offer") = Count(toClient, "offer") + 1
      BY <1>3, CountAppend DEF SInv, Typed
    <2>2. Count(toClient, "offer")' = Count(toClient, "offer") + 1
      BY <1>10, <2>1 DEF Count
    <2>3. OffersOut' = OffersOut
      BY <1>7, <1>8, <1>9, <2>2 DEF OffersOut, Sending
    <2>. QED
      BY <1>1, <1>4, <1>5, <1>10, <2>3 DEF SInv, OneOfferOut
  <1>11. CASE toClient' = toClient /\ lost' = TRUE
    <2>1. Count(toClient, "offer")' = Count(toClient, "offer")
      BY <1>11 DEF Count
    <2>2. Cardinality(Sending) # 0
      BY <1>6, SendingNat, FS_EmptySet
    <2>3. Out = 1 /\ sig = "have_local"
      <3>1. Out >= 1
        BY <1>9, <2>2 DEF Out
      <3>. QED
        BY <3>1, Balance, OutNat DEF SInv
    <2>4. OffersOut' = 0
      BY <1>7, <1>8, <1>9, <2>1, <2>3 DEF OffersOut, Out, Sending
    <2>. QED
      BY <1>1, <1>4, <1>5, <1>11, <2>3, <2>4 DEF SInv, OneOfferOut
  <1>. QED
    BY <1>1, <1>10, <1>11

\* Steps that move no goroutine.
LEMMA Stays ==
  ASSUME SInv, UNCHANGED <<sig, senders, mids, offered, th>>,
         toClient' \in Seq(Messages), toServer' \in Seq(Messages),
         Count(toClient, "offer")' + Count(toServer, "answer")' + Gone'
           = Count(toClient, "offer") + Count(toServer, "answer") + Gone
  PROVE  SInv'
  <1>1. Typed' /\ NotStarted' /\ AnswersRemote'
    BY DEF SInv, Typed, NotStarted, AnswersRemote, At
  <1>2. Cardinality(Sending)' = Cardinality(Sending)
    BY DEF Sending, At
  <1>3. Count(toClient, "offer") \in Nat /\ Count(toServer, "answer") \in Nat
        /\ Cardinality(Sending) \in Nat
    BY CountNat, SendingNat DEF SInv, Typed
  <1>4. Count(toClient', "offer") \in Nat /\ Count(toServer', "answer") \in Nat
    BY CountNat
  <1>5. Count(toClient, "offer")' \in Nat /\ Count(toServer, "answer")' \in Nat
    BY <1>4 DEF Count
  <1>6. Gone \in Int /\ Gone' \in Int
    BY DEF Gone
  <1>7. OffersOut = Cardinality(Sending) + Count(toClient, "offer") + Count(toServer, "answer")
        /\ OffersOut' = Cardinality(Sending)' + Count(toClient, "offer")'
                         + Count(toServer, "answer")'
    BY DEF OffersOut, Sending
  <1>8. OffersOut' + Gone' = OffersOut + Gone
    <2>1. OffersOut' = Cardinality(Sending) + Count(toClient, "offer")'
                        + Count(toServer, "answer")'
      BY <1>2, <1>7
    <2>2. Count(toClient, "offer")' + Count(toServer, "answer")' + Gone'
            = Count(toClient, "offer") + Count(toServer, "answer") + Gone
      OBVIOUS
    <2>3. (Cardinality(Sending) + Count(toClient, "offer")' + Count(toServer, "answer")') + Gone'
            = (Cardinality(Sending) + Count(toClient, "offer") + Count(toServer, "answer")) + Gone
      BY <1>3, <1>5, <1>6, <2>2, SMTT(60)
    <2>. QED
      BY <1>7, <2>1, <2>3
  <1>. QED
    BY <1>1, <1>8 DEF SInv, OneOfferOut, Gone

LEMMA ServerReads ==
  ASSUME SInv, NEW type, Arrived(type)
  PROVE  /\ toServer' \in Seq(Messages) /\ At(Dispatcher, "idle")
         /\ Count(toServer, "answer")'
              = Count(toServer, "answer") - IF type = "answer" THEN 1 ELSE 0
  <1>1. /\ toServer # <<>> /\ toServer' = Tail(toServer) /\ Head(toServer).type = type
        /\ At(Dispatcher, "idle")
    BY DEF Arrived
  <1>2. /\ Count(Tail(toServer), "answer")
             = Count(toServer, "answer") - IF type = "answer" THEN 1 ELSE 0
        /\ Tail(toServer) \in Seq(Messages)
    BY <1>1, CountTail DEF SInv, Typed
  <1>. QED
    BY <1>1, <1>2 DEF Count

\* A message to the client that is no offer.
LEMMA Tells ==
  ASSUME SInv, NEW type \in {"answer", "error"}, NEW S \in SUBSET Track,
         toClient' = Append(toClient, Message(type, S))
  PROVE  /\ toClient' \in Seq(Messages)
         /\ Count(toClient, "offer")' = Count(toClient, "offer")
  <1>1. Message(type, S) \in Messages /\ Message(type, S).type = type
    BY MessageIs
  <1>2. Count(Append(toClient, Message(type, S)), "offer") = Count(toClient, "offer") + 0
    BY <1>1, CountAppend DEF SInv, Typed
  <1>3. Count(toClient, "offer") \in Nat
    BY CountNat DEF SInv, Typed
  <1>4. Count(toClient', "offer") = Count(toClient, "offer")
    BY <1>2, <1>3
  <1>5. toClient' \in Seq(Messages)
    BY <1>1 DEF SInv, Typed
  <1>. QED
    BY <1>4, <1>5 DEF Count

LEMMA OfferRemoteKeeps ==
  ASSUME SInv, OfferRemote
  PROVE  SInv'
  <1>1. /\ toServer' \in Seq(Messages) /\ At(Dispatcher, "idle")
        /\ Count(toServer, "answer")' = Count(toServer, "answer")
    <2>1. Count(toServer, "answer") \in Nat
      BY CountNat DEF SInv, Typed
    <2>. QED
      BY <2>1, ServerReads DEF OfferRemote
  <1>2. CASE sig # "stable"
    <2>1. UNCHANGED <<sig, senders, mids, offered, th, lost>>
      BY <1>2 DEF OfferRemote
    <2>2. CASE toClient' = toClient
      BY <1>1, <2>1, <2>2, Stays DEF SInv, Typed, Count, Gone
    <2>3. CASE toClient' = Append(toClient, Message("error", {}))
      <3>1. /\ toClient' \in Seq(Messages)
            /\ Count(toClient, "offer")' = Count(toClient, "offer")
        BY <2>3, Tells
      <3>. QED
        BY <1>1, <2>1, <3>1, Stays DEF Gone
    <2>. QED
      BY <1>2, <2>2, <2>3 DEF OfferRemote, Send, Drop
  <1>3. CASE sig = "stable"
    <2>1. sig' = "have_remote" /\ UNCHANGED <<senders, mids, offered, toClient, lost>>
      BY <1>3 DEF OfferRemote
    <2>2. Dispatcher \in Thread /\ Track \subseteq Thread /\ Dispatcher \notin Track
      BY SignalingAssumption DEF Thread
    <2>3. Went(Dispatcher, "answer")
      BY <1>3, <2>2, GotoFacts DEF SInv, OfferRemote, Labels
    <2>4. Typed'
      BY <1>1, <2>1, <2>3 DEF SInv, Typed, Went, Threads
    <2>5. NotStarted' /\ AnswersRemote'
      BY <2>1, <2>2, <2>3 DEF SInv, NotStarted, AnswersRemote, At, Went
    <2>6. Sending' = Sending
      BY <1>1, <2>2, <2>3, SendingKept DEF At
    <2>7. Count(toClient, "offer")' = Count(toClient, "offer")
      BY <2>1 DEF Count
    <2>8. OneOfferOut'
      BY <1>1, <1>3, <2>1, <2>6, <2>7, OutKept DEF SInv
    <2>. QED
      BY <2>4, <2>5, <2>8 DEF SInv
  <1>. QED
    BY <1>2, <1>3

LEMMA OfferAnswerKeeps ==
  ASSUME SInv, OfferAnswer
  PROVE  SInv'
  <1>1. PICK S \in SUBSET (senders \ mids) :
          /\ mids' = mids \cup S
          /\ th' = [th EXCEPT ![Dispatcher] = [at |-> "answer_send", tracks |-> mids \cup S]]
    BY DEF OfferAnswer
  <1>2. Dispatcher \in Thread /\ Track \subseteq Thread /\ Dispatcher \notin Track
    BY SignalingAssumption DEF Thread
  <1>3. mids \cup S \subseteq Track
    BY DEF SInv, Typed
  <1>4. Went(Dispatcher, "answer_send")
    BY <1>1, <1>2, <1>3, SetFacts DEF SInv, Labels
  <1>5. /\ At(Dispatcher, "answer") /\ sig' = "stable"
        /\ UNCHANGED <<senders, offered, toClient, toServer, lost>>
    BY DEF OfferAnswer, lossVars
  <1>6. sig = "have_remote"
    BY <1>5 DEF SInv, AnswersRemote
  <1>7. Typed'
    BY <1>1, <1>3, <1>4, <1>5 DEF SInv, Typed, Went, Threads
  <1>8. NotStarted' /\ AnswersRemote'
    BY <1>2, <1>4, <1>5 DEF SInv, NotStarted, AnswersRemote, At, Went
  <1>9. OneOfferOut'
    BY <1>2, <1>4, <1>5, <1>6, SendingKept, OutKept DEF SInv, At, Count
  <1>. QED
    BY <1>7, <1>8, <1>9 DEF SInv

LEMMA OfferReplyKeeps ==
  ASSUME SInv, OfferReply
  PROVE  SInv'
  <1>1. Dispatcher \in Thread /\ Track \subseteq Thread /\ Dispatcher \notin Track
    BY SignalingAssumption DEF Thread
  <1>2. /\ At(Dispatcher, "answer_send")
        /\ UNCHANGED <<sig, senders, mids, offered, toServer, lost>>
        /\ \/ toClient' = Append(toClient, Message("answer", th[Dispatcher].tracks))
           \/ toClient' = toClient
    BY DEF OfferReply, Send, Drop, pcVars
  <1>3. th[Dispatcher].tracks \in SUBSET Track
    BY <1>1 DEF SInv, Typed
  <1>4. toClient' \in Seq(Messages) /\ Count(toClient, "offer")' = Count(toClient, "offer")
    <2>1. CASE toClient' = toClient
      BY <2>1 DEF SInv, Typed, Count
    <2>. QED
      BY <1>2, <1>3, <2>1, Tells
  <1>5. Went(Dispatcher, "followup")
    BY <1>1, GotoFacts DEF SInv, OfferReply, Labels
  <1>6. Typed'
    BY <1>2, <1>4, <1>5 DEF SInv, Typed, Went, Threads
  <1>7. NotStarted' /\ AnswersRemote'
    BY <1>1, <1>2, <1>5, ThreadsKept DEF SInv, At
  <1>8. Sending' = Sending
    BY <1>1, <1>2, <1>5, SendingKept DEF At
  <1>9. OneOfferOut'
    BY <1>2, <1>4, <1>8, OutKept DEF SInv, Count
  <1>. QED
    BY <1>6, <1>7, <1>9 DEF SInv

LEMMA OfferFollowupKeeps ==
  ASSUME SInv, OfferFollowup
  PROVE  SInv'
  <1>1. Dispatcher \in Thread /\ Followup \subseteq Thread /\ Track \subseteq Thread
        /\ Dispatcher \notin Track \cup Followup /\ Track \cap Followup = {}
    BY SignalingAssumption DEF Thread
  <1>2. /\ At(Dispatcher, "followup")
        /\ UNCHANGED <<sig, senders, mids, offered, toClient, toServer, lost>>
    BY DEF OfferFollowup, pcVars, lossVars
  <1>3. CASE senders \ mids = {}
    BY <1>1, <1>2, <1>3, ReturnFacts, QuietMove DEF SInv, OfferFollowup, At
  <1>4. CASE senders \ mids # {}
    <2>1. PICK k \in Followup : /\ At(k, "idle")
                                /\ th' = [th EXCEPT ![Dispatcher] = Idle, ![k].at = "asleep"]
      BY <1>4 DEF OfferFollowup
    <2>2. /\ th' \in [Thread -> Threads] /\ th'[Dispatcher].at = "idle" /\ th'[k].at = "asleep"
          /\ \A u \in Thread : u # Dispatcher /\ u # k => th'[u] = th[u]
      BY <1>1, <2>1 DEF SInv, Typed, Threads, Labels, Idle
    <2>3. Typed'
      BY <1>2, <2>2 DEF SInv, Typed, Threads
    <2>4. NotStarted' /\ AnswersRemote'
      BY <1>1, <1>2, <2>2 DEF SInv, NotStarted, AnswersRemote, At
    <2>5. Sending' = Sending
      BY <1>1, <1>2, <2>1, <2>2 DEF Sending, At
    <2>6. OneOfferOut'
      BY <1>2, <2>5, OutKept DEF SInv, Count
    <2>. QED
      BY <2>3, <2>4, <2>6 DEF SInv
  <1>. QED
    BY <1>3, <1>4

\* An answer is under way only while the connection waits for it.
LEMMA AnswerRemoteKeeps ==
  ASSUME SInv, AnswerRemote
  PROVE  SInv'
  <1>1. Dispatcher \in Thread /\ Track \subseteq Thread /\ Dispatcher \notin Track
    BY SignalingAssumption DEF Thread
  <1>2. /\ toServer' \in Seq(Messages) /\ At(Dispatcher, "idle")
        /\ Count(toServer, "answer")' = Count(toServer, "answer") - 1
    BY ServerReads DEF AnswerRemote
  <1>3. Count(toClient, "offer") \in Nat /\ Count(toServer, "answer") \in Nat
        /\ Cardinality(Sending) \in Nat
    BY CountNat, SendingNat DEF SInv, Typed
  <1>4. Count(toServer', "answer") \in Nat
    BY <1>2, CountNat
  <1>5. Count(toServer, "answer")' \in Nat
    BY <1>4 DEF Count
  <1>6. Out >= 1
    BY <1>2, <1>3, <1>5 DEF Out
  <1>7. sig = "have_local" /\ Out = 1 /\ ~lost
    BY <1>6, Balance, OutNat DEF SInv
  <1>8. /\ sig' = "stable" /\ mids' = mids \cup offered
        /\ UNCHANGED <<senders, offered, toClient, lost>>
    BY <1>7 DEF AnswerRemote, lossVars
  <1>9. Went(Dispatcher, "drain")
    BY <1>1, <1>7, GotoFacts DEF SInv, AnswerRemote, Labels
  <1>10. Typed'
    BY <1>2, <1>8, <1>9 DEF SInv, Typed, Went, Threads
  <1>11. NotStarted' /\ AnswersRemote'
    BY <1>1, <1>2, <1>7, <1>8, <1>9, ThreadsKept DEF SInv, At
  <1>12. Cardinality(Sending)' = Cardinality(Sending)
    BY <1>1, <1>2, <1>9, SendingKept DEF At
  <1>13. Count(toClient, "offer")' = Count(toClient, "offer")
    BY <1>8 DEF Count
  <1>14. OffersOut' = 0
    BY <1>2, <1>3, <1>7, <1>12, <1>13 DEF OffersOut, Out, Sending
  <1>. QED
    BY <1>7, <1>8, <1>10, <1>11, <1>14 DEF SInv, OneOfferOut

LEMMA AnswerDrainKeeps ==
  ASSUME SInv, AnswerDrain
  PROVE  SInv'
  <1>1. Dispatcher \in Thread
    BY DEF Thread
  <1>2. Went(Dispatcher, "check") \/ Went(Dispatcher, "idle")
    BY <1>1, GotoFacts, ReturnFacts DEF SInv, AnswerDrain, Labels
  <1>. QED
    BY <1>1, <1>2, QuietMove DEF AnswerDrain, At, pcVars, lossVars

LEMMA ClientOfferKeeps ==
  ASSUME SInv, ClientOffer
  PROVE  SInv'
  <1>. DEFINE m == Message("offer", {})
  <1>1. /\ UNCHANGED <<sig, senders, mids, offered, th, toClient, lost>>
        /\ toServer' = Append(toServer, m) \/ toServer' = toServer
    BY DEF ClientOffer, pcVars
  <1>2. m \in Messages /\ m.type = "offer"
    BY MessageIs
  <1>. HIDE DEF m
  <1>3. Count(toServer, "answer") \in Nat
    BY CountNat DEF SInv, Typed
  <1>4. Count(Append(toServer, m), "answer") = Count(toServer, "answer") + 0
    BY <1>2, CountAppend DEF SInv, Typed
  <1>5. Count(Append(toServer, m), "answer") = Count(toServer, "answer")
    BY <1>3, <1>4
  <1>6. Count(toServer, "answer")' = Count(toServer, "answer")
    BY <1>1, <1>5 DEF Count
  <1>7. Count(toClient, "offer")' = Count(toClient, "offer") /\ Gone' = Gone
    BY <1>1 DEF Count, Gone
  <1>8. toServer' \in Seq(Messages) /\ toClient' \in Seq(Messages)
    BY <1>1, <1>2 DEF SInv, Typed
  <1>. QED
    BY <1>1, <1>6, <1>7, <1>8, Stays

LEMMA ClientReceiveKeeps ==
  ASSUME SInv, ClientReceive
  PROVE  SInv'
  <1>. DEFINE m == Message("answer", {})
              offer == Head(toClient).type = "offer"
  <1>1. /\ toClient # <<>> /\ toClient' = Tail(toClient)
        /\ UNCHANGED <<sig, senders, mids, offered, th>>
        /\ \/ offer /\ toServer' = Append(toServer, m) /\ lost' = lost
           \/ offer /\ toServer' = toServer /\ lost' = TRUE
           \/ ~offer /\ toServer' = toServer /\ lost' = lost
    BY DEF ClientReceive, Drop, pcVars
  <1>2. m \in Messages /\ m.type = "answer"
    BY MessageIs
  <1>. HIDE DEF m
  <1>3. Count(toServer, "answer") \in Nat /\ Count(toClient, "offer") \in Nat
        /\ Cardinality(Sending) \in Nat
    BY CountNat, SendingNat DEF SInv, Typed
  <1>4. /\ Count(Tail(toClient), "offer") = Count(toClient, "offer") - IF offer THEN 1 ELSE 0
        /\ Tail(toClient) \in Seq(Messages)
    BY <1>1, CountTail DEF SInv, Typed
  <1>5. Count(toClient, "offer")' = Count(toClient, "offer") - IF offer THEN 1 ELSE 0
    BY <1>1, <1>4 DEF Count
  <1>6. Count(Append(toServer, m), "answer") = Count(toServer, "answer") + 1
    BY <1>2, CountAppend DEF SInv, Typed
  <1>7. toServer \in Seq(Messages) /\ Append(toServer, m) \in Seq(Messages)
    BY <1>2 DEF SInv, Typed
  <1>8. toServer' \in Seq(Messages) /\ toClient' \in Seq(Messages)
    BY <1>1, <1>4, <1>7
  <1>9. offer => Gone = 0
    <2>1. Count(Tail(toClient), "offer") \in Nat
      BY <1>4, CountNat
    <2>2. offer => Out >= 1
      BY <1>3, <1>4, <2>1 DEF Out
    <2>. QED
      BY <2>2, Balance, OutNat DEF SInv
  <1>10. Gone \in {0, 1}
    BY DEF Gone
  <1>. HIDE DEF offer
  <1>11. CASE offer /\ toServer' = Append(toServer, m) /\ lost' = lost
    <2>1. Count(toServer, "answer")' = Count(toServer, "answer") + 1 /\ Gone' = Gone
      BY <1>6, <1>11 DEF Count, Gone
    <2>. QED
      BY <1>1, <1>3, <1>5, <1>8, <1>10, <1>11, <2>1, Stays
  <1>12. CASE offer /\ toServer' = toServer /\ lost' = TRUE
    <2>1. Count(toServer, "answer")' = Count(toServer, "answer") /\ Gone' = 1
      BY <1>12 DEF Count, Gone
    <2>. QED
      BY <1>1, <1>3, <1>5, <1>8, <1>9, <1>12, <2>1, Stays
  <1>13. CASE ~offer /\ toServer' = toServer /\ lost' = lost
    <2>1. Count(toServer, "answer")' = Count(toServer, "answer") /\ Gone' = Gone
      BY <1>13 DEF Count, Gone
    <2>. QED
      BY <1>1, <1>3, <1>5, <1>8, <1>10, <1>13, <2>1, Stays
  <1>. QED
    BY <1>1, <1>11, <1>12, <1>13

-----------------------------------------------------------------------------

LEMMA InitSInv == Init => SInv
  <1>. SUFFICES ASSUME Init PROVE SInv
    OBVIOUS
  <1>1. Dispatcher \in Thread /\ Track \subseteq Thread
    BY DEF Thread
  <1>2. \A t \in Thread : th[t] = Idle
    BY DEF Init
  <1>3. Typed
    BY SignalingAssumption DEF Init, Typed, Idle, Labels
  <1>4. NotStarted /\ AnswersRemote
    BY <1>1, <1>2 DEF Init, NotStarted, AnswersRemote, At, Idle
  <1>5. Sending = {}
    BY <1>2 DEF Sending, At, Idle
  <1>6. Of(toClient, "offer") = {} /\ Of(toServer, "answer") = {}
    BY DEF Init, Of
  <1>7. Out = 0
    <2>1. Count(toClient, "offer") = Cardinality({}) /\ Count(toServer, "answer") = Cardinality({})
      BY <1>6 DEF Count, Of
    <2>. QED
      BY <1>5, <2>1, FS_EmptySet DEF Out
  <1>. QED
    BY <1>3, <1>4, <1>7, Balance DEF SInv, Gone, Init

LEMMA NextSInv == SInv /\ [Next]_vars => SInv'
  <1>. SUFFICES ASSUME SInv, [Next]_vars PROVE SInv'
    OBVIOUS
  <1>1. CASE UNCHANGED vars
    BY <1>1, Stays DEF vars, SInv, Typed, Count, Gone
  <1>2. ASSUME NEW t \in Thread, Reneg(t) PROVE SInv'
    BY <1>2, RenegQuiet, RenegSetKeeps, RenegSendKeeps DEF Reneg
  <1>3. CASE Dispatch
    BY <1>3, OfferRemoteKeeps, OfferAnswerKeeps, OfferReplyKeeps, OfferFollowupKeeps,
       AnswerRemoteKeeps, AnswerDrainKeeps DEF Dispatch
  <1>. QED
    BY <1>1, <1>2, <1>3, PublishKeeps, ClientOfferKeeps, ClientReceiveKeeps DEF Next

\* However the callers of renegotiateFor overlap, which holds no lock from its
\* test of the signaling state to SetLocalDescription, and whatever the bridge
\* loses, a connection that waits for an answer has one offer out, or one whose
\* exchange the bridge lost, and a stable one has neither.
THEOREM ServerOffersOnce == Spec => []OneOfferOut
  <1>1. SInv => OneOfferOut
    BY DEF SInv
  <1>. QED
    BY <1>1, InitSInv, NextSInv, PTL DEF Spec
=============================================================================
