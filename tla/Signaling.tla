------------------------------ MODULE Signaling ------------------------------
(***************************************************************************)
(* Offer/answer signaling between the SFU and one member (voice.go):       *)
(* handleOffer, handleClientAnswer, renegotiateFor, and the publishers     *)
(* whose fanOutTrack adds a sender to the member's PeerConnection.         *)
(*                                                                         *)
(* The member stays in the room.  A publisher's fan-out goroutine, the     *)
(* bridge dispatcher and the delayed follow-up goroutines of handleOffer   *)
(* all call renegotiateFor, which holds no lock from its test of the       *)
(* signaling state to SetLocalDescription.  The PeerConnection (pion) and  *)
(* the client are external: what is modelled of them is what voice.go      *)
(* relies on.  A client answers every server offer (rolling back one of    *)
(* its own if it must) and messages arrive in the order they were sent, if *)
(* at all: m.send logs the error of a bridge that is down and goes on, and *)
(* what the client says while it is down does not get here either.         *)
(***************************************************************************)
EXTENDS Integers, Sequences, FiniteSets

CONSTANTS Track,      \* tracks published by other members
          Early,      \* those published before this member joined
          Dispatcher, \* the bridge connection's goroutine
          Slots,      \* how many unannounced senders fit in an answer
          MaxOffers,  \* bound: offers the client makes
          MaxLosses   \* bound: messages the bridge loses

Followup == 1..MaxOffers
Thread   == Track \cup Followup \cup {Dispatcher}

ASSUME SignalingAssumption ==
    /\ IsFiniteSet(Track) /\ Early \subseteq Track
    /\ Dispatcher \notin Track \cup Followup
    /\ Track \cap Followup = {}
    /\ Slots \in Nat /\ MaxOffers \in Nat \ {0} /\ MaxLosses \in Nat

VARIABLES
    sig,      \* pc.SignalingState
    senders,  \* tracks with an RTPSender on the PeerConnection
    mids,     \* those announced in an applied description
    offered,  \* the tracks of the local description being offered
    lastOffer,\* the goroutine whose CreateOffer was the last one
    pending,  \* peer.pendingRenegotiate
    th,       \* goroutines: where they are and the tracks of their offer
    toClient, toServer,  \* messages under way
    csig,     \* the client's signaling state
    heard,    \* tracks announced to the client
    offers,   \* offers the client has made
    losses,   \* messages lost so far
    lost,     \* ghost: the server's offer, or the answer to it, was lost
    missed,   \* ghost: tracks an answer to the client was to announce, but was lost
    givenUp   \* ghost: a renegotiation ended with nothing left to repeat it

vars == <<sig, senders, mids, offered, lastOffer, pending, th, toClient, toServer,
          csig, heard, offers, losses, lost, missed, givenUp>>
pcVars     == <<sig, senders, mids, offered, lastOffer>>
clientVars == <<csig, heard, offers>>
lossVars   == <<losses, lost, missed>>

Message(type, S) == [type |-> type, tracks |-> S]

\* m.send: the message is written to the bridge, or an error is logged.
Send(msg) == toClient' = Append(toClient, msg) /\ UNCHANGED losses
Drop == losses < MaxLosses /\ losses' = losses + 1

Idle == [at |-> "idle", tracks |-> {}]
At(t, label) == th[t].at = label
Goto(t, label) == th' = [th EXCEPT ![t].at = label]
Return(t) == th' = [th EXCEPT ![t] = Idle]

-----------------------------------------------------------------------------
(* fanOutTrack: AddTrack on this member's connection, then renegotiateFor *)

Publish(t) ==
    /\ t \notin senders
    /\ senders' = senders \cup {t}
    /\ Goto(t, "check")
    /\ UNCHANGED <<sig, mids, offered, lastOffer, pending, toClient, toServer,
                   clientVars, lossVars, givenUp>>

-----------------------------------------------------------------------------
(* renegotiateFor, called by any goroutine *)

RenegCheck(t) ==
    /\ At(t, "check") \/ At(t, "asleep")
    /\ Goto(t, IF sig = "stable" THEN "create" ELSE "mark")
    /\ UNCHANGED <<pcVars, pending, toClient, toServer, clientVars, lossVars, givenUp>>

RenegMark(t) ==
    /\ At(t, "mark")
    /\ pending' = TRUE
    /\ givenUp' = (givenUp \/ (sig # "have_local" /\ ~At(Dispatcher, "drain")))
    /\ Return(t)
    /\ UNCHANGED <<pcVars, toClient, toServer, clientVars, lossVars>>

RenegCreate(t) ==
    /\ At(t, "create")
    /\ th' = [th EXCEPT ![t] = [at |-> "set", tracks |-> senders]]
    /\ lastOffer' = t
    /\ UNCHANGED <<sig, senders, mids, offered, pending, toClient, toServer,
                   clientVars, lossVars, givenUp>>

\* SetLocalDescription fails unless the connection is stable and the offer is
\* the last one created; the failure is logged and the call returns.
MaySetLocal(t) == sig = "stable" /\ lastOffer = t

RenegSetUnsent(t) ==
    /\ At(t, "set")
    /\ IF MaySetLocal(t)
       THEN sig' = "have_local" /\ offered' = th[t].tracks
       ELSE UNCHANGED <<sig, offered>>
    /\ Return(t)
    /\ UNCHANGED <<givenUp, senders, mids, lastOffer, pending, toClient, toServer, clientVars, lossVars>>
RenegSetSendsAnyway(t) ==
    /\ At(t, "set")
    /\ IF MaySetLocal(t)
       THEN sig' = "have_local" /\ offered' = th[t].tracks
       ELSE UNCHANGED <<sig, offered>>
    /\ Goto(t, "send")
    /\ UNCHANGED <<givenUp, senders, mids, lastOffer, pending, toClient, toServer, clientVars, lossVars>>
RenegSet(t) ==
    /\ At(t, "set")
    /\ IF MaySetLocal(t)
       THEN sig' = "have_local" /\ offered' = th[t].tracks /\ Goto(t, "send")
       ELSE Return(t) /\ UNCHANGED <<sig, offered>>
    /\ givenUp' = (givenUp \/ ~MaySetLocal(t))
    /\ UNCHANGED <<senders, mids, lastOffer, pending, toClient, toServer, clientVars, lossVars>>

RenegSend(t) ==
    /\ At(t, "send")
    /\ \/ Send(Message("offer", th[t].tracks)) /\ UNCHANGED lost
       \/ Drop /\ lost' = TRUE /\ UNCHANGED toClient
    /\ Return(t)
    /\ UNCHANGED <<pcVars, pending, toServer, clientVars, missed, givenUp>>

-----------------------------------------------------------------------------
(* handleOffer *)

Arrived(type) ==
    /\ At(Dispatcher, "idle")
    /\ toServer # <<>> /\ Head(toServer).type = type
    /\ toServer' = Tail(toServer)

OfferRemote ==
    /\ Arrived("offer")
    /\ IF sig = "stable"
       THEN /\ sig' = "have_remote"
            /\ Goto(Dispatcher, "answer")
            /\ UNCHANGED <<toClient, losses>>
       ELSE /\ Send(Message("error", {})) \/ (Drop /\ UNCHANGED toClient)
            /\ UNCHANGED <<sig, th>>
    /\ UNCHANGED <<senders, mids, offered, lastOffer, pending, clientVars, lost, missed,
                   givenUp>>

\* The answer describes the announced senders and those that fit its slots.
OfferAnswer ==
    /\ At(Dispatcher, "answer")
    /\ \E S \in SUBSET (senders \ mids) :
          /\ Cardinality(S) <= Slots
          /\ mids' = mids \cup S
          /\ th' = [th EXCEPT ![Dispatcher] =
                        [at |-> "answer_send", tracks |-> mids \cup S]]
    /\ sig' = "stable"
    /\ UNCHANGED <<senders, offered, lastOffer, pending, toClient, toServer,
                   clientVars, lossVars, givenUp>>

OfferReply ==
    /\ At(Dispatcher, "answer_send")
    /\ \/ Send(Message("answer", th[Dispatcher].tracks)) /\ UNCHANGED missed
       \/ Drop /\ missed' = missed \cup th[Dispatcher].tracks /\ UNCHANGED toClient
    /\ Goto(Dispatcher, "followup")
    /\ UNCHANGED <<pcVars, pending, toServer, clientVars, lost, givenUp>>

\* hasUnnegotiatedSenders starts a goroutine that sleeps and renegotiates.
OfferFollowup ==
    /\ At(Dispatcher, "followup")
    /\ IF senders \ mids # {}
       THEN \E k \in Followup :
               /\ At(k, "idle")
               /\ th' = [th EXCEPT ![Dispatcher] = Idle, ![k].at = "asleep"]
       ELSE Return(Dispatcher)
    /\ UNCHANGED <<pcVars, pending, toClient, toServer, clientVars, lossVars, givenUp>>

-----------------------------------------------------------------------------
(* handleClientAnswer *)

AnswerRemote ==
    /\ Arrived("answer")
    /\ IF sig = "have_local"
       THEN /\ sig' = "stable" /\ mids' = mids \cup offered
            /\ Goto(Dispatcher, "drain")
       ELSE UNCHANGED <<sig, mids, th>>
    /\ UNCHANGED <<senders, offered, lastOffer, pending, toClient, clientVars, lossVars, givenUp>>

AnswerDrainOnly ==
    /\ At(Dispatcher, "drain")
    /\ Return(Dispatcher)
    /\ pending' = FALSE
    /\ UNCHANGED <<pcVars, toClient, toServer, clientVars, lossVars, givenUp>>
AnswerDrain ==
    /\ At(Dispatcher, "drain")
    /\ IF pending THEN Goto(Dispatcher, "check") ELSE Return(Dispatcher)
    /\ pending' = FALSE
    /\ UNCHANGED <<pcVars, toClient, toServer, clientVars, lossVars, givenUp>>

-----------------------------------------------------------------------------
(* The client *)

\* The tracks published before it joined wait for the answer to an offer.
ClientOffer ==
    /\ csig = "stable" /\ offers < MaxOffers
    /\ csig' = "have_local" /\ offers' = offers + 1
    /\ \/ toServer' = Append(toServer, Message("offer", {})) /\ UNCHANGED <<losses, missed>>
       \/ Drop /\ missed' = missed \cup Early /\ UNCHANGED toServer
    /\ UNCHANGED <<pcVars, pending, th, toClient, heard, lost, givenUp>>

ClientReceive ==
    /\ toClient # <<>>
    /\ toClient' = Tail(toClient)
    /\ LET msg == Head(toClient)
       IN  \/ /\ msg.type = "offer"
              /\ heard' = heard \cup msg.tracks /\ csig' = "stable"
              /\ \/ toServer' = Append(toServer, Message("answer", {}))
                    /\ UNCHANGED <<losses, lost>>
                 \/ Drop /\ lost' = TRUE /\ UNCHANGED toServer
           \/ /\ msg.type = "answer" /\ csig = "have_local"
              /\ heard' = heard \cup msg.tracks /\ csig' = "stable"
              /\ UNCHANGED <<toServer, losses, lost>>
           \/ /\ msg.type = "error" \/ (msg.type = "answer" /\ csig = "stable")
              /\ UNCHANGED <<heard, csig, toServer, losses, lost>>
    /\ UNCHANGED <<pcVars, pending, th, offers, missed, givenUp>>

-----------------------------------------------------------------------------

\* handleJoin has subscribed the member to what was published before.
Init ==
    /\ sig = "stable" /\ senders = Early /\ mids = {} /\ offered = {}
    /\ lastOffer = Dispatcher /\ pending = FALSE
    /\ th = [t \in Thread |-> Idle]
    /\ toClient = <<>> /\ toServer = <<>>
    /\ csig = "stable" /\ heard = {} /\ offers = 0
    /\ losses = 0 /\ lost = FALSE /\ missed = {}
    /\ givenUp = FALSE

Reneg(t) ==
    \/ RenegCheck(t) \/ RenegMark(t) \/ RenegCreate(t) \/ RenegSet(t)
    \/ RenegSend(t)

Dispatch ==
    \/ OfferRemote \/ OfferAnswer \/ OfferReply \/ OfferFollowup
    \/ AnswerRemote \/ AnswerDrain

Next ==
    \/ \E t \in Track : Publish(t)
    \/ \E t \in Thread : Reneg(t)
    \/ Dispatch
    \/ ClientOffer
    \/ ClientReceive

Spec == Init /\ [][Next]_vars

\* Goroutines run, a client makes its first offer and reads its messages.
FairSpec ==
    /\ Spec
    /\ \A t \in Thread : WF_vars(Reneg(t))
    /\ WF_vars(Dispatch)
    /\ WF_vars(offers = 0 /\ ClientOffer)
    /\ WF_vars(ClientReceive)

-----------------------------------------------------------------------------
(* Properties *)

Count(s, type) == Cardinality({i \in DOMAIN s : s[i].type = type})

\* Server offers that are about to be sent, under way, or being answered.
OffersOut == Cardinality({t \in Thread : At(t, "send")})
             + Count(toClient, "offer") + Count(toServer, "answer")

\* However the callers of renegotiateFor overlap and whatever the bridge loses,
\* a connection that waits for an answer has one offer out, or one whose exchange
\* the bridge lost, and a stable one has neither: an answer always finds the offer
\* it belongs to, and a connection waits for nothing only if a message was lost.
OneOfferOut ==
    OffersOut + (IF lost THEN 1 ELSE 0) = IF sig = "have_local" THEN 1 ELSE 0

\* Every exchange the server starts is over in the end, whatever the client offers
\* meanwhile and whatever else is renegotiated: the connection returns to stable,
\* where tracks can be added again, unless the offer or its answer was lost.  (The
\* code never offers again: such a connection waits until the member rejoins.)
ExchangesEnd == sig = "have_local" ~> (sig = "stable" \/ lost)

\* A track added to the member's connection is eventually announced to the
\* client: at once, with the answer to an offer of the client, by the follow-up
\* 50 ms later, or by handleClientAnswer, which drains the flag that a deferred
\* renegotiateFor set; unless the message that announced it was lost, or some
\* renegotiateFor gave up unheard.  It does when another offer gets between its
\* test of the state and SetLocalDescription, and when the exchange it defers to
\* is over before it sets the flag.
TracksAnnounced ==
    \A t \in Track : t \in senders ~> (t \in heard \cup missed \/ lost \/ givenUp)

\* The comment on renegotiateFor: "if [...] an earlier offer/answer exchange is
\* still in flight, we mark pendingRenegotiate and bail; handleClientAnswer drains
\* the flag once the PC returns to stable".
FlagDrained == pending ~> (~pending \/ lost)
=============================================================================
