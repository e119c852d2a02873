---------------------------- MODULE SignalStream ----------------------------
(***************************************************************************)
(* What the bridge promises the room manager about the signals of the IRC  *)
(* clients: each one is handed over whole, at most once and only after it  *)
(* was sent.  It may be lost, and signals may overtake each other.         *)
(***************************************************************************)
EXTENDS Integers, Sequences

CONSTANTS Signals,       \* the signals that clients send
          Whole(_)       \* the sender and the text of a signal

VARIABLES sent,          \* signals their clients have sent completely
          delivered      \* what the manager was handed, in order

Handed(s) == \E i \in 1..Len(delivered) : delivered[i] = Whole(s)

StreamInit == sent = {} /\ delivered = <<>>

Send(s) == /\ s \notin sent
           /\ sent' = sent \cup {s}
           /\ UNCHANGED delivered

Deliver(s) == /\ s \in sent
              /\ ~Handed(s)
              /\ delivered' = Append(delivered, Whole(s))
              /\ UNCHANGED sent

StreamNext == \E s \in Signals : Send(s) \/ Deliver(s)

StreamSpec == StreamInit /\ [][StreamNext]_<<sent, delivered>>
=============================================================================
