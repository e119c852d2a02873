--------------------------- MODULE MCVoiceBridge ---------------------------
(* A small instance of VoiceBridge: two clients that drew the same id, one  *)
(* signal that is not split, and a garbled one.                             *)
EXTENDS VoiceBridge

MCSignals == {"aliceOffer", "bobOffer", "aliceJoin"}
MCFrom == [s \in MCSignals |-> IF s = "bobOffer" THEN "bob" ELSE "alice"]
MCChunkId == [s \in MCSignals |-> IF s = "aliceJoin" THEN "" ELSE "x"]
MCTotal == [s \in MCSignals |-> IF s = "aliceJoin" THEN 0 ELSE 2]
MCOutTotal == [o \in {"sfuOffer"} |-> 2]
=============================================================================
