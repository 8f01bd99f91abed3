-------------------------- MODULE Hybrid2Receiver --------------------------
(***************************************************************************)
(* The receive path of a hybrid2 session for ONE remote sender             *)
(* (hybrid2/receiver.go): that sender's entry in the hash table of         *)
(* ReceiverState, and the two receive loops and the cleanup ticker that    *)
(* read and refresh it.  Entries of different hashes do not interact.      *)
(* Handing a datagram to the application is the subject of Hybrid2Session. *)
(*                                                                         *)
(* The module has no specification of its own: Hybrid2Link gives it the    *)
(* datagrams of a sender.                                                  *)
(***************************************************************************)
EXTENDS Integers

CONSTANTS HashExpiryDuration,  \* an entry not refreshed for longer expires
          AgeLimit             \* ages stop growing here

VARIABLES
    mapping,  \* age of the entry's LastRefresh, Absent if there is no entry
    loop2,    \* datagram2ReceiveLoop: Ready, or the number it has to ACK
    loop3     \* datagram3ReceiveLoop: Ready, or Resolving through SAM

Absent    == -1
Ready     == 0
Resolving == 1

ReceiverTypeOK ==
    /\ mapping \in {Absent} \cup 0..AgeLimit
    /\ loop2 \in Nat
    /\ loop3 \in {Ready, Resolving}

ReceiverInit == mapping = Absent /\ loop2 = Ready /\ loop3 = Ready

\* isExpired compares with >, so an entry of exactly the limit still counts.
Expired == mapping > HashExpiryDuration

LookupFails == mapping = Absent \/ Expired

\* Mutant: an existing entry is left as it is.
RegisterWithoutRefresh == mapping' = IF mapping = Absent THEN 0 ELSE mapping

\* Creates the entry, or refreshes the one that is there, expired or not.
RegisterSender == mapping' = 0

-----------------------------------------------------------------------------
(* datagram2ReceiveLoop *)

\* receiveDatagram2: the sender is registered first, then an ACK request
\* (seq # 0) is answered.  The two take different locks.
ReceiveDatagram2(seq) ==
    /\ loop2 = Ready
    /\ RegisterSender
    /\ loop2' = seq
    /\ UNCHANGED loop3

\* processDatagram2Ack once sendAckResponse has returned.  An error of the
\* send is reported and the loop goes on.
AckAnswered ==
    /\ loop2 # Ready
    /\ loop2' = Ready
    /\ UNCHANGED <<mapping, loop3>>

-----------------------------------------------------------------------------
(* datagram3ReceiveLoop *)

\* receiveDatagram3 with the source in the table.
Datagram3Found ==
    /\ loop3 = Ready
    /\ ~LookupFails
    /\ UNCHANGED <<mapping, loop2, loop3>>

\* It is not in the table: ask the SAM bridge, without any lock.
Datagram3Missed ==
    /\ loop3 = Ready
    /\ LookupFails
    /\ loop3' = Resolving
    /\ UNCHANGED <<mapping, loop2>>

\* ResolveSource answered.  On success the sender is registered as if a
\* datagram2 had come; on an error the datagram is passed on with an empty
\* source.
ResolveSource(ok) ==
    /\ loop3 = Resolving
    /\ loop3' = Ready
    /\ IF ok THEN RegisterSender ELSE UNCHANGED mapping
    /\ UNCHANGED loop2

-----------------------------------------------------------------------------

\* cleanupLoop
RemoveExpiredMappings ==
    /\ mapping # Absent
    /\ Expired
    /\ mapping' = Absent
    /\ UNCHANGED <<loop2, loop3>>

MappingAges ==
    mapping' = IF mapping \in {Absent, AgeLimit} THEN mapping ELSE mapping + 1
=============================================================================
