---------------------------- MODULE Hybrid2Link ----------------------------
(***************************************************************************)
(* A hybrid2 sender and a hybrid2 receiver joined by the I2P network: the  *)
(* sender's goroutines, the receiver's loops, the datagrams and the ACK    *)
(* responses between them.  The network loses, duplicates and reorders     *)
(* what it carries; what it delivers it delivers within MaxDelay.          *)
(*                                                                         *)
(* A datagram carries application data, an ACK request around it or an ACK *)
(* response, and the receiver tells which: that takes application data of  *)
(* nine bytes or more never to begin with one of the two marker bytes, as  *)
(* decodeAckMessage has nothing else to go by (sender.go:238-260).         *)
(*                                                                         *)
(* Time moves only while no call is half done: a send or an ACK answer     *)
(* takes far less than a tick (minutes), a SAM lookup may take longer.     *)
(***************************************************************************)
EXTENDS Hybrid2Receiver, FiniteSets

CONSTANTS Threads, RepliableInterval, RepliableTimeInterval, AckTimeout,
          MaxUnackedDatagrams, AckRequestInterval, SendMayFail, MaxCalls,
          MaxDelay  \* a datagram that arrives is no older than this

ASSUME LinkAssumption ==
    /\ RepliableInterval \in Nat \ {0}
    /\ AckRequestInterval \in Nat \ {0}
    /\ MaxUnackedDatagrams \in Nat
    /\ SendMayFail \in BOOLEAN
    /\ RepliableTimeInterval \in Nat \ {0}
    /\ HashExpiryDuration \in Nat
    /\ AckTimeout \in Nat
    /\ AgeLimit \in Nat
    /\ AgeLimit > RepliableTimeInterval
    /\ AgeLimit > HashExpiryDuration
    /\ AgeLimit > AckTimeout
    /\ MaxCalls \in Nat

ASSUME DelayAssumption ==
    /\ MaxDelay \in Nat
    \* The margin config.go:19-25 leaves between refresh and expiry.
    /\ RepliableTimeInterval + MaxDelay <= HashExpiryDuration + 1

VARIABLES closed, counter, sinceDg2, seqNum, lastAcked, unacked, rtt,
          pc, mySeq, calls, gap, sinceWire, requested, expired

VARIABLES
    flight,    \* datagrams on their way to the receiver
    acks,      \* numbers of ACK responses on their way back, never taken out
    received,  \* history: sequence numbers the receiver has registered
    missed     \* history: a datagram3 sent with a settled identity missed

S == INSTANCE Hybrid2Sender

sender   == <<closed, counter, sinceDg2, seqNum, lastAcked, unacked, rtt,
              pc, mySeq, calls, gap, sinceWire, requested, expired>>
receiver == <<mapping, loop2, loop3>>
network  == <<flight, acks>>
history  == <<received, missed>>
vars     == <<sender, receiver, network, history>>

\* seq is the number to acknowledge, 0 for none; settled says whether every
\* datagram2 was acknowledged when this one was sent.
Datagrams == [kind : {"dg2", "dg3"}, seq : Nat, age : 0..MaxDelay,
              settled : BOOLEAN]

TypeOK ==
    /\ S!TypeOK
    /\ ReceiverTypeOK
    /\ flight \subseteq Datagrams
    /\ acks \subseteq Nat
    /\ received \subseteq Nat
    /\ missed \in BOOLEAN

Init ==
    /\ S!Init
    /\ ReceiverInit
    /\ flight = {} /\ acks = {}
    /\ received = {} /\ missed = FALSE

-----------------------------------------------------------------------------
(* The sender's end *)

Launch(kind, seq) ==
    flight' = flight \cup {[kind |-> kind, seq |-> seq, age |-> 0,
                            settled |-> lastAcked = seqNum]}

SenderStep(t) ==
    /\ \/ S!SendDatagram(t) \/ S!ForceDatagram2(t) \/ S!Decide(t)
       \/ S!MarkDatagram2Sent(t) \/ S!ForceMark(t) \/ S!RequestAck(t)
       \/ S!TrackUnacked(t) \/ S!IncrementCounter(t) \/ S!ResetCounter(t)
       \/ S!SendFails(t)
    /\ UNCHANGED <<receiver, network, history>>

SendDatagram2(t) ==
    /\ S!SendDatagram2(t)
    /\ Launch("dg2", mySeq[t])
    /\ UNCHANGED <<receiver, acks, history>>

SendDatagram3(t) ==
    /\ S!SendDatagram3(t)
    /\ Launch("dg3", 0)
    /\ UNCHANGED <<receiver, acks, history>>

ForceSend(t) ==
    /\ S!ForceSend(t)
    /\ Launch("dg2", 0)
    /\ UNCHANGED <<receiver, acks, history>>

\* The sender's own datagram2 loop takes an ACK response.  It stays in acks:
\* it may be delivered again, or too late, or never.
ReceiveAckResponse(s) ==
    /\ s \in acks
    /\ S!ProcessAck(s)
    /\ UNCHANGED <<receiver, network, history>>

CleanupStaleUnacked == S!CleanupStaleUnacked /\ UNCHANGED <<receiver, network, history>>

-----------------------------------------------------------------------------
(* The receiver's end *)

\* The network hands over m and may keep a copy.
Deliver(m) == flight' \in {flight, flight \ {m}}

ReceiveDatagram2At(m) ==
    /\ m.kind = "dg2"
    /\ ReceiveDatagram2(m.seq)
    /\ Deliver(m)
    /\ received' = received \cup ({m.seq} \ {0})
    /\ UNCHANGED <<sender, acks, missed>>

SendAckResponse ==
    /\ AckAnswered
    /\ acks' \in {acks, acks \cup {loop2}}
    /\ UNCHANGED <<sender, flight, history>>

ReceiveDatagram3At(m) ==
    /\ m.kind = "dg3"
    /\ Datagram3Found \/ Datagram3Missed
    /\ Deliver(m)
    /\ missed' = (missed \/ (m.settled /\ LookupFails))
    /\ UNCHANGED <<sender, acks, received>>

SamAnswers ==
    /\ \E ok \in BOOLEAN : ResolveSource(ok)
    /\ UNCHANGED <<sender, network, history>>

CleanupMappings == RemoveExpiredMappings /\ UNCHANGED <<sender, network, history>>

-----------------------------------------------------------------------------

Lose(m) ==
    /\ flight' = flight \ {m}
    /\ UNCHANGED <<sender, receiver, acks, history>>

Tick ==
    /\ \A t \in Threads : pc[t] = "idle"
    /\ loop2 = Ready
    /\ \A m \in flight : m.age < MaxDelay
    /\ S!Tick
    /\ MappingAges
    /\ flight' = {[m EXCEPT !.age = m.age + 1] : m \in flight}
    /\ UNCHANGED <<loop2, loop3, acks, received, missed>>

Next ==
    \/ \E t \in Threads : SenderStep(t) \/ SendDatagram2(t) \/ SendDatagram3(t)
                          \/ ForceSend(t)
    \/ \E s \in acks : ReceiveAckResponse(s)
    \/ CleanupStaleUnacked
    \/ \E m \in flight : ReceiveDatagram2At(m) \/ ReceiveDatagram3At(m) \/ Lose(m)
    \/ SendAckResponse
    \/ SamAnswers
    \/ CleanupMappings
    \/ Tick

Spec == Init /\ [][Next]_vars

-----------------------------------------------------------------------------

\* LastAckedSeqNum is a number the receiver has really registered, whatever
\* is lost, repeated, late or out of order.
AckedWasReceived == lastAcked # 0 => lastAcked \in received

\* Once every datagram2 sent so far is acknowledged, a datagram3 finds its
\* sender in the receiver's table: the ACK is sent after the registration,
\* and the time trigger leaves enough of HashExpiryDuration for the delay
\* (config.go:15-25).
ResolvesOnceAcked == ~missed
=============================================================================
