------------------------- MODULE Hybrid2LinkProofs -------------------------
(***************************************************************************)
(* Proofs about Hybrid2Link: for any number of sending goroutines, any     *)
(* intervals that leave the margin DelayAssumption names, and a network    *)
(* that loses, repeats and reorders.                                       *)
(***************************************************************************)
EXTENDS Hybrid2Link, TLAPS

(***************************************************************************)
(* The inductive invariant.                                                *)
(***************************************************************************)

LinkTypes ==
    /\ seqNum \in Nat
    /\ lastAcked \in Nat
    /\ sinceDg2 \in 0..AgeLimit \cup {S!Never}
    /\ mySeq \in [Threads -> Nat]
    /\ pc \in [Threads -> S!Steps]
    /\ ReceiverTypeOK
    /\ flight \subseteq Datagrams
    /\ acks \subseteq Nat
    /\ received \subseteq Nat

\* Only numbers the sender has handed out travel.
NumbersKnown ==
    /\ sinceDg2 = S!Never <=> seqNum = 0
    /\ \A t \in Threads : mySeq[t] <= seqNum
    /\ \A m \in flight : m.seq <= seqNum
    /\ received \subseteq 1..seqNum

\* An acknowledgement on its way, or taken, is one of a registered datagram2.
AcksKnown ==
    /\ loop2 # Ready => loop2 \in received
    /\ acks \subseteq received
    /\ lastAcked # 0 => lastAcked \in received

\* The entry is no older than a datagram2 sent that long ago, unless that is
\* too long ago to matter.
Covered(age) == age > HashExpiryDuration \/ mapping \in 0..age

\* The newest datagram2, once registered, keeps the entry; a datagram3 is
\* chosen soon after a datagram2 was marked; and one that left with
\* everything acknowledged still finds the entry when it arrives.
EntryKept ==
    /\ seqNum \in received => Covered(sinceDg2)
    /\ \A t \in Threads : pc[t] = "send3" => sinceDg2 \in 0..(RepliableTimeInterval - 1)
    /\ \A m \in flight : m.kind = "dg3" /\ m.settled =>
          mapping \in 0..(m.age + RepliableTimeInterval - 1)
    /\ ~missed

LinkInv == LinkTypes /\ NumbersKnown /\ AcksKnown /\ EntryKept

LEMMA LinkInit == Init => LinkInv
BY LinkAssumption DEF Init, S!Init, S!Never, S!Steps, ReceiverInit, ReceiverTypeOK, LinkInv,
   LinkTypes, NumbersKnown, AcksKnown, EntryKept, Absent, Ready, Resolving, Covered

\* A step that leaves the receiver, the network and the numbers alone.
LEMMA QuietStep ==
    ASSUME LinkInv,
           UNCHANGED <<receiver, network, history, sinceDg2, seqNum, lastAcked>>,
           mySeq' \in [Threads -> Nat], pc' \in [Threads -> S!Steps],
           \A t \in Threads : mySeq'[t] <= seqNum,
           \A t \in Threads : pc'[t] = "send3" => sinceDg2 \in 0..(RepliableTimeInterval - 1)
    PROVE  LinkInv'
BY DEF LinkInv, LinkTypes, NumbersKnown, AcksKnown, EntryKept, Covered, receiver, network,
   history, ReceiverTypeOK

\* A sequence number is handed out.
LEMMA MarkStep ==
    ASSUME LinkInv, NEW t \in Threads, S!MarkDatagram2Sent(t) \/ S!ForceMark(t),
           UNCHANGED <<receiver, network, history>>
    PROVE  LinkInv'
<1> USE LinkAssumption
        DEF LinkInv, receiver, network, history, S!MarkDatagram2Sent, S!ForceMark, S!Goto
<1>1. LinkTypes'
  BY DEF LinkTypes, ReceiverTypeOK, S!Steps
<1>2. NumbersKnown'
  BY DEF LinkTypes, NumbersKnown, S!Never, Datagrams
<1>3. AcksKnown'
  BY DEF AcksKnown
<1>4. EntryKept'
  <2>1. seqNum' \notin received'
    BY DEF LinkTypes, NumbersKnown
  <2>2. QED
    BY <2>1 DEF LinkTypes, EntryKept, Covered
<1>5. QED
  BY <1>1, <1>2, <1>3, <1>4

LEMMA SenderStepKeeps ==
    ASSUME LinkInv, NEW t \in Threads, SenderStep(t)
    PROVE  LinkInv'
<1> USE DEF SenderStep
<1>1. CASE S!SendDatagram(t) \/ S!ForceDatagram2(t)
  BY <1>1, QuietStep DEF S!SendDatagram, S!ForceDatagram2, S!Begin, S!Goto, S!Steps, S!state,
     LinkInv, LinkTypes, NumbersKnown, EntryKept
<1>2. CASE S!Decide(t)
  <2>1. ~S!ShouldUseDatagram2 => sinceDg2 \in 0..(RepliableTimeInterval - 1)
    BY LinkAssumption DEF S!ShouldUseDatagram2, LinkInv, LinkTypes, S!Never
  <2>2. QED
    BY <1>2, <2>1, QuietStep DEF S!Decide, S!Goto, S!Steps, S!state, LinkInv, LinkTypes,
       NumbersKnown, EntryKept
<1>3. CASE S!MarkDatagram2Sent(t) \/ S!ForceMark(t)
  BY <1>3, MarkStep
<1>4. CASE S!RequestAck(t) \/ S!TrackUnacked(t)
  BY <1>4, QuietStep DEF S!RequestAck, S!TrackUnacked, S!Goto, S!Steps, S!state, LinkInv,
     LinkTypes, NumbersKnown, EntryKept
<1>5. CASE S!IncrementCounter(t) \/ S!ResetCounter(t) \/ S!SendFails(t)
  BY <1>5, QuietStep DEF S!IncrementCounter, S!ResetCounter, S!SendFails, S!Return, S!Goto,
     S!Steps, S!state, LinkInv, LinkTypes, NumbersKnown, EntryKept
<1>6. QED
  BY <1>1, <1>2, <1>3, <1>4, <1>5

\* A datagram leaves.  Only a datagram3 that leaves with every datagram2
\* acknowledged matters: then the newest datagram2 is registered, and it was
\* marked less than RepliableTimeInterval ago.
LEMMA LaunchKeeps ==
    ASSUME LinkInv, NEW t \in Threads,
           SendDatagram2(t) \/ SendDatagram3(t) \/ ForceSend(t)
    PROVE  LinkInv'
<1>1. PICK kind \in {"dg2", "dg3"}, seq \in Nat :
         /\ Launch(kind, seq)
         /\ seq <= seqNum
         /\ kind = "dg3" => pc[t] = "send3"
  BY DEF LinkInv, LinkTypes, NumbersKnown, SendDatagram2, SendDatagram3, ForceSend,
     S!SendDatagram3
<1> DEFINE d == [kind |-> kind, seq |-> seq, age |-> 0, settled |-> lastAcked = seqNum]
<1>2. flight' = flight \cup {d}
  BY <1>1 DEF Launch
<1>3. UNCHANGED <<receiver, acks, history, sinceDg2, seqNum, lastAcked>>
  BY DEF SendDatagram2, SendDatagram3, ForceSend, S!SendDatagram2, S!SendDatagram3,
     S!ForceSend, S!state
<1>4. /\ mySeq' \in [Threads -> Nat]
      /\ pc' \in [Threads -> S!Steps]
      /\ \A u \in Threads : mySeq'[u] <= seqNum
      /\ \A u \in Threads : pc'[u] = "send3" => pc[u] = "send3"
  BY DEF SendDatagram2, SendDatagram3, ForceSend, S!SendDatagram2, S!SendDatagram3,
     S!ForceSend, S!Goto, S!Steps, LinkInv, LinkTypes, NumbersKnown
<1>5. d \in Datagrams
  BY DelayAssumption DEF Datagrams
<1>6. ASSUME kind = "dg3", lastAcked = seqNum
      PROVE  mapping \in 0..(RepliableTimeInterval - 1)
  <2>1. sinceDg2 \in 0..(RepliableTimeInterval - 1)
    BY <1>1, <1>6 DEF LinkInv, EntryKept
  <2>2. seqNum # 0
    BY <2>1 DEF LinkInv, NumbersKnown, S!Never
  <2>3. Covered(sinceDg2)
    BY <1>6, <2>2 DEF LinkInv, AcksKnown, EntryKept
  <2>4. QED
    BY <2>1, <2>3, LinkAssumption, DelayAssumption DEF Covered, LinkInv, LinkTypes,
       ReceiverTypeOK, Absent
<1>14. d.kind = "dg3" /\ d.settled => kind = "dg3" /\ lastAcked = seqNum
  BY Zenon
<1>15. d.age = 0 /\ d.seq = seq
  OBVIOUS
<1>7. LinkTypes'
  BY <1>2, <1>3, <1>4, <1>5 DEF LinkInv, LinkTypes, ReceiverTypeOK, receiver, history
<1>8. NumbersKnown'
  BY <1>1, <1>2, <1>3, <1>4 DEF LinkInv, NumbersKnown, history
<1>9. AcksKnown'
  BY <1>3 DEF LinkInv, AcksKnown, receiver, history
<1>10. EntryKept'
  <2>1. ASSUME NEW m \in flight', m.kind = "dg3", m.settled
        PROVE  mapping \in 0..(m.age + RepliableTimeInterval - 1)
    <3>1. CASE m = d
      BY <2>1, <3>1, <1>6, <1>14, <1>15, LinkAssumption
    <3>2. CASE m \in flight
      BY <2>1, <3>2 DEF LinkInv, EntryKept
    <3>3. QED
      BY <3>1, <3>2, <1>2
  <2>2. QED
    BY <2>1, <1>3, <1>4 DEF LinkInv, EntryKept, Covered, receiver, history
<1>11. QED
  BY <1>7, <1>8, <1>9, <1>10 DEF LinkInv

\* An ACK response is taken: LastAckedSeqNum becomes a registered number.
LEMMA AckTaken ==
    ASSUME LinkInv, NEW s \in acks, ReceiveAckResponse(s)
    PROVE  LinkInv'
<1> USE DEF ReceiveAckResponse, S!ProcessAck, S!call, receiver, network, history
<1>1. lastAcked' \in {s, lastAcked}
  OBVIOUS
<1>2. s \in Nat /\ s \in received
  BY DEF LinkInv, LinkTypes, AcksKnown
<1>3. LinkTypes'
  BY <1>1, <1>2 DEF LinkInv, LinkTypes, ReceiverTypeOK
<1>4. NumbersKnown'
  BY DEF LinkInv, NumbersKnown
<1>5. AcksKnown'
  BY <1>1, <1>2 DEF LinkInv, AcksKnown
<1>6. EntryKept'
  BY DEF LinkInv, EntryKept, Covered
<1>7. QED
  BY <1>3, <1>4, <1>5, <1>6 DEF LinkInv

\* The network forgets a datagram, or hands it over and keeps it or not: what
\* was said of those in flight is still true.
LEMMA FewerInFlight ==
    ASSUME LinkInv, flight' \subseteq flight, UNCHANGED <<sender, mapping>>
    PROVE  /\ flight' \subseteq Datagrams
           /\ \A m \in flight' : m.seq <= seqNum'
           /\ \A m \in flight' : m.kind = "dg3" /\ m.settled =>
                 mapping' \in 0..(m.age + RepliableTimeInterval - 1)
BY DEF LinkInv, LinkTypes, NumbersKnown, EntryKept, sender

\* A datagram2 is registered.  The entry is new, so it is young enough.
LEMMA Datagram2Registered ==
    ASSUME LinkInv, NEW m \in flight, ReceiveDatagram2At(m)
    PROVE  LinkInv'
<1> USE DEF ReceiveDatagram2At, ReceiveDatagram2, RegisterSender, sender
<1>1. flight' \subseteq flight
  BY DEF Deliver
<1>2. m.seq \in Nat /\ m.seq <= seqNum
  BY DEF LinkInv, LinkTypes, NumbersKnown, Datagrams
<1>3. received' = received \cup ({m.seq} \ {0}) /\ received' \subseteq 1..seqNum
  <2>1. m.seq # 0 => m.seq \in 1..seqNum
    BY <1>2 DEF LinkInv, LinkTypes
  <2>2. received \subseteq 1..seqNum
    BY DEF LinkInv, NumbersKnown
  <2>3. QED
    BY <2>1, <2>2
<1>4. LinkTypes'
  BY <1>1, <1>2, <1>3, LinkAssumption DEF LinkInv, LinkTypes, ReceiverTypeOK
<1>5. NumbersKnown'
  BY <1>1, <1>3 DEF LinkInv, NumbersKnown
<1>6. AcksKnown'
  BY <1>2, <1>3 DEF LinkInv, AcksKnown, Ready
<1>7. EntryKept'
  <2>1. \A u \in flight' : u.age \in Nat
    BY <1>1, DelayAssumption DEF LinkInv, LinkTypes, Datagrams
  <2>2. \A u \in flight' : mapping' \in 0..(u.age + RepliableTimeInterval - 1)
    BY <2>1, LinkAssumption
  <2>3. (seqNum \in received => Covered(sinceDg2))'
    <3>1. seqNum \in received' => sinceDg2 \in Nat
      BY <1>3, LinkAssumption DEF LinkInv, LinkTypes, NumbersKnown, S!Never
    <3>2. QED
      BY <3>1 DEF Covered
  <2>4. QED
    BY <2>2, <2>3 DEF LinkInv, EntryKept
<1>8. QED
  BY <1>4, <1>5, <1>6, <1>7 DEF LinkInv

\* The answer to an ACK request leaves, or fails to.
LEMMA AckSent ==
    ASSUME LinkInv, SendAckResponse
    PROVE  LinkInv'
<1> USE DEF SendAckResponse, AckAnswered, sender, history
<1>1. loop2 \in received /\ loop2 \in Nat
  BY DEF LinkInv, LinkTypes, ReceiverTypeOK, AcksKnown
<1>2. acks' \subseteq acks \cup {loop2}
  OBVIOUS
<1>3. LinkTypes'
  BY <1>1, <1>2 DEF LinkInv, LinkTypes, ReceiverTypeOK, Ready
<1>4. NumbersKnown' /\ EntryKept'
  BY DEF LinkInv, NumbersKnown, EntryKept, Covered
<1>5. AcksKnown'
  BY <1>1, <1>2 DEF LinkInv, AcksKnown
<1>6. QED
  BY <1>3, <1>4, <1>5 DEF LinkInv

\* A datagram3 arrives.  One that left with everything acknowledged finds the
\* entry: it is at most MaxDelay + RepliableTimeInterval - 1 old.
LEMMA Datagram3Looked ==
    ASSUME LinkInv, NEW m \in flight, ReceiveDatagram3At(m)
    PROVE  LinkInv'
<1> USE DEF ReceiveDatagram3At, Datagram3Found, Datagram3Missed
<1>1. flight' \subseteq flight
  BY DEF Deliver
<1>2. /\ UNCHANGED <<sender, mapping, loop2, acks, received>>
      /\ loop3' \in {Ready, Resolving}
  BY DEF LinkInv, LinkTypes, ReceiverTypeOK
<1>3. m.settled => ~LookupFails
  <2> SUFFICES ASSUME m.settled PROVE ~LookupFails
    OBVIOUS
  <2>1. mapping \in 0..(m.age + RepliableTimeInterval - 1)
    BY DEF LinkInv, EntryKept
  <2>2. m.age \in 0..MaxDelay
    BY DEF LinkInv, LinkTypes, Datagrams
  <2>3. QED
    BY <2>1, <2>2, LinkAssumption, DelayAssumption DEF LookupFails, Expired, Absent
<1>4. ~missed'
  BY <1>3 DEF LinkInv, EntryKept
<1>5. LinkTypes'
  BY <1>1, <1>2, FewerInFlight DEF LinkInv, LinkTypes, ReceiverTypeOK, sender
<1>6. NumbersKnown'
  BY <1>1, <1>2, FewerInFlight DEF LinkInv, NumbersKnown, sender
<1>7. AcksKnown'
  BY <1>2 DEF LinkInv, AcksKnown, sender
<1>8. EntryKept'
  BY <1>1, <1>2, <1>4, FewerInFlight DEF LinkInv, EntryKept, Covered, sender
<1>9. QED
  BY <1>5, <1>6, <1>7, <1>8 DEF LinkInv

\* SAM names the source of a datagram3, or does not.
LEMMA SourceResolved ==
    ASSUME LinkInv, SamAnswers
    PROVE  LinkInv'
<1> USE DEF SamAnswers, ResolveSource, RegisterSender, sender, network, history
<1>1. mapping' \in {mapping, 0} /\ loop3' = Ready
  OBVIOUS
<1>2. LinkTypes'
  BY <1>1, LinkAssumption DEF LinkInv, LinkTypes, ReceiverTypeOK
<1>3. NumbersKnown' /\ AcksKnown'
  BY DEF LinkInv, NumbersKnown, AcksKnown
<1>4. EntryKept'
  <2>1. CASE mapping' = mapping
    BY <2>1 DEF LinkInv, EntryKept, Covered
  <2>2. CASE mapping' = 0
    <3>1. \A m \in flight' : m.age \in Nat
      BY DelayAssumption DEF LinkInv, LinkTypes, Datagrams
    <3>2. \A m \in flight' : mapping' \in 0..(m.age + RepliableTimeInterval - 1)
      BY <2>2, <3>1, LinkAssumption
    <3>3. seqNum \in received => sinceDg2 \in Nat
      BY LinkAssumption DEF LinkInv, LinkTypes, NumbersKnown, S!Never
    <3>4. QED
      BY <2>2, <3>2, <3>3 DEF LinkInv, EntryKept, Covered
  <2>3. QED
    BY <1>1, <2>1, <2>2
<1>5. QED
  BY <1>2, <1>3, <1>4 DEF LinkInv

\* An entry that the cleanup takes is older than any datagram3 still needs.
LEMMA MappingRemoved ==
    ASSUME LinkInv, CleanupMappings
    PROVE  LinkInv'
<1> USE DEF CleanupMappings, RemoveExpiredMappings, sender, network, history
<1>1. mapping \in 0..AgeLimit /\ mapping > HashExpiryDuration /\ mapping' = Absent
  BY DEF LinkInv, LinkTypes, ReceiverTypeOK, Expired
<1>2. LinkTypes'
  BY <1>1 DEF LinkInv, LinkTypes, ReceiverTypeOK
<1>3. NumbersKnown' /\ AcksKnown'
  BY DEF LinkInv, NumbersKnown, AcksKnown
<1>4. EntryKept'
  <2>1. ASSUME NEW m \in flight, m.kind = "dg3", m.settled
        PROVE  FALSE
    <3>1. mapping \in 0..(m.age + RepliableTimeInterval - 1)
      BY <2>1 DEF LinkInv, EntryKept
    <3>2. m.age \in 0..MaxDelay
      BY DEF LinkInv, LinkTypes, Datagrams
    <3>3. QED
      BY <1>1, <3>1, <3>2, LinkAssumption, DelayAssumption
  <2>2. seqNum \in received => sinceDg2 > HashExpiryDuration
    <3>1. seqNum \in received => sinceDg2 \in Nat /\ Covered(sinceDg2)
      BY LinkAssumption DEF LinkInv, LinkTypes, NumbersKnown, EntryKept, S!Never
    <3>2. QED
      BY <1>1, <3>1, LinkAssumption DEF Covered
  <2>3. QED
    BY <2>1, <2>2 DEF LinkInv, EntryKept, Covered
<1>5. QED
  BY <1>2, <1>3, <1>4 DEF LinkInv

\* Time passes: everything that is compared grows together.
LEMMA TimePasses ==
    ASSUME LinkInv, Tick
    PROVE  LinkInv'
<1> USE DEF Tick, MappingAges, S!Tick, S!call, S!Older, S!Never, Absent
<1> DEFINE aged(m) == [m EXCEPT !.age = m.age + 1]
<1>1. ASSUME NEW m \in flight
      PROVE  /\ aged(m) \in Datagrams
             /\ aged(m).seq = m.seq /\ aged(m).kind = m.kind
             /\ aged(m).settled = m.settled /\ aged(m).age = m.age + 1
  <2>1. m \in Datagrams /\ m.age < MaxDelay
    BY DEF LinkInv, LinkTypes
  <2>2. m.age + 1 \in 0..MaxDelay
    BY <2>1, DelayAssumption DEF Datagrams
  <2>3. QED
    BY <2>1, <2>2 DEF Datagrams
<1>2. flight' = {aged(m) : m \in flight}
  OBVIOUS
<1>3. mapping' \in {Absent} \cup 0..AgeLimit /\ sinceDg2' \in {Absent} \cup 0..AgeLimit
  BY LinkAssumption DEF LinkInv, LinkTypes, ReceiverTypeOK
<1>4. LinkTypes'
  BY <1>1, <1>2, <1>3 DEF LinkInv, LinkTypes, ReceiverTypeOK
<1>5. NumbersKnown'
  <2>1. (sinceDg2 = Absent)' <=> sinceDg2 = Absent
    BY LinkAssumption DEF LinkInv, LinkTypes
  <2>2. QED
    BY <1>1, <1>2, <2>1 DEF LinkInv, NumbersKnown
<1>6. AcksKnown'
  BY DEF LinkInv, AcksKnown
<1>7. EntryKept'
  <2>1. ASSUME NEW m \in flight', m.kind = "dg3", m.settled
        PROVE  mapping' \in 0..(m.age + RepliableTimeInterval - 1)
    <3>1. PICK u \in flight : m = aged(u)
      BY <1>2
    <3>2. mapping \in 0..(u.age + RepliableTimeInterval - 1) /\ m.age = u.age + 1
      BY <2>1, <3>1, <1>1 DEF LinkInv, EntryKept
    <3>3. u.age \in Nat
      BY DelayAssumption DEF LinkInv, LinkTypes, Datagrams
    <3>4. mapping' \in {mapping, mapping + 1}
      OBVIOUS
    <3>5. QED
      BY <3>2, <3>3, <3>4, LinkAssumption
  <2>2. (seqNum \in received => Covered(sinceDg2))'
    <3> SUFFICES ASSUME seqNum \in received
                 PROVE  sinceDg2' > HashExpiryDuration \/ mapping' \in 0..sinceDg2'
      BY DEF Covered
    <3>1. sinceDg2 \in 0..AgeLimit /\ Covered(sinceDg2)
      BY DEF LinkInv, LinkTypes, NumbersKnown, EntryKept
    <3>2. QED
      BY <3>1, LinkAssumption DEF Covered, LinkInv, LinkTypes, ReceiverTypeOK
  <2>3. \A t \in Threads : pc'[t] # "send3"
    OBVIOUS
  <2>4. QED
    BY <2>1, <2>2, <2>3 DEF LinkInv, EntryKept
<1>8. QED
  BY <1>4, <1>5, <1>6, <1>7 DEF LinkInv

LEMMA LinkStep == LinkInv /\ [Next]_vars => LinkInv'
<1> SUFFICES ASSUME LinkInv, [Next]_vars PROVE LinkInv'
  OBVIOUS
<1>1. CASE \E t \in Threads : SenderStep(t) \/ SendDatagram2(t) \/ SendDatagram3(t) \/ ForceSend(t)
  BY <1>1, SenderStepKeeps, LaunchKeeps
<1>2. CASE \E s \in acks : ReceiveAckResponse(s)
  BY <1>2, AckTaken
<1>3. CASE CleanupStaleUnacked
  BY <1>3, QuietStep DEF CleanupStaleUnacked, S!CleanupStaleUnacked, S!call, LinkInv, LinkTypes,
     NumbersKnown, EntryKept
<1>4. CASE \E m \in flight : ReceiveDatagram2At(m) \/ ReceiveDatagram3At(m)
  BY <1>4, Datagram2Registered, Datagram3Looked
<1>5. ASSUME NEW m \in flight, Lose(m)
      PROVE  LinkInv'
  <2>1. flight' \subseteq flight
    BY <1>5 DEF Lose
  <2>2. QED
    BY <1>5, <2>1, FewerInFlight DEF Lose, LinkInv, LinkTypes, NumbersKnown, AcksKnown,
       EntryKept, Covered, ReceiverTypeOK, sender, receiver, history
<1>6. CASE SendAckResponse
  BY <1>6, AckSent
<1>7. CASE SamAnswers
  BY <1>7, SourceResolved
<1>8. CASE CleanupMappings
  BY <1>8, MappingRemoved
<1>9. CASE Tick
  BY <1>9, TimePasses
<1>10. CASE UNCHANGED vars
  BY <1>10, QuietStep DEF vars, sender, LinkInv, LinkTypes, NumbersKnown, EntryKept
<1>11. QED
  BY <1>1, <1>2, <1>3, <1>4, <1>5, <1>6, <1>7, <1>8, <1>9, <1>10 DEF Next

THEOREM LinkInvariant == Spec => []LinkInv
<1>1. QED
  BY LinkInit, LinkStep, PTL DEF Spec

\* The number a sender believes acknowledged was registered by the receiver
\* (processAck against processDatagram2Ack).
THEOREM AckedReceived == Spec => []AckedWasReceived
<1>1. LinkInv => AckedWasReceived
  BY DEF LinkInv, AcksKnown, AckedWasReceived
<1>2. QED
  BY <1>1, LinkInvariant, PTL

\* A datagram3 sent with every datagram2 acknowledged is resolved from the
\* receiver's table (shouldUseDatagram2 against isExpired).
THEOREM Resolves == Spec => []ResolvesOnceAcked
<1>1. LinkInv => ResolvesOnceAcked
  BY DEF LinkInv, EntryKept, ResolvesOnceAcked
<1>2. QED
  BY <1>1, LinkInvariant, PTL

(***************************************************************************)
(* The sender's end.  Every step of the link is a step of Hybrid2Sender or *)
(* leaves the sender alone: here the peer that may acknowledge whatever it *)
(* likes is a receiver behind a network.  So the invariants of             *)
(* Hybrid2SenderProofs are invariants of the link.                         *)
(***************************************************************************)

SP == INSTANCE Hybrid2SenderProofs

\* The instance with the proofs defines what the link's instance defines.
LEMMA SameInvariants ==
    /\ S!Init <=> SP!Init
    /\ S!TypeOK <=> SP!TypeOK
    /\ S!FirstIsAuthenticated <=> SP!FirstIsAuthenticated
    /\ S!SequenceNumbers <=> SP!SequenceNumbers
    /\ S!AckAccounting <=> SP!AckAccounting
BY DEF S!Init, SP!Init, S!TypeOK, SP!TypeOK, S!Ages, SP!Ages, S!Never, SP!Never, S!Steps,
   SP!Steps, S!FirstIsAuthenticated, SP!FirstIsAuthenticated, S!SequenceNumbers,
   SP!SequenceNumbers, S!AckAccounting, SP!AckAccounting

LEMMA SameThread ==
    ASSUME NEW t
    PROVE  S!Thread(t) <=> SP!Thread(t)
<1>1. /\ S!Decide(t) <=> SP!Decide(t)
      /\ S!RequestAck(t) <=> SP!RequestAck(t)
  BY DEF S!Decide, SP!Decide, S!RequestAck, SP!RequestAck, S!ShouldUseDatagram2,
     SP!ShouldUseDatagram2, S!ShouldRequestAck, SP!ShouldRequestAck, S!Goto, SP!Goto, S!Never,
     SP!Never, S!state, SP!state, S!onWire, SP!onWire, S!Cardinality, SP!Cardinality
<1>2. /\ S!SendDatagram(t) <=> SP!SendDatagram(t)
      /\ S!ForceDatagram2(t) <=> SP!ForceDatagram2(t)
  BY DEF S!SendDatagram, SP!SendDatagram, S!ForceDatagram2, SP!ForceDatagram2, S!Begin,
     SP!Begin, S!Goto, SP!Goto, S!state, SP!state, S!onWire, SP!onWire
<1>3. /\ S!MarkDatagram2Sent(t) <=> SP!MarkDatagram2Sent(t)
      /\ S!ForceMark(t) <=> SP!ForceMark(t)
      /\ S!TrackUnacked(t) <=> SP!TrackUnacked(t)
  BY DEF S!MarkDatagram2Sent, SP!MarkDatagram2Sent, S!ForceMark, SP!ForceMark,
     S!TrackUnacked, SP!TrackUnacked, S!Goto, SP!Goto, S!onWire, SP!onWire
<1>4. /\ S!SendDatagram2(t) <=> SP!SendDatagram2(t)
      /\ S!SendDatagram3(t) <=> SP!SendDatagram3(t)
      /\ S!ForceSend(t) <=> SP!ForceSend(t)
  BY DEF S!SendDatagram2, SP!SendDatagram2, S!SendDatagram3, SP!SendDatagram3, S!ForceSend,
     SP!ForceSend, S!Goto, SP!Goto, S!state, SP!state
<1>5. /\ S!IncrementCounter(t) <=> SP!IncrementCounter(t)
      /\ S!ResetCounter(t) <=> SP!ResetCounter(t)
      /\ S!SendFails(t) <=> SP!SendFails(t)
  BY DEF S!IncrementCounter, SP!IncrementCounter, S!ResetCounter, SP!ResetCounter,
     S!SendFails, SP!SendFails, S!Return, SP!Return, S!Goto, SP!Goto, S!state, SP!state,
     S!onWire, SP!onWire
<1>6. QED
  BY <1>1, <1>2, <1>3, <1>4, <1>5 DEF S!Thread, SP!Thread

LEMMA SameNext == [S!Next]_(S!vars) <=> [SP!Next]_(SP!vars)
<1>1. \A s : S!ProcessAck(s) <=> SP!ProcessAck(s)
  BY DEF S!ProcessAck, SP!ProcessAck, S!Smoothed, SP!Smoothed, S!Restrict, SP!Restrict, S!call,
     SP!call, S!onWire, SP!onWire
<1>2. S!CleanupStaleUnacked <=> SP!CleanupStaleUnacked
  BY DEF S!CleanupStaleUnacked, SP!CleanupStaleUnacked, S!Stale, SP!Stale, S!Restrict, SP!Restrict,
     S!call, SP!call, S!onWire, SP!onWire
<1>3. S!Close <=> SP!Close
  BY DEF S!Close, SP!Close, S!state, SP!state, S!call, SP!call, S!onWire, SP!onWire
<1>4. S!Tick <=> SP!Tick
  BY DEF S!Tick, SP!Tick, S!Older, SP!Older, S!Never, SP!Never, S!call, SP!call
<1>5. (UNCHANGED S!vars) <=> (UNCHANGED SP!vars)
  BY DEF S!vars, SP!vars, S!state, SP!state, S!call, SP!call, S!onWire, SP!onWire
<1>6. (\E t \in Threads : S!Thread(t)) <=> (\E t \in Threads : SP!Thread(t))
  BY SameThread
<1>7. QED
  BY <1>1, <1>2, <1>3, <1>4, <1>5, <1>6 DEF S!Next, SP!Next

\* Every step of the link is a step of the sender, or the sender stands still.
LEMMA SenderSimulated == [Next]_vars => [S!Next]_(S!vars)
<1> SUFFICES ASSUME [Next]_vars PROVE [S!Next]_(S!vars)
  OBVIOUS
<1>1. CASE \E t \in Threads : SenderStep(t) \/ SendDatagram2(t) \/ SendDatagram3(t) \/ ForceSend(t)
  BY <1>1 DEF SenderStep, SendDatagram2, SendDatagram3, ForceSend, S!Thread, S!Next
<1>2. CASE \E s \in acks : ReceiveAckResponse(s)
  BY <1>2 DEF ReceiveAckResponse, S!ProcessAck, S!Next
<1>3. CASE CleanupStaleUnacked \/ Tick
  BY <1>3 DEF CleanupStaleUnacked, Tick, S!Next
<1>4. ASSUME UNCHANGED sender PROVE UNCHANGED S!vars
  BY <1>4 DEF sender, S!vars, S!state, S!call, S!onWire
<1>5. CASE \E m \in flight : ReceiveDatagram2At(m) \/ ReceiveDatagram3At(m) \/ Lose(m)
  BY <1>5, <1>4 DEF ReceiveDatagram2At, ReceiveDatagram3At, Lose, sender
<1>6. CASE SendAckResponse \/ SamAnswers \/ CleanupMappings
  BY <1>6, <1>4 DEF SendAckResponse, SamAnswers, CleanupMappings, sender
<1>7. CASE UNCHANGED vars
  BY <1>7, <1>4 DEF vars
<1>8. QED
  BY <1>1, <1>2, <1>3, <1>5, <1>6, <1>7 DEF Next

\* Behind the network the sender behaves as Hybrid2Sender says it does.
THEOREM SenderImplemented == Spec => S!Init /\ [][S!Next]_(S!vars)
BY SenderSimulated, PTL DEF Spec, Init

\* Every reachable state of the link is well typed: no counter or age of the
\* sender or the receiver leaves its range, and nothing is in flight that is
\* not a datagram the sender sends, aged as far as the network may delay it.
THEOREM TypeCorrect == Spec => []TypeOK
<1> DEFINE Inv == SP!TypeOK /\ missed \in BOOLEAN
<1>1. Init => Inv
  BY SP!TypeInit, SameInvariants, LinkAssumption DEF Init
<1>2. Inv /\ [Next]_vars => Inv'
  <2>1. SP!TypeOK /\ [Next]_vars => SP!TypeOK'
    BY SP!TypeStep, SenderSimulated, SameNext, LinkAssumption
  <2>2. missed \in BOOLEAN /\ [Next]_vars => missed' \in BOOLEAN
    BY DEF Next, vars, SenderStep, SendDatagram2, SendDatagram3, ForceSend,
       ReceiveAckResponse, CleanupStaleUnacked, ReceiveDatagram2At, ReceiveDatagram3At, Lose,
       SendAckResponse, SamAnswers, CleanupMappings, Tick, history
  <2>3. QED
    BY <2>1, <2>2
<1>3. Inv /\ LinkInv => TypeOK
  BY SameInvariants DEF LinkInv, LinkTypes, TypeOK
<1>4. QED
  BY <1>1, <1>2, <1>3, LinkInvariant, PTL DEF Spec

\* In the link, too, the first datagram is authenticated, sequence numbers
\* are handed out once, and every ACK request is accounted for
\* (sender.go:58-61, 142-146, 170-196).
THEOREM SenderSound ==
    Spec => [](S!FirstIsAuthenticated /\ S!SequenceNumbers /\ S!AckAccounting)
<1> DEFINE Inv == SP!TypeOK /\ SP!AuthInv /\ SP!LedgerInv
<1>1. Init => Inv
  <2>1. SP!Init => SP!AuthInv
    BY DEF SP!Init, SP!AuthInv
  <2>2. QED
    BY <2>1, SP!TypeInit, SP!LedgerInit, SameInvariants, LinkAssumption DEF Init
<1>2. Inv /\ [Next]_vars => Inv'
  BY SP!TypeStep, SP!AuthStep, SP!LedgerStep, SenderSimulated, SameNext, LinkAssumption
<1>3. Inv => S!FirstIsAuthenticated /\ S!SequenceNumbers /\ S!AckAccounting
  BY SameInvariants DEF SP!AuthInv, SP!LedgerInv, SP!FirstIsAuthenticated
<1>4. QED
  BY <1>1, <1>2, <1>3, PTL DEF Spec
=============================================================================
