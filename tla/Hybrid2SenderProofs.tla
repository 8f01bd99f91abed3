------------------------ MODULE Hybrid2SenderProofs ------------------------
(***************************************************************************)
(* Proofs about Hybrid2Sender: for any number of goroutines, any intervals *)
(* and timeouts, with or without send failures, and for a peer that may    *)
(* acknowledge whatever it likes.                                          *)
(***************************************************************************)
EXTENDS Hybrid2Sender, TLAPS

(***************************************************************************)
(* Type correctness.                                                       *)
(***************************************************************************)

\* The smoothed round trip is never longer than the longest sample
\* (sender.go:155-159).
LEMMA SmoothedType ==
    ASSUME rtt \in Ages, NEW sample \in Ages
    PROVE  Smoothed(sample) \in Ages
<1>1. ASSUME NEW a \in Nat, NEW x \in Nat, x <= 8 * a
      PROVE  x \div 8 \in 0..a
  <2>1. x \div 8 \in Nat
    OBVIOUS
  <2>2. 8 * (x \div 8) <= x
    OBVIOUS
  <2>3. \A q \in Nat : 8 * q <= x => q <= a
    BY <1>1
  <2>4. QED
    BY <2>1, <2>2, <2>3
<1>2. 7 * rtt + sample \in Nat /\ 7 * rtt + sample <= 8 * AgeLimit
  BY TimeAssumption DEF Ages
<1>3. (7 * rtt + sample) \div 8 \in 0..AgeLimit
  BY <1>1, <1>2, TimeAssumption
<1>4. QED
  BY <1>3 DEF Smoothed, Ages

\* Growing older keeps an age an age.
LEMMA OlderType ==
    ASSUME NEW age \in Ages \cup {Never}
    PROVE  Older(age) \in Ages \cup {Never} /\ (age \in Ages => Older(age) \in Ages)
           /\ (Older(age) = Never <=> age = Never)
BY TimeAssumption DEF Older, Ages, Never

LEMMA TypeInit == Init => TypeOK
<1> SUFFICES ASSUME Init PROVE TypeOK
  OBVIOUS
<1> USE DEF Init
<1>1. unacked \in [DOMAIN unacked -> Ages] /\ DOMAIN unacked = {}
  OBVIOUS
<1>2. pc \in [Threads -> Steps]
  BY DEF Steps
<1>3. 0 \in Ages
  BY TimeAssumption DEF Ages
<1>4. QED
  BY <1>1, <1>2, <1>3 DEF TypeOK, Never

LEMMA TypeStep == TypeOK /\ [Next]_vars => TypeOK'
<1> SUFFICES ASSUME TypeOK, [Next]_vars PROVE TypeOK'
  OBVIOUS
<1> USE TimeAssumption DEF TypeOK
<1>1. ASSUME NEW t \in Threads, Thread(t) PROVE TypeOK'
  <2>1. CASE SendDatagram(t) \/ ForceDatagram2(t)
    BY <2>1 DEF SendDatagram, ForceDatagram2, Begin, Goto, Steps, state, onWire
  <2>2. CASE Decide(t)
    BY <2>2 DEF Decide, Goto, Steps, state, onWire
  <2>3. CASE MarkDatagram2Sent(t)
    BY <2>3 DEF MarkDatagram2Sent, Goto, Steps, Ages, onWire
  <2>4. CASE RequestAck(t)
    BY <2>4 DEF RequestAck, Goto, Steps, state, onWire
  <2>5. CASE TrackUnacked(t)
    BY <2>5 DEF TrackUnacked, Goto, Steps, Ages, onWire
  <2>6. CASE SendDatagram2(t)
    BY <2>6 DEF SendDatagram2, Goto, Steps, Ages, state
  <2>7. CASE SendDatagram3(t)
    BY <2>7 DEF SendDatagram3, Goto, Steps, state
  <2>8. CASE IncrementCounter(t)
    BY <2>8 DEF IncrementCounter, Return, Goto, Steps, onWire
  <2>9. CASE SendFails(t)
    BY <2>9 DEF SendFails, Return, Goto, Steps, state, onWire
  <2>10. CASE ForceMark(t)
    BY <2>10 DEF ForceMark, Goto, Steps, Ages, onWire
  <2>11. CASE ForceSend(t)
    BY <2>11 DEF ForceSend, Goto, Steps, Ages, state
  <2>12. CASE ResetCounter(t)
    BY <2>12 DEF ResetCounter, Return, Goto, Steps, onWire
  <2>13. QED
    BY <1>1, <2>1, <2>2, <2>3, <2>4, <2>5, <2>6, <2>7, <2>8, <2>9, <2>10,
       <2>11, <2>12 DEF Thread
<1>2. ASSUME NEW s \in DOMAIN unacked, ProcessAck(s) PROVE TypeOK'
  <2>1. rtt' \in Ages
    BY <1>2, SmoothedType DEF ProcessAck
  <2>2. QED
    BY <1>2, <2>1 DEF ProcessAck, Restrict, call, onWire
<1>3. CASE CleanupStaleUnacked
  BY <1>3 DEF CleanupStaleUnacked, Stale, Restrict, call, onWire
<1>4. CASE Close
  BY <1>4 DEF Close, state, call, onWire
<1>5. CASE Tick
  BY <1>5, OlderType DEF Tick, call
<1>6. CASE UNCHANGED vars
  BY <1>6 DEF vars, state, call, onWire
<1>7. QED
  BY <1>1, <1>2, <1>3, <1>4, <1>5, <1>6 DEF Next

\* Every reachable state is well typed: no counter, sequence number, round
\* trip or age leaves its range.
THEOREM TypeCorrect == Spec => []TypeOK
BY TypeInit, TypeStep, PTL DEF Spec

(***************************************************************************)
(* The first datagram is authenticated.  FirstIsAuthenticated is not       *)
(* inductive: a goroutine about to increment or to reset the counter must  *)
(* have sent something itself.                                             *)
(***************************************************************************)

AuthInv ==
    sinceWire = Never =>
        /\ counter = 0
        /\ gap = 0
        /\ \A t \in Threads : pc[t] \notin {"send3", "increment", "reset"}

LEMMA AuthStep == TypeOK /\ AuthInv /\ [Next]_vars => AuthInv'
<1> SUFFICES ASSUME TypeOK, AuthInv, [Next]_vars PROVE AuthInv'
  OBVIOUS
<1> USE DEF TypeOK, AuthInv
<1>1. ASSUME NEW t \in Threads, Thread(t) PROVE AuthInv'
  <2>1. CASE SendDatagram(t) \/ ForceDatagram2(t)
    BY <2>1 DEF SendDatagram, ForceDatagram2, Begin, Goto, state, onWire
  <2>2. CASE Decide(t)
    \* The counter is 0 as long as nothing has left, and 0 is a multiple of
    \* every interval, so the decision is for datagram2.
    <3>1. 0 % RepliableInterval = 0
      BY IntervalAssumption
    <3>2. sinceWire = Never => ShouldUseDatagram2
      BY <3>1 DEF ShouldUseDatagram2
    <3>3. QED
      BY <2>2, <3>2 DEF Decide, Goto, state, onWire
  <2>3. CASE MarkDatagram2Sent(t)
    BY <2>3 DEF MarkDatagram2Sent, Goto, onWire
  <2>4. CASE RequestAck(t)
    BY <2>4 DEF RequestAck, Goto, state, onWire
  <2>5. CASE TrackUnacked(t)
    BY <2>5 DEF TrackUnacked, Goto, onWire
  <2>6. CASE SendDatagram2(t)
    BY <2>6 DEF SendDatagram2, Never
  <2>7. CASE SendDatagram3(t)
    BY <2>7 DEF SendDatagram3, Goto, state
  <2>8. CASE IncrementCounter(t)
    BY <2>8 DEF IncrementCounter, Return, Goto, onWire
  <2>9. CASE SendFails(t)
    BY <2>9 DEF SendFails, Return, Goto, state, onWire
  <2>10. CASE ForceMark(t)
    BY <2>10 DEF ForceMark, Goto, onWire
  <2>11. CASE ForceSend(t)
    BY <2>11 DEF ForceSend, Never
  <2>12. CASE ResetCounter(t)
    BY <2>12 DEF ResetCounter, Return, Goto, onWire
  <2>13. QED
    BY <1>1, <2>1, <2>2, <2>3, <2>4, <2>5, <2>6, <2>7, <2>8, <2>9, <2>10,
       <2>11, <2>12 DEF Thread
<1>2. CASE Tick
  BY <1>2, OlderType DEF Tick, call
<1>3. ASSUME NEW s \in DOMAIN unacked, ProcessAck(s) PROVE AuthInv'
  BY <1>3 DEF ProcessAck, call, onWire
<1>4. CASE CleanupStaleUnacked \/ Close
  BY <1>4 DEF CleanupStaleUnacked, Close, state, call, onWire
<1>5. CASE UNCHANGED vars
  BY <1>5 DEF vars, state, call, onWire
<1>6. QED
  BY <1>1, <1>2, <1>3, <1>4, <1>5 DEF Next

\* Whatever fails, is forced or runs concurrently, no datagram3 is sent to a
\* destination before a datagram2 to it really was (sender.go:58-61, 264).
THEOREM FirstAuthenticated == Spec => []FirstIsAuthenticated
<1>1. Init => AuthInv
  BY DEF Init, AuthInv
<1>2. AuthInv => FirstIsAuthenticated
  BY DEF AuthInv, FirstIsAuthenticated
<1>3. QED
  BY <1>1, <1>2, AuthStep, TypeCorrect, PTL DEF Spec

(***************************************************************************)
(* The ledger of sequence numbers.  SequenceNumbers and AckAccounting hold *)
(* because a number belongs to one call until it is tracked, is tracked    *)
(* before the request leaves, and is settled only once.                    *)
(***************************************************************************)

Settled(s) == s \in DOMAIN unacked \/ s <= lastAcked \/ s \in expired

Held(t) ==
    /\ pc[t] \notin {"shouldRequest", "track", "send2"} => mySeq[t] = 0
    /\ pc[t] \in {"shouldRequest", "track"} =>
          mySeq[t] # 0 /\ mySeq[t] \notin DOMAIN unacked /\ mySeq[t] \notin expired
    /\ pc[t] = "send2" /\ mySeq[t] # 0 => Settled(mySeq[t])

LedgerInv ==
    /\ SequenceNumbers
    /\ AckAccounting
    /\ expired \subseteq 1..seqNum
    /\ \A t \in Threads : Held(t)

LEMMA LedgerInit == Init => LedgerInv
BY DEF Init, LedgerInv, SequenceNumbers, AckAccounting, Held, Settled

\* Steps of a goroutine that touch neither the tracking nor any number.
LEMMA LedgerUntouched ==
    ASSUME LedgerInv, TypeOK,
           UNCHANGED <<seqNum, lastAcked, unacked, mySeq, requested, expired>>,
           \A t \in Threads : pc'[t] = pc[t] \/ (mySeq[t] = 0 /\ pc'[t] \notin {"shouldRequest", "track"})
    PROVE  LedgerInv'
BY DEF LedgerInv, SequenceNumbers, AckAccounting, Held, Settled, TypeOK

LEMMA LedgerStep == TypeOK /\ LedgerInv /\ [Next]_vars => LedgerInv'
<1> SUFFICES ASSUME TypeOK, LedgerInv, [Next]_vars PROVE LedgerInv'
  OBVIOUS
<1> USE DEF TypeOK
<1>1. ASSUME NEW t \in Threads, Thread(t) PROVE LedgerInv'
  <2> USE DEF LedgerInv, SequenceNumbers, AckAccounting, Held, Settled
  <2>1. CASE SendDatagram(t) \/ ForceDatagram2(t) \/ Decide(t)
    BY <2>1, LedgerUntouched DEF SendDatagram, ForceDatagram2, Begin, Decide, Goto,
       state, onWire
  <2>2. CASE MarkDatagram2Sent(t)
    BY <2>2 DEF MarkDatagram2Sent, Goto, onWire
  <2>3. CASE RequestAck(t)
    BY <2>3 DEF RequestAck, Goto, state, onWire
  <2>4. CASE TrackUnacked(t)
    BY <2>4 DEF TrackUnacked, Goto, onWire
  <2>5. CASE SendDatagram2(t)
    BY <2>5 DEF SendDatagram2, Goto, state
  <2>6. CASE SendDatagram3(t)
    BY <2>6, LedgerUntouched DEF SendDatagram3, Goto, state
  <2>7. CASE IncrementCounter(t) \/ ResetCounter(t) \/ SendFails(t)
    BY <2>7 DEF IncrementCounter, ResetCounter, SendFails, Return, Goto, state, onWire
  <2>8. CASE ForceMark(t)
    BY <2>8 DEF ForceMark, Goto, onWire
  <2>9. CASE ForceSend(t)
    BY <2>9, LedgerUntouched DEF ForceSend, Goto, state
  <2>10. QED
    BY <1>1, <2>1, <2>2, <2>3, <2>4, <2>5, <2>6, <2>7, <2>8, <2>9 DEF Thread
<1>2. ASSUME NEW s \in DOMAIN unacked, ProcessAck(s) PROVE LedgerInv'
  BY <1>2 DEF ProcessAck, Restrict, call, onWire, LedgerInv, SequenceNumbers,
     AckAccounting, Held, Settled
<1>3. CASE CleanupStaleUnacked
  BY <1>3 DEF CleanupStaleUnacked, Restrict, Stale, call, onWire, LedgerInv,
     SequenceNumbers, AckAccounting, Held, Settled
<1>4. CASE Tick
  BY <1>4 DEF Tick, call, LedgerInv, SequenceNumbers, AckAccounting, Held, Settled
<1>5. CASE Close \/ UNCHANGED vars
  BY <1>5, LedgerUntouched DEF Close, vars, state, call, onWire
<1>6. QED
  BY <1>1, <1>2, <1>3, <1>4, <1>5 DEF Next

LEMMA LedgerCorrect == Spec => []LedgerInv
BY LedgerInit, LedgerStep, TypeCorrect, PTL DEF Spec

\* Sequence numbers are handed out once, and no acknowledgement, honest or
\* not, reaches past them (sender.go:96-97, 142-146, 170-179).
THEOREM SequenceNumbersCorrect == Spec => []SequenceNumbers
BY LedgerCorrect, PTL DEF LedgerInv

\* Every ACK request that left is still tracked, acknowledged or given up,
\* and none is tracked again after it was given up (sender.go:280-295).
THEOREM AckAccountingCorrect == Spec => []AckAccounting
BY LedgerCorrect, PTL DEF LedgerInv

\* LastAckedSeqNum never goes back, and an entry leaves UnackedDatagrams only
\* by being acknowledged or by timing out (sender.go:170-179, 191-196).
THEOREM AcksForward == Spec => AcksGoForward
<1> DEFINE A == /\ lastAcked' >= lastAcked
                /\ \A s \in DOMAIN unacked \ DOMAIN unacked' :
                      s <= lastAcked' \/ s \in expired'
<1>1. ASSUME TypeOK, [Next]_vars PROVE A
  <2> USE DEF TypeOK
  <2>1. ASSUME NEW t \in Threads, Thread(t) PROVE A
    <3>1. UNCHANGED lastAcked /\ DOMAIN unacked \subseteq DOMAIN unacked'
      BY <1>1, <2>1 DEF Thread, SendDatagram, ForceDatagram2, Begin, Decide, MarkDatagram2Sent,
         RequestAck, TrackUnacked, SendDatagram2, SendDatagram3, IncrementCounter,
         SendFails, ForceMark, ForceSend, ResetCounter, state
    <3>2. QED
      BY <1>1, <3>1
  <2>2. ASSUME NEW s \in DOMAIN unacked, ProcessAck(s) PROVE A
    BY <1>1, <2>2 DEF ProcessAck, Restrict
  <2>3. CASE CleanupStaleUnacked
    BY <1>1, <2>3 DEF CleanupStaleUnacked, Restrict, Stale
  <2>4. CASE Close \/ Tick \/ UNCHANGED vars
    BY <1>1, <2>4 DEF Close, Tick, vars, state
  <2>5. QED
    BY <1>1, <2>1, <2>2, <2>3, <2>4 DEF Next
<1>2. QED
  BY <1>1, TypeCorrect, PTL DEF Spec, AcksGoForward

(***************************************************************************)
(* Fresh identities.  FreshIdentity fails when a send fails, and when one  *)
(* goroutine decides after another has set LastDatagram2Time and before    *)
(* that one has sent.  With one goroutine whose sends fail at most because *)
(* the session was closed, it holds.                                       *)
(***************************************************************************)

Alone == \A t, u \in Threads : t = u

\* Where LastDatagram2Time may be younger than the last datagram2 that left:
\* between the two, and for ever after a send that failed by Close.
Ahead(t) == \/ pc[t] \in {"shouldRequest", "track", "send2", "forceSend"}
            \/ pc[t] = "idle" /\ closed

FreshInv ==
    \A t \in Threads : Ahead(t) \/ sinceDg2 = Never \/ sinceWire \in 0..sinceDg2

LEMMA FreshStep ==
    ASSUME Alone, ~SendMayFail, TypeOK, FreshInv, [Next]_vars
    PROVE  FreshInv'
<1> USE DEF TypeOK, FreshInv, Ahead
<1>1. ASSUME NEW t \in Threads, Thread(t) PROVE FreshInv'
  <2>1. \A u \in Threads : u = t
    BY DEF Alone
  <2>2. CASE SendDatagram(t) \/ ForceDatagram2(t)
    BY <2>1, <2>2 DEF SendDatagram, ForceDatagram2, Begin, Goto, state, onWire
  <2>3. CASE Decide(t)
    BY <2>1, <2>3 DEF Decide, Goto, state, onWire
  <2>4. CASE MarkDatagram2Sent(t) \/ ForceMark(t)
    BY <2>1, <2>4 DEF MarkDatagram2Sent, ForceMark, Goto
  <2>5. CASE RequestAck(t) \/ TrackUnacked(t)
    BY <2>1, <2>5 DEF RequestAck, TrackUnacked, Goto
  <2>6. CASE SendDatagram2(t) \/ ForceSend(t)
    BY <2>1, <2>6, TimeAssumption DEF SendDatagram2, ForceSend, Ages, Never, state
  <2>7. CASE SendDatagram3(t)
    BY <2>1, <2>7 DEF SendDatagram3, Goto, state
  <2>8. CASE IncrementCounter(t) \/ ResetCounter(t)
    BY <2>1, <2>8 DEF IncrementCounter, ResetCounter, Return, Goto, onWire
  <2>9. CASE SendFails(t)
    BY <2>1, <2>9 DEF SendFails, Return, Goto
  <2>10. QED
    BY <1>1, <2>2, <2>3, <2>4, <2>5, <2>6, <2>7, <2>8, <2>9 DEF Thread
<1>2. CASE Tick
  <2>1. ASSUME sinceWire \in 0..sinceDg2, sinceDg2 # Never
        PROVE  Older(sinceWire) \in 0..Older(sinceDg2)
    BY <2>1, TimeAssumption DEF Older, Ages, Never
  <2>2. QED
    BY <1>2, <2>1, OlderType DEF Tick, call
<1>3. ASSUME NEW s \in DOMAIN unacked, ProcessAck(s) PROVE FreshInv'
  BY <1>3 DEF ProcessAck, call, onWire
<1>4. CASE CleanupStaleUnacked \/ Close
  BY <1>4 DEF CleanupStaleUnacked, Close, state, call, onWire
<1>5. CASE UNCHANGED vars
  BY <1>5 DEF vars, state, call, onWire
<1>6. QED
  BY <1>1, <1>2, <1>3, <1>4, <1>5 DEF Next

\* With one goroutine and no failures, a datagram3 is chosen only while the
\* receiver keeps the last datagram2 that was really sent, as long as the
\* refresh interval leaves it time: what the comment at sender.go:53 says.
THEOREM FreshWhenAlone ==
    ASSUME Alone, ~SendMayFail, RepliableTimeInterval <= HashExpiryDuration + 1
    PROVE  Spec => FreshIdentity
<1> DEFINE Fresh == \A t \in Threads :
              Decide(t) /\ pc'[t] = "send3" => sinceWire \in 0..HashExpiryDuration
<1>1. Init => FreshInv
  BY DEF Init, FreshInv
<1>2. TypeOK /\ FreshInv => Fresh
  <2> SUFFICES ASSUME TypeOK, FreshInv, NEW t \in Threads, Decide(t), pc'[t] = "send3"
               PROVE  sinceWire \in 0..HashExpiryDuration
    OBVIOUS
  <2>1. ~ShouldUseDatagram2
    BY DEF Decide, Goto, TypeOK
  <2>2. sinceDg2 \in 0..(RepliableTimeInterval - 1)
    BY <2>1, TimeAssumption DEF ShouldUseDatagram2, TypeOK, Ages, Never
  <2>3. sinceWire \in 0..sinceDg2
    BY <2>2 DEF FreshInv, Ahead, Decide, Never
  <2>4. QED
    BY <2>2, <2>3, TimeAssumption
<1>3. QED
  BY <1>1, <1>2, FreshStep, TypeCorrect, PTL DEF Spec, FreshIdentity
=============================================================================
