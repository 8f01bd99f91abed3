--------------------------- MODULE Hybrid2Sender ---------------------------
(***************************************************************************)
(* The send path of a hybrid2 session towards ONE destination              *)
(* (hybrid2/sender.go): the SenderState of that destination, the           *)
(* goroutines that call SendDatagram, SendDatagramTimeout and              *)
(* ForceDatagram2, the receive loop that applies ACK responses, and the    *)
(* ACK cleanup ticker.  Every SenderState method holds the mutex for its   *)
(* own duration only, so each call is one action and a SendDatagram is a   *)
(* sequence of them that other goroutines interleave with.                 *)
(*                                                                         *)
(* Time is kept as ages.  The code compares time.Since(x) with a constant  *)
(* and nothing else, so an age stops growing at AgeLimit, which is above   *)
(* all of those constants.                                                 *)
(***************************************************************************)
EXTENDS Integers, FiniteSets, Functions

CONSTANTS
    Threads,                \* goroutines that send to this destination
    RepliableInterval,      \* every so many messages use datagram2 (500)
    RepliableTimeInterval,  \* datagram2 at least this often (4 minutes)
    HashExpiryDuration,     \* a receiver forgets a sender after this (10 min)
    AckTimeout,             \* an unanswered datagram2 is lost (10 seconds)
    MaxUnackedDatagrams,    \* always ask for an ACK near this many (3)
    AckRequestInterval,     \* ask for an ACK every so many datagram2 (1)
    AgeLimit,               \* ages stop growing here
    SendMayFail,            \* may a subsession's send return an error?
    MaxCalls                \* bound: calls to SendDatagram + ForceDatagram2

ASSUME IntervalAssumption ==
    /\ RepliableInterval \in Nat \ {0}
    /\ AckRequestInterval \in Nat \ {0}
    /\ MaxUnackedDatagrams \in Nat

ASSUME TimeAssumption ==
    /\ RepliableTimeInterval \in Nat \ {0}
    /\ HashExpiryDuration \in Nat
    /\ AckTimeout \in Nat
    /\ AgeLimit \in Nat
    /\ AgeLimit > RepliableTimeInterval
    /\ AgeLimit > HashExpiryDuration
    /\ AgeLimit > AckTimeout

ASSUME RunAssumption == SendMayFail \in BOOLEAN /\ MaxCalls \in Nat

VARIABLES
    closed,     \* HybridSession.closed
    counter,    \* SenderState.Counter
    sinceDg2,   \* age of SenderState.LastDatagram2Time, Never if it is zero
    seqNum,     \* SenderState.LastDatagram2SeqNum
    lastAcked,  \* SenderState.LastAckedSeqNum
    unacked,    \* SenderState.UnackedDatagrams: sequence number -> age
    rtt,        \* SenderState.RTT
    pc,         \* where each goroutine is in its call
    mySeq,      \* its seqNum while it may still ask for an ACK, else 0
    calls,      \* calls begun so far (bounded by MaxCalls)
    gap,        \* history: datagram3 sent since the last datagram2
    sinceWire,  \* history: age of the last datagram2 that was really sent
    requested,  \* history: sequence numbers sent with an ACK request
    expired     \* history: sequence numbers dropped by the cleanup

state  == <<counter, sinceDg2, seqNum, lastAcked, unacked, rtt>>
call   == <<pc, mySeq, calls>>
onWire == <<gap, sinceWire, requested>>
vars   == <<closed, state, call, onWire, expired>>

Never == -1
Ages  == 0..AgeLimit
Older(age) == IF age = Never \/ age = AgeLimit THEN age ELSE age + 1

Steps == {"idle", "shouldUse", "mark", "shouldRequest", "track", "send2",
          "send3", "increment", "forceMark", "forceSend", "reset"}

TypeOK ==
    /\ closed \in BOOLEAN
    /\ counter \in Nat
    /\ sinceDg2 \in Ages \cup {Never}
    /\ seqNum \in Nat
    /\ lastAcked \in Nat
    /\ DOMAIN unacked \in SUBSET Nat
    /\ unacked \in [DOMAIN unacked -> Ages]
    /\ rtt \in Ages
    /\ pc \in [Threads -> Steps]
    /\ mySeq \in [Threads -> Nat]
    /\ calls \in Nat
    /\ gap \in Nat
    /\ sinceWire \in Ages \cup {Never}
    /\ requested \in SUBSET Nat
    /\ expired \in SUBSET Nat

Init ==
    /\ closed = FALSE
    /\ counter = 0
    /\ sinceDg2 = Never
    /\ seqNum = 0
    /\ lastAcked = 0
    /\ unacked = [s \in {} |-> 0]
    /\ rtt = 0
    /\ pc = [t \in Threads |-> "idle"]
    /\ mySeq = [t \in Threads |-> 0]
    /\ calls = 0
    /\ gap = 0
    /\ sinceWire = Never
    /\ requested = {}
    /\ expired = {}

-----------------------------------------------------------------------------
(* The decisions of SenderState, each taken under its mutex.               *)

ShouldUseDatagram2 ==
    \/ counter % RepliableInterval = 0
    \/ sinceDg2 = Never
    \/ sinceDg2 >= RepliableTimeInterval

ShouldRequestAck ==
    \/ rtt = 0
    \/ seqNum % AckRequestInterval = 0
    \/ Cardinality(DOMAIN unacked) >= MaxUnackedDatagrams - 1

\* Mutant: the sum is not divided.
SmoothedUndivided(sample) == IF rtt = 0 THEN sample ELSE 7 * rtt + sample

\* The smoothed round trip: the first sample, then (7 x RTT + sample) / 8 in
\* integer division.
Smoothed(sample) == IF rtt = 0 THEN sample ELSE (7 * rtt + sample) \div 8

Goto(t, step) == pc' = [pc EXCEPT ![t] = step]

Return(t) == Goto(t, "idle") /\ mySeq' = [mySeq EXCEPT ![t] = 0]

-----------------------------------------------------------------------------
(* SendDatagram.  A SendDatagramTimeout is the same goroutine: when its    *)
(* timer fires first the caller gets ErrTimeout and the goroutine goes on. *)

\* ensureSessionOpen and getSenderState, the entry of both calls.  A closed
\* session returns ErrSessionClosed and nothing changes.
Begin(t, first) ==
    /\ pc[t] = "idle"
    /\ ~closed
    /\ calls < MaxCalls
    /\ calls' = calls + 1
    /\ Goto(t, first)
    /\ UNCHANGED <<closed, state, mySeq, onWire, expired>>

SendDatagram(t) == Begin(t, "shouldUse")

Decide(t) ==
    /\ pc[t] = "shouldUse"
    /\ Goto(t, IF ShouldUseDatagram2 THEN "mark" ELSE "send3")
    /\ UNCHANGED <<closed, state, mySeq, calls, onWire, expired>>

\* Mutant: the caller gets the number before the increment.
MarkReturnsOld(t) ==
    /\ pc[t] = "mark"
    /\ sinceDg2' = 0
    /\ seqNum' = seqNum + 1
    /\ mySeq' = [mySeq EXCEPT ![t] = seqNum]
    /\ Goto(t, "shouldRequest")
    /\ UNCHANGED <<closed, counter, lastAcked, unacked, rtt, calls,
                   onWire, expired>>

MarkDatagram2Sent(t) ==
    /\ pc[t] = "mark"
    /\ sinceDg2' = 0
    /\ seqNum' = seqNum + 1
    /\ mySeq' = [mySeq EXCEPT ![t] = seqNum + 1]
    /\ Goto(t, "shouldRequest")
    /\ UNCHANGED <<closed, counter, lastAcked, unacked, rtt, calls,
                   onWire, expired>>

RequestAck(t) ==
    /\ pc[t] = "shouldRequest"
    /\ \/ ShouldRequestAck /\ Goto(t, "track") /\ UNCHANGED mySeq
       \/ ~ShouldRequestAck /\ Goto(t, "send2")
                            /\ mySeq' = [mySeq EXCEPT ![t] = 0]
    /\ UNCHANGED <<closed, state, calls, onWire, expired>>

TrackUnacked(t) ==
    /\ pc[t] = "track"
    /\ unacked' = [s \in DOMAIN unacked \cup {mySeq[t]} |->
                      IF s = mySeq[t] THEN 0 ELSE unacked[s]]
    /\ Goto(t, "send2")
    /\ UNCHANGED <<closed, counter, sinceDg2, seqNum, lastAcked, rtt,
                   mySeq, calls, onWire, expired>>

\* datagram2Sub.SendDatagram succeeded.
SendDatagram2(t) ==
    /\ pc[t] = "send2"
    /\ gap' = 0
    /\ sinceWire' = 0
    /\ requested' = requested \cup ({mySeq[t]} \ {0})
    /\ Goto(t, "increment")
    /\ mySeq' = [mySeq EXCEPT ![t] = 0]
    /\ UNCHANGED <<closed, state, calls, expired>>

\* datagram3Sub.NewWriter().SendDatagram succeeded.
SendDatagram3(t) ==
    /\ pc[t] = "send3"
    /\ gap' = gap + 1
    /\ Goto(t, "increment")
    /\ UNCHANGED <<closed, state, mySeq, calls, sinceWire, requested, expired>>

IncrementCounter(t) ==
    /\ pc[t] = "increment"
    /\ counter' = counter + 1
    /\ Return(t)
    /\ UNCHANGED <<closed, sinceDg2, seqNum, lastAcked, unacked, rtt,
                   calls, onWire, expired>>

\* Mutant: the counter counts a message that was not sent.
FailureCounted(t) ==
    /\ pc[t] \in {"send2", "send3", "forceSend"}
    /\ SendMayFail \/ closed
    /\ Goto(t, "increment")
    /\ UNCHANGED <<closed, state, mySeq, calls, onWire, expired>>

\* A send that fails returns at once: the counter stays, and so do the
\* sequence number, LastDatagram2Time and the tracked entry.  After Close the
\* subsession is being torn down, and a send may fail even if it otherwise
\* would not.
SendFails(t) ==
    /\ pc[t] \in {"send2", "send3", "forceSend"}
    /\ SendMayFail \/ closed
    /\ Return(t)
    /\ UNCHANGED <<closed, state, calls, onWire, expired>>

-----------------------------------------------------------------------------
(* ForceDatagram2: no ACK request, and the counter is set to 1.            *)

ForceDatagram2(t) == Begin(t, "forceMark")

ForceMark(t) ==
    /\ pc[t] = "forceMark"
    /\ sinceDg2' = 0
    /\ seqNum' = seqNum + 1
    /\ Goto(t, "forceSend")
    /\ UNCHANGED <<closed, counter, lastAcked, unacked, rtt, mySeq,
                   calls, onWire, expired>>

ForceSend(t) ==
    /\ pc[t] = "forceSend"
    /\ gap' = 0
    /\ sinceWire' = 0
    /\ Goto(t, "reset")
    /\ UNCHANGED <<closed, state, mySeq, calls, requested, expired>>

ResetCounter(t) ==
    /\ pc[t] = "reset"
    /\ counter' = 1
    /\ Return(t)
    /\ UNCHANGED <<closed, sinceDg2, seqNum, lastAcked, unacked, rtt,
                   calls, onWire, expired>>

-----------------------------------------------------------------------------
(* The other goroutines of the session.                                    *)

\* Mutants: LastAckedSeqNum follows the last ACK to arrive; an ACK settles
\* every entry; an ACK counts for everything that was sent.
AckOverwrites(s) ==
    /\ s \in DOMAIN unacked
    /\ rtt' = Smoothed(unacked[s])
    /\ lastAcked' = s
    /\ unacked' = Restrict(unacked, {u \in DOMAIN unacked : u > s})
    /\ UNCHANGED <<closed, counter, sinceDg2, seqNum, call, onWire, expired>>

AckSettlesAll(s) ==
    /\ s \in DOMAIN unacked
    /\ rtt' = Smoothed(unacked[s])
    /\ lastAcked' = IF s > lastAcked THEN s ELSE lastAcked
    /\ unacked' = Restrict(unacked, {})
    /\ UNCHANGED <<closed, counter, sinceDg2, seqNum, call, onWire, expired>>

AckOfNewest(s) ==
    /\ s \in DOMAIN unacked
    /\ rtt' = Smoothed(unacked[s])
    /\ lastAcked' = seqNum
    /\ unacked' = Restrict(unacked, {u \in DOMAIN unacked : u > s})
    /\ UNCHANGED <<closed, counter, sinceDg2, seqNum, call, onWire, expired>>

\* An ACK response for s.  One for an unknown or already settled number is
\* ignored.
ProcessAck(s) ==
    /\ s \in DOMAIN unacked
    /\ rtt' = Smoothed(unacked[s])
    /\ lastAcked' = IF s > lastAcked THEN s ELSE lastAcked
    /\ unacked' = Restrict(unacked, {u \in DOMAIN unacked : u > s})
    /\ UNCHANGED <<closed, counter, sinceDg2, seqNum, call, onWire, expired>>

\* Mutant: only what an ACK has overtaken is given up.
StaleAcked == {s \in DOMAIN unacked : unacked[s] > AckTimeout /\ s <= lastAcked}

Stale == {s \in DOMAIN unacked : unacked[s] > AckTimeout}

CleanupStaleUnacked ==
    /\ Stale # {}
    /\ unacked' = Restrict(unacked, DOMAIN unacked \ Stale)
    /\ expired' = expired \cup Stale
    /\ UNCHANGED <<closed, counter, sinceDg2, seqNum, lastAcked, rtt,
                   call, onWire>>

\* HybridSession.Close as the sender sees it: new calls are refused, those in
\* progress go on.
Close ==
    /\ ~closed
    /\ closed' = TRUE
    /\ UNCHANGED <<state, call, onWire, expired>>

Tick ==
    /\ sinceDg2' = Older(sinceDg2)
    /\ sinceWire' = Older(sinceWire)
    /\ unacked' = [s \in DOMAIN unacked |-> Older(unacked[s])]
    /\ UNCHANGED <<closed, counter, seqNum, lastAcked, rtt, call, gap,
                   requested, expired>>

-----------------------------------------------------------------------------

Thread(t) ==
    \/ SendDatagram(t) \/ Decide(t) \/ MarkDatagram2Sent(t) \/ RequestAck(t)
    \/ TrackUnacked(t) \/ SendDatagram2(t) \/ SendDatagram3(t)
    \/ IncrementCounter(t) \/ SendFails(t)
    \/ ForceDatagram2(t) \/ ForceMark(t) \/ ForceSend(t) \/ ResetCounter(t)

\* The peer may acknowledge anything, at any time, more than once or never.
Next ==
    \/ \E t \in Threads : Thread(t)
    \/ \E s \in DOMAIN unacked : ProcessAck(s)
    \/ CleanupStaleUnacked
    \/ Close
    \/ Tick

\* The clock runs, and the ACK cleanup ticker keeps firing until Close.
Spec == Init /\ [][Next]_vars /\ WF_vars(Tick)
             /\ WF_vars(~closed /\ CleanupStaleUnacked)

-----------------------------------------------------------------------------
(* Properties.                                                             *)

\* No message travels as datagram3 before some datagram2 to this destination
\* has really been sent, whatever fails, is forced or runs at the same time:
\* the receiver has seen an authenticated source first (sender.go:264).
FirstIsAuthenticated ==
    sinceWire = Never =>
        /\ counter = 0
        /\ gap = 0
        /\ \A t \in Threads : pc[t] # "send3"

\* Sequence numbers are handed out once: two calls in flight never share one,
\* none is tracked or acknowledged that was not handed out, and a peer that
\* acknowledges whatever it likes cannot push LastAckedSeqNum past what was
\* sent.
SequenceNumbers ==
    /\ \A t, u \in Threads :
          mySeq[t] = mySeq[u] /\ mySeq[t] # 0 => t = u
    /\ \A t \in Threads : mySeq[t] <= seqNum
    /\ DOMAIN unacked \subseteq 1..seqNum
    /\ lastAcked <= seqNum

\* Every ACK request that left is accounted for: it is still tracked, or it
\* is covered by an acknowledgement, or the cleanup gave it up.  So an ACK
\* response never arrives before its request is tracked, and a number given
\* up is not tracked again.
AckAccounting ==
    /\ \A s \in requested :
          s \in DOMAIN unacked \/ s <= lastAcked \/ s \in expired
    /\ DOMAIN unacked \cap expired = {}

\* TotalAcked and the path statistics only go forward: an ACK that arrives
\* late or out of order never lowers LastAckedSeqNum, and no step forgets an
\* entry without having settled it.
AcksGoForward ==
    [][ /\ lastAcked' >= lastAcked
        /\ \A s \in DOMAIN unacked \ DOMAIN unacked' :
              s <= lastAcked' \/ s \in expired' ]_vars

\* While the session is open no datagram2 waits for its ACK for ever.
EventuallySettled ==
    \A s \in 1..MaxCalls : s \in DOMAIN unacked ~> (s \notin DOMAIN unacked \/ closed)

\* "The time-based trigger ensures hash mappings don't expire on low-traffic
\* connections" (sender.go:53): when the decision for datagram3 is taken, the
\* last datagram2 that was sent is no older than the receiver keeps it.
FreshIdentity ==
    [][ \A t \in Threads :
          Decide(t) /\ pc'[t] = "send3" => sinceWire \in 0..HashExpiryDuration
      ]_vars
=============================================================================
