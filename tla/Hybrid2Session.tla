-------------------------- MODULE Hybrid2Session ---------------------------
(***************************************************************************)
(* The life of a hybrid2 session (hybrid2/session.go, receiver.go): its    *)
(* construction, the two receive loops that multiplex onto recvChan, the   *)
(* goroutines that read from it directly or through a HybridPacketConn,    *)
(* the two cleanup goroutines, and Close, which several goroutines may     *)
(* call at once.  What the loops do to the sender table is the subject of  *)
(* Hybrid2Receiver, what an ACK does of Hybrid2Sender.                     *)
(***************************************************************************)
EXTENDS Integers, Sequences, SequencesExt

CONSTANTS
    Readers,             \* goroutines that call ReceiveDatagram or ReadFrom
    Timed,               \* those of them that read with a timeout
    Closers,             \* goroutines that call Close
    Stubborn,            \* subsessions whose Close may fail
    RecvChanBufferSize,  \* capacity of recvChan (100)
    MaxDatagrams         \* bound: datagrams the two loops receive

ASSUME ReadersAssumption == Timed \subseteq Readers

ASSUME SizeAssumption == RecvChanBufferSize \in Nat \ {0} /\ MaxDatagrams \in Nat

Loops      == {"dg2", "dg3"}
Background == {"ackCleanup", "mappingCleanup"}

ASSUME StubbornAssumption == Stubborn \subseteq Loops

VARIABLES
    phase,       \* how far NewHybridSession got
    subs,        \* open subsessions
    unclosed,    \* history: those of them whose Close returned an error
    closed,      \* HybridSession.closed
    signals,     \* what Close has closed: channels and the readers
    closer,      \* where each goroutine is in Close
    loop,        \* where each receive loop is
    hand,        \* the kind of the datagram a loop is working on
    background,  \* the cleanup goroutines that run
    recvChan,    \* the unified receive channel
    recvErr,     \* recvErrChan holds an error (capacity 1)
    reader,      \* what each reading goroutine is blocked on
    arrived,     \* history: datagrams received so far, per loop
    got          \* history: what readers took from recvChan, per loop

setup   == <<phase, subs, unclosed, background>>
traffic == <<hand, recvChan, recvErr, arrived, got>>
vars    == <<setup, closed, signals, closer, loop, reader, traffic>>

\* A datagram is the subsession it came from and its place in the arrivals
\* there; what kind of payload it has matters to its loop only.
Datagrams == [from : Loops, n : 1..MaxDatagrams]
Kinds     == {"data", "ackRequest", "ackResponse"}
Empty     == "empty"

TeardownSteps == {"recvStop", "stopCleanup", "readers", "ackStop", "dg2", "dg3", "done"}
CloserSteps   == TeardownSteps \cup {"idle", "returned"}

TypeOK ==
    /\ phase \in {"new", "dg2Made", "running", "failed"}
    /\ subs \subseteq Loops
    /\ unclosed \subseteq Stubborn
    /\ closed \in BOOLEAN
    /\ signals \subseteq TeardownSteps
    /\ closer \in [Closers -> CloserSteps]
    /\ loop \in [Loops -> {"off", "top", "receive", "handle", "send", "exited"}]
    /\ hand \in [Loops -> Kinds \cup {Empty}]
    /\ background \subseteq Background
    /\ recvChan \in Seq(Datagrams) /\ Len(recvChan) <= RecvChanBufferSize
    /\ recvErr \in BOOLEAN
    /\ reader \in [Readers -> {"idle", "select"}]
    /\ arrived \in [Loops -> 0..MaxDatagrams]
    /\ got \in [Loops -> Seq(Datagrams)]

Init ==
    /\ phase = "new"
    /\ subs = {}
    /\ unclosed = {}
    /\ background = {}
    /\ closed = FALSE
    /\ signals = {}
    /\ closer = [c \in Closers |-> "idle"]
    /\ loop = [l \in Loops |-> "off"]
    /\ hand = [l \in Loops |-> Empty]
    /\ recvChan = <<>>
    /\ recvErr = FALSE
    /\ reader = [r \in Readers |-> "idle"]
    /\ arrived = [l \in Loops |-> 0]
    /\ got = [l \in Loops |-> <<>>]

-----------------------------------------------------------------------------
(* NewHybridSession *)

CreateDatagram2Sub ==
    /\ phase = "new"
    /\ \/ phase' = "dg2Made" /\ subs' = {"dg2"}
       \/ phase' = "failed" /\ UNCHANGED subs
    /\ UNCHANGED <<unclosed, background, closed, signals, closer, loop, reader, traffic>>

\* Mutant: the datagram2 subsession is left open.
Datagram2SubLeaks ==
    /\ phase = "dg2Made"
    /\ phase' = "failed"
    /\ UNCHANGED <<subs, unclosed, background, closed, signals, closer, loop, reader,
                   traffic>>

\* Closing a subsession returns an error that nobody looks at, and the subsession
\* may be open still.
CloseSub(l) ==
    \/ subs' = subs \ {l} /\ UNCHANGED unclosed
    \/ l \in Stubborn /\ unclosed' = unclosed \cup {l} /\ UNCHANGED subs

\* The datagram3 subsession fails: the datagram2 one is closed again.
CreateDatagram3SubFails ==
    /\ phase = "dg2Made"
    /\ phase' = "failed"
    /\ CloseSub("dg2")
    /\ UNCHANGED <<background, closed, signals, closer, loop, reader, traffic>>

\* Readers, channels and the four goroutines come with the second subsession.
CreateDatagram3Sub ==
    /\ phase = "dg2Made"
    /\ phase' = "running"
    /\ subs' = Loops
    /\ background' = Background
    /\ loop' = [l \in Loops |-> "top"]
    /\ UNCHANGED <<unclosed, closed, signals, closer, reader, traffic>>

-----------------------------------------------------------------------------
(* datagram2ReceiveLoop and datagram3ReceiveLoop *)

Stopped == "recvStop" \in signals

Move(l, step) == loop' = [loop EXCEPT ![l] = step]

Current(l) == [from |-> l, n |-> arrived[l]]

LoopTop(l) ==
    /\ loop[l] = "top"
    /\ Move(l, IF Stopped THEN "exited" ELSE "receive")
    /\ UNCHANGED <<setup, closed, signals, closer, reader, traffic>>

Receive(l, kind) ==
    /\ loop[l] = "receive"
    /\ l \in subs
    /\ arrived["dg2"] + arrived["dg3"] < MaxDatagrams
    /\ l = "dg3" => kind = "data"
    /\ arrived' = [arrived EXCEPT ![l] = @ + 1]
    /\ hand' = [hand EXCEPT ![l] = kind]
    /\ Move(l, "handle")
    /\ UNCHANGED <<setup, closed, signals, closer, reader, recvChan,
                   recvErr, got>>

\* The receive returned an error: exit if the session is stopping, otherwise
\* report it if recvErrChan has room and go on.
ReceiveError(l) ==
    /\ loop[l] = "receive"
    /\ \/ Stopped /\ Move(l, "exited") /\ UNCHANGED recvErr
       \/ ~Stopped /\ Move(l, "top") /\ recvErr' = TRUE
    /\ UNCHANGED <<setup, closed, signals, closer, reader, hand,
                   recvChan, arrived, got>>

\* A receive on a closed subsession, or on the closed datagram3 reader,
\* returns an error.
Unreadable(l) == l \notin subs \/ (l = "dg3" /\ "readers" \in signals)

\* processDatagram2Ack: an ACK response goes to the sender state and no
\* further; an ACK request is answered, and when the answer cannot be sent,
\* because the session is closed for one, that is reported.
Handle(l) ==
    /\ loop[l] = "handle"
    /\ IF hand[l] = "ackResponse"
       THEN /\ Move(l, "top")
            /\ hand' = [hand EXCEPT ![l] = Empty]
            /\ UNCHANGED recvErr
       ELSE /\ Move(l, "send")
            /\ \/ hand[l] = "ackRequest" /\ recvErr' = TRUE
               \/ (hand[l] = "ackRequest" => ~closed) /\ UNCHANGED recvErr
            /\ UNCHANGED hand
    /\ UNCHANGED <<setup, closed, signals, closer, reader, recvChan,
                   arrived, got>>

\* Mutant: recvChan is made one place too large.
ForwardOneMore(l) ==
    /\ loop[l] = "send"
    /\ Len(recvChan) <= RecvChanBufferSize
    /\ recvChan' = Append(recvChan, Current(l))
    /\ hand' = [hand EXCEPT ![l] = Empty]
    /\ Move(l, "top")
    /\ UNCHANGED <<setup, closed, signals, closer, reader, recvErr,
                   arrived, got>>

\* Mutant: the datagram is given up when recvChan is full.
ForwardOrDrop(l) ==
    /\ loop[l] = "send"
    /\ recvChan' = IF Len(recvChan) < RecvChanBufferSize
                   THEN Append(recvChan, Current(l)) ELSE recvChan
    /\ hand' = [hand EXCEPT ![l] = Empty]
    /\ Move(l, "top")
    /\ UNCHANGED <<setup, closed, signals, closer, reader, recvErr,
                   arrived, got>>

Forward(l) ==
    /\ loop[l] = "send"
    /\ Len(recvChan) < RecvChanBufferSize
    /\ recvChan' = Append(recvChan, Current(l))
    /\ hand' = [hand EXCEPT ![l] = Empty]
    /\ Move(l, "top")
    /\ UNCHANGED <<setup, closed, signals, closer, reader, recvErr,
                   arrived, got>>

\* Mutant: a plain send, not a select with recvStopChan.
NeverGiveUp(l) == FALSE /\ UNCHANGED vars

GiveUp(l) ==
    /\ loop[l] = "send"
    /\ Stopped
    /\ hand' = [hand EXCEPT ![l] = Empty]
    /\ Move(l, "exited")
    /\ UNCHANGED <<setup, closed, signals, closer, reader, recvChan,
                   recvErr, arrived, got>>

-----------------------------------------------------------------------------
(* ReceiveDatagram, ReceiveDatagramTimeout and HybridPacketConn.ReadFrom *)

ReaderAt(r, step) == reader' = [reader EXCEPT ![r] = step]

\* A direct call, or one through the wrapper with its closed flag clear, with
\* or without a timeout.  A closed session returns ErrSessionClosed; it is
\* not looked at again once the call waits.
Read(r) ==
    /\ phase = "running"
    /\ reader[r] = "idle"
    /\ ~closed
    /\ ReaderAt(r, "select")
    /\ UNCHANGED <<setup, closed, signals, closer, loop, traffic>>

Take(r) ==
    /\ reader[r] = "select"
    /\ recvChan # <<>>
    /\ got' = [got EXCEPT ![Head(recvChan).from] = Append(@, Head(recvChan))]
    /\ recvChan' = Tail(recvChan)
    /\ ReaderAt(r, "idle")
    /\ UNCHANGED <<setup, closed, signals, closer, loop, hand, recvErr,
                   arrived>>

TakeError(r) ==
    /\ reader[r] = "select"
    /\ recvErr
    /\ recvErr' = FALSE
    /\ ReaderAt(r, "idle")
    /\ UNCHANGED <<setup, closed, signals, closer, loop, hand, recvChan,
                   arrived, got>>

Timeout(r) ==
    /\ r \in Timed
    /\ reader[r] = "select"
    /\ ReaderAt(r, "idle")
    /\ UNCHANGED <<setup, closed, signals, closer, loop, traffic>>

-----------------------------------------------------------------------------
(* Close *)

\* Mutant: the flag is read and set in two critical sections.
CloseUnchecked(c) ==
    /\ phase = "running"
    /\ closer[c] = "idle"
    /\ closed' = TRUE
    /\ closer' = [closer EXCEPT ![c] = "recvStop"]
    /\ UNCHANGED <<setup, signals, loop, reader, traffic>>

\* Only the call that sets the flag tears down; the others return at once.
Close(c) ==
    /\ phase = "running"
    /\ closer[c] = "idle"
    /\ closed' = TRUE
    /\ closer' = [closer EXCEPT ![c] = IF closed THEN "returned" ELSE "recvStop"]
    /\ UNCHANGED <<setup, signals, loop, reader, traffic>>

\* Mutant: cleanupDone is closed before the subsessions.
DoneTooEarly == [recvStop |-> "stopCleanup", stopCleanup |-> "readers", readers |-> "ackStop",
                 ackStop |-> "done", done |-> "dg2", dg2 |-> "dg3", dg3 |-> "returned"]

After == [recvStop |-> "stopCleanup", stopCleanup |-> "readers", readers |-> "ackStop",
          ackStop |-> "dg2", dg2 |-> "dg3", dg3 |-> "done", done |-> "returned"]

\* stopReceiveLoops, close(ackCleanupStop), closeSubsessions,
\* close(cleanupDone): one step each, in the order of the code.
TearDown(c) ==
    /\ closer[c] \in TeardownSteps
    /\ signals' = signals \cup {closer[c]}
    /\ IF closer[c] \in Loops THEN CloseSub(closer[c]) ELSE UNCHANGED <<subs, unclosed>>
    /\ closer' = [closer EXCEPT ![c] = After[closer[c]]]
    /\ UNCHANGED <<phase, background, closed, loop, reader, traffic>>

\* ackCleanupLoop and ReceiverState.cleanupLoop see their stop channel.
BackgroundExits(b) ==
    /\ b \in background
    /\ (IF b = "ackCleanup" THEN "ackStop" ELSE "stopCleanup") \in signals
    /\ background' = background \ {b}
    /\ UNCHANGED <<phase, subs, unclosed, closed, signals, closer, loop, reader, traffic>>

-----------------------------------------------------------------------------

LoopGoes(l) ==
    \/ LoopTop(l) \/ Handle(l) \/ Forward(l) \/ GiveUp(l)
    \/ Unreadable(l) /\ ReceiveError(l)

ReaderGoes(r) == Take(r) \/ TakeError(r) \/ Timeout(r)

Next ==
    \/ CreateDatagram2Sub \/ CreateDatagram3Sub \/ CreateDatagram3SubFails
    \/ \E l \in Loops : LoopGoes(l) \/ ReceiveError(l)
    \/ \E l \in Loops, k \in Kinds : Receive(l, k)
    \/ \E r \in Readers : Read(r) \/ ReaderGoes(r)
    \/ \E c \in Closers : Close(c) \/ TearDown(c)
    \/ \E b \in Background : BackgroundExits(b)

\* The Go scheduler runs every goroutine that can go on.  Nothing obliges the
\* network to deliver, nor the application to read or to close.
Spec ==
    /\ Init /\ [][Next]_vars
    /\ \A l \in Loops : WF_vars(LoopGoes(l))
    /\ \A r \in Readers : WF_vars(ReaderGoes(r))
    /\ \A c \in Closers : WF_vars(TearDown(c))
    /\ \A b \in Background : WF_vars(BackgroundExits(b))

-----------------------------------------------------------------------------

\* Closing a channel twice panics: however many goroutines call Close, one of
\* them tears down and no signal is given a second time (session.go:179-197).
OneTeardown ==
    /\ \A c, d \in Closers :
          closer[c] \in TeardownSteps /\ closer[d] \in TeardownSteps => c = d
    /\ \A c \in Closers : closer[c] \notin signals

\* WaitForClose "blocks until the session is fully closed" (session.go:454):
\* when it returns, every signal is given and no subsession is open but one whose
\* own Close failed.  Nor does a session that could not be built leave another
\* one open (74-88).
DoneMeansTornDown ==
    /\ "done" \in signals => subs \subseteq unclosed /\ signals = TeardownSteps
    /\ phase = "failed" => subs \subseteq unclosed

\* The datagrams of seq that came from l, in their order.
Of(l, seq) ==
    LET upTo[n \in 0..Len(seq)] ==
            IF n = 0 THEN <<>>
            ELSE IF seq[n].from = l THEN Append(upTo[n - 1], seq[n])
            ELSE upTo[n - 1]
    IN  upTo[Len(seq)]

InHand(l) == IF hand[l] \in {Empty, "ackResponse"} THEN <<>> ELSE <<Current(l)>>

\* The receive path is two bounded queues, one per subsession, that lose,
\* repeat and reorder nothing until Close: DatagramQueues.
Queues == INSTANCE DatagramQueues WITH
    Sources  <- Loops,
    Messages <- Datagrams,
    Capacity <- RecvChanBufferSize + 1,
    pending  <- [l \in Loops |-> Of(l, recvChan) \o InHand(l)],
    taken    <- got,
    open     <- ~closed

ImplementsQueues == Queues!Spec

\* Once Close has been called everything comes to rest: the call that tears
\* down finishes, and the two loops and the two cleanup goroutines exit, even
\* when recvChan is full and nobody reads.  The datagram2 loop alone may be left
\* in its receive, when its subsession could not be closed: it reads from that
\* (receiver.go:225), and the datagram3 loop from a reader that Close closes too.
ShutdownCompletes ==
    closed ~> /\ "done" \in signals
              /\ loop["dg3"] = "exited"
              /\ loop["dg2"] = "exited" \/ (loop["dg2"] = "receive" /\ "dg2" \in unclosed)
              /\ background = {}

\* "After Close() is called, all operations on this session will return
\* ErrSessionClosed" (session.go:177): so does one that is waiting.
BlockedReaderReturns ==
    \A r \in Readers : closed /\ reader[r] = "select" ~> reader[r] # "select"
=============================================================================
