--------------------------- MODULE Hybrid1Session ---------------------------
(***************************************************************************)
(* The life of a hybrid1 session (hybrid1/session.go, packetconn.go) and   *)
(* of what it stands on: the SAM connection and the PRIMARY session, which *)
(* the helpers of internal/hybridcommon open and close for some callers    *)
(* and which other callers lend.  The subsession ends with its PRIMARY     *)
(* session, the PRIMARY session with its SAM connection: that is go-sam-go *)
(* and SAM, as garlic.go:884 relies on.                                    *)
(***************************************************************************)
EXTENDS Integers, Sequences

CONSTANTS
    Readers,          \* goroutines that read
    Timed,            \* those whose connection has a read deadline
    Direct,           \* those that call GarlicIntegration.ReceiveDatagram
    Closers,          \* goroutines that close
    Ways,             \* the constructors the run looks at
    Stubborn,         \* what may fail to close
    RecvChanSize,     \* capacity of recvChan (DefaultReceiveChannelSize)
    RecvErrChanSize,  \* capacity of recvErrChan (10)
    MaxDatagrams      \* bound: datagrams the loop receives

\* NewHybrid1Session, NewGarlicIntegrationFromPrimary,
\* NewHybrid1SessionFromSAM and NewGarlicIntegration.
AllWays == {"direct", "fromPrimary", "fromSAM", "managed"}

ASSUME WaysAssumption == Ways \subseteq AllWays /\ Ways # {}

Resources == {"sam", "primary", "sub"}

ASSUME StubbornAssumption == Stubborn \subseteq Resources

ASSUME ReadersAssumption == Timed \subseteq Readers \ Direct /\ Direct \subseteq Readers

ASSUME SizeAssumption ==
    RecvChanSize \in Nat \ {0} /\ RecvErrChanSize \in Nat \ {0} /\ MaxDatagrams \in Nat

VARIABLES
    way,       \* the constructor that is called
    phase,     \* the resource it opens next, or how it ended
    open,      \* what is open of the SAM connection and the two sessions
    unclosed,  \* history: what failed to close
    closed,    \* Hybrid1Session.closed
    signals,   \* the channels Close has closed
    closer,    \* what each closing goroutine called and where it is in it
    loop,      \* where receiveLoop is
    cleanup,   \* cleanupLoop runs
    recvChan,  \* datagrams received and not yet read
    errs,      \* how many errors recvErrChan holds
    reader,    \* where each reading goroutine is
    arrived,   \* history: datagrams received so far
    got        \* history: what readers took

setup   == <<way, phase>>
traffic == <<recvChan, errs, arrived, got>>
vars    == <<setup, open, unclosed, closed, signals, closer, loop, cleanup, reader, traffic>>

Datagrams     == 1..MaxDatagrams
SessionSteps  == {"stop", "sub", "done"}
ManagedSteps  == {"primary", "sam"}
Idle          == [call |-> "none", at |-> "idle"]

TypeOK ==
    /\ way \in Ways
    /\ phase \in Resources \cup {"running", "failed"}
    /\ open \subseteq Resources
    /\ unclosed \subseteq Stubborn
    /\ closed \in BOOLEAN
    /\ signals \subseteq {"stop", "done"}
    /\ closer \in [Closers -> [call : {"none", "session", "integration"},
                               at : SessionSteps \cup ManagedSteps \cup {"idle", "returned"}]]
    /\ loop \in {"off", "top", "receive", "send", "exited"}
    /\ cleanup \in BOOLEAN
    /\ recvChan \in Seq(Datagrams) /\ Len(recvChan) <= RecvChanSize
    /\ errs \in 0..RecvErrChanSize
    /\ reader \in [Readers -> {"idle", "select"}]
    /\ arrived \in 0..MaxDatagrams
    /\ got \in Seq(Datagrams)

\* What the caller of a constructor brings, and keeps.
Lent(w) == CASE w = "managed" -> {}
             [] w = "fromSAM" -> {"sam"}
             [] OTHER         -> {"sam", "primary"}

Init ==
    /\ way \in Ways
    /\ open = Lent(way)
    /\ phase = (CASE way = "managed" -> "sam"
                  [] way = "fromSAM" -> "primary"
                  [] OTHER           -> "sub")
    /\ unclosed = {}
    /\ closed = FALSE
    /\ signals = {}
    /\ closer = [c \in Closers |-> Idle]
    /\ loop = "off"
    /\ cleanup = FALSE
    /\ recvChan = <<>>
    /\ errs = 0
    /\ reader = [r \in Readers |-> "idle"]
    /\ arrived = 0
    /\ got = <<>>

-----------------------------------------------------------------------------
(* Construction *)

\* NewSAM, NewPrimarySession, NewDatagramSubSession: the last one that
\* succeeds starts the two loops.
SetUp ==
    /\ phase \in Resources
    /\ open' = open \cup {phase}
    /\ phase' = [sam |-> "primary", primary |-> "sub", sub |-> "running"][phase]
    /\ loop' = IF phase = "sub" THEN "top" ELSE loop
    /\ cleanup' = (phase = "sub")
    /\ UNCHANGED <<way, unclosed, closed, signals, closer, reader, traffic>>

\* What closes with r.
On(r) == CASE r = "sub" -> {"sub"} [] r = "primary" -> {"primary", "sub"} [] OTHER -> Resources

\* Each of these is told to close.  Some may answer with an error, which is
\* reported at most, and are open still unless what they are on closes.
CloseEach(rs) ==
    \E fail \in SUBSET (rs \cap Stubborn) :
        /\ open' = open \ UNION {On(r) : r \in rs \ fail}
        /\ unclosed' = unclosed \cup fail

\* Mutant: the clean-up looks at the PRIMARY session only.
UndoPrimary(w) == IF w \in {"managed", "fromSAM"} THEN {"primary"} ELSE {}

\* What a failing constructor closes again: sam.Close in SetupManagedPrimary,
\* CloseManagedResources in SetupManagedIntegration, primarySession.Close in
\* NewSessionFromSAM.
Undo(w) == CASE w = "managed" -> {"sam", "primary"}
             [] w = "fromSAM" -> {"primary"}
             [] OTHER         -> {}

\* The keys of a managed integration, generated between the connection and
\* the PRIMARY session, fail like the latter.
SetUpFails ==
    /\ phase \in Resources
    /\ phase' = "failed"
    /\ CloseEach(Undo(way) \cap open)
    /\ UNCHANGED <<way, closed, signals, closer, loop, cleanup, reader, traffic>>

-----------------------------------------------------------------------------
(* receiveLoop *)

Stopped == "stop" \in signals

LoopTop ==
    /\ loop = "top"
    /\ loop' = IF Stopped THEN "exited" ELSE "receive"
    /\ UNCHANGED <<setup, open, unclosed, closed, signals, closer, cleanup, reader, traffic>>

Receive ==
    /\ loop = "receive"
    /\ "sub" \in open
    /\ arrived < MaxDatagrams
    /\ arrived' = arrived + 1
    /\ loop' = "send"
    /\ UNCHANGED <<setup, open, unclosed, closed, signals, closer, cleanup, reader,
                   recvChan, errs, got>>

\* ReceiveDatagram fails: exit if the session is closed, otherwise report it
\* if recvErrChan has room and go on.
ReceiveError ==
    /\ loop = "receive"
    /\ \/ closed /\ loop' = "exited" /\ UNCHANGED errs
       \/ /\ ~closed
          /\ loop' = "top"
          /\ errs' = IF errs < RecvErrChanSize THEN errs + 1 ELSE errs
    /\ UNCHANGED <<setup, open, unclosed, closed, signals, closer, cleanup, reader,
                   recvChan, arrived, got>>

\* Mutant: recvChan is made one place too large.
ForwardOneMore ==
    /\ loop = "send"
    /\ Len(recvChan) <= RecvChanSize
    /\ recvChan' = Append(recvChan, arrived)
    /\ loop' = "top"
    /\ UNCHANGED <<setup, open, unclosed, closed, signals, closer, cleanup, reader,
                   errs, arrived, got>>

\* Mutant: a full recvChan drops the datagram.
ForwardOrDrop ==
    /\ loop = "send"
    /\ recvChan' = IF Len(recvChan) < RecvChanSize
                   THEN Append(recvChan, arrived) ELSE recvChan
    /\ loop' = "top"
    /\ UNCHANGED <<setup, open, unclosed, closed, signals, closer, cleanup, reader,
                   errs, arrived, got>>

Forward ==
    /\ loop = "send"
    /\ Len(recvChan) < RecvChanSize
    /\ recvChan' = Append(recvChan, arrived)
    /\ loop' = "top"
    /\ UNCHANGED <<setup, open, unclosed, closed, signals, closer, cleanup, reader,
                   errs, arrived, got>>

\* Mutant: a plain send, not a select with recvStopChan.
NeverGiveUp == FALSE /\ UNCHANGED vars

GiveUp ==
    /\ loop = "send"
    /\ Stopped
    /\ loop' = "exited"
    /\ UNCHANGED <<setup, open, unclosed, closed, signals, closer, cleanup, reader, traffic>>

CleanupExits ==
    /\ cleanup /\ Stopped
    /\ cleanup' = FALSE
    /\ UNCHANGED <<setup, open, unclosed, closed, signals, closer, loop, reader, traffic>>

-----------------------------------------------------------------------------
(* Hybrid1PacketConn.ReadFrom and GarlicIntegration.ReceiveDatagram *)

Integrated == way \in {"fromPrimary", "managed"}

\* ReadFrom looks at the closed flag before it waits and not again; the
\* integration's ReceiveDatagram does not look at it.
Read(r) ==
    /\ phase = "running"
    /\ reader[r] = "idle"
    /\ IF r \in Direct THEN Integrated ELSE ~closed
    /\ reader' = [reader EXCEPT ![r] = "select"]
    /\ UNCHANGED <<setup, open, unclosed, closed, signals, closer, loop, cleanup, traffic>>

Take(r) ==
    /\ reader[r] = "select"
    /\ recvChan # <<>>
    /\ got' = Append(got, Head(recvChan))
    /\ recvChan' = Tail(recvChan)
    /\ reader' = [reader EXCEPT ![r] = "idle"]
    /\ UNCHANGED <<setup, open, unclosed, closed, signals, closer, loop, cleanup, errs, arrived>>

TakeError(r) ==
    /\ reader[r] = "select"
    /\ errs > 0
    /\ errs' = errs - 1
    /\ reader' = [reader EXCEPT ![r] = "idle"]
    /\ UNCHANGED <<setup, open, unclosed, closed, signals, closer, loop, cleanup,
                   recvChan, arrived, got>>

Timeout(r) ==
    /\ r \in Timed
    /\ reader[r] = "select"
    /\ reader' = [reader EXCEPT ![r] = "idle"]
    /\ UNCHANGED <<setup, open, unclosed, closed, signals, closer, loop, cleanup, traffic>>

-----------------------------------------------------------------------------
(* Hybrid1Session.Close and GarlicIntegration.Close *)

At(c, call, step) == closer' = [closer EXCEPT ![c] = [call |-> call, at |-> step]]

\* What follows the session's Close in the call.  The integration passes its
\* *sam3.SAM as an io.Closer, which is not nil even when the pointer is:
\* CloseManagedResources always goes on to the PRIMARY session.
AfterSession(call) == IF call = "session" THEN "returned" ELSE "primary"

\* Only the call that sets the flag tears the session down; for the others
\* it is closed already.
Close(c, call) ==
    /\ phase = "running"
    /\ closer[c] = Idle
    /\ call = "integration" => Integrated
    /\ closed' = TRUE
    /\ At(c, call, IF closed THEN AfterSession(call) ELSE "stop")
    /\ UNCHANGED <<setup, open, unclosed, signals, loop, cleanup, reader, traffic>>

\* close(recvStopChan), datagramSub.Close, close(cleanupDone).
TearDown(c) ==
    LET call == closer[c].call
        step == closer[c].at
    IN  /\ step \in SessionSteps
        /\ signals' = signals \cup ({step} \cap {"stop", "done"})
        /\ CloseEach({step} \cap {"sub"})
        /\ At(c, call, [stop |-> "sub", sub |-> "done", done |-> AfterSession(call)][step])
        /\ UNCHANGED <<setup, closed, loop, cleanup, reader, traffic>>

\* primarySession.Close and sam.Close; the latter, on a pointer that is nil,
\* closes nothing or panics.
CloseManaged(c) ==
    LET step == closer[c].at
    IN  /\ step \in ManagedSteps
        /\ CloseEach(IF step = "primary" \/ way = "managed" THEN {step} ELSE {})
        /\ At(c, "integration", IF step = "primary" THEN "sam" ELSE "returned")
        /\ UNCHANGED <<setup, closed, signals, loop, cleanup, reader, traffic>>

-----------------------------------------------------------------------------

LoopGoes ==
    \/ LoopTop \/ Forward \/ GiveUp
    \/ "sub" \notin open /\ ReceiveError

ReaderGoes(r) == Take(r) \/ TakeError(r) \/ Timeout(r)

CloserGoes(c) == TearDown(c) \/ CloseManaged(c)

Next ==
    \/ SetUp \/ SetUpFails
    \/ LoopGoes \/ Receive \/ ReceiveError
    \/ CleanupExits
    \/ \E r \in Readers : Read(r) \/ ReaderGoes(r)
    \/ \E c \in Closers : CloserGoes(c)
    \/ \E c \in Closers, call \in {"session", "integration"} : Close(c, call)

\* The Go scheduler runs every goroutine that can go on.  Nothing obliges the
\* network to deliver, nor the application to read or to close.
Spec ==
    /\ Init /\ [][Next]_vars
    /\ WF_vars(LoopGoes) /\ WF_vars(CleanupExits)
    /\ \A r \in Readers : WF_vars(ReaderGoes(r))
    /\ \A c \in Closers : WF_vars(CloserGoes(c))

-----------------------------------------------------------------------------

Returned(c) == closer[c].at = "returned"

\* What a constructor opened is its own to close: nothing of it is left open
\* once the constructor has failed or the owner's Close has returned, but what
\* returned an error when it was closed, whatever else did.  And what
\* the caller lent, the PRIMARY session other sessions may share, is never
\* closed ("closes a session and any owned PRIMARY and SAM resources",
\* hybridcommon/integration.go:90).
Ownership ==
    LET own == Resources \ Lent(way)
    IN  /\ Lent(way) \subseteq open
        /\ phase = "failed" => own \cap open \subseteq unclosed
        /\ "done" \in signals => "sub" \notin open \ unclosed
        /\ (\A c \in Closers : closer[c] # Idle => Returned(c)) /\
           (\E c \in Closers : Returned(c) /\ (Integrated => closer[c].call = "integration"))
              => own \cap open \subseteq unclosed

\* The receive path is one bounded queue that loses, repeats and reorders
\* nothing until Close, read by connections and by the integration at once.
Queues == INSTANCE DatagramQueues WITH
    Sources  <- {"dg"},
    Messages <- Datagrams,
    Capacity <- RecvChanSize + 1,
    pending  <- [s \in {"dg"} |-> recvChan \o (IF loop = "send" THEN <<arrived>> ELSE <<>>)],
    taken    <- [s \in {"dg"} |-> got],
    open     <- ~closed

ImplementsQueues == Queues!Spec

\* Once the session has been closed everything comes to rest: the call that
\* tears it down finishes and both loops exit, even when recvChan is full,
\* nobody reads, and another goroutine has closed the PRIMARY session before.
\* A subsession that could not be closed may keep receiveLoop in its receive.
ShutdownCompletes ==
    closed ~> /\ "done" \in signals /\ ~cleanup
              /\ loop = "exited" \/ (loop = "receive" /\ "sub" \in unclosed)
=============================================================================
