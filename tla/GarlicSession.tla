--------------------------- MODULE GarlicSession ---------------------------
(***************************************************************************)
(* The sessions of one Garlic instance (garlic.go): the SAM connection,    *)
(* the PRIMARY session, the stream subsession, the port-specific stream    *)
(* subsessions and the two hybrid sessions, each made on first use and     *)
(* kept in a field, and Close, which takes them all down.                  *)
(*                                                                         *)
(* Every set-up is "is the field nil?  create; assign", and creating takes *)
(* minutes.  Only the map of port-specific subsessions has a mutex, which  *)
(* is held over the creation of the PRIMARY session as well.  Overlapping  *)
(* says which calls may run at the same time: what the locking supports in *)
(* one instance of this module, what DialGarlic lets happen in another.    *)
(***************************************************************************)
EXTENDS Integers, Functions

CONSTANTS
    Threads,        \* goroutines that call the instance
    Ports,          \* FROM_PORT/TO_PORT tuples other than 0/0
    Overlapping,    \* calls that may overlap each other
    CloseMayFail,   \* may closing a session return an error?
    MaxSessions     \* bound: sessions and connections opened

VARIABLES
    SAM,               \* Garlic.SAM
    primary,           \* Garlic.primary
    field,             \* Garlic.streamSub, hybrid2Sub and hybrid1Sub
    streamSubsByPort,
    streamSubsMu,      \* who holds it
    live,              \* what is open at the bridge -> the PRIMARY it is on
    made,              \* how many have been opened: the n-th is called n
    pc,                \* where each goroutine is
    goal,              \* what its call is for
    mine,              \* the subsession its set-up returned
    shut,              \* history: Close has closed the SAM connection
    abandoned          \* history: sessions whose closing failed

fields  == <<SAM, primary, field, streamSubsByPort>>
bridge  == <<live, made, shut, abandoned>>
control == <<pc, goal, mine, streamSubsMu>>
vars    == <<fields, bridge, control>>

None   == 0
Free   == "free"
Kinds  == {"stream", "hybrid2", "hybrid1"}
Goals  == {"primary"} \cup Kinds \cup Ports
Steps  == {"idle", "sam", "connect", "setup", "primary", "newPrimary", "create", "use",
           "closeHybrid2", "closeHybrid1", "closePrimary", "closeSAM", "clear", "clearMap"}

ASSUME GarlicAssumption ==
    /\ Ports \cap ({"primary", "close"} \cup Kinds) = {}
    /\ Free \notin Threads
    /\ Overlapping \subseteq Goals
    /\ CloseMayFail \in BOOLEAN
    /\ MaxSessions \in Nat \ {0}

Sessions == 1..MaxSessions

TypeOK ==
    /\ SAM \in {None} \cup Sessions
    /\ primary \in {None} \cup Sessions
    /\ field \in [Kinds -> {None} \cup Sessions]
    /\ DOMAIN streamSubsByPort \subseteq Ports
    /\ Range(streamSubsByPort) \subseteq Sessions
    /\ streamSubsMu \in {Free} \cup Threads
    /\ DOMAIN live \subseteq 1..made
    /\ Range(live) \subseteq {None} \cup Sessions
    /\ made \in 0..MaxSessions
    /\ pc \in [Threads -> Steps]
    /\ goal \in [Threads -> Goals \cup {"close"}]
    /\ mine \in [Threads -> {None} \cup Sessions]
    /\ shut \in BOOLEAN
    /\ abandoned \subseteq Sessions

\* NewGarlic leaves a connected instance, Garlic{} an empty one.
Init ==
    /\ \/ SAM = None /\ made = 0 /\ live = [n \in {} |-> None]
       \/ SAM = 1 /\ made = 1 /\ live = [n \in {1} |-> None]
    /\ primary = None
    /\ field = [k \in Kinds |-> None]
    /\ streamSubsByPort = [p \in {} |-> None]
    /\ streamSubsMu = Free
    /\ pc = [t \in Threads |-> "idle"]
    /\ goal = [t \in Threads |-> "close"]
    /\ mine = [t \in Threads |-> None]
    /\ shut = FALSE
    /\ abandoned = {}

-----------------------------------------------------------------------------

Goto(t, step) == pc' = [pc EXCEPT ![t] = step]

\* The bridge opens a session, on a PRIMARY session or on none.
Open(parent) ==
    /\ made < MaxSessions
    /\ made' = made + 1
    /\ live' = [n \in DOMAIN live \cup {made + 1} |->
                    IF n = made + 1 THEN parent ELSE live[n]]
    /\ UNCHANGED <<shut, abandoned>>

Busy == {t \in Threads : pc[t] # "idle"}

Begin(t, g, step) ==
    /\ pc[t] = "idle"
    /\ \/ Busy = {}
       \/ g \in Overlapping /\ SAM # None /\ \A u \in Busy : goal[u] \in Overlapping
    /\ goal' = [goal EXCEPT ![t] = g]
    /\ mine' = [mine EXCEPT ![t] = None]
    /\ Goto(t, step)
    /\ UNCHANGED <<fields, bridge, streamSubsMu>>

\* ListenStream, DialContext, DialContextToPort, ListenPacket,
\* ListenPacketHybrid1 and Primary.
Call(t, g) == g \in Goals /\ Begin(t, g, "sam")

\* The mutex is released by whoever leaves the port-specific set-up.
Unlock(t) == streamSubsMu' = IF streamSubsMu = t THEN Free ELSE streamSubsMu

-----------------------------------------------------------------------------
(* samSession *)

CheckSAM(t) ==
    /\ pc[t] = "sam"
    /\ Goto(t, IF SAM = None THEN "connect" ELSE "setup")
    /\ UNCHANGED <<fields, bridge, goal, mine, streamSubsMu>>

Connect(t) ==
    /\ pc[t] = "connect"
    /\ Open(None)
    /\ SAM' = made + 1
    /\ Goto(t, "setup")
    /\ UNCHANGED <<primary, field, streamSubsByPort, goal, mine, streamSubsMu>>

ConnectFails(t) ==
    /\ pc[t] = "connect"
    /\ SAM' = None
    /\ Goto(t, "idle")
    /\ UNCHANGED <<primary, field, streamSubsByPort, bridge, goal, mine, streamSubsMu>>

-----------------------------------------------------------------------------
(* setupStreamSubSession, setupStreamSubSessionWithPorts,                  *)
(* setupHybrid2Session and setupHybrid1Session: what is there is returned. *)

Found(t) ==
    /\ pc[t] = "setup"
    /\ \/ goal[t] \in Kinds /\ field[goal[t]] # None
          /\ mine' = [mine EXCEPT ![t] = field[goal[t]]]
       \/ goal[t] \in DOMAIN streamSubsByPort /\ streamSubsMu = Free
          /\ mine' = [mine EXCEPT ![t] = streamSubsByPort[goal[t]]]
    /\ Goto(t, "use")
    /\ UNCHANGED <<fields, bridge, goal, streamSubsMu>>

\* Mutant: the mutex is taken for the look at the map only.
NotFoundUnlocked(t) ==
    /\ pc[t] = "setup"
    /\ \/ goal[t] \in Kinds /\ field[goal[t]] = None
       \/ goal[t] = "primary"
       \/ goal[t] \in Ports \ DOMAIN streamSubsByPort /\ streamSubsMu = Free
    /\ Goto(t, "primary")
    /\ UNCHANGED <<fields, bridge, goal, mine, streamSubsMu>>

NotFound(t) ==
    /\ pc[t] = "setup"
    /\ \/ goal[t] \in Kinds /\ field[goal[t]] = None /\ UNCHANGED streamSubsMu
       \/ goal[t] = "primary" /\ UNCHANGED streamSubsMu
       \/ goal[t] \in Ports \ DOMAIN streamSubsByPort /\ streamSubsMu = Free
          /\ streamSubsMu' = t
    /\ Goto(t, "primary")
    /\ UNCHANGED <<fields, bridge, goal, mine>>

\* Every caller assigns what its set-up returned, nil after an error, to the
\* field a second time.
Assigned(t, n) ==
    field' = IF goal[t] \in Kinds THEN [field EXCEPT ![goal[t]] = n] ELSE field

GiveUp(t) ==
    /\ Assigned(t, None)
    /\ Unlock(t)
    /\ Goto(t, "idle")
    /\ UNCHANGED <<streamSubsByPort, goal, mine>>

-----------------------------------------------------------------------------
(* setupPrimarySession *)

HavePrimary(t) ==
    Goto(t, IF goal[t] = "primary" THEN "idle" ELSE "create")

CheckPrimary(t) ==
    /\ pc[t] = "primary"
    /\ \/ primary = None /\ Goto(t, "newPrimary")
       \/ primary # None /\ HavePrimary(t)
    /\ UNCHANGED <<fields, bridge, goal, mine, streamSubsMu>>

\* Without a working SAM connection there is no PRIMARY session.  A nil SAM
\* is dereferenced: the program ends there, as it does in Create on a nil
\* PRIMARY session (NilNeverUsed).
NewPrimary(t) ==
    /\ pc[t] = "newPrimary"
    /\ SAM \in DOMAIN live
    /\ Open(None)
    /\ primary' = made + 1
    /\ HavePrimary(t)
    /\ UNCHANGED <<SAM, field, streamSubsByPort, goal, mine, streamSubsMu>>

\* The keys could not be had, or the bridge refused.
NewPrimaryFails(t) ==
    /\ pc[t] = "newPrimary"
    /\ SAM # None
    /\ primary' = None
    /\ GiveUp(t)
    /\ UNCHANGED <<SAM, bridge>>

-----------------------------------------------------------------------------
(* A subsession on the PRIMARY session, and its use.                       *)

\* Mutant: every subsession is recorded in the map, under 0/0 or a name.
RecordedAll(t, n) ==
    streamSubsByPort' = [p \in DOMAIN streamSubsByPort \cup {goal[t]} |->
                            IF p = goal[t] THEN n ELSE streamSubsByPort[p]]

Recorded(t, n) ==
    streamSubsByPort' = IF goal[t] \notin Ports THEN streamSubsByPort
                        ELSE [p \in DOMAIN streamSubsByPort \cup {goal[t]} |->
                                 IF p = goal[t] THEN n ELSE streamSubsByPort[p]]

Create(t) ==
    /\ pc[t] = "create"
    /\ primary \in DOMAIN live
    /\ Open(primary)
    /\ mine' = [mine EXCEPT ![t] = made + 1]
    /\ Assigned(t, made + 1)
    /\ Recorded(t, made + 1)
    /\ Unlock(t)
    /\ Goto(t, "use")
    /\ UNCHANGED <<SAM, primary, goal>>

CreateFails(t) ==
    /\ pc[t] = "create"
    /\ primary # None
    /\ GiveUp(t)
    /\ UNCHANGED <<SAM, primary, bridge>>

\* Listen, DialContext or PacketConn on the subsession.
Use(t) ==
    /\ pc[t] = "use"
    /\ Assigned(t, mine[t])
    /\ Goto(t, "idle")
    /\ UNCHANGED <<SAM, primary, streamSubsByPort, bridge, goal, mine, streamSubsMu>>

-----------------------------------------------------------------------------
(* Close *)

Close(t) == Begin(t, "close", "closeHybrid2")

\* Closing a PRIMARY session closes its subsessions, closing nil nothing.
Family(n) == IF n = None THEN {} ELSE {m \in DOMAIN live : n \in {m, live[m]}}

CloseSession(t, n, next) ==
    /\ \/ live' = Restrict(live, DOMAIN live \ Family(n)) /\ UNCHANGED abandoned
       \/ n # None /\ CloseMayFail
          /\ abandoned' = abandoned \cup Family(n) /\ UNCHANGED live
    /\ Goto(t, next)
    /\ UNCHANGED <<fields, made, goal, mine, streamSubsMu>>

\* An error is collected and the rest is closed all the same.
CloseHybrid2(t) ==
    pc[t] = "closeHybrid2" /\ CloseSession(t, field["hybrid2"], "closeHybrid1") /\ UNCHANGED shut

CloseHybrid1(t) ==
    pc[t] = "closeHybrid1" /\ CloseSession(t, field["hybrid1"], "closePrimary") /\ UNCHANGED shut

\* Mutant: the PRIMARY session is left to the garbage collector.
PrimaryNotClosed(t) ==
    pc[t] = "closePrimary" /\ CloseSession(t, None, "closeSAM") /\ UNCHANGED shut

ClosePrimary(t) ==
    pc[t] = "closePrimary" /\ CloseSession(t, primary, "closeSAM") /\ UNCHANGED shut

CloseSAM(t) ==
    /\ pc[t] = "closeSAM"
    /\ CloseSession(t, SAM, "clear")
    /\ shut' = (shut \/ (SAM # None /\ SAM \notin DOMAIN live'))

\* Mutant: the SAM connection is forgotten like the sessions.
ClearAll(t) ==
    /\ pc[t] = "clear"
    /\ SAM' = None
    /\ primary' = None
    /\ field' = [field EXCEPT !["stream"] = None]
    /\ Goto(t, "clearMap")
    /\ UNCHANGED <<streamSubsByPort, bridge, goal, mine, streamSubsMu>>

\* "Clear references": all but that to the SAM connection.
Clear(t) ==
    /\ pc[t] = "clear"
    /\ primary' = None
    /\ field' = [field EXCEPT !["stream"] = None]
    /\ Goto(t, "clearMap")
    /\ UNCHANGED <<SAM, streamSubsByPort, bridge, goal, mine, streamSubsMu>>

\* Mutant: the port-specific subsessions are kept.
MapNotCleared(t) ==
    /\ pc[t] = "clearMap"
    /\ streamSubsMu = Free
    /\ field' = [k \in Kinds |-> IF k = "stream" THEN field[k] ELSE None]
    /\ Goto(t, "idle")
    /\ UNCHANGED <<SAM, primary, streamSubsByPort, bridge, goal, mine, streamSubsMu>>

ClearMap(t) ==
    /\ pc[t] = "clearMap"
    /\ streamSubsMu = Free
    /\ streamSubsByPort' = [p \in {} |-> None]
    /\ field' = [k \in Kinds |-> IF k = "stream" THEN field[k] ELSE None]
    /\ Goto(t, "idle")
    /\ UNCHANGED <<SAM, primary, bridge, goal, mine, streamSubsMu>>

-----------------------------------------------------------------------------

SetUp(t) ==
    \/ CheckSAM(t) \/ Connect(t) \/ ConnectFails(t) \/ Found(t) \/ NotFound(t)
    \/ CheckPrimary(t) \/ NewPrimary(t) \/ NewPrimaryFails(t)
    \/ Create(t) \/ CreateFails(t) \/ Use(t)

TearDown(t) ==
    \/ CloseHybrid2(t) \/ CloseHybrid1(t) \/ ClosePrimary(t) \/ CloseSAM(t)
    \/ Clear(t) \/ ClearMap(t)

Next == \E t \in Threads : (\E g \in Goals : Call(t, g)) \/ Close(t) \/ SetUp(t) \/ TearDown(t)

Spec == Init /\ [][Next]_vars

-----------------------------------------------------------------------------
(* Properties *)

Closing == {t \in Threads : pc[t] \in {"closeHybrid1", "closePrimary", "closeSAM",
                                      "clear", "clearMap"}}

Referenced == {SAM, primary} \cup Range(field) \cup Range(streamSubsByPort)

\* Whatever is open at the bridge is referred to by the instance, so that
\* Close can close it, unless closing it was tried and failed: no step of a
\* set-up, of its failures or of Close drops the last reference to a session
\* whose tunnels stay up.
NothingLost == DOMAIN live \subseteq Referenced \cup abandoned

\* What the set-ups return without creating it is open and on the PRIMARY
\* session of now: Close leaves no subsession of an earlier PRIMARY session
\* behind in a field or in the map for a later call to find.
ReferencesCurrent ==
    Closing = {} =>
        /\ primary # None => primary \in DOMAIN live
        /\ \A n \in (Range(field) \cup Range(streamSubsByPort)) \ {None} :
              n \in DOMAIN live /\ live[n] = primary

\* g.SAM and g.primary are used some time after they were looked at, in
\* between another call may have set them to nil: not when it is the mutex
\* that orders the calls.
NilNeverUsed ==
    \A t \in Threads :
        /\ pc[t] = "newPrimary" => SAM # None
        /\ pc[t] = "create" => primary # None

\* A closed instance opens nothing again: Close keeps the closed SAM
\* connection, on which no later set-up can succeed.
StaysClosed == [][shut => DOMAIN live' \subseteq DOMAIN live]_vars
=============================================================================
