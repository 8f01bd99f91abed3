------------------------- MODULE GarlicSessionProofs -------------------------
(***************************************************************************)
(* Proofs about GarlicSession, for any number of goroutines, ports and     *)
(* sessions.  Those about the order of the calls suppose that only calls   *)
(* to ports overlap, the ones the mutex orders.                            *)
(***************************************************************************)
EXTENDS GarlicSession, TLAPS

CloseSteps == {"closeHybrid2", "closeHybrid1", "closePrimary", "closeSAM", "clear", "clearMap"}
Locked     == {"primary", "newPrimary", "create"}

-----------------------------------------------------------------------------
(* Types *)

LEMMA OpenTypes ==
  ASSUME TypeOK, NEW parent \in {None} \cup Sessions, Open(parent)
  PROVE  /\ made' = made + 1 /\ made' \in 0..MaxSessions /\ made + 1 \in Sessions
         /\ DOMAIN live' \subseteq 1..made' /\ Range(live') \subseteq {None} \cup Sessions
         /\ UNCHANGED <<shut, abandoned>>
<1>1. /\ made' = made + 1 /\ made' \in 0..MaxSessions /\ made + 1 \in Sessions
      /\ UNCHANGED <<shut, abandoned>>
  BY GarlicAssumption DEF TypeOK, Open, Sessions
<1>2. DOMAIN live' = DOMAIN live \cup {made + 1}
  BY DEF Open
<1>3. ASSUME NEW n \in DOMAIN live' PROVE n \in 1..made' /\ live'[n] \in {None} \cup Sessions
  BY <1>1, <1>2, <1>3 DEF TypeOK, Open, Range
<1>4. QED
  BY <1>1, <1>3 DEF Range

LEMMA CloseSessionTypes ==
  ASSUME TypeOK, NEW t \in Threads, NEW n, NEW next \in Steps, CloseSession(t, n, next)
  PROVE  /\ UNCHANGED <<fields, made, goal, mine, streamSubsMu>> /\ pc' = [pc EXCEPT ![t] = next]
         /\ DOMAIN live' \subseteq DOMAIN live /\ \A m \in DOMAIN live' : live'[m] = live[m]
         /\ Range(live') \subseteq {None} \cup Sessions
         /\ abandoned' \subseteq Sessions /\ abandoned \subseteq abandoned'
         /\ DOMAIN live' \subseteq (DOMAIN live \ Family(n)) \cup abandoned'
<1>1. Family(n) \subseteq DOMAIN live /\ DOMAIN live \subseteq Sessions
  BY GarlicAssumption DEF Family, TypeOK, Sessions
<1>2. \/ live' = [m \in DOMAIN live \ Family(n) |-> live[m]] /\ UNCHANGED abandoned
      \/ live' = live /\ abandoned' = abandoned \cup Family(n)
  BY DEF CloseSession, Restrict
<1>3. QED
  BY <1>1, <1>2 DEF CloseSession, Goto, TypeOK, Range

LEMMA AssignedType ==
  ASSUME TypeOK, NEW t \in Threads, NEW n \in {None} \cup Sessions, Assigned(t, n)
  PROVE  field' \in [Kinds -> {None} \cup Sessions]
BY DEF TypeOK, Assigned

LEMMA RecordedType ==
  ASSUME TypeOK, NEW t \in Threads, NEW n \in Sessions, Recorded(t, n)
  PROVE  DOMAIN streamSubsByPort' \subseteq Ports /\ Range(streamSubsByPort') \subseteq Sessions
BY DEF TypeOK, Recorded, Range

LEMMA TypeInit == Init => TypeOK
<1> SUFFICES ASSUME Init PROVE TypeOK
  OBVIOUS
<1>1. /\ SAM \in {None} \cup Sessions /\ made \in 0..MaxSessions
      /\ DOMAIN live \subseteq 1..made /\ Range(live) \subseteq {None} \cup Sessions
  BY GarlicAssumption DEF Init, Sessions, Range
<1>2. DOMAIN streamSubsByPort \subseteq Ports /\ Range(streamSubsByPort) \subseteq Sessions
  BY DEF Init, Range
<1>3. QED
  BY <1>1, <1>2 DEF Init, TypeOK, Steps

LEMMA TypeStep == TypeOK /\ [Next]_vars => TypeOK'
<1> SUFFICES ASSUME TypeOK, [Next]_vars PROVE TypeOK'
  OBVIOUS
<1> USE DEF fields, bridge
<1>1. CASE UNCHANGED vars
  BY <1>1 DEF TypeOK, vars, control
<1>2. ASSUME NEW t \in Threads, (\E g \in Goals : Call(t, g)) \/ Close(t) PROVE TypeOK'
  <2>1. PICK g \in Goals \cup {"close"}, step \in Steps : Begin(t, g, step)
    BY <1>2 DEF Call, Close, Steps
  <2>2. QED
    BY <2>1 DEF Begin, TypeOK, Goto
<1>3. ASSUME NEW t \in Threads,
             CheckSAM(t) \/ ConnectFails(t) \/ Found(t) \/ NotFound(t) \/ CheckPrimary(t) \/ Clear(t)
      PROVE  TypeOK'
  <2>1. goal[t] \in DOMAIN streamSubsByPort => streamSubsByPort[goal[t]] \in Sessions
    BY DEF TypeOK, Range
  <2>2. QED
    BY <1>3, <2>1
       DEF CheckSAM, ConnectFails, Found, NotFound, CheckPrimary, HavePrimary, Clear, TypeOK, Goto,
           Steps
<1>4. ASSUME NEW t \in Threads, Connect(t) PROVE TypeOK'
  <2>1. Open(None)
    BY <1>4 DEF Connect
  <2>2. QED
    BY <1>4, <2>1, OpenTypes DEF Connect, TypeOK, Goto, Steps
<1>5. ASSUME NEW t \in Threads, NewPrimary(t) PROVE TypeOK'
  <2>1. Open(None)
    BY <1>5 DEF NewPrimary
  <2>2. QED
    BY <1>5, <2>1, OpenTypes DEF NewPrimary, HavePrimary, TypeOK, Goto, Steps
<1>6. ASSUME NEW t \in Threads, NewPrimaryFails(t) \/ CreateFails(t) PROVE TypeOK'
  <2>1. GiveUp(t) /\ primary' \in {None} \cup Sessions /\ UNCHANGED <<SAM, bridge>>
    BY <1>6 DEF NewPrimaryFails, CreateFails, TypeOK
  <2>2. field' \in [Kinds -> {None} \cup Sessions]
    BY <2>1, AssignedType DEF GiveUp
  <2>3. QED
    BY <2>1, <2>2 DEF GiveUp, Unlock, TypeOK, Goto, Steps
<1>7. ASSUME NEW t \in Threads, Create(t) PROVE TypeOK'
  <2>1. Open(primary) /\ Assigned(t, made + 1) /\ Recorded(t, made + 1)
    BY <1>7 DEF Create
  <2>2. primary \in {None} \cup Sessions
    BY DEF TypeOK
  <2>3. /\ made' \in 0..MaxSessions /\ made + 1 \in Sessions
        /\ DOMAIN live' \subseteq 1..made' /\ Range(live') \subseteq {None} \cup Sessions
        /\ UNCHANGED <<shut, abandoned>>
    BY <2>1, <2>2, OpenTypes
  <2>4. field' \in [Kinds -> {None} \cup Sessions]
    BY <2>1, <2>3, AssignedType
  <2>5. DOMAIN streamSubsByPort' \subseteq Ports /\ Range(streamSubsByPort') \subseteq Sessions
    BY <2>1, <2>3, RecordedType
  <2>6. QED
    BY <1>7, <2>3, <2>4, <2>5 DEF Create, Unlock, TypeOK, Goto, Steps
<1>8. ASSUME NEW t \in Threads, Use(t) PROVE TypeOK'
  <2>1. field' \in [Kinds -> {None} \cup Sessions]
    BY <1>8, AssignedType DEF Use, TypeOK
  <2>2. QED
    BY <1>8, <2>1 DEF Use, TypeOK, Goto, Steps
<1>9. ASSUME NEW t \in Threads, CloseHybrid2(t) \/ CloseHybrid1(t) \/ ClosePrimary(t) \/ CloseSAM(t)
      PROVE  TypeOK'
  <2>1. PICK n \in {None} \cup Sessions, next \in Steps : CloseSession(t, n, next)
    <3>1. \/ CloseSession(t, field["hybrid2"], "closeHybrid1")
          \/ CloseSession(t, field["hybrid1"], "closePrimary")
          \/ CloseSession(t, primary, "closeSAM") \/ CloseSession(t, SAM, "clear")
      BY <1>9 DEF CloseHybrid2, CloseHybrid1, ClosePrimary, CloseSAM
    <3>2. {"closeHybrid1", "closePrimary", "closeSAM", "clear"} \subseteq Steps
      BY DEF Steps
    <3>3. {field["hybrid2"], field["hybrid1"], primary, SAM} \subseteq {None} \cup Sessions
      BY DEF TypeOK, Kinds
    <3>4. QED
      BY <3>1, <3>2, <3>3
  <2>2. shut' \in BOOLEAN
    BY <1>9 DEF CloseHybrid2, CloseHybrid1, ClosePrimary, CloseSAM, TypeOK
  <2>3. QED
    BY <2>1, <2>2, CloseSessionTypes DEF TypeOK
<1>10. ASSUME NEW t \in Threads, ClearMap(t) PROVE TypeOK'
  <2>1. DOMAIN streamSubsByPort' \subseteq Ports /\ Range(streamSubsByPort') \subseteq Sessions
    BY <1>10 DEF ClearMap, Range
  <2>2. field' \in [Kinds -> {None} \cup Sessions]
    BY <1>10 DEF ClearMap, TypeOK
  <2>3. QED
    BY <1>10, <2>1, <2>2 DEF ClearMap, TypeOK, Goto, Steps
<1>11. QED
  BY <1>1, <1>2, <1>3, <1>4, <1>5, <1>6, <1>7, <1>8, <1>9, <1>10 DEF Next, SetUp, TearDown

\* Every goroutine is where it can be, and every reference is nil or a session
\* there is, whatever overlaps.
THEOREM TypeCorrect == Spec => []TypeOK
BY TypeInit, TypeStep, PTL DEF Spec

-----------------------------------------------------------------------------
(* The order of the calls                                                  *)

\* Calls that overlap are dials to ports on a connected instance, and of those
\* the mutex lets one look for the PRIMARY session and use it.
OrderInv ==
    /\ \A t \in Busy : goal[t] = "close" <=> pc[t] \in CloseSteps
    /\ \A t, u \in Busy : t # u => goal[t] \in Ports /\ SAM # None
    /\ \A t \in Threads :
          /\ pc[t] = "connect" => SAM = None
          /\ pc[t] \in Locked \cup {"setup", "use"} => SAM # None
          /\ streamSubsMu = t <=> pc[t] \in Locked /\ goal[t] \in Ports
          /\ pc[t] = "newPrimary" => primary = None
          /\ pc[t] = "create" => primary # None /\ goal[t] # "primary"
          /\ pc[t] \in Locked /\ goal[t] \in Kinds => field[goal[t]] = None
          /\ pc[t] \in Locked => goal[t] \notin DOMAIN streamSubsByPort
          /\ pc[t] = "use" /\ goal[t] \in Kinds => mine[t] = field[goal[t]]

LEMMA OneLocked ==
  ASSUME TypeOK, OrderInv, NEW t \in Threads, NEW u \in Threads,
         pc[t] \in Locked, pc[u] \in Locked
  PROVE  t = u
BY DEF OrderInv, Busy, Locked

\* A goroutine in Close, or in a call that is not to a port, is alone.
LEMMA Alone ==
  ASSUME TypeOK, OrderInv, NEW t \in Threads, pc[t] # "idle", goal[t] \notin Ports
  PROVE  \A u \in Threads : pc[u] # "idle" => u = t
BY DEF OrderInv, Busy

LEMMA Disjoint == "idle" \notin CloseSteps \cup Locked /\ CloseSteps \cap Locked = {}
BY DEF CloseSteps, Locked

LEMMA OrderInit == Init => OrderInv
BY GarlicAssumption DEF Init, OrderInv, Busy, Locked, Free

LEMMA OrderStep ==
  ASSUME Overlapping \subseteq Ports
  PROVE  TypeOK /\ OrderInv /\ [Next]_vars => OrderInv'
<1> SUFFICES ASSUME TypeOK, OrderInv, [Next]_vars PROVE OrderInv'
  OBVIOUS
<1> USE GarlicAssumption DEF TypeOK, fields, bridge, Goto
<1>1. CASE UNCHANGED vars
  BY <1>1 DEF OrderInv, Busy, vars, control
<1>2. ASSUME NEW t \in Threads, (\E g \in Goals : Call(t, g)) \/ Close(t) PROVE OrderInv'
  <2>1. PICK g, step : /\ Begin(t, g, step)
                       /\ \/ g \in Goals /\ step = "sam"
                          \/ g = "close" /\ step = "closeHybrid2"
    BY <1>2 DEF Call, Close
  <2>2. /\ pc[t] = "idle" /\ step \notin Locked \cup {"idle", "connect", "setup", "use"}
        /\ g = "close" <=> step \in CloseSteps
        /\ pc'[t] = step /\ goal'[t] = g
        /\ \A u \in Threads \ {t} : pc'[u] = pc[u] /\ goal'[u] = goal[u] /\ mine'[u] = mine[u]
        /\ UNCHANGED <<SAM, primary, field, streamSubsByPort, streamSubsMu>>
    BY <2>1 DEF Begin, CloseSteps, Locked, Goals, Kinds
  <2>3. \A u \in Busy : g \in Ports /\ goal[u] \in Ports /\ SAM # None
    BY <2>1 DEF Begin
  <2>4. Busy' = Busy \cup {t} /\ t \notin Busy
    BY <2>2 DEF Busy
  <2>5. \A u \in Busy' : goal'[u] = "close" <=> pc'[u] \in CloseSteps
    BY <2>2, <2>4 DEF OrderInv, Busy
  <2>6. \A u, v \in Busy' : u # v => goal'[u] \in Ports /\ SAM' # None
    BY <2>2, <2>3, <2>4 DEF OrderInv, Busy
  <2>7. streamSubsMu # t
    BY <2>2, Disjoint DEF OrderInv
  <2>8. QED
    BY <2>2, <2>5, <2>6, <2>7 DEF OrderInv, Locked
<1>3. ASSUME NEW t \in Threads, CheckSAM(t) \/ Connect(t) \/ ConnectFails(t) PROVE OrderInv'
  <2>1. made + 1 # None
    BY DEF None
  <2>2. QED
    BY <1>3, <2>1 DEF CheckSAM, Connect, ConnectFails, OrderInv, Busy, Locked, CloseSteps
<1>4. ASSUME NEW t \in Threads, Found(t) \/ NotFound(t) PROVE OrderInv'
  <2>1. CASE Found(t)
    BY <1>4, <2>1 DEF Found, OrderInv, Busy, Locked, CloseSteps
  <2>2. CASE NotFound(t)
    <3>1. /\ pc[t] = "setup" /\ pc' = [pc EXCEPT ![t] = "primary"] /\ UNCHANGED <<fields, goal, mine>>
          /\ goal[t] \in Kinds => field[goal[t]] = None
          /\ goal[t] \notin DOMAIN streamSubsByPort
          /\ IF goal[t] \in Ports THEN streamSubsMu = Free /\ streamSubsMu' = t
             ELSE UNCHANGED streamSubsMu
      <4>1. /\ pc[t] = "setup" /\ pc' = [pc EXCEPT ![t] = "primary"]
            /\ UNCHANGED <<fields, goal, mine>>
        BY <2>2 DEF NotFound
      <4>2. \/ goal[t] \in Kinds /\ field[goal[t]] = None /\ UNCHANGED streamSubsMu
            \/ goal[t] = "primary" /\ UNCHANGED streamSubsMu
            \/ goal[t] \in Ports \ DOMAIN streamSubsByPort /\ streamSubsMu = Free /\ streamSubsMu' = t
        BY <2>2 DEF NotFound, Kinds
      <4>3. /\ "primary" \notin Kinds
            /\ goal[t] \in Ports => goal[t] \notin Kinds /\ goal[t] # "primary"
        BY DEF Kinds
      <4>4. QED
        BY <4>1, <4>2, <4>3
    <3>2. streamSubsMu' = t <=> goal[t] \in Ports
      BY <3>1 DEF OrderInv, Locked
    <3>3. ASSUME NEW u \in Threads \ {t}
          PROVE  streamSubsMu' = u <=> pc[u] \in Locked /\ goal[u] \in Ports
      BY <3>1, <3>3 DEF OrderInv
    <3>4. QED
      BY <3>1, <3>2, <3>3 DEF OrderInv, Busy, Locked, CloseSteps
  <2>3. QED
    BY <1>4, <2>1, <2>2
<1>5. ASSUME NEW t \in Threads,
             CheckPrimary(t) \/ NewPrimary(t) \/ NewPrimaryFails(t) \/ Create(t) \/ CreateFails(t)
      PROVE  OrderInv'
  <2>1. pc[t] \in Locked /\ \A u \in Threads \ {t} : pc[u] \notin Locked
    BY <1>5, OneLocked DEF CheckPrimary, NewPrimary, NewPrimaryFails, Create, CreateFails, Locked
  <2>2. CASE CheckPrimary(t)
    BY <2>1, <2>2 DEF CheckPrimary, HavePrimary, OrderInv, Busy, Locked, CloseSteps
  <2>3. CASE NewPrimary(t)
    <3>1. made + 1 # None
      BY DEF None
    <3>2. QED
      BY <2>1, <2>3, <3>1 DEF NewPrimary, HavePrimary, OrderInv, Busy, Locked, CloseSteps
  <2>4. CASE NewPrimaryFails(t) \/ CreateFails(t)
    BY <2>1, <2>4
       DEF NewPrimaryFails, CreateFails, GiveUp, Unlock, Assigned, OrderInv, Busy, Locked, CloseSteps
  <2>5. CASE Create(t)
    BY <2>1, <2>5 DEF Create, Unlock, Assigned, OrderInv, Busy, Locked, CloseSteps
  <2>6. QED
    BY <1>5, <2>2, <2>3, <2>4, <2>5
<1>6. ASSUME NEW t \in Threads, Use(t) PROVE OrderInv'
  BY <1>6 DEF Use, Assigned, OrderInv, Busy, Locked, CloseSteps
<1>7. ASSUME NEW t \in Threads, TearDown(t) PROVE OrderInv'
  <2>1. /\ pc[t] \in CloseSteps /\ UNCHANGED <<SAM, goal, mine, streamSubsMu>>
        /\ \E next \in (CloseSteps \ {"closeHybrid2"}) \cup {"idle"} : pc' = [pc EXCEPT ![t] = next]
    BY <1>7
       DEF TearDown, CloseHybrid2, CloseHybrid1, ClosePrimary, CloseSAM, CloseSession, Clear, ClearMap,
           CloseSteps
  <2>2. goal[t] = "close" /\ \A u \in Threads : pc[u] # "idle" => u = t
    BY <2>1, Alone, Disjoint DEF OrderInv, Busy
  <2>3. QED
    BY <2>1, <2>2, Disjoint DEF OrderInv, Busy, Locked, CloseSteps
<1>8. QED
  BY <1>1, <1>2, <1>3, <1>4, <1>5, <1>6, <1>7 DEF Next, SetUp

-----------------------------------------------------------------------------
(* What the instance refers to                                             *)

At(steps) == \E t \in Threads : pc[t] \in steps

\* The subsessions the instance refers to.
Subs == (Range(field) \cup Range(streamSubsByPort)) \ {None}

\* Without a PRIMARY session there is no subsession, and a subsession that is
\* open is on the PRIMARY session of now, but for the time Close takes to clear
\* the references.  Close leaves nothing open but what it could not close.
RefInv ==
    /\ primary = None /\ ~At({"clearMap"}) => Subs = {}
    /\ ~At({"clearMap"}) => \A n \in Subs \cap DOMAIN live : live[n] = primary
    /\ Closing = {} => /\ Subs \subseteq DOMAIN live
                       /\ primary # None => primary \in DOMAIN live
    /\ At({"closeSAM", "clear", "clearMap"}) => DOMAIN live \subseteq {SAM} \cup abandoned
    /\ At({"clearMap"}) => primary = None /\ field["stream"] = None
    /\ DOMAIN live \subseteq {SAM, primary} \cup Subs \cup abandoned
    /\ shut => /\ SAM # None /\ SAM \notin DOMAIN live
               /\ primary # None => At({"clear"})

LEMMA RefInit == Init => RefInv
<1> SUFFICES ASSUME Init PROVE RefInv
  OBVIOUS
<1>1. Subs = {}
  BY DEF Init, Subs, Range
<1>2. DOMAIN live \subseteq {SAM} /\ ~At({"clearMap"}) /\ ~At({"closeSAM", "clear", "clearMap"})
  BY DEF Init, At
<1>3. QED
  BY <1>1, <1>2 DEF Init, RefInv

\* No goroutine is in Close while another is in a set-up.
LEMMA NoneCloses ==
  ASSUME TypeOK, OrderInv, NEW t \in Threads, pc[t] # "idle", pc[t] \notin CloseSteps
  PROVE  \A u \in Threads : pc[u] \notin CloseSteps
<1>1. ASSUME NEW u \in Threads, pc[u] \in CloseSteps PROVE FALSE
  <2>1. goal[u] = "close" /\ goal[t] # "close"
    BY <1>1, Disjoint DEF OrderInv, Busy
  <2>2. t = u
    BY <1>1, <2>1, Alone, Disjoint, GarlicAssumption
  <2>3. QED
    BY <2>1, <2>2
<1>2. QED
  BY <1>1

\* What the steps of a set-up preserve of RefInv, when none is in Close.
Settled ==
    /\ primary = None => Subs = {}
    /\ \A n \in Subs : n \in DOMAIN live /\ live[n] = primary
    /\ primary # None => primary \in DOMAIN live
    /\ DOMAIN live \subseteq {SAM, primary} \cup Subs \cup abandoned
    /\ shut => SAM # None /\ SAM \notin DOMAIN live /\ primary = None

LEMMA SettledIs ==
  ASSUME \A t \in Threads : pc[t] \notin CloseSteps \ {"closeHybrid2"}
  PROVE  RefInv <=> Settled
<1>1. Closing = {} /\ ~At({"clearMap"}) /\ ~At({"clear"}) /\ ~At({"closeSAM", "clear", "clearMap"})
  BY DEF Closing, At, CloseSteps
<1>2. QED
  BY <1>1 DEF RefInv, Settled

\* A set-up that fails leaves the references as they were: nil where it had
\* found nil.
LEMMA GiveUpSubs ==
  ASSUME TypeOK, OrderInv, NEW t \in Threads, pc[t] \in Locked, GiveUp(t)
  PROVE  Subs' = Subs
<1>1. field' = field
  BY DEF GiveUp, Assigned, OrderInv, TypeOK
<1>2. QED
  BY <1>1 DEF GiveUp, Subs

\* One that succeeds adds its subsession.
LEMMA CreateSubs ==
  ASSUME TypeOK, OrderInv, NEW t \in Threads, Create(t)
  PROVE  Subs' = Subs \cup {made + 1}
<1> DEFINE n == made + 1
<1>1. /\ pc[t] \in Locked /\ goal[t] # "primary" /\ goal[t] \in Goals /\ n # None
      /\ Assigned(t, n) /\ Recorded(t, n)
  BY Disjoint DEF Create, OrderInv, Locked, TypeOK, None, Busy, CloseSteps
<1> HIDE DEF n
<1>2. CASE goal[t] \in Kinds
  <2>1. field' = [field EXCEPT ![goal[t]] = n] /\ field[goal[t]] = None /\ UNCHANGED streamSubsByPort
    BY <1>1, <1>2, GarlicAssumption DEF Assigned, Recorded, OrderInv
  <2>2. Range(field') \ {None} = (Range(field) \ {None}) \cup {n}
    BY <1>1, <1>2, <2>1 DEF Range, TypeOK
  <2>3. QED
    BY <2>1, <2>2 DEF Subs, n
<1>3. CASE goal[t] \in Ports
  <2>1. /\ field' = field /\ goal[t] \notin DOMAIN streamSubsByPort
        /\ streamSubsByPort' = [p \in DOMAIN streamSubsByPort \cup {goal[t]} |->
                                  IF p = goal[t] THEN n ELSE streamSubsByPort[p]]
    BY <1>1, <1>3, GarlicAssumption DEF Assigned, Recorded, OrderInv
  <2>2. Range(streamSubsByPort') = Range(streamSubsByPort) \cup {n}
    BY <2>1 DEF Range
  <2>3. QED
    BY <1>1, <2>1, <2>2 DEF Subs, n
<1>4. QED
  BY <1>1, <1>2, <1>3 DEF Goals

LEMMA SettledStep ==
  ASSUME TypeOK, OrderInv, Settled, NEW t \in Threads, SetUp(t)
  PROVE  Settled'
<1> USE GarlicAssumption DEF fields, bridge
<1>1. CASE CheckSAM(t) \/ Found(t) \/ NotFound(t) \/ CheckPrimary(t)
  BY <1>1 DEF CheckSAM, Found, NotFound, CheckPrimary, Settled, Subs
<1>2. CASE Connect(t) \/ ConnectFails(t)
  <2>1. pc[t] = "connect" /\ SAM = None /\ UNCHANGED <<primary, field, streamSubsByPort>>
    BY <1>2 DEF Connect, ConnectFails, OrderInv
  <2>2. Subs' = Subs
    BY <2>1 DEF Subs
  <2>3. CASE ConnectFails(t)
    BY <2>1, <2>2, <2>3 DEF ConnectFails, Settled
  <2>4. CASE Connect(t)
    <3>1. /\ DOMAIN live' = DOMAIN live \cup {made + 1} /\ made + 1 \notin DOMAIN live
          /\ \A n \in DOMAIN live : live'[n] = live[n]
          /\ SAM' = made + 1 /\ UNCHANGED <<shut, abandoned>>
      BY <2>4 DEF Connect, Open, TypeOK
    <3>2. None \notin DOMAIN live
      BY DEF TypeOK, None
    <3>3. QED
      BY <2>1, <2>2, <3>1, <3>2 DEF Settled
  <2>5. QED
    BY <1>2, <2>3, <2>4
<1>3. CASE NewPrimary(t)
  <2>1. /\ DOMAIN live' = DOMAIN live \cup {made + 1} /\ made + 1 \notin DOMAIN live
        /\ primary' = made + 1 /\ primary = None /\ SAM \in DOMAIN live
        /\ UNCHANGED <<SAM, field, streamSubsByPort, shut, abandoned>>
    BY <1>3 DEF NewPrimary, Open, OrderInv, TypeOK
  <2>2. Subs = {} /\ Subs' = {}
    BY <2>1 DEF Settled, Subs
  <2>3. None \notin DOMAIN live /\ made + 1 # None
    BY DEF TypeOK, None
  <2>4. QED
    BY <2>1, <2>2, <2>3 DEF Settled
<1>4. CASE NewPrimaryFails(t) \/ CreateFails(t)
  <2>1. /\ pc[t] \in Locked /\ GiveUp(t) /\ primary' = primary
        /\ UNCHANGED <<SAM, live, shut, abandoned>>
    BY <1>4 DEF NewPrimaryFails, CreateFails, OrderInv, Locked
  <2>2. Subs' = Subs
    BY <2>1, GiveUpSubs
  <2>3. QED
    BY <2>1, <2>2 DEF Settled
<1>5. CASE Create(t)
  <2>1. /\ DOMAIN live' = DOMAIN live \cup {made + 1} /\ made + 1 \notin DOMAIN live
        /\ \A n \in DOMAIN live : live'[n] = live[n]
        /\ live'[made + 1] = primary /\ primary # None
        /\ UNCHANGED <<SAM, primary, shut, abandoned>>
    BY <1>5 DEF Create, Open, OrderInv, TypeOK
  <2>2. QED
    BY <1>5, <2>1, CreateSubs DEF Settled
<1>6. CASE Use(t)
  <2>1. field' = field
    BY <1>6 DEF Use, Assigned, OrderInv, TypeOK
  <2>2. QED
    BY <1>6, <2>1 DEF Use, Settled, Subs
<1>7. QED
  BY <1>1, <1>2, <1>3, <1>4, <1>5, <1>6 DEF SetUp

\* Close is alone: nothing is in the way of its order of closing and clearing.
LEMMA TearDownStep ==
  ASSUME TypeOK, OrderInv, RefInv, NEW t \in Threads, TearDown(t)
  PROVE  RefInv'
<1> USE DEF fields
<1>1. /\ pc[t] \in CloseSteps
      /\ \E next \in (CloseSteps \ {"closeHybrid2"}) \cup {"idle"} : pc' = [pc EXCEPT ![t] = next]
  BY DEF TearDown, CloseHybrid2, CloseHybrid1, ClosePrimary, CloseSAM, CloseSession, Clear, ClearMap,
         CloseSteps, Goto
<1>2. \A u \in Threads \ {t} : pc[u] = "idle" /\ pc'[u] = "idle"
  BY <1>1, Alone, Disjoint, GarlicAssumption DEF OrderInv, Busy, TypeOK
<1>3. /\ \A S : "idle" \notin S => (At(S) <=> pc[t] \in S)
      /\ \A S : "idle" \notin S => (At(S)' <=> pc'[t] \in S)
  BY <1>2 DEF At
<1>4. ASSUME NEW n \in {None} \cup Sessions, NEW next \in Steps, CloseSession(t, n, next)
      PROVE  /\ UNCHANGED <<SAM, primary, field, streamSubsByPort>> /\ Subs' = Subs
             /\ pc'[t] = next /\ DOMAIN live' \subseteq DOMAIN live
             /\ \A m \in DOMAIN live' : live'[m] = live[m]
             /\ abandoned \subseteq abandoned'
             /\ DOMAIN live' \subseteq (DOMAIN live \ Family(n)) \cup abandoned'
  BY <1>4, CloseSessionTypes DEF Subs, TypeOK
<1>5. CASE CloseHybrid2(t) \/ CloseHybrid1(t)
  <2>1. PICK n \in {None} \cup Sessions : \E next \in {"closeHybrid1", "closePrimary"} :
           CloseSession(t, n, next) /\ UNCHANGED shut
    BY <1>5 DEF CloseHybrid2, CloseHybrid1, TypeOK, Kinds
  <2>2. PICK next \in {"closeHybrid1", "closePrimary"} : CloseSession(t, n, next) /\ UNCHANGED shut
    BY <2>1
  <2>3. next \in Steps
    BY DEF Steps
  <2>4. pc[t] \in {"closeHybrid2", "closeHybrid1"}
    BY <1>5 DEF CloseHybrid2, CloseHybrid1
  <2>5. QED
    BY <1>3, <1>4, <2>2, <2>3, <2>4 DEF RefInv, Closing
<1>6. CASE ClosePrimary(t)
  <2>1. CloseSession(t, primary, "closeSAM") /\ UNCHANGED shut /\ pc[t] = "closePrimary"
    BY <1>6 DEF ClosePrimary
  <2>2. primary \in {None} \cup Sessions /\ "closeSAM" \in Steps
    BY DEF TypeOK, Steps
  <2>3. DOMAIN live' \subseteq {SAM} \cup abandoned'
    <3>0. DOMAIN live' \subseteq DOMAIN live /\ None \notin DOMAIN live
      <4>1. DOMAIN live' \subseteq DOMAIN live
        BY <1>4, <2>1, <2>2
      <4>2. QED
        BY <4>1 DEF TypeOK, None
    <3>1. ASSUME NEW m \in DOMAIN live', m # SAM PROVE m \in abandoned'
      <4>1. m \in DOMAIN live /\ m # None
        BY <3>0, <3>1
      <4>2. CASE m \in abandoned
        BY <1>4, <2>1, <2>2, <4>2
      <4>3. CASE m = primary \/ m \in Subs
        <5>1. primary # None /\ (m = primary \/ live[m] = primary)
          BY <1>3, <2>1, <4>1, <4>3 DEF RefInv
        <5>2. m \in Family(primary)
          BY <4>1, <5>1 DEF Family
        <5>3. QED
          BY <1>4, <2>1, <2>2, <5>2
      <4>4. QED
        BY <3>1, <4>1, <4>2, <4>3 DEF RefInv
    <3>2. QED
      BY <3>1
  <2>4. QED
    BY <1>3, <1>4, <2>1, <2>2, <2>3 DEF RefInv, Closing
<1>7. CASE CloseSAM(t)
  <2>1. /\ CloseSession(t, SAM, "clear") /\ pc[t] = "closeSAM"
        /\ shut' = (shut \/ (SAM # None /\ SAM \notin DOMAIN live'))
    BY <1>7 DEF CloseSAM
  <2>2. SAM \in {None} \cup Sessions /\ "clear" \in Steps
    BY DEF TypeOK, Steps
  <2>3. QED
    BY <1>3, <1>4, <2>1, <2>2 DEF RefInv, Closing
<1>8. CASE Clear(t)
  <2>1. /\ pc[t] = "clear" /\ pc'[t] = "clearMap" /\ primary' = None /\ field'["stream"] = None
        /\ UNCHANGED <<SAM, live, shut, abandoned>>
    BY <1>8 DEF Clear, Goto, TypeOK, Kinds, bridge
  <2>2. QED
    BY <1>3, <2>1 DEF RefInv, Closing
<1>9. CASE ClearMap(t)
  <2>1. /\ pc[t] = "clearMap" /\ pc'[t] = "idle" /\ UNCHANGED <<SAM, primary, live, shut, abandoned>>
    BY <1>9 DEF ClearMap, Goto, TypeOK, bridge
  <2>2. primary = None /\ field["stream"] = None /\ DOMAIN live \subseteq {SAM} \cup abandoned
    BY <1>3, <2>1 DEF RefInv
  <2>3. Subs' = {}
    BY <1>9, <2>2 DEF ClearMap, Subs, Range
  <2>4. QED
    BY <1>3, <2>1, <2>2, <2>3 DEF RefInv, Closing
<1>10. QED
  BY <1>5, <1>6, <1>7, <1>8, <1>9 DEF TearDown

LEMMA RefStep == TypeOK /\ OrderInv /\ RefInv /\ [Next]_vars => RefInv'
<1> SUFFICES ASSUME TypeOK, OrderInv, RefInv, [Next]_vars PROVE RefInv'
  OBVIOUS
<1>1. CASE UNCHANGED vars
  BY <1>1 DEF RefInv, Subs, At, Closing, vars, fields, bridge, control
<1>2. ASSUME NEW t \in Threads, (\E g \in Goals : Call(t, g)) \/ Close(t) PROVE RefInv'
  <2>1. PICK step \in {"sam", "closeHybrid2"} : \E g : Begin(t, g, step)
    BY <1>2 DEF Call, Close
  <2>2. /\ pc[t] = "idle" /\ pc' = [pc EXCEPT ![t] = step] /\ UNCHANGED <<fields, bridge>>
    BY <2>1 DEF Begin, Goto
  <2>3. /\ Closing' = Closing /\ Subs' = Subs
        /\ \A S : S \cap {"idle", "sam", "closeHybrid2"} = {} => (At(S)' <=> At(S))
    BY <2>2 DEF TypeOK, Closing, Subs, At, fields
  <2>4. QED
    BY <2>2, <2>3 DEF RefInv, fields, bridge
<1>3. ASSUME NEW t \in Threads, SetUp(t) PROVE RefInv'
  <2>1. /\ pc[t] # "idle" /\ pc[t] \notin CloseSteps
        /\ \E next \in Steps \ CloseSteps : pc' = [pc EXCEPT ![t] = next]
    BY <1>3
       DEF SetUp, CheckSAM, Connect, ConnectFails, Found, NotFound, CheckPrimary, NewPrimary,
           NewPrimaryFails, Create, CreateFails, Use, HavePrimary, GiveUp, Goto, CloseSteps, Steps
  <2>2. \A u \in Threads : pc[u] \notin CloseSteps
    BY <2>1, NoneCloses
  <2>3. \A u \in Threads : pc'[u] \notin CloseSteps
    BY <2>1, <2>2 DEF TypeOK
  <2>4. Settled
    BY <2>2, SettledIs
  <2>5. Settled'
    BY <1>3, <2>4, SettledStep
  <2>6. Closing' = {} /\ ~At({"clearMap"})' /\ ~At({"clear"})' /\ ~At({"closeSAM", "clear", "clearMap"})'
    BY <2>3 DEF Closing, At, CloseSteps
  <2>7. QED
    BY <2>5, <2>6 DEF RefInv, Settled
<1>4. QED
  BY <1>1, <1>2, <1>3, TearDownStep DEF Next

LEMMA InvCorrect == ASSUME Overlapping \subseteq Ports PROVE Spec => [](TypeOK /\ OrderInv /\ RefInv)
<1>1. Init => TypeOK /\ OrderInv /\ RefInv
  BY TypeInit, OrderInit, RefInit
<1>2. TypeOK /\ OrderInv /\ RefInv /\ [Next]_vars => (TypeOK /\ OrderInv /\ RefInv)'
  BY TypeStep, OrderStep, RefStep
<1>3. QED
  BY <1>1, <1>2, PTL DEF Spec

\* When the mutex orders the calls that overlap, no session is lost: what is
\* open at the bridge Close can reach, or has tried to close in vain.
THEOREM NoneLost ==
  ASSUME Overlapping \subseteq Ports
  PROVE  Spec => []NothingLost
<1>1. RefInv => NothingLost
  BY DEF RefInv, NothingLost, Referenced, Subs
<1>2. QED
  BY <1>1, InvCorrect, PTL

\* Then, too, no set-up returns a subsession that is closed or belongs to an
\* earlier PRIMARY session.
THEOREM NoneStale ==
  ASSUME Overlapping \subseteq Ports
  PROVE  Spec => []ReferencesCurrent
<1>1. RefInv => ReferencesCurrent
  <2> SUFFICES ASSUME RefInv, Closing = {} PROVE ReferencesCurrent
    BY DEF ReferencesCurrent
  <2>1. ~At({"clearMap"})
    BY DEF Closing, At
  <2>2. QED
    BY <2>1 DEF RefInv, ReferencesCurrent, Subs
<1>2. QED
  BY <1>1, InvCorrect, PTL

\* And no call dereferences a SAM connection or a PRIMARY session that another
\* has set to nil.
THEOREM NoNilUsed ==
  ASSUME Overlapping \subseteq Ports
  PROVE  Spec => []NilNeverUsed
<1>1. OrderInv => NilNeverUsed
  BY DEF OrderInv, NilNeverUsed, Locked
<1>2. QED
  BY <1>1, InvCorrect, PTL

\* An instance whose SAM connection Close has closed opens nothing again.
THEOREM ClosedForGood ==
  ASSUME Overlapping \subseteq Ports
  PROVE  Spec => StaysClosed
<1>1. TypeOK /\ OrderInv /\ RefInv /\ [Next]_vars => [shut => DOMAIN live' \subseteq DOMAIN live]_vars
  <2> SUFFICES ASSUME TypeOK, OrderInv, RefInv, shut, Next PROVE DOMAIN live' \subseteq DOMAIN live
    OBVIOUS
  <2>1. PICK t \in Threads : (\E g \in Goals : Call(t, g)) \/ Close(t) \/ SetUp(t) \/ TearDown(t)
    BY DEF Next
  <2>2. CASE (\E g \in Goals : Call(t, g)) \/ Close(t)
    BY <2>2 DEF Call, Close, Begin, bridge
  <2>3. CASE SetUp(t)
    <3>1. ~Connect(t)
      BY DEF Connect, RefInv, OrderInv
    <3>2. ~NewPrimary(t)
      BY DEF NewPrimary, RefInv
    <3>3. ~Create(t)
      <4>1. SUFFICES ASSUME Create(t) PROVE FALSE
        OBVIOUS
      <4>2. pc[t] = "create" /\ primary # None
        BY <4>1 DEF Create, OrderInv
      <4>3. PICK u \in Threads : pc[u] = "clear"
        BY <4>2 DEF RefInv, At
      <4>4. \A v \in Threads : pc[v] \notin CloseSteps
        BY <4>2, NoneCloses DEF CloseSteps
      <4>5. QED
        BY <4>3, <4>4 DEF CloseSteps
    <3>4. QED
      BY <2>3, <3>1, <3>2, <3>3
         DEF SetUp, CheckSAM, ConnectFails, Found, NotFound, CheckPrimary, NewPrimaryFails, CreateFails,
             Use, bridge
  <2>4. CASE TearDown(t)
    <3>1. \A n, next : CloseSession(t, n, next) => DOMAIN live' \subseteq DOMAIN live
      BY DEF CloseSession, Restrict
    <3>2. QED
      BY <2>4, <3>1
         DEF TearDown, CloseHybrid2, CloseHybrid1, ClosePrimary, CloseSAM, Clear, ClearMap, bridge
  <2>5. QED
    BY <2>1, <2>2, <2>3, <2>4
<1>2. QED
  BY <1>1, InvCorrect, PTL DEF Spec, StaysClosed
=============================================================================
