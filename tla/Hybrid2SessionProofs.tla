------------------------ MODULE Hybrid2SessionProofs ------------------------
(***************************************************************************)
(* Proofs about Hybrid2Session, for any number of readers and closers, any *)
(* size of recvChan and any number of datagrams.                           *)
(***************************************************************************)
EXTENDS Hybrid2Session, WellFoundedInduction, SequenceTheorems, TLAPS

-----------------------------------------------------------------------------
(* Types *)

LEMMA AfterDef ==
  /\ After["recvStop"] = "stopCleanup" /\ After["stopCleanup"] = "readers"
  /\ After["readers"] = "ackStop" /\ After["ackStop"] = "dg2"
  /\ After["dg2"] = "dg3" /\ After["dg3"] = "done" /\ After["done"] = "returned"
BY DEF After

\* What the loops need besides the types: a loop has a datagram in hand from its
\* receipt to its place in recvChan.
LoopInv ==
    \A l \in Loops :
        /\ loop[l] \in {"handle", "send"} => arrived[l] > 0 /\ hand[l] \in Kinds
        /\ loop[l] \notin {"handle", "send"} => hand[l] = Empty
        /\ loop[l] = "send" => hand[l] # "ackResponse"
        /\ loop[l] = "off" <=> phase # "running"

TypeInv == TypeOK /\ LoopInv

LEMMA TypeInit == Init => TypeInv
<1> SUFFICES ASSUME Init PROVE TypeOK /\ LoopInv
  BY DEF TypeInv
<1>1. /\ recvChan \in Seq(Datagrams) /\ Len(recvChan) <= RecvChanBufferSize
      /\ got \in [Loops -> Seq(Datagrams)]
      /\ arrived \in [Loops -> 0..MaxDatagrams]
  BY SizeAssumption DEF Init
<1>2. TypeOK
  BY <1>1 DEF Init, TypeOK, CloserSteps
<1>3. LoopInv
  BY DEF Init, LoopInv
<1>4. QED
  BY <1>2, <1>3

LEMMA TypeStep == TypeInv /\ [Next]_vars => TypeInv'
<1> SUFFICES ASSUME TypeOK, LoopInv, [Next]_vars PROVE TypeOK' /\ LoopInv'
  BY DEF TypeInv
<1> USE DEF TypeOK, LoopInv, setup, traffic
<1>1. CASE CreateDatagram2Sub \/ CreateDatagram3Sub \/ CreateDatagram3SubFails
  BY <1>1 DEF CreateDatagram2Sub, CreateDatagram3Sub, CreateDatagram3SubFails, CloseSub, Loops
<1>2. ASSUME NEW l \in Loops, LoopTop(l) \/ ReceiveError(l) \/ Handle(l) \/ GiveUp(l)
      PROVE  TypeOK' /\ LoopInv'
  BY <1>2 DEF LoopTop, ReceiveError, Handle, GiveUp, Move
<1>3. ASSUME NEW l \in Loops, Forward(l) PROVE TypeOK' /\ LoopInv'
  <2>1. Current(l) \in Datagrams
    BY <1>3 DEF Forward, Current, Datagrams
  <2>2. recvChan' \in Seq(Datagrams) /\ Len(recvChan') <= RecvChanBufferSize
    BY <1>3, <2>1, SizeAssumption DEF Forward
  <2>3. QED
    BY <1>3, <2>2 DEF Forward, Move
<1>4. ASSUME NEW l \in Loops, NEW k \in Kinds, Receive(l, k) PROVE TypeOK' /\ LoopInv'
  <2>1. arrived[l] + 1 \in 1..MaxDatagrams
    BY <1>4, SizeAssumption DEF Receive, Loops
  <2>2. QED
    BY <1>4, <2>1, SizeAssumption DEF Receive, Move
<1>5. ASSUME NEW r \in Readers, Read(r) \/ TakeError(r) \/ Timeout(r) PROVE TypeOK' /\ LoopInv'
  BY <1>5 DEF Read, TakeError, Timeout, ReaderAt
<1>6. ASSUME NEW r \in Readers, Take(r) PROVE TypeOK' /\ LoopInv'
  <2>1. /\ Head(recvChan) \in Datagrams
        /\ recvChan' \in Seq(Datagrams) /\ Len(recvChan') <= RecvChanBufferSize
    BY <1>6, SizeAssumption DEF Take
  <2>2. got' \in [Loops -> Seq(Datagrams)]
    <3>1. PICK l \in Loops : l = Head(recvChan).from
      BY <2>1 DEF Datagrams
    <3>2. got' = [got EXCEPT ![l] = Append(@, Head(recvChan))]
      BY <1>6, <3>1 DEF Take
    <3>3. Append(got[l], Head(recvChan)) \in Seq(Datagrams)
      BY <2>1
    <3>4. QED
      BY <3>2, <3>3
  <2>3. QED
    BY <1>6, <2>1, <2>2 DEF Take, ReaderAt
<1>7. ASSUME NEW c \in Closers, Close(c) PROVE TypeOK' /\ LoopInv'
  BY <1>7 DEF Close, CloserSteps, TeardownSteps
<1>8. ASSUME NEW c \in Closers, TearDown(c) PROVE TypeOK' /\ LoopInv'
  <2>1. After[closer[c]] \in CloserSteps
    BY <1>8, AfterDef DEF TearDown, CloserSteps, TeardownSteps
  <2>2. closer' \in [Closers -> CloserSteps]
    BY <1>8, <2>1 DEF TearDown
  <2>3. signals' \subseteq TeardownSteps /\ subs' \subseteq Loops /\ unclosed' \subseteq Stubborn
    BY <1>8 DEF TearDown, CloseSub
  <2>4. UNCHANGED <<phase, background, closed, loop, reader, hand, recvChan, recvErr,
                  arrived, got>>
    BY <1>8 DEF TearDown
  <2>5. QED
    BY <2>2, <2>3, <2>4
<1>9. ASSUME NEW b \in Background, BackgroundExits(b) PROVE TypeOK' /\ LoopInv'
  BY <1>9 DEF BackgroundExits
<1>10. CASE UNCHANGED vars
  BY <1>10 DEF vars
<1>11. QED
  BY <1>1, <1>2, <1>3, <1>4, <1>5, <1>6, <1>7, <1>8, <1>9, <1>10
     DEF Next, LoopGoes, ReaderGoes

LEMMA TypesCorrect == Spec => []TypeInv
BY TypeInit, TypeStep, PTL DEF Spec

\* Every goroutine is where it can be, and recvChan holds no more than fits.
THEOREM TypeCorrect == Spec => []TypeOK
<1>1. TypeInv => TypeOK
  BY DEF TypeInv
<1>2. QED
  BY <1>1, TypesCorrect, PTL

-----------------------------------------------------------------------------
(* Close *)

\* What has been signalled when a closer is at a step.
Before ==
    [recvStop |-> {}, stopCleanup |-> {"recvStop"},
     readers |-> {"recvStop", "stopCleanup"},
     ackStop |-> {"recvStop", "stopCleanup", "readers"},
     dg2 |-> {"recvStop", "stopCleanup", "readers", "ackStop"},
     dg3 |-> {"recvStop", "stopCleanup", "readers", "ackStop", "dg2"},
     done |-> {"recvStop", "stopCleanup", "readers", "ackStop", "dg2", "dg3"}]

LEMMA BeforeDef ==
  /\ Before["recvStop"] = {} /\ Before["stopCleanup"] = {"recvStop"}
  /\ \A s \in TeardownSteps \ {"done"} :
        After[s] \in TeardownSteps /\ Before[After[s]] = Before[s] \cup {s}
  /\ After["done"] = "returned" /\ Before["done"] \cup {"done"} = TeardownSteps
  /\ \A s \in TeardownSteps : s \notin Before[s] /\ "done" \notin Before[s]
                              /\ Before[s] \subseteq TeardownSteps
<1>1. /\ Before["recvStop"] = {} /\ Before["stopCleanup"] = {"recvStop"}
      /\ Before["readers"] = {"recvStop", "stopCleanup"}
      /\ Before["ackStop"] = {"recvStop", "stopCleanup", "readers"}
      /\ Before["dg2"] = {"recvStop", "stopCleanup", "readers", "ackStop"}
      /\ Before["dg3"] = {"recvStop", "stopCleanup", "readers", "ackStop", "dg2"}
      /\ Before["done"] = {"recvStop", "stopCleanup", "readers", "ackStop", "dg2", "dg3"}
  BY DEF Before
<1>2. QED
  BY <1>1, AfterDef DEF TeardownSteps

TearingDown(c) == closer[c] \in TeardownSteps

\* Before Close nothing is signalled; then one goroutine gives the signals in
\* their order, and when it has returned all are given.
OneCloser ==
    /\ ~closed => signals = {} /\ \A c \in Closers : closer[c] = "idle"
    /\ closed => phase = "running"
    /\ \A c \in Closers : TearingDown(c) => signals = Before[closer[c]]
    /\ \A c, d \in Closers : TearingDown(c) /\ TearingDown(d) => c = d
    /\ closed => (\E c \in Closers : TearingDown(c)) \/ signals = TeardownSteps

\* A subsession is open from its creation to its signal, and after that if its
\* Close failed.
SubsOpen ==
    /\ phase = "new" => subs = {} /\ unclosed = {}
    /\ phase = "failed" => subs \subseteq unclosed
    /\ phase = "dg2Made" => subs = {"dg2"} /\ unclosed = {}
    /\ phase = "running" => unclosed \subseteq signals /\ subs = (Loops \ signals) \cup unclosed

CloseInv == TypeInv /\ OneCloser /\ SubsOpen

LEMMA CloseInit == Init => CloseInv
BY TypeInit DEF Init, CloseInv, OneCloser, SubsOpen, TearingDown, TeardownSteps

LEMMA CloseStep == CloseInv /\ [Next]_vars => CloseInv'
<1> SUFFICES ASSUME CloseInv, [Next]_vars PROVE OneCloser' /\ SubsOpen'
  BY TypeStep DEF CloseInv
<1> USE DEF CloseInv, TypeInv, TypeOK, OneCloser, SubsOpen, TearingDown
<1>1. CASE CreateDatagram2Sub \/ CreateDatagram3Sub \/ CreateDatagram3SubFails
  <2>1. /\ phase # "running" /\ ~closed /\ signals = {}
        /\ UNCHANGED <<closed, signals, closer>>
    BY <1>1 DEF CreateDatagram2Sub, CreateDatagram3Sub, CreateDatagram3SubFails
  <2>2. OneCloser'
    BY <2>1 DEF TeardownSteps
  <2>3. SubsOpen'
    BY <1>1, <2>1 DEF CreateDatagram2Sub, CreateDatagram3Sub, CreateDatagram3SubFails, CloseSub
  <2>4. QED
    BY <2>2, <2>3
<1>2. CASE UNCHANGED <<phase, subs, unclosed, closed, signals, closer>>
  BY <1>2
<1>3. ASSUME NEW c \in Closers, Close(c) PROVE OneCloser' /\ SubsOpen'
  <2>1. /\ phase = "running" /\ closed' /\ UNCHANGED <<phase, subs, unclosed, signals>>
        /\ \A d \in Closers \ {c} : closer'[d] = closer[d]
    BY <1>3 DEF Close, setup
  <2>2. CASE closed
    <3>1. closer[c] = "idle" /\ closer'[c] = "returned"
      BY <1>3, <2>2 DEF Close
    <3>2. \A d \in Closers : TearingDown(d)' <=> TearingDown(d)
      BY <2>1, <3>1 DEF TeardownSteps
    <3>3. \A d \in Closers : TearingDown(d) => closer'[d] = closer[d]
      BY <2>1, <3>1 DEF TeardownSteps
    <3>4. QED
      BY <2>1, <2>2, <3>2, <3>3
  <2>3. CASE ~closed
    <3>1. /\ closer'[c] = "recvStop" /\ signals' = Before["recvStop"]
          /\ \A d \in Closers \ {c} : closer'[d] = "idle"
      BY <1>3, <2>1, <2>3, BeforeDef DEF Close
    <3>2. TearingDown(c)' /\ \A d \in Closers : TearingDown(d)' => d = c
      BY <3>1 DEF TeardownSteps
    <3>3. OneCloser'
      BY <2>1, <3>1, <3>2
    <3>4. QED
      BY <2>1, <3>3
  <2>4. QED
    BY <2>2, <2>3
<1>4. ASSUME NEW c \in Closers, TearDown(c) PROVE OneCloser' /\ SubsOpen'
  <2>1. /\ TearingDown(c) /\ signals = Before[closer[c]]
        /\ closed /\ phase = "running" /\ UNCHANGED <<phase, closed>>
        /\ signals' = signals \cup {closer[c]}
        /\ closer'[c] = After[closer[c]]
        /\ \A d \in Closers \ {c} : closer'[d] = closer[d] /\ closer'[d] \notin TeardownSteps
    BY <1>4 DEF TearDown, TeardownSteps
  <2>2. \/ closer'[c] \in TeardownSteps /\ signals' = Before[closer'[c]]
        \/ closer'[c] = "returned" /\ signals' = TeardownSteps
    BY <2>1, BeforeDef
  <2>3. OneCloser'
    BY <2>1, <2>2 DEF TeardownSteps
  <2>4. SubsOpen'
    BY <1>4, <2>1, BeforeDef DEF TearDown, CloseSub
  <2>5. QED
    BY <2>3, <2>4
<1>5. QED
  BY <1>1, <1>2, <1>3, <1>4
     DEF Next, LoopGoes, ReaderGoes, LoopTop, ReceiveError, Handle, GiveUp, Forward, Receive,
         Read, Take, TakeError, Timeout, BackgroundExits, vars, setup, traffic

LEMMA CloseCorrect == Spec => []CloseInv
BY CloseInit, CloseStep, PTL DEF Spec

\* However many goroutines call Close, one tears down, and no channel is closed
\* a second time.
THEOREM ClosedOnce == Spec => []OneTeardown
<1>1. CloseInv => OneTeardown
  <2> SUFFICES ASSUME CloseInv PROVE OneTeardown
    OBVIOUS
  <2>1. \A c, d \in Closers : TearingDown(c) /\ TearingDown(d) => c = d
    BY DEF CloseInv, OneCloser
  <2>2. ASSUME NEW c \in Closers PROVE closer[c] \notin signals
    <3>1. CASE TearingDown(c)
      BY <3>1, BeforeDef DEF CloseInv, OneCloser, TearingDown
    <3>2. CASE ~TearingDown(c)
      BY <3>2 DEF CloseInv, TypeInv, TypeOK, TearingDown
    <3>3. QED
      BY <3>1, <3>2
  <2>3. QED
    BY <2>1, <2>2 DEF OneTeardown, TearingDown
<1>2. QED
  BY <1>1, CloseCorrect, PTL

\* Who waits for the session to be closed finds both subsessions closed, if they
\* could be, and every goroutine told to stop.
THEOREM TornDown == Spec => []DoneMeansTornDown
<1>1. CloseInv => DoneMeansTornDown
  BY BeforeDef DEF CloseInv, OneCloser, SubsOpen, TypeInv, TypeOK, DoneMeansTornDown,
     TearingDown, TeardownSteps, Loops
<1>2. QED
  BY <1>1, CloseCorrect, PTL

-----------------------------------------------------------------------------
(* Induction over the natural numbers, with a set for the predicate        *)

Below == OpToRel(<, Nat)

LEMMA BelowDef == ASSUME NEW x \in Nat, NEW y \in Nat, y < x PROVE <<y, x>> \in Below
BY DEF OpToRel, Below

LEMMA Least == ASSUME NEW T \in SUBSET Nat, T # {} PROVE \E x \in T : \A y \in T : x <= y
<1>1. PICK x \in T : \A y \in T : ~(<<y, x>> \in Below)
  BY NatLessThanWellFounded, WFMin DEF Below
<1>2. ASSUME NEW y \in T PROVE x <= y
  <2>1. x \in Nat /\ y \in Nat /\ ~(y < x)
    BY <1>1, BelowDef
  <2>2. QED
    BY <2>1
<1>3. QED
  BY <1>2

LEMMA Induct ==
  ASSUME NEW S, 0 \in S, \A n \in Nat : n \in S => n + 1 \in S
  PROVE  Nat \subseteq S
<1> SUFFICES ASSUME Nat \ S # {} PROVE FALSE
  OBVIOUS
<1>1. PICK x \in Nat \ S : \A y \in Nat \ S : x <= y
  BY Least
<1>2. x # 0 /\ x - 1 \in Nat /\ x - 1 \in S
  BY <1>1
<1>3. QED
  BY <1>1, <1>2

-----------------------------------------------------------------------------
(* What came from one subsession                                           *)

\* picked with d at its end, if d came from l.
Pick(l, picked, d) == IF d.from = l THEN Append(picked, d) ELSE picked

\* f[n] is what of the first n elements of seq came from l.
Rest(l, seq, f, n) == IF n = 0 THEN <<>> ELSE Pick(l, f[n - 1], seq[n])

Picks(l, seq, f) == f = [n \in 0..Len(seq) |-> Rest(l, seq, f, n)]

LEMMA PicksExist ==
  ASSUME NEW l, NEW seq \in Seq(Datagrams)
  PROVE  \E f : Picks(l, seq, f)
<1> DEFINE S == {n \in Nat : \E f : f = [k \in 0..n |-> Rest(l, seq, f, k)]}
<1>1. 0 \in S
  <2>1. [k \in 0..0 |-> <<>>] = [k \in 0..0 |-> Rest(l, seq, [i \in 0..0 |-> <<>>], k)]
    BY DEF Rest
  <2>2. QED
    BY <2>1
<1>2. ASSUME NEW n \in Nat, n \in S PROVE n + 1 \in S
  <2>1. PICK f : f = [k \in 0..n |-> Rest(l, seq, f, k)]
    BY <1>2
  <2> DEFINE g == [k \in 0..(n + 1) |-> IF k <= n THEN f[k] ELSE Rest(l, seq, f, n + 1)]
  <2>2. ASSUME NEW k \in 0..(n + 1) PROVE g[k] = Rest(l, seq, g, k)
    <3>1. CASE k <= n
      <4>1. k \in 0..n /\ g[k] = f[k] /\ f[k] = Rest(l, seq, f, k)
        BY <2>1, <3>1
      <4>2. k # 0 => k - 1 \in 0..(n + 1) /\ k - 1 <= n /\ g[k - 1] = f[k - 1]
        BY <3>1
      <4>3. QED
        BY <4>1, <4>2 DEF Rest
    <3>2. CASE k = n + 1
      <4>1. k # 0 /\ g[k] = Rest(l, seq, f, k) /\ g[k - 1] = f[k - 1]
        BY <3>2
      <4>2. QED
        BY <4>1 DEF Rest
    <3>3. QED
      BY <3>1, <3>2
  <2>3. g = [k \in 0..(n + 1) |-> Rest(l, seq, g, k)]
    BY <2>2
  <2> HIDE DEF g
  <2>4. QED
    BY <2>3
<1>3. Nat \subseteq S
  <2> HIDE DEF S
  <2>1. QED
    BY <1>1, <1>2, Induct
<1>4. QED
  BY <1>3 DEF Picks

LEMMA OfPicks ==
  ASSUME NEW l, NEW seq \in Seq(Datagrams)
  PROVE  \E f : Picks(l, seq, f) /\ Of(l, seq) = f[Len(seq)]
<1> DEFINE f == CHOOSE f : f = [n \in 0..Len(seq) |-> 
                 IF n = 0 THEN <<>>
    ELSE IF seq[n].from = l THEN Append(f[n - 1], seq[n]) ELSE f[n - 1]]
<1>1. Of(l, seq) = f[Len(seq)]
  BY DEF Of
<1>2. f = CHOOSE g : Picks(l, seq, g)
  BY DEF Picks, Rest, Pick
<1>3. Picks(l, seq, CHOOSE g : Picks(l, seq, g))
  BY PicksExist
<1>4. QED
  BY <1>1, <1>2, <1>3

LEMMA PicksValue ==
  ASSUME NEW l, NEW seq \in Seq(Datagrams), NEW f, Picks(l, seq, f)
  PROVE  /\ f[0] = <<>>
         /\ \A n \in 0..(Len(seq) - 1) :
               f[n + 1] = Pick(l, f[n], seq[n + 1])
<1>1. \A n \in 0..Len(seq) : f[n] = Rest(l, seq, f, n)
  BY DEF Picks
<1>2. f[0] = <<>>
  <2>1. 0 \in 0..Len(seq)
    OBVIOUS
  <2>2. f[0] = Rest(l, seq, f, 0)
    BY <1>1, <2>1
  <2>3. QED
    BY <2>2 DEF Rest
<1>3. ASSUME NEW n \in 0..(Len(seq) - 1)
      PROVE  f[n + 1] = Pick(l, f[n], seq[n + 1])
  <2>1. n + 1 \in 0..Len(seq) /\ n + 1 # 0 /\ (n + 1) - 1 = n
    OBVIOUS
  <2>2. QED
    BY <1>1, <2>1 DEF Rest
<1>4. QED
  BY <1>2, <1>3

LEMMA PicksType ==
  ASSUME NEW l, NEW seq \in Seq(Datagrams), NEW f, Picks(l, seq, f)
  PROVE  \A n \in 0..Len(seq) : f[n] \in Seq(Datagrams) /\ Len(f[n]) <= n
<1>0. \A n \in 0..(Len(seq) - 1) : f[n + 1] = Pick(l, f[n], seq[n + 1])
  BY PicksValue
<1> DEFINE S == {n \in Nat : n <= Len(seq) => f[n] \in Seq(Datagrams) /\ Len(f[n]) <= n}
<1>1. 0 \in S
  <2>1. f[0] = <<>>
    BY PicksValue
  <2>2. <<>> \in Seq(Datagrams) /\ Len(<<>>) <= 0
    OBVIOUS
  <2>3. QED
    BY <2>1, <2>2
<1>2. ASSUME NEW n \in Nat, n \in S PROVE n + 1 \in S
  <2> SUFFICES ASSUME n + 1 <= Len(seq)
               PROVE  f[n + 1] \in Seq(Datagrams) /\ Len(f[n + 1]) <= n + 1
    OBVIOUS
  <2>1. /\ f[n] \in Seq(Datagrams) /\ Len(f[n]) <= n /\ seq[n + 1] \in Datagrams
        /\ n \in 0..(Len(seq) - 1)
    BY <1>2
  <2>2. f[n + 1] = Pick(l, f[n], seq[n + 1])
    BY <1>0, <2>1
  <2>3. Append(f[n], seq[n + 1]) \in Seq(Datagrams) /\ Len(Append(f[n], seq[n + 1])) = Len(f[n]) + 1
    BY <2>1
  <2>4. QED
    BY <2>1, <2>2, <2>3 DEF Pick
<1>3. Nat \subseteq S
  <2> HIDE DEF S
  <2>1. QED
    BY <1>1, <1>2, Induct
<1>4. QED
  BY <1>3

\* What came from l is a sequence of datagrams, no longer than the whole.
LEMMA OfType ==
  ASSUME NEW l, NEW seq \in Seq(Datagrams)
  PROVE  Of(l, seq) \in Seq(Datagrams) /\ Len(Of(l, seq)) <= Len(seq)
<1>1. PICK f : Picks(l, seq, f) /\ Of(l, seq) = f[Len(seq)]
  BY OfPicks
<1>2. Len(seq) \in 0..Len(seq)
  OBVIOUS
<1>3. QED
  BY <1>1, <1>2, PicksType

LEMMA OfEmpty == ASSUME NEW l PROVE Of(l, <<>>) = <<>>
<1>1. <<>> \in Seq(Datagrams) /\ Len(<<>>) = 0
  OBVIOUS
<1>2. PICK f : Picks(l, <<>>, f) /\ Of(l, <<>>) = f[Len(<<>>)]
  BY <1>1, OfPicks
<1>3. f[0] = <<>>
  BY <1>1, <1>2, PicksValue
<1>4. QED
  BY <1>1, <1>2, <1>3

\* A datagram at the end is seen only by its own queue.
LEMMA OfAppend ==
  ASSUME NEW l, NEW seq \in Seq(Datagrams), NEW d \in Datagrams
  PROVE  Of(l, Append(seq, d)) = IF d.from = l THEN Append(Of(l, seq), d) ELSE Of(l, seq)
<1> DEFINE all == Append(seq, d)
<1>1. /\ all \in Seq(Datagrams) /\ Len(all) = Len(seq) + 1 /\ all[Len(seq) + 1] = d
      /\ \A n \in 1..Len(seq) : all[n] = seq[n]
  OBVIOUS
<1> HIDE DEF all
<1>2. PICK f : Picks(l, seq, f) /\ Of(l, seq) = f[Len(seq)]
  BY OfPicks
<1>3. PICK g : Picks(l, all, g) /\ Of(l, all) = g[Len(all)]
  BY <1>1, OfPicks
<1> DEFINE S == {n \in Nat : n <= Len(seq) => g[n] = f[n]}
<1>4. 0 \in S
  BY <1>1, <1>2, <1>3, PicksValue
<1>5. ASSUME NEW n \in Nat, n \in S PROVE n + 1 \in S
  <2> SUFFICES ASSUME n + 1 <= Len(seq) PROVE g[n + 1] = f[n + 1]
    OBVIOUS
  <2>1. /\ n \in 0..(Len(seq) - 1) /\ n \in 0..(Len(all) - 1)
        /\ g[n] = f[n] /\ all[n + 1] = seq[n + 1]
    BY <1>1, <1>5
  <2>2. f[n + 1] = Pick(l, f[n], seq[n + 1])
    BY <1>2, <2>1, PicksValue
  <2>3. g[n + 1] = Pick(l, g[n], all[n + 1])
    BY <1>1, <1>3, <2>1, PicksValue
  <2>4. QED
    BY <2>1, <2>2, <2>3
<1>6. Nat \subseteq S
  <2> HIDE DEF S
  <2>1. QED
    BY <1>4, <1>5, Induct
<1>7. g[Len(seq)] = f[Len(seq)] /\ Len(seq) \in 0..(Len(all) - 1)
  BY <1>1, <1>6
<1>8. g[Len(seq) + 1] = Pick(l, g[Len(seq)], all[Len(seq) + 1])
  BY <1>1, <1>3, <1>7, PicksValue
<1>9. QED
  BY <1>1, <1>2, <1>3, <1>7, <1>8 DEF all, Pick

LEMMA ConcatAppend ==
  ASSUME NEW s \in Seq(Datagrams), NEW t \in Seq(Datagrams), NEW d \in Datagrams
  PROVE  Append(s \o t, d) = s \o Append(t, d)
OBVIOUS

\* Nor is one that leaves at the front missed by another queue.
LEMMA OfTail ==
  ASSUME NEW l, NEW seq \in Seq(Datagrams), seq # <<>>
  PROVE  Of(l, seq) = Pick(l, <<>>, Head(seq)) \o Of(l, Tail(seq))
<1> DEFINE rest == Tail(seq)
           first == Pick(l, <<>>, Head(seq))
<1>1. /\ rest \in Seq(Datagrams) /\ Len(seq) = Len(rest) + 1 /\ Head(seq) \in Datagrams
      /\ Head(seq) = seq[1] /\ \A n \in 1..Len(rest) : rest[n] = seq[n + 1]
      /\ first \in Seq(Datagrams)
  BY DEF Pick
<1> HIDE DEF rest, first
<1>2. PICK f : Picks(l, seq, f) /\ Of(l, seq) = f[Len(seq)]
  BY OfPicks
<1>3. PICK g : Picks(l, rest, g) /\ Of(l, rest) = g[Len(rest)]
  BY <1>1, OfPicks
<1> DEFINE S == {n \in Nat : n <= Len(rest) => f[n + 1] = first \o g[n]}
<1>4a. \A n \in 0..(Len(seq) - 1) : f[n + 1] = Pick(l, f[n], seq[n + 1])
  BY <1>2, PicksValue
<1>4. 0 \in S
  <2>1. g[0] = <<>> /\ f[0] = <<>>
    BY <1>1, <1>2, <1>3, PicksValue
  <2>2. 0 \in 0..(Len(seq) - 1) /\ seq[0 + 1] = Head(seq)
    BY <1>1
  <2>3. f[0 + 1] = Pick(l, <<>>, Head(seq))
    BY <1>4a, <2>1, <2>2
  <2>4. Pick(l, <<>>, Head(seq)) = first /\ first \o <<>> = first
    BY <1>1 DEF first
  <2>5. f[0 + 1] = first \o g[0]
    BY <2>1, <2>3, <2>4
  <2>6. QED
    BY <2>5
<1>5. ASSUME NEW n \in Nat, n \in S PROVE n + 1 \in S
  <2> SUFFICES ASSUME n + 1 <= Len(rest) PROVE f[(n + 1) + 1] = first \o g[n + 1]
    OBVIOUS
  <2>1. /\ n \in 0..(Len(rest) - 1) /\ n \in 0..Len(rest) /\ n + 1 \in 0..(Len(seq) - 1)
        /\ f[n + 1] = first \o g[n] /\ rest[n + 1] = seq[(n + 1) + 1]
        /\ rest[n + 1] \in Datagrams
    BY <1>1, <1>5
  <2>2. g[n] \in Seq(Datagrams)
    BY <1>1, <1>3, <2>1, PicksType
  <2>3. g[n + 1] = Pick(l, g[n], rest[n + 1])
    BY <1>1, <1>3, <2>1, PicksValue
  <2>4. f[(n + 1) + 1] = Pick(l, f[n + 1], seq[(n + 1) + 1])
    BY <1>4a, <2>1
  <2>5. Append(first \o g[n], rest[n + 1]) = first \o Append(g[n], rest[n + 1])
    BY <1>1, <2>1, <2>2, ConcatAppend
  <2>6. QED
    BY <2>1, <2>3, <2>4, <2>5 DEF Pick
<1>6. Nat \subseteq S
  <2> HIDE DEF S
  <2>1. QED
    BY <1>4, <1>5, Induct
<1>7. f[Len(rest) + 1] = first \o g[Len(rest)]
  BY <1>1, <1>6
<1>8. g[Len(rest)] \in Seq(Datagrams)
  BY <1>1, <1>3, PicksType
<1>9. QED
  BY <1>1, <1>2, <1>3, <1>7, <1>8 DEF rest, first

-----------------------------------------------------------------------------
(* The receive path implements DatagramQueues                              *)

\* The queue of a subsession, as the refinement maps it.
Waiting(l) == Of(l, recvChan) \o InHand(l)

LEMMA QueuesInit == Init => Queues!Init
<1>1. ASSUME Init, NEW l \in Loops PROVE Waiting(l) = <<>>
  BY <1>1, OfEmpty DEF Init, Waiting, InHand, Empty
<1>2. QED
  BY <1>1 DEF Init, Queues!Init, Waiting

\* A step that leaves queues, history and flag alone is a stutter.
LEMMA QueuesStutter ==
  ASSUME \A l \in Loops : Waiting(l)' = Waiting(l), got' = got, closed' = closed
  PROVE  UNCHANGED Queues!vars
<1>1. [l \in Loops |-> Waiting(l)]' = [l \in Loops |-> Waiting(l)]
  OBVIOUS
<1>2. QED
  BY <1>1 DEF Queues!vars, Waiting

\* What a loop has in hand and has not handed to the sender.
LEMMA InHandIs ==
  ASSUME TypeInv, NEW l \in Loops
  PROVE  /\ InHand(l) \in Seq(Datagrams) /\ Waiting(l) \in Seq(Datagrams)
         /\ loop[l] \notin {"handle", "send"} => InHand(l) = <<>>
         /\ loop[l] = "send" => InHand(l) = <<Current(l)>> /\ Current(l) \in Datagrams
<1> USE DEF TypeInv, TypeOK, LoopInv
<1>1. loop[l] \in {"handle", "send"} => Current(l) \in Datagrams
  BY DEF Current, Datagrams
<1>2. InHand(l) \in Seq(Datagrams)
  BY <1>1 DEF InHand
<1>3. Waiting(l) \in Seq(Datagrams)
  BY <1>2, OfType DEF Waiting
<1>4. loop[l] = "send" => hand[l] \notin {Empty, "ackResponse"}
  BY DEF Kinds, Empty
<1>5. QED
  BY <1>1, <1>2, <1>3, <1>4 DEF InHand, Empty

LEMMA LastOfAppend ==
  ASSUME NEW seq \in Seq(Datagrams), NEW d \in Datagrams
  PROVE  Append(seq, d) # <<>> /\ Queues!Last(Append(seq, d)) = d
BY DEF Queues!Last

LEMMA QueuesReceive ==
  ASSUME CloseInv, NEW l \in Loops, NEW k \in Kinds, Receive(l, k)
  PROVE  [Queues!Next]_(Queues!vars)
<1> USE DEF CloseInv, TypeInv, TypeOK, LoopInv
<1>1. /\ UNCHANGED <<recvChan, got, closed>> /\ loop[l] = "receive"
      /\ hand'[l] = k /\ \A m \in Loops \ {l} : hand'[m] = hand[m] /\ arrived'[m] = arrived[m]
  BY DEF Receive
<1>2. InHand(l) = <<>> /\ Waiting(l) = Of(l, recvChan)
  <2>1. InHand(l) = <<>> /\ Of(l, recvChan) \in Seq(Datagrams)
    BY <1>1, InHandIs, OfType
  <2>2. QED
    BY <2>1 DEF Waiting
<1>3. ASSUME NEW m \in Loops \ {l} PROVE Waiting(m)' = Waiting(m)
  BY <1>1, <1>3 DEF Waiting, InHand, Current
<1>4. CASE k = "ackResponse"
  <2>1. Waiting(l)' = Waiting(l)
    BY <1>1, <1>2, <1>4, OfType DEF Waiting, InHand
  <2>2. QED
    BY <1>1, <1>3, <2>1, QueuesStutter
<1>5. CASE k # "ackResponse"
  <2>1. InHand(l)' = <<Current(l)'>>
    BY <1>1, <1>5 DEF InHand, Kinds, Empty
  <2>2. Current(l)' \in Datagrams
    BY TypeStep, InHandIs, SizeAssumption DEF Receive, Current, Datagrams, Loops
  <2>3. Waiting(l)' = Append(Waiting(l), Current(l)')
    BY <1>1, <1>2, <2>1, <2>2, OfType DEF Waiting
  <2>4. Len(Waiting(l)) < RecvChanBufferSize + 1
    BY <1>2, OfType, SizeAssumption
  <2>5. [m \in Loops |-> Waiting(m)]' =
           [[m \in Loops |-> Waiting(m)] EXCEPT ![l] = Append(@, Current(l)')]
    BY <1>3, <2>3
  <2>6. Waiting(l)' # <<>> /\ Queues!Last(Waiting(l)') = Current(l)'
    <3>1. Waiting(l) \in Seq(Datagrams)
      BY InHandIs
    <3>2. QED
      BY <2>2, <2>3, <3>1, LastOfAppend
  <2>7. Queues!Accept(l)
    BY <1>1, <2>2, <2>4, <2>5, <2>6 DEF Queues!Accept, Waiting
  <2>8. QED
    BY <2>7 DEF Queues!Next
<1>6. QED
  BY <1>4, <1>5

LEMMA QueuesForward ==
  ASSUME CloseInv, NEW l \in Loops, Forward(l)
  PROVE  UNCHANGED Queues!vars
<1> USE DEF CloseInv, TypeInv, TypeOK, LoopInv
<1>1. /\ UNCHANGED <<arrived, got, closed>> /\ loop[l] = "send" /\ hand'[l] = Empty
      /\ recvChan' = Append(recvChan, Current(l))
      /\ \A m \in Loops \ {l} : hand'[m] = hand[m]
  BY DEF Forward
<1>2. InHand(l) = <<Current(l)>> /\ Current(l) \in Datagrams /\ InHand(l)' = <<>>
  BY <1>1, InHandIs DEF InHand
<1>3. Current(l).from = l
  BY DEF Current
<1>4. Waiting(l)' = Waiting(l)
  <2>1. Of(l, recvChan)' = Append(Of(l, recvChan), Current(l))
    BY <1>1, <1>2, <1>3, OfAppend
  <2>2. Of(l, recvChan) \in Seq(Datagrams)
    BY OfType
  <2>3. QED
    BY <1>2, <2>1, <2>2 DEF Waiting
<1>5. ASSUME NEW m \in Loops \ {l} PROVE Waiting(m)' = Waiting(m)
  <2>1. InHand(m)' = InHand(m)
    BY <1>1 DEF InHand, Current
  <2>2. Of(m, recvChan') = Of(m, recvChan)
    BY <1>1, <1>2, <1>3, OfAppend
  <2>3. QED
    BY <2>1, <2>2 DEF Waiting
<1>6. QED
  BY <1>1, <1>4, <1>5, QueuesStutter

LEMMA QueuesGiveUp ==
  ASSUME CloseInv, NEW l \in Loops, GiveUp(l)
  PROVE  Queues!Next
<1> USE DEF CloseInv, TypeInv, TypeOK, LoopInv
<1>1. /\ UNCHANGED <<recvChan, arrived, got, closed>> /\ loop[l] = "send" /\ hand'[l] = Empty
      /\ \A m \in Loops \ {l} : hand'[m] = hand[m]
  BY DEF GiveUp
<1>2. InHand(l) = <<Current(l)>> /\ Current(l) \in Datagrams /\ InHand(l)' = <<>>
  BY <1>1, InHandIs DEF InHand
<1>3. closed
  BY DEF GiveUp, Stopped, OneCloser
<1>4. /\ Waiting(l) = Append(Of(l, recvChan), Current(l)) /\ Waiting(l)' = Of(l, recvChan)
      /\ Of(l, recvChan) \in Seq(Datagrams)
  BY <1>1, <1>2, OfType DEF Waiting
<1>5. Waiting(l) # <<>> /\ Waiting(l)' = Queues!Front(Waiting(l))
  BY <1>2, <1>4 DEF Queues!Front
<1>6. ASSUME NEW m \in Loops \ {l} PROVE Waiting(m)' = Waiting(m)
  BY <1>1, <1>6 DEF Waiting, InHand, Current
<1>7. [m \in Loops |-> Waiting(m)]' =
         [[m \in Loops |-> Waiting(m)] EXCEPT ![l] = Queues!Front(@)]
  BY <1>5, <1>6
<1>8. Queues!GiveUp(l)
  BY <1>1, <1>3, <1>5, <1>7 DEF Queues!GiveUp, Waiting
<1>9. QED
  BY <1>8 DEF Queues!Next

LEMMA QueuesTake ==
  ASSUME CloseInv, NEW r \in Readers, Take(r)
  PROVE  Queues!Next
<1> USE DEF CloseInv, TypeInv, TypeOK
<1>1. /\ recvChan # <<>> /\ recvChan' = Tail(recvChan) /\ UNCHANGED <<hand, arrived, closed>>
      /\ Head(recvChan) \in Datagrams /\ Tail(recvChan) \in Seq(Datagrams)
  BY DEF Take
<1>2. PICK l \in Loops : l = Head(recvChan).from
  BY <1>1 DEF Datagrams
<1>3. \A m \in Loops : InHand(m)' = InHand(m) /\ InHand(m) \in Seq(Datagrams)
  BY <1>1, InHandIs DEF InHand, Current
<1>4. ASSUME NEW m \in Loops \ {l} PROVE Waiting(m)' = Waiting(m)
  <2>1. Of(m, recvChan) = <<>> \o Of(m, Tail(recvChan))
    BY <1>1, <1>2, OfTail DEF Pick
  <2>2. Of(m, recvChan) = Of(m, Tail(recvChan))
    BY <1>1, <2>1, OfType
  <2>3. QED
    BY <1>1, <1>3, <2>2 DEF Waiting
<1>5. /\ Waiting(l) # <<>> /\ Head(Waiting(l)) = Head(recvChan)
      /\ Waiting(l)' = Tail(Waiting(l))
  <2>1. Of(l, recvChan) = <<Head(recvChan)>> \o Of(l, Tail(recvChan))
    BY <1>1, <1>2, OfTail DEF Pick
  <2>2. Of(l, Tail(recvChan)) \in Seq(Datagrams)
    BY <1>1, OfType
  <2>3. InHand(l)' = InHand(l) /\ InHand(l) \in Seq(Datagrams)
    BY <1>3
  <2>4. Waiting(l) = <<Head(recvChan)>> \o Waiting(l)'
    BY <1>1, <2>1, <2>2, <2>3 DEF Waiting
  <2>5. Waiting(l)' \in Seq(Datagrams)
    BY <1>1, <2>2, <2>3 DEF Waiting
  <2>6. QED
    BY <1>1, <2>4, <2>5
<1>6. [m \in Loops |-> Waiting(m)]' = [[m \in Loops |-> Waiting(m)] EXCEPT ![l] = Tail(@)]
  BY <1>4, <1>5
<1>7. got' = [got EXCEPT ![l] = Append(@, Head(Waiting(l)))]
  BY <1>2, <1>5 DEF Take
<1>8. Queues!Take(l)
  BY <1>1, <1>5, <1>6, <1>7 DEF Queues!Take, Waiting
<1>9. QED
  BY <1>8 DEF Queues!Next

LEMMA QueuesStep == CloseInv /\ [Next]_vars => [Queues!Next]_(Queues!vars)
<1> SUFFICES ASSUME CloseInv, [Next]_vars PROVE [Queues!Next]_(Queues!vars)
  OBVIOUS
<1>1. CASE UNCHANGED <<recvChan, hand, arrived, got, closed>>
  BY <1>1, QueuesStutter DEF Waiting, InHand, Current
<1>2. ASSUME NEW l \in Loops, Handle(l) PROVE [Queues!Next]_(Queues!vars)
  <2>1. /\ UNCHANGED <<recvChan, arrived, got, closed>>
        /\ \/ UNCHANGED hand
           \/ hand[l] = "ackResponse" /\ hand' = [hand EXCEPT ![l] = Empty]
    BY <1>2 DEF Handle
  <2>2. ASSUME NEW m \in Loops PROVE Waiting(m)' = Waiting(m)
    BY <2>1 DEF Waiting, InHand, Current, Empty, CloseInv, TypeInv, TypeOK
  <2>3. QED
    BY <2>1, <2>2, QueuesStutter
<1>3. ASSUME NEW c \in Closers, Close(c) PROVE [Queues!Next]_(Queues!vars)
  <2>1. UNCHANGED <<recvChan, hand, arrived, got>> /\ closed'
    BY <1>3 DEF Close, traffic
  <2>2. CASE ~closed
    BY <2>1, <2>2 DEF Queues!Next, Queues!Close, InHand, Current
  <2>3. CASE closed
    BY <2>1, <2>3, <1>1 DEF CloseInv, TypeInv, TypeOK
  <2>4. QED
    BY <2>2, <2>3
<1>4. QED
  BY <1>1, <1>2, <1>3, QueuesReceive, QueuesForward, QueuesGiveUp, QueuesTake
     DEF Next, LoopGoes, ReaderGoes, LoopTop, ReceiveError, Read, TakeError, Timeout, TearDown,
         BackgroundExits, CreateDatagram2Sub, CreateDatagram3Sub, CreateDatagram3SubFails,
         vars, setup, traffic

\* What each subsession receives is read in its order, once, and given up only
\* after Close: whatever the size of recvChan and whoever reads.
THEOREM QueuesImplemented == Spec => ImplementsQueues
BY QueuesInit, QueuesStep, CloseCorrect, PTL DEF Spec, ImplementsQueues, Queues!Spec
=============================================================================
