# A formal model of onramp

onramp gives a Go program listeners and connections on I2P (through a SAM
bridge) and on Tor (through a Tor process), and keeps what they need: keys and
certificates on disk, SAM sessions, one shared Tor process, and the "hybrid"
datagram sessions that mix authenticated datagrams (datagram2) with cheap ones
(datagram3). These TLA+ modules describe the parts of it in which several
goroutines, failures, time or crashes meet. TLC checks them on small instances
and TLAPS proves some of the results for every value of the constants.

To run a check or a proof, in this directory:

    tlc -config Hybrid2Link.cfg Hybrid2Link
    tlapm Hybrid2LinkProofs.tla

## 1. Inventory

| Component | Code | State | Operations | Modelled in |
|---|---|---|---|---|
| hybrid2 sender | `hybrid2/sender.go` | per destination: Counter, LastDatagram2Time, sequence numbers, unacknowledged datagrams, RTT | SendDatagram, SendDatagramTimeout, ForceDatagram2, processAck, cleanupStaleUnacked | `Hybrid2Sender` |
| hybrid2 receiver | `hybrid2/receiver.go` | hash table: sender hash to Destination and LastRefresh | the two receive loops, RegisterSender, LookupSender, SAM lookup, cleanup | `Hybrid2Receiver`, `Hybrid2Link` |
| hybrid2 session | `hybrid2/session.go`, `receiver.go` | two subsessions, recvChan, stop channels, closed flag | NewHybridSession, ReceiveDatagram, Close, WaitForClose | `Hybrid2Session`, `DatagramQueues` |
| shared Tor process | `onion.go` | torp, torpRefs, hasRef of every Onion | getTor, Close | `TorShared`, `SharedService` |
| Garlic instance | `garlic.go` | SAM, primary, three subsession fields, streamSubsByPort | the set-ups, Dial and Listen, Close | `GarlicSession` |
| key stores, TLS | `onion.go`, `garlic.go`, `tls.go`, `common.go` | key and certificate files | TorKeys, i2pKeys, TLSKeys, deletions | `KeyStore` |
| package registries | `garlic.go`, `onion.go`, `common.go` | maps garlics and onions, default dialers, their mutexes | ListenGarlic, DialGarlic, ListenOnion, DialOnion, Close and CloseAll of both | `ManagedGarlic`, `OnionRegistry` |
| automatic cleanup | `cleanup.go` | registry of instances, hooks, signal handler | EnableAutoCleanup, unregister, signalHandler, cleanupAll, finalizer | `ManagedGarlic` |
| hybrid1 | `hybrid1/` | one subsession, recvChan, recvErrChan, stop channel, closed flag | NewHybrid1Session, receiveLoop, the readers, cleanupLoop, Close | `Hybrid1Session`, `DatagramQueues` |
| session integration | `hybrid1/integration.go`, `hybrid2/integration.go`, `internal/hybridcommon` | managed SAM and PRIMARY resources | the four constructors, CloseManagedResources | `Hybrid1Session` |
| embedded bridge | `garlic_sam_embed.go` | none of its own | start and wait for a port | no |
| proxy | `proxy.go` | none of its own | two copies per connection | no |
| helpers | `garlic_config.go`, `gen.go`, `nullconn.go` | constants | | no |

How they interact. An application calls a `Garlic` or an `Onion`, directly or
through a registry. A Garlic opens a SAM connection, on it one PRIMARY session
and on that the subsessions: stream, port-specific stream, and the two hybrid
sessions, which get their subsessions from the PRIMARY session and run
goroutines of their own (two receive loops, two cleanup tickers). An Onion
shares the package's one Tor process with all others. Both ask the key store for
their identity, and for TLS listeners the certificate of the host name that the
identity gives them. The sender state of one program and the receiver state of
another interact over the network only: the receiver registers the hash of
whoever sent a datagram2 and answers with an ACK, and a datagram3 carries that
hash alone.

What is hard, and what makes each part correct:

- *hybrid2 sender.* Decision, numbering, ACK request, tracking, sending and
  counting are separate critical sections of one call, so calls to one
  destination interleave between them, sends fail in the middle, and ACKs arrive
  in any order. Correct: a datagram2 precedes every datagram3, numbers are unique,
  every request is settled, acknowledgements never go back.
- *hybrid2 receiver.* Entries expire while datagrams are under way. Correct: a
  sender whose datagram2 were acknowledged is found when its datagram3 arrives.
- *hybrid2 session.* A full channel, several closers, four goroutines to stop.
  Correct: nothing is lost or reordered before Close, one tear-down, which ends.
- *shared Tor process.* A count kept under two mutexes taken one after the other,
  with starts and stops that fail. Correct: the count is the number of holders.
- *Garlic instance.* Lazy creation without locks, failing at every step. Correct:
  no open session is forgotten, none that is gone is found.
- *key stores, TLS.* Files created empty and written later, looked for by a Stat that
  may fail, read back as something else. Correct: one identity and one certificate,
  across failures and crashes, as far as the code keeps them (section 4).
- *registries.* Check-then-act on the maps, entries that are replaced, mutexes held
  while SAM answers. Correct: what is open can be found and closed, what is found
  is open, one shared dialer, no call waits for ever.
- *automatic cleanup.* A signal closes instances while the application opens and
  closes them, and Garlic.Close has no lock. Correct: every open instance is
  covered, and what was covered at the signal is closed at the end.
- *hybrid1, integration.* Construction that fails half way, Close called on the
  session and on the integration, sessions that were lent. Correct: what the
  constructor opened is closed and nothing else, and closing ends.

`PROJECT.json` lists the hazards line by line.

## 2. The modules

Each action stands for one critical section, or one step between two calls
that block. Function names are kept as action names where there is one action
per function, and `PROJECT.json` ("map") gives the lines of every definition.

**Hybrid2Sender** is the `SenderState` of one destination; destinations do not
interact. Every method takes the mutex for its own duration, so a `SendDatagram`
is: `SendDatagram` (the entry) - `Decide` - `MarkDatagram2Sent` -
`RequestAck` - `TrackUnacked` - `SendDatagram2` - `IncrementCounter`, or
`SendDatagram3` in place of the middle. A timed send is the same goroutine,
which goes on after its caller got `ErrTimeout`. Times are ages, because the
code only compares `time.Since`. Histories (`gap`, `sinceWire`, `requested`,
`expired`) record what was really sent and what was given up.

**Hybrid2Receiver** is one entry of the hash table and the two loops that touch
it. **Hybrid2Link** composes both over a network: `flight` is a set of datagrams
of which any may be lost, delivered late (within `MaxDelay`), repeated or
overtaken; ACK responses stay deliverable for ever. `MaxDelay` counts from the
sending to the moment a loop takes the datagram, so it includes the wait for a loop
that is held up by a full `recvChan`. Application data that looks
like an ACK message is excluded (the code tells them apart by a marker byte,
sender.go:238-260; see section 6).

**Hybrid2Session** is the life of a session from construction to Close: loops,
`recvChan` with its capacity, readers with and without a timeout, closers.
`DatagramQueues` is what its receive path promises: one bounded FIFO queue per
subsession. The capacity there is `RecvChanBufferSize + 1`, since each loop
holds one datagram while it waits for room in the channel. Close ignores the errors of
the subsessions; `unclosed` is what refused to close and is open still.

**TorShared** is `getTor` and `Onion.Close`, each split where one mutex is
released and the other taken. `SharedService` is the promise of the comment at
onion.go:228: the process runs while somebody holds it.

**OnionRegistry** is the map `onions` over TorShared, whose actions are part of its
own: ListenOnion, DialOnion, CloseOnion and CloseAllOnion decide which goroutine
works on which Onion. `Overlap` says whether calls about one name may overlap. With
`Overlap` FALSE, calls of one Onion do not overlap either (`OneCallEach`), which is
proved; with TRUE they do.

**ManagedGarlic** is the map `garlics`, the shared dialer and the registry of
cleanup.go, each with its mutex, and the goroutine of `signalHandler` beside those of
the application. A Garlic is a number here, open while its SAM connection is
(GarlicSession has what is on it). `Garlic.Close` is two steps, taking the instance
off the registry and closing it; of two that overlap on one instance the second may
find a field nil that it had found set, and `Panic` is what then may happen.

**Hybrid1Session** is the hybrid1 session with the SAM connection and the PRIMARY
session under it: the construction step by step, in each of the four ways there are
(`way`), the loops and readers, and Close called on the session and on the
integration by several goroutines. `Lent` is what the caller of a constructor brings,
`unclosed` what returned an error when it was told to close.

**GarlicSession** is the chain samSession - setupPrimarySession - subsession,
every step of which can fail, the double assignment of the result by every
caller, and Close with its order of closing and clearing. Closing the PRIMARY session closes what
is on it (`Family`), and closing a hybrid session that is not there closes nothing. Only
`streamSubsMu` orders callers; `Overlapping` names the calls allowed to run at
the same time, and the run allows those that reach the set-up through the mutex.

**KeyStore** has the files as they are on disk (absent, empty, written in part,
or holding the key with number n), a caller that looks for them, creates, writes and
reads them, and `Crash`, `Fails` and deletions that stop half way. An identity is what
comes of a key (`Reading`): for I2P the key that was stored; for Tor another one
(`Derived`), because TorKeys stores bine's expanded key (onion.go:336) and reads it as a
key in Go's form (349), whose first half is hashed again; and of the part of a key, as
far as it is taken for one, the identity `Cut`. A Stat that fails on a file that is
there is an input (`statFails`); the histories `blind` and `broken` record that one did,
and that a call ended between certificate and private key.

## 3. The runs

| Run | Question | States |
|---|---|---|
| `sender` | Two goroutines send, by `SendDatagram` and `ForceDatagram2`, with failures, arbitrary ACKs and Close | 279 000 |
| `link` | The same sender against a receiver, over the network | 226 000 |
| `session` | Construction, three datagrams through a channel of one place, a reader with a timeout, two closers, a datagram2 subsession that may not close | 530 000 |
| `tor_shared` | Two goroutines, two names, three Onions, failing starts and stops, replacement | 546 000 |
| `garlic_session` | Overlapping port-specific dials, other calls, Close, everything fails | 1 686 000 |
| `keystore` | One caller, two kinds of store, three keys, Stat fails, crashes anywhere | 136 000 |
| `managers` | Two goroutines and the signal handler, every call of the package, a Close that fails | 322 000 |
| `hybrid1` | A session on its own or in a managed integration, three datagrams, two readers, two closers, each close may fail | 130 000 |
| `fresh_identity`, `reader_after_close`, `tor_dial_shared`, `integration_close` | A sentence of the documentation that the code does not keep | first counterexample |

Properties of the passing runs, besides the type invariants:

- `sender`. *FirstIsAuthenticated*: no datagram3 before a datagram2 has really
  left. *SequenceNumbers*: unique, and bounded by what was handed out.
  *AckAccounting*: each request is tracked, acknowledged or given up.
  *AcksGoForward* (action property). *EventuallySettled* (liveness).
- `link`. *AckedWasReceived*: an acknowledgement means that the receiver
  registered the sender. *ResolvesOnceAcked*: a datagram3 sent after everything
  was acknowledged finds its source.
- `session`. *OneTeardown*: no channel is closed twice. *DoneMeansTornDown*:
  WaitForClose returns when nothing is left, and a session that could not be built
  holds nothing, but for a subsession whose own Close failed. *ImplementsQueues*
  (refinement). *ShutdownCompletes* (liveness): after such a failure the datagram2 loop
  may stay in its receive, everything else comes to rest.
- `tor_shared`, where calls about one name do not overlap (`Overlap` is FALSE, so the
  double count of `tor_dial_shared` is outside it). *RefsMatchHolders*, *UsedIsOpen*,
  *NoTorLeft*, *NothingForgotten*: an Onion that keeps Tor running is in the map, unless another took its name there.
  *ImplementsService* (refinement).
- `garlic_session`. *NothingLost*, *ReferencesCurrent*, *NilNeverUsed*, and
  *StaysClosed* (action property: Close leaves the closed SAM connection in the
  field, so a closed instance never opens anything again). Close never overlaps another
  call in this run, so the nil it could leave to one is outside *NilNeverUsed*.
- `keystore`. *OneIdentity*: calls return no identity but the key on disk and the one
  TorKeys reads from it, until a deletion or a failing Stat of i2pKeys.
  *OneCertificate*: one certificate for a host until a deletion or a failing Stat.
  *PairsMatch*: a certificate stands beside the key of another only after one of these
  and a call that ended between the two files; one mishap alone is repaired.
- `managers`. *CoveredByCleanup*: every open instance would be found by a signal that
  comes now, replaced or not. *ExitClosed*: what the signal found is closed when the
  program ends, even if some could not be. *OneDialer*, *ManagedKnown*: whatever the
  package opened is where its Close functions look, but for what was replaced.
  *FoundIsOpen*: what the next call finds is open. *EveryCallReturns* (liveness),
  where the wait of ListenGarlic and DialGarlic for their first mutex counts as idle.
- `hybrid1`. *Ownership*: what a constructor opened is closed with its failure or with
  Close, unless it refused to close itself, what was lent never is. The run has the ways
  "direct" and "managed"; "fromSAM" violates it (section 4). *ImplementsQueues*
  (refinement). *ShutdownCompletes* (liveness), which says nothing of a waiting reader.

**Bounds, and why they are enough.** `MaxCalls` = 3 with two goroutines lets both
be in one call, and one of them in a second one, which is every overlap that two
callers of a per-destination state have. The intervals are scaled so that each
trigger fires alone and together with the others: in `sender` the counter
trigger (`RepliableInterval` 2) and the clock trigger (1 tick), in `link` the
time trigger only, with expiry as tight as the assumption on the delay allows.
`AgeLimit` is above every constant that an age is compared with, so a larger age
behaves the same. A channel with one place is full when it holds one datagram,
and three datagrams fill it and both loops. Of the two hybrid1 readers one waits
with a deadline and one reads the integration directly; two closers allow each
order of session and integration. Three Onions and two names give a count of 2,
which is needed to tell "last" from "not last", and an Onion that replaces another.
In `managers` two instances of one name, or one and the dialer, are all that two
goroutines can race for; the handler is a third goroutine that closes. Six
sessions allow a connection, a PRIMARY session and four subsessions to be
open together, or a second PRIMARY session after one that could not be created;
the proofs have no such bound. Three generated
keys are an identity and two certificates, or two identities and a certificate. One
subsession that may not close is enough in `session`: nothing waits for the other.
Three further bounds
only cut off what repeats: `MaxRefs`, `MaxDatagrams` and `MaxDelay`. `MaxMade` ends
the creation of instances, so a call that would create one more fails.

**Fairness.** `sender`: the clock moves and the ACK cleanup ticker fires while the
session is open (`session.go`, ackCleanupLoop). Nothing obliges goroutines to call
or the peer to acknowledge. `session`: weak fairness of every goroutine that can
go on, which the Go scheduler provides: the loops (not the arrival of datagrams),
readers once they wait, the closer that tears down, the cleanup goroutines. A
receive on a closed subsession returns an error. Nothing obliges the network to
deliver, the application to read or anybody to call Close. `hybrid1`: the same for its
loops, waiting readers and calls of Close. `managers`: weak fairness of a call that has
begun (SAM answers or fails in the end) and of the clean-up, and strong fairness of
the steps that take a mutex, because a Go mutex lets nobody who waits starve. Nobody
has to call, and no signal has to come. The other runs check safety only.

Deadlock is checked where the system cannot stop. `Hybrid2Session` and
`Hybrid1Session` stop when they are closed or could not be built, `GarlicSession` stops
where the program would block for ever or panic, `ManagedGarlic` stops with the
program, and `OnionRegistry` stops when its goroutines wait with no Onion left to make
(`Onions` is a bound). Those five turn the check off; *EveryCallReturns* is what
excludes a deadlock of the mutexes in `managers`.

## 4. Where the code and its documentation differ

1. `fresh_identity`: sender.go:53 says that the time trigger keeps mappings from
   expiring. The time is set before the send, and a send that fails leaves it set:
   the next interval goes by on datagram3 and the receiver forgets the sender. Without
   failures it takes two goroutines: one sets the time, and before it has sent, the
   other, seeing a recent datagram2, chooses datagram3 (`Hybrid2Sender` with two
   `Threads` and SendMayFail = FALSE). With one goroutine and no failures the sentence
   is true: theorem `FreshWhenAlone`.
2. `reader_after_close`: session.go:177 says that after Close all operations
   return ErrSessionClosed. A ReceiveDatagram that already waits is never woken.
3. `tor_dial_shared`: onion.go:95 says that an Onion counts once. `alreadyHasRef`
   is read before torpMu is taken; a ListenOnion and a DialOnion of one name, or two
   DialOnion, that work on one Onion at once count twice, and its Close leaves Tor
   running. Under such an overlap *UsedIsOpen*, *NoTorLeft* and *NothingForgotten* can
   fail as well.
4. `integration_close`: hybridcommon/integration.go:90 says that owned resources are
   closed, and a nil `sam` stands for "not owned". The integration passes its nil
   `*sam3.SAM` as an `io.Closer`, which is then not nil: closing an integration made by
   `NewGarlicIntegrationFromPrimary` closes the PRIMARY session of the application, and
   `sam.Close` is called on a nil pointer. hybrid2/integration.go:127 is the same.

Seen while modelling, and not the subject of a run:

- doc.go:22 of hybrid2 says that every 500th message uses datagram2. The decision
  (sender.go:278) and the count (305) are separate, so two goroutines that both decide
  first carry the counter past the multiple, and an interval passes without one.
- `NewHybrid1SessionFromSAM` opens a PRIMARY session that only the returned session
  refers to, and its Close (session.go:217) closes the subsession alone: with
  `Ways` = {"fromSAM"}, *Ownership* is violated.
- A hybrid1 reader that waits when Close is called is not woken either, and
  `GarlicIntegration.ReceiveDatagram` (integration.go:165) does not look at the closed
  flag: called after Close it waits for ever.
- A Garlic that is registered after `cleanupAll` took its copy is not closed before
  the signal is sent again.
- Two overlapping Close of one Garlic, say by the handler and by the application, may
  panic: both find a field set, one clears it, the other uses it.
- `EnableAutoCleanup` stores the instance in a registry that lives as long as the
  program, so the finalizer it sets never runs while the instance is registered; the
  comment at garlic.go:859 says that Close clears the finalizer, and `unregister`
  does not.
- Two `DialGarlic` calls at once on one instance both find `primary` nil, and one
  of the two PRIMARY sessions is lost (`GarlicSession` with all goals in
  `Overlapping` violates `NothingLost`).
- The second `TorKeys` of a name returns another key pair than the first, against
  onion.go:304-306 ("If the key already exists, it will be returned"): the first call
  returns the generated pair and stores its PrivateKey(), which is bine's expanded key
  (onion.go:336), and later calls read that with FromCryptoPrivateKey (349), which expects
  seed and public key. All later calls return the same pair. An onion service made from
  the first has another address after a restart, and the TLS files of the first host name
  are not found. No test of the repository compares the two calls. *OneIdentity* in the form
  "one identity per name" is violated for Tor by two calls.
- A Stat that fails for another reason than a missing file is taken for a missing file by
  i2pKeys (garlic.go:1081) and CreateTLSCertificate (tls.go:100-102), which then write a
  new key or certificate over the good one; tls.go:88-89 says "If the keys already exist,
  generation is skipped". TorKeys returns an error (onion.go:352-355).
- A datagram2 subsession of hybrid2 that fails to close (session.go:127, the error is
  dropped) stays open, and its loop waits in `ReceiveDatagram` (receiver.go:225) until a
  datagram or an error comes, though Close and WaitForClose have returned. The loop of
  datagram3 reads from a reader that is closed as well.
- With two callers for one key name each may return an identity of its own while
  the file keeps the last one (`KeyStore` with two `Callers`).
- `TorKeys` only asks whether the file exists. An empty or cut file left by a crash is
  handed to bine as it is, by every call from then on, and panics or is returned as a key
  (onion.go:344-350 does not look at the length). `i2pKeys` finds an empty file out, not a
  cut one.
- `CreateTLSCertificate` only asks whether the `.crt` and `.pem` files exist. A
  crash after the `.pem` was created and before it was written leaves a pair that
  no later call loads or repairs. After a deletion that stopped half way, or a Stat that
  failed on a good pair, a crash between the two files leaves a new certificate beside the
  old key, which no later call loads or repairs either.
- `OldListen` asserts `*sam3.DatagramSession` of what `ListenPacket` returns
  (garlic.go:537), which is the packet connection of a hybrid session.

## 5. What is proved

TLAPS checks the proofs for every value of the constants under the assumptions
named in the modules. They use no other assumption.

**Hybrid2SenderProofs** (`IntervalAssumption`, `TimeAssumption`, `RunAssumption`).
`TypeCorrect`; the one step that is not immediate is that the smoothed RTT stays
within `AgeLimit`, which needs the division. `FirstAuthenticated` is not
inductive: `AuthInv` adds that, before the first datagram2 has left, no goroutine
is at a step that would count a message or reset the counter, for then the counter
could leave zero and the next decision choose datagram3.
`SequenceNumbersCorrect` and `AckAccountingCorrect` come from one invariant,
`LedgerInv`: a number held by a goroutine is at most `seqNum`, held by nobody
else, and tracked, acknowledged or given up only after the step that tracks it.
`AcksForward` is the action property, from the actions themselves. `FreshWhenAlone` is
what is left of the sentence that `fresh_identity` refutes: with one goroutine, sends that
fail at most because the session was closed, and RepliableTimeInterval <=
HashExpiryDuration + 1, *FreshIdentity* holds. `FreshInv` says when LastDatagram2Time may be
ahead of what has left: between the two steps, or after Close.

**Hybrid2LinkProofs** (`LinkAssumption`, `DelayAssumption`). `AckedReceived` and
`Resolves` follow from `LinkInv`: only numbers that the sender handed out travel
(`NumbersKnown`); an acknowledgement, on its way or taken, is one of a registered
datagram2 (`AcksKnown`); and (`EntryKept`) once the newest datagram2 is registered the
entry is no older than LastDatagram2Time, a datagram3 is chosen while that is younger
than RepliableTimeInterval, and one that left with everything acknowledged finds an
entry at most its own age older. `DelayAssumption` then
keeps the entry from expiring: RepliableTimeInterval + MaxDelay <=
HashExpiryDuration + 1 (the margin of config.go:15-25; the 1 is the difference
between `>=` in the trigger and `>` in isExpired). The network may lose, repeat
and reorder; what it may not do is deliver later than `MaxDelay`.
`SenderImplemented` says that at the sender's end the link does nothing that
`Hybrid2Sender` does not allow: a receiver behind a network is one of the peers that
"may acknowledge whatever it likes" there. Step by step, a step of the link is a step
of the sender or leaves the sender alone. So the invariants proved about the sender
hold in the link (`SenderSound`, and the sender's half of `TypeCorrect`), and their
step lemmas are cited, not repeated.

**Hybrid2SessionProofs** (`SizeAssumption`, `ReadersAssumption`,
`StubbornAssumption`), for any number of readers and closers. `TypeInv` adds to the types what a loop holds between the
receipt of a datagram and its place in `recvChan` (`LoopInv`). `ClosedOnce` and `TornDown`
follow from `CloseInv`: at most one closer is past the test of the closed flag, the
signals it has given are those before the step it is at (`OneCloser`), and the
subsessions are open up to the step that closes them, and after it if that failed
(`SubsOpen`).
`QueuesImplemented` is the refinement of `DatagramQueues`. There are two queues in one
channel, so what a loop's queue holds is a selection of the channel (`Of`), defined by
recursion on its length, and the proof needs four facts for sequences of any length:
the selection is a sequence of datagrams, appending a datagram of the other loop leaves
it alone, appending one of its own appends it, and taking the head takes its head or
leaves it alone. They are proved by induction in a set form (`Induct`: a set that has 0
and with n also n + 1 holds every natural number), which rests on the library's
theorem that < is well founded on Nat.

**OnionRegistryProofs, the count.** Its theorems have the form Spec /\ []OneCallEach => []P:
calls of one Onion do not overlap. It is a hypothesis of the theorems and not of the
module, as `tor_dial_shared` shows what happens without it. `CountInv` relates each
goroutine's copy of hasRef to the flag and to the count. From it: `RefsMatch`,
`UsedStaysOpen`, `NothingLeft`, and `ServiceImplemented`, the refinement of
`SharedService`, step by step.

**OnionRegistryProofs, the registry** discharges that hypothesis. `RegistryImplementsTor`: what the
package functions do is a behaviour of TorShared, without any assumption. `OneCall`:
if calls about one name do not overlap (~Overlap), calls of one Onion do not either,
because `PlaceInv` says that an Onion is in one place, the map under one name or the
hands of the goroutine that made it. So the results above hold for managed Onions
(`RegistryKeepsTor`, `RegistryImplementsService`), and `ForgetsNothing` adds the map.

**ManagedGarlicProofs** (`ManagedAssumption`), for any number of goroutines, names and
instances and without a hypothesis on what overlaps. `TypeInv` strengthens the types
by what the steps need: the instances in the map have the names they are stored
under, and only the holder of garlicsMu takes names away, so those it has yet to
close stay. `Covered` and `ClosedAtExit` follow with `ExitInv`: what the handler has
copied and is still open has yet to be closed, or is being closed, or is stuck; a
new instance has a number that the copy does not have. `Known` needs the types only.
`SharedDialer` rests on `DialInv`: who has the dialer's mutex creates the dialer, when
there is none, or closes it. `NoDeadEntry` adds that nobody else has what a goroutine
is about to store, and that each Close takes what is its own: the application's
instances, the map's under garlicsMu, the dialer under its mutex, and the handler's copy.
`CleanStart` and `CleanFinish` are the two halves of Garlic.Close, whoever calls it.

**Hybrid1SessionProofs** (`SizeAssumption`, `WaysAssumption`, `ReadersAssumption`,
`StubbornAssumption`).
`OwnershipKept` has the hypothesis that the session stands alone or in an integration
that owns what it uses; `integration_close` and "fromSAM" show that it is needed.
`OwnInv` says what is open at each point of the construction and of a Close. It speaks of
`Held`, what is open and was not told to close in vain: that only shrinks once the session
runs, so a step of one closer disturbs no other (`OwnOthers`), whatever fails to close.
`QueuesImplemented` is the refinement: receiving appends to the queue, handing over
to the channel changes nothing that is seen, and reading takes the head.

**GarlicSessionProofs** (`GarlicAssumption`). `TypeCorrect` has no hypothesis; the other
four theorems suppose that only calls to ports overlap (`Overlapping \subseteq Ports`), as
the code orders no other callers: with all goals in `Overlapping` TLC shows
`NothingLost` violated. Nothing is supposed of the number of goroutines, ports and sessions,
nor of what fails. `OrderInv` says who may be where: a call that is not to a port is alone,
only calls to ports hold `streamSubsMu`, and what a call has found missing is still
missing when it creates it; that is `NoNilUsed`. `RefInv` says, for each step of Close, what
is still open and what the fields still refer to: outside Close each subsession that is
referred to is open on the PRIMARY session of now, and inside it everything open is the
connection, the PRIMARY session, a subsession that is referred to, or could not be closed.
`NoneLost` and `NoneStale` follow. `Settled` is what is left of `RefInv` when no call is in
Close, so that the steps of a set-up need not consider one. `ClosedForGood` is the action
property: the closed connection stays in the field, and every set-up goes through it.

**KeyStoreProofs** (`KeysAssumption`). `TypeCorrect` holds for any number of callers, with
`CallInv`: which file a call that writes is at, and with which key. The other three suppose
`OneCaller`: two callers do get two identities. A call may fail, panic, die, or be followed
by a deletion that stops half way, and a Stat may fail, at any point and any number of
times; the histories of the properties start again at a deletion and at a failing Stat that
the code takes for a missing file, and only there. `IdentityKept`: once an identity was
returned it is the one on disk or comes of it, and nobody is making another (`KeyInv`).
`CertificateKept`: a certificate that was returned is on disk with its private key, and
none is made for that host (`CertInv`). `PairsKept` has two halves. `BreakInv`: two files
that do not match are the doing of a call that is between them or ended there, because the
call writes both. `CauseInv`: without a failing Stat and half a deletion a certificate is made
when there is no private key, which is created after the certificate was written, so that
the one on disk beside it is its own. Neither follows from the types of the files, only
from the order in which they are written.

**Model-checked only.** Liveness (`EventuallySettled`, `ShutdownCompletes`,
`EveryCallReturns`) is out of the prover's reach. Every invariant, action property and
refinement of the passing runs is a theorem. Four theorems or groups of theorems have a
hypothesis on which calls overlap (the count without the registry, `GarlicSession`,
`KeyStore`) or on the way a session was built (`OwnershipKept`); section 4 says what
happens without it. No module declares a RECURSIVE operator.

## 6. What is not modelled, and why

- PathQuality, PathStats, LastSendTime: floating-point statistics no decision
  depends on. Hashes and cryptography: a hash is the identity of its sender, and
  collisions are not considered.
- The bytes of the ACK messages. With AckRequestInterval 1 (config.go) SendDatagram puts
  a request around all it sends as a datagram2, and a datagram3 is never looked into,
  so that application data is safe there; what ForceDatagram2 sends, or a program that
  does not use this package, is taken for an ACK message if it has nine bytes or more
  and begins with 0xAC or 0xAD (sender.go:241), and is cut or swallowed.
- Cleanup hooks, which are code of the application; the finalizer; EnableAutoCleanup
  and DisableAutoCleanup called by the application, which only add an instance to the
  registry or take it away. `Dial` and `Listen` of common.go, which choose the network
  by the host name.
- hybrid1: the four bytes of the i2pd header, `receiverMap` (written, expired, never
  read) and the counter of WriteTo, which nothing reads. hybrid2/integration.go calls
  the same functions of hybridcommon as hybrid1 with the same arguments, so
  Hybrid1Session stands for both.
- The libraries. go-sam-go: closing a PRIMARY session closes its subsessions,
  closing the SAM connection does not close sessions, and a closed connection
  creates none; a session that fails to close is open still, with what is on it. bine:
  what `tor.Start` and `Close` return is arbitrary; `FromCryptoPrivateKey` of what
  `PrivateKey()` gave is another key, always the same one (`Derived`), and of fewer bytes a
  panic or some key (`Cut`, one for all parts). i2pkeys reads back what it wrote, and
  refuses half a file or takes it for some key. crypto/tls refuses half a file.
- Loss of what was written (no fsync is modelled: a crash is the end of the
  program, not of the machine).
- Sessions that the application closes itself after it got them from `Primary()` or
  `Datagram2Sub()`. Addresses, persistent FROM_PORT, proxies, the embedded bridge.

## 7. Plan

Done: the modules above, in this order of importance (sender, link, session, Tor with
its registry, Garlic, managed instances, keys, hybrid1 with integration).
Every safety property of the runs is proved as well. Next, in this order:

1. That a Garlic of `ManagedGarlic`, open or closed, is what `GarlicSession` says of an
   instance, so that the two models fit together as `TorShared` and `OnionRegistry` do.
2. What overlaps: `GarlicSession` when several Close run at once.
