------------------------------ MODULE KeyStore ------------------------------
(***************************************************************************)
(* The keys an instance keeps on disk: its identity (TorKeys in onion.go,  *)
(* i2pKeys in garlic.go) and the TLS certificate for the host name that    *)
(* the identity gives it (tls.go), a certificate, a private key and a CRL  *)
(* in three files.  Every file is created, which empties it, and written   *)
(* afterwards; any of these steps may fail, and the program may die        *)
(* between any two of them.  The next call goes by what it finds.          *)
(*                                                                         *)
(* A file's content is the number of the key or certificate in it, or it   *)
(* is empty, or only a part of it was written.  What was written stays     *)
(* when the program dies.                                                  *)
(*                                                                         *)
(* A key that is read need not be the identity that was written: i2pkeys   *)
(* reads back what it wrote, but TorKeys writes bine's expanded private    *)
(* key and reads it as a key in Go's form, whose first half is hashed      *)
(* again, so a second identity comes of it, always the same one.  The      *)
(* parts of keys that are read as a key have one identity here, Cut.       *)
(***************************************************************************)
EXTENDS Integers, FiniteSets

CONSTANTS
    Callers,  \* goroutines or processes that use one key name
    MaxKeys   \* bound: keys and certificates generated

ASSUME KeysAssumption == MaxKeys \in Nat

VARIABLES
    kind,    \* which of the two key stores this is, "i2p" or "tor"
    disk,    \* the files
    made,    \* keys and certificates generated so far
    pc,      \* where each caller is
    tls,     \* does its call go on to TLSKeys?
    self,    \* the identity its call has obtained
    mine,    \* the key or certificate it has in memory
    path,    \* the file it is creating
    served,  \* history: identities returned since the last DeleteKeys, or
             \* since i2pKeys took a failing Stat for a missing file
    certs,   \* history: certificates returned per host, since the last
             \* deletion of the TLS key store or such a Stat
    halved,  \* history: did the last such deletion stop half way?
    blind,   \* history: hosts with such a Stat since the last whole deletion
    broken   \* history: hosts whose last certificate was written by a call
             \* that ended before it came to the private key

vars == <<kind, disk, made, pc, tls, self, mine, path, served, certs, halved, blind, broken>>

None   == 0
Keys   == 1..MaxKeys
Absent == -1
Empty  == 0
Part   == -2
Key    == <<"key", None>>

\* What comes of the stored key k when TorKeys reads it, and of a part.
Derived(k) == k + MaxKeys
Cut        == 2 * MaxKeys + 1
Identities == 1..Cut
Hosts      == Identities

TLSFiles == {"crt", "pem", "crl"} \X Hosts
Files  == {Key} \cup TLSFiles

TypeOK ==
    /\ kind \in {"i2p", "tor"}
    /\ disk \in [Files -> {Absent, Empty, Part} \cup Keys]
    /\ made \in 0..MaxKeys
    /\ pc \in [Callers -> {"idle", "generate", "load", "stat", "certify", "create", "write", "pair"}]
    /\ tls \in [Callers -> BOOLEAN]
    /\ self \in [Callers -> {None} \cup Identities]
    /\ mine \in [Callers -> {None} \cup Keys]
    /\ path \in [Callers -> Files]
    /\ served \subseteq Identities
    /\ certs \in [Hosts -> SUBSET Keys]
    /\ halved \in BOOLEAN
    /\ blind \subseteq Hosts
    /\ broken \subseteq Hosts

Init ==
    /\ kind \in {"i2p", "tor"}
    /\ disk = [f \in Files |-> Absent]
    /\ made = 0
    /\ pc = [c \in Callers |-> "idle"]
    /\ tls = [c \in Callers |-> FALSE]
    /\ self = [c \in Callers |-> None]
    /\ mine = [c \in Callers |-> None]
    /\ path = [c \in Callers |-> Key]
    /\ served = {}
    /\ certs = [h \in Hosts |-> {}]
    /\ halved = FALSE
    /\ blind = {}
    /\ broken = {}

Goto(c, step) == pc' = [pc EXCEPT ![c] = step]

\* The call returns, or dies: what it had in memory is gone.
Return(c) ==
    /\ Goto(c, "idle")
    /\ self' = [self EXCEPT ![c] = None]
    /\ mine' = [mine EXCEPT ![c] = None]

-----------------------------------------------------------------------------
(* TorKeys and i2pKeys *)

\* TorKeys asks whether there is a file, i2pKeys also whether it is empty, and
\* takes a Stat that fails for whatever reason as an answer.
NeedNewKeys(statFails) ==
    disk[Key] = Absent \/ (kind = "i2p" /\ (disk[Key] = Empty \/ statFails))

\* When Stat fails, TorKeys returns an error and nothing has changed.
Ask(c, andTLS, statFails) ==
    /\ pc[c] = "idle"
    /\ statFails => kind = "i2p"
    /\ tls' = [tls EXCEPT ![c] = andTLS]
    /\ Goto(c, IF NeedNewKeys(statFails) THEN "generate" ELSE "load")
    /\ served' = IF statFails THEN {} ELSE served
    /\ UNCHANGED <<kind, disk, made, self, mine, path, certs, halved, blind, broken>>

\* An identity in hand is returned, or TLSKeys goes on with its host name.
Identified(c, k) ==
    /\ served' = served \cup {k}
    /\ IF tls[c] THEN Goto(c, "stat") /\ self' = [self EXCEPT ![c] = k]
                      /\ mine' = [mine EXCEPT ![c] = None]
                 ELSE Return(c)

Generate(c) ==
    /\ pc[c] = "generate"
    /\ made < MaxKeys
    /\ made' = made + 1
    /\ mine' = [mine EXCEPT ![c] = made + 1]
    /\ path' = [path EXCEPT ![c] = Key]
    /\ Goto(c, "create")
    /\ UNCHANGED <<kind, disk, tls, self, served, certs, halved, blind, broken>>

\* The identity that comes of a file, None when there is none.  LoadKeys may
\* refuse a part; TorKeys does not look at the length.
Reading(content) ==
    CASE content \in Keys -> IF kind = "tor" THEN Derived(content) ELSE content
      [] content = Part \/ (content = Empty /\ kind = "tor") -> Cut
      [] OTHER -> None

Load(c) ==
    /\ pc[c] = "load"
    /\ Reading(disk[Key]) # None
    /\ Identified(c, Reading(disk[Key]))
    /\ UNCHANGED <<kind, disk, made, tls, path, certs, halved, blind, broken>>

-----------------------------------------------------------------------------
(* A file is created or truncated, then written.                           *)

Create(c) ==
    /\ pc[c] = "create"
    /\ disk' = [disk EXCEPT ![path[c]] = Empty]
    /\ broken' = {h \in broken : path[c] # <<"crt", h>>}
    /\ Goto(c, "write")
    /\ UNCHANGED <<kind, made, tls, self, mine, path, served, certs, halved, blind>>

\* The data go out in several writes, and closing the file may fail after them.
WritePart(c) ==
    /\ pc[c] = "write"
    /\ disk[path[c]] = Empty
    /\ \E content \in {Part, mine[c]} : disk' = [disk EXCEPT ![path[c]] = content]
    /\ UNCHANGED <<kind, made, pc, tls, self, mine, path, served, certs, halved, blind, broken>>

\* Certificate, private key and CRL are written in this order.
After(f) == <<IF f[1] = "crt" THEN "pem" ELSE "crl", f[2]>>

Write(c) ==
    /\ pc[c] = "write"
    /\ disk' = [disk EXCEPT ![path[c]] = mine[c]]
    /\ \/ path[c] = Key
          /\ Identified(c, mine[c])
          /\ UNCHANGED path
       \/ path[c] \in {"crt", "pem"} \X Hosts
          /\ path' = [path EXCEPT ![c] = After(path[c])]
          /\ Goto(c, "create")
          /\ UNCHANGED <<self, mine, served>>
       \/ path[c] \in {"crl"} \X Hosts
          /\ Goto(c, "pair")
          /\ UNCHANGED <<path, self, mine, served>>
    /\ UNCHANGED <<kind, made, tls, certs, halved, blind, broken>>

\* The certificate on disk is a new one, the private key has not been touched.
Between(c) ==
    \/ pc[c] = "write" /\ path[c] = <<"crt", self[c]>>
    \/ pc[c] = "create" /\ path[c] = <<"pem", self[c]>>

\* Mutant: an identity that could not be made or stored is returned all the same.
FailureIgnored(c) ==
    /\ pc[c] # "idle"
    /\ served' = served \cup (IF path[c] = Key THEN {mine[c]} ELSE {})
    /\ Return(c)
    /\ UNCHANGED <<kind, disk, made, tls, path, certs, halved, blind, broken>>

\* Generating, creating, reading, writing or closing returns an error, and so
\* does the call.  What was created stays.
Fails(c) ==
    /\ pc[c] # "idle"
    /\ broken' = broken \cup {h \in Hosts : h = self[c] /\ Between(c)}
    /\ Return(c)
    /\ UNCHANGED <<kind, disk, made, tls, path, served, certs, halved, blind>>

-----------------------------------------------------------------------------
(* TLSKeys *)

\* Mutant: all three files are looked for.
MissingAny(h, statFails) == statFails \/ \E f \in TLSFiles : f[2] = h /\ disk[f] = Absent

\* Mutant: nothing is looked for.
Always(h, statFails) == h \in Hosts /\ statFails \in BOOLEAN

\* A Stat that fails for whatever reason is taken for a missing file.
MissingTLS(h, statFails) == statFails \/ disk[<<"crt", h>>] = Absent \/ disk[<<"pem", h>>] = Absent

CreateTLSCertificate(c, statFails) ==
    /\ pc[c] = "stat"
    /\ Goto(c, IF MissingTLS(self[c], statFails) THEN "certify" ELSE "pair")
    /\ certs' = IF statFails THEN [certs EXCEPT ![self[c]] = {}] ELSE certs
    /\ blind' = IF statFails THEN blind \cup {self[c]} ELSE blind
    /\ UNCHANGED <<kind, disk, made, tls, self, mine, path, served, halved, broken>>

Certify(c) ==
    /\ pc[c] = "certify"
    /\ made < MaxKeys
    /\ made' = made + 1
    /\ mine' = [mine EXCEPT ![c] = made + 1]
    /\ path' = [path EXCEPT ![c] = <<"crt", self[c]>>]
    /\ Goto(c, "create")
    /\ UNCHANGED <<kind, disk, tls, self, served, certs, halved, blind, broken>>

\* LoadX509KeyPair takes a certificate and the private key that goes with it.
LoadPair(c) ==
    /\ pc[c] = "pair"
    /\ LET crt == disk[<<"crt", self[c]>>]
       IN  certs' = IF crt \in Keys /\ crt = disk[<<"pem", self[c]>>]
                    THEN [certs EXCEPT ![self[c]] = @ \cup {crt}] ELSE certs
    /\ Return(c)
    /\ UNCHANGED <<kind, disk, made, tls, path, served, halved, blind, broken>>

-----------------------------------------------------------------------------
(* Deletion, and the end of the program.                                   *)

\* DeleteKeys, or the deletion of the key store.
DeleteKeys ==
    /\ disk[Key] # Absent
    /\ \A c \in Callers : pc[c] = "idle"
    /\ disk' = [disk EXCEPT ![Key] = Absent]
    /\ served' = {}
    /\ UNCHANGED <<kind, made, pc, tls, self, mine, path, certs, halved, blind, broken>>

\* DeleteTLSKeyStore removes a tree, file by file; it may fail half way.
DeleteTLSKeyStore ==
    /\ \A c \in Callers : pc[c] = "idle"
    /\ LET there == {f \in TLSFiles : disk[f] # Absent}
       IN  \E gone \in SUBSET there \ {{}} :
             /\ disk' = [f \in Files |-> IF f \in gone THEN Absent ELSE disk[f]]
             /\ halved' = (gone # there)
             /\ blind' = IF gone = there THEN {} ELSE blind
             /\ broken' = IF gone = there THEN {} ELSE broken
    /\ certs' = [h \in Hosts |-> {}]
    /\ UNCHANGED <<kind, made, pc, tls, self, mine, path, served>>

Die ==
    /\ pc' = [c \in Callers |-> "idle"]
    /\ self' = [c \in Callers |-> None]
    /\ mine' = [c \in Callers |-> None]
    /\ broken' = broken \cup {h \in Hosts : \E c \in Callers : h = self[c] /\ Between(c)}
    /\ UNCHANGED <<kind, disk, made, tls, path, served, certs, halved, blind>>

\* TorKeys hands bine fewer bytes than a key has.
Panic(c) ==
    /\ pc[c] = "load"
    /\ kind = "tor" /\ disk[Key] \in {Empty, Part}
    /\ Die

Crash == (\E c \in Callers : pc[c] # "idle") /\ Die

-----------------------------------------------------------------------------

Next ==
    \/ \E c \in Callers :
          \/ \E andTLS, statFails \in BOOLEAN : Ask(c, andTLS, statFails)
          \/ Generate(c) \/ Load(c) \/ Panic(c) \/ Create(c) \/ WritePart(c) \/ Write(c) \/ Fails(c)
          \/ \E statFails \in BOOLEAN : CreateTLSCertificate(c, statFails)
          \/ Certify(c) \/ LoadPair(c)
    \/ DeleteKeys
    \/ DeleteTLSKeyStore
    \/ Crash

Spec == Init /\ [][Next]_vars

-----------------------------------------------------------------------------

\* "If the key already exists, it will be returned" (onion.go:304-306).  That is
\* more than the code keeps, but all calls together, through failures, panics
\* and crashes, return no identity but the key on disk and the one that TorKeys
\* reads from it, for I2P the same (onion.go:336, 349), until the keys are
\* deleted or a failing Stat has i2pKeys write new ones over them (garlic.go:1081).
OneIdentity == served \subseteq {disk[Key], Reading(disk[Key])}

\* A host that was given a certificate is given the same until the TLS key
\* store is deleted or a Stat fails, which has a new certificate made over a
\* good one (tls.go:100-102): "If the keys already exist, generation is
\* skipped" (tls.go:88-89) holds through every other failure and crash.
OneCertificate == \A h \in Hosts : Cardinality(certs[h]) <= 1

\* A certificate beside the private key of another one, which LoadX509KeyPair
\* refuses from then on, takes two mishaps: a Stat that failed on the pair, or a
\* deletion that stopped half way, and then a call that ended between the two
\* files.  Neither does it alone: the call that follows writes both files
\* (tls.go:100-119, 159-207).
PairsMatch ==
    \A h \in Hosts :
        LET crt == disk[<<"crt", h>>]
            pem == disk[<<"pem", h>>]
        IN  {crt, pem} \subseteq Keys /\ crt # pem =>
                /\ h \in blind \/ halved
                /\ h \in broken \/ \E c \in Callers : self[c] = h /\ Between(c)
=============================================================================
