---------------------------- MODULE KeyStoreProofs ----------------------------
(***************************************************************************)
(* Proofs about KeyStore: the types for any number of callers, the rest    *)
(* for one caller of a key name at a time, which may fail or die anywhere. *)
(* Two callers may overwrite each other's files.                           *)
(***************************************************************************)
EXTENDS KeyStore, FiniteSetTheorems, TLAPS

Crt(h) == disk[<<"crt", h>>]
Pem(h) == disk[<<"pem", h>>]

Writing(c)    == pc[c] \in {"create", "write"}
Certifying(c) == pc[c] = "certify" \/ (Writing(c) /\ path[c] # Key)

-----------------------------------------------------------------------------
(* Types *)

LEMMA TheFiles ==
  /\ Key \in Files
  /\ \A h \in Hosts :
        /\ {<<"crt", h>>, <<"pem", h>>, <<"crl", h>>} \subseteq Files \ {Key}
        /\ <<"crt", h>> # <<"pem", h>> /\ <<"crt", h>> # <<"crl", h>> /\ <<"pem", h>> # <<"crl", h>>
        /\ After(<<"crt", h>>) = <<"pem", h>> /\ After(<<"pem", h>>) = <<"crl", h>>
BY DEF Files, TLSFiles, Key, After

LEMMA Sorted ==
  \A h \in Hosts :
     /\ <<"crt", h>> \in {"crt", "pem"} \X Hosts /\ <<"crt", h>> \notin {"crl"} \X Hosts
     /\ <<"pem", h>> \in {"crt", "pem"} \X Hosts /\ <<"pem", h>> \notin {"crl"} \X Hosts
     /\ <<"crl", h>> \in {"crl"} \X Hosts /\ <<"crl", h>> \notin {"crt", "pem"} \X Hosts
OBVIOUS

LEMMA OtherHost ==
  ASSUME NEW h \in Hosts, NEW g \in Hosts, h # g
  PROVE  /\ \A k \in {"crt", "pem", "crl"} : <<"crt", g>> # <<k, h>> /\ <<"pem", g>> # <<k, h>>
OBVIOUS

LEMMA NotKeys == Absent \notin Keys /\ Empty \notin Keys /\ Part \notin Keys /\ None \notin Keys
BY KeysAssumption DEF Absent, Empty, Part, None, Keys

LEMMA NotIdentities == Absent \notin Identities /\ Empty \notin Identities /\ Part \notin Identities
BY DEF Absent, Empty, Part, Identities

\* Every number of a key is one of an identity, and what is read is an identity
\* or nothing.
LEMMA KeysIdentify == Keys \subseteq Identities /\ Cut \in Identities /\ None \notin Identities
BY KeysAssumption DEF Keys, Identities, Cut, None

LEMMA ReadingTypes == \A v : Reading(v) = None \/ Reading(v) \in Identities
<1>1. \A v \in Keys : Derived(v) \in Identities
  BY KeysAssumption DEF Keys, Identities, Cut, Derived
<1>2. QED
  BY <1>1, KeysIdentify DEF Reading

\* A call knows its host before it makes a certificate for it, and holds what it
\* is writing.
CallInv ==
    \A c \in Callers :
        /\ pc[c] \in {"stat", "certify", "pair"} => self[c] \in Identities
        /\ Writing(c) => /\ mine[c] \in Keys
                         /\ \/ path[c] = Key
                            \/ /\ self[c] \in Identities
                               /\ path[c] \in {<<"crt", self[c]>>, <<"pem", self[c]>>, <<"crl", self[c]>>}

TypeInv == TypeOK /\ CallInv

LEMMA TypeInit == Init => TypeInv
<1> SUFFICES ASSUME Init PROVE TypeOK /\ CallInv
  BY DEF TypeInv
<1>1. made \in 0..MaxKeys /\ path \in [Callers -> Files] /\ disk \in [Files -> {Absent, Empty, Part} \cup Keys]
  BY TheFiles, KeysAssumption DEF Init
<1>2. TypeOK
  BY <1>1 DEF Init, TypeOK
<1>3. CallInv
  BY DEF Init, CallInv, Writing
<1>4. QED
  BY <1>2, <1>3

\* What of a call is left when it has its identity.
LEMMA IdentifiedTypes ==
  ASSUME TypeInv, NEW c \in Callers, NEW k \in Identities, Identified(c, k), UNCHANGED path
  PROVE  /\ served' \subseteq Identities
         /\ pc' \in [Callers -> {"idle", "generate", "load", "stat", "certify", "create", "write", "pair"}]
         /\ self' \in [Callers -> {None} \cup Identities] /\ mine' \in [Callers -> {None} \cup Keys]
         /\ CallInv'
BY DEF TypeInv, TypeOK, CallInv, Writing, Identified, Return, Goto

LEMMA TypeStep == TypeInv /\ [Next]_vars => TypeInv'
<1> SUFFICES ASSUME TypeInv, [Next]_vars PROVE TypeOK' /\ CallInv'
  BY DEF TypeInv
<1> USE DEF TypeInv, TypeOK, CallInv, Writing, Goto, Return, Hosts
<1>1. CASE UNCHANGED vars
  BY <1>1 DEF vars
<1>2. ASSUME NEW c \in Callers,
             \/ \E andTLS, statFails \in BOOLEAN : Ask(c, andTLS, statFails)
             \/ Fails(c)
             \/ \E statFails \in BOOLEAN : CreateTLSCertificate(c, statFails)
      PROVE  TypeOK' /\ CallInv'
  <2>1. CASE \E andTLS, statFails \in BOOLEAN : Ask(c, andTLS, statFails)
    BY <2>1 DEF Ask
  <2>2. CASE Fails(c)
    BY <2>2 DEF Fails
  <2>3. CASE \E statFails \in BOOLEAN : CreateTLSCertificate(c, statFails)
    <3>1. certs' \in [Hosts -> SUBSET Keys] /\ blind' \subseteq Hosts
      BY <2>3 DEF CreateTLSCertificate
    <3>2. QED
      BY <2>3, <3>1 DEF CreateTLSCertificate
  <2>4. QED
    BY <1>2, <2>1, <2>2, <2>3
<1>3. ASSUME NEW c \in Callers, Generate(c) \/ Certify(c) PROVE TypeOK' /\ CallInv'
  <2>1. made + 1 \in Keys /\ made' = made + 1 /\ made' \in 0..MaxKeys
    BY <1>3, KeysAssumption DEF Generate, Certify, Keys
  <2>2. CASE Generate(c)
    BY <2>1, <2>2, TheFiles DEF Generate
  <2>3. CASE Certify(c)
    BY <2>1, <2>3, TheFiles DEF Certify
  <2>4. QED
    BY <1>3, <2>2, <2>3
<1>4. ASSUME NEW c \in Callers, Load(c) PROVE TypeOK' /\ CallInv'
  <2>1. Reading(disk[Key]) \in Identities /\ Identified(c, Reading(disk[Key]))
    BY <1>4, ReadingTypes DEF Load
  <2>2. QED
    BY <1>4, <2>1, IdentifiedTypes DEF Load
<1>5. ASSUME NEW c \in Callers, Create(c) \/ WritePart(c) PROVE TypeOK' /\ CallInv'
  BY <1>5 DEF Create, WritePart
<1>6. ASSUME NEW c \in Callers, Write(c) PROVE TypeOK' /\ CallInv'
  <2>1. mine[c] \in Keys /\ disk' = [disk EXCEPT ![path[c]] = mine[c]] /\ pc[c] = "write"
        /\ UNCHANGED <<kind, made, tls, certs, halved, blind, broken>>
    BY <1>6 DEF Write
  <2>2. CASE path[c] = Key
    <3>1. Identified(c, mine[c]) /\ UNCHANGED path
      BY <1>6, <2>2 DEF Write, TLSFiles, Key
    <3>2. QED
      BY <2>1, <3>1, IdentifiedTypes, KeysIdentify
  <2>3. CASE path[c] # Key
    <3>1. PICK h \in Hosts : path[c] \in {<<"crt", h>>, <<"pem", h>>, <<"crl", h>>} /\ h = self[c]
      BY <2>1, <2>3
    <3>2. CASE path[c] = <<"crl", h>>
      <4>1. pc' = [pc EXCEPT ![c] = "pair"] /\ UNCHANGED <<path, self, mine, served>>
        BY <1>6, <3>2, TheFiles, Sorted DEF Write
      <4>2. QED
        BY <2>1, <3>1, <4>1
    <3>3. CASE path[c] # <<"crl", h>>
      <4>1. /\ pc' = [pc EXCEPT ![c] = "create"] /\ UNCHANGED <<self, mine, served>>
            /\ path' = [path EXCEPT ![c] = After(path[c])]
        BY <1>6, <3>1, <3>3, TheFiles, Sorted DEF Write
      <4>2. After(path[c]) \in {<<"pem", h>>, <<"crl", h>>} /\ After(path[c]) \in Files
        BY <3>1, <3>3, TheFiles
      <4>3. QED
        BY <2>1, <3>1, <4>1, <4>2
    <3>4. QED
      BY <3>2, <3>3
  <2>4. QED
    BY <2>2, <2>3
<1>7. ASSUME NEW c \in Callers, LoadPair(c) PROVE TypeOK' /\ CallInv'
  <2>1. certs' \in [Hosts -> SUBSET Keys]
    BY <1>7 DEF LoadPair
  <2>2. QED
    BY <1>7, <2>1 DEF LoadPair
<1>8. CASE DeleteKeys
  BY <1>8 DEF DeleteKeys
<1>9. CASE DeleteTLSKeyStore
  BY <1>9 DEF DeleteTLSKeyStore
<1>10. CASE Crash \/ \E c \in Callers : Panic(c)
  <2>1. Die
    BY <1>10 DEF Crash, Panic
  <2>2. QED
    BY <2>1 DEF Die
<1>11. QED
  BY <1>1, <1>2, <1>3, <1>4, <1>5, <1>6, <1>7, <1>8, <1>9, <1>10 DEF Next

LEMMA TypesCorrect == Spec => []TypeInv
BY TypeInit, TypeStep, PTL DEF Spec

\* Every call is where it can be, and every file holds what a call can have
\* written, however many callers there are.
THEOREM TypeCorrect == Spec => []TypeOK
<1>1. TypeInv => TypeOK
  BY DEF TypeInv
<1>2. QED
  BY <1>1, TypesCorrect, PTL

-----------------------------------------------------------------------------
(* The steps on the files                                                  *)

LEMMA OnKey ==
  ASSUME TypeInv, NEW c \in Callers, path[c] = Key, Create(c) \/ WritePart(c) \/ Write(c)
  PROVE  /\ Writing(c) /\ UNCHANGED <<certs, halved, blind, broken, path>>
         /\ pc'[c] \in {"write", "stat", "idle"}
         /\ \A h \in Hosts : Crt(h)' = Crt(h) /\ Pem(h)' = Pem(h)
         /\ served' = served \/ served' = served \cup {disk'[Key]}
<1> USE DEF TypeInv, TypeOK, Goto
<1>1. \E v : disk' = [disk EXCEPT ![Key] = v]
  BY DEF Create, WritePart, Write
<1>2. \A h \in Hosts : Crt(h)' = Crt(h) /\ Pem(h)' = Pem(h)
  BY <1>1, TheFiles DEF Crt, Pem
<1>3. CASE Create(c) \/ WritePart(c)
  <2>1. \A h : Key # <<"crt", h>>
    BY DEF Key
  <2>2. Create(c) => broken' = broken
    <3>1. {h \in broken : Key # <<"crt", h>>} = broken
      BY <2>1
    <3>2. QED
      BY <3>1 DEF Create
  <2>3. QED
    BY <1>2, <1>3, <2>2 DEF Create, WritePart, Writing
<1>4. CASE Write(c)
  <2>1. pc[c] = "write" /\ disk'[Key] = mine[c] /\ UNCHANGED <<certs, halved, blind, broken>>
    BY <1>4, TheFiles DEF Write
  <2>2. Identified(c, mine[c]) /\ UNCHANGED path
    BY <1>4 DEF Write, Key
  <2>3. QED
    BY <1>2, <2>1, <2>2 DEF Identified, Return, Writing
<1>5. QED
  BY <1>3, <1>4

\* What a step writes into a file of host h, and where the caller is then.
LEMMA OnTLS ==
  ASSUME TypeInv, NEW c \in Callers, path[c] # Key, Create(c) \/ WritePart(c) \/ Write(c)
  PROVE  /\ Certifying(c) /\ self[c] \in Hosts
         /\ disk'[Key] = disk[Key] /\ UNCHANGED <<served, certs, halved, blind, self, mine>>
         /\ \A g \in Hosts \ {self[c]} : /\ Crt(g)' = Crt(g) /\ Pem(g)' = Pem(g)
                                         /\ g \in broken' <=> g \in broken
         /\ pc'[c] # "certify"
         /\ LET h == self[c]
            IN  \/ /\ path[c] = <<"crt", h>> /\ Pem(h)' = Pem(h) /\ Crt(h)' # Absent
                   /\ \/ pc'[c] = "write" /\ path'[c] = <<"crt", h>>
                      \/ Crt(h)' = mine[c] /\ pc'[c] = "create" /\ path'[c] = <<"pem", h>>
                \/ /\ path[c] = <<"pem", h>> /\ Crt(h)' = Crt(h)
                   /\ \/ /\ Pem(h)' \notin Keys \/ Pem(h)' = mine[c]
                         /\ pc'[c] = "write" /\ path'[c] = <<"pem", h>>
                      \/ Pem(h)' = mine[c] /\ pc'[c] = "create" /\ path'[c] = <<"crl", h>>
                \/ /\ path[c] = <<"crl", h>> /\ Crt(h)' = Crt(h) /\ Pem(h)' = Pem(h)
                   /\ broken' = broken
                   /\ (pc'[c] = "write" /\ path'[c] = <<"crl", h>>) \/ pc'[c] = "pair"
<1> USE DEF TypeInv, TypeOK, Goto, Hosts
<1> DEFINE h == self[c]
<1>1. /\ Writing(c) /\ mine[c] \in Keys /\ h \in Identities
      /\ path[c] \in {<<"crt", h>>, <<"pem", h>>, <<"crl", h>>} /\ path[c] \in Files
  BY DEF Create, WritePart, Write, Writing, CallInv
<1>2. PICK v \in {Empty, Part, mine[c]} : disk' = [disk EXCEPT ![path[c]] = v]
  BY DEF Create, WritePart, Write
<1>3. v # Absent /\ (v # mine[c] => v \notin Keys)
  BY <1>1, NotKeys DEF Absent, Empty, Part, Keys
<1>4. \A g \in Identities \ {h} : /\ Crt(g)' = Crt(g) /\ Pem(g)' = Pem(g)
                                  /\ g \in broken' <=> g \in broken
  <2>1. \A g \in Identities \ {h} : Crt(g)' = Crt(g) /\ Pem(g)' = Pem(g)
    BY <1>1, <1>2, OtherHost DEF Crt, Pem
  <2>2. \A g \in Identities \ {h} : path[c] # <<"crt", g>>
    BY <1>1, OtherHost
  <2>3. \A g \in Identities \ {h} : g \in broken' <=> g \in broken
    BY <2>2 DEF Create, WritePart, Write
  <2>4. QED
    BY <2>1, <2>3
<1>5. disk'[path[c]] = v /\ \A f \in Files \ {path[c]} : disk'[f] = disk[f]
  BY <1>1, <1>2
<1>6. CASE Create(c) \/ WritePart(c)
  <2>1. /\ pc'[c] = "write" /\ UNCHANGED <<path, served, certs, halved, blind, self, mine>>
    BY <1>6 DEF Create, WritePart
  <2>2. path[c] = <<"crl", h>> => broken' = broken
    <3>1. path[c] = <<"crl", h>> => {g \in broken : path[c] # <<"crt", g>>} = broken
      <4>1. \A g : <<"crl", h>> # <<"crt", g>>
        OBVIOUS
      <4>2. QED
        BY <4>1
    <3>2. QED
      BY <1>6, <3>1 DEF Create, WritePart
  <2>3. QED
    BY <1>1, <1>3, <1>4, <1>5, <2>1, <2>2, TheFiles DEF Writing, Certifying, Crt, Pem
<1>7. CASE Write(c)
  <2>1. /\ disk'[path[c]] = mine[c] /\ UNCHANGED <<certs, halved, blind, broken>>
    BY <1>1, <1>7 DEF Write
  <2>2. CASE path[c] = <<"crl", h>>
    <3>1. pc'[c] = "pair" /\ UNCHANGED <<path, self, mine, served>>
      BY <1>1, <1>7, <2>2, TheFiles, Sorted DEF Write
    <3>2. QED
      BY <1>1, <1>3, <1>4, <1>5, <2>1, <2>2, <3>1, TheFiles DEF Writing, Certifying, Crt, Pem
  <2>3. CASE path[c] # <<"crl", h>>
    <3>1. /\ pc'[c] = "create" /\ UNCHANGED <<self, mine, served>> /\ path'[c] = After(path[c])
      BY <1>1, <1>7, <2>3, TheFiles, Sorted DEF Write
    <3>2. CASE path[c] = <<"crt", h>>
      BY <1>1, <1>3, <1>4, <1>5, <2>1, <3>1, <3>2, TheFiles DEF Writing, Certifying, Crt, Pem
    <3>3. CASE path[c] = <<"pem", h>>
      BY <1>1, <1>3, <1>4, <1>5, <2>1, <3>1, <3>3, TheFiles DEF Writing, Certifying, Crt, Pem
    <3>4. QED
      BY <1>1, <2>3, <3>2, <3>3
  <2>4. QED
    BY <2>2, <2>3
<1>8. QED
  BY <1>6, <1>7

-----------------------------------------------------------------------------
(* One identity, one certificate per host, files that match                *)

OneCaller == \A c, d \in Callers : c = d

\* No identity is made, nor its file touched, once one was returned, unless
\* a Stat failed.
KeyInv ==
    /\ served \subseteq {disk[Key], Reading(disk[Key])}
    /\ \A c \in Callers : pc[c] = "generate" \/ (Writing(c) /\ path[c] = Key) => served = {}

\* The certificate a host was given is on disk with its private key, and none
\* is made for it.
CertInv ==
    /\ \A h \in Hosts : certs[h] # {} => certs[h] = {Crt(h)} /\ Pem(h) = Crt(h)
    /\ \A c \in Callers : Certifying(c) => certs[self[c]] = {}

Mixed(h) == Crt(h) \in Keys /\ Pem(h) \in Keys /\ Crt(h) # Pem(h)

\* A certificate and a private key that do not match: either a call is between
\* the two files, or the last one ended there.
BreakInv ==
    /\ \A h \in Hosts : Mixed(h) => h \in broken \/ \E c \in Callers : self[c] = h /\ Between(c)
    /\ \A c \in Callers :
          Writing(c) /\ path[c] = <<"pem", self[c]>> =>
              /\ Crt(self[c]) = mine[c]
              /\ pc[c] = "write" => Pem(self[c]) \notin Keys \/ Pem(self[c]) = mine[c]

\* A certificate is made when there is no private key, and the private key is
\* written after it: only a deletion that stopped half way or a failing Stat
\* brings it to the private key of another certificate.
CauseInv ==
    /\ \A h \in Hosts : ~(h \in blind \/ halved) =>
          /\ Crt(h) = Absent => Pem(h) = Absent
          /\ ~Mixed(h)
    /\ \A c \in Callers : ~(self[c] \in blind \/ halved) =>
          /\ pc[c] = "certify" => Pem(self[c]) = Absent
          /\ Writing(c) /\ path[c] = <<"crt", self[c]>> => Pem(self[c]) = Absent
          /\ pc[c] = "create" /\ path[c] = <<"pem", self[c]>> => Pem(self[c]) = Absent

PairInv == BreakInv /\ CauseInv

LEMMA InvInit == Init => KeyInv /\ CertInv /\ PairInv
<1> SUFFICES ASSUME Init PROVE KeyInv /\ CertInv /\ PairInv
  OBVIOUS
<1>1. \A h \in Hosts : Crt(h) = Absent /\ Pem(h) = Absent
  BY TheFiles DEF Init, Crt, Pem
<1>2. QED
  BY <1>1, NotKeys DEF Init, KeyInv, CertInv, PairInv, BreakInv, CauseInv, Mixed, Writing, Certifying

LEMMA KeyStep == ASSUME OneCaller PROVE TypeInv /\ KeyInv /\ [Next]_vars => KeyInv'
<1> SUFFICES ASSUME TypeInv, KeyInv, [Next]_vars PROVE KeyInv'
  OBVIOUS
<1> USE DEF TypeInv, TypeOK, KeyInv, Writing, Goto, Return
<1>1. CASE UNCHANGED vars \/ DeleteKeys \/ Crash \/ \E c \in Callers : Panic(c)
  BY <1>1 DEF vars, DeleteKeys, Crash, Panic, Die, Reading
<1>2. CASE DeleteTLSKeyStore
  <2>1. disk'[Key] = disk[Key] /\ UNCHANGED <<kind, served>>
    BY <1>2, TheFiles DEF DeleteTLSKeyStore, TLSFiles, Key
  <2>2. QED
    BY <1>2, <2>1 DEF DeleteTLSKeyStore, Reading
<1>3. ASSUME NEW c \in Callers, NEW statFails \in BOOLEAN,
             \E andTLS \in BOOLEAN : Ask(c, andTLS, statFails)
      PROVE  KeyInv'
  <2>1. /\ UNCHANGED <<disk, kind>> /\ pc'[c] \in {"generate", "load"}
        /\ pc'[c] = "generate" => NeedNewKeys(statFails)
        /\ served' = IF statFails THEN {} ELSE served
    BY <1>3 DEF Ask
  <2>2. NeedNewKeys(statFails) => served' = {}
    BY <2>1, NotKeys, NotIdentities, KeysIdentify DEF NeedNewKeys, Reading, Absent, Part, Empty
  <2>3. QED
    BY <2>1, <2>2 DEF OneCaller, Reading
<1>4. ASSUME NEW c \in Callers, Generate(c) \/ Certify(c) PROVE KeyInv'
  <2>1. CASE Generate(c)
    BY <2>1 DEF Generate, OneCaller, Reading
  <2>2. CASE Certify(c)
    <3>1. path'[c] # Key /\ pc'[c] = "create" /\ UNCHANGED <<disk, served, kind>>
      BY <2>2 DEF Certify, Key
    <3>2. QED
      BY <3>1 DEF OneCaller, Reading
  <2>3. QED
    BY <1>4, <2>1, <2>2
<1>5. ASSUME NEW c \in Callers,
             \/ Fails(c) \/ LoadPair(c) \/ Load(c)
             \/ \E statFails \in BOOLEAN : CreateTLSCertificate(c, statFails)
      PROVE  KeyInv'
  <2>1. /\ UNCHANGED <<disk, kind>> /\ served' \subseteq served \cup {Reading(disk[Key])}
        /\ pc'[c] \in {"idle", "certify", "pair", "stat"}
    BY <1>5 DEF Fails, CreateTLSCertificate, LoadPair, Load, Identified
  <2>2. QED
    BY <2>1 DEF OneCaller, Reading
<1>6. ASSUME NEW c \in Callers, Create(c) \/ WritePart(c) \/ Write(c) PROVE KeyInv'
  <2>1. CASE path[c] = Key
    <3>1. /\ Writing(c) /\ pc'[c] \in {"write", "stat", "idle"}
          /\ served' = served \/ served' = served \cup {disk'[Key]}
      BY <1>6, <2>1, OnKey
    <3>2. served = {}
      BY <2>1, <3>1
    <3>3. pc'[c] = "write" => served' = served
      BY <1>6 DEF Create, WritePart, Write, Identified
    <3>4. QED
      BY <3>1, <3>2, <3>3 DEF OneCaller, Reading
  <2>2. CASE path[c] # Key
    <3>1. disk'[Key] = disk[Key] /\ UNCHANGED <<served, kind>> /\ self[c] \in Hosts
      BY <1>6, <2>2, OnTLS DEF Create, WritePart, Write
    <3>2. Writing(c)' => path'[c] # Key
      <4>1. Writing(c)' => path'[c] \in {<<"crt", self[c]>>, <<"pem", self[c]>>, <<"crl", self[c]>>}
        BY <1>6, <2>2, OnTLS DEF Writing
      <4>2. QED
        BY <3>1, <4>1, TheFiles
    <3>3. pc'[c] # "generate"
      BY <1>6 DEF Create, WritePart, Write, Identified
    <3>4. QED
      BY <3>1, <3>2, <3>3 DEF OneCaller, Reading
  <2>3. QED
    BY <2>1, <2>2
<1>7. QED
  BY <1>1, <1>2, <1>3, <1>4, <1>5, <1>6 DEF Next

LEMMA CertStep == ASSUME OneCaller PROVE TypeInv /\ CertInv /\ [Next]_vars => CertInv'
<1> SUFFICES ASSUME TypeInv, CertInv, [Next]_vars PROVE CertInv'
  OBVIOUS
<1> USE DEF TypeInv, TypeOK, Hosts
<1>1. CASE UNCHANGED vars
  BY <1>1 DEF vars, CertInv, Crt, Pem, Certifying, Writing
<1>2. CASE DeleteKeys
  <2>1. \A h \in Hosts : Crt(h)' = Crt(h) /\ Pem(h)' = Pem(h)
    BY <1>2, TheFiles DEF DeleteKeys, Crt, Pem
  <2>2. QED
    BY <1>2, <2>1 DEF DeleteKeys, CertInv, Certifying, Writing
<1>3. CASE DeleteTLSKeyStore
  BY <1>3 DEF DeleteTLSKeyStore, CertInv, Certifying, Writing
<1>4. CASE Crash \/ \E c \in Callers : Panic(c)
  BY <1>4 DEF Crash, Panic, Die, CertInv, Crt, Pem, Certifying, Writing
<1>5. ASSUME NEW c \in Callers, NEW statFails \in BOOLEAN, CreateTLSCertificate(c, statFails)
      PROVE  CertInv'
  <2>1. /\ self[c] \in Hosts /\ UNCHANGED <<disk, self>>
        /\ certs' = IF statFails THEN [certs EXCEPT ![self[c]] = {}] ELSE certs
        /\ pc'[c] = IF MissingTLS(self[c], statFails) THEN "certify" ELSE "pair"
    BY <1>5 DEF CreateTLSCertificate, CallInv, Goto
  <2>2. MissingTLS(self[c], statFails) => certs'[self[c]] = {}
    BY <2>1, NotKeys DEF MissingTLS, CertInv, Crt, Pem
  <2>3. QED
    BY <2>1, <2>2 DEF CertInv, Crt, Pem, Certifying, Writing, OneCaller
<1>6. ASSUME NEW c \in Callers, Certify(c) PROVE CertInv'
  BY <1>6 DEF Certify, CertInv, Crt, Pem, Certifying, OneCaller
<1>7. ASSUME NEW c \in Callers, LoadPair(c) PROVE CertInv'
  <2> DEFINE h == self[c]
  <2>1. /\ h \in Hosts /\ UNCHANGED disk /\ pc'[c] = "idle"
        /\ certs' = IF Crt(h) \in Keys /\ Crt(h) = Pem(h)
                    THEN [certs EXCEPT ![h] = @ \cup {Crt(h)}] ELSE certs
    BY <1>7 DEF LoadPair, CallInv, Crt, Pem, Return, Goto
  <2>2. QED
    BY <2>1 DEF CertInv, Crt, Pem, Certifying, Writing, OneCaller
<1>8. ASSUME NEW c \in Callers,
             \/ \E andTLS, statFails \in BOOLEAN : Ask(c, andTLS, statFails)
             \/ Generate(c) \/ Load(c) \/ Fails(c)
      PROVE  CertInv'
  <2>1. /\ UNCHANGED <<disk, certs>>
        /\ Writing(c)' => path'[c] = Key
        /\ pc'[c] # "certify"
    BY <1>8 DEF Ask, Generate, Load, Fails, Identified, Return, Goto, Writing
  <2>2. QED
    BY <2>1 DEF CertInv, Crt, Pem, Certifying, OneCaller
<1>9. ASSUME NEW c \in Callers, Create(c) \/ WritePart(c) \/ Write(c) PROVE CertInv'
  <2>1. CASE path[c] = Key
    <3>1. /\ UNCHANGED <<certs, path>> /\ pc'[c] # "certify"
          /\ \A h \in Hosts : Crt(h)' = Crt(h) /\ Pem(h)' = Pem(h)
      BY <1>9, <2>1, OnKey
    <3>2. QED
      BY <2>1, <3>1 DEF CertInv, Certifying, OneCaller
  <2>2. CASE path[c] # Key
    <3>1. self[c] \in Hosts /\ UNCHANGED <<certs, self>> /\ Certifying(c)
      BY <1>9, <2>2, OnTLS
    <3>2. \A g \in Hosts \ {self[c]} : Crt(g)' = Crt(g) /\ Pem(g)' = Pem(g)
      BY <1>9, <2>2, OnTLS
    <3>3. QED
      BY <3>1, <3>2 DEF CertInv, OneCaller
  <2>3. QED
    BY <2>1, <2>2
<1>10. QED
  BY <1>1, <1>2, <1>3, <1>4, <1>5, <1>6, <1>7, <1>8, <1>9 DEF Next

\* Steps that touch no certificate or private key and end no call.
LEMMA Elsewhere ==
  ASSUME TypeInv, NEW c \in Callers,
         \/ \E andTLS, statFails \in BOOLEAN : Ask(c, andTLS, statFails)
         \/ Generate(c) \/ Load(c) \/ LoadPair(c)
  PROVE  /\ UNCHANGED <<disk, halved, blind, broken>> /\ pc'[c] # "certify"
         /\ Writing(c)' => path'[c] = Key
         /\ ~Between(c)
<1> USE DEF TypeInv, TypeOK
<1>1. /\ UNCHANGED <<disk, halved, blind, broken>> /\ pc'[c] # "certify"
      /\ Writing(c)' => path'[c] = Key
  BY DEF Ask, Generate, Load, LoadPair, Identified, Return, Goto, Writing
<1>2. pc[c] \in {"idle", "generate", "load", "pair"}
  BY DEF Ask, Generate, Load, LoadPair
<1>3. ~Between(c)
  BY <1>2 DEF Between
<1>4. QED
  BY <1>1, <1>3

LEMMA KeyIsNoTLSFile == \A h : Key # <<"crt", h>> /\ Key # <<"pem", h>>
BY DEF Key

LEMMA BreakStep == ASSUME OneCaller PROVE TypeInv /\ BreakInv /\ [Next]_vars => BreakInv'
<1> SUFFICES ASSUME TypeInv, BreakInv, [Next]_vars PROVE BreakInv'
  OBVIOUS
<1> USE DEF TypeInv, TypeOK, Hosts
<1>1. CASE UNCHANGED vars
  <2>1. \A h : Mixed(h)' = Mixed(h) /\ Crt(h)' = Crt(h) /\ Pem(h)' = Pem(h)
    BY <1>1 DEF vars, Mixed, Crt, Pem
  <2>2. \A c : Between(c)' = Between(c) /\ Writing(c)' = Writing(c)
    BY <1>1 DEF vars, Between, Writing
  <2>3. UNCHANGED <<broken, self, pc, path, mine>>
    BY <1>1 DEF vars
  <2>4. QED
    BY <2>1, <2>2, <2>3 DEF BreakInv
<1>2. CASE DeleteKeys
  <2>1. \A h \in Hosts : Crt(h)' = Crt(h) /\ Pem(h)' = Pem(h)
    BY <1>2, TheFiles DEF DeleteKeys, Crt, Pem
  <2>2. QED
    BY <1>2, <2>1 DEF DeleteKeys, BreakInv, Mixed, Writing, Between
<1>3. CASE DeleteTLSKeyStore
  <2> DEFINE there == {f \in TLSFiles : disk[f] # Absent}
  <2>1. PICK gone \in SUBSET there : /\ disk' = [f \in Files |-> IF f \in gone THEN Absent ELSE disk[f]]
                                     /\ broken' = IF gone = there THEN {} ELSE broken
    BY <1>3 DEF DeleteTLSKeyStore
  <2>2. \A c \in Callers : pc[c] = "idle" /\ pc'[c] = "idle"
    BY <1>3 DEF DeleteTLSKeyStore
  <2>3. ASSUME NEW h \in Hosts, Mixed(h)' PROVE h \in broken'
    <3>1. <<"crt", h>> \notin gone /\ <<"pem", h>> \notin gone /\ Crt(h)' = Crt(h) /\ Pem(h)' = Pem(h)
      BY <2>1, <2>3, TheFiles, NotKeys DEF Mixed, Crt, Pem
    <3>2. <<"crt", h>> \in there
      BY <2>3, <3>1, TheFiles, NotKeys DEF Mixed, Crt, Pem, Files, TLSFiles
    <3>3. h \in broken
      BY <2>2, <2>3, <3>1 DEF BreakInv, Mixed, Between
    <3>4. QED
      BY <2>1, <3>1, <3>2, <3>3
  <2>4. QED
    BY <2>2, <2>3 DEF BreakInv, Writing
<1>4. CASE Crash \/ \E c \in Callers : Panic(c)
  <2>1. Die
    BY <1>4 DEF Crash, Panic
  <2>2. \A h \in Hosts : Mixed(h)' => h \in broken'
    BY <2>1 DEF Die, BreakInv, Mixed, Crt, Pem
  <2>3. QED
    BY <2>1, <2>2 DEF Die, BreakInv, Writing
<1>5. ASSUME NEW c \in Callers, Fails(c) PROVE BreakInv'
  <2>1. \A h \in Hosts : Mixed(h)' => h \in broken'
    BY <1>5 DEF Fails, BreakInv, Mixed, Crt, Pem, OneCaller
  <2>2. pc'[c] = "idle"
    BY <1>5 DEF Fails, Return, Goto
  <2>3. QED
    BY <2>1, <2>2 DEF BreakInv, Writing, OneCaller
<1>6. ASSUME NEW c \in Callers, Certify(c) \/ \E statFails \in BOOLEAN : CreateTLSCertificate(c, statFails)
      PROVE  BreakInv'
  <2>1. /\ UNCHANGED <<disk, broken, self>> /\ pc[c] \in {"stat", "certify"} /\ self[c] \in Hosts
        /\ Writing(c)' => path'[c] = <<"crt", self[c]>>
    <3>1. CASE Certify(c)
      BY <3>1, TheFiles DEF Certify, CallInv, Goto
    <3>2. CASE \E statFails \in BOOLEAN : CreateTLSCertificate(c, statFails)
      BY <3>2 DEF CreateTLSCertificate, CallInv, Goto, Writing
    <3>3. QED
      BY <1>6, <3>1, <3>2
  <2>2. ~Between(c) /\ <<"crt", self[c]>> # <<"pem", self[c]>>
    BY <2>1 DEF Between
  <2>3. QED
    BY <2>1, <2>2 DEF BreakInv, Mixed, Crt, Pem, OneCaller
<1>7. ASSUME NEW c \in Callers,
             \/ \E andTLS, statFails \in BOOLEAN : Ask(c, andTLS, statFails)
             \/ Generate(c) \/ Load(c) \/ LoadPair(c)
      PROVE  BreakInv'
  BY <1>7, Elsewhere, KeyIsNoTLSFile DEF BreakInv, Mixed, Crt, Pem, OneCaller
<1>8. ASSUME NEW c \in Callers, Create(c) \/ WritePart(c) \/ Write(c) PROVE BreakInv'
  <2>1. CASE path[c] = Key
    <3>1. /\ UNCHANGED <<broken, path>>
          /\ \A h \in Hosts : Crt(h)' = Crt(h) /\ Pem(h)' = Pem(h)
      BY <1>8, <2>1, OnKey
    <3>2. ~Between(c)
      BY <2>1, KeyIsNoTLSFile DEF Between
    <3>3. \A h \in Hosts : Mixed(h)' => h \in broken'
      BY <3>1, <3>2 DEF BreakInv, Mixed, OneCaller
    <3>4. path'[c] = Key
      BY <2>1, <3>1
    <3>5. \A d \in Callers : path'[d] # <<"pem", self'[d]>>
      BY <3>4, KeyIsNoTLSFile, Zenon DEF OneCaller
    <3>6. QED
      BY <3>3, <3>5 DEF BreakInv
  <2>2. CASE path[c] # Key
    <3> DEFINE h == self[c]
    <3>1. /\ Writing(c) /\ h \in Hosts /\ UNCHANGED <<self, mine>>
          /\ \A g \in Hosts \ {h} : /\ Crt(g)' = Crt(g) /\ Pem(g)' = Pem(g)
                                    /\ g \in broken' <=> g \in broken
      BY <1>8, <2>2, OnTLS DEF Create, WritePart, Write, Writing
    <3>2. \A g \in Hosts \ {h} : Mixed(g)' => g \in broken'
      BY <3>1 DEF BreakInv, Mixed, OneCaller
    <3>3. CASE path[c] = <<"crt", h>>
      <4>1. \/ pc'[c] = "write" /\ path'[c] = <<"crt", h>>
            \/ Crt(h)' = mine[c] /\ pc'[c] = "create" /\ path'[c] = <<"pem", h>>
        BY <1>8, <2>2, <3>1, <3>3, OnTLS, TheFiles
      <4>2. Between(c)'
        BY <3>1, <4>1 DEF Between
      <4>3. <<"crt", h>> # <<"pem", h>>
        OBVIOUS
      <4>4. QED
        BY <3>1, <3>2, <4>1, <4>2, <4>3 DEF BreakInv, OneCaller
    <3>4. CASE path[c] = <<"pem", h>>
      <4>1. /\ Crt(h)' = Crt(h)
            /\ \/ (Pem(h)' \notin Keys \/ Pem(h)' = mine[c]) /\ path'[c] = <<"pem", h>>
               \/ Pem(h)' = mine[c] /\ path'[c] = <<"crl", h>>
        BY <1>8, <2>2, <3>1, <3>4, OnTLS, TheFiles
      <4>2. Crt(h) = mine[c] /\ <<"crl", h>> # <<"pem", h>>
        BY <3>1, <3>4 DEF BreakInv
      <4>3. QED
        BY <3>1, <3>2, <4>1, <4>2 DEF BreakInv, Mixed, OneCaller
    <3>5. CASE path[c] = <<"crl", h>>
      <4>1. /\ Crt(h)' = Crt(h) /\ Pem(h)' = Pem(h) /\ broken' = broken
            /\ Writing(c)' => path'[c] = <<"crl", h>>
        BY <1>8, <2>2, <3>1, <3>5, OnTLS, TheFiles DEF Writing
      <4>2. <<"crl", h>> # <<"pem", h>> /\ <<"crl", h>> # <<"crt", h>>
        OBVIOUS
      <4>3. ~Between(c)
        BY <3>5, <4>2 DEF Between
      <4>4. QED
        BY <3>1, <3>2, <4>1, <4>2, <4>3 DEF BreakInv, Mixed, OneCaller
    <3>6. QED
      BY <1>8, <2>2, <3>3, <3>4, <3>5, OnTLS
  <2>3. QED
    BY <2>1, <2>2
<1>9. QED
  BY <1>1, <1>2, <1>3, <1>4, <1>5, <1>6, <1>7, <1>8 DEF Next

LEMMA CauseStep == ASSUME OneCaller PROVE TypeInv /\ BreakInv /\ CauseInv /\ [Next]_vars => CauseInv'
<1> SUFFICES ASSUME TypeInv, BreakInv, CauseInv, [Next]_vars PROVE CauseInv'
  OBVIOUS
<1> USE DEF TypeInv, TypeOK, Hosts
<1>1. CASE UNCHANGED vars
  BY <1>1 DEF vars, CauseInv, Mixed, Crt, Pem, Writing
<1>2. CASE DeleteKeys
  <2>1. \A h \in Hosts : Crt(h)' = Crt(h) /\ Pem(h)' = Pem(h)
    BY <1>2, TheFiles DEF DeleteKeys, Crt, Pem
  <2>2. QED
    BY <1>2, <2>1 DEF DeleteKeys, CauseInv, Mixed, Writing
<1>3. CASE DeleteTLSKeyStore
  <2>1. ~halved' => \A f \in TLSFiles : disk'[f] = Absent
    <3> DEFINE there == {f \in TLSFiles : disk[f] # Absent}
    <3>1. PICK gone \in SUBSET there : /\ disk' = [f \in Files |-> IF f \in gone THEN Absent ELSE disk[f]]
                                       /\ halved' = (gone # there)
      BY <1>3 DEF DeleteTLSKeyStore
    <3>2. ASSUME ~halved', NEW f \in TLSFiles PROVE disk'[f] = Absent
      <4>1. f \in Files /\ gone = there
        BY <3>1, <3>2 DEF Files
      <4>2. QED
        BY <3>1, <4>1
    <3>3. QED
      BY <3>2
  <2>2. ~halved' => \A h \in Hosts : Crt(h)' = Absent /\ Pem(h)' = Absent
    BY <2>1, TheFiles DEF Crt, Pem, Files
  <2>3. \A c \in Callers : pc'[c] = "idle"
    BY <1>3 DEF DeleteTLSKeyStore
  <2>4. QED
    BY <2>2, <2>3, NotKeys DEF CauseInv, Mixed, Writing
<1>4. CASE Crash \/ \E c \in Callers : Panic(c)
  BY <1>4 DEF Crash, Panic, Die, CauseInv, Mixed, Crt, Pem, Writing
<1>5. ASSUME NEW c \in Callers, NEW statFails \in BOOLEAN, CreateTLSCertificate(c, statFails)
      PROVE  CauseInv'
  <2>1. /\ self[c] \in Hosts /\ UNCHANGED <<disk, halved, self, path>>
        /\ blind' = IF statFails THEN blind \cup {self[c]} ELSE blind
        /\ pc'[c] = IF MissingTLS(self[c], statFails) THEN "certify" ELSE "pair"
    BY <1>5 DEF CreateTLSCertificate, CallInv, Goto
  <2>2. MissingTLS(self[c], statFails) /\ ~(self[c] \in blind' \/ halved) => Pem(self[c]) = Absent
    BY <2>1 DEF MissingTLS, CauseInv, Crt, Pem
  <2>3. QED
    BY <2>1, <2>2 DEF CauseInv, Mixed, Crt, Pem, Writing, OneCaller
<1>6. ASSUME NEW c \in Callers, Certify(c) PROVE CauseInv'
  <2>1. /\ pc[c] = "certify" /\ pc'[c] = "create" /\ path'[c] = <<"crt", self[c]>> /\ self[c] \in Hosts
        /\ UNCHANGED <<disk, halved, blind, self>>
    BY <1>6 DEF Certify, CallInv, Goto, Files, TLSFiles
  <2>2. path'[c] # <<"pem", self[c]>>
    BY <2>1
  <2>3. QED
    BY <2>1, <2>2 DEF CauseInv, Mixed, Crt, Pem, Writing, OneCaller
<1>7. ASSUME NEW c \in Callers,
             \/ \E andTLS, statFails \in BOOLEAN : Ask(c, andTLS, statFails)
             \/ Generate(c) \/ Load(c) \/ LoadPair(c)
      PROVE  CauseInv'
  BY <1>7, Elsewhere, KeyIsNoTLSFile DEF CauseInv, Mixed, Crt, Pem, Writing, OneCaller
<1>8. ASSUME NEW c \in Callers, Fails(c) PROVE CauseInv'
  BY <1>8 DEF Fails, Return, Goto, CauseInv, Mixed, Crt, Pem, Writing, OneCaller
<1>9. ASSUME NEW c \in Callers, Create(c) \/ WritePart(c) \/ Write(c) PROVE CauseInv'
  <2>1. CASE path[c] = Key
    <3>1. /\ UNCHANGED <<halved, blind, path>> /\ pc'[c] # "certify"
          /\ \A h \in Hosts : Crt(h)' = Crt(h) /\ Pem(h)' = Pem(h)
      BY <1>9, <2>1, OnKey
    <3>2. QED
      BY <2>1, <3>1, KeyIsNoTLSFile DEF CauseInv, Mixed, OneCaller
  <2>2. CASE path[c] # Key
    <3> DEFINE h == self[c]
    <3>1. /\ Writing(c) /\ h \in Hosts /\ UNCHANGED <<halved, blind, self, mine>> /\ pc'[c] # "certify"
          /\ \A g \in Hosts \ {h} : Crt(g)' = Crt(g) /\ Pem(g)' = Pem(g)
      BY <1>9, <2>2, OnTLS DEF Create, WritePart, Write, Writing
    <3>2. mine[c] \in Keys /\ Absent \notin Keys
      BY <3>1, NotKeys DEF CallInv
    <3>3. CASE path[c] = <<"crt", h>>
      <4>1. /\ Pem(h)' = Pem(h) /\ Crt(h)' # Absent
            /\ \/ path'[c] = <<"crt", h>>
               \/ Crt(h)' = mine[c] /\ path'[c] = <<"pem", h>>
        BY <1>9, <2>2, <3>1, <3>3, OnTLS, TheFiles
      <4>2. <<"crt", h>> # <<"pem", h>>
        OBVIOUS
      <4>3. QED
        BY <3>1, <3>2, <3>3, <4>1, <4>2 DEF CauseInv, Mixed, OneCaller
    <3>4. CASE path[c] = <<"pem", h>>
      <4>1. /\ Crt(h)' = Crt(h)
            /\ \/ (Pem(h)' \notin Keys \/ Pem(h)' = mine[c]) /\ pc'[c] = "write" /\ path'[c] = <<"pem", h>>
               \/ Pem(h)' = mine[c] /\ path'[c] = <<"crl", h>>
        BY <1>9, <2>2, <3>1, <3>4, OnTLS, TheFiles
      <4>2. <<"crt", h>> # <<"pem", h>> /\ <<"crl", h>> # <<"pem", h>> /\ <<"crl", h>> # <<"crt", h>>
        OBVIOUS
      <4>3. Crt(h) = mine[c]
        BY <3>1, <3>4 DEF BreakInv
      <4>4. QED
        BY <3>1, <3>2, <4>1, <4>2, <4>3 DEF CauseInv, Mixed, OneCaller
    <3>5. CASE path[c] = <<"crl", h>>
      <4>1. /\ Crt(h)' = Crt(h) /\ Pem(h)' = Pem(h)
            /\ Writing(c)' => path'[c] = <<"crl", h>>
        BY <1>9, <2>2, <3>1, <3>5, OnTLS, TheFiles DEF Writing
      <4>2. <<"crl", h>> # <<"pem", h>> /\ <<"crl", h>> # <<"crt", h>>
        OBVIOUS
      <4>3. QED
        BY <3>1, <4>1, <4>2 DEF CauseInv, Mixed, Writing, OneCaller
    <3>6. QED
      BY <1>9, <2>2, <3>3, <3>4, <3>5, OnTLS
  <2>3. QED
    BY <2>1, <2>2
<1>10. QED
  BY <1>1, <1>2, <1>3, <1>4, <1>5, <1>6, <1>7, <1>8, <1>9 DEF Next

\* With one caller at a time, calls return no identity but the key on disk and
\* the one TorKeys reads from it, whatever fails and wherever the program dies,
\* until the keys are deleted or a failing Stat has i2pKeys write over them.
THEOREM IdentityKept ==
  ASSUME OneCaller
  PROVE  Spec => []OneIdentity
<1>1. KeyInv => OneIdentity
  BY DEF KeyInv, OneIdentity
<1>2. Spec => []KeyInv
  BY InvInit, KeyStep, TypesCorrect, PTL DEF Spec
<1>3. QED
  BY <1>1, <1>2, PTL

\* And a host that was given a certificate is given the same until the TLS key
\* store is deleted or a Stat fails on it.
THEOREM CertificateKept ==
  ASSUME OneCaller
  PROVE  Spec => []OneCertificate
<1>1. CertInv => OneCertificate
  <2> SUFFICES ASSUME CertInv, NEW h \in Hosts PROVE Cardinality(certs[h]) <= 1
    BY DEF OneCertificate
  <2>1. certs[h] = {} \/ certs[h] = {Crt(h)}
    BY DEF CertInv
  <2>2. Cardinality({}) = 0 /\ Cardinality({Crt(h)}) = 1
    BY FS_EmptySet, FS_Singleton
  <2>3. QED
    BY <2>1, <2>2
<1>2. Spec => []CertInv
  BY InvInit, CertStep, TypesCorrect, PTL DEF Spec
<1>3. QED
  BY <1>1, <1>2, PTL

\* A certificate stands beside the private key of another one only after a
\* deletion that stopped half way or a failing Stat, and only while a call is
\* between the two files or after the last one ended there.
THEOREM PairsKept ==
  ASSUME OneCaller
  PROVE  Spec => []PairsMatch
<1>1. PairInv => PairsMatch
  <2> SUFFICES ASSUME PairInv, NEW h \in Hosts,
                      {Crt(h), Pem(h)} \subseteq Keys, Crt(h) # Pem(h)
               PROVE  /\ h \in blind \/ halved
                      /\ h \in broken \/ \E c \in Callers : self[c] = h /\ Between(c)
    BY DEF PairsMatch, Crt, Pem
  <2>1. Mixed(h)
    BY DEF Mixed
  <2>2. QED
    BY <2>1 DEF PairInv, BreakInv, CauseInv
<1>2. TypeInv /\ PairInv /\ [Next]_vars => PairInv'
  BY BreakStep, CauseStep DEF PairInv
<1>3. Spec => []PairInv
  BY <1>2, InvInit, TypesCorrect, PTL DEF Spec
<1>4. QED
  BY <1>1, <1>3, PTL
=============================================================================
