--------------------- MODULE ContinuationRegistryProofs ---------------------
(***************************************************************************)
(* Proofs about the continuation registry, for any number of handles,      *)
(* users, workspaces and connections, any sizes and any limits.            *)
(*                                                                         *)
(* The first part counts: what inserting into and deleting from a table of *)
(* entries does to the number of tokens and bytes charged to an account.   *)
(* The bytes an account holds are the cardinality of a set of byte units   *)
(* (UnitsOf), so no sum over a set is needed.                              *)
(***************************************************************************)
EXTENDS ContinuationRegistry, FiniteSetTheorems, TLAPS

\* ChargedTo and UnitsOf of any table of entries E.
Charged(E, k) == {h \in DOMAIN E : k \in KeysOf(E[h])}
Units(E, k) == {u \in Charged(E, k) \X (1..MaxStateBytes) : u[2] <= E[u[1]].bytes}

\* A table whose entries respect the per-state byte limit.
Table(E) ==
  /\ DOMAIN E \subseteq Handle
  /\ E \in [DOMAIN E -> EntryType]
  /\ \A h \in DOMAIN E : E[h].bytes <= MaxStateBytes

Without(E, h) == [g \in DOMAIN E \ {h} |-> E[g]]
With(E, h, e) == [g \in DOMAIN E \cup {h} |-> IF g = h THEN e ELSE E[g]]

\* An account holds finitely many tokens and bytes.
LEMMA ChargedFinite ==
  ASSUME NEW E, Table(E), NEW k
  PROVE  /\ IsFiniteSet(Charged(E, k)) /\ Cardinality(Charged(E, k)) \in Nat
         /\ IsFiniteSet(Units(E, k)) /\ Cardinality(Units(E, k)) \in Nat
<1>1. IsFiniteSet(Charged(E, k))
  <2>1. Charged(E, k) \in SUBSET Handle
    BY DEF Charged, Table
  <2> QED BY <2>1, HandlesFinite, FS_Subset
<1>2. IsFiniteSet(Units(E, k))
  <2>1. IsFiniteSet(1..MaxStateBytes)
    <3>1. 1 \in Int /\ MaxStateBytes \in Int
      BY ConfigNormalized
    <3> QED BY <3>1, FS_Interval
  <2>2. IsFiniteSet(Charged(E, k) \X (1..MaxStateBytes))
    BY <1>1, <2>1, FS_Product
  <2>3. Units(E, k) \in SUBSET (Charged(E, k) \X (1..MaxStateBytes))
    BY DEF Units
  <2> QED BY <2>2, <2>3, FS_Subset
<1> QED BY <1>1, <1>2, FS_CardinalityType

\* One entry of n bytes accounts for n byte units.
LEMMA UnitsOfOne ==
  ASSUME NEW h, NEW n \in Nat
  PROVE  /\ IsFiniteSet({h} \X (1..n))
         /\ Cardinality({h} \X (1..n)) = n
<1>1. IsFiniteSet(1..n) /\ Cardinality(1..n) = n
  <2>1. 1 \in Int /\ n \in Int
    OBVIOUS
  <2>2. /\ IsFiniteSet(1..n)
        /\ Cardinality(1..n) = IF 1 > n THEN 0 ELSE n - 1 + 1
    BY <2>1, FS_Interval
  <2> QED BY <2>2
<1>2. IsFiniteSet({h}) /\ Cardinality({h}) = 1
  BY FS_Singleton
<1> QED BY <1>1, <1>2, FS_Product

\* Deleting an entry takes one token and its bytes from exactly its accounts.
LEMMA CountWithoutEntry ==
  ASSUME NEW E, Table(E), NEW h \in DOMAIN E, NEW k
  PROVE  LET F == Without(E, h)
             n == E[h].bytes
         IN /\ Table(F)
            /\ k \in KeysOf(E[h]) =>
                 /\ Cardinality(Charged(F, k)) = Cardinality(Charged(E, k)) - 1
                 /\ Cardinality(Units(F, k)) = Cardinality(Units(E, k)) - n
            /\ k \notin KeysOf(E[h]) =>
                 /\ Cardinality(Charged(F, k)) = Cardinality(Charged(E, k))
                 /\ Cardinality(Units(F, k)) = Cardinality(Units(E, k))
<1> DEFINE F == Without(E, h)
           n == E[h].bytes
           U == {h} \X (1..n)
<1>0. n \in Nat /\ n <= MaxStateBytes /\ MaxStateBytes \in Nat
  BY ConfigNormalized DEF Table, EntryType
<1>1. DOMAIN F = DOMAIN E \ {h} /\ \A g \in DOMAIN F : F[g] = E[g]
  BY DEF Without
<1>2. Table(F)
  <2>1. F \in [DOMAIN E \ {h} -> EntryType]
    BY DEF Without, Table
  <2> QED BY <1>1, <2>1 DEF Table
<1>3. Charged(F, k) = Charged(E, k) \ {h}
  BY <1>1 DEF Charged
<1>4. Units(F, k) = Units(E, k) \ U
  <2>1. \A u : u \in Units(F, k) <=> u \in Units(E, k) /\ u[1] # h
    BY <1>1, <1>3 DEF Units, Charged
  <2>2. \A u \in Units(E, k) : u \in U <=> u[1] = h
    BY <1>0 DEF Units
  <2> QED BY <2>1, <2>2
<1>5. CASE k \in KeysOf(E[h])
  <2>1. h \in Charged(E, k)
    BY <1>5 DEF Charged
  <2>2. Cardinality(Charged(F, k)) = Cardinality(Charged(E, k)) - 1
    BY <2>1, <1>3, ChargedFinite, FS_RemoveElement
  <2>3. U \subseteq Units(E, k)
    BY <2>1, <1>0 DEF Units
  <2>4. Units(E, k) \cap U = U
    BY <2>3
  <2>5. Cardinality(Units(F, k)) = Cardinality(Units(E, k)) - n
    <3>1. IsFiniteSet(Units(E, k))
      BY ChargedFinite
    <3>2. Cardinality(Units(E, k) \ U)
            = Cardinality(Units(E, k)) - Cardinality(Units(E, k) \cap U)
      BY <3>1, FS_Difference
    <3>3. Cardinality(U) = n
      BY <1>0, UnitsOfOne
    <3> QED BY <1>4, <2>4, <3>2, <3>3
  <2> QED BY <1>2, <1>5, <2>2, <2>5
<1>6. CASE k \notin KeysOf(E[h])
  <2>1. h \notin Charged(E, k)
    BY <1>6 DEF Charged
  <2>2. Charged(F, k) = Charged(E, k)
    BY <1>3, <2>1
  <2>3. Units(F, k) = Units(E, k)
    BY <2>2, <2>1, <1>1 DEF Units, Charged
  <2> QED BY <1>2, <1>6, <2>2, <2>3
<1> QED BY <1>5, <1>6

\* Inserting an entry adds one token and its bytes to exactly its accounts.
LEMMA CountWithEntry ==
  ASSUME NEW E, Table(E), NEW h \in Handle \ DOMAIN E, NEW k,
         NEW e \in EntryType, e.bytes <= MaxStateBytes
  PROVE  LET F == With(E, h, e)
         IN /\ Table(F)
            /\ k \in KeysOf(e) =>
                 /\ Cardinality(Charged(F, k)) = Cardinality(Charged(E, k)) + 1
                 /\ Cardinality(Units(F, k)) = Cardinality(Units(E, k)) + e.bytes
            /\ k \notin KeysOf(e) =>
                 /\ Cardinality(Charged(F, k)) = Cardinality(Charged(E, k))
                 /\ Cardinality(Units(F, k)) = Cardinality(Units(E, k))
<1> DEFINE F == With(E, h, e)
<1>1. /\ DOMAIN F = DOMAIN E \cup {h} /\ F[h] = e
      /\ \A g \in DOMAIN E : F[g] = E[g]
  BY DEF With
<1>2. Table(F)
  <2>1. F \in [DOMAIN E \cup {h} -> EntryType]
    BY DEF With, Table
  <2> QED BY <1>1, <2>1 DEF Table
<1>3. E = Without(F, h)
  <2>1. DOMAIN F \ {h} = DOMAIN E
    BY <1>1
  <2>2. E = [g \in DOMAIN E |-> E[g]]
    BY DEF Table
  <2> QED BY <1>1, <2>1, <2>2 DEF Without
<1>4. /\ Cardinality(Charged(F, k)) \in Nat /\ Cardinality(Units(F, k)) \in Nat
  BY <1>2, ChargedFinite
<1>5. e.bytes \in Nat
  BY ConfigNormalized DEF EntryType
<1> QED BY <1>1, <1>2, <1>3, <1>4, <1>5, CountWithoutEntry

-----------------------------------------------------------------------------
(* Type correctness.                                                       *)

LEMMA AccountsOfState ==
  ASSUME NEW s, s.user \in User, s.ws \in Workspace, s.conn \in Connection
  PROVE  KeysOf(s) \subseteq Account
BY DEF KeysOf, Account

\* Releasing the quota of an entry leaves well-typed counters.
LEMMA ReleaseTyped ==
  ASSUME TypeOK, NEW e \in EntryType
  PROVE  CountWithout(e) \in [Account -> Nat] /\ BytesWithout(e) \in [Account -> Nat]
<1>1. e.bytes \in Nat
  BY ConfigNormalized DEF EntryType
<1>2. CountWithout(e) \in [Account -> Nat]
  BY DEF TypeOK, CountWithout
<1>3. \A k \in Account : ReleaseBytes(k, bytes[k], e.bytes) \in Nat
  BY <1>1 DEF TypeOK, ReleaseBytes
<1>4. BytesWithout(e) \in [Account -> Nat]
  BY <1>3 DEF TypeOK, BytesWithout
<1> QED BY <1>2, <1>4

\* Deleting an entry leaves a well-typed table and well-typed counters.
LEMMA DeleteTyped ==
  ASSUME TypeOK, NEW h \in DOMAIN entries, DeleteEntry(h)
  PROVE  /\ DOMAIN entries' = DOMAIN entries \ {h}
         /\ entries' \in [DOMAIN entries' -> EntryType]
         /\ count' \in [Account -> Nat] /\ bytes' \in [Account -> Nat]
<1>1. entries[h] \in EntryType
  BY DEF TypeOK
<1> QED BY <1>1, ReleaseTyped DEF DeleteEntry, TypeOK

\* A state accepted by Create or Rotate becomes a well-typed entry.
LEMMA NewEntryTyped ==
  ASSUME TypeOK, NEW s, s.user \in User, s.ws \in Workspace, s.conn \in Connection,
         s.bytes \in Sizes, NEW d \in Nat
  PROVE  NewEntry(s, d) \in EntryType
BY DEF TypeOK, NewEntry, EntryType, Status

LEMMA InitTyped == Init => TypeOK
<1> SUFFICES ASSUME Init PROVE TypeOK
  OBVIOUS
<1>1. now \in 0..MaxClock
  BY ConfigNormalized DEF Init
<1>2. DOMAIN entries = {} /\ entries \in [DOMAIN entries -> EntryType]
  BY DEF Init
<1>3. Issued = {} /\ chain \in [Issued -> [root : Handle, deadline : Nat]]
  BY DEF Init, Issued
<1> QED BY <1>1, <1>2, <1>3 DEF Init, TypeOK

LEMMA StepTyped == TypeOK /\ [Next]_vars => TypeOK'
<1> SUFFICES ASSUME TypeOK, [Next]_vars PROVE TypeOK'
  OBVIOUS
<1> USE DEF Issued
<1>1. CASE Tick
  BY <1>1, ConfigNormalized DEF Tick, TypeOK, quota
<1>2. ASSUME NEW s \in State, CreateBegin(s) PROVE TypeOK'
  <2>1. now + TTL \in Nat
    BY ConfigNormalized DEF TypeOK
  <2>2. creating' \subseteq RequestType
    BY <1>2, <2>1 DEF CreateBegin, State, RequestType
  <2> QED BY <1>2, <2>2 DEF CreateBegin, TypeOK, quota
<1>3. ASSUME NEW s \in creating, NEW h \in Handle, Evict(s, h) PROVE TypeOK'
  <2>1. h \in DOMAIN entries /\ DeleteEntry(h)
    BY <1>3 DEF Evict, Oldest, Evictable, Ready
  <2> QED BY <1>3, <2>1, DeleteTyped DEF Evict, TypeOK
<1>4. ASSUME NEW s \in creating, NEW h \in Handle, CreateInsert(s, h) PROVE TypeOK'
  <2>1. /\ s.user \in User /\ s.ws \in Workspace /\ s.conn \in Connection
        /\ s.bytes \in Sizes /\ s.bytes \in Nat /\ s.expiresAt \in Nat
    BY ConfigNormalized DEF TypeOK, RequestType
  <2>2. NewEntry(s, s.expiresAt) \in EntryType
    BY <2>1, NewEntryTyped
  <2>3. /\ entries' \in [DOMAIN entries' -> EntryType]
        /\ DOMAIN entries' \subseteq DOMAIN chain'
    BY <1>4, <2>2 DEF CreateInsert, TypeOK
  <2>4. count' \in [Account -> Nat] /\ bytes' \in [Account -> Nat]
    BY <1>4, <2>1 DEF CreateInsert, TypeOK
  <2>5. /\ DOMAIN chain' \subseteq Handle
        /\ chain' \in [DOMAIN chain' -> [root : Handle, deadline : Nat]]
    BY <1>4, <2>1 DEF CreateInsert, TypeOK
  <2> QED BY <1>4, <2>3, <2>4, <2>5 DEF CreateInsert, TypeOK
<1>5. ASSUME NEW s \in creating, CreateFail(s) PROVE TypeOK'
  BY <1>5 DEF CreateFail, TypeOK, quota
<1>6. ASSUME NEW h \in Handle, Claim(h) PROVE TypeOK'
  <2>1. h \in DOMAIN entries /\ entries[h] \in EntryType
    BY <1>6 DEF Claim, Ready, TypeOK
  <2>2. CASE Expired(h, now)
    <3>1. DeleteEntry(h)
      BY <1>6, <2>2 DEF Claim
    <3> QED BY <1>6, <2>1, <2>2, <3>1, DeleteTyped DEF Claim, TypeOK
  <2>3. CASE ~Expired(h, now)
    <3>1. [entries[h] EXCEPT !.status = "inFlight"] \in EntryType
      BY <2>1 DEF EntryType, Status
    <3>2. /\ DOMAIN entries' = DOMAIN entries
          /\ entries' \in [DOMAIN entries' -> EntryType]
      BY <1>6, <2>1, <2>3, <3>1 DEF Claim, TypeOK
    <3>3. claims' \subseteq ClaimType
      BY <1>6, <2>1, <2>3 DEF Claim, TypeOK, ClaimType, EntryType
    <3> QED BY <1>6, <2>3, <3>2, <3>3 DEF Claim, TypeOK, quota
  <2> QED BY <2>2, <2>3
<1>7. ASSUME NEW h \in Handle, Revoke(h) PROVE TypeOK'
  <2>1. h \in DOMAIN entries /\ DeleteEntry(h)
    BY <1>7 DEF Revoke, Ready
  <2> QED BY <1>7, <2>1, DeleteTyped DEF Revoke, TypeOK
<1>8. CASE SweepBegin
  BY <1>8 DEF SweepBegin, TypeOK, quota
<1>9. ASSUME NEW t \in sweeping, NEW h \in Handle, SweepDelete(t, h) PROVE TypeOK'
  BY <1>9, DeleteTyped DEF SweepDelete, TypeOK
<1>10. ASSUME NEW t \in sweeping, SweepEnd(t) PROVE TypeOK'
  BY <1>10 DEF SweepEnd, TypeOK, quota
<1>11. ASSUME NEW c \in claims, NEW s \in State, NEW v \in BOOLEAN, Rotate(c, s, v)
       PROVE  TypeOK'
  <2> DEFINE old == c.handle
             e == entries[old]
  <2>1. old \in DOMAIN entries /\ e \in EntryType
    BY <1>11 DEF Rotate, Owns, TypeOK
  <2>2. CASE RotateFail(c)
    <3>1. DeleteEntry(old)
      BY <2>2 DEF RotateFail
    <3> QED BY <1>11, <2>1, <2>2, <3>1, DeleteTyped DEF Rotate, RotateFail, TypeOK
  <2>3. ASSUME NEW h \in Fresh, Replace(old, s, h) PROVE TypeOK'
    <3>1. /\ s.user \in User /\ s.ws \in Workspace /\ s.conn \in Connection
          /\ s.bytes \in Sizes /\ s.bytes \in Nat /\ e.expiresAt \in Nat
      BY <2>1, ConfigNormalized DEF State, EntryType
    <3>2. NewEntry(s, SuccessorDeadline(e)) \in EntryType
      BY <3>1, NewEntryTyped DEF SuccessorDeadline
    <3>3. /\ entries' \in [DOMAIN entries' -> EntryType]
          /\ DOMAIN entries' \subseteq DOMAIN chain'
      BY <2>3, <3>2 DEF Replace, TypeOK, Fresh
    <3>4. CountWithout(e) \in [Account -> Nat] /\ BytesWithout(e) \in [Account -> Nat]
      BY <2>1, ReleaseTyped
    <3>5. count' \in [Account -> Nat] /\ bytes' \in [Account -> Nat]
      BY <2>3, <3>1, <3>4 DEF Replace
    <3>6. /\ DOMAIN chain' \subseteq Handle
          /\ chain' \in [DOMAIN chain' -> [root : Handle, deadline : Nat]]
      BY <2>1, <2>3 DEF Replace, TypeOK, Fresh
    <3>7. seq' \in Nat
      BY <2>3 DEF Replace, TypeOK
    <3> QED BY <1>11, <3>3, <3>5, <3>6, <3>7 DEF Rotate, TypeOK
  <2> QED BY <1>11, <2>2, <2>3 DEF Rotate
<1>12. ASSUME NEW c \in claims, Finish(c) PROVE TypeOK'
  <2>1. c.handle \in DOMAIN entries /\ DeleteEntry(c.handle)
    BY <1>12 DEF Finish, Owns
  <2> QED BY <1>12, <2>1, DeleteTyped DEF Finish, TypeOK
<1>13. CASE Close
  <2>1. DOMAIN entries' = {} /\ entries' \in [DOMAIN entries' -> EntryType]
    BY <1>13 DEF Close
  <2> QED BY <1>13, <2>1 DEF Close, TypeOK, quota
<1>14. CASE UNCHANGED vars
  BY <1>14 DEF vars, TypeOK
<1> QED BY <1>1, <1>2, <1>3, <1>4, <1>5, <1>6, <1>7, <1>8, <1>9, <1>10, <1>11,
           <1>12, <1>13, <1>14 DEF Next, CreateStep, SweepStep

\* Type correctness for every value of the constants.
THEOREM TypeCorrect == Spec => []TypeOK
BY InitTyped, StepTyped, PTL DEF Spec

-----------------------------------------------------------------------------
(***************************************************************************)
(* The effect of a step.  Whatever operation it belongs to, a step leaves  *)
(* the table alone, deletes, inserts, exchanges or claims one token, or    *)
(* closes the registry; the other invariants are proved by these cases.    *)
(***************************************************************************)
CreatingSound == /\ \A s \in creating' : s.bytes <= MaxStateBytes /\ ~closed'
                 /\ creating' = {} \/ sweeping' = {}

NoEffect == /\ UNCHANGED <<entries, count, bytes, closed, claims, chain>>
            /\ CreatingSound

Deletes == /\ \E h \in DOMAIN entries : DeleteEntry(h)
           /\ UNCHANGED <<closed, claims, chain>>
           /\ CreatingSound

Inserts == \E s \in creating, h \in Handle : CreateInsert(s, h)

Exchanges == /\ \E c \in claims, s \in State, h \in Fresh :
                  /\ Owns(c)
                  /\ RotateAllowed(entries[c.handle], s, TRUE)
                  /\ Replace(c.handle, s, h)
             /\ UNCHANGED <<closed, creating, claims>>
             /\ CreatingSound

Takes == /\ \E h \in Ready :
              /\ entries' = [entries EXCEPT ![h].status = "inFlight"]
              /\ claims' = claims \cup {[handle |-> h, version |-> entries[h].version]}
         /\ UNCHANGED <<count, bytes, closed, chain>>
         /\ CreatingSound

Effect == NoEffect \/ Deletes \/ Inserts \/ Exchanges \/ Takes \/ Close

\* Every step has one of these effects.
LEMMA StepEffect ==
  ASSUME TypeOK, Bookkeeping, [Next]_vars
  PROVE  Effect
<1>0. /\ \A s \in creating : s.bytes <= MaxStateBytes /\ ~closed
      /\ creating = {} \/ sweeping = {}
  BY DEF Bookkeeping
<1>1. CASE Tick
  BY <1>0, <1>1 DEF Tick, quota, Effect, NoEffect, CreatingSound
<1>2. ASSUME NEW s \in State, CreateBegin(s) PROVE Effect
  BY <1>2 DEF CreateBegin, Unlocked, quota, Effect, NoEffect, CreatingSound
<1>3. ASSUME NEW s \in creating, NEW h \in Handle, Evict(s, h) PROVE Effect
  <2>1. h \in DOMAIN entries
    BY <1>3 DEF Evict, Oldest, Evictable, Ready
  <2> QED BY <1>0, <1>3, <2>1 DEF Evict, Effect, Deletes, CreatingSound
<1>4. ASSUME NEW s \in creating, NEW h \in Handle, CreateInsert(s, h) PROVE Effect
  BY <1>4 DEF Effect, Inserts
<1>5. ASSUME NEW s \in creating, CreateFail(s) PROVE Effect
  BY <1>5 DEF CreateFail, quota, Effect, NoEffect, CreatingSound
<1>6. ASSUME NEW h \in Handle, Claim(h) PROVE Effect
  <2>1. h \in Ready /\ h \in DOMAIN entries
    BY <1>6 DEF Claim, Ready
  <2>2. CASE Expired(h, now)
    BY <1>0, <1>6, <2>1, <2>2 DEF Claim, Effect, Deletes, CreatingSound
  <2>3. CASE ~Expired(h, now)
    BY <1>0, <1>6, <2>1, <2>3 DEF Claim, quota, Effect, Takes, CreatingSound
  <2> QED BY <2>2, <2>3
<1>7. ASSUME NEW h \in Handle, Revoke(h) PROVE Effect
  BY <1>0, <1>7 DEF Revoke, Ready, Effect, Deletes, CreatingSound
<1>8. CASE SweepBegin
  BY <1>0, <1>8 DEF SweepBegin, Unlocked, quota, Effect, NoEffect, CreatingSound
<1>9. ASSUME NEW t \in sweeping, NEW h \in Handle, SweepDelete(t, h) PROVE Effect
  BY <1>0, <1>9 DEF SweepDelete, Effect, Deletes, CreatingSound
<1>10. ASSUME NEW t \in sweeping, SweepEnd(t) PROVE Effect
  BY <1>0, <1>10 DEF SweepEnd, quota, Effect, NoEffect, CreatingSound
<1>11. ASSUME NEW c \in claims, NEW s \in State, NEW v \in BOOLEAN, Rotate(c, s, v)
       PROVE  Effect
  <2>1. c.handle \in DOMAIN entries
    BY <1>11 DEF Rotate, Owns
  <2>2. CASE RotateFail(c)
    BY <1>0, <1>11, <2>1, <2>2
    DEF Rotate, RotateFail, Effect, Deletes, CreatingSound
  <2>3. ASSUME RotateAllowed(entries[c.handle], s, v), NEW h \in Fresh,
               Replace(c.handle, s, h)
        PROVE  Effect
    <3>1. RotateAllowed(entries[c.handle], s, TRUE)
      BY <2>3 DEF RotateAllowed
    <3> QED BY <1>0, <1>11, <2>3, <3>1 DEF Rotate, Effect, Exchanges, CreatingSound
  <2> QED BY <1>11, <2>2, <2>3 DEF Rotate
<1>12. ASSUME NEW c \in claims, Finish(c) PROVE Effect
  BY <1>0, <1>12 DEF Finish, Owns, Effect, Deletes, CreatingSound
<1>13. CASE Close
  BY <1>13 DEF Effect
<1>14. CASE UNCHANGED vars
  BY <1>0, <1>14 DEF vars, Effect, NoEffect, CreatingSound
<1> QED BY <1>1, <1>2, <1>3, <1>4, <1>5, <1>6, <1>7, <1>8, <1>9, <1>10, <1>11,
           <1>12, <1>13, <1>14 DEF Next, CreateStep, SweepStep

\* What an inserted and an exchanged token look like, in the terms of With and
\* Without.
LEMMA InsertShape ==
  ASSUME TypeOK, Bookkeeping, NEW s \in creating, NEW h \in Handle, CreateInsert(s, h)
  PROVE  LET e == NewEntry(s, s.expiresAt)
         IN /\ e \in EntryType /\ e.bytes = s.bytes /\ e.bytes <= MaxStateBytes
            /\ e.expiresAt = s.expiresAt /\ e.status = "ready"
            /\ KeysOf(e) = KeysOf(s) /\ KeysOf(s) \subseteq Account
            /\ h \notin DOMAIN entries /\ h \in Handle
            /\ entries' = With(entries, h, e)
<1>1. /\ s.user \in User /\ s.ws \in Workspace /\ s.conn \in Connection
      /\ s.bytes \in Sizes /\ s.expiresAt \in Nat
  BY DEF TypeOK, RequestType
<1>2. NewEntry(s, s.expiresAt) \in EntryType
  BY <1>1, NewEntryTyped
<1>3. s.bytes <= MaxStateBytes
  BY DEF Bookkeeping
<1>4. KeysOf(NewEntry(s, s.expiresAt)) = KeysOf(s)
  BY DEF NewEntry, KeysOf
<1>5. entries' = With(entries, h, NewEntry(s, s.expiresAt))
  BY DEF CreateInsert, With
<1> QED BY <1>1, <1>2, <1>3, <1>4, <1>5, AccountsOfState
        DEF CreateInsert, Fresh, TypeOK, NewEntry

LEMMA ExchangeShape ==
  ASSUME TypeOK, NEW c \in claims, NEW s \in State, NEW h \in Fresh, Owns(c),
         RotateAllowed(entries[c.handle], s, TRUE), Replace(c.handle, s, h)
  PROVE  LET old == entries[c.handle]
             e == NewEntry(s, old.expiresAt)
             F == Without(entries, c.handle)
         IN /\ c.handle \in DOMAIN entries /\ old \in EntryType
            /\ e \in EntryType /\ e.bytes = s.bytes /\ e.bytes <= MaxStateBytes
            /\ e.expiresAt = old.expiresAt /\ e.status = "ready"
            /\ KeysOf(e) = KeysOf(old) /\ KeysOf(s) = KeysOf(old)
            /\ KeysOf(s) \subseteq Account
            /\ h \notin DOMAIN entries /\ h \in Handle
            /\ entries' = With(F, h, e)
<1> DEFINE old == entries[c.handle]
           e == NewEntry(s, old.expiresAt)
           F == Without(entries, c.handle)
<1>1. c.handle \in DOMAIN entries /\ old \in EntryType
  BY DEF Owns, TypeOK
<1>2. /\ s.user \in User /\ s.ws \in Workspace /\ s.conn \in Connection
      /\ s.bytes \in Sizes /\ old.expiresAt \in Nat
  BY <1>1 DEF State, EntryType
<1>3. e \in EntryType
  BY <1>2, NewEntryTyped
<1>4. e.bytes = s.bytes /\ e.bytes <= MaxStateBytes
  BY DEF NewEntry, RotateAllowed
<1>5. KeysOf(s) = KeysOf(old) /\ KeysOf(e) = KeysOf(s)
  BY DEF RotateAllowed, SameIdentity, KeysOf, NewEntry
<1>6. h \notin DOMAIN entries /\ h \in Handle
  BY DEF Fresh, TypeOK
<1>7. entries' = With(F, h, e)
  BY <1>6 DEF Replace, With, Without, SuccessorDeadline
<1>8. e.expiresAt = old.expiresAt /\ e.status = "ready"
  BY DEF NewEntry
<1> QED BY <1>1, <1>2, <1>3, <1>4, <1>5, <1>6, <1>7, <1>8, AccountsOfState

-----------------------------------------------------------------------------
(* Quota accounting.                                                       *)

\* QuotaExact of a table and counters.
Exact(E, cnt, byt) ==
  \A k \in Account : /\ cnt[k] = Cardinality(Charged(E, k))
                     /\ byt[k] = Cardinality(Units(E, k))

LEMMA QuotaExactIsExact ==
  /\ QuotaExact <=> (~closed => Exact(entries, count, bytes))
  /\ QuotaExact' <=> (~closed' => Exact(entries', count', bytes'))
BY DEF QuotaExact, Exact, ChargedTo, UnitsOf, Charged, Units

LEMMA EntriesTable ==
  ASSUME TypeOK, Bookkeeping
  PROVE  Table(entries)
BY DEF TypeOK, Bookkeeping, Table

\* removeQuota releases exactly what the entry was charged: the counters cover it.
LEMMA ReleaseExact ==
  ASSUME TypeOK, Bookkeeping, Exact(entries, count, bytes),
         NEW h \in DOMAIN entries
  PROVE  LET e == entries[h]
             F == Without(entries, h)
         IN /\ Exact(F, CountWithout(e), BytesWithout(e))
            /\ \A k \in KeysOf(e) : /\ CountWithout(e)[k] = count[k] - 1
                                    /\ BytesWithout(e)[k] = bytes[k] - e.bytes
            /\ \A k \in Account : /\ CountWithout(e)[k] <= count[k]
                                  /\ BytesWithout(e)[k] <= bytes[k]
<1> DEFINE e == entries[h]
           F == Without(entries, h)
<1>1. Table(entries)
  BY EntriesTable
<1>2. e \in EntryType /\ e.bytes \in Nat /\ KeysOf(e) \subseteq Account
  <2>1. e \in EntryType
    BY DEF TypeOK
  <2>2. e.bytes \in Nat
    BY <2>1, ConfigNormalized DEF EntryType
  <2>3. e.user \in User /\ e.ws \in Workspace /\ e.conn \in Connection
    BY <2>1 DEF EntryType
  <2> QED BY <2>1, <2>2, <2>3, AccountsOfState
<1>3. ASSUME NEW k \in Account, k \in KeysOf(e)
      PROVE  /\ CountWithout(e)[k] = count[k] - 1
             /\ BytesWithout(e)[k] = bytes[k] - e.bytes
             /\ CountWithout(e)[k] = Cardinality(Charged(F, k))
             /\ BytesWithout(e)[k] = Cardinality(Units(F, k))
  <2>1. Table(F)
    BY <1>1, CountWithoutEntry
  <2>2. /\ Cardinality(Charged(F, k)) \in Nat
        /\ Cardinality(Units(F, k)) \in Nat
    BY <2>1, ChargedFinite
  <2>3. /\ Cardinality(Charged(F, k)) = count[k] - 1
        /\ Cardinality(Units(F, k)) = bytes[k] - e.bytes
    BY <1>1, <1>3, CountWithoutEntry DEF Exact
  <2>4. count[k] \in Nat /\ bytes[k] \in Nat
    BY DEF TypeOK
  <2>5. CountWithout(e)[k] = count[k] - 1
    BY <1>3, <2>2, <2>3, <2>4 DEF CountWithout
  <2>6. ReleaseBytes(k, bytes[k], e.bytes) = bytes[k] - e.bytes
    BY <1>2, <2>2, <2>3, <2>4 DEF ReleaseBytes
  <2>7. BytesWithout(e)[k] = bytes[k] - e.bytes
    BY <1>3, <2>6 DEF BytesWithout
  <2> QED BY <2>3, <2>5, <2>7
<1>4. ASSUME NEW k \in Account, k \notin KeysOf(e)
      PROVE  /\ CountWithout(e)[k] = count[k]
             /\ BytesWithout(e)[k] = bytes[k]
             /\ CountWithout(e)[k] = Cardinality(Charged(F, k))
             /\ BytesWithout(e)[k] = Cardinality(Units(F, k))
  <2>1. CountWithout(e)[k] = count[k] /\ BytesWithout(e)[k] = bytes[k]
    BY <1>4 DEF CountWithout, BytesWithout
  <2>2. /\ Cardinality(Charged(F, k)) = Cardinality(Charged(entries, k))
        /\ Cardinality(Units(F, k)) = Cardinality(Units(entries, k))
    BY <1>1, <1>4, CountWithoutEntry
  <2> QED BY <2>1, <2>2 DEF Exact
<1>5. \A k \in Account : count[k] \in Nat /\ bytes[k] \in Nat
  BY DEF TypeOK
<1> QED BY <1>2, <1>3, <1>4, <1>5 DEF Exact

\* Claiming a token does not change what it is charged to.
LEMMA TakeKeepsCharges ==
  ASSUME TypeOK, NEW h \in DOMAIN entries, NEW k,
         entries' = [entries EXCEPT ![h].status = "inFlight"]
  PROVE  Charged(entries', k) = Charged(entries, k) /\ Units(entries', k) = Units(entries, k)
<1>1. /\ DOMAIN entries' = DOMAIN entries
      /\ \A g \in DOMAIN entries : /\ entries'[g].user = entries[g].user
                                   /\ entries'[g].ws = entries[g].ws
                                   /\ entries'[g].conn = entries[g].conn
                                   /\ entries'[g].bytes = entries[g].bytes
  BY DEF TypeOK, EntryType
<1>2. Charged(entries', k) = Charged(entries, k)
  BY <1>1 DEF Charged, KeysOf
<1> QED BY <1>1, <1>2 DEF Units, Charged

LEMMA StepExact ==
  ASSUME TypeOK, Bookkeeping, QuotaExact, Effect
  PROVE  QuotaExact'
<1> SUFFICES ASSUME ~closed' PROVE Exact(entries', count', bytes')
  BY QuotaExactIsExact
<1>0. ~closed => Exact(entries, count, bytes)
  BY QuotaExactIsExact
<1>1. CASE NoEffect
  BY <1>0, <1>1 DEF NoEffect
<1>2. CASE Deletes
  <2>1. PICK h \in DOMAIN entries : DeleteEntry(h)
    BY <1>2 DEF Deletes
  <2>2. ~closed
    BY <1>2 DEF Deletes
  <2> QED BY <1>0, <2>1, <2>2, ReleaseExact DEF DeleteEntry, Without
<1>3. CASE Inserts
  <2>1. PICK s \in creating, h \in Handle : CreateInsert(s, h)
    BY <1>3 DEF Inserts
  <2> DEFINE e == NewEntry(s, s.expiresAt)
  <2>2. /\ e \in EntryType /\ e.bytes = s.bytes /\ e.bytes <= MaxStateBytes
        /\ KeysOf(e) = KeysOf(s) /\ h \in Handle \ DOMAIN entries
        /\ entries' = With(entries, h, e)
    BY <2>1, InsertShape
  <2>3. ~closed /\ Table(entries)
    BY <2>1, EntriesTable DEF CreateInsert
  <2>4. ASSUME NEW k \in Account
        PROVE  /\ count'[k] = Cardinality(Charged(entries', k))
               /\ bytes'[k] = Cardinality(Units(entries', k))
    <3>1. /\ count[k] = Cardinality(Charged(entries, k))
          /\ bytes[k] = Cardinality(Units(entries, k))
      BY <1>0, <2>3 DEF Exact
    <3>2. CASE k \in KeysOf(e)
      <4>1. count'[k] = count[k] + 1 /\ bytes'[k] = bytes[k] + e.bytes
        BY <2>1, <2>2, <3>2 DEF CreateInsert
      <4> QED BY <2>2, <2>3, <3>1, <3>2, <4>1, CountWithEntry
    <3>3. CASE k \notin KeysOf(e)
      <4>1. count'[k] = count[k] /\ bytes'[k] = bytes[k]
        BY <2>1, <2>2, <3>3 DEF CreateInsert
      <4> QED BY <2>2, <2>3, <3>1, <3>3, <4>1, CountWithEntry
    <3> QED BY <3>2, <3>3
  <2> QED BY <2>4 DEF Exact
<1>4. CASE Exchanges
  <2>1. PICK c \in claims, s \in State, h \in Fresh :
          /\ Owns(c)
          /\ RotateAllowed(entries[c.handle], s, TRUE)
          /\ Replace(c.handle, s, h)
    BY <1>4 DEF Exchanges
  <2> DEFINE old == entries[c.handle]
             e == NewEntry(s, old.expiresAt)
             F == Without(entries, c.handle)
  <2>2. /\ c.handle \in DOMAIN entries /\ old \in EntryType
        /\ e \in EntryType /\ e.bytes = s.bytes /\ e.bytes <= MaxStateBytes
        /\ KeysOf(e) = KeysOf(s)
        /\ h \notin DOMAIN entries /\ h \in Handle
        /\ entries' = With(F, h, e)
    BY <2>1, ExchangeShape
  <2>3. ~closed
    BY <1>4 DEF Exchanges
  <2>4. Exact(F, CountWithout(old), BytesWithout(old))
    BY <1>0, <2>2, <2>3, ReleaseExact
  <2>5. Table(F) /\ h \in Handle \ DOMAIN F
    BY <2>2, EntriesTable, CountWithoutEntry DEF Without
  <2>6. ASSUME NEW k \in Account
        PROVE  /\ count'[k] = Cardinality(Charged(entries', k))
               /\ bytes'[k] = Cardinality(Units(entries', k))
    <3>1. /\ CountWithout(old)[k] = Cardinality(Charged(F, k))
          /\ BytesWithout(old)[k] = Cardinality(Units(F, k))
      BY <2>4 DEF Exact
    <3>2. CASE k \in KeysOf(e)
      <4>1. /\ count'[k] = CountWithout(old)[k] + 1
            /\ bytes'[k] = BytesWithout(old)[k] + e.bytes
        BY <2>1, <2>2, <3>2 DEF Replace
      <4> QED BY <2>2, <2>5, <3>1, <3>2, <4>1, CountWithEntry
    <3>3. CASE k \notin KeysOf(e)
      <4>1. count'[k] = CountWithout(old)[k] /\ bytes'[k] = BytesWithout(old)[k]
        BY <2>1, <2>2, <3>3 DEF Replace
      <4> QED BY <2>2, <2>5, <3>1, <3>3, <4>1, CountWithEntry
    <3> QED BY <3>2, <3>3
  <2> QED BY <2>6 DEF Exact
<1>5. CASE Takes
  <2>1. PICK h \in DOMAIN entries :
          entries' = [entries EXCEPT ![h].status = "inFlight"]
    BY <1>5 DEF Takes, Ready
  <2>2. \A k : /\ Charged(entries', k) = Charged(entries, k)
               /\ Units(entries', k) = Units(entries, k)
    BY <2>1, TakeKeepsCharges
  <2>3. ~closed /\ count' = count /\ bytes' = bytes
    BY <1>5 DEF Takes
  <2> QED BY <1>0, <2>2, <2>3 DEF Exact
<1>6. CASE Close
  BY <1>6 DEF Close
<1> QED BY <1>1, <1>2, <1>3, <1>4, <1>5, <1>6 DEF Effect

-----------------------------------------------------------------------------
(* Limits.                                                                 *)

LEMMA LimitsNatural ==
  \A k : CountLimit(k) \in Nat \ {0} /\ ByteLimit(k) \in Nat \ {0}
BY ConfigNormalized DEF CountLimit, ByteLimit

\* An insertion was let in by HasRoom, an exchange by FitsBytes; nothing else
\* raises a counter.
LEMMA StepWithinLimits ==
  ASSUME TypeOK, Bookkeeping, QuotaExact, WithinLimits, Effect
  PROVE  WithinLimits'
<1> SUFFICES ASSUME NEW k \in Account
             PROVE  count'[k] <= CountLimit(k) /\ bytes'[k] <= ByteLimit(k)
  BY DEF WithinLimits
<1>0. /\ count[k] \in Nat /\ bytes[k] \in Nat
      /\ count[k] <= CountLimit(k) /\ bytes[k] <= ByteLimit(k)
      /\ CountLimit(k) \in Nat /\ ByteLimit(k) \in Nat
  BY LimitsNatural DEF TypeOK, WithinLimits
<1>1. CASE NoEffect
  BY <1>0, <1>1 DEF NoEffect
<1>2. CASE Deletes
  <2>1. PICK h \in DOMAIN entries : DeleteEntry(h)
    BY <1>2 DEF Deletes
  <2>2. ~closed
    BY <2>1 DEF Bookkeeping
  <2>3. Exact(entries, count, bytes)
    BY <2>2, QuotaExactIsExact
  <2>4. CountWithout(entries[h])[k] <= count[k] /\ BytesWithout(entries[h])[k] <= bytes[k]
    BY <2>3, ReleaseExact
  <2>5. /\ CountWithout(entries[h])[k] \in Nat /\ BytesWithout(entries[h])[k] \in Nat
    BY ReleaseTyped DEF TypeOK
  <2> QED BY <1>0, <2>1, <2>4, <2>5 DEF DeleteEntry
<1>3. CASE Inserts
  <2>1. PICK s \in creating, h \in Handle : CreateInsert(s, h)
    BY <1>3 DEF Inserts
  <2>2. s.bytes \in Nat
    BY ConfigNormalized DEF TypeOK, RequestType
  <2>3. CASE k \in KeysOf(s)
    <3>1. count[k] < CountLimit(k) /\ bytes[k] + s.bytes <= ByteLimit(k)
      BY <2>1, <2>3 DEF CreateInsert, HasRoom
    <3>2. count'[k] = count[k] + 1 /\ bytes'[k] = bytes[k] + s.bytes
      BY <2>1, <2>3 DEF CreateInsert
    <3> QED BY <1>0, <2>2, <3>1, <3>2
  <2>4. CASE k \notin KeysOf(s)
    BY <1>0, <2>1, <2>4 DEF CreateInsert
  <2> QED BY <2>3, <2>4
<1>4. CASE Exchanges
  <2>1. PICK c \in claims, s \in State, h \in Fresh :
          /\ Owns(c)
          /\ RotateAllowed(entries[c.handle], s, TRUE)
          /\ Replace(c.handle, s, h)
    BY <1>4 DEF Exchanges
  <2> DEFINE old == entries[c.handle]
  <2>2. c.handle \in DOMAIN entries /\ old \in EntryType /\ KeysOf(s) = KeysOf(old)
    BY <2>1, ExchangeShape
  <2>3. ~closed
    BY <2>2 DEF Bookkeeping
  <2>4. Exact(entries, count, bytes)
    BY <2>3, QuotaExactIsExact
  <2>5. /\ CountWithout(old)[k] \in Nat /\ BytesWithout(old)[k] \in Nat
    BY <2>2, ReleaseTyped
  <2>6. s.bytes \in Nat /\ old.bytes \in Nat
    BY <2>2, ConfigNormalized DEF State, EntryType
  <2>7. CASE k \in KeysOf(s)
    <3>1. /\ CountWithout(old)[k] = count[k] - 1
          /\ BytesWithout(old)[k] = bytes[k] - old.bytes
      BY <2>2, <2>4, <2>7, ReleaseExact
    <3>2. bytes[k] + (s.bytes - old.bytes) <= ByteLimit(k)
      BY <2>1, <2>7 DEF RotateAllowed, FitsBytes
    <3>3. /\ count'[k] = CountWithout(old)[k] + 1
          /\ bytes'[k] = BytesWithout(old)[k] + s.bytes
      BY <2>1, <2>7 DEF Replace
    <3> QED BY <1>0, <2>6, <3>1, <3>2, <3>3
  <2>8. CASE k \notin KeysOf(s)
    <3>1. /\ CountWithout(old)[k] <= count[k]
          /\ BytesWithout(old)[k] <= bytes[k]
      BY <2>2, <2>4, ReleaseExact
    <3>2. count'[k] = CountWithout(old)[k] /\ bytes'[k] = BytesWithout(old)[k]
      BY <2>1, <2>8 DEF Replace
    <3> QED BY <1>0, <2>5, <3>1, <3>2
  <2> QED BY <2>7, <2>8
<1>5. CASE Takes
  BY <1>0, <1>5 DEF Takes
<1>6. CASE Close
  BY <1>0, <1>6 DEF Close, quota
<1> QED BY <1>1, <1>2, <1>3, <1>4, <1>5, <1>6 DEF Effect

-----------------------------------------------------------------------------
(* Claims, chains and deadlines.                                           *)

LEMMA StepBookkeeping ==
  ASSUME TypeOK, Bookkeeping, Effect
  PROVE  Bookkeeping'
<1> USE DEF Issued
<1>1. CASE NoEffect
  BY <1>1 DEF NoEffect, CreatingSound, Bookkeeping
<1>2. CASE Deletes
  <2>1. PICK h \in DOMAIN entries : DeleteEntry(h)
    BY <1>2 DEF Deletes
  <2>2. /\ DOMAIN entries' = DOMAIN entries \ {h}
        /\ \A g \in DOMAIN entries' : entries'[g] = entries[g]
    BY <2>1 DEF DeleteEntry
  <2> QED BY <1>2, <2>2 DEF Deletes, CreatingSound, Bookkeeping
<1>3. CASE Inserts
  <2>1. PICK s \in creating, h \in Handle : CreateInsert(s, h)
    BY <1>3 DEF Inserts
  <2>2. entries' = With(entries, h, NewEntry(s, s.expiresAt))
        /\ NewEntry(s, s.expiresAt).bytes <= MaxStateBytes
    BY <2>1, InsertShape
  <2>3. \A g \in DOMAIN entries' : entries'[g].bytes <= MaxStateBytes
    BY <2>2 DEF With, Bookkeeping
  <2>4. \A g \in DOMAIN chain' : chain'[g].root \in DOMAIN chain'
    BY <2>1 DEF CreateInsert, Bookkeeping
  <2>5. closed' = FALSE /\ creating' = {} /\ claims' = claims
    BY <2>1 DEF CreateInsert, TypeOK, Bookkeeping
  <2>6. DOMAIN chain \subseteq DOMAIN chain'
    BY <2>1 DEF CreateInsert
  <2> QED BY <2>3, <2>4, <2>5, <2>6 DEF Bookkeeping
<1>4. CASE Exchanges
  <2>1. PICK c \in claims, s \in State, h \in Fresh :
          /\ Owns(c)
          /\ RotateAllowed(entries[c.handle], s, TRUE)
          /\ Replace(c.handle, s, h)
    BY <1>4 DEF Exchanges
  <2> DEFINE F == Without(entries, c.handle)
             e == NewEntry(s, entries[c.handle].expiresAt)
  <2>2. entries' = With(F, h, e) /\ e.bytes <= MaxStateBytes
        /\ c.handle \in DOMAIN entries
    BY <2>1, ExchangeShape
  <2>3. \A g \in DOMAIN entries' : entries'[g].bytes <= MaxStateBytes
    BY <2>2 DEF With, Without, Bookkeeping
  <2>4. \A g \in DOMAIN chain' : chain'[g].root \in DOMAIN chain'
    BY <2>1, <2>2 DEF Replace, Bookkeeping, TypeOK
  <2>5. DOMAIN chain \subseteq DOMAIN chain'
    BY <2>1 DEF Replace
  <2>6. ~closed'
    BY <1>4, <2>2 DEF Exchanges, Bookkeeping
  <2> QED BY <1>4, <2>3, <2>4, <2>5, <2>6 DEF Exchanges, CreatingSound, Bookkeeping
<1>5. CASE Takes
  <2>1. PICK h \in Ready :
          /\ entries' = [entries EXCEPT ![h].status = "inFlight"]
          /\ claims' = claims \cup {[handle |-> h, version |-> entries[h].version]}
    BY <1>5 DEF Takes
  <2>2. /\ DOMAIN entries' = DOMAIN entries /\ h \in DOMAIN entries
        /\ \A g \in DOMAIN entries : entries'[g].bytes = entries[g].bytes
    BY <2>1 DEF TypeOK, EntryType, Ready
  <2>3. ~closed
    BY <2>2 DEF Bookkeeping
  <2> QED BY <1>5, <2>1, <2>2, <2>3 DEF Takes, CreatingSound, Bookkeeping, TypeOK
<1>6. CASE Close
  BY <1>6 DEF Close, Unlocked, Bookkeeping
<1> QED BY <1>1, <1>2, <1>3, <1>4, <1>5, <1>6 DEF Effect

\* A claim is taken on a ready token, so on one no claim exists for; and a new
\* handle is one no claim was ever taken on.
LEMMA StepClaimed ==
  ASSUME TypeOK, Bookkeeping, ClaimedStaysClaimed, Effect
  PROVE  ClaimedStaysClaimed'
<1> SUFFICES ASSUME NEW c \in claims', c.handle \in DOMAIN entries'
             PROVE  Owns(c)'
  BY DEF ClaimedStaysClaimed
<1>0. \A d \in claims : d.handle \in DOMAIN entries =>
        /\ entries[d.handle].status = "inFlight"
        /\ entries[d.handle].version = d.version
  BY DEF ClaimedStaysClaimed, Owns
<1>1. CASE NoEffect
  BY <1>0, <1>1 DEF NoEffect, Owns
<1>2. CASE Deletes
  <2>1. PICK h \in DOMAIN entries : DeleteEntry(h)
    BY <1>2 DEF Deletes
  <2>2. /\ DOMAIN entries' = DOMAIN entries \ {h} /\ claims' = claims
        /\ \A g \in DOMAIN entries' : entries'[g] = entries[g]
    BY <1>2, <2>1 DEF DeleteEntry, Deletes
  <2> QED BY <1>0, <2>2 DEF Owns
<1>3. CASE Inserts
  <2>1. PICK s \in creating, h \in Handle : CreateInsert(s, h)
    BY <1>3 DEF Inserts
  <2>2. c \in claims /\ c.handle # h
    BY <2>1 DEF CreateInsert, Fresh, Bookkeeping
  <2>3. entries'[c.handle] = entries[c.handle] /\ c.handle \in DOMAIN entries
    BY <2>1, <2>2 DEF CreateInsert
  <2> QED BY <1>0, <2>2, <2>3 DEF Owns
<1>4. CASE Exchanges
  <2>1. PICK d \in claims, s \in State, h \in Fresh : Replace(d.handle, s, h)
    BY <1>4 DEF Exchanges
  <2>2. c \in claims /\ c.handle # h
    BY <1>4, <2>1 DEF Exchanges, Fresh, Bookkeeping
  <2>3. entries'[c.handle] = entries[c.handle] /\ c.handle \in DOMAIN entries
    BY <2>1, <2>2 DEF Replace
  <2> QED BY <1>0, <2>2, <2>3 DEF Owns
<1>5. CASE Takes
  <2>1. PICK h \in Ready :
          /\ entries' = [entries EXCEPT ![h].status = "inFlight"]
          /\ claims' = claims \cup {[handle |-> h, version |-> entries[h].version]}
    BY <1>5 DEF Takes
  <2>2. h \in DOMAIN entries /\ entries[h].status = "ready" /\ entries[h] \in EntryType
    BY <2>1 DEF Ready, TypeOK
  <2>3. DOMAIN entries' = DOMAIN entries
    BY <2>1
  <2>4. CASE c \in claims
    <3>1. c.handle # h
      BY <1>0, <2>2, <2>4
    <3>2. entries'[c.handle] = entries[c.handle]
      BY <2>1, <2>3, <3>1
    <3> QED BY <1>0, <2>3, <2>4, <3>2 DEF Owns
  <2>5. CASE c = [handle |-> h, version |-> entries[h].version]
    <3>1. entries'[h] = [entries[h] EXCEPT !.status = "inFlight"]
      BY <2>1, <2>2
    <3>2. entries'[h].status = "inFlight" /\ entries'[h].version = entries[h].version
      BY <2>2, <3>1 DEF EntryType
    <3> QED BY <2>3, <2>2, <2>5, <3>2 DEF Owns
  <2> QED BY <2>1, <2>4, <2>5
<1>6. CASE Close
  BY <1>6 DEF Close
<1> QED BY <1>1, <1>2, <1>3, <1>4, <1>5, <1>6 DEF Effect

\* A step keeps the chain of every issued handle.
LEMMA ChainStable ==
  ASSUME TypeOK, Effect
  PROVE  DOMAIN chain \subseteq DOMAIN chain' /\ \A g \in DOMAIN chain : chain'[g] = chain[g]
<1>1. CASE NoEffect \/ Deletes \/ Takes \/ Close
  BY <1>1 DEF NoEffect, Deletes, Takes, Close
<1>2. CASE Inserts
  BY <1>2 DEF Inserts, CreateInsert, Fresh, Issued
<1>3. CASE Exchanges
  BY <1>3 DEF Exchanges, Replace, Fresh, Issued
<1> QED BY <1>1, <1>2, <1>3 DEF Effect

\* A new chain has a new root, and a successor takes the place of the token it
\* succeeds and its deadline.
LEMMA StepChain ==
  ASSUME TypeOK, Bookkeeping, OneTokenPerChain, DeadlineAbsolute, Effect
  PROVE  OneTokenPerChain' /\ DeadlineAbsolute'
<1>0. /\ \A g, h \in DOMAIN entries : chain[g].root = chain[h].root => g = h
      /\ \A h \in DOMAIN entries : entries[h].expiresAt = chain[h].deadline
      /\ DOMAIN entries \subseteq DOMAIN chain
      /\ \A h \in DOMAIN chain : chain[h].root \in DOMAIN chain
  BY DEF OneTokenPerChain, DeadlineAbsolute, TypeOK, Bookkeeping, Issued
<1>1. ASSUME DOMAIN entries' \subseteq DOMAIN entries, chain' = chain,
             \A g \in DOMAIN entries' : entries'[g].expiresAt = entries[g].expiresAt
      PROVE  OneTokenPerChain' /\ DeadlineAbsolute'
  BY <1>0, <1>1 DEF OneTokenPerChain, DeadlineAbsolute
<1>2. CASE NoEffect
  BY <1>1, <1>2 DEF NoEffect
<1>3. CASE Deletes
  BY <1>1, <1>3 DEF Deletes, DeleteEntry
<1>4. CASE Inserts
  <2>1. PICK s \in creating, h \in Handle : CreateInsert(s, h)
    BY <1>4 DEF Inserts
  <2> DEFINE e == NewEntry(s, s.expiresAt)
  <2>2. entries' = With(entries, h, e) /\ e.expiresAt = s.expiresAt
        /\ h \notin DOMAIN chain
    BY <2>1, InsertShape DEF CreateInsert, Fresh, Issued
  <2>3. /\ DOMAIN chain' = DOMAIN chain \cup {h}
        /\ chain'[h].root = h /\ chain'[h].deadline = s.expiresAt
        /\ \A g \in DOMAIN chain : chain'[g] = chain[g]
    BY <2>1, <2>2 DEF CreateInsert, Issued
  <2>4. /\ DOMAIN entries' = DOMAIN entries \cup {h}
        /\ entries'[h].expiresAt = s.expiresAt
        /\ \A g \in DOMAIN entries : g # h /\ entries'[g] = entries[g]
    BY <1>0, <2>2 DEF With
  <2>5. DeadlineAbsolute'
    BY <1>0, <2>3, <2>4 DEF DeadlineAbsolute
  <2>6. OneTokenPerChain'
    BY <1>0, <2>2, <2>3, <2>4 DEF OneTokenPerChain
  <2> QED BY <2>5, <2>6
<1>5. CASE Exchanges
  <2>1. PICK c \in claims, s \in State, h \in Fresh :
          /\ Owns(c)
          /\ RotateAllowed(entries[c.handle], s, TRUE)
          /\ Replace(c.handle, s, h)
    BY <1>5 DEF Exchanges
  <2> DEFINE old == c.handle
             e == NewEntry(s, entries[old].expiresAt)
  <2>2. /\ old \in DOMAIN entries /\ h \notin DOMAIN chain
        /\ entries' = With(Without(entries, old), h, e)
        /\ e.expiresAt = entries[old].expiresAt
    BY <2>1, ExchangeShape DEF Fresh, Issued
  <2>3. /\ DOMAIN chain' = DOMAIN chain \cup {h} /\ chain'[h] = chain[old]
        /\ \A g \in DOMAIN chain : chain'[g] = chain[g]
    BY <2>1, <2>2 DEF Replace, Issued
  <2>4. /\ DOMAIN entries' = (DOMAIN entries \ {old}) \cup {h}
        /\ entries'[h].expiresAt = entries[old].expiresAt
        /\ \A g \in DOMAIN entries \ {old} : g # h /\ entries'[g] = entries[g]
    BY <1>0, <2>2 DEF With, Without
  <2>5. DeadlineAbsolute'
    BY <1>0, <2>2, <2>3, <2>4 DEF DeadlineAbsolute
  <2>6. OneTokenPerChain'
    BY <1>0, <2>2, <2>3, <2>4 DEF OneTokenPerChain
  <2> QED BY <2>5, <2>6
<1>6. CASE Takes
  <2>1. PICK h \in DOMAIN entries : entries' = [entries EXCEPT ![h].status = "inFlight"]
    BY <1>6 DEF Takes, Ready
  <2>2. \A g \in DOMAIN entries' : entries'[g].expiresAt = entries[g].expiresAt
    BY <2>1 DEF TypeOK, EntryType
  <2> QED BY <1>1, <1>6, <2>1, <2>2 DEF Takes
<1>7. CASE Close
  BY <1>1, <1>7 DEF Close
<1> QED BY <1>2, <1>3, <1>4, <1>5, <1>6, <1>7 DEF Effect

-----------------------------------------------------------------------------
(* The inductive invariant and what follows from it.                       *)

LEMMA InitInvariant == Init => IInv
<1> SUFFICES ASSUME Init PROVE IInv
  OBVIOUS
<1>1. TypeOK
  BY InitTyped
<1>2. DOMAIN entries = {} /\ DOMAIN chain = {} /\ claims = {} /\ creating = {}
  BY DEF Init
<1>3. Bookkeeping /\ ClaimedStaysClaimed /\ OneTokenPerChain /\ DeadlineAbsolute
  BY <1>2 DEF Bookkeeping, ClaimedStaysClaimed, OneTokenPerChain, DeadlineAbsolute, Issued
<1>4. WithinLimits
  BY LimitsNatural DEF Init, WithinLimits
<1>5. QuotaExact
  <2>1. \A k : Charged(entries, k) = {} /\ Units(entries, k) = {}
    BY <1>2 DEF Charged, Units
  <2>2. Exact(entries, count, bytes)
    BY <2>1, FS_EmptySet DEF Init, Exact
  <2> QED BY <2>2, QuotaExactIsExact
<1> QED BY <1>1, <1>3, <1>4, <1>5 DEF IInv

LEMMA StepInvariant == IInv /\ [Next]_vars => IInv'
<1> SUFFICES ASSUME IInv, [Next]_vars PROVE IInv'
  OBVIOUS
<1>1. Effect
  BY StepEffect DEF IInv
<1>2. TypeOK'
  BY StepTyped DEF IInv
<1>3. Bookkeeping'
  BY <1>1, StepBookkeeping DEF IInv
<1>4. QuotaExact' /\ WithinLimits'
  BY <1>1, StepExact, StepWithinLimits DEF IInv
<1>5. ClaimedStaysClaimed' /\ OneTokenPerChain' /\ DeadlineAbsolute'
  BY <1>1, StepClaimed, StepChain DEF IInv
<1> QED BY <1>2, <1>3, <1>4, <1>5 DEF IInv

LEMMA Invariance == Spec => []IInv
BY InitInvariant, StepInvariant, PTL DEF Spec

\* The quota counters always equal what the live tokens hold: removeQuota and
\* addQuota never drift apart, whatever evicts, expires, rotates or finishes.
THEOREM QuotasAreExact == Spec => []QuotaExact
<1>1. IInv => QuotaExact
  BY DEF IInv
<1> QED BY <1>1, Invariance, PTL

\* No account ever exceeds its token or byte limit.
THEOREM LimitsAreKept == Spec => []WithinLimits
<1>1. IInv => WithinLimits
  BY DEF IInv
<1> QED BY <1>1, Invariance, PTL

\* The quota is exact and kept, in every reachable state of any registry.
THEOREM QuotasAreKept == Spec => []QuotaKept
<1>1. IInv => QuotaKept
  BY DEF IInv, QuotaKept
<1> QED BY <1>1, Invariance, PTL

\* A claimed handle is never ready again.
THEOREM ClaimsAreFinal == Spec => []ClaimedStaysClaimed
<1>1. IInv => ClaimedStaysClaimed
  BY DEF IInv
<1> QED BY <1>1, Invariance, PTL

\* A chain of pages never has two live tokens.
THEOREM ChainsDoNotFork == Spec => []OneTokenPerChain
<1>1. IInv => OneTokenPerChain
  BY DEF IInv
<1> QED BY <1>1, Invariance, PTL

\* Rotation never extends the deadline of a chain.
THEOREM DeadlinesAreAbsolute == Spec => []DeadlineAbsolute
<1>1. IInv => DeadlineAbsolute
  BY DEF IInv
<1> QED BY <1>1, Invariance, PTL

\* Making room for a new token never removes one that is in flight.
THEOREM EvictionSparesInFlight == Spec => InFlightNotEvicted
<1> DEFINE Spared == creating # {} => InFlight \subseteq InFlight'
<1>1. ASSUME IInv, [Next]_vars PROVE [Spared]_vars
  <2> SUFFICES ASSUME Next, creating # {} PROVE InFlight \subseteq InFlight'
    BY <1>1
  <2>1. sweeping = {} /\ ~Unlocked
    BY <1>1 DEF IInv, Bookkeeping, Unlocked
  <2>2. Tick \/ CreateStep
    BY <2>1 DEF Next, CreateBegin, Claim, Revoke, SweepBegin, SweepStep, Rotate,
                Finish, Close
  <2>3. CASE Tick
    BY <2>3 DEF Tick, InFlight
  <2>4. ASSUME NEW s \in creating, NEW h \in Handle, Evict(s, h)
        PROVE  InFlight \subseteq InFlight'
    <3>1. h \in Ready /\ DeleteEntry(h)
      BY <2>4 DEF Evict, Oldest, Evictable
    <3>2. /\ DOMAIN entries' = DOMAIN entries \ {h}
          /\ \A g \in DOMAIN entries' : entries'[g] = entries[g]
      BY <3>1 DEF DeleteEntry
    <3>3. h \notin InFlight
      BY <3>1 DEF Ready, InFlight
    <3> QED BY <3>2, <3>3 DEF InFlight
  <2>5. ASSUME NEW s \in creating, NEW h \in Handle, CreateInsert(s, h)
        PROVE  InFlight \subseteq InFlight'
    <3>1. h \notin DOMAIN entries
      BY <1>1, <2>5 DEF CreateInsert, Fresh, IInv, TypeOK
    <3>2. /\ DOMAIN entries \subseteq DOMAIN entries'
          /\ \A g \in DOMAIN entries : entries'[g] = entries[g]
      BY <2>5, <3>1 DEF CreateInsert
    <3> QED BY <3>2 DEF InFlight
  <2>6. ASSUME NEW s \in creating, CreateFail(s) PROVE InFlight \subseteq InFlight'
    BY <2>6 DEF CreateFail, InFlight
  <2> QED BY <2>2, <2>3, <2>4, <2>5, <2>6 DEF CreateStep
<1> QED BY <1>1, Invariance, PTL DEF Spec, InFlightNotEvicted

-----------------------------------------------------------------------------
(* The registry implements the one-shot token.                             *)

\* The abstract token of a handle, by what the registry holds for it.
LEMMA StatusOf ==
  ASSUME TypeOK
  PROVE  \A h \in Handle :
           /\ h \in Ready => TokenStatus[h] = "ready"
           /\ h \in InFlight => TokenStatus[h] = "claimed"
           /\ h \notin Issued => TokenStatus[h] = "unused"
           /\ h \in Issued /\ h \notin DOMAIN entries => TokenStatus[h] = "spent"
           /\ h \in DOMAIN entries => h \in Ready \/ h \in InFlight
<1>1. DOMAIN entries \subseteq Issued /\ Ready \cap InFlight = {}
  BY DEF TypeOK, Ready, InFlight
<1>2. \A h \in DOMAIN entries : h \in Ready \/ h \in InFlight
  BY DEF TypeOK, EntryType, Status, Ready, InFlight
<1>3. Ready \subseteq DOMAIN entries /\ InFlight \subseteq DOMAIN entries
  BY DEF Ready, InFlight
<1> QED BY <1>1, <1>2, <1>3 DEF TokenStatus, Fresh

LEMMA StatusOfNext ==
  ASSUME TypeOK'
  PROVE  \A h \in Handle :
           /\ h \in Ready' => TokenStatus'[h] = "ready"
           /\ h \in InFlight' => TokenStatus'[h] = "claimed"
           /\ h \notin DOMAIN chain' => TokenStatus'[h] = "unused"
           /\ h \in DOMAIN chain' /\ h \notin DOMAIN entries' => TokenStatus'[h] = "spent"
           /\ h \in DOMAIN entries' => h \in Ready' \/ h \in InFlight'
<1>1. DOMAIN entries' \subseteq DOMAIN chain' /\ Ready' \cap InFlight' = {}
  BY DEF TypeOK, Issued, Ready, InFlight
<1>2. \A h \in DOMAIN entries' : h \in Ready' \/ h \in InFlight'
  BY DEF TypeOK, EntryType, Status, Ready, InFlight
<1>3. Ready' \subseteq DOMAIN entries' /\ InFlight' \subseteq DOMAIN entries'
  BY DEF Ready, InFlight
<1> QED BY <1>1, <1>2, <1>3 DEF TokenStatus, Fresh, Issued

LEMMA TokensAreFunctions ==
  /\ TokenStatus = [h \in Handle |-> TokenStatus[h]]
  /\ TokenStatus' = [h \in Handle |-> TokenStatus'[h]]
  /\ TokenChain = [h \in Handle |-> TokenChain[h]]
  /\ TokenChain' = [h \in Handle |-> TokenChain'[h]]
BY DEF TokenStatus, TokenChain

\* Handles that were issued keep their chain; the others are their own.
LEMMA ChainOfStable ==
  ASSUME TypeOK, Effect
  PROVE  /\ \A g \in Handle \ (DOMAIN chain' \ DOMAIN chain) :
              TokenChain'[g] = TokenChain[g]
         /\ chain' = chain => TokenChain' = TokenChain
<1>1. /\ DOMAIN chain \subseteq DOMAIN chain'
      /\ \A g \in DOMAIN chain : chain'[g] = chain[g]
  BY ChainStable
<1> QED BY <1>1 DEF TokenChain, Issued

LEMMA InitOneShot == Init => OneShot!Init
<1> SUFFICES ASSUME Init PROVE OneShot!Init
  OBVIOUS
<1>1. DOMAIN chain = {} /\ TypeOK
  BY InitTyped DEF Init
<1>2. \A h \in Handle : TokenStatus[h] = "unused" /\ TokenChain[h] = h
  BY <1>1, StatusOf DEF TokenChain, Issued
<1> QED BY <1>2, TokensAreFunctions DEF OneShot!Init

LEMMA StepOneShot ==
  ASSUME IInv, IInv', [Next]_vars
  PROVE  [OneShot!Next]_(OneShot!ovars)
<1> USE DEF Issued
<1>0. /\ TypeOK /\ TypeOK' /\ Bookkeeping /\ Effect
      /\ DOMAIN entries \subseteq DOMAIN chain /\ DOMAIN chain \subseteq Handle
  BY StepEffect DEF IInv, TypeOK
<1>1. \A h \in Handle :
        /\ h \in Ready => TokenStatus[h] = "ready"
        /\ h \in InFlight => TokenStatus[h] = "claimed"
        /\ h \notin DOMAIN chain => TokenStatus[h] = "unused"
        /\ h \in DOMAIN chain /\ h \notin DOMAIN entries => TokenStatus[h] = "spent"
        /\ h \in DOMAIN entries => h \in Ready \/ h \in InFlight
  BY <1>0, StatusOf
<1>2. \A h \in Handle :
        /\ h \in Ready' => TokenStatus'[h] = "ready"
        /\ h \in InFlight' => TokenStatus'[h] = "claimed"
        /\ h \notin DOMAIN chain' => TokenStatus'[h] = "unused"
        /\ h \in DOMAIN chain' /\ h \notin DOMAIN entries' => TokenStatus'[h] = "spent"
        /\ h \in DOMAIN entries' => h \in Ready' \/ h \in InFlight'
  BY <1>0, StatusOfNext
<1>3. /\ \A g \in Handle \ (DOMAIN chain' \ DOMAIN chain) :
           TokenChain'[g] = TokenChain[g]
      /\ chain' = chain => TokenChain' = TokenChain
  BY <1>0, ChainOfStable
\* A handle that is neither dropped nor changed keeps its status.
<1>4. ASSUME NEW g \in Handle,
             g \in DOMAIN chain <=> g \in DOMAIN chain',
             g \in DOMAIN entries <=> g \in DOMAIN entries',
             g \in DOMAIN entries => entries'[g] = entries[g]
      PROVE  TokenStatus'[g] = TokenStatus[g]
  <2>1. (g \in Ready <=> g \in Ready') /\ (g \in InFlight <=> g \in InFlight')
    BY <1>4 DEF Ready, InFlight
  <2> QED BY <1>1, <1>2, <1>4, <2>1
<1>5. CASE NoEffect
  <2>1. \A g \in Handle : TokenStatus'[g] = TokenStatus[g]
    BY <1>4, <1>5 DEF NoEffect
  <2>2. TokenStatus' = TokenStatus
    BY <2>1, TokensAreFunctions
  <2>3. TokenChain' = TokenChain
    BY <1>3, <1>5 DEF NoEffect
  <2> QED BY <2>2, <2>3 DEF OneShot!ovars
<1>6. ASSUME NEW S \in SUBSET (DOMAIN entries), chain' = chain,
             DOMAIN entries' = DOMAIN entries \ S,
             \A g \in DOMAIN entries' : entries'[g] = entries[g]
      PROVE  OneShot!Next
  <2>1. S \subseteq OneShot!Live /\ S \in SUBSET Handle
    BY <1>0, <1>1 DEF OneShot!Live
  <2>2. \A g \in Handle : TokenStatus'[g] = IF g \in S THEN "spent" ELSE TokenStatus[g]
    <3> SUFFICES ASSUME NEW g \in Handle
                 PROVE  TokenStatus'[g] = IF g \in S THEN "spent" ELSE TokenStatus[g]
      OBVIOUS
    <3>1. CASE g \in S
      BY <1>0, <1>2, <1>6, <3>1
    <3>2. CASE g \notin S
      BY <1>4, <1>6, <3>2
    <3> QED BY <3>1, <3>2
  <2>3. TokenStatus' = [g \in Handle |-> IF g \in S THEN "spent" ELSE TokenStatus[g]]
    BY <2>2, TokensAreFunctions
  <2>4. OneShot!Drop(S)
    BY <1>3, <1>6, <2>1, <2>3 DEF OneShot!Drop
  <2> QED BY <2>1, <2>4 DEF OneShot!Next
<1>7. CASE Deletes
  <2>1. PICK h \in DOMAIN entries : DeleteEntry(h)
    BY <1>7 DEF Deletes
  <2>2. /\ DOMAIN entries' = DOMAIN entries \ {h}
        /\ \A g \in DOMAIN entries' : entries'[g] = entries[g]
    BY <2>1 DEF DeleteEntry
  <2> QED BY <1>6, <1>7, <2>2 DEF Deletes
<1>8. CASE Close
  <2>1. DOMAIN entries' = {} /\ chain' = chain
    BY <1>8 DEF Close
  <2> QED BY <1>6, <2>1
<1>9. CASE Inserts
  <2>1. PICK s \in creating, h \in Handle : CreateInsert(s, h)
    BY <1>9 DEF Inserts
  <2> DEFINE e == NewEntry(s, s.expiresAt)
  <2>2. /\ entries' = With(entries, h, e) /\ e.status = "ready"
        /\ h \notin DOMAIN chain
    BY <1>0, <2>1, InsertShape DEF CreateInsert, Fresh
  <2>3. /\ DOMAIN chain' = DOMAIN chain \cup {h} /\ chain'[h].root = h
    BY <2>1 DEF CreateInsert
  <2>4. /\ DOMAIN entries' = DOMAIN entries \cup {h} /\ entries'[h].status = "ready"
        /\ \A g \in DOMAIN entries : entries'[g] = entries[g]
    BY <1>0, <2>2 DEF With
  <2>5. h \in Ready' /\ TokenStatus'[h] = "ready" /\ TokenStatus[h] = "unused"
    BY <1>1, <1>2, <2>2, <2>4 DEF Ready
  <2>6. \A g \in Handle \ {h} : TokenStatus'[g] = TokenStatus[g]
    BY <1>4, <2>3, <2>4
  <2>7. TokenStatus' = [TokenStatus EXCEPT ![h] = "ready"]
    BY <2>5, <2>6, TokensAreFunctions
  <2>8. \A g \in Handle : TokenChain'[g] = TokenChain[g]
    BY <1>3, <2>2, <2>3 DEF TokenChain
  <2>9. TokenChain' = TokenChain
    BY <2>8, TokensAreFunctions
  <2> QED BY <2>5, <2>7, <2>9 DEF OneShot!Next, OneShot!Issue
<1>10. CASE Exchanges
  <2>1. PICK c \in claims, s \in State, h \in Fresh :
          /\ Owns(c)
          /\ RotateAllowed(entries[c.handle], s, TRUE)
          /\ Replace(c.handle, s, h)
    BY <1>10 DEF Exchanges
  <2> DEFINE old == c.handle
             e == NewEntry(s, entries[old].expiresAt)
  <2>2. /\ old \in DOMAIN entries /\ old \in InFlight /\ old \in Handle
        /\ h \in Handle /\ h \notin DOMAIN chain /\ old # h
        /\ entries' = With(Without(entries, old), h, e) /\ e.status = "ready"
    BY <1>0, <2>1, ExchangeShape DEF Fresh, Owns, InFlight
  <2>3. DOMAIN chain' = DOMAIN chain \cup {h} /\ chain'[h] = chain[old]
    BY <2>1 DEF Replace
  <2>4. /\ DOMAIN entries' = (DOMAIN entries \ {old}) \cup {h}
        /\ entries'[h].status = "ready"
        /\ \A g \in DOMAIN entries \ {old} : entries'[g] = entries[g]
    BY <1>0, <2>2 DEF With, Without
  <2>5. TokenStatus'[h] = "ready" /\ TokenStatus[h] = "unused"
    BY <1>1, <1>2, <2>2, <2>4 DEF Ready
  <2>6. TokenStatus'[old] = "spent" /\ TokenStatus[old] = "claimed"
    BY <1>0, <1>1, <1>2, <2>2, <2>3, <2>4
  <2>7. \A g \in Handle \ {h, old} : TokenStatus'[g] = TokenStatus[g]
    BY <1>4, <2>3, <2>4
  <2>8. TokenStatus' = [TokenStatus EXCEPT ![old] = "spent", ![h] = "ready"]
    BY <2>2, <2>5, <2>6, <2>7, TokensAreFunctions
  <2>9. TokenChain'[h] = TokenChain[old]
    BY <1>0, <2>2, <2>3 DEF TokenChain
  <2>10. TokenChain' = [TokenChain EXCEPT ![h] = TokenChain[old]]
    BY <1>3, <2>2, <2>3, <2>9, TokensAreFunctions
  <2> QED BY <2>2, <2>5, <2>6, <2>8, <2>10 DEF OneShot!Next, OneShot!Exchange
<1>11. CASE Takes
  <2>1. PICK h \in Ready : entries' = [entries EXCEPT ![h].status = "inFlight"]
    BY <1>11 DEF Takes
  <2>2. /\ h \in DOMAIN entries /\ h \in Handle /\ entries[h] \in EntryType
        /\ DOMAIN entries' = DOMAIN entries /\ chain' = chain
        /\ \A g \in DOMAIN entries \ {h} : entries'[g] = entries[g]
    BY <1>0, <1>11, <2>1 DEF Ready, Takes, TypeOK
  <2>3. entries'[h].status = "inFlight"
    BY <2>1, <2>2 DEF EntryType
  <2>4. TokenStatus[h] = "ready" /\ TokenStatus'[h] = "claimed"
    BY <1>1, <1>2, <2>2, <2>3 DEF InFlight
  <2>5. \A g \in Handle \ {h} : TokenStatus'[g] = TokenStatus[g]
    BY <1>4, <2>2
  <2>6. TokenStatus' = [TokenStatus EXCEPT ![h] = "claimed"]
    BY <2>4, <2>5, TokensAreFunctions
  <2>7. TokenChain' = TokenChain
    BY <1>3, <2>2
  <2> QED BY <2>2, <2>4, <2>6, <2>7 DEF OneShot!Next, OneShot!Take
<1> QED BY <1>0, <1>5, <1>7, <1>8, <1>9, <1>10, <1>11 DEF Effect

\* Every behaviour of the registry is one of the one-shot token.
THEOREM RegistryImplementsOneShot == Spec => ImplementsOneShot
<1>1. IInv /\ IInv' /\ [Next]_vars => [OneShot!Next]_(OneShot!ovars)
  BY StepOneShot
<1> QED BY <1>1, InitOneShot, Invariance, PTL
        DEF Spec, ImplementsOneShot, OneShot!Spec

=============================================================================
