------------------------- MODULE PoolManagerProofs -------------------------
(***************************************************************************)
(* Proofs about the pool manager, for any number of calls, configurations  *)
(* and revisions.                                                          *)
(*                                                                         *)
(* The inductive invariant says which generation is where: a generation    *)
(* that is still being connected is no pool yet and belongs to one call, a *)
(* connected one has the configuration its call asked for, the registered  *)
(* one has the current revision and configuration, and whatever was handed *)
(* out and still accepts queries is the registered one.                    *)
(***************************************************************************)
EXTENDS PoolManager, TLAPS

Creating(c) == pc[c] \in {"dialing", "pinging", "opened"}

\* A generation in use by a creating call is its own; before it is connected it
\* is no pool.
GenerationsAreOwn ==
  \A c \in Call :
    /\ pc[c] \in {"pinging", "opened"} => gen[c] \in 1..genCounter
    /\ pc[c] = "pinging" => gen[c] \notin DOMAIN entry
    /\ pc[c] = "opened" => /\ gen[c] \in DOMAIN entry
                           /\ entry[gen[c]].rev = req[c].rev
                           /\ entry[gen[c]].cfg = req[c].cfg
                           /\ \A d \in Call : pc[d] = "pinging" => gen[d] # gen[c]
    /\ \A d \in Call : pc[c] = "pinging" /\ pc[d] = "pinging" /\ gen[c] = gen[d] => c = d

\* A served call is over, with a pool that was connected.
ServedIsDone ==
  \A c \in Call : Served(c) => pc[c] = "done" /\ gen[c] \in DOMAIN entry

\* The registered pool is one, and is what the manager says is current.
RegisteredIsCurrent ==
  /\ \A g, h \in pool : g = h
  /\ \A g \in pool : entry[g].rev = currentRev /\ currentCfg = {entry[g].cfg}

\* What accepts queries in somebody's hands is registered.
ServingIsRegistered ==
  \A c \in Call : Served(c) /\ entry[gen[c]].state = "open" => gen[c] \in pool

\* The call that stored the channel is still creating.
ChannelIsAttended ==
  /\ \A c, d \in creating : c = d
  /\ \A c \in creating : Creating(c)

IInv ==
  /\ TypeOK
  /\ GenerationsAreOwn
  /\ ServedIsDone
  /\ RegisteredIsCurrent
  /\ ServingIsRegistered
  /\ ChannelIsAttended
  /\ NoPoolLeaks
  /\ HandleMatchesRequest
  /\ WaitersAreServed

LEMMA InitIInv == Init => IInv
<1>1. SUFFICES ASSUME Init PROVE IInv
  OBVIOUS
<1>2. /\ entry = [g \in {} |-> 0] /\ DOMAIN entry = {}
      /\ entry \in [DOMAIN entry -> [rev : Revision, cfg : Config, state : PoolState]]
  BY <1>1 DEF Init
<1>3. 0 \in Revision
  BY MaxRevNatural DEF Revision
<1>4. TypeOK
  <2>1. /\ closed \in BOOLEAN /\ currentRev \in Revision /\ currentCfg \subseteq Config
        /\ creating \subseteq Call /\ signalled \subseteq Call /\ genCounter \in Nat
        /\ pool \subseteq DOMAIN entry /\ reaping \subseteq DOMAIN entry
        /\ DOMAIN entry \subseteq 1..genCounter
    BY <1>1, <1>2, <1>3 DEF Init
  <2>2. 0 \in 0..genCounter
    BY <1>1 DEF Init
  <2>3. /\ pc \in [Call -> Steps] /\ awaits \in [Call -> SUBSET Call]
        /\ gen \in [Call -> 0..genCounter]
        /\ result \in [Call -> Errors \cup {Pending, "handle"}]
        /\ req \in [Call -> [rev : Revision, cfg : Config]]
    BY <1>1, <2>2 DEF Init, Steps
  <2> QED BY <1>2, <2>1, <2>3 DEF TypeOK
<1> QED
  BY <1>1, <1>4 DEF Init, IInv, GenerationsAreOwn, ServedIsDone, RegisteredIsCurrent,
     ServingIsRegistered, ChannelIsAttended, NoPoolLeaks, HandleMatchesRequest,
     WaitersAreServed, Served, Pending

-----------------------------------------------------------------------------
(* Steps inside the critical sections before a pool is created.            *)

\* A call that was not creating returns an error.
LEMMA QuitKeeps ==
  ASSUME IInv, NEW c \in Call, pc[c] \in {"start", "waiting"}, NEW err \in Errors, Fail(c, err),
         UNCHANGED <<creating, awaits>>,
         UNCHANGED <<closed, pool, currentRev, currentCfg, signalled, genCounter, entry, reaping, req>>
  PROVE  IInv'
<1> USE DEF IInv, Fail
<1>1. TypeOK'
  BY DEF TypeOK, Steps, Errors, Pending, PoolState
<1>2. GenerationsAreOwn'
  BY DEF TypeOK, GenerationsAreOwn
<1>3. ServedIsDone'
  BY DEF TypeOK, ServedIsDone, Served, Pending, Errors
<1>4. RegisteredIsCurrent'
  BY DEF TypeOK, RegisteredIsCurrent
<1>5. ServingIsRegistered'
  BY DEF TypeOK, ServedIsDone, ServingIsRegistered, Served, Pending, Errors
<1>6. ChannelIsAttended'
  BY DEF TypeOK, ChannelIsAttended, Creating
<1>7. NoPoolLeaks'
  BY DEF TypeOK, NoPoolLeaks, Opened
<1>8. HandleMatchesRequest'
  BY DEF TypeOK, ServedIsDone, HandleMatchesRequest, Served, Pending, Errors
<1>9. WaitersAreServed'
  BY DEF TypeOK, WaitersAreServed, ChannelIsAttended, Creating
<1> QED BY <1>1, <1>2, <1>3, <1>4, <1>5, <1>6, <1>7, <1>8, <1>9

\* A call is handed the registered pool.
LEMMA ShareKeeps ==
  ASSUME IInv, NEW c \in Call, pc[c] \in {"start", "waiting"}, NEW g \in Registered(c),
         SameConfig(c), Hand(c, g), UNCHANGED <<creating, awaits>>,
         UNCHANGED <<closed, pool, currentRev, currentCfg, signalled, genCounter, entry, reaping, req>>
  PROVE  IInv'
<1> USE DEF IInv, Hand
<1>0. /\ g \in pool /\ g \in DOMAIN entry /\ g \in 0..genCounter
      /\ entry[g].rev = req[c].rev /\ entry[g].cfg = req[c].cfg
  <2>1. /\ g \in pool /\ req[c].rev = currentRev /\ currentCfg = {req[c].cfg}
    BY DEF Registered, SameConfig
  <2>2. entry[g].rev = currentRev /\ currentCfg = {entry[g].cfg}
    BY <2>1 DEF RegisteredIsCurrent
  <2>3. g \in DOMAIN entry /\ g \in 0..genCounter
    <3>1. g \in DOMAIN entry /\ g \in 1..genCounter /\ genCounter \in Nat
      BY <2>1 DEF TypeOK
    <3> QED BY <3>1
  <2>4. req[c].cfg \in {entry[g].cfg}
    BY <2>1, <2>2
  <2> QED BY <2>1, <2>2, <2>3, <2>4
<1>1. TypeOK'
  BY <1>0 DEF TypeOK, Steps, Errors, Pending, PoolState
<1>2. GenerationsAreOwn'
  BY <1>0 DEF TypeOK, GenerationsAreOwn
<1>3. ServedIsDone'
  BY <1>0 DEF TypeOK, ServedIsDone, Served, Pending
<1>4. RegisteredIsCurrent'
  BY <1>0 DEF TypeOK, RegisteredIsCurrent
<1>5. ServingIsRegistered'
  BY <1>0 DEF TypeOK, ServedIsDone, ServingIsRegistered, Served, Pending
<1>6. ChannelIsAttended'
  BY <1>0 DEF TypeOK, ChannelIsAttended, Creating
<1>7. NoPoolLeaks'
  BY <1>0 DEF TypeOK, NoPoolLeaks, Opened
<1>8. HandleMatchesRequest'
  BY <1>0 DEF TypeOK, ServedIsDone, HandleMatchesRequest, Served, Pending
<1>9. WaitersAreServed'
  BY <1>0 DEF TypeOK, WaitersAreServed, ChannelIsAttended, Creating
<1> QED BY <1>1, <1>2, <1>3, <1>4, <1>5, <1>6, <1>7, <1>8, <1>9

\* A call goes on to wait for the registered channel, or to create, with a
\* channel of its own if there is none.
LEMMA ProceedKeeps ==
  ASSUME IInv, NEW c \in Call, pc[c] \in {"start", "waiting"}, NEW step, Goto(c, step),
         \/ step = "dialing" /\ UNCHANGED <<creating, awaits>>
         \/ step = "dialing" /\ creating = {} /\ creating' = {c} /\ UNCHANGED awaits
         \/ /\ step = "waiting" /\ pc[c] = "start" /\ UNCHANGED creating
            /\ awaits' = [awaits EXCEPT ![c] = creating],
         UNCHANGED <<closed, pool, currentRev, currentCfg, signalled, genCounter, entry, reaping, req>>
  PROVE  IInv'
<1> USE DEF IInv, Goto
<1>1. TypeOK'
  BY DEF TypeOK, Steps, Errors, Pending, PoolState
<1>2. GenerationsAreOwn'
  BY DEF TypeOK, GenerationsAreOwn
<1>3. ServedIsDone'
  BY DEF TypeOK, ServedIsDone, Served, Pending
<1>4. RegisteredIsCurrent'
  BY DEF TypeOK, RegisteredIsCurrent
<1>5. ServingIsRegistered'
  BY DEF TypeOK, ServedIsDone, ServingIsRegistered, Served, Pending
<1>6. ChannelIsAttended'
  BY DEF TypeOK, ChannelIsAttended, Creating
<1>7. NoPoolLeaks'
  BY DEF TypeOK, NoPoolLeaks, Opened
<1>8. HandleMatchesRequest'
  BY DEF TypeOK, ServedIsDone, HandleMatchesRequest, Served, Pending
<1>9. WaitersAreServed'
  <2>1. SUFFICES ASSUME NEW x \in Call, pc'[x] = "waiting", NEW d \in awaits'[x]
                 PROVE  \/ d \in signalled'
                        \/ creating' = {d} /\ pc'[d] \in {"dialing", "pinging", "opened"}
    BY DEF WaitersAreServed
  <2>2. /\ \A y \in Call : y # c => pc'[y] = pc[y]
        /\ pc'[c] = step
        /\ \A y \in creating : y # c /\ Creating(y) /\ y \in Call
        /\ creating # {} => \E y \in creating : creating = {y}
    BY DEF TypeOK, ChannelIsAttended, Creating
  <2>3. CASE d \in awaits[x] /\ pc[x] = "waiting"
    <3>1. \/ d \in signalled
          \/ creating = {d} /\ pc[d] \in {"dialing", "pinging", "opened"}
      BY <2>3 DEF WaitersAreServed
    <3> QED BY <2>2, <3>1 DEF Creating
  <2>4. CASE x = c /\ step = "waiting" /\ pc[c] = "start" /\ d \in creating /\ creating' = creating
    BY <2>2, <2>4 DEF Creating
  <2>5. \/ d \in awaits[x] /\ pc[x] = "waiting"
        \/ x = c /\ step = "waiting" /\ pc[c] = "start" /\ d \in creating /\ creating' = creating
    BY <2>1, <2>2 DEF TypeOK
  <2> QED BY <2>3, <2>4, <2>5
<1> QED BY <1>1, <1>2, <1>3, <1>4, <1>5, <1>6, <1>7, <1>8, <1>9

\* The critical section a call starts with.
LEMMA GetStartKeeps ==
  ASSUME IInv, NEW c \in Call, GetStart(c)
  PROVE  IInv'
<1>1. /\ pc[c] = "start"
      /\ UNCHANGED <<closed, pool, currentRev, currentCfg, signalled, genCounter, entry, reaping, req>>
  BY DEF GetStart
<1>2. \/ \E err \in Errors : Fail(c, err) /\ UNCHANGED <<creating, awaits>>
      \/ \E g \in Registered(c) : SameConfig(c) /\ Hand(c, g) /\ UNCHANGED <<creating, awaits>>
      \/ Goto(c, "dialing") /\ creating = {} /\ creating' = {c} /\ UNCHANGED awaits
      \/ Goto(c, "waiting") /\ UNCHANGED creating /\ awaits' = [awaits EXCEPT ![c] = creating]
  BY DEF GetStart, ShareOrConflict, Errors
<1> QED BY <1>1, <1>2, QuitKeeps, ShareKeeps, ProceedKeeps

\* The critical section after a wait.
LEMMA RetryKeeps ==
  ASSUME IInv, NEW c \in Call, Retry(c)
  PROVE  IInv'
<1>1. /\ pc[c] = "waiting" /\ UNCHANGED <<creating, awaits>>
      /\ UNCHANGED <<closed, pool, currentRev, currentCfg, signalled, genCounter, entry, reaping, req>>
  BY DEF Retry, mvars
<1>2. \/ \E err \in Errors : Fail(c, err)
      \/ \E g \in Registered(c) : SameConfig(c) /\ Hand(c, g)
      \/ Goto(c, "dialing")
  BY DEF Retry, ShareOrConflict, Errors
<1> QED BY <1>1, <1>2, QuitKeeps, ShareKeeps, ProceedKeeps

LEMMA CancelKeeps ==
  ASSUME IInv, NEW c \in Call, Cancel(c)
  PROVE  IInv'
<1>1. /\ pc[c] = "waiting" /\ Fail(c, "canceled") /\ UNCHANGED <<creating, awaits>>
      /\ UNCHANGED <<closed, pool, currentRev, currentCfg, signalled, genCounter, entry, reaping, req>>
  BY DEF Cancel, mvars
<1> QED BY <1>1, QuitKeeps DEF Errors

-----------------------------------------------------------------------------
(* Creating a pool.                                                        *)

\* A call draws a generation nobody has.
LEMMA DialKeeps ==
  ASSUME IInv, NEW c \in Call, Dial(c)
  PROVE  IInv'
<1> USE DEF IInv, Dial, mvars
<1>0. /\ genCounter \in Nat /\ genCounter' = genCounter + 1 /\ gen' = [gen EXCEPT ![c] = genCounter + 1]
      /\ genCounter + 1 \notin DOMAIN entry /\ gen'[c] = genCounter + 1
      /\ \A d \in Call : d # c => gen'[d] = gen[d] /\ gen[d] \in 0..genCounter
      /\ \A d \in Call : d # c => gen'[d] # gen'[c]
  BY DEF TypeOK
<1>1. TypeOK'
  BY <1>0 DEF TypeOK, Steps, Errors, Pending, PoolState
<1>2. GenerationsAreOwn'
  BY <1>0 DEF TypeOK, GenerationsAreOwn
<1>3. ServedIsDone'
  BY <1>0 DEF TypeOK, ServedIsDone, Served, Pending
<1>4. RegisteredIsCurrent'
  BY <1>0 DEF TypeOK, RegisteredIsCurrent
<1>5. ServingIsRegistered'
  BY <1>0 DEF TypeOK, ServedIsDone, ServingIsRegistered, Served, Pending
<1>6. ChannelIsAttended'
  BY <1>0 DEF TypeOK, ChannelIsAttended, Creating
<1>7. NoPoolLeaks'
  BY <1>0 DEF TypeOK, NoPoolLeaks, Opened
<1>8. HandleMatchesRequest'
  BY <1>0 DEF TypeOK, ServedIsDone, HandleMatchesRequest, Served, Pending
<1>9. WaitersAreServed'
  BY <1>0 DEF TypeOK, WaitersAreServed, ChannelIsAttended, Creating
<1> QED BY <1>1, <1>2, <1>3, <1>4, <1>5, <1>6, <1>7, <1>8, <1>9

\* The pool is connected.
LEMMA ConnectKeeps ==
  ASSUME IInv, NEW c \in Call, Connect(c)
  PROVE  IInv'
<1> USE DEF IInv, Connect, mvars
<1>0. /\ pc[c] = "pinging" /\ gen[c] \notin DOMAIN entry /\ gen[c] \in 1..genCounter
      /\ DOMAIN entry' = DOMAIN entry \cup {gen[c]}
      /\ entry'[gen[c]] = [rev |-> req[c].rev, cfg |-> req[c].cfg, state |-> "open"]
      /\ \A g \in DOMAIN entry : g # gen[c] /\ entry'[g] = entry[g]
      /\ pc' = [pc EXCEPT ![c] = "opened"]
  BY DEF GenerationsAreOwn
<1>1. TypeOK'
  BY <1>0 DEF TypeOK, Steps, Errors, Pending, PoolState
<1>2. GenerationsAreOwn'
  BY <1>0 DEF TypeOK, GenerationsAreOwn
<1>3. ServedIsDone'
  BY <1>0 DEF TypeOK, ServedIsDone, Served, Pending
<1>4. RegisteredIsCurrent'
  BY <1>0 DEF TypeOK, RegisteredIsCurrent
<1>5. ServingIsRegistered'
  BY <1>0 DEF TypeOK, ServedIsDone, ServingIsRegistered, Served, Pending
<1>6. ChannelIsAttended'
  BY <1>0 DEF TypeOK, ChannelIsAttended, Creating
<1>7. NoPoolLeaks'
  BY <1>0 DEF TypeOK, NoPoolLeaks, Opened
<1>8. HandleMatchesRequest'
  BY <1>0 DEF TypeOK, ServedIsDone, HandleMatchesRequest, Served, Pending
<1>9. WaitersAreServed'
  BY <1>0 DEF TypeOK, WaitersAreServed, ChannelIsAttended, Creating
<1> QED BY <1>1, <1>2, <1>3, <1>4, <1>5, <1>6, <1>7, <1>8, <1>9

\* The pool cannot be created; whoever waits is woken.
LEMMA CreateFailsKeeps ==
  ASSUME IInv, NEW c \in Call, CreateFails(c)
  PROVE  IInv'
<1> USE DEF IInv, CreateFails, Fail, Signal
<1>1. TypeOK'
  BY DEF TypeOK, Steps, Errors, Pending, PoolState
<1>2. GenerationsAreOwn'
  BY DEF TypeOK, GenerationsAreOwn
<1>3. ServedIsDone'
  BY DEF TypeOK, ServedIsDone, Served, Pending
<1>4. RegisteredIsCurrent'
  BY DEF TypeOK, RegisteredIsCurrent
<1>5. ServingIsRegistered'
  BY DEF TypeOK, ServedIsDone, ServingIsRegistered, Served, Pending
<1>6. ChannelIsAttended'
  BY DEF TypeOK, ChannelIsAttended, Creating
<1>7. NoPoolLeaks'
  BY DEF TypeOK, NoPoolLeaks, Opened
<1>8. HandleMatchesRequest'
  BY DEF TypeOK, ServedIsDone, HandleMatchesRequest, Served, Pending
<1>9. WaitersAreServed'
  BY DEF TypeOK, WaitersAreServed, ChannelIsAttended, Creating
<1> QED BY <1>1, <1>2, <1>3, <1>4, <1>5, <1>6, <1>7, <1>8, <1>9

-----------------------------------------------------------------------------
(* The critical section after a pool was created, and closing.              *)

\* The pool is not needed and the call returns an error.
LEMMA DiscardKeeps ==
  ASSUME IInv, NEW c \in Call, pc[c] = "opened", Signal, Discard(c), NEW err \in Errors,
         Fail(c, err), UNCHANGED <<closed, genCounter, req, awaits>>
  PROVE  IInv'
<1> USE DEF IInv, Signal, Discard, SetState, Fail
<1>0. /\ gen[c] \in DOMAIN entry /\ DOMAIN entry' = DOMAIN entry
      /\ entry'[gen[c]] = [entry[gen[c]] EXCEPT !.state = "closed"]
      /\ \A g \in DOMAIN entry : /\ g # gen[c] => entry'[g] = entry[g]
                                /\ entry'[g].rev = entry[g].rev /\ entry'[g].cfg = entry[g].cfg
                                /\ entry'[g].state \in {entry[g].state, "closed"}
                                /\ entry'[g] \in [rev : Revision, cfg : Config, state : PoolState]
  BY DEF TypeOK, GenerationsAreOwn, PoolState
<1>1. TypeOK'
  BY <1>0 DEF TypeOK, Steps, Errors, Pending, PoolState
<1>2. GenerationsAreOwn'
  BY <1>0 DEF TypeOK, GenerationsAreOwn
<1>3. ServedIsDone'
  BY <1>0 DEF TypeOK, ServedIsDone, GenerationsAreOwn, Served, Pending, Errors
<1>4. RegisteredIsCurrent'
  BY <1>0 DEF TypeOK, RegisteredIsCurrent, GenerationsAreOwn
<1>5. ServingIsRegistered'
  BY <1>0 DEF TypeOK, ServedIsDone, ServingIsRegistered, GenerationsAreOwn, Served, Pending, Errors
<1>6. ChannelIsAttended'
  BY <1>0 DEF TypeOK, ChannelIsAttended, Creating
<1>7. NoPoolLeaks'
  BY <1>0 DEF TypeOK, NoPoolLeaks, Opened, Usable
<1>8. HandleMatchesRequest'
  BY <1>0 DEF TypeOK, ServedIsDone, HandleMatchesRequest, GenerationsAreOwn, Served, Pending, Errors
<1>9. WaitersAreServed'
  BY <1>0 DEF TypeOK, WaitersAreServed, ChannelIsAttended, Creating
<1> QED BY <1>1, <1>2, <1>3, <1>4, <1>5, <1>6, <1>7, <1>8, <1>9

\* The pool is not needed: the registered one is shared.
LEMMA DiscardShareKeeps ==
  ASSUME IInv, NEW c \in Call, pc[c] = "opened", Signal, Discard(c), NEW h \in Registered(c),
         SameConfig(c), Hand(c, h), UNCHANGED <<closed, genCounter, req, awaits>>
  PROVE  IInv'
<1> USE DEF IInv, Signal, Discard, SetState, Hand
<1>0. /\ gen[c] \in DOMAIN entry /\ DOMAIN entry' = DOMAIN entry
      /\ entry'[gen[c]] = [entry[gen[c]] EXCEPT !.state = "closed"]
      /\ \A g \in DOMAIN entry : /\ g # gen[c] => entry'[g] = entry[g]
                                /\ entry'[g].rev = entry[g].rev /\ entry'[g].cfg = entry[g].cfg
                                /\ entry'[g].state \in {entry[g].state, "closed"}
                                /\ entry'[g] \in [rev : Revision, cfg : Config, state : PoolState]
      /\ h \in pool /\ h \in DOMAIN entry /\ h \in 0..genCounter
      /\ entry[h].rev = req[c].rev /\ entry[h].cfg = req[c].cfg
  <2>1. /\ h \in pool /\ req[c].rev = currentRev /\ currentCfg = {req[c].cfg}
    BY DEF Registered, SameConfig
  <2>2. entry[h].rev = currentRev /\ currentCfg = {entry[h].cfg}
    BY <2>1 DEF RegisteredIsCurrent
  <2>3. h \in DOMAIN entry /\ h \in 0..genCounter
    <3>1. h \in DOMAIN entry /\ h \in 1..genCounter /\ genCounter \in Nat
      BY <2>1 DEF TypeOK
    <3> QED BY <3>1
  <2>4. req[c].cfg \in {entry[h].cfg}
    BY <2>1, <2>2
  <2>5. /\ gen[c] \in DOMAIN entry /\ DOMAIN entry' = DOMAIN entry
        /\ entry'[gen[c]] = [entry[gen[c]] EXCEPT !.state = "closed"]
        /\ \A g \in DOMAIN entry : /\ g # gen[c] => entry'[g] = entry[g]
                                  /\ entry'[g].rev = entry[g].rev /\ entry'[g].cfg = entry[g].cfg
                                  /\ entry'[g].state \in {entry[g].state, "closed"}
                                  /\ entry'[g] \in [rev : Revision, cfg : Config, state : PoolState]
    BY DEF TypeOK, GenerationsAreOwn, PoolState
  <2> QED BY <2>1, <2>2, <2>3, <2>4, <2>5
<1>1. TypeOK'
  BY <1>0 DEF TypeOK, Steps, Errors, Pending, PoolState
<1>2. GenerationsAreOwn'
  BY <1>0 DEF TypeOK, GenerationsAreOwn
<1>3. ServedIsDone'
  BY <1>0 DEF TypeOK, ServedIsDone, GenerationsAreOwn, Served, Pending, Errors
<1>4. RegisteredIsCurrent'
  BY <1>0 DEF TypeOK, RegisteredIsCurrent, GenerationsAreOwn
<1>5. ServingIsRegistered'
  BY <1>0 DEF TypeOK, ServedIsDone, ServingIsRegistered, GenerationsAreOwn, Served, Pending, Errors
<1>6. ChannelIsAttended'
  BY <1>0 DEF TypeOK, ChannelIsAttended, Creating
<1>7. NoPoolLeaks'
  BY <1>0 DEF TypeOK, NoPoolLeaks, Opened, Usable
<1>8. HandleMatchesRequest'
  BY <1>0 DEF TypeOK, ServedIsDone, HandleMatchesRequest, GenerationsAreOwn, Served, Pending, Errors
<1>9. WaitersAreServed'
  BY <1>0 DEF TypeOK, WaitersAreServed, ChannelIsAttended, Creating
<1> QED BY <1>1, <1>2, <1>3, <1>4, <1>5, <1>6, <1>7, <1>8, <1>9

\* The pool is installed and the registered one is drained.
LEMMA InstallKeeps ==
  ASSUME IInv, NEW c \in Call, pc[c] = "opened", Signal, Install(c), ~closed,
         UNCHANGED <<closed, genCounter, req, awaits>>
  PROVE  IInv'
<1> USE DEF IInv, Signal, Install, Hand
<1>0. /\ gen[c] \in DOMAIN entry /\ gen[c] \in 1..genCounter /\ DOMAIN entry' = DOMAIN entry
      /\ entry[gen[c]].rev = req[c].rev /\ entry[gen[c]].cfg = req[c].cfg
      /\ \A g \in DOMAIN entry :
           /\ g \in pool => entry'[g].state # "open"
           /\ g \notin pool => entry'[g] = entry[g]
           /\ g \in pool /\ entry[g].state = "closed" => entry'[g].state = "closed"
           /\ entry'[g].rev = entry[g].rev /\ entry'[g].cfg = entry[g].cfg
           /\ entry'[g] \in [rev : Revision, cfg : Config, state : PoolState]
  BY DEF TypeOK, GenerationsAreOwn, PoolState, Usable
<1>1. TypeOK'
  BY <1>0 DEF TypeOK, Steps, Errors, Pending, PoolState
<1>2. GenerationsAreOwn'
  BY <1>0 DEF TypeOK, GenerationsAreOwn
<1>3. ServedIsDone'
  BY <1>0 DEF TypeOK, ServedIsDone, GenerationsAreOwn, Served, Pending, Errors
<1>4. RegisteredIsCurrent'
  BY <1>0 DEF TypeOK, RegisteredIsCurrent, GenerationsAreOwn
<1>5. ServingIsRegistered'
  <2>1. SUFFICES ASSUME NEW x \in Call, Served(x)', entry'[gen'[x]].state = "open"
                 PROVE  gen'[x] \in pool'
    BY DEF ServingIsRegistered, Served
  <2>2. CASE x = c
    BY <2>2 DEF TypeOK
  <2>3. CASE x # c
    <3>1. gen'[x] = gen[x] /\ Served(x)
      BY <2>1, <2>3 DEF TypeOK, Served
    <3>2. gen[x] \in DOMAIN entry
      BY <3>1 DEF ServedIsDone
    <3>3. gen[x] \notin pool /\ entry[gen[x]].state = "open"
      BY <1>0, <2>1, <3>1, <3>2
    <3> QED BY <3>1, <3>3 DEF ServingIsRegistered
  <2> QED BY <2>2, <2>3
<1>6. ChannelIsAttended'
  BY <1>0 DEF TypeOK, ChannelIsAttended, Creating
<1>7. NoPoolLeaks'
  BY <1>0 DEF TypeOK, NoPoolLeaks, Opened, Usable
<1>8. HandleMatchesRequest'
  BY <1>0 DEF TypeOK, ServedIsDone, HandleMatchesRequest, GenerationsAreOwn, Served, Pending, Errors
<1>9. WaitersAreServed'
  BY <1>0 DEF TypeOK, WaitersAreServed, ChannelIsAttended, Creating
<1> QED BY <1>1, <1>2, <1>3, <1>4, <1>5, <1>6, <1>7, <1>8, <1>9

\* The critical section after creating.
LEMMA RegisterKeeps ==
  ASSUME IInv, NEW c \in Call, Register(c)
  PROVE  IInv'
<1>1. pc[c] = "opened" /\ Signal /\ UNCHANGED <<closed, genCounter, req, awaits>>
  BY DEF Register
<1>2. \/ \E err \in Errors : Discard(c) /\ Fail(c, err)
      \/ Discard(c) /\ \E h \in Registered(c) : SameConfig(c) /\ Hand(c, h)
      \/ ~closed /\ Install(c)
  BY DEF Register, ShareOrConflict, Errors
<1> QED BY <1>1, <1>2, DiscardKeeps, DiscardShareKeeps, InstallKeeps

\* The manager is closed.
LEMMA CloseKeeps ==
  ASSUME IInv, Close
  PROVE  IInv'
<1> USE DEF IInv, Close
<1>0. TypeOK
  OBVIOUS
<1>1. TypeOK'
  BY <1>0 DEF TypeOK, Steps, Errors, Pending, PoolState
<1>2. GenerationsAreOwn'
  BY <1>0 DEF TypeOK, GenerationsAreOwn
<1>3. ServedIsDone'
  BY <1>0 DEF TypeOK, ServedIsDone, GenerationsAreOwn, Served, Pending, Errors
<1>4. RegisteredIsCurrent'
  BY <1>0 DEF TypeOK, RegisteredIsCurrent, GenerationsAreOwn
<1>5. ServingIsRegistered'
  BY <1>0 DEF TypeOK, ServedIsDone, ServingIsRegistered, GenerationsAreOwn, Served, Pending, Errors
<1>6. ChannelIsAttended'
  BY <1>0 DEF TypeOK, ChannelIsAttended, Creating
<1>7. NoPoolLeaks'
  BY <1>0 DEF TypeOK, NoPoolLeaks, Opened, Usable
<1>8. HandleMatchesRequest'
  BY <1>0 DEF TypeOK, ServedIsDone, HandleMatchesRequest, GenerationsAreOwn, Served, Pending, Errors
<1>9. WaitersAreServed'
  BY <1>0 DEF TypeOK, WaitersAreServed, ChannelIsAttended, Creating
<1> QED BY <1>1, <1>2, <1>3, <1>4, <1>5, <1>6, <1>7, <1>8, <1>9

\* A goroutine drains or closes a pool.
LEMMA ReapKeeps ==
  ASSUME IInv, NEW g \in reaping, Reap(g)
  PROVE  IInv'
<1> USE DEF IInv, Reap, SetState, mvars
<1>0. /\ g \in DOMAIN entry /\ DOMAIN entry' = DOMAIN entry
      /\ \A h \in DOMAIN entry :
           /\ h # g => entry'[h] = entry[h]
           /\ entry'[h].rev = entry[h].rev /\ entry'[h].cfg = entry[h].cfg
           /\ entry'[h].state = "open" => entry[h].state = "open"
           /\ entry[h].state = "closed" => entry'[h].state = "closed"
           /\ entry'[h] \in [rev : Revision, cfg : Config, state : PoolState]
      /\ \/ reaping' = reaping
         \/ reaping' = reaping \ {g} /\ entry'[g].state = "closed"
  <2>1. g \in DOMAIN entry /\ entry[g] \in [rev : Revision, cfg : Config, state : PoolState]
    BY DEF TypeOK
  <2>2. CASE entry[g].state = "open"
    <3>1. entry' = [entry EXCEPT ![g].state = "draining"] /\ reaping' = reaping
      BY <2>2
    <3> QED BY <2>1, <2>2, <3>1 DEF TypeOK, PoolState
  <2>3. CASE entry[g].state # "open"
    <3>1. entry' = [entry EXCEPT ![g].state = "closed"] /\ reaping' = reaping \ {g}
      BY <2>3
    <3> QED BY <2>1, <2>3, <3>1 DEF TypeOK, PoolState
  <2> QED BY <2>2, <2>3
<1>1. TypeOK'
  BY <1>0 DEF TypeOK, Steps, Errors, Pending, PoolState
<1>2. GenerationsAreOwn'
  BY <1>0 DEF TypeOK, GenerationsAreOwn
<1>3. ServedIsDone'
  BY <1>0 DEF TypeOK, ServedIsDone, GenerationsAreOwn, Served, Pending, Errors
<1>4. RegisteredIsCurrent'
  BY <1>0 DEF TypeOK, RegisteredIsCurrent, GenerationsAreOwn
<1>5. ServingIsRegistered'
  BY <1>0 DEF TypeOK, ServedIsDone, ServingIsRegistered, GenerationsAreOwn, Served, Pending, Errors
<1>6. ChannelIsAttended'
  BY <1>0 DEF TypeOK, ChannelIsAttended, Creating
<1>7. NoPoolLeaks'
  BY <1>0 DEF TypeOK, NoPoolLeaks, Opened, Usable
<1>8. HandleMatchesRequest'
  BY <1>0 DEF TypeOK, ServedIsDone, HandleMatchesRequest, GenerationsAreOwn, Served, Pending, Errors
<1>9. WaitersAreServed'
  BY <1>0 DEF TypeOK, WaitersAreServed, ChannelIsAttended, Creating
<1> QED BY <1>1, <1>2, <1>3, <1>4, <1>5, <1>6, <1>7, <1>8, <1>9

-----------------------------------------------------------------------------
LEMMA NextIInv == IInv /\ [Next]_vars => IInv'
<1>1. SUFFICES ASSUME IInv, [Next]_vars PROVE IInv'
  OBVIOUS
<1>2. CASE \E c \in Call : \/ GetStart(c) \/ Retry(c) \/ Cancel(c)
                          \/ Dial(c) \/ Connect(c) \/ CreateFails(c) \/ Register(c)
  BY <1>1, <1>2, GetStartKeeps, RetryKeeps, CancelKeeps, DialKeeps, ConnectKeeps,
     CreateFailsKeeps, RegisterKeeps
<1>3. CASE \E g \in reaping : Reap(g)
  BY <1>1, <1>3, ReapKeeps
<1>4. CASE Close
  BY <1>1, <1>4, CloseKeeps
<1>5. CASE UNCHANGED vars
  BY <1>1, <1>5 DEF vars, IInv, TypeOK, GenerationsAreOwn, ServedIsDone,
     RegisteredIsCurrent, ServingIsRegistered, ChannelIsAttended, NoPoolLeaks,
     HandleMatchesRequest, WaitersAreServed, Served, Creating, Opened
<1> QED BY <1>1, <1>2, <1>3, <1>4, <1>5 DEF Next

LEMMA Inductive == Spec => []IInv
<1> QED BY InitIInv, NextIInv, PTL DEF Spec

\* The manager's maps and the progress of its calls keep their types.
THEOREM TypeCorrect == Spec => []TypeOK
<1>1. IInv => TypeOK
  BY DEF IInv
<1> QED BY Inductive, <1>1, PTL

\* No pool that createPool connected is forgotten: whichever of any number of
\* calls win, lose or meet a closed manager, it is registered, being closed or
\* closed, or still in the hands of its creator.
THEOREM PoolsDoNotLeak == Spec => []NoPoolLeaks
<1>1. IInv => NoPoolLeaks
  BY DEF IInv
<1> QED BY Inductive, <1>1, PTL

\* Get never returns a pool of another configuration or revision.
THEOREM HandlesMatch == Spec => []HandleMatchesRequest
<1>1. IInv => HandleMatchesRequest
  BY DEF IInv
<1> QED BY Inductive, <1>1, PTL

\* Of the pools that Get handed out at most one accepts queries.
THEOREM OnePoolServes == Spec => []OneServingPool
<1>1. IInv => OneServingPool
  BY DEF IInv, OneServingPool, ServingIsRegistered, RegisteredIsCurrent
<1> QED BY Inductive, <1>1, PTL

\* Nobody waits on a channel that no call will close.
THEOREM WaitersHaveAWaker == Spec => []WaitersAreServed
<1>1. IInv => WaitersAreServed
  BY DEF IInv
<1> QED BY Inductive, <1>1, PTL

\* The registered revision never decreases.
THEOREM RevisionsOnlyGrow == Spec => RevisionNeverRegresses
<1>1. IInv /\ [Next]_vars => [currentRev' >= currentRev]_currentRev
  <2>1. SUFFICES ASSUME IInv, [Next]_vars, currentRev' # currentRev
                 PROVE  currentRev' >= currentRev
    OBVIOUS
  <2>2. PICK c \in Call : Register(c)
    BY <2>1 DEF Next, vars, mvars, GetStart, Retry, Cancel, Dial, Connect, CreateFails,
       Close, Reap
  <2>3. ~Stale(c) /\ currentRev' = req[c].rev
    BY <2>1, <2>2 DEF Register, Discard, Install
  <2>4. currentRev \in Int /\ req[c].rev \in Int
    BY <2>1, MaxRevNatural DEF IInv, TypeOK, Revision
  <2> QED BY <2>3, <2>4 DEF Stale
<1> QED BY Inductive, <1>1, PTL DEF Spec, RevisionNeverRegresses
=============================================================================
