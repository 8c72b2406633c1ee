----------------------- MODULE TargetSessionProofs ------------------------
(***************************************************************************)
(* Proofs about the read-only execution path, for any number of calls,     *)
(* sessions, permits and faults, on both engines: no session returns to    *)
(* the pool inside the transaction of a query, no statement of a user runs *)
(* outside one, and rows are answered only once it was rolled back.        *)
(*                                                                         *)
(* The invariant follows the session of a call from step to step: what may *)
(* be open on it when the statement is sent, and what the way back still   *)
(* has to undo.  The case that makes it more than a table of steps is a    *)
(* MySQL session without autocommit, which opens a transaction by itself:  *)
(* Uncommitted says that such a session is recognizable to the probe.      *)
(***************************************************************************)
EXTENDS TargetSession, TLAPS

\* The steps at which a call may hold a session.
Holding == {"probe", "begin", "verify", "run", "read", "list", "end", "undo",
            "discard", "give"}

\* A call holds one session, between those steps; nobody else holds it.  A permit
\* stands behind every query and listing, and a lookup stays out of their path.
Places ==
  /\ \A c \in Call :
       /\ holds[c] # {} => pc[c] \in Holding
       /\ c \notin Lookup /\ pc[c] \notin {"start", "checked", "done"} => c \in permit
       /\ c \in Lookup => pc[c] \in {"start", "admitted", "list", "give", "done"}
       /\ \A s, t \in holds[c] : s = t
       /\ pc[c] = "list" => c \notin Query
  /\ \A c, d \in Call : c # d => holds[c] \cap holds[d] = {}

\* What may be open on the session of a call, by its step.
Transactions ==
  \A c \in Call : \A s \in holds[c] :
    /\ pc[c] \in {"probe", "list"} => session[s].tx # "ro"
    /\ pc[c] = "begin" => session[s].tx \in {"none", "gone"}
    /\ pc[c] = "verify" => engine = "pg"
    /\ pc[c] \in {"run", "read", "end", "undo"} => session[s].tx \in {"ro", "gone"}
    /\ pc[c] = "give" /\ engine = "mysql" => session[s].tx # "ro"

\* A read-only transaction belongs to a call.
Owned == \A s \in Session : session[s].tx = "ro" => \E c \in Call : s \in holds[c]

\* What a MySQL session has open without being asked shows in its autocommit.
Uncommitted ==
  engine = "mysql" => \A s \in Session : session[s].tx = "rw" => ~session[s].auto

\* A query knows its answer when it turns back, and its statement is sent once; a
\* lookup sends none.
Answers ==
  /\ \A c \in Query :
       /\ pc[c] \in {"start", "checked", "admitted", "probe", "begin", "verify", "run",
                     "read", "end"} => reply[c] = "none"
       /\ pc[c] \in {"start", "checked", "admitted", "probe", "begin", "verify", "run"}
            => ran[c] = "no"
  /\ \A c \in Lookup : ran[c] = "no"

IInv == /\ TypeOK /\ Places /\ Transactions /\ Owned /\ Uncommitted /\ Answers
        /\ RunsReadOnly /\ RepliesAreHonest

\* A call that sends a statement keeps its session, and only this session changes.
LEMMA HolderStays ==
  ASSUME IInv, NEW c \in Call, NEW s \in holds[c], NEW step \in Holding \ {"list"},
         pc[c] \in Holding, pc' = [pc EXCEPT ![c] = step],
         c \in Lookup => step = "give",
         holds' = holds, permit' = permit,
         \A t \in Session \ {s} : session'[t] = session[t]
  PROVE  (Places /\ Owned)'
<1>1. Places'
  BY DEF IInv, Places, Holding
<1>2. s \in Session
  BY DEF IInv, TypeOK
<1>3. Owned'
  BY <1>2 DEF IInv, Owned
<1> QED BY <1>1, <1>3

\* What a statement leaves behind, whether it is carried out or fails.
LEMMA SucceedsEffect ==
  ASSUME TypeOK, NEW c \in Call, NEW s, NEW bound, NEW new, Succeeds(c, s, bound, new)
  PROVE  /\ s \in holds[c] /\ s \in Session /\ session[s] \in Live
         /\ faults' \in Nat /\ session' = [session EXCEPT ![s] = new]
         /\ session'[s] = new /\ \A t \in Session \ {s} : session'[t] = session[t]
         /\ new \in Live => session' \in [Session -> Live \cup {Gone}]
<1>1. s \in holds[c] /\ s \in Session /\ session[s] \in Live
  BY DEF TypeOK, Succeeds
<1>2. session' = [session EXCEPT ![s] = new] /\ faults' = faults
  BY DEF Succeeds
<1> QED BY <1>1, <1>2 DEF TypeOK

LEMMA FailsEffect ==
  ASSUME TypeOK, NEW c \in Call, NEW s, NEW bound, Fails(c, s, bound)
  PROVE  /\ s \in holds[c] /\ s \in Session /\ faults' \in Nat
         /\ session' \in [Session -> Live \cup {Gone}]
         /\ session'[s] \in {session[s], Gone}
         /\ \A t \in Session \ {s} : session'[t] = session[t]
<1>1. s \in holds[c] /\ s \in Session
  BY DEF TypeOK, Fails
<1>2. faults' \in Nat
  BY DEF TypeOK, Fails
<1>3. CASE session' = session
  BY <1>1, <1>2, <1>3 DEF TypeOK
<1>4. CASE session' = [session EXCEPT ![s] = Gone]
  BY <1>1, <1>2, <1>4 DEF TypeOK
<1> QED BY <1>3, <1>4 DEF Fails

\* Neither a transaction control statement nor a read makes a session unfit.
LEMMA StaysLive ==
  ASSUME NEW s, session[s] \in Live
  PROVE  /\ Read(s) \in Live
         /\ \A tx \in {"none", "ro", "rw"} : [session[s] EXCEPT !.tx = tx] \in Live
BY DEF Live, Read

\* A call turns back: it goes on at `step', and a query knows its answer.
LEMMA FailEffect ==
  ASSUME TypeOK, NEW c \in Call, NEW step, NEW e, Fail(c, step, e)
  PROVE  /\ step \in Steps => pc' \in [Call -> Steps]
         /\ e \in Errors \cup {"rows"} => reply' \in [Query -> Errors \cup {"none", "rows"}]
         /\ \A q \in Query : reply'[q] = IF q = c THEN e ELSE reply[q]
<1>1. \A q \in Query : reply[q] \in Errors \cup {"none", "rows"}
  BY DEF TypeOK
<1>2. reply' = [q \in Query |-> IF q = c THEN e ELSE reply[q]]
  BY DEF Fail
<1>3. pc' = [pc EXCEPT ![c] = step]
  BY DEF Fail, Goto
<1>4. step \in Steps => pc' \in [Call -> Steps]
  BY <1>3 DEF TypeOK
<1>5. e \in Errors \cup {"rows"} => reply' \in [Query -> Errors \cup {"none", "rows"}]
  BY <1>1, <1>2
<1> QED BY <1>2, <1>4, <1>5

LEMMA ProbeMySQLKeeps ==
  ASSUME IInv, NEW c \in Call, ProbeMySQL(c)
  PROVE  IInv'
<1>1. PICK s \in holds[c] :
       \/ /\ Succeeds(c, s, TRUE, Read(s))
          /\ IF session[s].mode /\ session[s].auto
             THEN Goto(c, "begin") /\ UNCHANGED reply
             ELSE Fail(c, Refused, "connection_failed")
       \/ Fails(c, s, TRUE) /\ Fail(c, Refused, "connection_failed")
  BY DEF ProbeMySQL
<1>2. s \in Session /\ TypeOK
  BY DEF IInv, TypeOK
<1>3. /\ session' \in [Session -> Live \cup {Gone}] /\ faults' \in Nat
      /\ \A t \in Session \ {s} : session'[t] = session[t]
  <2>1. CASE Succeeds(c, s, TRUE, Read(s))
    BY <2>1, <1>2, SucceedsEffect, StaysLive
  <2>2. CASE Fails(c, s, TRUE)
    BY <2>2, <1>2, FailsEffect
  <2> QED BY <1>1, <2>1, <2>2
<1>4. (Places /\ Owned)'
  <2>1. /\ pc[c] \in Holding
        /\ \E step \in Holding \ {"list"} : /\ pc' = [pc EXCEPT ![c] = step]
                                            /\ c \in Lookup => step = "give"
    BY <1>1 DEF IInv, Places, ProbeMySQL, Goto, Fail, Holding, Refused
  <2> QED BY <1>3, <2>1, HolderStays DEF ProbeMySQL
<1>5. TypeOK'
  <2>1. /\ reply' \in [Query -> Errors \cup {"none", "rows"}]
        /\ pc' \in [Call -> Steps]
    <3>1. CASE Goto(c, "begin") /\ UNCHANGED reply
      BY <1>2, <3>1 DEF TypeOK, Goto, Steps
    <3>2. CASE Fail(c, Refused, "connection_failed")
      BY <1>2, <3>2, FailEffect DEF Refused, Steps, Errors
    <3> QED BY <1>1, <3>1, <3>2
  <2> QED BY <1>1, <1>2, <1>3, <2>1 DEF ProbeMySQL, TypeOK
<1>6. (Transactions /\ Uncommitted)'
  BY <1>3 DEF IInv, TypeOK, ProbeMySQL, Goto, Fail, Refused, Read, Succeeds, Fails,
     Places, Transactions, Uncommitted, Holding, Gone, Live, Call
<1>7. (Answers /\ RunsReadOnly /\ RepliesAreHonest)'
  BY <1>3 DEF IInv, TypeOK, ProbeMySQL, Goto, Fail, Refused, Succeeds, Fails, Answers,
     RunsReadOnly, RepliesAreHonest, Call
<1> QED BY <1>4, <1>5, <1>6, <1>7 DEF IInv

LEMMA BeginKeeps ==
  ASSUME IInv, NEW c \in Call, Begin(c)
  PROVE  IInv'
<1>1. PICK s \in holds[c] :
       \/ /\ \E tx \in IF engine = "mysql" THEN {"ro"}
                       ELSE IF session[s].tx = "none" THEN {"ro", "rw"}
                       ELSE {session[s].tx} :
               Succeeds(c, s, TRUE, [session[s] EXCEPT !.tx = tx])
          /\ harmed' = (harmed \/ (engine = "mysql" /\ session[s].tx = "rw"))
          /\ Goto(c, IF engine = "pg" THEN "verify" ELSE "run")
          /\ UNCHANGED reply
       \/ /\ Fails(c, s, TRUE) /\ Fail(c, Refused, "connection_failed")
          /\ UNCHANGED harmed
  BY DEF Begin
<1>2. s \in Session /\ TypeOK
  BY DEF IInv, TypeOK
<1>3. /\ session' \in [Session -> Live \cup {Gone}] /\ faults' \in Nat
      /\ \A t \in Session \ {s} : session'[t] = session[t]
  <2>1. CASE \E tx \in {"none", "ro", "rw"} :
                Succeeds(c, s, TRUE, [session[s] EXCEPT !.tx = tx])
    BY <2>1, <1>2, SucceedsEffect, StaysLive
  <2>2. CASE Fails(c, s, TRUE)
    BY <2>2, <1>2, FailsEffect
  <2>3. session[s] # Gone => session[s].tx \in {"none", "ro", "rw"}
    BY <1>2 DEF TypeOK, Live
  <2> QED BY <1>1, <2>1, <2>2, <2>3 DEF Succeeds
<1>4. (Places /\ Owned)'
  <2>1. /\ pc[c] \in Holding
        /\ \E step \in Holding \ {"list"} : /\ pc' = [pc EXCEPT ![c] = step]
                                            /\ c \in Lookup => step = "give"
    BY <1>1 DEF IInv, Places, Begin, Goto, Fail, Holding, Refused
  <2> QED BY <1>3, <2>1, HolderStays DEF Begin
<1>5. TypeOK'
  <2>1. /\ reply' \in [Query -> Errors \cup {"none", "rows"}]
        /\ pc' \in [Call -> Steps]
    BY <1>1, <1>2, FailEffect DEF TypeOK, Goto, Refused, Steps, Errors
  <2> QED BY <1>1, <1>2, <1>3, <2>1 DEF Begin, TypeOK
<1>6. (Transactions /\ Uncommitted)'
  BY <1>3 DEF IInv, TypeOK, Begin, Goto, Fail, Refused, Succeeds, Fails, Places,
     Transactions, Uncommitted, Holding, Gone, Live, Call
<1>7. (Answers /\ RunsReadOnly /\ RepliesAreHonest)'
  BY <1>3 DEF IInv, TypeOK, Begin, Goto, Fail, Refused, Succeeds, Fails, Transactions,
     Answers, RunsReadOnly, RepliesAreHonest, Call
<1> QED BY <1>4, <1>5, <1>6, <1>7 DEF IInv

LEMMA VerifyKeeps ==
  ASSUME IInv, NEW c \in Call, Verify(c)
  PROVE  IInv'
<1>1. PICK s \in holds[c] :
       \/ /\ Succeeds(c, s, TRUE, session[s])
          /\ IF session[s].tx = "ro" THEN Goto(c, "run") /\ UNCHANGED reply
                                     ELSE Fail(c, "give", "connection_failed")
       \/ Fails(c, s, TRUE) /\ Fail(c, "give", "connection_failed")
  BY DEF Verify
<1>2. s \in Session /\ TypeOK
  BY DEF IInv, TypeOK
<1>3. /\ session' \in [Session -> Live \cup {Gone}] /\ faults' \in Nat
      /\ \A t \in Session \ {s} : session'[t] = session[t]
  <2>1. CASE Succeeds(c, s, TRUE, session[s])
    BY <2>1, <1>2, SucceedsEffect, StaysLive
  <2>2. CASE Fails(c, s, TRUE)
    BY <2>2, <1>2, FailsEffect
  <2> QED BY <1>1, <2>1, <2>2
<1>4. (Places /\ Owned)'
  <2>1. /\ pc[c] \in Holding
        /\ \E step \in Holding \ {"list"} : /\ pc' = [pc EXCEPT ![c] = step]
                                            /\ c \in Lookup => step = "give"
    BY <1>1 DEF IInv, Places, Verify, Goto, Fail, Holding
  <2> QED BY <1>3, <2>1, HolderStays DEF Verify
<1>5. TypeOK'
  <2>1. /\ reply' \in [Query -> Errors \cup {"none", "rows"}]
        /\ pc' \in [Call -> Steps]
    BY <1>1, <1>2, FailEffect DEF TypeOK, Goto, Steps, Errors
  <2> QED BY <1>1, <1>2, <1>3, <2>1 DEF Verify, TypeOK
<1>6. (Transactions /\ Uncommitted)'
  BY <1>3 DEF IInv, TypeOK, Verify, Goto, Fail, Succeeds, Fails, Places, Transactions,
     Uncommitted
<1>7. (Answers /\ RunsReadOnly /\ RepliesAreHonest)'
  BY <1>3 DEF IInv, TypeOK, Verify, Goto, Fail, Succeeds, Fails, Answers, RunsReadOnly,
     RepliesAreHonest, Call
<1> QED BY <1>4, <1>5, <1>6, <1>7 DEF IInv

LEMMA RunKeeps ==
  ASSUME IInv, NEW c \in Call, Run(c)
  PROVE  IInv'
<1>1. PICK s \in holds[c] :
       /\ ran' = [ran EXCEPT ![c] = session[s].tx]
       /\ \/ Succeeds(c, s, TRUE, session[s]) /\ Goto(c, "read") /\ UNCHANGED reply
          \/ Fails(c, s, TRUE) /\ Fail(c, "undo", Executing[over[c]])
  BY DEF Run
<1>2. s \in Session /\ TypeOK
  BY DEF IInv, TypeOK
<1>3. /\ session' \in [Session -> Live \cup {Gone}] /\ faults' \in Nat
      /\ \A t \in Session \ {s} : session'[t] = session[t]
  <2>1. CASE Succeeds(c, s, TRUE, session[s])
    BY <2>1, <1>2, SucceedsEffect, StaysLive
  <2>2. CASE Fails(c, s, TRUE)
    BY <2>2, <1>2, FailsEffect
  <2> QED BY <1>1, <2>1, <2>2
<1>4. (Places /\ Owned)'
  <2>1. /\ pc[c] \in Holding
        /\ \E step \in Holding \ {"list"} : /\ pc' = [pc EXCEPT ![c] = step]
                                            /\ c \in Lookup => step = "give"
    BY <1>1 DEF IInv, Places, Run, Goto, Fail, Holding
  <2> QED BY <1>3, <2>1, HolderStays DEF Run
<1>5. TypeOK'
  <2>1. Executing[over[c]] \in Errors
    BY <1>2 DEF TypeOK, Executing, Errors
  <2>2. reply' \in [Query -> Errors \cup {"none", "rows"}]
    BY <1>1, <1>2, <2>1, FailEffect DEF TypeOK, Errors
  <2>3. pc' \in [Call -> Steps]
    BY <1>1, <1>2 DEF TypeOK, Goto, Fail, Steps
  <2> QED BY <1>1, <1>2, <1>3, <2>2, <2>3 DEF Run, TypeOK, Live, Gone
<1>6. (Transactions /\ Uncommitted)'
  BY <1>3, CallsDisjoint DEF IInv, TypeOK, Run, Goto, Fail, Succeeds, Fails, Transactions,
     Uncommitted, Gone
<1>7. (Answers /\ RunsReadOnly /\ RepliesAreHonest)'
  <2>1. /\ pc[c] = "run" /\ c \notin Lookup /\ ended' = ended /\ harmed' = harmed
        /\ session[s].tx \in {"ro", "gone"} /\ ran' = [ran EXCEPT ![c] = session[s].tx]
    BY <1>1 DEF IInv, Places, Run, Transactions
  <2>2. CASE Goto(c, "read") /\ UNCHANGED reply
    BY <2>1, <2>2 DEF IInv, TypeOK, Goto, Answers, RunsReadOnly, RepliesAreHonest, Call
  <2>3. CASE Fail(c, "undo", Executing[over[c]])
    <3>1. Executing[over[c]] \in {"query_cancelled", "query_timeout", "database_error"}
      BY <1>2 DEF TypeOK, Executing
    <3>2. \A q \in Query : reply'[q] = IF q = c THEN Executing[over[c]] ELSE reply[q]
      BY <1>2, <2>3, FailEffect
    <3> QED BY <2>1, <2>3, <3>1, <3>2 DEF IInv, TypeOK, Goto, Fail, Answers, RunsReadOnly,
            RepliesAreHonest, Call
  <2> QED BY <1>1, <2>2, <2>3
<1> QED BY <1>4, <1>5, <1>6, <1>7 DEF IInv

LEMMA ReadRowsKeeps ==
  ASSUME IInv, NEW c \in Call, ReadRows(c)
  PROVE  IInv'
<1>1. PICK s \in holds[c] :
       \/ Succeeds(c, s, TRUE, session[s]) /\ Goto(c, "end") /\ UNCHANGED reply
       \/ /\ \E e \in {"result_too_large", "panic"} : Fail(c, "undo", e)
          /\ Succeeds(c, s, FALSE, session[s])
       \/ Fails(c, s, TRUE) /\ Fail(c, "undo", Executing[over[c]])
  BY DEF ReadRows
<1>2. s \in Session /\ TypeOK
  BY DEF IInv, TypeOK
<1>3. /\ session' \in [Session -> Live \cup {Gone}] /\ faults' \in Nat
      /\ \A t \in Session \ {s} : session'[t] = session[t]
  <2>1. CASE (Succeeds(c, s, TRUE, session[s]) \/ Succeeds(c, s, FALSE, session[s]))
    BY <2>1, <1>2, SucceedsEffect, StaysLive
  <2>2. CASE Fails(c, s, TRUE)
    BY <2>2, <1>2, FailsEffect
  <2> QED BY <1>1, <2>1, <2>2
<1>4. (Places /\ Owned)'
  <2>1. /\ pc[c] \in Holding
        /\ \E step \in Holding \ {"list"} : /\ pc' = [pc EXCEPT ![c] = step]
                                            /\ c \in Lookup => step = "give"
    BY <1>1 DEF IInv, Places, ReadRows, Goto, Fail, Holding
  <2> QED BY <1>3, <2>1, HolderStays DEF ReadRows
<1>5. TypeOK'
  <2>1. Executing[over[c]] \in Errors
    BY <1>2 DEF TypeOK, Executing, Errors
  <2>2. reply' \in [Query -> Errors \cup {"none", "rows"}]
    BY <1>1, <1>2, <2>1, FailEffect DEF TypeOK, Errors
  <2>3. pc' \in [Call -> Steps]
    BY <1>1, <1>2 DEF TypeOK, Goto, Fail, Steps
  <2> QED BY <1>1, <1>2, <1>3, <2>2, <2>3 DEF ReadRows, TypeOK, Live, Gone
<1>6. (Transactions /\ Uncommitted)'
  BY <1>3 DEF IInv, TypeOK, ReadRows, Goto, Fail, Succeeds, Fails, Transactions,
     Uncommitted, Gone
<1>7. (Answers /\ RunsReadOnly /\ RepliesAreHonest)'
  BY <1>3 DEF IInv, TypeOK, ReadRows, Goto, Fail, Executing, Succeeds, Fails, Answers,
     RunsReadOnly, RepliesAreHonest, Call
<1> QED BY <1>4, <1>5, <1>6, <1>7 DEF IInv

LEMMA EndKeeps ==
  ASSUME IInv, NEW c \in Call, End(c)
  PROVE  IInv'
<1>1. PICK s \in holds[c] :
       \/ RolledBack(c, s) /\ Fail(c, "give", "rows")
       \/ /\ Fails(c, s, FALSE) /\ Fail(c, "discard", "connection_failed")
          /\ UNCHANGED <<ended, harmed>>
  BY DEF End
<1>2. s \in Session /\ TypeOK
  BY DEF IInv, TypeOK
<1>3. /\ session' \in [Session -> Live \cup {Gone}] /\ faults' \in Nat
      /\ \A t \in Session \ {s} : session'[t] = session[t]
  <2>1. CASE Succeeds(c, s, FALSE, [session[s] EXCEPT !.tx = "none"])
    BY <2>1, <1>2, SucceedsEffect, StaysLive
  <2>2. CASE Fails(c, s, FALSE)
    BY <2>2, <1>2, FailsEffect
  <2> QED BY <1>1, <2>1, <2>2 DEF RolledBack
<1>4. (Places /\ Owned)'
  <2>1. /\ pc[c] \in Holding
        /\ \E step \in Holding \ {"list"} : /\ pc' = [pc EXCEPT ![c] = step]
                                            /\ c \in Lookup => step = "give"
    BY <1>1 DEF IInv, Places, End, Goto, Fail, Holding
  <2> QED BY <1>3, <2>1, HolderStays DEF End
<1>5. TypeOK'
  <2>1. /\ reply' \in [Query -> Errors \cup {"none", "rows"}]
        /\ pc' \in [Call -> Steps]
    BY <1>1, <1>2, FailEffect DEF TypeOK, Goto, Steps, Errors
  <2> QED BY <1>1, <1>2, <1>3, <2>1 DEF End, TypeOK, RolledBack
<1>6. (Transactions /\ Uncommitted)'
  <2>1. \A d \in Call \ {c} : s \notin holds[d]
    BY <1>1 DEF IInv, Places
  <2>2. \A t \in holds[c] : t = s
    BY <1>1 DEF IInv, Places
  <2>3. pc[c] = "end" /\ holds' = holds /\ engine' = engine
    BY DEF End
  <2>4. Transactions'
    <3>1. CASE RolledBack(c, s) /\ Fail(c, "give", "rows")
      <4>1. session'[s].tx = "none"
        BY <1>2, <3>1 DEF RolledBack, Succeeds, TypeOK, Live
      <4> QED BY <1>3, <2>1, <2>2, <2>3, <3>1, <4>1 DEF IInv, TypeOK, Fail, Goto, Transactions
    <3>2. CASE Fails(c, s, FALSE) /\ Fail(c, "discard", "connection_failed")
      BY <1>3, <2>1, <2>2, <2>3, <3>2 DEF IInv, TypeOK, Fail, Goto, Transactions
    <3> QED BY <1>1, <3>1, <3>2
  <2>5. Uncommitted'
    BY <1>1, <1>2, <1>3, <2>3 DEF IInv, TypeOK, RolledBack, Succeeds, Fails, Uncommitted,
       Gone, Live
  <2> QED BY <2>4, <2>5
<1>7. (Answers /\ RunsReadOnly /\ RepliesAreHonest)'
  BY <1>3 DEF IInv, TypeOK, End, Goto, Fail, Succeeds, Fails, RolledBack, Transactions,
     Answers, RunsReadOnly, RepliesAreHonest, Call
<1> QED BY <1>4, <1>5, <1>6, <1>7 DEF IInv

LEMMA UndoKeeps ==
  ASSUME IInv, NEW c \in Call, Undo(c)
  PROVE  IInv'
<1>1. PICK s \in holds[c] :
       \/ RolledBack(c, s) /\ Goto(c, "give")
       \/ Fails(c, s, FALSE) /\ Goto(c, Refused) /\ UNCHANGED <<ended, harmed>>
  BY DEF Undo
<1>2. s \in Session /\ TypeOK
  BY DEF IInv, TypeOK
<1>3. /\ session' \in [Session -> Live \cup {Gone}] /\ faults' \in Nat
      /\ \A t \in Session \ {s} : session'[t] = session[t]
  <2>1. CASE Succeeds(c, s, FALSE, [session[s] EXCEPT !.tx = "none"])
    BY <2>1, <1>2, SucceedsEffect, StaysLive
  <2>2. CASE Fails(c, s, FALSE)
    BY <2>2, <1>2, FailsEffect
  <2> QED BY <1>1, <2>1, <2>2 DEF RolledBack
<1>4. (Places /\ Owned)'
  <2>1. /\ pc[c] \in Holding
        /\ \E step \in Holding \ {"list"} : /\ pc' = [pc EXCEPT ![c] = step]
                                            /\ c \in Lookup => step = "give"
    BY <1>1 DEF IInv, Places, Undo, Goto, Holding, Refused
  <2> QED BY <1>3, <2>1, HolderStays DEF Undo
<1>5. TypeOK'
  BY <1>1, <1>3 DEF Undo, IInv, TypeOK, Goto, Steps, RolledBack, Refused
<1>6. (Transactions /\ Uncommitted)'
  <2>1. \A d \in Call \ {c} : s \notin holds[d]
    BY <1>1 DEF IInv, Places
  <2>2. \A t \in holds[c] : t = s
    BY <1>1 DEF IInv, Places
  <2>3. pc[c] = "undo" /\ holds' = holds /\ engine' = engine
    BY DEF Undo
  <2>4. Transactions'
    <3>1. CASE RolledBack(c, s) /\ Goto(c, "give")
      <4>1. session'[s].tx = "none"
        BY <1>2, <3>1 DEF RolledBack, Succeeds, TypeOK, Live
      <4> QED BY <1>3, <2>1, <2>2, <2>3, <3>1, <4>1 DEF IInv, TypeOK, Goto, Transactions
    <3>2. CASE Fails(c, s, FALSE) /\ Goto(c, Refused)
      BY <1>3, <2>1, <2>2, <2>3, <3>2 DEF IInv, TypeOK, Goto, Refused, Transactions
    <3> QED BY <1>1, <3>1, <3>2
  <2>5. Uncommitted'
    BY <1>1, <1>2, <1>3, <2>3 DEF IInv, TypeOK, RolledBack, Succeeds, Fails, Uncommitted,
       Gone, Live
  <2> QED BY <2>4, <2>5
<1>7. (Answers /\ RunsReadOnly /\ RepliesAreHonest)'
  BY <1>3 DEF IInv, TypeOK, Undo, Goto, Refused, Succeeds, Fails, RolledBack,
     Transactions, Answers, RunsReadOnly, RepliesAreHonest, Call
<1> QED BY <1>4, <1>5, <1>6, <1>7 DEF IInv

LEMMA ListKeeps ==
  ASSUME IInv, NEW c \in Call, List(c)
  PROVE  IInv'
<1>1. PICK s \in holds[c] :
       Succeeds(c, s, TRUE, Read(s)) \/ Fails(c, s, TRUE)
  BY DEF List
<1>2. s \in Session /\ TypeOK
  BY DEF IInv, TypeOK
<1>3. /\ session' \in [Session -> Live \cup {Gone}] /\ faults' \in Nat
      /\ \A t \in Session \ {s} : session'[t] = session[t]
  <2>1. CASE Succeeds(c, s, TRUE, Read(s))
    BY <2>1, <1>2, SucceedsEffect, StaysLive
  <2>2. CASE Fails(c, s, TRUE)
    BY <2>2, <1>2, FailsEffect
  <2> QED BY <1>1, <2>1, <2>2
<1>4. (Places /\ Owned)'
  <2>1. /\ pc[c] \in Holding
        /\ \E step \in Holding \ {"list"} : /\ pc' = [pc EXCEPT ![c] = step]
                                            /\ c \in Lookup => step = "give"
    BY <1>1 DEF IInv, Places, List, Goto, Fail, Holding
  <2> QED BY <1>3, <2>1, HolderStays DEF List
<1>5. TypeOK'
  BY <1>1, <1>3 DEF List, IInv, TypeOK, Goto, Steps
<1>6. (Transactions /\ Uncommitted)'
  BY <1>3 DEF IInv, TypeOK, List, Goto, Fail, Read, Succeeds, Fails, Places, Transactions,
     Uncommitted, Gone, Live, Call
<1>7. (Answers /\ RunsReadOnly /\ RepliesAreHonest)'
  BY <1>3, CallsDisjoint DEF IInv, TypeOK, List, Goto, Fail, Succeeds, Fails, Places,
     Answers, RunsReadOnly, RepliesAreHonest, Call
<1> QED BY <1>4, <1>5, <1>6, <1>7 DEF IInv

-----------------------------------------------------------------------------
(* The steps that send nothing on a session of the call.                    *)

LEMMA CheckKeeps ==
  ASSUME IInv, NEW c \in Call, Check(c)
  PROVE  IInv'
<1>1. TypeOK'
  BY DEF IInv, TypeOK, Check, Goto, Fail, Steps, Errors
<1>2. (Places /\ Owned)'
  BY DEF IInv, TypeOK, Check, Goto, Fail, Places, Owned, Holding
<1>3. (Transactions /\ Uncommitted)'
  BY DEF IInv, TypeOK, Check, Goto, Fail, Transactions, Uncommitted
<1>4. (Answers /\ RunsReadOnly /\ RepliesAreHonest)'
  BY DEF IInv, TypeOK, Check, Goto, Fail, Answers, RunsReadOnly, RepliesAreHonest, Call
<1> QED BY <1>1, <1>2, <1>3, <1>4 DEF IInv

LEMMA AdmitKeeps ==
  ASSUME IInv, NEW c \in Call, Admit(c)
  PROVE  IInv'
<1>1. TypeOK'
  BY DEF IInv, TypeOK, Admit, Goto, Fail, Steps, Errors
<1>2. (Places /\ Owned)'
  BY DEF IInv, TypeOK, Admit, Goto, Fail, Places, Owned, Holding
<1>3. (Transactions /\ Uncommitted)'
  BY DEF IInv, TypeOK, Admit, Goto, Fail, Transactions, Uncommitted
<1>4. (Answers /\ RunsReadOnly /\ RepliesAreHonest)'
  BY DEF IInv, TypeOK, Admit, Goto, Fail, Answers, RunsReadOnly, RepliesAreHonest, Call
<1> QED BY <1>1, <1>2, <1>3, <1>4 DEF IInv

\* A call that gets a session; the session was nobody's.
LEMMA Takes ==
  ASSUME IInv, NEW c \in Call, pc[c] = "admitted", NEW s \in Session \ Held,
         holds' = [holds EXCEPT ![c] = {s}],
         \/ session[s] # Gone /\ session' = session
         \/ \E new \in Fresh(engine) : session' = [session EXCEPT ![s] = new],
         Goto(c, IF c \in Query THEN "probe" ELSE "list"),
         UNCHANGED <<engine, serving, permit, reply, over, ran, ended, harmed, faults>>
  PROVE  IInv'
<1>1. \A d \in Call : s \notin holds[d]
  BY DEF Held
<1>2. holds[c] = {} /\ (c \in permit \/ c \in Lookup)
  BY DEF IInv, Places, Holding
<1>3. /\ holds'[c] = {s} /\ \A d \in Call \ {c} : holds'[d] = holds[d]
      /\ pc'[c] = IF c \in Query THEN "probe" ELSE "list"
      /\ \A d \in Call \ {c} : pc'[d] = pc[d]
  BY DEF IInv, TypeOK, Goto
<1>4. /\ session' \in [Session -> Live \cup {Gone}] /\ session'[s].tx # "ro"
      /\ \A t \in Session \ {s} : session'[t] = session[t]
      /\ engine = "mysql" /\ session'[s].tx = "rw" => ~session'[s].auto
  <2>1. CASE session[s] # Gone /\ session' = session
    BY <1>1, <2>1 DEF IInv, TypeOK, Owned, Uncommitted
  <2>2. CASE \E new \in Fresh(engine) : session' = [session EXCEPT ![s] = new]
    <3>1. PICK new \in Fresh(engine) : session' = [session EXCEPT ![s] = new]
      BY <2>2
    <3>2. new \in Live /\ new.tx # "ro" /\ (engine = "mysql" /\ new.auto => new.tx = "none")
      BY <3>1 DEF Fresh, IInv, TypeOK
    <3>3. session \in [Session -> Live \cup {Gone}]
      BY DEF IInv, TypeOK
    <3> QED BY <3>1, <3>2, <3>3
  <2> QED BY <2>1, <2>2
<1>5. TypeOK'
  <2>1. pc' \in [Call -> Steps] /\ holds' \in [Call -> SUBSET Session]
    BY DEF IInv, TypeOK, Goto, Steps
  <2> QED BY <1>4, <2>1 DEF IInv, TypeOK
<1>6. Places'
  <2>1. \A d, e \in Call : d # e => holds'[d] \cap holds'[e] = {}
    BY <1>1, <1>3 DEF IInv, Places
  <2>2. ASSUME NEW d \in Call
        PROVE  /\ holds'[d] # {} => pc'[d] \in Holding
               /\ d \notin Lookup /\ pc'[d] \notin {"start", "checked", "done"} => d \in permit'
               /\ d \in Lookup => pc'[d] \in {"start", "admitted", "list", "give", "done"}
               /\ \A t, u \in holds'[d] : t = u
               /\ pc'[d] = "list" => d \notin Query
    BY <1>2, <1>3, CallsDisjoint DEF IInv, Places, Holding
  <2> QED BY <2>1, <2>2 DEF Places
<1>7. Owned'
  BY <1>2, <1>3, <1>4 DEF IInv, Owned
<1>8. Transactions' /\ Uncommitted'
  BY <1>1, <1>3, <1>4 DEF IInv, TypeOK, Transactions, Uncommitted
<1>9. (Answers /\ RunsReadOnly /\ RepliesAreHonest)'
  BY <1>3 DEF IInv, Answers, RunsReadOnly, RepliesAreHonest, Call
<1> QED BY <1>5, <1>6, <1>7, <1>8, <1>9 DEF IInv

LEMMA AcquireKeeps ==
  ASSUME IInv, NEW c \in Call, Acquire(c)
  PROVE  IInv'
<1>1. CASE UNCHANGED <<session, holds>> /\ faults' \in Nat /\
           \E e \in {"query_cancelled", "connection_busy", "database_error"} :
             Fail(c, Exit(c), e)
  <2>1. PICK e \in {"query_cancelled", "connection_busy", "database_error"} :
               Fail(c, Exit(c), e)
    BY <1>1
  <2>2. /\ pc[c] = "admitted" /\ holds[c] = {} /\ c \in Call
        /\ Exit(c) \in {"release", "done"} /\ (c \in Lookup <=> Exit(c) = "done")
        /\ UNCHANGED <<engine, serving, permit, over, ran, ended, harmed>>
    BY DEF Acquire, IInv, Places, Holding, Exit
  <2>3. /\ pc' = [pc EXCEPT ![c] = Exit(c)] /\ pc' \in [Call -> Steps]
        /\ reply' \in [Query -> Errors \cup {"none", "rows"}]
        /\ \A q \in Query : reply'[q] = IF q = c THEN e ELSE reply[q]
    <3>1. Exit(c) \in Steps /\ e \in Errors /\ TypeOK
      BY <2>1, <2>2 DEF Steps, Errors, IInv
    <3> QED BY <2>1, <3>1, FailEffect DEF Fail, Goto
  <2>4. TypeOK'
    BY <1>1, <2>2, <2>3 DEF IInv, TypeOK
  <2>5. (Places /\ Owned)'
    BY <1>1, <2>2, <2>3 DEF IInv, TypeOK, Places, Owned, Holding
  <2>6. (Transactions /\ Uncommitted)'
    BY <1>1, <2>2, <2>3 DEF IInv, TypeOK, Transactions, Uncommitted
  <2>7. (Answers /\ RunsReadOnly /\ RepliesAreHonest)'
    BY <1>1, <2>1, <2>2, <2>3 DEF IInv, TypeOK, Answers, RunsReadOnly, RepliesAreHonest, Call
  <2> QED BY <2>4, <2>5, <2>6, <2>7 DEF IInv
<1>2. ASSUME NEW s \in Session \ Held,
             holds' = [holds EXCEPT ![c] = {s}],
             IF session[s] = Gone
                THEN \E new \in Fresh(engine) : session' = [session EXCEPT ![s] = new]
                ELSE UNCHANGED session,
             Goto(c, IF c \in Query THEN "probe" ELSE "list"),
             UNCHANGED <<reply, faults>>
      PROVE  IInv'
  BY <1>2, Takes DEF Acquire
<1>3. /\ Acquiring[over[c]] \in {"query_cancelled", "connection_busy", "database_error"}
      /\ \A how \in {"live", "deadline"} :
           Acquiring[how] \in {"query_cancelled", "connection_busy", "database_error"}
      /\ faults \in Nat
  BY DEF IInv, TypeOK, Acquiring
<1> QED BY <1>1, <1>2, <1>3 DEF Acquire

LEMMA ProbePGKeeps ==
  ASSUME IInv, NEW c \in Call, ProbePG(c)
  PROVE  IInv'
<1>1. TypeOK'
  BY DEF IInv, TypeOK, ProbePG, Goto, Fail, Refused, Steps, Errors
<1>2. (Places /\ Owned)'
  BY DEF IInv, TypeOK, ProbePG, Goto, Fail, Refused, Places, Owned, Holding
<1>3. (Transactions /\ Uncommitted)'
  BY DEF IInv, TypeOK, ProbePG, Goto, Fail, Refused, Transactions, Uncommitted, Gone, Live
<1>4. (Answers /\ RunsReadOnly /\ RepliesAreHonest)'
  BY DEF IInv, TypeOK, ProbePG, Goto, Fail, Refused, Answers, RunsReadOnly,
     RepliesAreHonest, Call
<1> QED BY <1>1, <1>2, <1>3, <1>4 DEF IInv

LEMMA DiscardKeeps ==
  ASSUME IInv, NEW c \in Call, Discard(c)
  PROVE  IInv'
<1>1. TypeOK'
  BY DEF IInv, TypeOK, Discard, Goto, Steps
<1>2. (Places /\ Owned)'
  BY DEF IInv, Discard, Goto, Places, Owned, Holding
<1>3. (Transactions /\ Uncommitted)'
  BY DEF IInv, TypeOK, Discard, Goto, Transactions, Uncommitted, Gone
<1>4. (Answers /\ RunsReadOnly /\ RepliesAreHonest)'
  BY DEF IInv, Discard, Goto, Answers, RunsReadOnly, RepliesAreHonest
<1> QED BY <1>1, <1>2, <1>3, <1>4 DEF IInv

LEMMA GiveBackKeeps ==
  ASSUME IInv, NEW c \in Call, GiveBack(c)
  PROVE  IInv'
<1>1. TypeOK'
  <2>1. session' \in [Session -> Live \cup {Gone}]
    BY DEF GiveBack, IInv, TypeOK
  <2>2. pc' \in [Call -> Steps] /\ holds' \in [Call -> SUBSET Session]
    BY DEF GiveBack, Goto, Exit, IInv, TypeOK, Steps
  <2> QED BY <2>1, <2>2 DEF GiveBack, IInv, TypeOK
<1>2. (Places /\ Owned)'
  BY DEF IInv, TypeOK, GiveBack, Goto, Exit, Places, Owned, Transactions, Gone
<1>3. (Transactions /\ Uncommitted)'
  BY DEF IInv, TypeOK, GiveBack, Goto, Exit, Transactions, Uncommitted, Gone
<1>4. (Answers /\ RunsReadOnly /\ RepliesAreHonest)'
  BY DEF IInv, TypeOK, GiveBack, Goto, Exit, Answers, RunsReadOnly, RepliesAreHonest, Call
<1> QED BY <1>1, <1>2, <1>3, <1>4 DEF IInv

LEMMA ReleaseKeeps ==
  ASSUME IInv, NEW c \in Call, Release(c)
  PROVE  IInv'
<1>1. TypeOK'
  BY DEF IInv, TypeOK, Release, Goto, Steps
<1>2. (Places /\ Owned)'
  BY DEF IInv, TypeOK, Release, Goto, Places, Owned, Holding
<1>3. (Transactions /\ Uncommitted)'
  BY DEF IInv, Release, Goto, Transactions, Uncommitted
<1>4. (Answers /\ RunsReadOnly /\ RepliesAreHonest)'
  BY DEF IInv, Release, Goto, Answers, RunsReadOnly, RepliesAreHonest
<1> QED BY <1>1, <1>2, <1>3, <1>4 DEF IInv

LEMMA ExpireKeeps ==
  ASSUME IInv, NEW c \in Call, Expire(c)
  PROVE  IInv'
<1>1. TypeOK'
  BY DEF IInv, TypeOK, Expire, cvars
<1>2. (Places /\ Owned)'
  BY DEF IInv, Expire, cvars, Places, Owned
<1>3. (Transactions /\ Uncommitted)'
  BY DEF IInv, Expire, cvars, Transactions, Uncommitted
<1>4. (Answers /\ RunsReadOnly /\ RepliesAreHonest)'
  BY DEF IInv, Expire, cvars, Answers, RunsReadOnly, RepliesAreHonest
<1> QED BY <1>1, <1>2, <1>3, <1>4 DEF IInv

LEMMA DieKeeps ==
  ASSUME IInv, NEW s \in Session, Die(s)
  PROVE  IInv'
<1>1. TypeOK'
  BY DEF IInv, TypeOK, Die, cvars
<1>2. (Places /\ Owned)'
  BY DEF IInv, Die, cvars, Places, Owned, Gone
<1>3. (Transactions /\ Uncommitted)'
  BY DEF IInv, Die, cvars, Transactions, Uncommitted, Gone
<1>4. (Answers /\ RunsReadOnly /\ RepliesAreHonest)'
  BY DEF IInv, Die, cvars, Answers, RunsReadOnly, RepliesAreHonest
<1> QED BY <1>1, <1>2, <1>3, <1>4 DEF IInv

LEMMA DrainKeeps ==
  ASSUME IInv, Drain
  PROVE  IInv'
<1>1. TypeOK'
  BY DEF IInv, TypeOK, Drain, cvars
<1>2. (Places /\ Owned)'
  BY DEF IInv, Drain, cvars, Places, Owned
<1>3. (Transactions /\ Uncommitted)'
  BY DEF IInv, Drain, cvars, Transactions, Uncommitted
<1>4. (Answers /\ RunsReadOnly /\ RepliesAreHonest)'
  BY DEF IInv, Drain, cvars, Answers, RunsReadOnly, RepliesAreHonest
<1> QED BY <1>1, <1>2, <1>3, <1>4 DEF IInv

LEMMA ClosePoolKeeps ==
  ASSUME IInv, ClosePool
  PROVE  IInv'
<1>1. TypeOK'
  BY DEF IInv, TypeOK, ClosePool, cvars
<1>2. (Places /\ Owned)'
  BY DEF IInv, ClosePool, cvars, Places, Owned, Gone
<1>3. (Transactions /\ Uncommitted)'
  BY DEF IInv, TypeOK, ClosePool, cvars, Transactions, Uncommitted, Gone
<1>4. (Answers /\ RunsReadOnly /\ RepliesAreHonest)'
  BY DEF IInv, ClosePool, cvars, Answers, RunsReadOnly, RepliesAreHonest
<1> QED BY <1>1, <1>2, <1>3, <1>4 DEF IInv

-----------------------------------------------------------------------------
(* The specification.                                                      *)

LEMMA InitHolds == Init => IInv
<1> SUFFICES ASSUME Init
             PROVE  IInv
  OBVIOUS
<1>1. TypeOK
  BY DEF Init, TypeOK, Steps
<1>2. Places /\ Transactions /\ Answers
  BY DEF Init, Places, Transactions, Answers, Call
<1>3. Owned /\ Uncommitted
  BY DEF Init, Owned, Uncommitted, Gone
<1>4. RunsReadOnly /\ RepliesAreHonest
  BY DEF Init, RunsReadOnly, RepliesAreHonest, Call
<1> QED BY <1>1, <1>2, <1>3, <1>4 DEF IInv

LEMMA NextKeeps == IInv /\ [Next]_vars => IInv'
<1> SUFFICES ASSUME IInv, [Next]_vars
             PROVE  IInv'
  OBVIOUS
<1>1. ASSUME NEW c \in Call, Check(c) PROVE IInv'
  BY <1>1, CheckKeeps
<1>2. ASSUME NEW c \in Call, Admit(c) PROVE IInv'
  BY <1>2, AdmitKeeps
<1>3. ASSUME NEW c \in Call, Acquire(c) PROVE IInv'
  BY <1>3, AcquireKeeps
<1>4. ASSUME NEW c \in Call, ProbePG(c) PROVE IInv'
  BY <1>4, ProbePGKeeps
<1>5. ASSUME NEW c \in Call, ProbeMySQL(c) PROVE IInv'
  BY <1>5, ProbeMySQLKeeps
<1>6. ASSUME NEW c \in Call, Begin(c) PROVE IInv'
  BY <1>6, BeginKeeps
<1>7. ASSUME NEW c \in Call, Verify(c) PROVE IInv'
  BY <1>7, VerifyKeeps
<1>8. ASSUME NEW c \in Call, Run(c) PROVE IInv'
  BY <1>8, RunKeeps
<1>9. ASSUME NEW c \in Call, ReadRows(c) PROVE IInv'
  BY <1>9, ReadRowsKeeps
<1>10. ASSUME NEW c \in Call, End(c) PROVE IInv'
  BY <1>10, EndKeeps
<1>11. ASSUME NEW c \in Call, Undo(c) PROVE IInv'
  BY <1>11, UndoKeeps
<1>12. ASSUME NEW c \in Call, Discard(c) PROVE IInv'
  BY <1>12, DiscardKeeps
<1>13. ASSUME NEW c \in Call, List(c) PROVE IInv'
  BY <1>13, ListKeeps
<1>14. ASSUME NEW c \in Call, GiveBack(c) PROVE IInv'
  BY <1>14, GiveBackKeeps
<1>15. ASSUME NEW c \in Call, Release(c) PROVE IInv'
  BY <1>15, ReleaseKeeps
<1>16. ASSUME NEW c \in Call, Expire(c) PROVE IInv'
  BY <1>16, ExpireKeeps
<1>17. ASSUME NEW s \in Session, Die(s) PROVE IInv'
  BY <1>17, DieKeeps
<1>18. ASSUME Drain PROVE IInv'
  BY <1>18, DrainKeeps
<1>19. ASSUME ClosePool PROVE IInv'
  BY <1>19, ClosePoolKeeps
<1>20. ASSUME UNCHANGED vars PROVE IInv'
  BY <1>20 DEF vars, IInv, TypeOK, Places, Transactions, Owned, Uncommitted, Answers,
     RunsReadOnly, RepliesAreHonest
<1> QED BY <1>1, <1>2, <1>3, <1>4, <1>5, <1>6, <1>7, <1>8, <1>9, <1>10, <1>11, <1>12,
        <1>13, <1>14, <1>15, <1>16, <1>17, <1>18, <1>19, <1>20 DEF Next, CallStep

LEMMA Invariance == Spec => []IInv
BY InitHolds, NextKeeps, PTL DEF Spec

\* The state of every reachable system is of its types: no session is in a
\* transaction the engines do not have, no call holds a session of no pool.
THEOREM TypeCorrect == Spec => []TypeOK
<1>1. IInv => TypeOK
  BY DEF IInv
<1> QED BY <1>1, Invariance, PTL

\* endReadOnlyPG, endReadOnlyMySQL and the discards of execPG and execMySQL: a
\* session nobody uses is never inside the read-only transaction of a query.
THEOREM SessionsReturnClean == Spec => []PooledSessionsAreClean
<1>1. IInv => PooledSessionsAreClean
  BY DEF IInv, Owned, PooledSessionsAreClean, Held
<1> QED BY <1>1, Invariance, PTL

\* beginReadOnlyPG and beginReadOnlyMySQL: the statement of a user is sent inside
\* a read-only transaction only, and no transaction of somebody else is ended.
THEOREM StatementsRunReadOnly == Spec => []RunsReadOnly
<1>1. IInv => RunsReadOnly
  BY DEF IInv
<1> QED BY <1>1, Invariance, PTL

\* execPG and execMySQL: rows are answered after a confirmed rollback, and what
\* invites the client to try again was never sent.
THEOREM AnswersAreHonest == Spec => []RepliesAreHonest
<1>1. IInv => RepliesAreHonest
  BY DEF IInv
<1> QED BY <1>1, Invariance, PTL

\* The defers of Query, NextPage and the listings: a session has one user at a time,
\* and a query or a listing has a permit as long as it holds one.  LoadTableMetadata,
\* ResolveQualifiedTable and Ping hold theirs without, and send no statement of a user.
THEOREM PermitsCoverSessions == Spec => []SessionsCovered
<1>1. IInv => SessionsCovered
  BY DEF IInv, Places, Answers, SessionsCovered, Holding
<1> QED BY <1>1, Invariance, PTL

=============================================================================
