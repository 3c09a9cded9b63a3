-------------------------- MODULE TaosStoreProofs ---------------------------
(***************************************************************************)
(* Proofs about TaosStore for any number of calls, requests, connections   *)
(* and refusals: its type invariant, that its locks cannot deadlock, that  *)
(* no statement addresses a schema that is not there, and that the rows of *)
(* an acknowledged batch are there.                                        *)
(***************************************************************************)
EXTENDS TaosStore, FiniteSetTheorems, TLAPS

(* What writing rows leaves alone.                                         *)
LEMMA WrittenSchema ==
  ASSUME NEW store, NEW project, NEW points, NEW c,
         store = [database |-> store.database, stables |-> store.stables,
                  tables |-> store.tables, rows |-> store.rows]
  PROVE  LET new == Written(store, project, points, c) IN
         /\ new.database = store.database
         /\ new.stables = store.stables
         /\ new = [database |-> new.database, stables |-> new.stables,
                   tables |-> new.tables, rows |-> new.rows]
BY DEF Written

(* The connections are numbered, and the query connection is the last.     *)
LEMMA PoolNumbers ==
  /\ ConnectionCount \in Nat /\ ConnectionCount # 0
  /\ QueryConnection = ConnectionCount
  /\ 0 \in Pool /\ QueryConnection \in Pool /\ 0 # QueryConnection
  /\ \A k \in Pool : k \in Nat /\ k <= ConnectionCount
  /\ \A k \in Pool \ {QueryConnection} :
       k + 1 \in Pool /\ k + 1 # 0 /\ k + 1 \in 0 .. (ConnectionCount + 1)
  /\ ConnectionCount + 1 \in 0 .. (ConnectionCount + 1)
  /\ 1 \in Pool /\ 1 \in 0 .. (ConnectionCount + 1)
BY StoreAssumption DEF Pool, Writers, QueryConnection

(* What a call may answer to its arguments.                                *)
LEMMA RejectionCode ==
  ASSUME NEW asked
  PROVE  Rejection(asked) \in Codes \ {"Missing", "Unavailable"}
BY DEF Rejection, Codes

(* The two ways in which a call goes on, and the way in which it ends,     *)
(* keep its variables well typed.                                          *)
CallTypes ==
  /\ pc \in [Callers -> Places]
  /\ request \in [Callers -> Requests \cup {NoRequest}]
  /\ passes \in [Callers -> {1, 2}]
  /\ next \in [Callers -> 0 .. (ConnectionCount + 1)]
  /\ code \in [Callers -> Codes]

LEMMA GotoTypes ==
  ASSUME CallTypes, NEW c \in Callers, NEW place \in Places, Goto(c, place)
  PROVE  CallTypes'
BY DEF CallTypes, Goto

LEMMA AdvanceTypes ==
  ASSUME CallTypes, NEW c \in Callers, NEW place \in Places,
         NEW k \in 0 .. (ConnectionCount + 1), Advance(c, place, k)
  PROVE  CallTypes'
BY DEF CallTypes, Advance

LEMMA ReturnTypes ==
  ASSUME CallTypes, NEW c \in Callers, NEW answer \in Codes, NEW points,
         Return(c, answer, points)
  PROVE  CallTypes'
BY DEF CallTypes, Return, Places

LEMMA ReadyTypes ==
  ASSUME CallTypes, NEW c \in Callers, Ready(c)
  PROVE  CallTypes'
BY DEF CallTypes, Ready, Goto, Places

(* The answer to a read, or the start of its second projection.            *)
LEMMA GenericTypes ==
  ASSUME CallTypes, NEW c \in Callers, NEW fetch, Generic(c, fetch)
  PROVE  CallTypes'
BY ReturnTypes DEF Generic, ReturnPoints, Fail, Codes

LEMMA QueryFailsTypes ==
  ASSUME CallTypes, NEW c \in Callers, QueryFails(c)
  PROVE  CallTypes'
BY ReturnTypes DEF QueryFails, Fail, Codes

(* The mutexes have an owner or none.                                      *)
LockTypes ==
  /\ connection \in [Pool -> Callers \cup {NoCaller}]
  /\ schema \in Callers \cup {NoCaller}
  /\ open \subseteq Pool

TaosType(store) ==
  /\ store = [database |-> store.database, stables |-> store.stables,
              tables |-> store.tables, rows |-> store.rows]
  /\ store.database \in BOOLEAN

(* The three parts of TypeOK.                                              *)
LEMMA TypeParts == TypeOK <=> TaosType(taos) /\ LockTypes /\ CallTypes
BY DEF TypeOK, TaosType, LockTypes, CallTypes

(* No step leaves the types.                                               *)
LEMMA TypeStep ==
  ASSUME TypeOK, Numbered, [Next]_vars
  PROVE  TypeOK'
<1>0. TaosType(taos) /\ LockTypes /\ CallTypes
  BY TypeParts
<1> SUFFICES TaosType(taos') /\ LockTypes' /\ CallTypes'
  BY DEF TypeOK, TaosType, LockTypes, CallTypes
<1>1. ASSUME NEW c \in Callers, Begin(c)
      PROVE  TaosType(taos') /\ LockTypes' /\ CallTypes'
  <2>1. TaosType(taos') /\ LockTypes'
    BY <1>0, <1>1 DEF Begin, TaosType, LockTypes
  <2>2. CallTypes'
    BY <1>0, <1>1, RejectionCode DEF Begin, CallTypes, Places
  <2> QED BY <2>1, <2>2
<1>2. ASSUME NEW c \in Callers, EnsureDatabase(c)
      PROVE  TaosType(taos') /\ LockTypes' /\ CallTypes'
  <2>1. TaosType(taos')
    BY <1>0, <1>2 DEF EnsureDatabase, Store, TaosType
  <2>2. LockTypes'
    BY <1>0, <1>2, PoolNumbers DEF EnsureDatabase, LockTypes, Hold
  <2>3. CallTypes'
    BY <1>0, <1>2, ReturnTypes, AdvanceTypes, PoolNumbers
       DEF EnsureDatabase, Fail, Codes, Places
  <2> QED BY <2>1, <2>2, <2>3
<1>3. ASSUME NEW c \in Callers, SelectDatabase(c)
      PROVE  TaosType(taos') /\ LockTypes' /\ CallTypes'
  <2>1. TaosType(taos')
    BY <1>0, <1>3 DEF SelectDatabase
  <2>2. LockTypes'
    BY <1>0, <1>3, PoolNumbers
       DEF SelectDatabase, NextConnection, LockTypes, Release
  <2>3. CallTypes'
    <3>1. next[c] \in 0 .. (ConnectionCount + 1)
      BY <1>0 DEF CallTypes
    <3>2. next[c] # QueryConnection /\ next[c] \in Pool
            => next[c] + 1 \in 0 .. (ConnectionCount + 1)
      BY PoolNumbers
    <3>3. CASE NextConnection(c) /\ next[c] \in Pool
      BY <1>0, <3>1, <3>2, <3>3, GotoTypes, AdvanceTypes
         DEF NextConnection, Places
    <3>4. CASE Fail(c, "Refused") \/ Fail(c, "Unavailable")
      BY <1>0, <3>4, ReturnTypes DEF Fail, Codes
    <3>5. open \subseteq Pool
      BY <1>0 DEF LockTypes
    <3> QED BY <1>3, <3>3, <3>4, <3>5, PoolNumbers DEF SelectDatabase
  <2> QED BY <2>1, <2>2, <2>3
<1>4. ASSUME NEW c \in Callers, LookUpProject(c)
      PROVE  TaosType(taos') /\ LockTypes' /\ CallTypes'
  BY <1>0, <1>4, ReadyTypes, GotoTypes DEF LookUpProject, LockTypes, Places
<1>5. ASSUME NEW c \in Callers, CreateStable(c)
      PROVE  TaosType(taos') /\ LockTypes' /\ CallTypes'
  <2>1. TaosType(taos')
    BY <1>0, <1>5 DEF CreateStable, Store, TaosType
  <2>2. LockTypes'
    BY <1>0, <1>5 DEF CreateStable, LockTypes
  <2>3. CallTypes'
    BY <1>0, <1>5, ReturnTypes, ReadyTypes DEF CreateStable, Fail, Codes
  <2> QED BY <2>1, <2>2, <2>3
<1>6. ASSUME NEW c \in Callers, Write(c)
      PROVE  TaosType(taos') /\ LockTypes' /\ CallTypes'
  <2>1. TaosType(taos')
    BY <1>0, <1>6, WrittenSchema DEF Write, Store, TaosType
  <2>2. LockTypes'
    BY <1>0, <1>6 DEF Write, LockTypes
  <2>3. CallTypes'
    BY <1>0, <1>6, ReturnTypes DEF Write, Fail, Verdict, Codes
  <2> QED BY <2>1, <2>2, <2>3
<1>7. ASSUME NEW c \in Callers, AnswerEmpty(c)
      PROVE  TaosType(taos') /\ LockTypes' /\ CallTypes'
  BY <1>0, <1>7, ReturnTypes DEF AnswerEmpty, Fail, LockTypes, Codes
<1>8. ASSUME NEW c \in Callers, Query(c)
      PROVE  TaosType(taos') /\ LockTypes' /\ CallTypes'
  <2>1. TaosType(taos') /\ LockTypes'
    BY <1>0, <1>8, PoolNumbers DEF Query, Typed, Hold, LockTypes
  <2>2. ASSUME NEW fetch, NEW kind, Typed(c, fetch, kind) PROVE CallTypes'
    <3>1. ASSUME NEW points, StartOver(c, points) PROVE CallTypes'
      BY <1>0, <3>1 DEF StartOver, CallTypes, Places
    <3> QED BY <1>0, <2>2, <3>1, ReturnTypes DEF Typed, ReturnPoints, Codes
  <2>3. CallTypes'
    BY <1>0, <1>8, <2>2, GenericTypes, QueryFailsTypes DEF Query
  <2> QED BY <2>1, <2>3
<1>9. ASSUME NEW c \in Callers, Retry(c)
      PROVE  TaosType(taos') /\ LockTypes' /\ CallTypes'
  <2>1. TaosType(taos') /\ LockTypes'
    BY <1>0, <1>9, PoolNumbers DEF Retry, Release, LockTypes
  <2>2. CallTypes'
    BY <1>0, <1>9, GenericTypes, QueryFailsTypes DEF Retry
  <2> QED BY <2>1, <2>2
<1>10. ASSUME NEW c \in Callers, QueryOverview(c)
       PROVE  TaosType(taos') /\ LockTypes' /\ CallTypes'
  <2>1. TaosType(taos') /\ LockTypes'
    BY <1>0, <1>10 DEF QueryOverview, LockTypes
  <2>2. CallTypes'
    BY <1>0, <1>10, ReturnTypes, QueryFailsTypes DEF QueryOverview, Codes
  <2> QED BY <2>1, <2>2
<1>11. ASSUME NEW c \in Callers, CloseConnection(c)
       PROVE  TaosType(taos') /\ LockTypes' /\ CallTypes'
  <2>1. next[c] \in Pool
    BY <1>11 DEF Numbered, CloseConnection
  <2>2. next[c] + 1 \in 0 .. (ConnectionCount + 1)
    BY <2>1, PoolNumbers
  <2>3. TaosType(taos') /\ LockTypes'
    BY <1>0, <1>11 DEF CloseConnection, LockTypes
  <2>4. CallTypes'
    BY <1>0, <1>11, <2>2, AdvanceTypes DEF CloseConnection, Places
  <2> QED BY <2>3, <2>4
<1>12. ASSUME NEW c \in Callers, DropDatabase(c)
       PROVE  TaosType(taos') /\ LockTypes' /\ CallTypes'
  <2>1. TaosType(EmptyStore)
    BY DEF EmptyStore, TaosType
  <2>2. TaosType(taos')
    BY <1>0, <1>12, <2>1 DEF DropDatabase, Store
  <2>3. LockTypes'
    BY <1>0, <1>12 DEF DropDatabase, LockTypes
  <2>4. CallTypes'
    BY <1>0, <1>12, ReturnTypes, GotoTypes DEF DropDatabase, Fail, Codes, Places
  <2> QED BY <2>2, <2>3, <2>4
<1>13. ASSUME NEW c \in Callers, ClearCache(c)
       PROVE  TaosType(taos') /\ LockTypes' /\ CallTypes'
  BY <1>0, <1>13, ReturnTypes DEF ClearCache, LockTypes, Codes
<1>14. CASE UNCHANGED vars
  BY <1>0, <1>14 DEF vars, callVars, TaosType, LockTypes, CallTypes
<1> QED
  BY <1>1, <1>2, <1>3, <1>4, <1>5, <1>6, <1>7, <1>8, <1>9, <1>10, <1>11,
     <1>12, <1>13, <1>14 DEF Next, Step, Quiet

LEMMA TypeInit == Init => TypeOK /\ Numbered
BY StoreAssumption, PoolNumbers
   DEF Init, TypeOK, Numbered, EmptyStore, At, Places, Codes

(* The calls that are at no lock a step could touch next.                  *)
LEMMA NumberedStep ==
  ASSUME TypeOK, Numbered, [Next]_vars
  PROVE  Numbered'
<1>0. TypeOK /\ (\A c \in Callers : next[c] \in 0 .. (ConnectionCount + 1))
  BY DEF TypeOK
<1>1. ASSUME NEW c \in Callers, Begin(c) PROVE Numbered'
  BY <1>0, <1>1, PoolNumbers DEF Begin, Numbered, At, TypeOK
<1>2. ASSUME NEW c \in Callers, NEW answer, NEW points, Return(c, answer, points)
      PROVE  Numbered'
  BY <1>2 DEF Return, Numbered, At, TypeOK
<1>3. ASSUME NEW c \in Callers, NEW place \in Places, Goto(c, place),
             place \notin {"idle", "selecting", "closing"}
      PROVE  Numbered'
  BY <1>3 DEF Goto, Numbered, At, TypeOK
<1>4. ASSUME NEW c \in Callers, Ready(c) PROVE Numbered'
  BY <1>3, <1>4 DEF Ready, Places, Numbered, At, TypeOK
<1>5. ASSUME NEW c \in Callers, NEW place \in Places, NEW k \in Pool,
             Advance(c, place, k), place # "idle", place = "selecting" => k # 0
      PROVE  Numbered'
  BY <1>5 DEF Advance, Numbered, At, TypeOK
<1>6. ASSUME NEW c \in Callers, EnsureDatabase(c) PROVE Numbered'
  BY <1>2, <1>5, <1>6, PoolNumbers DEF EnsureDatabase, Fail, Places
<1>7. ASSUME NEW c \in Callers, SelectDatabase(c) PROVE Numbered'
  <2>1. next[c] \in Pool
    BY <1>7 DEF SelectDatabase, Numbered
  <2>2. ASSUME NextConnection(c) PROVE Numbered'
    BY <1>3, <1>5, <2>1, <2>2, PoolNumbers DEF NextConnection, Places
  <2> QED BY <1>2, <1>7, <2>2 DEF SelectDatabase, Fail
<1>8. ASSUME NEW c \in Callers, LookUpProject(c) PROVE Numbered'
  BY <1>3, <1>4, <1>8 DEF LookUpProject, Places
<1>9. ASSUME NEW c \in Callers, CreateStable(c) PROVE Numbered'
  BY <1>2, <1>4, <1>9 DEF CreateStable, Fail
<1>10. ASSUME NEW c \in Callers, Write(c) PROVE Numbered'
  BY <1>2, <1>10 DEF Write, Fail
<1>11. ASSUME NEW c \in Callers, NEW fetch, Generic(c, fetch) PROVE Numbered'
  BY <1>2, <1>11 DEF Generic, ReturnPoints, Fail
<1>12. ASSUME NEW c \in Callers, QueryFails(c) PROVE Numbered'
  BY <1>2, <1>12 DEF QueryFails, Fail
<1>13. ASSUME NEW c \in Callers, NEW fetch, NEW kind, Typed(c, fetch, kind)
       PROVE  Numbered'
  <2>1. ASSUME NEW points, StartOver(c, points) PROVE Numbered'
    BY <2>1 DEF StartOver, Numbered, At, TypeOK
  <2> QED BY <1>2, <1>13, <2>1 DEF Typed, ReturnPoints
<1>14. ASSUME NEW c \in Callers, Query(c) PROVE Numbered'
  BY <1>11, <1>12, <1>13, <1>14 DEF Query
<1>15. ASSUME NEW c \in Callers, Retry(c) PROVE Numbered'
  BY <1>11, <1>12, <1>15 DEF Retry
<1>16. ASSUME NEW c \in Callers, AnswerEmpty(c) \/ QueryOverview(c)
       PROVE  Numbered'
  BY <1>2, <1>12, <1>16 DEF AnswerEmpty, QueryOverview, Fail
<1>17. ASSUME NEW c \in Callers, CloseConnection(c) PROVE Numbered'
  <2>1. next[c] \in Pool
    BY <1>17 DEF Numbered, CloseConnection
  <2>2. CASE next[c] = QueryConnection
    BY <1>17, <2>2 DEF CloseConnection, Advance, Numbered, At, TypeOK
  <2>3. CASE next[c] # QueryConnection
    <3>1. next[c] + 1 \in Pool
      BY <2>1, <2>3, PoolNumbers
    <3> QED BY <1>5, <1>17, <2>3, <3>1 DEF CloseConnection, Places
  <2> QED BY <2>2, <2>3
<1>18. ASSUME NEW c \in Callers, DropDatabase(c) \/ ClearCache(c)
       PROVE  Numbered'
  BY <1>2, <1>3, <1>18 DEF DropDatabase, ClearCache, Fail, Places
<1>19. CASE UNCHANGED vars
  BY <1>19 DEF vars, callVars, Numbered, At
<1> QED
  BY <1>1, <1>6, <1>7, <1>8, <1>9, <1>10, <1>14, <1>15, <1>16, <1>17,
     <1>18, <1>19 DEF Next, Step, Quiet

(* The store is well typed, and a call locks connections of the pool.      *)
THEOREM StoreTypeCorrect == Spec => []TypeOK
<1>1. TypeOK /\ Numbered /\ [Next]_vars => (TypeOK /\ Numbered)'
  BY TypeStep, NumberedStep
<1> QED BY <1>1, TypeInit, PTL DEF Spec
-----------------------------------------------------------------------------
(***************************************************************************)
(* The locks.                                                              *)
(***************************************************************************)
(* Where a call holds no mutex between two steps.                          *)
Resting == Places \ {"selecting", "retrying", "creating"}

Moves(c) == \E place \in Resting : pc' = [pc EXCEPT ![c] = place]

LEMMA ReturnMoves ==
  ASSUME NEW c, NEW answer, NEW points, Return(c, answer, points)
  PROVE  Moves(c)
BY DEF Return, Moves, Resting, Places

LEMMA ReadyMoves ==
  ASSUME NEW c, Ready(c)
  PROVE  Moves(c)
BY DEF Ready, Goto, Moves, Resting, Places

LEMMA GenericMoves ==
  ASSUME NEW c, NEW fetch, Generic(c, fetch)
  PROVE  Moves(c)
BY ReturnMoves DEF Generic, ReturnPoints, Fail

LEMMA QueryFailsMoves ==
  ASSUME NEW c, QueryFails(c)
  PROVE  Moves(c)
BY ReturnMoves DEF QueryFails, Fail

(* A step between two such places that leaves the mutexes alone.           *)
LEMMA RestingStep ==
  ASSUME TypeOK, LocksHeld, NEW c \in Callers, pc[c] \in Resting, Moves(c),
         UNCHANGED <<connection, schema>>
  PROVE  LocksHeld'
BY DEF TypeOK, LocksHeld, At, FreeConnection, Moves, Resting

LEMMA LocksInit == Init => LocksHeld
BY StoreAssumption, PoolNumbers DEF Init, LocksHeld, At, FreeConnection

LEMMA LocksStep ==
  ASSUME TypeOK, LocksHeld, [Next]_vars
  PROVE  LocksHeld'
<1>0. NoCaller \notin Callers
  BY StoreAssumption
<1>1. ASSUME NEW c \in Callers, Begin(c) PROVE LocksHeld'
  <2>1. pc[c] \in Resting /\ Moves(c)
    BY <1>1 DEF Begin, At, Moves, Resting, Places
  <2> QED BY <1>1, <2>1, RestingStep DEF Begin
<1>2. ASSUME NEW c \in Callers, EnsureDatabase(c) PROVE LocksHeld'
  <2>1. pc[c] = "ensuring" /\ pc[c] \in Resting /\ schema' = schema
    BY <1>2 DEF EnsureDatabase, At, Resting, Places
  <2>2. CASE Moves(c) /\ UNCHANGED connection
    BY <2>1, <2>2, RestingStep
  <2>3. CASE Advance(c, "selecting", 1) /\ Hold(c, 0)
    BY <1>0, <1>2, <2>1, <2>3, PoolNumbers
       DEF EnsureDatabase, Advance, Hold, LocksHeld, FreeConnection, At, TypeOK
  <2> QED BY <1>2, <2>2, <2>3, ReturnMoves DEF EnsureDatabase, Fail
<1>3. ASSUME NEW c \in Callers, SelectDatabase(c) PROVE LocksHeld'
  <2>1. pc[c] = "selecting" /\ schema' = schema
    BY <1>3 DEF SelectDatabase, At
  <2>2. CASE Moves(c) /\ Release(0)
    BY <1>0, <2>1, <2>2, PoolNumbers
       DEF Moves, Resting, Release, LocksHeld, FreeConnection, At, TypeOK
  <2>3. CASE Advance(c, "selecting", next[c] + 1) /\ UNCHANGED connection
    BY <2>1, <2>3 DEF Advance, LocksHeld, FreeConnection, At, TypeOK
  <2>4. NextConnection(c) => \/ Moves(c) /\ Release(0)
                             \/ Advance(c, "selecting", next[c] + 1)
                                  /\ UNCHANGED connection
    BY DEF NextConnection, Goto, Moves, Resting, Places
  <2> QED BY <1>3, <2>2, <2>3, <2>4, ReturnMoves DEF SelectDatabase, Fail
<1>4. ASSUME NEW c \in Callers, LookUpProject(c) PROVE LocksHeld'
  <2>1. pc[c] = "caching" /\ pc[c] \in Resting /\ connection' = connection
    BY <1>4 DEF LookUpProject, At, Resting, Places
  <2>2. CASE Ready(c) /\ UNCHANGED schema
    BY <2>1, <2>2, ReadyMoves, RestingStep
  <2>3. CASE Goto(c, "creating") /\ schema' = c
    BY <1>0, <1>4, <2>1, <2>3
       DEF LookUpProject, Goto, LocksHeld, FreeConnection, At, TypeOK
  <2> QED BY <1>4, <2>2, <2>3 DEF LookUpProject
<1>5. ASSUME NEW c \in Callers, CreateStable(c) PROVE LocksHeld'
  <2>1. pc[c] = "creating" /\ schema' = NoCaller /\ connection' = connection
    BY <1>5 DEF CreateStable, At
  <2>2. Moves(c)
    BY <1>5, ReturnMoves, ReadyMoves DEF CreateStable, Fail
  <2> QED BY <1>0, <2>1, <2>2
          DEF Moves, Resting, LocksHeld, FreeConnection, At, TypeOK
<1>6. ASSUME NEW c \in Callers,
             Write(c) \/ AnswerEmpty(c) \/ QueryOverview(c)
               \/ DropDatabase(c) \/ ClearCache(c)
      PROVE  LocksHeld'
  <2>1. pc[c] \in Resting /\ UNCHANGED <<connection, schema>>
    BY <1>6 DEF Write, AnswerEmpty, QueryOverview, DropDatabase, ClearCache,
                At, Resting, Places
  <2>2. Moves(c)
    <3>1. Goto(c, "clearing") => Moves(c)
      BY DEF Goto, Moves, Resting, Places
    <3> QED BY <1>6, <3>1, ReturnMoves, QueryFailsMoves
            DEF Write, AnswerEmpty, QueryOverview, DropDatabase, ClearCache, Fail
  <2> QED BY <2>1, <2>2, RestingStep
<1>7. ASSUME NEW c \in Callers, Query(c) PROVE LocksHeld'
  <2>1. pc[c] = "working" /\ pc[c] \in Resting /\ schema' = schema
    BY <1>7 DEF Query, At, Resting, Places
  <2>2. CASE Moves(c) /\ UNCHANGED connection
    BY <2>1, <2>2, RestingStep
  <2>3. ASSUME NEW points, StartOver(c, points), Hold(c, QueryConnection)
        PROVE  LocksHeld'
    BY <1>0, <1>7, <2>1, <2>3, PoolNumbers
       DEF Query, StartOver, Hold, LocksHeld, FreeConnection, At, TypeOK
  <2>4. ASSUME NEW fetch, NEW kind, Typed(c, fetch, kind) PROVE LocksHeld'
    BY <2>2, <2>3, <2>4, ReturnMoves DEF Typed, ReturnPoints
  <2> QED BY <1>7, <2>2, <2>4, GenericMoves, QueryFailsMoves DEF Query
<1>8. ASSUME NEW c \in Callers, Retry(c) PROVE LocksHeld'
  <2>1. pc[c] = "retrying" /\ schema' = schema /\ Release(QueryConnection)
    BY <1>8 DEF Retry, At
  <2>2. Moves(c)
    BY <1>8, GenericMoves, QueryFailsMoves DEF Retry
  <2> QED BY <1>0, <2>1, <2>2, PoolNumbers
          DEF Moves, Resting, Release, LocksHeld, FreeConnection, At, TypeOK
<1>9. ASSUME NEW c \in Callers, CloseConnection(c) PROVE LocksHeld'
  <2>1. pc[c] \in Resting /\ UNCHANGED <<connection, schema>> /\ Moves(c)
    BY <1>9 DEF CloseConnection, Advance, At, Moves, Resting, Places
  <2> QED BY <2>1, RestingStep
<1>10. CASE UNCHANGED vars
  BY <1>10 DEF vars, callVars, LocksHeld, FreeConnection, At
<1> QED
  BY <1>1, <1>2, <1>3, <1>4, <1>5, <1>6, <1>7, <1>8, <1>9, <1>10
     DEF Next, Step, Quiet

(* The chain of waiting calls ends: a call that creates a super table      *)
(* waits for one that selects databases, that one for one that repeats its *)
(* query, and the last waits for nobody.                                   *)
LEMMA LocksProceed ==
  ASSUME TypeOK, Numbered, LocksHeld
  PROVE  NoDeadlock
<1> SUFFICES ASSUME NEW c \in Callers, ~At(c, "idle"), ~Ended(c)
             PROVE  \E d \in Callers : MayProceed(d)
  BY DEF NoDeadlock
<1>1. CASE ~FreeConnection(QueryConnection)
  <2>1. PICK d \in Callers : connection[QueryConnection] = d
    BY <1>1, PoolNumbers DEF TypeOK, FreeConnection
  <2>2. pc[d] = "retrying"
    BY <2>1 DEF LocksHeld, At
  <2>3. MayProceed(d)
    BY <2>2 DEF MayProceed, At, Ended
  <2> QED BY <2>3
<1>2. CASE FreeConnection(QueryConnection) /\ ~FreeConnection(0)
  <2>1. PICK d \in Callers : connection[0] = d
    BY <1>2, PoolNumbers DEF TypeOK, FreeConnection
  <2>2. pc[d] = "selecting"
    BY <2>1 DEF LocksHeld, At
  <2>3. FreeConnection(next[d])
    BY <1>2, <2>2 DEF Numbered, LocksHeld, At
  <2>4. MayProceed(d)
    BY <2>2, <2>3 DEF MayProceed, At
  <2> QED BY <2>4
<1>3. CASE FreeConnection(0) /\ schema # NoCaller
  <2>1. schema \in Callers /\ pc[schema] = "creating"
    BY <1>3 DEF TypeOK, LocksHeld, At
  <2>2. MayProceed(schema)
    BY <1>3, <2>1 DEF MayProceed, At
  <2> QED BY <2>1, <2>2
<1>4. CASE FreeConnection(0) /\ FreeConnection(QueryConnection) /\ schema = NoCaller
  <2>1. \A k \in Pool : FreeConnection(k)
    BY <1>4 DEF LocksHeld
  <2>2. At(c, "selecting") \/ At(c, "closing") => FreeConnection(next[c])
    BY <2>1 DEF Numbered
  <2>3. ConnectionOf(c) \in Writers => FreeConnection(ConnectionOf(c))
    BY <2>1 DEF Pool
  <2>4. MayProceed(c)
    BY <1>4, <2>2, <2>3 DEF MayProceed, At, Ended
  <2> QED BY <2>4
<1> QED BY <1>1, <1>2, <1>3, <1>4

(* A failed or refused call leaves no mutex behind.                        *)
THEOREM StoreLocksHeld == Spec => []LocksHeld
<1>1. TypeOK /\ Numbered /\ LocksHeld /\ [Next]_vars
        => (TypeOK /\ Numbered /\ LocksHeld)'
  BY TypeStep, NumberedStep, LocksStep
<1> QED BY <1>1, TypeInit, LocksInit, PTL DEF Spec

(* The calls of the store never wait for each other in a circle.           *)
THEOREM StoreNoDeadlock == Spec => []NoDeadlock
<1>1. TypeOK /\ Numbered /\ LocksHeld /\ [Next]_vars
        => (TypeOK /\ Numbered /\ LocksHeld)'
  BY TypeStep, NumberedStep, LocksStep
<1>2. TypeOK /\ Numbered /\ LocksHeld => NoDeadlock
  BY LocksProceed
<1> QED BY <1>1, <1>2, TypeInit, LocksInit, PTL DEF Spec
-----------------------------------------------------------------------------
(***************************************************************************)
(* The schema.                                                             *)
(***************************************************************************)
(* What a step shows of the schema: connections are closed and not opened  *)
(* again; as long as one is open, databases and super tables stay.         *)
Grows ==
  /\ open' \subseteq open
  /\ open # {} => /\ taos.stables \subseteq taos'.stables
                  /\ taos.database => taos'.database
  /\ cache' \subseteq cache \/ (open # {} => cache' \subseteq taos'.stables)

(* What the step of a call shows of the call: the project stays, and where *)
(* it goes on has been prepared.                                           *)
Prepared(c) ==
  /\ \A d \in Callers \ {c} :
       /\ pc'[d] = pc[d] /\ request'[d] = request[d]
       /\ next'[d] = next[d] /\ code'[d] = code[d]
  /\ pc'[c] \in {"selecting", "caching", "creating"} /\ open' # {}
       => taos'.database
  /\ pc'[c] \in {"working", "retrying"} /\ open' # {}
       => request'[c].project \in taos'.stables
  /\ pc'[c] = "closing" => \A k \in open' : next'[c] <= k
  /\ pc'[c] = "dropping" => open' = {}
  /\ code'[c] # "Missing"
  /\ code'[c] = "Unavailable" => open' # Pool

LEMMA PreparedStep ==
  ASSUME TypeOK, SchemaInv, NEW c \in Callers, Grows, Prepared(c)
  PROVE  SchemaInv'
<1>1. CacheTrue'
  BY DEF SchemaInv, CacheTrue, Grows
<1>2. BehindDatabase'
  BY DEF SchemaInv, BehindDatabase, Grows, Prepared
<1>3. BehindStable'
  BY DEF SchemaInv, BehindStable, Grows, Prepared, Project
<1>4. Closed'
  BY DEF SchemaInv, Closed, Grows, Prepared, At
<1>5. SchemaFirst'
  BY DEF SchemaInv, SchemaFirst, Grows, Prepared, TypeOK
<1> QED BY <1>1, <1>2, <1>3, <1>4, <1>5 DEF SchemaInv

(* A call that ends, and one that has its super table.                     *)
LEMMA ReturnPrepared ==
  ASSUME TypeOK, SchemaInv, NEW c \in Callers, NEW answer, NEW points,
         Return(c, answer, points), answer # "Missing",
         answer = "Unavailable" => open' # Pool
  PROVE  Prepared(c)
BY DEF Return, Prepared, TypeOK

LEMMA ReadyPrepared ==
  ASSUME TypeOK, SchemaInv, NEW c \in Callers, Ready(c), open' = open,
         open # {} => Project(c) \in taos'.stables
  PROVE  Prepared(c)
BY DEF Ready, Goto, Prepared, Project, TypeOK, SchemaInv, SchemaFirst

LEMMA GenericPrepared ==
  ASSUME TypeOK, SchemaInv, NEW c \in Callers, NEW fetch, Generic(c, fetch)
  PROVE  Prepared(c)
BY ReturnPrepared DEF Generic, ReturnPoints, Fail

LEMMA QueryFailsPrepared ==
  ASSUME TypeOK, SchemaInv, NEW c \in Callers, QueryFails(c), open' = open,
         pc[c] \in {"working", "retrying"}
  PROVE  Prepared(c)
<1>1. QueryConnection \in open => Project(c) \in taos.stables
  BY DEF SchemaInv, BehindStable
<1> QED BY <1>1, ReturnPrepared, PoolNumbers DEF QueryFails, Fail

LEMMA SchemaInit == Init => SchemaInv
BY DEF Init, SchemaInv, CacheTrue, BehindDatabase, BehindStable, Closed,
       SchemaFirst, At

LEMMA SchemaStep ==
  ASSUME TypeOK, Numbered, SchemaInv, [Next]_vars
  PROVE  SchemaInv'
<1>0. /\ TypeOK /\ SchemaInv /\ CacheTrue /\ SchemaFirst
      /\ open \subseteq Pool
  BY DEF SchemaInv, TypeOK
<1>1. ASSUME UNCHANGED <<taos, open, cache>> PROVE Grows
  BY <1>1 DEF Grows
<1>2. ASSUME NEW c \in Callers, Begin(c) PROVE SchemaInv'
  <2>1. Prepared(c)
    <3>1. \A k \in open : 0 <= k
      BY <1>0, PoolNumbers
    <3>2. pc'[c] = "closing" => next'[c] = 0
      BY <1>2 DEF Begin, Numbered
    <3> QED BY <1>2, <3>1, <3>2, RejectionCode DEF Begin, Prepared, TypeOK, Codes
  <2> QED BY <1>1, <1>2, <2>1, PreparedStep DEF Begin
<1>3. ASSUME NEW c \in Callers, EnsureDatabase(c) PROVE SchemaInv'
  <2>1. Grows
    BY <1>0, <1>3 DEF EnsureDatabase, Store, Grows, TypeOK
  <2>2. ASSUME Advance(c, "selecting", 1) /\ Store([taos EXCEPT !.database = TRUE])
        PROVE  Prepared(c)
    BY <1>0, <1>3, <2>2 DEF Advance, Store, Prepared, TypeOK, SchemaFirst,
                            EnsureDatabase
  <2>3. ASSUME Fail(c, "Refused") \/ (Fail(c, "Unavailable") /\ 0 \notin open)
        PROVE  Prepared(c)
    BY <1>3, <2>3, ReturnPrepared, PoolNumbers DEF Fail, EnsureDatabase
  <2>4. Prepared(c)
    BY <1>3, <2>2, <2>3 DEF EnsureDatabase
  <2> QED BY <2>1, <2>4, PreparedStep
<1>4. ASSUME NEW c \in Callers, SelectDatabase(c) PROVE SchemaInv'
  <2>1. open # {} => taos.database
    BY <1>4 DEF SelectDatabase, SchemaInv, BehindDatabase, At
  <2>2. ASSUME NextConnection(c) PROVE Prepared(c)
    BY <1>0, <1>4, <2>1, <2>2
       DEF SelectDatabase, NextConnection, Goto, Advance, Prepared, TypeOK,
           SchemaFirst
  <2>3. ASSUME Fail(c, "Refused") \/ (Fail(c, "Unavailable") /\ next[c] \notin open)
        PROVE  Prepared(c)
    BY <1>4, <2>3, ReturnPrepared DEF Fail, SelectDatabase, Numbered
  <2>4. Prepared(c)
    BY <1>4, <2>2, <2>3 DEF SelectDatabase
  <2> QED BY <1>1, <1>4, <2>4, PreparedStep DEF SelectDatabase
<1>5. ASSUME NEW c \in Callers, LookUpProject(c) PROVE SchemaInv'
  <2>1. ASSUME Project(c) \in cache /\ Ready(c) PROVE Prepared(c)
    BY <1>0, <1>5, <2>1, ReadyPrepared DEF LookUpProject, CacheTrue
  <2>2. ASSUME Goto(c, "creating") PROVE Prepared(c)
    BY <1>0, <1>5, <2>2
       DEF LookUpProject, Goto, Prepared, TypeOK, SchemaInv, BehindDatabase,
           SchemaFirst, At
  <2>3. Prepared(c)
    BY <1>5, <2>1, <2>2 DEF LookUpProject
  <2> QED BY <1>1, <1>5, <2>3, PreparedStep DEF LookUpProject
<1>6. ASSUME NEW c \in Callers, CreateStable(c) PROVE SchemaInv'
  <2>1. open # {} => taos.database
    BY <1>6 DEF CreateStable, SchemaInv, BehindDatabase, At
  <2>2. CASE UNCHANGED <<taos, cache>> /\ (Fail(c, "Refused")
               \/ (Fail(c, "Unavailable") /\ 0 \notin open))
    <3>1. Prepared(c)
      BY <1>6, <2>2, ReturnPrepared, PoolNumbers DEF Fail, CreateStable
    <3> QED BY <1>1, <1>6, <2>2, <3>1, PreparedStep DEF CreateStable
  <2>3. CASE /\ Store([taos EXCEPT !.stables = @ \cup {Project(c)}])
             /\ cache' = cache \cup {Project(c)}
             /\ Ready(c)
    <3>1. taos'.stables = taos.stables \cup {Project(c)}
            /\ taos'.database = taos.database
      BY <2>3 DEF Store, TypeOK
    <3>2. Grows
      BY <1>0, <1>6, <2>3, <3>1 DEF Grows, CreateStable, CacheTrue
    <3>3. Prepared(c)
      BY <1>6, <2>3, <3>1, ReadyPrepared DEF CreateStable
    <3> QED BY <3>2, <3>3, PreparedStep
  <2> QED BY <1>6, <2>1, <2>2, <2>3 DEF CreateStable
<1>7. ASSUME NEW c \in Callers, Write(c) PROVE SchemaInv'
  <2>1. ConnectionOf(c) \in open => Project(c) \in taos.stables
    BY <1>7 DEF Write, SchemaInv, BehindStable, At
  <2>2. Grows
    <3>1. open' = open /\ cache' = cache
      BY <1>7 DEF Write
    <3>2. CASE taos' = taos
      BY <3>1, <3>2 DEF Grows
    <3>3. ASSUME NEW points, taos' = Written(taos, Project(c), points, c)
          PROVE  Grows
      <4>1. /\ taos'.stables = taos.stables
            /\ taos'.database = taos.database
        BY <3>3 DEF Written
      <4> QED BY <3>1, <4>1 DEF Grows
    <3> QED BY <1>7, <3>2, <3>3 DEF Write, Store
  <2>3. Prepared(c)
    <3>1. ASSUME NEW affected, NEW expected
          PROVE  Verdict(affected, expected) \notin {"Missing", "Unavailable"}
      BY DEF Verdict
    <3> QED BY <1>7, <2>1, <3>1, ReturnPrepared DEF Write, Fail, Pool
  <2> QED BY <2>2, <2>3, PreparedStep
<1>8. ASSUME NEW c \in Callers, Query(c) PROVE SchemaInv'
  <2>0. pc[c] = "working" /\ open' = open /\ taos' = taos
    BY <1>8 DEF Query, At
  <2>1. ASSUME NEW points, StartOver(c, points) PROVE Prepared(c)
    BY <1>0, <2>0, <2>1 DEF StartOver, Prepared, TypeOK, SchemaInv, BehindStable,
                            SchemaFirst, Project
  <2>2. ASSUME NEW fetch, NEW kind, Typed(c, fetch, kind) PROVE Prepared(c)
    BY <2>1, <2>2, ReturnPrepared DEF Typed, ReturnPoints
  <2>3. Prepared(c)
    BY <1>8, <2>0, <2>2, GenericPrepared, QueryFailsPrepared DEF Query
  <2> QED BY <1>1, <1>8, <2>3, PreparedStep DEF Query
<1>9. ASSUME NEW c \in Callers, Retry(c) PROVE SchemaInv'
  <2>1. Prepared(c)
    BY <1>9, GenericPrepared, QueryFailsPrepared DEF Retry, At
  <2> QED BY <1>1, <1>9, <2>1, PreparedStep DEF Retry
<1>10. ASSUME NEW c \in Callers, AnswerEmpty(c) \/ QueryOverview(c)
       PROVE  SchemaInv'
  <2>1. Prepared(c)
    BY <1>10, ReturnPrepared, QueryFailsPrepared
       DEF AnswerEmpty, QueryOverview, Fail, At
  <2> QED BY <1>1, <1>10, <2>1, PreparedStep DEF AnswerEmpty, QueryOverview
<1>11. ASSUME NEW c \in Callers, CloseConnection(c) PROVE SchemaInv'
  <2>1. Grows
    BY <1>11 DEF CloseConnection, Grows
  <2>2. \A k \in open' : next[c] + 1 <= k
    <3>1. next[c] \in Nat
      BY <1>11, PoolNumbers DEF CloseConnection, Numbered
    <3>2. \A k \in open' : k \in Nat /\ next[c] <= k /\ next[c] # k
      BY <1>0, <1>11, PoolNumbers DEF CloseConnection, SchemaInv, Closed
    <3> QED BY <3>1, <3>2
  <2>3. next[c] = QueryConnection => open' = {}
    BY <1>0, <1>11, <2>2, PoolNumbers DEF CloseConnection
  <2>4. Prepared(c)
    BY <1>0, <1>11, <2>2, <2>3
       DEF CloseConnection, Advance, Prepared, TypeOK, SchemaFirst
  <2> QED BY <2>1, <2>4, PreparedStep
<1>12. ASSUME NEW c \in Callers, DropDatabase(c) PROVE SchemaInv'
  <2>1. open = {} /\ open' = {} /\ cache' = cache
    BY <1>12 DEF DropDatabase, SchemaInv, Closed
  <2>2. Grows
    BY <2>1 DEF Grows
  <2>3. ASSUME Goto(c, "clearing") PROVE Prepared(c)
    BY <1>0, <2>1, <2>3 DEF Goto, Prepared, TypeOK, SchemaFirst
  <2>4. Prepared(c)
    BY <1>12, <2>3, ReturnPrepared DEF DropDatabase, Fail
  <2> QED BY <2>2, <2>4, PreparedStep
<1>13. ASSUME NEW c \in Callers, ClearCache(c) PROVE SchemaInv'
  <2>1. Grows /\ Prepared(c)
    BY <1>13, ReturnPrepared DEF ClearCache, Grows
  <2> QED BY <2>1, PreparedStep
<1>14. CASE UNCHANGED vars
  BY <1>0, <1>14
     DEF vars, callVars, SchemaInv, CacheTrue, BehindDatabase, BehindStable,
         Closed, SchemaFirst, At, Project
<1> QED
  BY <1>2, <1>3, <1>4, <1>5, <1>6, <1>7, <1>8, <1>9, <1>10, <1>11, <1>12,
     <1>13, <1>14 DEF Next, Step, Quiet

(* No call ever addresses a schema that is not there.                      *)
THEOREM StoreSchemaFirst == Spec => []SchemaFirst
<1>1. TypeOK /\ Numbered /\ SchemaInv /\ [Next]_vars
        => (TypeOK /\ Numbered /\ SchemaInv)'
  BY TypeStep, NumberedStep, SchemaStep
<1>2. SchemaInv => SchemaFirst
  BY DEF SchemaInv
<1> QED BY <1>1, <1>2, TypeInit, SchemaInit, PTL DEF Spec
-----------------------------------------------------------------------------
(***************************************************************************)
(* What has been acknowledged stays.  The table of a row names the super   *)
(* table and the sequence of its points; a row that a call has written is  *)
(* overwritten only by calls that have not ended, and the calls that ended *)
(* before it began are not among them.                                     *)
(***************************************************************************)
(* A table is named by its tags.                                           *)
TablesNamed ==
  \A t \in DOMAIN taos.tables :
    taos.tables[t].stable = t[1] /\ taos.tables[t].sequence = t[2]

(* The history is one: who ended before a call began has still ended, and  *)
(* no call is answered with Ok before it ends.                             *)
HistoryTrue ==
  /\ before \in [Callers -> SUBSET Callers]
  /\ \A c \in Callers :
       /\ \A d \in before[c] : pc[d] = "done"
       /\ code[c] = "Ok" => pc[c] = "done"

(* Nobody asks before it begins, only a drop closes connections and only a *)
(* read retries.                                                           *)
PlacesOfOps ==
  \A c \in Callers :
    /\ pc[c] = "idle" => Op(c) = "none"
    /\ pc[c] \in {"closing", "dropping", "clearing"} => Op(c) = "drop"
    /\ pc[c] = "retrying" => Op(c) = "read"

(* Each point of an acknowledged batch has its row, in a table of its own. *)
RowKept(c, p) ==
  /\ KeyOf(Project(c), p) \in DOMAIN taos.rows
  /\ TableOf(Project(c), p.sequence) \in DOMAIN taos.tables
  /\ taos.rows[KeyOf(Project(c), p)].by \notin before[c]

Acknowledged ==
  \A c \in Callers :
    Op(c) = "write" /\ code[c] = "Ok" /\ ~Dropping =>
      \A p \in ToSet(Points(c)) : RowKept(c, p)

RowsInv == TablesNamed /\ HistoryTrue /\ PlacesOfOps /\ Acknowledged

(* What writing some points does to tables and rows.                       *)
LEMMA WrittenTables ==
  ASSUME NEW store, NEW project, NEW points, NEW c,
         \A t \in DOMAIN store.tables :
           store.tables[t].stable = t[1] /\ store.tables[t].sequence = t[2]
  PROVE  LET new == Written(store, project, points, c).tables IN
         /\ DOMAIN store.tables \subseteq DOMAIN new
         /\ \A p \in points : TableOf(project, p.sequence) \in DOMAIN new
         /\ \A t \in DOMAIN new : new[t].stable = t[1] /\ new[t].sequence = t[2]
<1> DEFINE names == {TableOf(project, p.sequence) : p \in points}
           New(t) == CHOOSE p \in points : TableOf(project, p.sequence) = t
           tables == TablesWith(store, project, points)
<1>1. DOMAIN tables = DOMAIN store.tables \cup names
  BY DEF TablesWith
<1>2. ASSUME NEW t \in DOMAIN store.tables
      PROVE  tables[t] = store.tables[t]
  BY DEF TablesWith
<1>3. ASSUME NEW t \in names, t \notin DOMAIN store.tables
      PROVE  tables[t].stable = t[1] /\ tables[t].sequence = t[2]
  <2>1. New(t) \in points /\ TableOf(project, New(t).sequence) = t
    BY <1>3
  <2>2. tables[t] = [stable |-> project, sequence |-> New(t).sequence,
                     tag |-> New(t).kind]
    BY <1>3 DEF TablesWith
  <2>3. t = <<project, New(t).sequence>>
    BY <2>1 DEF TableOf
  <2> QED BY <2>2, <2>3
<1>4. \A p \in points : TableOf(project, p.sequence) \in names
  OBVIOUS
<1>5. Written(store, project, points, c).tables = tables
  BY DEF Written
<1> HIDE DEF names, New, tables
<1> QED BY <1>1, <1>2, <1>3, <1>4, <1>5

LEMMA WrittenRows ==
  ASSUME NEW store, NEW project, NEW points, NEW c
  PROVE  LET new == Written(store, project, points, c).rows IN
         /\ DOMAIN store.rows \subseteq DOMAIN new
         /\ \A p \in points : /\ KeyOf(project, p) \in DOMAIN new
                              /\ new[KeyOf(project, p)].by = c
         /\ \A k \in DOMAIN store.rows :
              new[k] = store.rows[k] \/ new[k].by = c
<1> DEFINE keys == {KeyOf(project, p) : p \in points}
           rows == RowsWith(store, project, points, c)
<1>1. DOMAIN rows = DOMAIN store.rows \cup keys
  BY DEF RowsWith
<1>2. \A k \in keys : rows[k].by = c
  BY DEF RowsWith
<1>3. \A k \in DOMAIN store.rows : k \notin keys => rows[k] = store.rows[k]
  BY DEF RowsWith
<1>4. \A p \in points : KeyOf(project, p) \in keys
  OBVIOUS
<1>5. Written(store, project, points, c).rows = rows
  BY DEF Written
<1> HIDE DEF keys, rows
<1> QED BY <1>1, <1>2, <1>3, <1>4, <1>5

(* A batch of which only a part was written never counts as whole.         *)
LEMMA PartIsLess ==
  ASSUME NEW s, s \in Seq(ToSet(s)), NEW some \in SUBSET ToSet(s),
         Cardinality(some) = Len(s)
  PROVE  some = ToSet(s)
<1> DEFINE T == ToSet(s)
           f == [i \in 1 .. Len(s) |-> s[i]]
<1>1. Len(s) \in Nat /\ DOMAIN s = 1 .. Len(s)
  OBVIOUS
<1>2. f \in Surjection(1 .. Len(s), T)
  BY <1>1 DEF Surjection, ToSet
<1>3. IsFiniteSet(1 .. Len(s)) /\ Cardinality(1 .. Len(s)) = Len(s)
  <2>1. ASSUME NEW n \in Nat
        PROVE  IsFiniteSet(1 .. n) /\ Cardinality(1 .. n) = n
    <3>1. IsFiniteSet(1 .. n)
            /\ Cardinality(1 .. n) = IF 1 > n THEN 0 ELSE n - 1 + 1
      <4>1. 1 \in Int /\ n \in Int
        OBVIOUS
      <4> QED BY <4>1, FS_Interval
    <3> QED BY <3>1
  <2> QED BY <1>1, <2>1
<1>4. IsFiniteSet(T) /\ Cardinality(T) <= Len(s)
  BY <1>2, <1>3, FS_Surjection
<1>5. /\ Cardinality(some) <= Cardinality(T)
      /\ Cardinality(T) = Cardinality(some) => T = some
  BY <1>4, FS_Subset
<1>6. Cardinality(T) \in Nat
  BY <1>4, FS_CardinalityType
<1> QED BY <1>1, <1>4, <1>5, <1>6

(* What the step of a call that has begun shows of the rows: they stay, or *)
(* the call writes some, or the store was dropped.                         *)
RowsChange(c) ==
  \/ taos'.tables = taos.tables /\ taos'.rows = taos.rows
  \/ \E some : taos' = Written(taos, Project(c), some, c)
  \/ taos' = EmptyStore /\ Dropping

(* What it shows of the calls: an Ok for a write stands for all its points.*)
CallMoves(c) ==
  /\ pc[c] # "done" /\ pc'[c] # "idle"
  /\ request' = request /\ before' = before
  /\ \A d \in Callers \ {c} : pc'[d] = pc[d] /\ code'[d] = code[d]
  /\ pc'[c] \in {"closing", "dropping", "clearing"} => Op(c) = "drop"
  /\ pc'[c] = "retrying" => Op(c) = "read"
  /\ code'[c] = "Ok" =>
       /\ pc'[c] = "done"
       /\ Op(c) = "write" => taos' = Written(taos, Project(c), ToSet(Points(c)), c)

LEMMA RowKeptByWrite ==
  ASSUME NEW c \in Callers, NEW d \in Callers, NEW p, NEW some, RowKept(d, p),
         taos' = Written(taos, Project(c), some, c), TablesNamed,
         before' = before, request' = request, c \notin before[d]
  PROVE  RowKept(d, p)'
<1> DEFINE k == KeyOf(Project(d), p)
           t == TableOf(Project(d), p.sequence)
<1>1. k \in DOMAIN taos.rows /\ t \in DOMAIN taos.tables
        /\ taos.rows[k].by \notin before[d]
  BY DEF RowKept
<1>2. k \in DOMAIN taos'.rows /\ taos'.rows[k].by \notin before[d]
  BY <1>1, WrittenRows
<1>3. t \in DOMAIN taos'.tables
  BY <1>1, WrittenTables DEF TablesNamed
<1>4. Project(d)' = Project(d)
  BY DEF Project
<1> HIDE DEF k, t
<1>5. k = KeyOf(Project(d), p) /\ t = TableOf(Project(d), p.sequence)
  BY DEF k, t
<1> QED BY <1>2, <1>3, <1>4, <1>5 DEF RowKept

LEMMA RowsStep ==
  ASSUME TypeOK, RowsInv, NEW c \in Callers, RowsChange(c), CallMoves(c)
  PROVE  RowsInv'
<1>1. TablesNamed'
  <2>1. taos' = EmptyStore => DOMAIN taos'.tables = {}
    BY DEF EmptyStore
  <2> QED BY <2>1, WrittenTables DEF RowsInv, TablesNamed, RowsChange
<1>2. HistoryTrue'
  BY DEF RowsInv, HistoryTrue, CallMoves, TypeOK
<1>3. PlacesOfOps'
  BY DEF RowsInv, PlacesOfOps, CallMoves, Op
<1>4. Acknowledged'
  <2> SUFFICES ASSUME NEW d \in Callers, Op(d)' = "write", code'[d] = "Ok",
                      ~Dropping', NEW p \in ToSet(Points(d))'
               PROVE  RowKept(d, p)'
    BY DEF Acknowledged
  <2>0. /\ Op(d) = "write" /\ p \in ToSet(Points(d))
        /\ Project(d)' = Project(d) /\ before' = before /\ request' = request
    BY DEF CallMoves, Op, Points, Project
  <2>4. ~Dropping
    BY DEF CallMoves, Dropping, Op
  <2>1. c \notin before[d]
    BY DEF RowsInv, HistoryTrue, CallMoves
  <2>2. CASE d = c
    <3>1. taos' = Written(taos, Project(c), ToSet(Points(c)), c)
      BY <2>0, <2>2 DEF CallMoves
    <3>2. /\ KeyOf(Project(c), p) \in DOMAIN taos'.rows
          /\ taos'.rows[KeyOf(Project(c), p)].by = c
      BY <2>0, <2>2, <3>1, WrittenRows
    <3>3. TableOf(Project(c), p.sequence) \in DOMAIN taos'.tables
      BY <2>0, <2>2, <3>1, WrittenTables DEF RowsInv, TablesNamed
    <3> QED BY <2>0, <2>1, <2>2, <3>2, <3>3 DEF RowKept
  <2>3. CASE d # c
    <3>1. RowKept(d, p)
      BY <2>0, <2>3, <2>4 DEF RowsInv, Acknowledged, CallMoves
    <3>2. CASE taos'.tables = taos.tables /\ taos'.rows = taos.rows
      BY <2>0, <3>1, <3>2 DEF RowKept
    <3>3. ASSUME NEW some, taos' = Written(taos, Project(c), some, c)
          PROVE  RowKept(d, p)'
      BY <2>0, <2>1, <3>1, <3>3, RowKeptByWrite DEF RowsInv
    <3> QED BY <2>4, <3>2, <3>3 DEF RowsChange
  <2> QED BY <2>2, <2>3
<1> QED BY <1>1, <1>2, <1>3, <1>4 DEF RowsInv

LEMMA RowsInit == Init => RowsInv
<1> SUFFICES ASSUME Init PROVE RowsInv
  OBVIOUS
<1>1. TablesNamed
  <2>1. DOMAIN taos.tables = {}
    BY DEF Init, EmptyStore
  <2> QED BY <2>1 DEF TablesNamed
<1>2. HistoryTrue /\ PlacesOfOps /\ Acknowledged
  BY DEF Init, HistoryTrue, PlacesOfOps, Acknowledged, Op, NoRequest
<1> QED BY <1>1, <1>2 DEF RowsInv

(* The answers and the other ends of a step.                               *)
LEMMA CallReturns ==
  ASSUME TypeOK, RowsInv, NEW c \in Callers, pc[c] # "done", before' = before,
         NEW answer, NEW points, Return(c, answer, points),
         answer = "Ok" /\ Op(c) = "write"
           => taos' = Written(taos, Project(c), ToSet(Points(c)), c)
  PROVE  CallMoves(c)
BY TypeParts DEF Return, CallMoves, CallTypes

LEMMA CallGoesOn ==
  ASSUME TypeOK, RowsInv, NEW c \in Callers, pc[c] # "done", before' = before,
         NEW place, pc' = [pc EXCEPT ![c] = place], code' = code,
         request' = request,
         place # "idle",
         place \in {"closing", "dropping", "clearing"} => Op(c) = "drop",
         place = "retrying" => Op(c) = "read"
  PROVE  CallMoves(c)
BY TypeParts DEF CallMoves, CallTypes, RowsInv, HistoryTrue

LEMMA CallReady ==
  ASSUME TypeOK, RowsInv, NEW c \in Callers, pc[c] # "done", before' = before,
         Ready(c)
  PROVE  CallMoves(c)
BY CallGoesOn DEF Ready, Goto

LEMMA CallQueryFails ==
  ASSUME TypeOK, RowsInv, NEW c \in Callers, pc[c] # "done", before' = before,
         QueryFails(c)
  PROVE  CallMoves(c)
BY CallReturns DEF QueryFails, Fail

LEMMA CallDecodes ==
  ASSUME TypeOK, RowsInv, NEW c \in Callers, pc[c] # "done", before' = before,
         NEW fetch, Generic(c, fetch), Op(c) # "write"
  PROVE  CallMoves(c)
BY CallReturns DEF Generic, ReturnPoints, Fail

(* A statement that only adds to the schema leaves the rows alone.         *)
LEMMA RowsStay ==
  ASSUME NEW c \in Callers, taos'.tables = taos.tables, taos'.rows = taos.rows
  PROVE  RowsChange(c)
BY DEF RowsChange

(* A write that is answered with Ok has written every point.               *)
LEMMA CallWrites ==
  ASSUME TypeOK, RowsInv, NEW c \in Callers, Write(c)
  PROVE  RowsChange(c) /\ CallMoves(c)
<1>0. pc[c] # "done" /\ Op(c) = "write"
  BY DEF Write, At
<1>1. ToSet(Points(c)) = ToSet(request[c].points)
        /\ Points(c) \in Seq(ToSet(Points(c)))
  <2>1. request[c] \in Requests
    BY <1>0 DEF TypeOK, Op, NoRequest
  <2> QED BY <1>0, <2>1, BatchAssumption DEF Points, Op
<1>2. CASE taos' = taos /\ before' = before
             /\ \E answer \in {"InvalidArgument", "Unavailable", "Missing"} :
                  Fail(c, answer)
  BY <1>0, <1>2, CallReturns DEF Fail, RowsChange
<1>3. ASSUME NEW some \in SUBSET StorablePoints(c),
             Store(Written(taos, Project(c), some, c)),
             \/ Fail(c, "Refused")
             \/ /\ some # ToSet(Points(c))
                /\ Fail(c, Verdict(Cardinality(some), Len(Points(c))))
      PROVE  RowsChange(c) /\ CallMoves(c)
  <2>1. taos' = Written(taos, Project(c), some, c) /\ before' = before
    BY <1>3 DEF Store
  <2>2. CASE Fail(c, "Refused")
    BY <1>0, <2>1, <2>2, CallReturns DEF Fail, RowsChange
  <2>3. CASE /\ some # ToSet(Points(c))
             /\ Fail(c, Verdict(Cardinality(some), Len(Points(c))))
    <3>1. some \in SUBSET ToSet(Points(c))
      BY <1>3 DEF StorablePoints
    <3>2. Cardinality(some) # Len(Points(c))
      BY <1>1, <2>3, <3>1, PartIsLess
    <3>3. Fail(c, "Incomplete")
      BY <2>3, <3>2 DEF Verdict
    <3> QED BY <1>0, <2>1, <3>3, CallReturns DEF Fail, RowsChange
  <2> QED BY <1>3, <2>2, <2>3
<1>4. ASSUME NEW affected,
             Store(Written(taos, Project(c), ToSet(Points(c)), c)),
             Fail(c, Verdict(affected, Len(Points(c))))
      PROVE  RowsChange(c) /\ CallMoves(c)
  <2>1. taos' = Written(taos, Project(c), ToSet(Points(c)), c) /\ before' = before
    BY <1>4 DEF Store
  <2> QED BY <1>0, <1>4, <2>1, CallReturns DEF Fail, RowsChange
<1> QED BY <1>2, <1>3, <1>4 DEF Write, historyVars

(* Every step of a call moves it, and changes the rows, as described.      *)
LEMMA CallSteps ==
  ASSUME TypeOK, RowsInv, NEW c \in Callers, Step(c)
  PROVE  RowsChange(c) /\ CallMoves(c)
<1>1. CASE EnsureDatabase(c)
  <2>1. pc[c] # "done" /\ before' = before
    BY <1>1 DEF historyVars, EnsureDatabase, Store, At
  <2>2. taos'.tables = taos.tables /\ taos'.rows = taos.rows
    BY <1>1 DEF EnsureDatabase, Store, TypeOK
  <2>3. ASSUME Advance(c, "selecting", 1)
        PROVE  CallMoves(c)
    BY <2>1, <2>3, CallGoesOn DEF Advance
  <2>4. ASSUME Fail(c, "Unavailable") \/ Fail(c, "Refused")
        PROVE  CallMoves(c)
    BY <2>1, <2>4, CallReturns DEF Fail
  <2> QED BY <1>1, <2>2, <2>3, <2>4, RowsStay DEF EnsureDatabase
<1>2. CASE SelectDatabase(c)
  <2>1. pc[c] # "done" /\ before' = before /\ taos' = taos
    BY <1>2 DEF historyVars, SelectDatabase, At
  <2>2. ASSUME NextConnection(c)
        PROVE  CallMoves(c)
    BY <2>1, <2>2, CallGoesOn DEF NextConnection, Goto, Advance
  <2>3. ASSUME Fail(c, "Unavailable") \/ Fail(c, "Refused")
        PROVE  CallMoves(c)
    BY <2>1, <2>3, CallReturns DEF Fail
  <2> QED BY <1>2, <2>1, <2>2, <2>3, RowsStay DEF SelectDatabase
<1>3. CASE LookUpProject(c)
  BY <1>3, CallReady, CallGoesOn, RowsStay DEF historyVars, LookUpProject, Goto, At
<1>4. CASE CreateStable(c)
  <2>1. pc[c] # "done" /\ before' = before
    BY <1>4 DEF historyVars, CreateStable, Store, At
  <2>2. taos'.tables = taos.tables /\ taos'.rows = taos.rows
    BY <1>4 DEF CreateStable, Store, TypeOK
  <2>3. ASSUME Ready(c)
        PROVE  CallMoves(c)
    BY <2>1, <2>3, CallReady
  <2>4. ASSUME Fail(c, "Unavailable") \/ Fail(c, "Refused") \/ Fail(c, "Missing")
        PROVE  CallMoves(c)
    BY <2>1, <2>4, CallReturns DEF Fail
  <2> QED BY <1>4, <2>2, <2>3, <2>4, RowsStay DEF CreateStable
<1>5. CASE Write(c)
  BY <1>5, CallWrites
<1>6. CASE AnswerEmpty(c)
  <2>1. pc[c] # "done" /\ before' = before /\ taos' = taos /\ Op(c) # "write"
    BY <1>6 DEF historyVars, AnswerEmpty, At
  <2> QED BY <1>6, <2>1, CallReturns, RowsStay DEF AnswerEmpty, Fail
<1>7. CASE Query(c)
  <2>1. pc[c] # "done" /\ before' = before /\ taos' = taos /\ Op(c) = "read"
    BY <1>7 DEF historyVars, Query, At
  <2>2. ASSUME NEW points, StartOver(c, points) PROVE CallMoves(c)
    BY <2>1, <2>2, CallGoesOn DEF StartOver
  <2>3. ASSUME NEW fetch, NEW kind, Typed(c, fetch, kind) PROVE CallMoves(c)
    BY <2>1, <2>2, <2>3, CallReturns DEF Typed, ReturnPoints
  <2>4. CallMoves(c)
    BY <1>7, <2>1, <2>3, CallDecodes, CallQueryFails DEF Query
  <2> QED BY <2>1, <2>4, RowsStay
<1>8. CASE Retry(c)
  <2>1. pc[c] # "done" /\ before' = before /\ taos' = taos /\ Op(c) # "write"
    BY <1>8 DEF historyVars, Retry, At, RowsInv, PlacesOfOps
  <2> QED BY <1>8, <2>1, CallDecodes, CallQueryFails, RowsStay DEF Retry
<1>9. CASE QueryOverview(c)
  <2>1. pc[c] # "done" /\ before' = before /\ taos' = taos /\ Op(c) # "write"
    BY <1>9 DEF historyVars, QueryOverview, At
  <2> QED BY <1>9, <2>1, CallReturns, CallQueryFails, RowsStay DEF QueryOverview
<1>10. CASE CloseConnection(c)
  <2>1. /\ pc[c] # "done" /\ before' = before /\ taos' = taos
        /\ Op(c) = "drop"
    BY <1>10 DEF historyVars, CloseConnection, At, RowsInv, PlacesOfOps
  <2> QED BY <1>10, <2>1, CallGoesOn, RowsStay DEF CloseConnection, Advance
<1>11. CASE DropDatabase(c)
  <2>1. pc[c] # "done" /\ before' = before /\ Op(c) = "drop" /\ Dropping
    BY <1>11 DEF historyVars, DropDatabase, Store, At, RowsInv, PlacesOfOps, Dropping
  <2>2. RowsChange(c)
    BY <1>11, <2>1 DEF DropDatabase, Store, RowsChange
  <2> QED BY <1>11, <2>1, <2>2, CallReturns, CallGoesOn
          DEF DropDatabase, Fail, Goto
<1>12. CASE ClearCache(c)
  <2>1. /\ pc[c] # "done" /\ before' = before /\ taos' = taos
        /\ Op(c) = "drop"
    BY <1>12 DEF historyVars, ClearCache, At, RowsInv, PlacesOfOps
  <2> QED BY <1>12, <2>1, CallReturns, RowsStay DEF ClearCache
<1> QED BY <1>1, <1>2, <1>3, <1>4, <1>5, <1>6, <1>7, <1>8, <1>9, <1>10, <1>11,
           <1>12 DEF Step

(* A call that begins has been answered nothing but a rejection.           *)
LEMMA BeginKeepsRows ==
  ASSUME TypeOK, RowsInv, NEW c \in Callers, Begin(c)
  PROVE  RowsInv'
<1>1. PICK asked \in Requests :
        /\ request' = [request EXCEPT ![c] = asked]
        /\ code' = [code EXCEPT ![c] = Rejection(asked)]
        /\ pc' = [pc EXCEPT ![c] = IF Rejection(asked) # "None" THEN "done"
                                   ELSE IF asked.op = "drop" THEN "closing"
                                   ELSE "ensuring"]
  BY DEF Begin
<1>2. /\ pc[c] = "idle" /\ taos' = taos
      /\ before' = [before EXCEPT ![c] = {d \in Callers : Ended(d)}]
  BY DEF Begin, At
<1>3. Rejection(asked) # "Ok"
  BY DEF Rejection
<1>4. TablesNamed'
  BY <1>2 DEF RowsInv, TablesNamed
<1>5. ASSUME NEW d \in Callers
      PROVE  /\ d # c => /\ pc'[d] = pc[d] /\ code'[d] = code[d]
                         /\ request'[d] = request[d] /\ before'[d] = before[d]
             /\ d = c => code'[d] # "Ok"
             /\ pc[d] = "done" => pc'[d] = "done"
  BY <1>1, <1>2, <1>3 DEF TypeOK, RowsInv, HistoryTrue
<1>6. HistoryTrue'
  <2>1. ASSUME NEW d \in Callers, NEW e \in before'[d]
        PROVE  pc'[e] = "done"
    <3>1. e \in Callers /\ pc[e] = "done"
      BY <1>2, <2>1 DEF RowsInv, HistoryTrue, Ended, At
    <3> QED BY <1>5, <3>1
  <2>2. before' \in [Callers -> SUBSET Callers]
    BY <1>2 DEF RowsInv, HistoryTrue
  <2>3. ASSUME NEW d \in Callers, code'[d] = "Ok" PROVE pc'[d] = "done"
    BY <1>5, <2>3 DEF RowsInv, HistoryTrue
  <2> QED BY <2>1, <2>2, <2>3 DEF HistoryTrue
<1>7. PlacesOfOps'
  BY <1>1 DEF RowsInv, PlacesOfOps, Op, TypeOK
<1>8. Acknowledged'
  <2> SUFFICES ASSUME NEW d \in Callers, Op(d)' = "write", code'[d] = "Ok",
                      ~Dropping', NEW p \in ToSet(Points(d))'
               PROVE  RowKept(d, p)'
    BY DEF Acknowledged
  <2>1. d # c /\ request'[d] = request[d] /\ before'[d] = before[d]
          /\ code[d] = "Ok"
    BY <1>5
  <2>2. ~Dropping
    <3>1. ASSUME NEW e \in Callers, Op(e) = "drop"
          PROVE  Op(e)' = "drop"
      BY <1>2, <1>5, <3>1 DEF RowsInv, PlacesOfOps, Op
    <3> QED BY <3>1 DEF Dropping
  <2>3. RowKept(d, p)
    BY <2>1, <2>2 DEF RowsInv, Acknowledged, Op, Points
  <2> QED BY <1>2, <2>1, <2>3 DEF RowKept, Project
<1> QED BY <1>4, <1>6, <1>7, <1>8 DEF RowsInv

(* The batch of a call is in its place, and stays there.                   *)
LEMMA AcknowledgedRows == TablesNamed /\ Acknowledged => AcknowledgedStored
<1> SUFFICES ASSUME TablesNamed, Acknowledged, NEW c \in Callers,
                    Op(c) = "write", code[c] = "Ok", ~Dropping,
                    NEW p \in ToSet(Points(c))
             PROVE  \E k \in DOMAIN taos.rows :
                      /\ taos.tables[k[1]].stable = Project(c)
                      /\ taos.tables[k[1]].sequence = p.sequence
                      /\ k[2] = p.time
                      /\ taos.rows[k].by \notin before[c]
  BY DEF AcknowledgedStored
<1> DEFINE t == <<Project(c), p.sequence>>
           k == <<t, p.time>>
<1>1. k \in DOMAIN taos.rows /\ t \in DOMAIN taos.tables
        /\ taos.rows[k].by \notin before[c]
  BY DEF Acknowledged, RowKept, KeyOf, TableOf
<1>2. taos.tables[t].stable = t[1] /\ taos.tables[t].sequence = t[2]
  BY <1>1 DEF TablesNamed
<1>3. k[1] = t /\ k[2] = p.time /\ t[1] = Project(c) /\ t[2] = p.sequence
  OBVIOUS
<1> HIDE DEF k, t
<1> QED BY <1>1, <1>2, <1>3

LEMMA RowsNext ==
  ASSUME TypeOK, RowsInv, [Next]_vars
  PROVE  RowsInv'
<1>1. ASSUME NEW c \in Callers, Begin(c) PROVE RowsInv'
  BY <1>1, BeginKeepsRows
<1>2. ASSUME NEW c \in Callers, Step(c) PROVE RowsInv'
  BY <1>2, CallSteps, RowsStep
<1>3. CASE UNCHANGED vars
  BY <1>3 DEF vars, callVars, historyVars, RowsInv, TablesNamed, HistoryTrue,
              PlacesOfOps, Acknowledged, RowKept, Dropping, Op, Project, Points
<1> QED BY <1>1, <1>2, <1>3 DEF Next, Quiet

(* Nothing that a write was told is stored is lost, or overwritten by a    *)
(* call that had ended before it began.                                    *)
THEOREM StoreAcknowledged == Spec => []AcknowledgedStored
<1>1. TypeOK /\ Numbered /\ RowsInv /\ [Next]_vars
        => (TypeOK /\ Numbered /\ RowsInv)'
  BY TypeStep, NumberedStep, RowsNext
<1>2. RowsInv => AcknowledgedStored
  BY AcknowledgedRows DEF RowsInv
<1> QED BY <1>1, <1>2, TypeInit, RowsInit, PTL DEF Spec
=============================================================================
