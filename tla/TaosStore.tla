----------------------------- MODULE TaosStore ------------------------------
(***************************************************************************)
(* TaosClient and HistoryQueryService: threads that write to and read from *)
(* TDengine over a pool of write connections and one query connection.     *)
(* Every call first makes sure of the database and of the project's super  *)
(* table, for which it locks connections and the schema cache one inside   *)
(* the other.  An action is one critical section, or the part of it up to  *)
(* the next lock; a TDengine statement is atomic and may be refused.       *)
(* Requests are records: op (write, read, overview or drop), project, and  *)
(* points and connection of a write, sequences, start, end, granularity of *)
(* a read.                                                                 *)
(***************************************************************************)
EXTENDS HistoryRows

CONSTANTS
  Callers,          (* the calls; each value in the store names its call   *)
  Requests,         (* what a call may ask                                 *)
  Registered,       (* RuntimeConfigRegistry: kinds of known sequences     *)
  ConnectionCount,  (* write_connection_count                              *)
  HashOf,           (* std::hash of a sequence id                          *)
  Hashed,           (* the connection of insertRaw: chosen by hash         *)
  OpenAtStart,      (* the connections the constructor may have opened     *)
  MaxRefusals,      (* bound: how often TDengine refuses a statement       *)
  NoCaller

QueryConnection == ConnectionCount
Writers == 0 .. (ConnectionCount - 1)  (* write connections                *)
Pool == Writers \cup {QueryConnection}

ASSUME StoreAssumption ==
  /\ ConnectionCount \in Nat \ {0}
  /\ NoCaller \notin Callers
  /\ OpenAtStart \subseteq SUBSET Pool
  /\ MaxRefusals \in Nat

(* A batch is a vector of points.                                          *)
ASSUME BatchAssumption ==
  \A asked \in Requests :
    asked.op = "write" => asked.points \in Seq(ToSet(asked.points))

VARIABLES
  taos,          (* TDengine: [database, stables, tables, rows]            *)
  open,          (* connections that are not null                          *)
  cache,         (* project_schemas                                        *)
  connection,    (* who holds the mutex of each connection                 *)
  schema,        (* who holds schema_mutex                                 *)
  pc, request,   (* of every call                                          *)
  passes,        (* how often it still has to ensure the schema            *)
  next,          (* the next connection to lock                            *)
  temporary,     (* the points it has decoded                              *)
  code, result,  (* its answer; a failure says what was the cause         *)
  refusals,      (* statements refused so far                              *)
  before,        (* history: the calls that had ended when a call began    *)
  seen           (* history: the answers a read could have had meanwhile   *)

callVars == <<pc, request, passes, next, temporary, code, result>>
historyVars == <<before, seen>>
vars == <<taos, open, cache, connection, schema, callVars, refusals,
          historyVars>>

EmptyStore == [database |-> FALSE, stables |-> {}, tables |-> <<>>, rows |-> <<>>]

NoRequest == [op |-> "none"]

Init ==
  /\ taos = EmptyStore
  /\ open \in OpenAtStart
  /\ cache = {}
  /\ connection = [k \in Pool |-> NoCaller]
  /\ schema = NoCaller
  /\ pc = [c \in Callers |-> "idle"]
  /\ request = [c \in Callers |-> NoRequest]
  /\ passes = [c \in Callers |-> 1]
  /\ next = [c \in Callers |-> 0]
  /\ temporary = [c \in Callers |-> <<>>]
  /\ code = [c \in Callers |-> "None"]
  /\ result = [c \in Callers |-> <<>>]
  /\ refusals = 0
  /\ before = [c \in Callers |-> {}]
  /\ seen = [c \in Callers |-> {}]
-----------------------------------------------------------------------------
At(c, place) == pc[c] = place
Op(c) == request[c].op
Project(c) == request[c].project
Ended(c) == At(c, "done")

Goto(c, place) ==
  /\ pc' = [pc EXCEPT ![c] = place]
  /\ UNCHANGED <<request, passes, next, temporary, code, result>>

Return(c, answer, points) ==
  /\ pc' = [pc EXCEPT ![c] = "done"]
  /\ code' = [code EXCEPT ![c] = answer]
  /\ result' = [result EXCEPT ![c] = points]
  /\ temporary' = [temporary EXCEPT ![c] = <<>>]
  /\ UNCHANGED <<request, passes, next>>
Fail(c, answer) == Return(c, answer, <<>>)

Advance(c, place, k) ==
  /\ pc' = [pc EXCEPT ![c] = place]
  /\ next' = [next EXCEPT ![c] = k]
  /\ UNCHANGED <<request, passes, temporary, code, result>>

FreeConnection(k) == connection[k] = NoCaller
Hold(c, k) == connection' = [connection EXCEPT ![k] = c]
Release(k) == connection' = [connection EXCEPT ![k] = NoCaller]

(* TDengine executes a statement, or refuses it.                           *)
Accepted == UNCHANGED refusals
Refused == refusals < MaxRefusals /\ refusals' = refusals + 1

(* The points a read would find if it ran on this store alone.             *)
Answer(store, asked) ==
  IF asked.op \notin {"read", "overview"} \/ asked.granularity < 0 THEN <<>>
  ELSE ExpectedPoints(store, [asked EXCEPT !.sequences = Covered(store, asked)])

(* The readers in progress live through the new store.                     *)
Store(store) ==
  /\ taos' = store
  /\ seen' = [c \in Callers |->
                IF Ended(c) \/ At(c, "idle") THEN seen[c]
                ELSE seen[c] \cup {Answer(store, request[c])}]
  /\ UNCHANGED before
-----------------------------------------------------------------------------
(***************************************************************************)
(* The arguments: unknown sequences, an empty request or an inverted range *)
(* never reach TDengine.  insertRaw ensures the schema itself and again in *)
(* insertRawOnConnection.                                                  *)
(***************************************************************************)
Rejection(asked) ==
  CASE asked.op = "write" /\ asked.points = <<>> -> "InvalidArgument"
    [] asked.op = "read" /\ asked.sequences = <<>> -> "InvalidArgument"
    [] asked.op \in {"read", "overview"} /\ asked.start > asked.end
         -> "InvalidArgument"
    [] asked.op \in {"read", "overview"}
         /\ ~(ToSet(asked.sequences) \subseteq DOMAIN Registered) -> "NotFound"
    [] OTHER -> "None"

Begin(c) ==
  /\ At(c, "idle")
  /\ \E asked \in Requests :
       LET hashed == asked.op = "write" /\ asked.connection = Hashed IN
       /\ request' = [request EXCEPT ![c] = asked]
       /\ code' = [code EXCEPT ![c] = Rejection(asked)]
       /\ pc' = [pc EXCEPT ![c] = IF Rejection(asked) # "None" THEN "done"
                                  ELSE IF asked.op = "drop" THEN "closing"
                                  ELSE "ensuring"]
       /\ passes' = [passes EXCEPT ![c] = IF hashed THEN 2 ELSE 1]
       /\ seen' = [seen EXCEPT ![c] = {Answer(taos, asked)}]
  /\ before' = [before EXCEPT ![c] = {d \in Callers : Ended(d)}]
  /\ UNCHANGED <<taos, open, cache, connection, schema, next, temporary,
                 result, refusals>>
-----------------------------------------------------------------------------
(***************************************************************************)
(* ensureSchema.  The first connection stays locked while the others, and  *)
(* then the query connection, are locked one by one.                       *)
(***************************************************************************)
EnsureDatabase(c) ==
  /\ At(c, "ensuring") /\ FreeConnection(0)
  /\ \/ /\ 0 \notin open
        /\ Fail(c, "Unavailable")
        /\ UNCHANGED <<taos, connection, refusals, historyVars>>
     \/ /\ 0 \in open /\ Refused                       (* create database  *)
        /\ Fail(c, "Refused")
        /\ UNCHANGED <<taos, connection, historyVars>>
     \/ /\ 0 \in open /\ Refused                       (* select_db        *)
        /\ Store([taos EXCEPT !.database = TRUE])
        /\ Fail(c, "Refused")
        /\ UNCHANGED connection
     \/ /\ 0 \in open /\ Accepted
        /\ Store([taos EXCEPT !.database = TRUE])
        /\ Advance(c, "selecting", 1)
        /\ Hold(c, 0)
  /\ UNCHANGED <<open, cache, schema>>

(* Mutant of NextConnection: the first connection stays locked for the     *)
(* super table.                                                            *)
NextConnectionKept(c) ==
  /\ IF next[c] = QueryConnection
     THEN Goto(c, "caching")
     ELSE Advance(c, "selecting", next[c] + 1)
  /\ UNCHANGED connection

(* The next connection, or the end of ensureSchema and of its lock.        *)
NextConnection(c) ==
  IF next[c] = QueryConnection
  THEN Goto(c, "caching") /\ Release(0)
  ELSE Advance(c, "selecting", next[c] + 1) /\ UNCHANGED connection

(* A missing query connection is passed over, a missing write connection   *)
(* fails the call.                                                         *)
SelectDatabase(c) ==
  LET k == next[c] IN
  /\ At(c, "selecting") /\ FreeConnection(k)
  /\ \/ k \in open /\ Accepted /\ NextConnection(c)
     \/ k \notin open /\ k = QueryConnection /\ Accepted /\ NextConnection(c)
     \/ /\ k \in open /\ Refused
        /\ Fail(c, "Refused")
        /\ Release(0)
     \/ /\ k \notin open /\ k # QueryConnection /\ Accepted
        /\ Fail(c, "Unavailable")
        /\ Release(0)
  /\ UNCHANGED <<taos, open, cache, schema, historyVars>>
-----------------------------------------------------------------------------
(***************************************************************************)
(* ensureProjectSchema, after ensureSchema.                                *)
(***************************************************************************)
(* The schema is ready: once more in insertRawOnConnection, or on with it. *)
Ready(c) ==
  IF passes[c] = 2
  THEN /\ pc' = [pc EXCEPT ![c] = "ensuring"]
       /\ passes' = [passes EXCEPT ![c] = 1]
       /\ UNCHANGED <<request, next, temporary, code, result>>
  ELSE Goto(c, "working")

LookUpProject(c) ==
  /\ At(c, "caching") /\ schema = NoCaller
  /\ IF Project(c) \in cache
     THEN Ready(c) /\ UNCHANGED schema
     ELSE Goto(c, "creating") /\ schema' = c
  /\ UNCHANGED <<taos, open, cache, connection, refusals, historyVars>>

(* Mutant of CreateStable: the project is cached although the statement    *)
(* was refused.                                                            *)
CreateStableCached(c) ==
  /\ At(c, "creating") /\ FreeConnection(0)
  /\ cache' = cache \cup {Project(c)}
  /\ \/ 0 \notin open /\ Fail(c, "Unavailable") /\ Accepted
        /\ UNCHANGED <<taos, historyVars>>
     \/ 0 \in open /\ Refused /\ Fail(c, "Refused")
        /\ UNCHANGED <<taos, historyVars>>
     \/ 0 \in open /\ Accepted /\ Ready(c)
        /\ Store([taos EXCEPT !.stables = @ \cup {Project(c)}])
  /\ schema' = NoCaller
  /\ UNCHANGED <<open, connection>>

CreateStable(c) ==
  /\ At(c, "creating") /\ FreeConnection(0)
  /\ \/ /\ 0 \notin open /\ Accepted
        /\ Fail(c, "Unavailable")
        /\ UNCHANGED <<taos, cache, historyVars>>
     \/ /\ 0 \in open /\ Refused
        /\ Fail(c, "Refused")
        /\ UNCHANGED <<taos, cache, historyVars>>
     \/ /\ 0 \in open /\ Accepted
        /\ IF taos.database
           THEN /\ Store([taos EXCEPT !.stables = @ \cup {Project(c)}])
                /\ cache' = cache \cup {Project(c)}
                /\ Ready(c)
           ELSE Fail(c, "Missing") /\ UNCHANGED <<taos, cache, historyVars>>
  /\ schema' = NoCaller
  /\ UNCHANGED <<open, connection>>
-----------------------------------------------------------------------------
(***************************************************************************)
(* insertRawOnConnection, once the schema is ready.                        *)
(***************************************************************************)
Points(c) == request[c].points

ConnectionOf(c) ==
  IF request[c].connection = Hashed
  THEN HashOf[Points(c)[1].sequence] % ConnectionCount
  ELSE request[c].connection

(* What TDengine may report of a whole batch: points with the same key may *)
(* count as one.                                                           *)
AffectedRows(points) ==
  {Len(points), Cardinality({<<p.sequence, p.time>> : p \in ToSet(points)})}

(* Mutant of Verdict: the number of affected rows is not looked at.        *)
VerdictAny(affected, expected) == "Ok"

Verdict(affected, expected) ==
  IF affected = expected THEN "Ok" ELSE "Incomplete"

(* A missing super table takes no point.                                   *)
StorablePoints(c) ==
  IF Project(c) \in taos.stables THEN ToSet(Points(c)) ELSE {}

Write(c) ==
  LET k == ConnectionOf(c)
      all == ToSet(Points(c))
      valid == OneKindEach(Points(c)) /\ k \in Writers
      executes == valid /\ FreeConnection(k) /\ k \in open
  IN
  /\ At(c, "working") /\ Op(c) = "write"
  /\ \/ /\ ~valid /\ Accepted
        /\ Fail(c, "InvalidArgument")
        /\ UNCHANGED <<taos, historyVars>>
     \/ /\ valid /\ FreeConnection(k) /\ k \notin open /\ Accepted
        /\ Fail(c, "Unavailable")
        /\ UNCHANGED <<taos, historyVars>>
     \/ /\ executes /\ Refused
        /\ \E some \in SUBSET StorablePoints(c) :
             /\ Store(Written(taos, Project(c), some, c))
             /\ \/ Fail(c, "Refused")
                \/ /\ some # all
                   /\ Fail(c, Verdict(Cardinality(some), Len(Points(c))))
     \/ /\ executes /\ Accepted
        /\ IF Project(c) \in taos.stables
           THEN /\ Store(Written(taos, Project(c), all, c))
                /\ \E affected \in AffectedRows(Points(c)) :
                     Fail(c, Verdict(affected, Len(Points(c))))
           ELSE Fail(c, "Missing") /\ UNCHANGED <<taos, historyVars>>
  /\ UNCHANGED <<open, cache, connection, schema>>
-----------------------------------------------------------------------------
(***************************************************************************)
(* queryRaw, once the schema is ready.  A typed projection that meets a    *)
(* row of another kind starts over with the generic one, under one lock.   *)
(***************************************************************************)
EmptyRange(c) == request[c].start = request[c].end

(* A read or an overview of no time at all, or a read with a granularity   *)
(* that is not positive, without a statement.                              *)
AnswerEmpty(c) ==
  /\ At(c, "working") /\ Op(c) \in {"read", "overview"}
  /\ \/ /\ EmptyRange(c)
        /\ Return(c, "Ok", IF Op(c) = "read" THEN <<>>
                           ELSE [total |-> 0, series |-> <<>>])
     \/ /\ ~EmptyRange(c) /\ request[c].granularity < 0
        /\ Fail(c, "InvalidArgument")
  /\ UNCHANGED <<taos, open, cache, connection, schema, refusals, historyVars>>

(* The query connection cannot answer.                                     *)
QueryFails(c) ==
  \/ QueryConnection \in open /\ Refused /\ Fail(c, "Refused")
  \/ /\ QueryConnection \notin open \/ Project(c) \notin taos.stables
     /\ Accepted
     /\ Fail(c, IF QueryConnection \in open THEN "Missing" ELSE "Unavailable")

QueryAnswers(c) ==
  QueryConnection \in open /\ Accepted /\ Project(c) \in taos.stables

ReturnPoints(c, points) ==
  Return(c, "Ok", Ordered(points, request[c].sequences))

Generic(c, fetch) ==
  IF \E i \in DOMAIN fetch : Mismatch(fetch[i], fetch[i].tag)
  THEN Fail(c, "Unreadable")
  ELSE ReturnPoints(c, temporary[c] \o DecodeGeneric(fetch))

(* Mutant of StartOver: what was decoded so far is kept.                   *)
StartOverKeeping(c, points) ==
  /\ pc' = [pc EXCEPT ![c] = "retrying"]
  /\ temporary' = [temporary EXCEPT ![c] = points]
  /\ UNCHANGED <<request, passes, next, code, result>>

StartOver(c, points) ==
  /\ pc' = [pc EXCEPT ![c] = "retrying"]
  /\ temporary' = [temporary EXCEPT ![c] = <<>>]
  /\ UNCHANGED <<request, passes, next, code, result>>

Typed(c, fetch, kind) ==
  LET wrong == {i \in DOMAIN fetch : Mismatch(fetch[i], kind)} IN
  IF wrong = {}
  THEN ReturnPoints(c, DecodeTyped(fetch, kind)) /\ UNCHANGED connection
  ELSE /\ StartOver(c, DecodeTyped(SubSeq(fetch, 1, Min(wrong) - 1), kind))
       /\ Hold(c, QueryConnection)

Query(c) ==
  LET kind == TypedKind(request[c], Registered) IN
  /\ At(c, "working") /\ Op(c) = "read" /\ ~EmptyRange(c)
  /\ request[c].granularity >= 0 /\ FreeConnection(QueryConnection)
  /\ \/ QueryFails(c) /\ UNCHANGED connection
     \/ /\ QueryAnswers(c)
        /\ \E fetch \in Fetches(taos, request[c]) :
             IF kind = Unknown
             THEN Generic(c, fetch) /\ UNCHANGED connection
             ELSE Typed(c, fetch, kind)
  /\ UNCHANGED <<taos, open, cache, schema, historyVars>>

Retry(c) ==
  /\ At(c, "retrying")
  /\ \/ QueryFails(c)
     \/ /\ QueryAnswers(c)
        /\ \E fetch \in Fetches(taos, request[c]) : Generic(c, fetch)
  /\ Release(QueryConnection)
  /\ UNCHANGED <<taos, open, cache, schema, historyVars>>

QueryOverview(c) ==
  /\ At(c, "working") /\ Op(c) = "overview" /\ ~EmptyRange(c)
  /\ FreeConnection(QueryConnection)
  /\ \/ QueryFails(c)
     \/ /\ QueryAnswers(c)
        /\ Return(c, "Ok", Overview(taos, request[c]))
  /\ UNCHANGED <<taos, open, cache, connection, schema, historyVars>>
-----------------------------------------------------------------------------
(***************************************************************************)
(* dropDatabaseForTesting: every connection is closed first, the cache is  *)
(* cleared last.                                                           *)
(***************************************************************************)
CloseConnection(c) ==
  LET k == next[c] IN
  /\ At(c, "closing") /\ FreeConnection(k)
  /\ open' = open \ {k}
  /\ Advance(c, IF k = QueryConnection THEN "dropping" ELSE "closing", k + 1)
  /\ UNCHANGED <<taos, cache, connection, schema, refusals, historyVars>>

DropDatabase(c) ==
  /\ At(c, "dropping")
  /\ \/ /\ Refused
        /\ Fail(c, "Refused")
        /\ UNCHANGED <<taos, historyVars>>
     \/ /\ Accepted
        /\ Store(EmptyStore)
        /\ Goto(c, "clearing")
  /\ UNCHANGED <<open, cache, connection, schema>>

ClearCache(c) ==
  /\ At(c, "clearing") /\ schema = NoCaller
  /\ cache' = {}
  /\ Return(c, "Ok", <<>>)
  /\ UNCHANGED <<taos, open, connection, schema, refusals, historyVars>>
-----------------------------------------------------------------------------
Step(c) ==
  \/ EnsureDatabase(c) \/ SelectDatabase(c)
  \/ LookUpProject(c) \/ CreateStable(c)
  \/ Write(c) \/ AnswerEmpty(c) \/ Query(c) \/ Retry(c) \/ QueryOverview(c)
  \/ CloseConnection(c) \/ DropDatabase(c) \/ ClearCache(c)

(* Nothing is left to do.                                                  *)
Quiet == (\A c \in Callers : Ended(c)) /\ UNCHANGED vars

Next == (\E c \in Callers : Begin(c) \/ Step(c)) \/ Quiet

Spec == Init /\ [][Next]_vars

(* Threads are scheduled fairly and TDengine answers every statement.      *)
FairSpec == Spec /\ \A c \in Callers : WF_vars(Step(c))
-----------------------------------------------------------------------------
(***************************************************************************)
(* Properties.                                                             *)
(***************************************************************************)
Places == {"idle", "ensuring", "selecting", "caching", "creating", "working",
           "retrying", "closing", "dropping", "clearing", "done"}
Codes == {"None", "Ok", "InvalidArgument", "NotFound", "Unavailable",
          "Refused", "Missing", "Incomplete", "Unreadable"}

TypeOK ==
  /\ taos = [database |-> taos.database, stables |-> taos.stables,
             tables |-> taos.tables, rows |-> taos.rows]
  /\ taos.database \in BOOLEAN
  /\ open \subseteq Pool
  /\ connection \in [Pool -> Callers \cup {NoCaller}]
  /\ schema \in Callers \cup {NoCaller}
  /\ pc \in [Callers -> Places]
  /\ request \in [Callers -> Requests \cup {NoRequest}]
  /\ passes \in [Callers -> {1, 2}]
  /\ next \in [Callers -> 0 .. (ConnectionCount + 1)]
  /\ code \in [Callers -> Codes]

(* The connection a call locks next is one of the pool.                    *)
Numbered ==
  \A c \in Callers :
    /\ At(c, "idle") => next[c] = 0
    /\ At(c, "selecting") => next[c] \in Pool \ {0}
    /\ At(c, "closing") => next[c] \in Pool

(* A mutex is held exactly where the code holds it between two locks: the  *)
(* first connection while the others are selected, the cache while its     *)
(* super table is created, the query connection between two projections.   *)
(* However a call fails, it leaves no mutex locked behind it.              *)
LocksHeld ==
  /\ \A c \in Callers :
       /\ At(c, "selecting") <=> connection[0] = c
       /\ At(c, "retrying") <=> connection[QueryConnection] = c
       /\ At(c, "creating") <=> schema = c
  /\ \A k \in Pool \ {0, QueryConnection} : FreeConnection(k)

(* The mutex a call needs for its next step is free, or it needs none.     *)
MayProceed(c) ==
  CASE At(c, "ensuring") \/ At(c, "creating") -> FreeConnection(0)
    [] At(c, "selecting") \/ At(c, "closing") -> FreeConnection(next[c])
    [] At(c, "caching") \/ At(c, "clearing") -> schema = NoCaller
    [] At(c, "working") /\ Op(c) = "write" ->
         ConnectionOf(c) \in Writers => FreeConnection(ConnectionOf(c))
    [] At(c, "working") /\ Op(c) # "write" -> FreeConnection(QueryConnection)
    [] OTHER -> ~At(c, "idle") /\ ~Ended(c)

(* The locks nest in one order (schema cache, first connection, the others,*)
(* the query connection): as long as a call is in progress, one of them    *)
(* has all it needs for its next step.                                     *)
NoDeadlock ==
  (\E c \in Callers : ~At(c, "idle") /\ ~Ended(c)) =>
    \E c \in Callers : MayProceed(c)

(* No statement ever addresses a database or a super table that is not     *)
(* there, whatever other calls failed, raced or dropped: a call fails only *)
(* if a connection is missing or TDengine refused one of its statements.   *)
SchemaFirst ==
  \A c \in Callers :
    /\ code[c] # "Missing"
    /\ code[c] = "Unavailable" => open # Pool

(***************************************************************************)
(* What makes SchemaFirst inductive: as long as a connection is open, what *)
(* is cached exists, and a call stands only behind statements that have    *)
(* been executed; the database is dropped after the last connection.       *)
(***************************************************************************)
CacheTrue == open # {} => cache \subseteq taos.stables

BehindDatabase ==
  \A c \in Callers :
    pc[c] \in {"selecting", "caching", "creating"} /\ open # {} => taos.database

BehindStable ==
  \A c \in Callers :
    pc[c] \in {"working", "retrying"} /\ open # {} => Project(c) \in taos.stables

Closed ==
  \A c \in Callers :
    /\ At(c, "closing") => \A k \in open : next[c] <= k
    /\ At(c, "dropping") => open = {}

SchemaInv ==
  CacheTrue /\ BehindDatabase /\ BehindStable /\ Closed /\ SchemaFirst

Dropping == \E c \in Callers : Op(c) = "drop"

(* A batch that was answered with Ok is stored whole, under its project    *)
(* and sequence, until a call that was not over before it writes the same  *)
(* key: nothing acknowledged is lost, or overwritten by what is older.     *)
AcknowledgedStored ==
  \A c \in Callers :
    Op(c) = "write" /\ code[c] = "Ok" /\ ~Dropping =>
      \A p \in ToSet(Points(c)) :
        \E k \in DOMAIN taos.rows :
          /\ taos.tables[k[1]].stable = Project(c)
          /\ taos.tables[k[1]].sequence = p.sequence
          /\ k[2] = p.time
          /\ taos.rows[k].by \notin before[c]

(* A read that is answered with Ok returns what the store held at one      *)
(* moment between its call and its answer, by time and then in the         *)
(* requested order, although a typed projection may have been abandoned    *)
(* half-way; an overview counts exactly those points.  So it is while a    *)
(* sequence keeps the kind of its first stored point: of one of unknown    *)
(* kind that changes it, a read by intervals answers with the last value   *)
(* of the first kind in an interval, also where one of the other is newer. *)
AnswerIsSnapshot ==
  \A c \in Callers :
    code[c] = "Ok" /\ Op(c) \in {"read", "overview"} =>
      IF Op(c) = "read" THEN result[c] \in seen[c]
      ELSE \E points \in seen[c] : AgreesWithPoints(result[c], points)

(* History that was stored can be read, whatever kinds its values have.    *)
HistoryReadable == \A c \in Callers : code[c] # "Unreadable"

(* Every call returns, if TDengine answers every statement.                *)
CallsReturn == \A c \in Callers : ~At(c, "idle") ~> Ended(c)
=============================================================================
