---------------------------- MODULE HistoryRows ----------------------------
(***************************************************************************)
(* The rows TaosClient keeps in TDengine: how a batch is bound to child    *)
(* tables, what the statements of queryRaw and queryHistoryOverview select *)
(* and how their rows become points.  A child table has one value_type tag *)
(* and one column per kind of value; it keeps the tag it was created with. *)
(* A store is [database, stables, tables, rows]: tables maps the name of a *)
(* child table to its super table and tags, rows maps a table and a time   *)
(* to the kind of the value and the call that wrote it.                    *)
(***************************************************************************)
EXTENDS Integers, SequencesExt

CONSTANTS
  Kinds,     (* TimeseriesValueKind without Unknown                        *)
  Unknown,   (* TimeseriesValueKind::Unknown                               *)
  Null       (* a column without a value                                   *)

(* tableName: the hash of project and sequence, taken to be injective.     *)
TableOf(project, sequence) == <<project, sequence>>

(* insertRawOnConnection refuses a batch in which a sequence has values of *)
(* two kinds.                                                              *)
OneKindEach(points) ==
  \A p, q \in ToSet(points) : p.sequence = q.sequence => p.kind = q.kind

(* BoundGroup: the row of a point, in the table of its sequence.           *)
KeyOf(project, p) == <<TableOf(project, p.sequence), p.time>>

(* INSERT ... USING creates the missing tables, with the kind of the batch *)
(* as their tag; the tags of a table that is there are ignored.            *)
TablesWith(store, project, points) ==
  LET New(t) == CHOOSE p \in points : TableOf(project, p.sequence) = t
      names == {TableOf(project, p.sequence) : p \in points}
  IN [t \in DOMAIN store.tables \cup names |->
        IF t \in DOMAIN store.tables THEN store.tables[t]
        ELSE [stable |-> project, sequence |-> New(t).sequence,
              tag |-> New(t).kind]]

(* Rows with the same key are replaced.                                    *)
RowsWith(store, project, points, c) ==
  LET New(k) == CHOOSE p \in points : KeyOf(project, p) = k
      keys == {KeyOf(project, p) : p \in points}
  IN [k \in DOMAIN store.rows \cup keys |->
        IF k \in keys THEN [kind |-> New(k).kind, by |-> c]
        ELSE store.rows[k]]

(* The store after c has written some points.                              *)
Written(store, project, points, c) ==
  [database |-> store.database, stables |-> store.stables,
   tables |-> TablesWith(store, project, points),
   rows |-> RowsWith(store, project, points, c)]
-----------------------------------------------------------------------------
(***************************************************************************)
(* queryRaw.                                                               *)
(***************************************************************************)
Selected(store, request) ==
  {k \in DOMAIN store.rows :
     /\ store.tables[k[1]].stable = request.project
     /\ store.tables[k[1]].sequence \in ToSet(request.sequences)
     /\ request.start <= k[2] /\ k[2] < request.end}

(* _wstart of INTERVAL; without granularity a row is its own group.        *)
Bucket(request, t) ==
  IF request.granularity = 0 THEN t
  ELSE (t \div request.granularity) * request.granularity

Groups(store, request) ==
  LET keys == Selected(store, request) IN
  {{k \in keys : k[1] = j[1] /\ Bucket(request, k[2]) = Bucket(request, j[2])} :
     j \in keys}

Latest(group) == CHOOSE k \in group : \A j \in group : j[2] <= k[2]

(* LAST of a column: the last value that is not null.                      *)
Columns(store, group) ==
  [kind \in Kinds |->
     LET filled == {k \in group : store.rows[k].kind = kind} IN
     IF filled = {} THEN Null ELSE store.rows[Latest(filled)].by]

ResultRows(store, request) ==
  {LET table == store.tables[Latest(group)[1]] IN
   [time |-> Bucket(request, Latest(group)[2]), sequence |-> table.sequence,
    tag |-> table.tag, columns |-> Columns(store, group)] :
     group \in Groups(store, request)}

InTimeOrder(s) == \A i \in 2 .. Len(s) : s[i - 1].time <= s[i].time

(* The orders in which TDengine may return the rows: ORDER BY ts, or the   *)
(* partitions of a grouped query as they come.                             *)
Fetches(store, request) ==
  {f \in SetToSeqs(ResultRows(store, request)) :
     request.granularity = 0 => InTimeOrder(f)}

(* The kind of the typed projection: that of every requested sequence.     *)
TypedKind(request, configured) ==
  LET kinds == {configured[s] : s \in ToSet(request.sequences)} IN
  IF Cardinality(kinds) = 1 THEN CHOOSE k \in kinds : TRUE ELSE Unknown

Mismatch(row, kind) == row.tag # kind \/ row.columns[kind] = Null

Decode(row, kind) ==
  [time |-> row.time, sequence |-> row.sequence, value |-> row.columns[kind]]

DecodeTyped(fetch, kind) == [i \in DOMAIN fetch |-> Decode(fetch[i], kind)]

DecodeGeneric(fetch) == [i \in DOMAIN fetch |-> Decode(fetch[i], fetch[i].tag)]

(* requested_order: the first place of a sequence in the request.          *)
Rank(sequences, s) ==
  CHOOSE i \in DOMAIN sequences :
    sequences[i] = s /\ \A j \in 1 .. (i - 1) : sequences[j] # s

(* Rows in time order only have their runs of equal times put into the     *)
(* requested order; others are sorted by both.                             *)
Ordered(points, sequences) ==
  LET Run(i) == IF InTimeOrder(points)
                THEN Cardinality({j \in 2 .. i :
                                    points[j - 1].time # points[j].time})
                ELSE points[i].time
      Place(i) == Rank(sequences, points[i].sequence)
      Before(i, j) ==
        \/ Run(i) < Run(j)
        \/ Run(i) = Run(j) /\ Place(i) < Place(j)
        \/ Run(i) = Run(j) /\ Place(i) = Place(j) /\ i < j
      order == SetToSortSeq(DOMAIN points, Before)
  IN [i \in DOMAIN points |-> points[order[i]]]
-----------------------------------------------------------------------------
(***************************************************************************)
(* queryHistoryOverview; without sequences it covers all of the project.   *)
(***************************************************************************)
Covered(store, request) ==
  IF request.sequences # <<>> THEN request.sequences
  ELSE SetToSortSeq({store.tables[t].sequence :
                       t \in {u \in DOMAIN store.tables :
                                store.tables[u].stable = request.project}},
                    <)

SeriesOf(store, request, s) ==
  LET all == [request EXCEPT !.sequences = <<s>>]
      times == {k[2] : k \in Selected(store, all)}
  IN [sequence |-> s, count |-> Cardinality(times),
      first |-> Min(times), last |-> Max(times)]

Overview(store, request) ==
  LET asked == [request EXCEPT !.sequences = Covered(store, request)]
      found == {store.tables[k[1]].sequence : k \in Selected(store, asked)}
      Before(s, r) == Rank(asked.sequences, s) < Rank(asked.sequences, r)
      names == SetToSortSeq(found, Before)
      series == [i \in DOMAIN names |-> SeriesOf(store, request, names[i])]
  IN [total |-> FoldSeq(LAMBDA x, sum : x.count + sum, 0, series),
      series |-> series]
-----------------------------------------------------------------------------
(***************************************************************************)
(* What a caller may expect of a store: every point of the range, or the   *)
(* last of every interval, by time and then in the requested order.        *)
(***************************************************************************)
ExpectedPoints(store, request) ==
  LET Kept(k) ==
        \A j \in Selected(store, request) :
          j[1] = k[1] /\ Bucket(request, j[2]) = Bucket(request, k[2])
            => j[2] <= k[2]
      points == {[time |-> Bucket(request, k[2]),
                  sequence |-> store.tables[k[1]].sequence,
                  value |-> store.rows[k].by] :
                   k \in {j \in Selected(store, request) : Kept(j)}}
      Before(p, q) ==
        \/ p.time < q.time
        \/ /\ p.time = q.time
           /\ Rank(request.sequences, p.sequence)
                < Rank(request.sequences, q.sequence)
  IN SetToSortSeq(points, Before)

(* An overview counts what a query of the same range returns.              *)
AgreesWithPoints(overview, points) ==
  /\ overview.total = Len(points)
  /\ {x.sequence : x \in ToSet(overview.series)}
       = {p.sequence : p \in ToSet(points)}
  /\ \A x \in ToSet(overview.series) :
       LET times == {p.time : p \in {q \in ToSet(points) :
                                       q.sequence = x.sequence}}
       IN /\ x.count = Cardinality(times)
          /\ x.first = Min(times) /\ x.last = Max(times)
=============================================================================
