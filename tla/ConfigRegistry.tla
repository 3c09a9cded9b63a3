---------------------------- MODULE ConfigRegistry ----------------------------
(***************************************************************************)
(* RuntimeConfigRegistry and its use by IngestService.  The sync RPCs      *)
(* upsert one request at a time under the exclusive lock: a copy of the    *)
(* configuration is changed item by item and takes the place of the old    *)
(* one unless an item is refused.  Ingest resolves every point in two      *)
(* lookups, each under a shared lock of its own.                           *)
(* An instance has an external key (data source and external id) and a     *)
(* value type; a constraint, a derived series and a relation are entries   *)
(* with the sequences they refer to.  The replace... operations, which     *)
(* only tests call, are left out.                                          *)
(***************************************************************************)
EXTENDS Integers, Sequences

CONSTANTS
  Callers,       (* threads that resolve points                            *)
  Projects,
  SequenceIds,   (* ids of instances and of derived series                 *)
  EntryIds,      (* ids of constraints, relations and derived series       *)
  Keys,          (* external identifiers                                   *)
  Types,         (* data types of instances, and of values                 *)
  NumericTypes,  (* the continuous numeric ones                            *)
  Requests,      (* the upserts that clients send                          *)
  Points,        (* the points that clients send                           *)
  NoSequence, NoKey, NoConfig

Kinds == {"constraint", "derived", "relation"}
Instance == [key : Keys, type : Types]
InstanceItem == [id : SequenceIds, key : Keys \cup {NoKey}, type : Types]
EntryItem == [id : EntryIds, refs : SUBSET SequenceIds]
Request ==
  [kind : {"instance"}, project : Projects, items : Seq(InstanceItem)]
    \cup [kind : Kinds, project : Projects, items : Seq(EntryItem)]
Point == [project : Projects, id : SequenceIds \cup {NoSequence},
          key : Keys \cup {NoKey}, type : Types]

ASSUME RegistryAssumption ==
  /\ NumericTypes \subseteq Types
  /\ Requests \subseteq Request /\ Points \subseteq Point
  /\ NoSequence \notin SequenceIds /\ NoKey \notin Keys
  /\ NoConfig \notin Instance

VARIABLES
  config,   (* what readers see: instance_configs_, external_sequence_index_,
               constraints_, derived_series_ and relations_                *)
  draft,    (* the copy that the upsert in progress has made               *)
  writer,   (* that upsert, which holds the exclusive lock                 *)
  caller    (* what every resolving thread is doing                        *)

vars == <<config, draft, writer, caller>>

NoRequest == [kind |-> "none"]
Free == [request |-> NoRequest, next |-> 0]
Idle == [pc |-> "idle", point |-> NoConfig, sequence |-> NoSequence,
         type |-> NoConfig, agreed |-> FALSE]

(* Nothing is registered, and no entry refers to anything.                 *)
Empty ==
  [instances |-> [p \in Projects |-> [s \in SequenceIds |-> NoConfig]],
   external |-> [p \in Projects |-> [k \in Keys |-> NoSequence]],
   entries |-> [k \in Kinds |-> [p \in Projects |-> [e \in EntryIds |-> {}]]]]

Init ==
  /\ config = Empty /\ draft = Empty
  /\ writer = Free
  /\ caller = [c \in Callers |-> Idle]

Registered(cfg, p) == {s \in SequenceIds : cfg.instances[p][s] # NoConfig}
Numeric(cfg, p) ==
  {s \in Registered(cfg, p) : cfg.instances[p][s].type \in NumericTypes}
-----------------------------------------------------------------------------
(***************************************************************************)
(* upsertInstanceConfigs, upsertConstraints, upsertRelations and           *)
(* upsertDerivedSeriesConfigs.                                             *)
(***************************************************************************)
Begin ==
  /\ writer = Free
  /\ \E r \in Requests : writer' = [request |-> r, next |-> 1]
  /\ draft' = config
  /\ UNCHANGED <<config, caller>>

Items == writer.request.items
Item == Items[writer.next]
OnItem == writer # Free /\ writer.next <= Len(Items)

(* An id occurs once in a request (seen_sequence_ids, seen_ids, ...).      *)
Seen == \E i \in 1 .. writer.next - 1 : Items[i].id = Item.id

(* Mutant of KeyMoved: the old key keeps leading to the instance.          *)
KeyKept(s) == draft.external[writer.request.project]

(* The external index without the key that the instance has had so far.    *)
KeyMoved(s) ==
  LET p == writer.request.project
      old == draft.instances[p][s]
  IN [k \in Keys |-> IF old # NoConfig /\ k = old.key /\ draft.external[p][k] = s
                     THEN NoSequence ELSE draft.external[p][k]]

(* Mutant of InstanceAllowed: an id may occur twice.                       *)
InstanceAllowedTwice ==
  /\ Item.key # NoKey
  /\ KeyMoved(Item.id)[Item.key] \in {NoSequence, Item.id}

InstanceAllowed ==
  /\ Item.key # NoKey /\ ~Seen
  /\ KeyMoved(Item.id)[Item.key] \in {NoSequence, Item.id}

(* Mutant of PutInstance: the request is taken for the whole snapshot.     *)
PutInstanceAlone ==
  LET p == writer.request.project
      new == [key |-> Item.key, type |-> Item.type]
  IN draft' = [draft EXCEPT
       !.instances[p] = [s \in SequenceIds |-> IF s = Item.id THEN new ELSE NoConfig],
       !.external[p] = [k \in Keys |-> IF k = Item.key THEN Item.id ELSE NoSequence]]

PutInstance ==
  LET p == writer.request.project
  IN draft' = [draft EXCEPT
       !.instances[p][Item.id] = [key |-> Item.key, type |-> Item.type],
       !.external[p] = [KeyMoved(Item.id) EXCEPT ![Item.key] = Item.id]]

(* Mutant of EntryAllowed: sequences are looked up in every project.       *)
EntryAllowedAnywhere ==
  /\ Item.refs # {} /\ ~Seen
  /\ Item.refs \subseteq UNION {Registered(draft, p) : p \in Projects}

(* validateConstraintRule and the lookup of its sequences,                 *)
(* validateDerivedConfig; the sequences of a relation are not looked up.   *)
EntryAllowed ==
  LET kind == writer.request.kind
      p == writer.request.project
  IN /\ Item.refs # {} /\ ~Seen
     /\ kind = "constraint" => Item.refs \subseteq Registered(draft, p)
     /\ kind = "derived" => /\ Item.refs \subseteq Numeric(draft, p)
                            /\ Item.id \notin Registered(draft, p)

PutEntry ==
  draft' = [draft EXCEPT
    !.entries[writer.request.kind][writer.request.project][Item.id] = Item.refs]

Allowed == IF writer.request.kind = "instance" THEN InstanceAllowed
                                               ELSE EntryAllowed

TakeItem ==
  /\ OnItem /\ Allowed
  /\ IF writer.request.kind = "instance" THEN PutInstance ELSE PutEntry
  /\ writer' = [writer EXCEPT !.next = @ + 1]
  /\ UNCHANGED <<config, caller>>

(* invalidArgument: the copy is dropped.                                   *)
RefuseItem ==
  /\ OnItem /\ ~Allowed
  /\ writer' = Free
  /\ draft' = config
  /\ UNCHANGED <<config, caller>>
-----------------------------------------------------------------------------
(***************************************************************************)
(* IngestService::ingestAndResolveData, point by point.                    *)
(***************************************************************************)
Accepts(cfg, point) ==
  LET known == cfg.instances[point.project]
      mapped == IF point.key = NoKey THEN NoSequence
                                     ELSE cfg.external[point.project][point.key]
      s == IF point.id # NoSequence THEN point.id ELSE mapped
  IN /\ s # NoSequence
     /\ point.key = NoKey \/ mapped = s
     /\ known[s] # NoConfig /\ known[s].type = point.type

(* The copy becomes the configuration.  Callers in the middle of a point   *)
(* remember if a configuration since its arrival would have accepted it    *)
(* (agreed, history).                                                      *)
Publish ==
  /\ writer # Free /\ ~OnItem
  /\ config' = draft
  /\ writer' = Free
  /\ caller' = [c \in Callers |->
       IF caller[c].pc = "idle" THEN caller[c]
       ELSE [caller[c] EXCEPT !.agreed = @ \/ Accepts(draft, caller[c].point)]]
  /\ UNCHANGED draft

(* The shared lock is free while nobody writes.                            *)
Reading == writer = Free /\ UNCHANGED <<config, draft, writer>>
Moves(c, state) == caller' = [caller EXCEPT ![c] = state]
Refused(c) == Moves(c, Idle)

Receive(c) ==
  /\ caller[c].pc = "idle"
  /\ \E point \in Points :
       /\ point.id # NoSequence \/ point.key # NoKey
       /\ Moves(c, [pc |-> IF point.id # NoSequence THEN "finding" ELSE "resolving",
                    point |-> point, sequence |-> point.id, type |-> NoConfig,
                    agreed |-> Accepts(config, point)])
  /\ UNCHANGED <<config, draft, writer>>

(* Mutant of Resolve: the result of the lookup is not tested.              *)
ResolveUntested(c) ==
  /\ caller[c].pc = "resolving"
  /\ Moves(c, [caller[c] EXCEPT !.pc = "finding",
       !.sequence = config.external[caller[c].point.project][caller[c].point.key]])
  /\ Reading

(* resolveSequenceId for a point without an id.                            *)
Resolve(c) ==
  /\ caller[c].pc = "resolving"
  /\ LET point == caller[c].point
         s == config.external[point.project][point.key]
     IN IF s = NoSequence
        THEN Refused(c)
        ELSE Moves(c, [caller[c] EXCEPT !.pc = "finding", !.sequence = s])
  /\ Reading

(* findInstance; external identifiers that come with an id are compared    *)
(* in a lookup of their own.                                               *)
Find(c) ==
  /\ caller[c].pc = "finding"
  /\ LET point == caller[c].point
         found == config.instances[point.project][caller[c].sequence]
         both == point.id # NoSequence /\ point.key # NoKey
     IN IF found = NoConfig \/ (~both /\ found.type # point.type)
        THEN Refused(c)
        ELSE Moves(c, [caller[c] EXCEPT !.pc = IF both THEN "matching" ELSE "accepted",
                                        !.type = found.type])
  /\ Reading

Match(c) ==
  /\ caller[c].pc = "matching"
  /\ LET point == caller[c].point
     IN IF config.external[point.project][point.key] # point.id
           \/ caller[c].type # point.type
        THEN Refused(c)
        ELSE Moves(c, [caller[c] EXCEPT !.pc = "accepted"])
  /\ Reading

(* The point is appended to resolved_data; the next one follows.           *)
Deliver(c) ==
  /\ caller[c].pc = "accepted"
  /\ Refused(c)
  /\ UNCHANGED <<config, draft, writer>>

Next ==
  \/ Begin \/ TakeItem \/ RefuseItem \/ Publish
  \/ \E c \in Callers :
       Receive(c) \/ Resolve(c) \/ Find(c) \/ Match(c) \/ Deliver(c)

Spec == Init /\ [][Next]_vars
-----------------------------------------------------------------------------
Configs ==
  [instances : [Projects -> [SequenceIds -> Instance \cup {NoConfig}]],
   external : [Projects -> [Keys -> SequenceIds \cup {NoSequence}]],
   entries : [Kinds -> [Projects -> [EntryIds -> SUBSET SequenceIds]]]]

CallerStates ==
  [pc : {"idle", "resolving", "finding", "matching", "accepted"},
   point : Points \cup {NoConfig}, sequence : SequenceIds \cup {NoSequence},
   type : Types \cup {NoConfig}, agreed : BOOLEAN]

CallerOK(state) ==
  /\ state.pc # "idle" => state.point \in Points
  /\ state.pc = "resolving" => state.point.key \in Keys
  /\ state.pc = "matching" => state.point.key \in Keys /\ state.type \in Types
  /\ state.pc \in {"finding", "matching", "accepted"} => state.sequence \in SequenceIds

TypeOK ==
  /\ config \in Configs /\ draft \in Configs
  /\ \/ writer = Free
     \/ /\ writer \in [request : Requests, next : Nat \ {0}]
        /\ writer.next <= Len(Items) + 1
  /\ caller \in [Callers -> CallerStates]
  /\ \A c \in Callers : CallerOK(caller[c])

(* The two indexes of a configuration agree: a key leads to the instance   *)
(* that has it, and every instance is found by its key.                    *)
Inverse(cfg) ==
  \A p \in Projects, k \in Keys, s \in SequenceIds :
    cfg.external[p][k] = s
      <=> cfg.instances[p][s] # NoConfig /\ cfg.instances[p][s].key = k

(* external_sequence_index_ and instance_configs_ agree whenever a reader  *)
(* can look, although they are changed item by item, keys move from one    *)
(* instance to another, and a request may be refused in its middle.        *)
IndexExact == Inverse(config)

(* Constraints and derived series refer to registered sequences of their   *)
(* own project, also after the later upserts of others.                    *)
Known(cfg) ==
  \A k \in {"constraint", "derived"}, p \in Projects, e \in EntryIds :
    cfg.entries[k][p][e] \subseteq Registered(cfg, p)
ReferencesKnown == Known(config)

(* What a caller has resolved in its first lookup is there in its second:  *)
(* no upsert in between takes a registration away.                         *)
ResolvedRegistered ==
  \A c \in Callers :
    /\ caller[c].pc \in {"finding", "matching", "accepted"}
    /\ caller[c].point.id = NoSequence \/ caller[c].pc # "finding"
    => caller[c].sequence \in Registered(config, caller[c].point.project)

(* Item i of a request is in a configuration.                              *)
Stored(cfg, request, i) ==
  LET item == request.items[i]
      p == request.project
  IN IF request.kind = "instance"
     THEN /\ cfg.instances[p][item.id] = [key |-> item.key, type |-> item.type]
          /\ cfg.external[p][item.key] = item.id
     ELSE cfg.entries[request.kind][p][item.id] = item.refs

(* An upsert that is published has stored every one of its items: no later *)
(* item takes an earlier one's key or place.                               *)
PublishedWhole ==
  [][Publish => \A i \in 1 .. Len(Items) : Stored(config', writer.request, i)]_vars

(* A derived series never has the id of an instance.                       *)
IdsApart ==
  \A p \in Projects, e \in EntryIds \cap SequenceIds :
    config.entries["derived"][p][e] # {} => e \notin Registered(config, p)

(* An accepted point would have been accepted by one of the configurations *)
(* that were in force since it arrived.                                    *)
AcceptedByOne ==
  \A c \in Callers : caller[c].pc = "accepted" => caller[c].agreed
=============================================================================
