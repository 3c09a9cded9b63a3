------------------------- MODULE ConfigRegistryProofs -------------------------
(***************************************************************************)
(* Proofs about ConfigRegistry for any projects, sequences, keys, requests *)
(* and callers: its type invariant, that the two indexes agree, that       *)
(* references lead to registered sequences, that a resolved sequence stays *)
(* registered, and that a request which is not refused is stored whole.    *)
(***************************************************************************)
EXTENDS ConfigRegistry, TLAPS

(* A request that is being stored is one that a client sent: it names a    *)
(* project, and its next item is of its kind.                              *)
LEMMA ItemType ==
  ASSUME TypeOK, OnItem
  PROVE  /\ writer.request \in Requests
         /\ writer.request.project \in Projects
         /\ writer.request.kind = "instance" => Item \in InstanceItem
         /\ writer.request.kind # "instance" =>
              writer.request.kind \in Kinds /\ Item \in EntryItem
<1>1. writer \in [request : Requests, next : Nat \ {0}]
  BY DEF TypeOK, OnItem
<1>2. writer.request \in Request
  BY <1>1, RegistryAssumption
<1>3. writer.next \in 1 .. Len(Items)
  BY <1>1, <1>2 DEF OnItem, Items, Request
<1>4. CASE writer.request.kind = "instance"
  <2>1. Items \in Seq(InstanceItem)
    BY <1>2, <1>4 DEF Request, Kinds, Items
  <2> QED BY <1>1, <1>2, <1>3, <1>4, <2>1 DEF Item, Request
<1>5. CASE writer.request.kind # "instance"
  <2>1. Items \in Seq(EntryItem) /\ writer.request.kind \in Kinds
    BY <1>2, <1>5 DEF Request, Items
  <2> QED BY <1>1, <1>2, <1>3, <1>5, <2>1 DEF Item, Request
<1> QED BY <1>4, <1>5

(* KeyMoved yields an external index.                                      *)
LEMMA KeyMovedType ==
  ASSUME draft \in Configs, writer.request.project \in Projects,
         NEW s \in SequenceIds
  PROVE  KeyMoved(s) \in [Keys -> SequenceIds \cup {NoSequence}]
BY DEF KeyMoved, Configs

(* What PutInstance makes of a configuration.                              *)
LEMMA PutInstanceEffect ==
  ASSUME draft \in Configs, writer.request.project \in Projects,
         Item \in InstanceItem, InstanceAllowed, PutInstance
  PROVE  /\ draft' \in Configs
         /\ draft'.entries = draft.entries
         /\ \A p \in Projects :
              p # writer.request.project =>
                /\ draft'.instances[p] = draft.instances[p]
                /\ draft'.external[p] = draft.external[p]
         /\ draft'.instances[writer.request.project] =
              [draft.instances[writer.request.project] EXCEPT
                 ![Item.id] = [key |-> Item.key, type |-> Item.type]]
         /\ draft'.external[writer.request.project] =
              [KeyMoved(Item.id) EXCEPT ![Item.key] = Item.id]
<1> DEFINE p0 == writer.request.project
           new == [key |-> Item.key, type |-> Item.type]
           ext == [KeyMoved(Item.id) EXCEPT ![Item.key] = Item.id]
           ins == [draft.instances[p0] EXCEPT ![Item.id] = new]
<1>1. Item.id \in SequenceIds /\ Item.key \in Keys /\ Item.type \in Types
  BY DEF InstanceItem, InstanceAllowed
<1>2. ext \in [Keys -> SequenceIds \cup {NoSequence}]
  BY <1>1, KeyMovedType
<1>3. new \in Instance
  BY <1>1 DEF Instance
<1>4. ins \in [SequenceIds -> Instance \cup {NoConfig}]
  BY <1>1, <1>3 DEF Configs
<1>5. draft' = [draft EXCEPT !.instances[p0] = ins, !.external[p0] = ext]
  BY DEF PutInstance
<1> HIDE DEF ext, ins
<1>6. /\ draft'.instances = [draft.instances EXCEPT ![p0] = ins]
      /\ draft'.external = [draft.external EXCEPT ![p0] = ext]
      /\ draft'.entries = draft.entries
      /\ draft' \in Configs
  BY <1>2, <1>4, <1>5 DEF Configs
<1>7. /\ draft'.instances[p0] = ins /\ draft'.external[p0] = ext
      /\ \A p \in Projects : p # p0 =>
           /\ draft'.instances[p] = draft.instances[p]
           /\ draft'.external[p] = draft.external[p]
  BY <1>6 DEF Configs
<1> QED BY <1>6, <1>7 DEF ins, ext

(* What PutEntry makes of a configuration.                                 *)
LEMMA PutEntryEffect ==
  ASSUME draft \in Configs, writer.request.project \in Projects,
         writer.request.kind \in Kinds, Item \in EntryItem, PutEntry
  PROVE  /\ draft' \in Configs
         /\ draft'.instances = draft.instances /\ draft'.external = draft.external
         /\ \A k \in Kinds, p \in Projects, e \in EntryIds :
              draft'.entries[k][p][e] =
                IF k = writer.request.kind /\ p = writer.request.project /\ e = Item.id
                THEN Item.refs ELSE draft.entries[k][p][e]
<1> DEFINE p0 == writer.request.project
           k0 == writer.request.kind
           row == [draft.entries[k0][p0] EXCEPT ![Item.id] = Item.refs]
           table == [draft.entries[k0] EXCEPT ![p0] = row]
<1>1. Item.id \in EntryIds /\ Item.refs \in SUBSET SequenceIds
  BY DEF EntryItem
<1>2. row \in [EntryIds -> SUBSET SequenceIds]
  BY <1>1 DEF Configs
<1>3. table \in [Projects -> [EntryIds -> SUBSET SequenceIds]]
  BY <1>2 DEF Configs
<1>4. draft' = [draft EXCEPT !.entries[k0] = table]
  BY DEF PutEntry
<1> HIDE DEF table
<1>5. /\ draft'.entries = [draft.entries EXCEPT ![k0] = table]
      /\ draft'.instances = draft.instances /\ draft'.external = draft.external
      /\ draft' \in Configs
  <2>1. draft' = [instances |-> draft.instances, external |-> draft.external,
                  entries |-> [draft.entries EXCEPT ![k0] = table]]
    BY <1>4 DEF Configs
  <2>2. [draft.entries EXCEPT ![k0] = table]
          \in [Kinds -> [Projects -> [EntryIds -> SUBSET SequenceIds]]]
    BY <1>3 DEF Configs
  <2> QED BY <2>1, <2>2 DEF Configs
<1>6. ASSUME NEW k \in Kinds, NEW p \in Projects, NEW e \in EntryIds
      PROVE draft'.entries[k][p][e] = IF k = k0 /\ p = p0 /\ e = Item.id
                                      THEN Item.refs ELSE draft.entries[k][p][e]
  BY <1>1, <1>5 DEF Configs, table
<1> QED BY <1>5, <1>6
-----------------------------------------------------------------------------
(* An item that is taken or refused leaves a copy that is well typed.      *)
LEMMA TakeItemType ==
  ASSUME TypeOK, TakeItem
  PROVE  TypeOK'
<1>1. OnItem /\ Allowed /\ UNCHANGED <<config, caller>>
  BY DEF TakeItem
<1>2. draft' \in Configs
  <2>1. CASE writer.request.kind = "instance"
    BY <1>1, <2>1, ItemType, PutInstanceEffect DEF TypeOK, TakeItem, Allowed
  <2>2. CASE writer.request.kind # "instance"
    BY <1>1, <2>2, ItemType, PutEntryEffect DEF TypeOK, TakeItem
  <2> QED BY <2>1, <2>2
<1>3. /\ writer' \in [request : Requests, next : Nat \ {0}]
      /\ writer'.request = writer.request
      /\ writer'.next <= Len(Items) + 1
  <2>1. writer \in [request : Requests, next : Nat \ {0}] /\ writer.next <= Len(Items)
    BY <1>1 DEF TypeOK, OnItem
  <2>2. Len(Items) \in Nat
    <3>1. writer.request \in Request
      BY <2>1, RegistryAssumption
    <3> QED BY <3>1 DEF Request, Items
  <2>3. writer' = [request |-> writer.request, next |-> writer.next + 1]
    BY <2>1 DEF TakeItem
  <2> QED BY <2>1, <2>2, <2>3
<1> QED BY <1>1, <1>2, <1>3 DEF TypeOK, Items

(* Accepts is true or false.                                               *)
LEMMA AcceptsType ==
  ASSUME NEW cfg, NEW point
  PROVE  Accepts(cfg, point) \in BOOLEAN
BY DEF Accepts

(* A caller that moves to a well-typed state leaves the rest as it was.    *)
LEMMA MovesType ==
  ASSUME TypeOK, NEW c \in Callers, NEW state \in CallerStates, CallerOK(state),
         Moves(c, state), UNCHANGED <<config, draft, writer>>
  PROVE  TypeOK'
<1>1. caller' \in [Callers -> CallerStates]
  BY DEF TypeOK, Moves
<1>2. ASSUME NEW d \in Callers
      PROVE  CallerOK(caller'[d])
  <2>1. caller'[d] = IF d = c THEN state ELSE caller[d]
    BY DEF TypeOK, Moves
  <2> QED BY <2>1 DEF TypeOK
<1> QED BY <1>1, <1>2 DEF TypeOK, Items

(* The lookups and the end of a point each move their caller to a          *)
(* well-typed state.                                                       *)
LEMMA ReaderMoves ==
  ASSUME TypeOK, NEW c \in Callers,
         Resolve(c) \/ Find(c) \/ Match(c) \/ Deliver(c)
  PROVE  \E state \in CallerStates :
           CallerOK(state) /\ Moves(c, state) /\ UNCHANGED <<config, draft, writer>>
<1> DEFINE p == caller[c].point.project
<1>1. caller[c] \in CallerStates /\ CallerOK(caller[c])
  BY DEF TypeOK
<1>2. Idle \in CallerStates /\ CallerOK(Idle)
  BY DEF Idle, CallerStates, CallerOK
<1>3. caller[c].pc # "idle" => caller[c].point \in Points /\ p \in Projects
  BY <1>1, RegistryAssumption DEF CallerOK, Point
<1>4. CASE Refused(c) /\ UNCHANGED <<config, draft, writer>>
  BY <1>2, <1>4 DEF Refused
<1>5. CASE Resolve(c) /\ ~Refused(c)
  <2> DEFINE s == config.external[p][caller[c].point.key]
             state == [caller[c] EXCEPT !.pc = "finding", !.sequence = s]
  <2>1. s \in SequenceIds
    <3>1. caller[c].pc = "resolving" /\ s # NoSequence
      BY <1>5 DEF Resolve
    <3>2. caller[c].point.key \in Keys /\ p \in Projects
      BY <1>1, <1>3, <3>1 DEF CallerOK
    <3> QED BY <3>1, <3>2 DEF TypeOK, Configs
  <2>2. state \in CallerStates /\ CallerOK(state)
    <3> HIDE DEF s
    <3> QED BY <1>1, <1>3, <1>5, <2>1 DEF CallerStates, CallerOK, Resolve
  <2> QED BY <1>5, <2>2 DEF Resolve, Reading
<1>6. CASE Find(c) /\ ~Refused(c)
  <2> DEFINE found == config.instances[p][caller[c].sequence]
             both == caller[c].point.id # NoSequence /\ caller[c].point.key # NoKey
             state == [caller[c] EXCEPT !.pc = IF both THEN "matching" ELSE "accepted",
                                        !.type = found.type]
  <2>1. found.type \in Types
    <3>1. caller[c].pc = "finding" /\ found # NoConfig
      BY <1>6 DEF Find
    <3>2. caller[c].sequence \in SequenceIds /\ p \in Projects
      BY <1>1, <1>3, <3>1 DEF CallerOK
    <3> QED BY <3>1, <3>2 DEF TypeOK, Configs, Instance
  <2>2. both => caller[c].point.key \in Keys
    BY <1>3, <1>6, RegistryAssumption DEF Find, Point
  <2>3. state \in CallerStates /\ CallerOK(state)
    <3> HIDE DEF found
    <3> QED BY <1>1, <1>3, <1>6, <2>1, <2>2 DEF CallerStates, CallerOK, Find
  <2>4. Moves(c, state) /\ UNCHANGED <<config, draft, writer>>
    BY <1>6 DEF Find, Reading
  <2> HIDE DEF state
  <2> QED BY <2>3, <2>4
<1>7. CASE Match(c) /\ ~Refused(c)
  <2> DEFINE state == [caller[c] EXCEPT !.pc = "accepted"]
  <2>1. state \in CallerStates /\ CallerOK(state)
    BY <1>1, <1>7 DEF CallerStates, CallerOK, Match
  <2> QED BY <1>7, <2>1 DEF Match, Reading
<1> QED BY <1>4, <1>5, <1>6, <1>7 DEF Resolve, Find, Match, Deliver, Reading

(* RuntimeConfigRegistry and the resolution of points keep to their types. *)
LEMMA TypeStep ==
  ASSUME TypeOK, [Next]_vars
  PROVE  TypeOK'
<1>1. CASE Begin
  <2>1. PICK r \in Requests : writer' = [request |-> r, next |-> 1]
    BY <1>1 DEF Begin
  <2>2. Len(r.items) \in Nat
    BY RegistryAssumption DEF Request
  <2> QED BY <1>1, <2>1, <2>2 DEF Begin, TypeOK, Items
<1>2. CASE TakeItem
  BY <1>2, TakeItemType
<1>3. CASE RefuseItem
  BY <1>3 DEF RefuseItem, TypeOK
<1>4. CASE Publish
  <2>1. ASSUME NEW c \in Callers
        PROVE  caller'[c] \in CallerStates /\ CallerOK(caller'[c])
    <3>1. caller[c] \in CallerStates /\ CallerOK(caller[c])
      BY DEF TypeOK
    <3>2. CASE caller[c].pc = "idle"
      BY <1>4, <3>1, <3>2 DEF Publish
    <3>3. CASE caller[c].pc # "idle"
      <4> DEFINE b == caller[c].agreed \/ Accepts(draft, caller[c].point)
      <4>1. b \in BOOLEAN
        BY AcceptsType, <3>1 DEF CallerStates
      <4>2. caller'[c] = [caller[c] EXCEPT !.agreed = b]
        BY <1>4, <3>3 DEF Publish
      <4> HIDE DEF b
      <4> QED BY <3>1, <4>1, <4>2 DEF CallerStates, CallerOK
    <3> QED BY <3>2, <3>3
  <2>2. caller' \in [Callers -> CallerStates]
    <3>1. caller' = [c \in Callers |-> caller'[c]]
      BY <1>4 DEF Publish
    <3> QED BY <2>1, <3>1
  <2> QED BY <1>4, <2>1, <2>2 DEF Publish, TypeOK
<1>5. ASSUME NEW c \in Callers, Receive(c)
      PROVE TypeOK'
  <2>1. PICK point \in Points :
          /\ point.id # NoSequence \/ point.key # NoKey
          /\ Moves(c, [pc |-> IF point.id # NoSequence THEN "finding" ELSE "resolving",
                       point |-> point, sequence |-> point.id, type |-> NoConfig,
                       agreed |-> Accepts(config, point)])
    BY <1>5 DEF Receive
  <2> DEFINE b == Accepts(config, point)
             state == [pc |-> IF point.id # NoSequence THEN "finding" ELSE "resolving",
                       point |-> point, sequence |-> point.id,
                       type |-> NoConfig, agreed |-> b]
  <2>2. b \in BOOLEAN
    BY AcceptsType
  <2>3. point \in Point
    BY RegistryAssumption
  <2>4. state \in CallerStates /\ CallerOK(state)
    <3> HIDE DEF b
    <3> QED BY <2>1, <2>2, <2>3 DEF CallerStates, CallerOK, Point
  <2>5. Moves(c, state) /\ UNCHANGED <<config, draft, writer>>
    BY <1>5, <2>1 DEF Receive
  <2> HIDE DEF state
  <2> QED BY <2>4, <2>5, MovesType
<1>6. ASSUME NEW c \in Callers, Resolve(c) \/ Find(c) \/ Match(c) \/ Deliver(c)
      PROVE TypeOK'
  <2>1. PICK state : /\ state \in CallerStates /\ CallerOK(state)
                     /\ Moves(c, state) /\ UNCHANGED <<config, draft, writer>>
    BY <1>6, ReaderMoves
  <2> QED BY <2>1, MovesType
<1>7. CASE UNCHANGED vars
  BY <1>7 DEF vars, TypeOK, Items
<1> QED BY <1>1, <1>2, <1>3, <1>4, <1>5, <1>6, <1>7 DEF Next

(* The registry and the callers of IngestService are well typed.           *)
THEOREM RegistryTypeCorrect == Spec => []TypeOK
<1>1. Init => TypeOK
  BY DEF Init, Empty, TypeOK, Configs, CallerStates, CallerOK, Idle
<1>2. TypeOK /\ [Next]_vars => TypeOK'
  BY TypeStep
<1> QED BY <1>1, <1>2, PTL DEF Spec
-----------------------------------------------------------------------------
(***************************************************************************)
(* The inductive invariant: what readers rely on holds of the copy as      *)
(* well, between any two items, and the copy registers what the published  *)
(* configuration registers.                                                *)
(***************************************************************************)
Kept ==
  \A p \in Projects : Registered(config, p) \subseteq Registered(draft, p)

RegistryInv ==
  /\ Inverse(config) /\ Inverse(draft)
  /\ Known(config) /\ Known(draft)
  /\ Kept
  /\ ResolvedRegistered

(* Taking an item keeps the indexes of the copy inverse to each other: the *)
(* key that the instance gives up is freed, the one it gets was free.      *)
LEMMA PutKeepsInverse ==
  ASSUME draft \in Configs, Inverse(draft), writer.request.project \in Projects,
         Item \in InstanceItem, InstanceAllowed, PutInstance
  PROVE  Inverse(draft')
<1> DEFINE p0 == writer.request.project
           s0 == Item.id
           old == draft.instances[p0][s0]
           moved == KeyMoved(s0)
<1>1. s0 \in SequenceIds /\ Item.key \in Keys /\ Item.type \in Types
  BY DEF InstanceItem, InstanceAllowed
<1>2. moved[Item.key] \in {NoSequence, s0}
  BY DEF InstanceAllowed
<1>3. ASSUME NEW p \in Projects, NEW k \in Keys, NEW s \in SequenceIds
      PROVE draft'.external[p][k] = s
              <=> draft'.instances[p][s] # NoConfig /\ draft'.instances[p][s].key = k
  <2>0. draft.external[p][k] = s
          <=> draft.instances[p][s] # NoConfig /\ draft.instances[p][s].key = k
    BY DEF Inverse
  <2>1. CASE p # p0
    BY <2>0, <2>1, PutInstanceEffect
  <2>2. CASE p = p0
    <3>1. /\ draft'.instances[p][s] = IF s = s0 THEN [key |-> Item.key, type |-> Item.type]
                                                ELSE draft.instances[p0][s]
          /\ draft'.external[p][k] = IF k = Item.key THEN s0 ELSE moved[k]
      <4>1. moved \in [Keys -> SequenceIds \cup {NoSequence}]
        BY <1>1, KeyMovedType
      <4> HIDE DEF moved
      <4> QED BY <1>1, <2>2, <4>1, PutInstanceEffect DEF Configs, moved
    <3>2. moved[k] = IF old # NoConfig /\ k = old.key /\ draft.external[p0][k] = s0
                     THEN NoSequence ELSE draft.external[p0][k]
      BY DEF KeyMoved
    <3>3. [key |-> Item.key, type |-> Item.type] # NoConfig
      BY <1>1, RegistryAssumption DEF Instance
    <3>4. NoSequence # s /\ NoSequence # s0
      BY <1>1, RegistryAssumption
    <3>5. /\ moved[Item.key] = IF old # NoConfig /\ Item.key = old.key
                                  /\ draft.external[p0][Item.key] = s0
                               THEN NoSequence ELSE draft.external[p0][Item.key]
          /\ draft.external[p0][Item.key] = s
               <=> draft.instances[p0][s] # NoConfig
                   /\ draft.instances[p0][s].key = Item.key
          /\ draft.external[p0][k] = s0
               <=> old # NoConfig /\ old.key = k
      BY <1>1, SMTT(20) DEF KeyMoved, Inverse
    <3> HIDE DEF moved, old
    <3>6. CASE s = s0
      BY <2>0, <2>2, <3>1, <3>2, <3>3, <3>4, <3>5, <3>6, SMTT(20) DEF old
    <3>7. CASE s # s0
      BY <1>2, <2>0, <2>2, <3>1, <3>2, <3>3, <3>4, <3>5, <3>7
    <3> QED BY <3>6, <3>7
  <2> QED BY <2>1, <2>2
<1> QED BY <1>3 DEF Inverse

(* Taking an instance registers its sequence and nothing less.             *)
LEMMA PutRegisters ==
  ASSUME draft \in Configs, writer.request.project \in Projects,
         Item \in InstanceItem, InstanceAllowed, PutInstance
  PROVE  \A p \in Projects : Registered(draft, p) \subseteq Registered(draft', p)
<1>1. [key |-> Item.key, type |-> Item.type] # NoConfig
  BY RegistryAssumption DEF InstanceItem, InstanceAllowed, Instance
<1>2. ASSUME NEW p \in Projects, NEW s \in SequenceIds,
             draft.instances[p][s] # NoConfig
      PROVE draft'.instances[p][s] # NoConfig
  <2>1. CASE p # writer.request.project
    BY <1>2, <2>1, PutInstanceEffect
  <2>2. CASE p = writer.request.project
    <3>1. draft'.instances[p] = [draft.instances[p] EXCEPT
             ![Item.id] = [key |-> Item.key, type |-> Item.type]]
      BY <2>2, PutInstanceEffect
    <3> QED BY <1>1, <1>2, <3>1 DEF Configs
  <2> QED BY <2>1, <2>2
<1> QED BY <1>2 DEF Registered

(* A step of the upsert that holds the lock keeps the invariant.           *)
LEMMA TakeItemKeepsInv ==
  ASSUME TypeOK, RegistryInv, TakeItem
  PROVE  RegistryInv'
<1>1. OnItem /\ Allowed /\ UNCHANGED <<config, caller>> /\ draft \in Configs
  BY DEF TakeItem, TypeOK
<1>2. Inverse(draft') /\ Known(draft')
      /\ \A p \in Projects : Registered(draft, p) \subseteq Registered(draft', p)
  <2>1. CASE writer.request.kind = "instance"
    <3>1. /\ writer.request.project \in Projects /\ Item \in InstanceItem
          /\ InstanceAllowed /\ PutInstance
      BY <1>1, <2>1, ItemType DEF TakeItem, Allowed
    <3>2. Inverse(draft')
      BY <1>1, <3>1, PutKeepsInverse DEF RegistryInv
    <3>3. \A p \in Projects : Registered(draft, p) \subseteq Registered(draft', p)
      BY <1>1, <3>1, PutRegisters
    <3>4. draft'.entries = draft.entries
      BY <1>1, <3>1, PutInstanceEffect
    <3> QED BY <3>2, <3>3, <3>4 DEF Known, RegistryInv
  <2>2. CASE writer.request.kind # "instance"
    <3>1. /\ writer.request.project \in Projects /\ writer.request.kind \in Kinds
          /\ Item \in EntryItem /\ EntryAllowed /\ PutEntry
      BY <1>1, <2>2, ItemType DEF TakeItem, Allowed
    <3>2. /\ draft'.instances = draft.instances /\ draft'.external = draft.external
          /\ \A k \in Kinds, p \in Projects, e \in EntryIds :
               draft'.entries[k][p][e] =
                 IF k = writer.request.kind /\ p = writer.request.project /\ e = Item.id
                 THEN Item.refs ELSE draft.entries[k][p][e]
      BY <1>1, <3>1, PutEntryEffect
    <3>3. Inverse(draft')
      BY <3>2 DEF Inverse, RegistryInv
    <3>4. \A p \in Projects : Registered(draft', p) = Registered(draft, p)
      BY <3>2 DEF Registered
    <3>5. writer.request.kind \in {"constraint", "derived"}
          => Item.refs \subseteq Registered(draft, writer.request.project)
      BY <3>1 DEF EntryAllowed, Numeric
    <3>6. Known(draft')
      BY <3>2, <3>4, <3>5 DEF Known, RegistryInv, Kinds
    <3> QED BY <3>3, <3>4, <3>6
  <2> QED BY <2>1, <2>2
<1>3. Inverse(config') /\ Known(config') /\ Kept'
  BY <1>1, <1>2 DEF RegistryInv, Inverse, Known, Kept, Registered
<1>4. ResolvedRegistered'
  BY <1>1 DEF RegistryInv, ResolvedRegistered, Registered
<1> QED BY <1>2, <1>3, <1>4 DEF RegistryInv, Inverse, Known

(* No step disturbs what readers rely on.                                  *)
LEMMA RegistryStep ==
  ASSUME TypeOK, RegistryInv, [Next]_vars
  PROVE  RegistryInv'
<1>1. CASE TakeItem
  BY <1>1, TakeItemKeepsInv
<1>2. CASE Begin \/ RefuseItem
  BY <1>2 DEF Begin, RefuseItem, RegistryInv, Inverse, Known, Kept,
              Registered, ResolvedRegistered
<1>3. CASE Publish
  <2>1. config' = draft /\ draft' = draft
    BY <1>3 DEF Publish
  <2>2. ASSUME NEW c \in Callers
        PROVE  /\ caller'[c].pc = caller[c].pc
               /\ caller'[c].point = caller[c].point
               /\ caller'[c].sequence = caller[c].sequence
    BY <1>3 DEF Publish, TypeOK, CallerStates
  <2>3. \A c \in Callers : caller[c].pc # "idle" => caller[c].point.project \in Projects
    BY RegistryAssumption DEF TypeOK, CallerOK, Point
  <2>4. ResolvedRegistered'
    BY <2>1, <2>2, <2>3 DEF RegistryInv, ResolvedRegistered, Kept, Registered
  <2> QED BY <2>1, <2>4 DEF RegistryInv, Inverse, Known, Kept, Registered
<1>4. ASSUME NEW c \in Callers,
             Receive(c) \/ Resolve(c) \/ Find(c) \/ Match(c) \/ Deliver(c)
      PROVE RegistryInv'
  <2>1. UNCHANGED <<config, draft>>
    BY <1>4 DEF Receive, Resolve, Find, Match, Deliver, Reading
  <2>2. ResolvedRegistered'
    <3> SUFFICES ASSUME NEW d \in Callers,
                   caller'[d].pc \in {"finding", "matching", "accepted"},
                   caller'[d].point.id = NoSequence \/ caller'[d].pc # "finding"
                 PROVE caller'[d].sequence \in Registered(config, caller'[d].point.project)
      BY <2>1 DEF ResolvedRegistered, Registered
    <3>1. CASE d # c
      <4>1. caller'[d] = caller[d]
        BY <1>4, <3>1 DEF Receive, Resolve, Find, Match, Deliver, Refused, Moves, TypeOK
      <4> QED BY <4>1 DEF RegistryInv, ResolvedRegistered
    <3>2. CASE d = c
      <4> DEFINE point == caller[c].point
      <4>0. caller \in [Callers -> CallerStates] /\ CallerOK(caller[c])
        BY DEF TypeOK
      <4>1. CASE Receive(c)
        BY <3>2, <4>0, <4>1 DEF Receive, Moves, Idle
      <4>2. CASE Resolve(c)
        <5>1. caller[c].pc = "resolving" /\ point \in Points /\ point.key \in Keys
          BY <4>0, <4>2 DEF Resolve, CallerOK
        <5>2. point.project \in Projects
          BY <5>1, RegistryAssumption DEF Point
        <5>3. caller'[c] # Idle
          BY <3>2 DEF Idle
        <5>4. /\ caller'[c].point = point
              /\ caller'[c].sequence = config.external[point.project][point.key]
              /\ caller'[c].sequence # NoSequence
          BY <4>0, <4>2, <5>3 DEF Resolve, Refused, Moves, CallerStates
        <5>5. caller'[c].sequence \in SequenceIds
          BY <5>1, <5>2, <5>4 DEF TypeOK, Configs
        <5>6. config.instances[point.project][caller'[c].sequence] # NoConfig
          <6>1. Inverse(config)
            BY DEF RegistryInv
          <6>2. ASSUME NEW p \in Projects, NEW k \in Keys, NEW s \in SequenceIds,
                       config.external[p][k] = s
                PROVE config.instances[p][s] # NoConfig
            BY <6>1, <6>2 DEF Inverse
          <6> QED BY <5>1, <5>2, <5>4, <5>5, <6>2
        <5> QED BY <3>2, <5>4, <5>5, <5>6 DEF Registered
      <4>3. CASE Find(c)
        <5> DEFINE found == config.instances[point.project][caller[c].sequence]
                   both == point.id # NoSequence /\ point.key # NoKey
                   pc == IF both THEN "matching" ELSE "accepted"
        <5>1. ~Refused(c)
          BY <3>2, <4>0 DEF Refused, Moves, Idle
        <5>2. found # NoConfig
              /\ Moves(c, [caller[c] EXCEPT !.pc = pc, !.type = found.type])
          BY <4>3, <5>1 DEF Find
        <5> HIDE DEF found, pc
        <5>5. caller' = [caller EXCEPT ![c] =
                          [caller[c] EXCEPT !.pc = pc, !.type = found.type]]
          BY <5>2 DEF Moves
        <5>4. /\ caller'[c].point = point
              /\ caller'[c].sequence = caller[c].sequence
          BY <4>0, <5>5 DEF CallerStates
        <5>3. caller[c].sequence \in SequenceIds
          BY <4>0, <4>3 DEF Find, CallerOK
        <5> QED BY <3>2, <5>2, <5>3, <5>4 DEF Registered, found
      <4>4. CASE Match(c)
        <5>1. caller'[c] # Idle
          BY <3>2 DEF Idle
        <5>2. /\ caller'[c].point = point
              /\ caller'[c].sequence = caller[c].sequence
          BY <4>0, <4>4, <5>1 DEF Match, Refused, Moves, CallerStates
        <5> QED BY <3>2, <4>4, <5>2 DEF Match, RegistryInv, ResolvedRegistered
      <4>5. CASE Deliver(c)
        BY <3>2, <4>0, <4>5 DEF Deliver, Refused, Moves, Idle
      <4> QED BY <1>4, <4>1, <4>2, <4>3, <4>4, <4>5
    <3> QED BY <3>1, <3>2
  <2> QED BY <2>1, <2>2 DEF RegistryInv, Inverse, Known, Kept, Registered
<1>5. CASE UNCHANGED vars
  BY <1>5 DEF vars, RegistryInv, Inverse, Known, Kept, Registered, ResolvedRegistered
<1> QED BY <1>1, <1>2, <1>3, <1>4, <1>5 DEF Next

(* The invariant holds of every reachable state.                           *)
LEMMA RegistryInvariant == Spec => [](TypeOK /\ RegistryInv)
<1>1. Init => TypeOK /\ RegistryInv
  <2>1. Init => TypeOK
    BY DEF Init, Empty, TypeOK, Configs, CallerStates, CallerOK, Idle
  <2>2. ASSUME Init
        PROVE  RegistryInv
    <3>1. config = Empty /\ draft = Empty /\ \A c \in Callers : caller[c].pc = "idle"
      BY <2>2 DEF Init, Idle
    <3>2. Inverse(Empty)
      BY RegistryAssumption DEF Inverse, Empty
    <3>3. Known(Empty)
      BY DEF Known, Empty, Kinds
    <3>4. Kept /\ ResolvedRegistered
      BY <3>1 DEF Kept, ResolvedRegistered
    <3> QED BY <3>1, <3>2, <3>3, <3>4 DEF RegistryInv
  <2> QED BY <2>1, <2>2
<1>2. TypeOK /\ RegistryInv /\ [Next]_vars => (TypeOK /\ RegistryInv)'
  BY TypeStep, RegistryStep
<1> QED BY <1>1, <1>2, PTL DEF Spec

(* A reader of the registry never sees the two indexes disagree.           *)
THEOREM RegistryIndexExact == Spec => []IndexExact
<1>1. RegistryInv => IndexExact
  BY DEF RegistryInv, IndexExact
<1> QED BY <1>1, RegistryInvariant, PTL

(* No constraint or derived series refers to a sequence that is not        *)
(* registered in its project.                                              *)
THEOREM RegistryReferencesKnown == Spec => []ReferencesKnown
<1>1. RegistryInv => ReferencesKnown
  BY DEF RegistryInv, ReferencesKnown
<1> QED BY <1>1, RegistryInvariant, PTL

(* findInstance never misses what resolveSequenceId has returned to the    *)
(* same caller.                                                            *)
THEOREM RegistryResolved == Spec => []ResolvedRegistered
<1>1. RegistryInv => ResolvedRegistered
  BY DEF RegistryInv
<1> QED BY <1>1, RegistryInvariant, PTL
-----------------------------------------------------------------------------
(***************************************************************************)
(* An upsert is published whole: the copy has every item that has been     *)
(* taken so far, because no later item takes the id or the key of an       *)
(* earlier one.                                                            *)
(***************************************************************************)
DraftWhole ==
  writer # Free =>
    \A i \in 1 .. writer.next - 1 :
      /\ Stored(draft, writer.request, i)
      /\ writer.request.kind = "instance" => writer.request.items[i].key \in Keys

(* The items of a request are of its kind.                                 *)
LEMMA ItemsType ==
  ASSUME TypeOK, writer # Free, NEW i \in 1 .. Len(Items)
  PROVE  /\ Items = writer.request.items
         /\ writer.request.kind = "instance" => Items[i] \in InstanceItem
         /\ writer.request.kind # "instance" => Items[i] \in EntryItem
<1>1. writer.request \in Request
  BY RegistryAssumption DEF TypeOK
<1> QED BY <1>1 DEF Request, Kinds, Items

LEMMA TakeItemKeepsWhole ==
  ASSUME TypeOK, DraftWhole, TakeItem
  PROVE  DraftWhole'
<1> DEFINE p0 == writer.request.project
           r == writer.request
           n == writer.next
<1>1. /\ OnItem /\ Allowed /\ writer # Free /\ draft \in Configs
      /\ writer' = [writer EXCEPT !.next = @ + 1]
  BY DEF TakeItem, TypeOK, OnItem
<1>2. writer \in [request : Requests, next : Nat \ {0}]
  BY <1>1 DEF TypeOK
<1>3. writer'.request = r /\ writer'.next = n + 1 /\ n \in Nat \ {0}
  BY <1>1, <1>2
<1>4. n <= Len(Items) /\ Len(Items) \in Nat
  <2>1. r \in Request
    BY <1>2, RegistryAssumption
  <2> QED BY <1>1, <2>1 DEF OnItem, Items, Request
<1>5. Item = r.items[n] /\ Items = r.items
  BY DEF Item, Items
<1>6. ASSUME NEW i \in 1 .. n - 1
      PROVE  r.items[i].id # Item.id
  BY <1>1, <1>5, <1>6 DEF Allowed, InstanceAllowed, EntryAllowed, Seen, Items
<1> SUFFICES ASSUME NEW i \in 1 .. n
             PROVE  /\ Stored(draft', r, i)
                    /\ r.kind = "instance" => r.items[i].key \in Keys
  <2>1. writer'.next - 1 = n
    BY <1>3
  <2> QED BY <1>3, <2>1 DEF DraftWhole
<1>7. i < n => i \in 1 .. n - 1
  BY <1>3
<1>8. i \in 1 .. Len(Items)
  BY <1>3, <1>4
<1>9. i < n \/ i = n
  BY <1>3
<1>10. CASE r.kind = "instance"
  <2>1. Item \in InstanceItem /\ p0 \in Projects /\ InstanceAllowed /\ PutInstance
    BY <1>1, <1>10, ItemType DEF Allowed, TakeItem
  <2>2. Item.id \in SequenceIds /\ Item.key \in Keys /\ Item.type \in Types
    BY <2>1 DEF InstanceItem, InstanceAllowed
  <2>3. /\ draft'.instances[p0] =
             [draft.instances[p0] EXCEPT
                ![Item.id] = [key |-> Item.key, type |-> Item.type]]
        /\ draft'.external[p0] = [KeyMoved(Item.id) EXCEPT ![Item.key] = Item.id]
    BY <1>1, <2>1, PutInstanceEffect
  <2>4. draft.instances[p0] \in [SequenceIds -> Instance \cup {NoConfig}]
    BY <1>1, <2>1 DEF Configs
  <2>5. KeyMoved(Item.id) \in [Keys -> SequenceIds \cup {NoSequence}]
    BY <1>1, <2>1, <2>2, KeyMovedType
  <2>6. r.items[i].id \in SequenceIds /\ r.items[i].type \in Types
    BY <1>1, <1>8, <1>10, ItemsType DEF InstanceItem
  <2>7. CASE i = n
    BY <1>5, <1>10, <2>2, <2>3, <2>4, <2>5, <2>7 DEF Stored
  <2>8. CASE i < n
    <3> DEFINE s == r.items[i].id
               k == r.items[i].key
    <3>1. /\ draft.instances[p0][s] = [key |-> k, type |-> r.items[i].type]
          /\ draft.external[p0][k] = s /\ k \in Keys
      BY <1>1, <1>7, <1>10, <2>8 DEF DraftWhole, Stored
    <3>2. s # Item.id
      BY <1>6, <1>7, <2>8
    <3>3. KeyMoved(Item.id)[k] = s
      BY <3>1, <3>2 DEF KeyMoved
    <3>4. k # Item.key
      BY <2>1, <2>6, <3>2, <3>3, RegistryAssumption DEF InstanceAllowed
    <3>5. /\ draft'.instances[p0][s] = [key |-> k, type |-> r.items[i].type]
          /\ draft'.external[p0][k] = s
      BY <2>3, <2>4, <2>5, <2>6, <3>1, <3>2, <3>3, <3>4
    <3> QED BY <1>10, <3>1, <3>5 DEF Stored
  <2> QED BY <1>9, <2>7, <2>8
<1>11. CASE r.kind # "instance"
  <2>1. /\ r.kind \in Kinds /\ Item \in EntryItem /\ p0 \in Projects
        /\ PutEntry
    BY <1>1, <1>11, ItemType DEF TakeItem
  <2>2. r.items[i].id \in EntryIds
    BY <1>1, <1>8, <1>11, ItemsType DEF EntryItem
  <2>3. draft'.entries[r.kind][p0][r.items[i].id] =
          IF r.items[i].id = Item.id THEN Item.refs
          ELSE draft.entries[r.kind][p0][r.items[i].id]
    BY <1>1, <2>1, <2>2, PutEntryEffect
  <2>4. CASE i = n
    BY <1>5, <1>11, <2>3, <2>4 DEF Stored
  <2>5. CASE i < n
    <3>1. draft.entries[r.kind][p0][r.items[i].id] = r.items[i].refs
      BY <1>1, <1>7, <1>11, <2>5 DEF DraftWhole, Stored
    <3> QED BY <1>6, <1>7, <1>11, <2>3, <2>5, <3>1 DEF Stored
  <2> QED BY <1>9, <1>11, <2>4, <2>5
<1> QED BY <1>10, <1>11

LEMMA WholeStep ==
  ASSUME TypeOK, DraftWhole, [Next]_vars
  PROVE  DraftWhole'
<1>1. CASE TakeItem
  BY <1>1, TakeItemKeepsWhole
<1>2. CASE Begin
  <2>1. writer'.next = 1
    BY <1>2 DEF Begin
  <2> QED BY <2>1 DEF DraftWhole
<1>3. CASE RefuseItem \/ Publish
  BY <1>3 DEF RefuseItem, Publish, DraftWhole
<1>4. CASE UNCHANGED <<draft, writer>>
  BY <1>4 DEF DraftWhole, Stored
<1> QED BY <1>1, <1>2, <1>3, <1>4
        DEF Next, Receive, Resolve, Find, Match, Deliver, Reading, vars

(* What a reader sees after an upsert is all of it.                        *)
THEOREM RegistryPublishesWhole == Spec => PublishedWhole
<1>1. TypeOK /\ DraftWhole /\ [Next]_vars => (TypeOK /\ DraftWhole)'
  BY TypeStep, WholeStep
<1>2. Init => TypeOK /\ DraftWhole
  <2>1. Init => TypeOK
    BY DEF Init, Empty, TypeOK, Configs, CallerStates, CallerOK, Idle
  <2> QED BY <2>1 DEF Init, DraftWhole
<1>3. TypeOK /\ DraftWhole /\ [Next]_vars
        => [Publish => \A i \in 1 .. Len(Items) :
                         Stored(config', writer.request, i)]_vars
  <2> SUFFICES ASSUME TypeOK, DraftWhole, Publish, NEW i \in 1 .. Len(Items)
               PROVE  Stored(config', writer.request, i)
    OBVIOUS
  <2>1. /\ writer # Free /\ ~(writer.next <= Len(Items)) /\ config' = draft
    BY DEF Publish, OnItem
  <2>2. writer \in [request : Requests, next : Nat \ {0}]
    BY <2>1 DEF TypeOK
  <2>3. Len(Items) \in Nat
    <3>1. writer.request \in Request
      BY <2>2, RegistryAssumption
    <3> QED BY <3>1 DEF Items, Request
  <2>4. i \in 1 .. writer.next - 1
    BY <2>1, <2>2, <2>3
  <2> QED BY <2>1, <2>4 DEF DraftWhole
<1> QED BY <1>1, <1>2, <1>3, PTL DEF Spec, PublishedWhole
=============================================================================
